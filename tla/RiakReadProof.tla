--------------------------- MODULE RiakReadProof ---------------------------
(***************************************************************************)
(* Proofs about riak_read, for every stream of frames, every width of the  *)
(* counters and every way the stream is cut into deliveries and calls.     *)
(***************************************************************************)
EXTENDS RiakRead, SequenceTheorems, TLAPS

-----------------------------------------------------------------------------
(* The stream: frames tile it, and a byte's place in it names its frame. *)

\* A frame's length is that of its id and payload, and fits in a uint32.
LEMMA FrameLengths ==
    \A k \in Frame : /\ Start[k] \in Nat /\ Start[k + 1] \in Nat
                     /\ FrameLen(k) \in 1..(UInt32Size - 1)
                     /\ BodyStart(k) = Start[k] + 4
                     /\ Start[k + 1] = BodyStart(k) + FrameLen(k)
  BY FramesAssumption, WidthAssumption DEF Frame, FrameLen, BodyStart, HeaderLen

\* No frame reaches past the stream's end.
LEMMA FramesInStream ==
    /\ Total \in Nat
    /\ \A k \in 1..(NFrames + 1) : Start[k] \in Nat /\ Start[k] <= Total
<1>1. \A k \in 1..(NFrames + 1) : k = NFrames + 1 \/ k < NFrames + 1
  BY FramesAssumption
<1>2. QED  BY <1>1, FramesAssumption DEF Total, HeaderLen

\* The lengths riak_read may find are uint32 values.
LEMMA LengthsFit == Lengths \subseteq 0..(UInt32Size - 1)
<1> SUFFICES ASSUME NEW n \in Lengths PROVE n \in 0..(UInt32Size - 1)
  OBVIOUS
<1>1. CASE n \in ForeignLen
  BY <1>1, WidthAssumption
<1>2. CASE \E k \in Frame : n = FrameLen(k)
  BY <1>2, FrameLengths, WidthAssumption
<1>3. QED  BY <1>1, <1>2 DEF Lengths

\* What ntohl makes of four bytes is one of these lengths.
LEMMA SpeltLengths == \A bytes : LengthsSpeltBy(bytes) \subseteq Lengths
  BY DEF LengthsSpeltBy, Lengths

\* A prefix spells the length of its own frame.
LEMMA PrefixSpells ==
    \A k \in Frame : LengthsSpeltBy(PrefixOf(k)) = {FrameLen(k)}
<1> SUFFICES ASSUME NEW k \in Frame, NEW j \in Frame, PrefixOf(k) = PrefixOf(j)
             PROVE  j = k
  BY DEF LengthsSpeltBy
<1>1. Start[k] = Start[j]
  <2>1. PrefixOf(k)[0] = Start[k] + 1 /\ PrefixOf(j)[0] = Start[j] + 1
    BY FrameLengths DEF PrefixOf, HeaderLen
  <2>2. QED  BY <2>1, FrameLengths
<1>2. QED  BY <1>1, FramesAssumption DEF Frame, HeaderLen

\* A message's bytes name its frame, and no other.
LEMMA BodyNamesFrame == \A k \in Frame : FrameIn(BodyOf(k)) = k
<1> SUFFICES ASSUME NEW k \in Frame, NEW j \in Frame, BodyOf(k) = BodyOf(j)
             PROVE  j = k
  BY DEF FrameIn
<1>1. Start[k] = Start[j]
  <2>1. BodyOf(k)[0] = Start[k] + 5
    BY FrameLengths DEF BodyOf
  <2>2. BodyOf(j)[0] = Start[j] + 5
    BY FrameLengths DEF BodyOf
  <2>3. QED  BY <2>1, <2>2, FrameLengths
<1>2. QED  BY <1>1, FramesAssumption DEF Frame, HeaderLen

\* FrameIn names a frame of the server's or nothing.
LEMMA FrameInRange == \A buf : FrameIn(buf) \in 0..NFrames
  BY FramesAssumption DEF FrameIn, Frame

\* The first two callbacks of an operation, as a sequence.
LEMMA FirstCalls ==
    \A c, d : Append(<<>>, c) = <<c>> /\ Append(<<c>>, d) = <<c, d>>
<1> TAKE c, d
<1>1. Append(<<>>, c) = <<c>>
  OBVIOUS
<1>2. <<c>> \in Seq({c, d}) /\ Len(<<c>>) = 1 /\ <<c>>[1] = c
  OBVIOUS
<1>3. /\ Append(<<c>>, d) \in Seq({c, d}) /\ Len(Append(<<c>>, d)) = 2
      /\ Append(<<c>>, d)[1] = c /\ Append(<<c>>, d)[2] = d
  BY <1>2
<1>4. <<c, d>> \in Seq({c, d}) /\ Len(<<c, d>>) = 2
      /\ <<c, d>>[1] = c /\ <<c, d>>[2] = d
  OBVIOUS
<1>5. Append(<<c>>, d) = <<c, d>>
  <2>1. \A i \in 1..Len(Append(<<c>>, d)) : Append(<<c>>, d)[i] = <<c, d>>[i]
    BY <1>3, <1>4
  <2>2. QED  BY <1>3, <1>4, <2>1, SeqEqual
<1>6. QED  BY <1>1, <1>5

-----------------------------------------------------------------------------
(* Type correctness, under every fault. *)

\* What a call of read_cb may answer when want bytes are asked for.
LEMMA ReadCountsRange ==
    ASSUME TypeOK, NEW want \in Int, NEW n \in ReadCounts(want)
    PROVE  \/ n = -1 /\ "read_error" \in Faults
           \/ /\ n \in Int /\ n <= want
              /\ n <= arrived - consumed
              /\ n = want \/ n = arrived - consumed
  BY FramesInStream DEF TypeOK, ReadCounts, Lesser

\* The width of the counters leaves room for a prefix and an id byte.
LEMMA WidthRoom == UInt32Size \in Nat /\ UInt32Size > 5
<1>1. 1 \in Frame /\ 1 \in 1..(NFrames + 1) /\ 2 \in 1..(NFrames + 1)
  BY FramesAssumption DEF Frame
<1>2. Start[1] + 4 < Start[2] /\ Start[2] - Start[1] < UInt32Size
  BY <1>1, FramesAssumption, WidthAssumption DEF HeaderLen
<1>3. QED  BY <1>1, <1>2, FramesAssumption, WidthAssumption

\* Copying bytes that have arrived into a buffer leaves a buffer of the stream.
LEMMA FilledType ==
    ASSUME TypeOK, NEW m \in Int, NEW buf \in [0..(m - 1) -> 0..Total],
           NEW at \in Nat, NEW n \in Int, n <= arrived - consumed
    PROVE  Filled(buf, at, n) \in [0..(m - 1) -> 0..Total]
<1>1. arrived \in Nat /\ consumed \in Nat /\ arrived <= Total /\ Total \in Nat
  BY FramesInStream DEF TypeOK
<1>2. ASSUME NEW i \in 0..(m - 1), at <= i, i < at + n
      PROVE  consumed + 1 + (i - at) \in 0..Total
  BY <1>1, <1>2
<1>3. QED  BY <1>1, <1>2 DEF Filled

\* Adding what read_cb answered to the position keeps it a uint32.
LEMMA PositionType ==
    ASSUME TypeOK, NEW n \in ReadCounts(WantBody)
    PROVE  Wrap(position + n) \in 0..(UInt32Size - 1)
<1>1. /\ position \in 0..(UInt32Size - 1) /\ msglen \in 0..(UInt32Size - 1)
      /\ WantBody \in Nat /\ WantBody <= msglen - position + UInt32Size
      /\ arrived - consumed \in Nat
  BY WidthRoom, FramesInStream DEF TypeOK, WantBody
<1>2. n \in Int /\ n >= -1 /\ n <= WantBody
  BY <1>1 DEF ReadCounts, Lesser
<1>3. QED  BY <1>1, <1>2, WidthRoom DEF Wrap

\* A frame decoded into the response keeps it a sequence of frames.
LEMMA ExtendedType == TypeOK => Extended \in Seq(0..NFrames)
  BY FrameInRange DEF TypeOK, Extended

\* A callback record.
LEMMA CalledType ==
    ASSUME NEW cb \in {"response", "error"}, NEW answer \in Seq(0..NFrames),
           NEW err \in BOOLEAN
    PROVE  Called(cb, answer, err) \in Callbacks
  BY DEF Called, Callbacks

\* The initial state has the types.
LEMMA InitTyped == Init => TypeOK
<1> SUFFICES ASSUME Init PROVE TypeOK
  OBVIOUS
<1> USE DEF Init
<1>1. UInt32Size \in Nat /\ UInt32Size > 5 /\ Total \in Nat
  BY WidthRoom, FramesInStream
<1>2. prefix \in [0..(HeaderLen - 1) -> 0..Total]
  BY <1>1 DEF Zeroed
<1>3. response \in Seq(0..NFrames) /\ calls \in Seq(Callbacks)
  OBVIOUS
<1>4. arrived \in 0..Total /\ consumed \in 0..arrived /\ dispatched \in Nat
  BY <1>1
<1>5. position \in 0..(UInt32Size - 1) /\ msglen \in 0..(UInt32Size - 1)
  BY <1>1
<1>6. IsBuffer(msgbuf) /\ pc \in Pcs /\ ret \in Codes
  BY DEF IsBuffer, Pcs, Codes
<1>7. QED  BY <1>2, <1>3, <1>4, <1>5, <1>6 DEF TypeOK

\* Reading the length keeps the types.
LEMMA HeaderTyped ==
    ASSUME TypeOK, NEW n \in ReadCounts(WantHeader), ReadHeader(n)
    PROVE  TypeOK'
<1>1. /\ n \in Int /\ n <= arrived - consumed
      /\ arrived \in Nat /\ consumed \in Nat /\ consumed <= arrived
  BY ReadCountsRange, FramesInStream DEF TypeOK, WantHeader, HeaderLen
<1>2. consumed' \in 0..arrived
  BY <1>1 DEF ReadHeader, HeaderComplete, HeaderPartial, HeaderNothing, Read, TypeOK
<1>3. Filled(prefix, position, n) \in [0..(HeaderLen - 1) -> 0..Total]
  <2>1. HeaderLen \in Int
    BY DEF HeaderLen
  <2>2. prefix \in [0..(HeaderLen - 1) -> 0..Total] /\ position \in Nat
    BY DEF TypeOK
  <2>3. QED  BY <1>1, <2>1, <2>2, FilledType
<1>4. CASE HeaderComplete(n)
  <2>1. PICK len \in LengthsSpeltBy(Filled(prefix, position, n)) :
          /\ msglen' = len
          /\ \/ msgbuf' = [i \in 0..(len - 1) |-> 0] /\ pc' = "body" /\ ret' = ret
             \/ msgbuf' = NoBuffer /\ Return("READ")
    BY <1>4 DEF HeaderComplete
  <2>2. len \in Lengths /\ len \in 0..(UInt32Size - 1)
    BY <2>1, SpeltLengths, LengthsFit
  <2>3. IsBuffer(msgbuf') /\ pc' \in Pcs /\ ret' \in Codes
    BY <2>1, <2>2, FramesInStream DEF IsBuffer, Return, Pcs, Codes, TypeOK
  <2>4. prefix' \in [0..(HeaderLen - 1) -> 0..Total]
    BY <1>4, FramesInStream DEF HeaderComplete, Zeroed
  <2>5. QED  BY <1>2, <1>4, <2>1, <2>2, <2>3, <2>4 DEF HeaderComplete, TypeOK, IsBuffer
<1>5. CASE HeaderPartial(n)
  <2>1. position' \in 0..(UInt32Size - 1)
    BY <1>5, <1>1, WidthRoom DEF HeaderPartial, WantHeader, HeaderLen, TypeOK
  <2>2. QED
    BY <1>2, <1>3, <1>5, <2>1
    DEF HeaderPartial, TypeOK, IsBuffer, Return, Pcs, Codes
<1>6. CASE HeaderNothing(n)
  BY <1>6 DEF HeaderNothing, TypeOK, IsBuffer, Return, Pcs, Codes, rop
<1>7. QED  BY <1>4, <1>5, <1>6 DEF ReadHeader

\* So does reading the message, whatever the position was.
LEMMA BodyTyped ==
    ASSUME TypeOK, NEW n \in ReadCounts(WantBody), ReadBody(n) \/ WriteOutside(n)
    PROVE  TypeOK'
<1>0. WantBody \in Int
  BY WidthRoom DEF WantBody, TypeOK
<1>1. /\ n \in Int /\ n <= arrived - consumed
      /\ arrived \in Nat /\ consumed \in Nat /\ consumed <= arrived
  BY <1>0, ReadCountsRange, FramesInStream DEF TypeOK
<1>2. consumed' \in 0..arrived
  BY <1>1 DEF ReadBody, WriteOutside, Read, TypeOK
<1>3. CASE ReadBody(n)
  <2>1. position' \in 0..(UInt32Size - 1)
    BY <1>3, PositionType DEF ReadBody
  <2>2. IsBuffer(msgbuf')
    <3>1. CASE n <= 0
      BY <1>1, <1>3, <3>1 DEF ReadBody, TypeOK, IsBuffer
    <3>2. CASE n > 0
      <4>1. PICK m \in Lengths : msgbuf \in [0..(m - 1) -> 0..Total]
        BY <1>3, <3>2 DEF ReadBody, TypeOK, IsBuffer
      <4>2. m \in Int /\ position \in Nat
        BY LengthsFit DEF TypeOK
      <4>3. Filled(msgbuf, position, n) \in [0..(m - 1) -> 0..Total]
        BY <1>1, <4>1, <4>2, FilledType
      <4>4. QED  BY <1>3, <3>2, <4>3 DEF ReadBody, IsBuffer
    <3>3. QED  BY <1>1, <3>1, <3>2
  <2>3. pc' \in Pcs /\ ret' \in Codes
    BY <1>3 DEF ReadBody, Return, Pcs, Codes, TypeOK
  <2>4. QED  BY <1>2, <1>3, <2>1, <2>2, <2>3 DEF ReadBody, TypeOK
<1>4. CASE WriteOutside(n)
  BY <1>2, <1>4 DEF WriteOutside, TypeOK, IsBuffer, Pcs, rop
<1>5. QED  BY <1>3, <1>4

\* And dispatching it, whatever it turns out to be.
LEMMA DispatchTyped == ASSUME TypeOK, Dispatch PROVE TypeOK'
<1>1. Reset
  BY DEF Dispatch, DispatchMore, DispatchLast, DispatchError, DispatchBad,
         DispatchNoMemory, DispatchNull, DispatchBadError
<1>0. /\ dispatched' \in Nat /\ position' \in 0..(UInt32Size - 1)
      /\ msglen' \in 0..(UInt32Size - 1) /\ msglen_complete' \in BOOLEAN
      /\ arrived' \in 0..Total /\ consumed' \in 0..arrived'
      /\ prefix' \in [0..(HeaderLen - 1) -> 0..Total]
  <2>1. 0 \in 0..(UInt32Size - 1)
    BY WidthRoom
  <2>2. dispatched \in Nat /\ arrived \in 0..Total /\ consumed \in 0..arrived
        /\ prefix \in [0..(HeaderLen - 1) -> 0..Total]
    BY DEF TypeOK
  <2>3. /\ dispatched' = dispatched + 1 /\ position' = 0 /\ msglen' = 0
        /\ arrived' = arrived /\ consumed' = consumed /\ prefix' = prefix
    BY <1>1 DEF Reset
  <2>4. dispatched' \in Nat
    BY <2>2, <2>3
  <2>5. arrived' \in 0..Total /\ consumed' \in 0..arrived'
    BY <2>2, <2>3
  <2>6. msglen_complete' \in BOOLEAN
    BY <1>1 DEF Reset
  <2>7. QED  BY <2>1, <2>2, <2>3, <2>4, <2>5, <2>6
<1>2. IsBuffer(msgbuf')
  BY DEF TypeOK, IsBuffer, Dispatch, DispatchMore, DispatchLast, DispatchError,
         DispatchBad, DispatchNoMemory, DispatchNull, DispatchBadError
<1>3. pc' \in Pcs /\ ret' \in Codes /\ error' \in BOOLEAN /\ done_streaming' \in BOOLEAN
  BY DEF TypeOK, Return, Pcs, Codes, Dispatch, DispatchMore, DispatchLast, DispatchError,
         DispatchBad, DispatchNoMemory, DispatchNull, DispatchBadError
<1>4. response' \in Seq(0..NFrames)
  <2>1. response \in Seq(0..NFrames) /\ Extended \in Seq(0..NFrames)
    BY ExtendedType DEF TypeOK
  <2>2. response' \in {response, Extended, <<>>}
    BY DEF Dispatch, DispatchMore, DispatchLast, DispatchError, DispatchBad,
           DispatchNoMemory, DispatchNull, DispatchBadError, Abandoned
  <2>3. <<>> \in Seq(0..NFrames)
    OBVIOUS
  <2>4. QED  BY <2>1, <2>2, <2>3
<1>5. calls' \in Seq(Callbacks)
  <2>0. /\ Called("error", <<>>, error) \in Callbacks
        /\ Called("error", <<>>, error') \in Callbacks
        /\ Called("response", Extended, error) \in Callbacks
        /\ calls \in Seq(Callbacks)
    <3>1. <<>> \in Seq(0..NFrames) /\ error \in BOOLEAN /\ error' \in BOOLEAN
      BY <1>3 DEF TypeOK
    <3>2. QED  BY <3>1, CalledType, ExtendedType DEF TypeOK
  <2>6. \A cs \in Seq(Callbacks), c \in Callbacks : Calling(cs, c) \in Seq(Callbacks)
    BY DEF Calling
  <2>1. CASE DispatchLast
    BY <2>0, <2>6, <2>1 DEF DispatchLast
  <2>2. CASE DispatchError
    BY <2>0, <2>6, <2>2 DEF DispatchError, ErrorCalls
  <2>3. CASE DispatchBadError
    BY <2>0, <2>6, <2>3 DEF DispatchBadError
  <2>4. CASE DispatchMore \/ DispatchBad \/ DispatchNoMemory \/ DispatchNull
    BY <2>0, <2>4 DEF DispatchMore, DispatchBad, DispatchNoMemory, DispatchNull
  <2>5. QED  BY <2>1, <2>2, <2>3, <2>4 DEF Dispatch
<1>6. QED  BY <1>0, <1>2, <1>3, <1>4, <1>5 DEF TypeOK

\* Every step keeps the types.
LEMMA StepTyped == TypeOK /\ [Next]_vars => TypeOK'
<1> SUFFICES ASSUME TypeOK, [Next]_vars PROVE TypeOK'
  OBVIOUS
<1>1. CASE Network
  BY <1>1, FramesInStream, EnvironmentAssumption
  DEF Network, Arrive, TypeOK, IsBuffer, rop
<1>2. CASE Call
  BY <1>2 DEF Call, Enter, ResumeAt, TypeOK, IsBuffer, Pcs, Codes, rop
<1>3. CASE ReadSome
  BY <1>3, HeaderTyped, BodyTyped DEF ReadSome
<1>4. CASE Dispatch
  BY <1>4, DispatchTyped
<1>5. CASE UNCHANGED vars
  BY <1>5 DEF vars, rop, TypeOK, IsBuffer
<1>6. QED  BY <1>1, <1>2, <1>3, <1>4, <1>5 DEF Next, Step, Stopped

\* riak_read's counters stay in range, its buffer holds bytes of the stream,
\* whatever fails and however the stream is cut.
THEOREM TypeCorrect == Spec => []TypeOK
  BY InitTyped, StepTyped, PTL DEF Spec

-----------------------------------------------------------------------------
(* Frames come out whole and in order when deliveries do not cut a prefix  *)
(* and reads do not fail.  The counts and the buffer of the operation are  *)
(* then functions of the frames taken and of position (Cursor).            *)

Uncut == "read_error" \notin Faults /\ \A b \in Cuts : ~InPrefix(b)

CursorInv == TypeOK /\ Cursor

\* What is known of the stream at the next frame.
LEMMA NextFrame ==
    ASSUME dispatched \in 0..NFrames
    PROVE  /\ Start[dispatched + 1] \in Nat
           /\ dispatched < NFrames => dispatched + 1 \in Frame
           /\ dispatched = NFrames => Start[dispatched + 1] = Total
<1>1. dispatched + 1 \in 1..(NFrames + 1)
  BY FramesAssumption
<1>2. Start[dispatched + 1] \in Nat
  BY <1>1, FramesInStream
<1>3. QED  BY <1>2, FramesAssumption DEF Frame, Total

LEMMA CursorInit == Init => Cursor
<1> SUFFICES ASSUME Init PROVE Cursor
  OBVIOUS
<1>1. ~InPrefix(arrived)
  BY FrameLengths DEF Init, InPrefix
<1>2. QED  BY <1>1, FramesAssumption DEF Init, Cursor, Frame

\* Reading the length, from the frame's start: all four bytes or none.
LEMMA HeaderCursor ==
    ASSUME Uncut, CursorInv, NEW n \in ReadCounts(WantHeader), ReadHeader(n)
    PROVE  Cursor'
<1> DEFINE k == dispatched + 1
<1>1. /\ pc = "header" /\ ~msglen_complete /\ position = 0 /\ prefix = Zeroed
      /\ consumed = Start[k] /\ dispatched \in 0..NFrames
  BY DEF CursorInv, Cursor, ReadHeader, HeaderComplete, HeaderPartial, HeaderNothing
<1>2. /\ Start[k] \in Nat /\ arrived \in Nat /\ arrived <= Total
      /\ dispatched < NFrames => k \in Frame
      /\ dispatched = NFrames => Start[k] = Total
  BY <1>1, NextFrame, FramesInStream DEF CursorInv, TypeOK
<1>3. n \in {0, 4} /\ (n = 4 => k \in Frame /\ arrived >= Start[k] + 4)
  <2>1. WantHeader = 4 /\ consumed <= arrived /\ consumed \in Nat
    BY <1>1, FramesInStream DEF WantHeader, HeaderLen, CursorInv, TypeOK
  <2>2. n = Lesser(4, arrived - consumed)
    BY <2>1 DEF ReadCounts, Uncut
  <2>3. CASE dispatched = NFrames
    BY <1>1, <1>2, <2>1, <2>2, <2>3 DEF Lesser
  <2>4. CASE dispatched < NFrames
    <3>1. ~(Start[k] < arrived /\ arrived < Start[k] + 4)
      BY <1>2, <2>4, FrameLengths DEF InPrefix, CursorInv, Cursor
    <3>2. QED  BY <1>1, <1>2, <2>1, <2>2, <2>4, <3>1 DEF Lesser
  <2>5. QED  BY <1>1, <2>3, <2>4, FramesAssumption
<1>4. CASE n = 0
  <2>1. HeaderNothing(n)
    BY <1>1, <1>4 DEF ReadHeader, HeaderComplete, HeaderPartial, WantHeader, HeaderLen
  <2>2. QED
    BY <1>1, <2>1 DEF HeaderNothing, Return, CursorInv, Cursor, InPrefix, rop
<1>5. CASE n = 4
  <2>1. HeaderComplete(n)
    BY <1>1, <1>5 DEF ReadHeader, HeaderPartial, HeaderNothing, WantHeader, HeaderLen
  <2>2. Filled(prefix, position, n) = PrefixOf(k)
    BY <1>1, <1>2, <1>5 DEF Filled, Zeroed, PrefixOf, HeaderLen
  <2>3. LengthsSpeltBy(Filled(prefix, position, n)) = {FrameLen(k)}
    BY <1>3, <1>5, <2>2, PrefixSpells
  <2>4. /\ msglen' = FrameLen(k) /\ consumed' = Start[k] + 4
        /\ position' = 0 /\ msglen_complete' /\ prefix' = Zeroed
        /\ dispatched' = dispatched /\ arrived' = arrived
        /\ \/ msgbuf' = [i \in 0..(FrameLen(k) - 1) |-> 0] /\ pc' = "body"
           \/ msgbuf' = NoBuffer /\ pc' = "idle"
    BY <1>1, <1>5, <2>1, <2>3 DEF HeaderComplete, Read, Return
  <2>5. FrameLen(k) \in Nat /\ FrameLen(k) > 0 /\ BodyStart(k) = Start[k] + 4
    BY <1>3, <1>5, FrameLengths
  <2>6. [i \in 0..(FrameLen(k) - 1) |-> 0] # NoBuffer
    <3>1. 0 \in DOMAIN [i \in 0..(FrameLen(k) - 1) |-> 0] /\ 0 \notin DOMAIN NoBuffer
      BY <2>5 DEF NoBuffer
    <3>2. QED  BY <3>1
  <2>7. MidFrame(k)'
    BY <1>2, <1>3, <1>5, <2>4, <2>5, <2>6 DEF MidFrame
  <2>8. QED  BY <1>1, <2>4, <2>7 DEF Cursor, CursorInv, InPrefix
<1>6. QED  BY <1>3, <1>4, <1>5

\* Reading the message: position moves by what was read, and the bytes up to
\* it are the frame's.
LEMMA BodyCursor ==
    ASSUME Uncut, CursorInv, NEW n \in ReadCounts(WantBody),
           ReadBody(n) \/ WriteOutside(n)
    PROVE  Cursor'
<1> DEFINE k == dispatched + 1
<1>1. pc = "body" /\ msglen_complete /\ MidFrame(k) /\ dispatched \in 0..NFrames
  BY DEF CursorInv, Cursor, ReadBody, WriteOutside
<1>2. /\ k \in Frame /\ msglen = FrameLen(k) /\ msglen \in 1..(UInt32Size - 1)
      /\ position \in Nat /\ position < msglen
      /\ consumed = BodyStart(k) + position /\ BodyStart(k) \in Nat
  BY <1>1, FrameLengths DEF MidFrame, CursorInv, TypeOK
<1>3. n \in Nat /\ n <= msglen - position
  <2>1. WantBody = msglen - position /\ arrived - consumed \in Nat
    BY <1>2, FramesInStream DEF WantBody, CursorInv, TypeOK
  <2>2. n = Lesser(WantBody, arrived - consumed)
    BY <2>1 DEF ReadCounts, Uncut
  <2>3. QED  BY <1>2, <2>1, <2>2, WidthRoom DEF Lesser
<1>4. consumed' = consumed + n /\ dispatched' = dispatched /\ arrived' = arrived
  BY <1>2, <1>3 DEF ReadBody, WriteOutside, Read
<1>5. CASE WriteOutside(n)
  BY <1>1, <1>4, <1>5 DEF WriteOutside, Cursor, CursorInv, InPrefix, rop
<1>6. CASE ReadBody(n)
  <2>1. position' = position + n
    BY <1>2, <1>3, <1>6, WidthRoom DEF ReadBody, Wrap
  <2>2. /\ msglen' = msglen /\ prefix' = prefix /\ msglen_complete'
        /\ \/ position' < msglen /\ pc' = "idle"
           \/ position' = msglen /\ pc' = "dispatch"
    BY <1>1, <1>2, <1>3, <1>6, <2>1 DEF ReadBody, Return
  <2>3. IF msgbuf' = NoBuffer THEN position' = 0
        ELSE msgbuf' = [i \in 0..(msglen - 1) |->
                          IF i < position' THEN BodyStart(k) + 1 + i ELSE 0]
    <3>1. CASE n = 0
      BY <1>1, <1>2, <1>6, <2>1, <3>1 DEF ReadBody, MidFrame
    <3>2. CASE n > 0
      <4>1. msgbuf = [i \in 0..(msglen - 1) |->
                        IF i < position THEN BodyStart(k) + 1 + i ELSE 0]
        BY <1>1, <1>6, <3>2 DEF ReadBody, MidFrame
      <4>2. msgbuf' = Filled(msgbuf, position, n)
        BY <1>6, <3>2 DEF ReadBody
      <4>3. Filled(msgbuf, position, n) =
              [i \in 0..(msglen - 1) |->
                 IF i < position + n THEN BodyStart(k) + 1 + i ELSE 0]
        BY <1>2, <1>3, <4>1 DEF Filled
      <4>4. 0 \in DOMAIN msgbuf' /\ 0 \notin DOMAIN NoBuffer
        BY <1>2, <4>2, <4>3 DEF NoBuffer
      <4>5. QED  BY <2>1, <4>2, <4>3, <4>4
    <3>3. QED  BY <1>3, <3>1, <3>2
  <2>4. consumed' = BodyStart(k) + position'
    BY <1>2, <1>3, <1>4, <2>1
  <2>5. MidFrame(k)'
    BY <1>2, <1>4, <2>2, <2>3, <2>4 DEF MidFrame, BodyStart, FrameLen
  <2>6. QED  BY <1>1, <1>4, <2>2, <2>5 DEF Cursor, CursorInv, InPrefix
<1>7. QED  BY <1>5, <1>6

\* A complete message is the next frame's.
LEMMA DispatchedFrame ==
    ASSUME CursorInv, pc = "dispatch"
    PROVE  /\ dispatched + 1 \in Frame
           /\ msgbuf = BodyOf(dispatched + 1)
           /\ consumed = Start[dispatched + 2]
<1> DEFINE k == dispatched + 1
<1>1. MidFrame(k) /\ dispatched \in Nat
  BY DEF CursorInv, Cursor, TypeOK
<1>2. /\ k \in Frame /\ msglen = FrameLen(k) /\ FrameLen(k) > 0 /\ FrameLen(k) \in Nat
      /\ position = msglen /\ consumed = BodyStart(k) + FrameLen(k)
      /\ BodyStart(k) \in Nat
  BY <1>1, FrameLengths DEF MidFrame
<1>3. msgbuf # NoBuffer
  BY <1>1, <1>2 DEF MidFrame
<1>4. msgbuf = BodyOf(k)
  BY <1>1, <1>2, <1>3 DEF MidFrame, BodyOf
<1>5. QED  BY <1>1, <1>2, <1>4, FrameLengths

LEMMA DispatchCursor == ASSUME CursorInv, Dispatch PROVE Cursor'
<1>1. Reset
  BY DEF Dispatch, DispatchMore, DispatchLast, DispatchError, DispatchBad,
         DispatchNoMemory, DispatchNull, DispatchBadError
<1>2. pc' \in {"header", "idle", "undefined"}
  BY DEF Dispatch, DispatchMore, DispatchLast, DispatchError, DispatchBad,
         DispatchNoMemory, DispatchNull, DispatchBadError, Return
<1>3. dispatched + 1 \in Frame /\ consumed = Start[dispatched + 2] /\ dispatched \in Nat
  BY <1>1, DispatchedFrame DEF Reset, CursorInv, TypeOK
<1>4. dispatched' \in 0..NFrames /\ consumed' = Start[dispatched' + 1]
  BY <1>1, <1>3, FramesAssumption DEF Reset, Frame
<1>5. QED  BY <1>1, <1>2, <1>4 DEF Reset, Cursor, CursorInv, InPrefix

LEMMA CursorStep == Uncut /\ CursorInv /\ [Next]_vars => Cursor'
<1> SUFFICES ASSUME Uncut, CursorInv, [Next]_vars PROVE Cursor'
  OBVIOUS
<1>1. CASE Network
  BY <1>1 DEF Network, Arrive, Uncut, CursorInv, Cursor, MidFrame, InPrefix, rop
<1>2. CASE Call
  BY <1>2 DEF Call, Enter, ResumeAt, CursorInv, Cursor, MidFrame, InPrefix, rop
<1>3. CASE ReadSome
  BY <1>3, HeaderCursor, BodyCursor DEF ReadSome
<1>4. CASE Dispatch
  BY <1>4, DispatchCursor
<1>5. CASE UNCHANGED vars
  BY <1>5 DEF vars, rop, CursorInv, Cursor, MidFrame, InPrefix
<1>6. QED  BY <1>1, <1>2, <1>3, <1>4, <1>5 DEF Next, Step, Stopped

\* riak_read keeps its place in the stream, whatever memory runs out and
\* whatever the messages hold.
THEOREM KeepsPlace == ASSUME Uncut PROVE Spec => []Cursor
<1>1. Init => CursorInv
  BY InitTyped, CursorInit DEF CursorInv
<1>2. CursorInv /\ [Next]_vars => CursorInv'
  BY Uncut, StepTyped, CursorStep DEF CursorInv
<1>3. CursorInv => Cursor
  BY DEF CursorInv
<1>4. QED  BY <1>1, <1>2, <1>3, PTL DEF Spec

\* Every message handed to a decoder is the server's next frame, byte by byte.
THEOREM FramesIntact == ASSUME Uncut PROVE Spec => []FrameIntegrity
<1>1. CursorInv => FrameIntegrity
  BY DispatchedFrame, FramesAssumption DEF FrameIntegrity, CursorInv, Cursor, Frame
<1>2. QED  BY <1>1, TypeCorrect, KeepsPlace, PTL DEF CursorInv

\* A call that returns early leaves the operation where the next call needs it.
THEOREM Resumes == ASSUME Uncut PROVE Spec => []ResumePoint
<1>1. CursorInv => ResumePoint
  BY DEF ResumePoint, CursorInv, Cursor, MidFrame
<1>2. QED  BY <1>1, TypeCorrect, KeepsPlace, PTL DEF CursorInv

-----------------------------------------------------------------------------
(* What a user with both callbacks is told, when in addition memory does   *)
(* not run out.                                                            *)

Sound == /\ Uncut /\ "alloc" \notin Faults
         /\ Registered = {"response", "error"}

ToldInv == CursorInv /\ Told

\* The answer grows by exactly the next frame.
LEMMA AnswerGrows ==
    ASSUME CursorInv, pc = "dispatch", response = [k \in 1..dispatched |-> k]
    PROVE  Extended = [k \in 1..(dispatched + 1) |-> k]
<1>1. FrameIn(msgbuf) = dispatched + 1 /\ dispatched \in Nat
  BY DispatchedFrame, BodyNamesFrame DEF CursorInv, TypeOK
<1>2. QED  BY <1>1 DEF Extended

\* A message buffer is there whenever a message is being read.
LEMMA BufferLive ==
    ASSUME Sound, CursorInv, Told, NEW n \in ReadCounts(WantBody)
    PROVE  ~WriteOutside(n)
<1> SUFFICES ASSUME WriteOutside(n) PROVE FALSE
  OBVIOUS
<1>1. pc = "body" /\ msglen_complete /\ n > 0 /\ MidFrame(dispatched + 1)
  BY DEF WriteOutside, CursorInv, Cursor
<1>2. msgbuf # NoBuffer /\ position + n > msglen
  BY <1>1 DEF WriteOutside, Told
<1>3. position < msglen /\ WantBody = msglen - position
      /\ position \in Nat /\ msglen \in Nat
  BY <1>1, WidthRoom DEF MidFrame, WantBody, CursorInv, TypeOK
<1>4. n <= WantBody
  BY <1>1, <1>3, FramesInStream DEF ReadCounts, Lesser, Sound, Uncut, CursorInv, TypeOK
<1>5. QED  BY <1>1, <1>2, <1>3, <1>4, FramesInStream DEF ReadCounts, Lesser, CursorInv, TypeOK

\* While riak_read runs the user has been told nothing.
LEMMA Untold ==
    ASSUME Told, pc \notin {"idle", "undefined"}
    PROVE  /\ ~done_streaming /\ calls = <<>> /\ error = FALSE
           /\ response = [k \in 1..dispatched |-> k]
           /\ msglen_complete => msgbuf # NoBuffer
<1>1. ~Ending
  BY DEF Ending
<1>2. QED  BY <1>1, Zenon DEF Told

LEMMA ReadTold == ASSUME Sound, ToldInv, ReadSome PROVE Told'
<1>0. pc \in {"header", "body"}
  BY DEF ReadSome, ReadHeader, HeaderComplete, HeaderPartial, HeaderNothing,
         ReadBody, WriteOutside
<1>1. /\ ~done_streaming /\ calls = <<>> /\ error = FALSE
      /\ response = [k \in 1..dispatched |-> k]
      /\ msglen_complete => msgbuf # NoBuffer
  BY <1>0, Untold DEF ToldInv
<1>2. /\ calls' = calls /\ error' = error /\ response' = response
      /\ dispatched' = dispatched /\ done_streaming' = done_streaming
  BY DEF ReadSome, ReadHeader, HeaderComplete, HeaderPartial, HeaderNothing,
         ReadBody, WriteOutside, rop
<1>3. pc' # "undefined" /\ (msglen_complete' => msgbuf' # NoBuffer)
  <2>1. CASE \E n \in ReadCounts(WantHeader) : HeaderComplete(n)
    <3>1. PICK n \in ReadCounts(WantHeader) : HeaderComplete(n)
      BY <2>1
    <3>2. PICK len \in LengthsSpeltBy(Filled(prefix, position, n)) :
            msglen' = len /\ msgbuf' = [i \in 0..(len - 1) |-> 0] /\ pc' = "body"
      BY <3>1 DEF HeaderComplete, Sound
    <3>3. Cursor' /\ msglen_complete'
      BY <3>1, HeaderCursor DEF ReadHeader, Sound, ToldInv, HeaderComplete
    <3>4. len \in Nat /\ len > 0
      BY <3>2, <3>3, FrameLengths DEF Cursor, MidFrame
    <3>5. 0 \in DOMAIN msgbuf' /\ 0 \notin DOMAIN NoBuffer
      BY <3>2, <3>4 DEF NoBuffer
    <3>6. QED  BY <3>2, <3>5
  <2>2. CASE \E n \in ReadCounts(WantHeader) : HeaderPartial(n) \/ HeaderNothing(n)
    BY <2>2, <1>1 DEF HeaderPartial, HeaderNothing, Return, rop, ToldInv, Told, CursorInv, Cursor
  <2>3. CASE \E n \in ReadCounts(WantBody) : ReadBody(n)
    <3>1. PICK n \in ReadCounts(WantBody) : ReadBody(n)
      BY <2>3
    <3>2. pc' # "undefined" /\ msgbuf # NoBuffer
      BY <3>1, <1>1 DEF ReadBody, Return, ToldInv, Told, CursorInv, Cursor
    <3>3. IsBuffer(msgbuf) /\ (msgbuf' = msgbuf \/ msgbuf' = Filled(msgbuf, position, n))
      BY <3>1 DEF ReadBody, ToldInv, CursorInv, TypeOK
    <3>4. DOMAIN Filled(msgbuf, position, n) = DOMAIN msgbuf
      BY DEF Filled
    <3>5. DOMAIN msgbuf # DOMAIN NoBuffer
      <4>1. PICK m \in Lengths : msgbuf \in [0..(m - 1) -> 0..Total]
        BY <3>2, <3>3 DEF IsBuffer
      <4>2. m \in Int /\ -1 \notin 0..(m - 1)
        BY LengthsFit
      <4>3. -1 \in DOMAIN NoBuffer /\ DOMAIN msgbuf = 0..(m - 1)
        BY <4>1 DEF NoBuffer
      <4>4. QED  BY <4>2, <4>3
    <3>6. QED  BY <3>2, <3>3, <3>4, <3>5
  <2>4. CASE \E n \in ReadCounts(WantBody) : WriteOutside(n)
    BY <2>4, BufferLive DEF ToldInv
  <2>5. QED  BY <2>1, <2>2, <2>3, <2>4 DEF ReadSome, ReadHeader
<1>4. QED  BY <1>1, <1>2, <1>3 DEF ToldInv, Told

LEMMA DispatchTold == ASSUME Sound, ToldInv, Dispatch PROVE Told'
<1>1. Reset
  BY DEF Dispatch, DispatchMore, DispatchLast, DispatchError, DispatchBad,
         DispatchNoMemory, DispatchNull, DispatchBadError
<1>2. /\ ~done_streaming /\ calls = <<>> /\ error = FALSE
      /\ response = [k \in 1..dispatched |-> k]
  BY <1>1, Untold DEF Reset, ToldInv
<1>3. Extended = [k \in 1..dispatched' |-> k] /\ ~msglen_complete'
  BY <1>1, <1>2, AnswerGrows DEF Reset, ToldInv
<1>4. CASE DispatchMore
  <2>1. ~done_streaming' /\ calls' = <<>> /\ error' = FALSE /\ pc' = "header"
    BY <1>2, <1>4 DEF DispatchMore
  <2>2. response' = Extended
    BY <1>4 DEF DispatchMore
  <2>3. QED  BY <1>3, <2>1, <2>2 DEF Told
<1>5. CASE DispatchLast
  <2>1. pc' = "idle" /\ ret' = "OK" /\ response' = Extended /\ done_streaming'
    BY <1>5 DEF DispatchLast, Return
  <2>2. calls' = <<Called("response", Extended, FALSE)>>
    <3>1. calls' = Append(calls, Called("response", Extended, error))
      BY <1>5 DEF DispatchLast, Calling, Called, Sound
    <3>2. calls' = Append(<<>>, Called("response", Extended, FALSE))
      BY <1>2, <3>1, Zenon
    <3>3. QED  BY <3>2, FirstCalls, Zenon
  <2>3. Ending'
    BY <1>3, <2>1, <2>2 DEF Ending
  <2>4. QED  BY <1>3, <2>1, <2>3 DEF Told
<1>6. CASE DispatchError
  <2>1. pc' = "idle" /\ ret' = "SERVER_ERROR" /\ response' = <<>> /\ done_streaming'
    BY <1>6 DEF DispatchError, Return
  <2>2. calls' = <<Called("error", <<>>, FALSE), Called("error", <<>>, TRUE)>>
    <3>1. /\ calls' = Append(Append(calls, Called("error", <<>>, error)),
                              Called("error", <<>>, error'))
          /\ error' = TRUE
      BY <1>6 DEF DispatchError, ErrorCalls, Calling, Called, Sound
    <3>2. calls' = Append(Append(<<>>, Called("error", <<>>, FALSE)),
                          Called("error", <<>>, TRUE))
      BY <1>2, <3>1, Zenon
    <3>3. QED  BY <3>2, FirstCalls, Zenon
  <2>3. Ending'
    BY <2>1, <2>2 DEF Ending
  <2>4. QED  BY <1>3, <2>1, <2>3 DEF Told
<1>7. CASE DispatchBad
  <2>1. pc' = "idle" /\ ret' = "READ" /\ calls' = <<>> /\ done_streaming'
    BY <1>2, <1>7 DEF DispatchBad, Return
  <2>2. QED  BY <1>3, <2>1 DEF Told, Ending
<1>8. CASE DispatchBadError
  <2>1. pc' = "undefined" /\ calls' = <<>> /\ done_streaming'
    BY <1>2, <1>8 DEF DispatchBadError, Sound
  <2>2. QED  BY <1>3, <2>1 DEF Told, Ending
<1>9. ~DispatchNoMemory /\ ~DispatchNull
  BY DEF DispatchNoMemory, DispatchNull, Sound
<1>10. QED  BY <1>4, <1>5, <1>6, <1>7, <1>8, <1>9 DEF Dispatch

LEMMA ToldStep == Sound /\ ToldInv /\ [Next]_vars => Told'
<1> SUFFICES ASSUME Sound, ToldInv, [Next]_vars PROVE Told'
  OBVIOUS
<1>1. CASE Network
  <2>1. UNCHANGED <<consumed, rop, done_streaming, pc, ret, dispatched, calls>>
    BY <1>1 DEF Network, Arrive
  <2>2. Ending' <=> Ending
    BY <2>1 DEF Ending, rop
  <2>3. QED  BY <2>1, <2>2, Zenon DEF ToldInv, Told, rop
<1>2. CASE Call
  BY <1>2 DEF Call, Enter, ResumeAt, ToldInv, Told, rop
<1>3. CASE ReadSome
  BY <1>3, ReadTold
<1>4. CASE Dispatch
  BY <1>4, DispatchTold
<1>5. CASE UNCHANGED vars
  BY <1>5 DEF vars, rop, ToldInv, Told, Ending
<1>6. QED  BY <1>1, <1>2, <1>3, <1>4, <1>5 DEF Next, Step, Stopped

\* The user hears nothing before the end, and then exactly what the end is.
THEOREM TellsUser == ASSUME Sound PROVE Spec => []Told
<1>1. Init => ToldInv
  BY InitTyped, CursorInit DEF ToldInv, CursorInv, Init, Told
<1>2. ToldInv /\ [Next]_vars => ToldInv'
  BY StepTyped, CursorStep, ToldStep DEF ToldInv, CursorInv, Sound
<1>3. ToldInv => Told
  BY DEF ToldInv
<1>4. QED  BY <1>1, <1>2, <1>3, PTL DEF Spec

\* The response callback gets the whole answer, once, and nothing else.
THEOREM AnswersWhole == ASSUME Sound PROVE Spec => []AnswerWhole
<1>1. CursorInv /\ Told => AnswerWhole
  <2> SUFFICES ASSUME CursorInv, Told, NEW i \in 1..Len(calls), calls[i].cb = "response"
               PROVE  /\ calls[i].answer = [k \in 1..dispatched |-> k]
                      /\ consumed = Start[dispatched + 1]
                      /\ Len(calls) = 1
    BY DEF AnswerWhole
  <2>1. done_streaming /\ pc = "idle" /\ ret = "OK" /\ ~msglen_complete
    BY DEF Told, Ending, Called
  <2>2. calls = <<Called("response", response, FALSE)>>
        /\ response = [k \in 1..dispatched |-> k]
    BY <2>1 DEF Told, Ending
  <2>3. QED  BY <2>1, <2>2 DEF Called, CursorInv, Cursor
<1>2. QED  BY <1>1, TypeCorrect, KeepsPlace, TellsUser, PTL DEF CursorInv, Sound

\* An operation that has ended has told its user how.
THEOREM ReportsOutcome == ASSUME Sound PROVE Spec => []OutcomeReported
<1>1. Told => OutcomeReported
  BY DEF Told, Ending, OutcomeReported, Finished, Called
<1>2. QED  BY <1>1, TellsUser, PTL

-----------------------------------------------------------------------------
(* One outcome, whatever fails and whatever the bytes are.                 *)

LEMMA SilentStep == TypeOK /\ Silent /\ [Next]_vars => Silent'
<1> SUFFICES ASSUME TypeOK, Silent, [Next]_vars PROVE Silent'
  OBVIOUS
<1>1. CASE Network
  <2>1. UNCHANGED <<done_streaming, pc, ret, calls>>
    BY <1>1 DEF Network, Arrive
  <2>2. QED  BY <2>1 DEF Silent
<1>2. CASE Call
  <2>1. ~done_streaming /\ ~done_streaming' /\ calls' = calls
    BY <1>2 DEF Call, Enter
  <2>2. QED  BY <2>1 DEF Silent
<1>3. CASE ReadSome
  <2>1. /\ pc \in {"header", "body"}
        /\ done_streaming' = done_streaming /\ calls' = calls
    BY <1>3 DEF ReadSome, ReadHeader, HeaderComplete, HeaderPartial, HeaderNothing,
                ReadBody, WriteOutside, rop
  <2>2. ~done_streaming /\ calls = <<>>
    BY <2>1 DEF Silent
  <2>3. QED  BY <2>1, <2>2 DEF Silent
<1>4. CASE Dispatch
  <2>1. Reset
    BY <1>4 DEF Dispatch, DispatchMore, DispatchLast, DispatchError, DispatchBad,
                DispatchNoMemory, DispatchNull, DispatchBadError
  <2>2. ~done_streaming /\ calls = <<>>
    BY <2>1 DEF Reset, Silent
  <2>3. CASE DispatchLast
    <3>1. calls' \in {<<>>, <<Called("response", Extended, error)>>}
      BY <2>2, <2>3, FirstCalls DEF DispatchLast, Calling
    <3>2. pc' = "idle" /\ ret' = "OK" /\ done_streaming'
      BY <2>3 DEF DispatchLast, Return
    <3>3. QED  BY <3>1, <3>2 DEF Silent
  <2>4. CASE DispatchError
    <3>1. calls' \in {<<>>, <<Called("error", <<>>, error), Called("error", <<>>, error')>>}
      BY <2>2, <2>4, FirstCalls DEF DispatchError, ErrorCalls, Calling, Called
    <3>2. pc' = "idle" /\ done_streaming'
      BY <2>4 DEF DispatchError, Return
    <3>3. QED  BY <3>1, <3>2 DEF Silent, Called
  <2>5. CASE DispatchBadError
    <3>1. calls' = <<>> \/ calls' = <<Called("error", <<>>, error)>>
      BY <2>2, <2>5, FirstCalls DEF DispatchBadError, Calling
    <3>2. pc' = "undefined" /\ done_streaming'
      BY <2>5 DEF DispatchBadError
    <3>3. QED  BY <3>1, <3>2 DEF Silent, Called
  <2>6. CASE DispatchMore
    <3>1. ~done_streaming' /\ calls' = <<>>
      BY <2>2, <2>6 DEF DispatchMore
    <3>2. QED  BY <3>1 DEF Silent
  <2>7. CASE DispatchBad \/ DispatchNoMemory
    <3>1. calls' = <<>> /\ pc' = "idle"
      BY <2>2, <2>7 DEF DispatchBad, DispatchNoMemory, Return
    <3>2. QED  BY <3>1 DEF Silent
  <2>8. CASE DispatchNull
    <3>1. calls' = <<>> /\ pc' = "undefined"
      BY <2>2, <2>8 DEF DispatchNull
    <3>2. QED  BY <3>1 DEF Silent
  <2>9. QED  BY <1>4, <2>3, <2>4, <2>5, <2>6, <2>7, <2>8 DEF Dispatch
<1>5. CASE UNCHANGED vars
  BY <1>5 DEF vars, Silent
<1>6. QED  BY <1>1, <1>2, <1>3, <1>4, <1>5 DEF Next, Step, Stopped

\* The user is answered at most once, and never after or before an error.
THEOREM AnswersOnce == Spec => []OneOutcome
<1>1. Init => Silent
  BY DEF Init, Silent
<1>2. TypeOK /\ Silent => OneOutcome
  <2> SUFFICES ASSUME Silent, NEW i \in 1..Len(calls), NEW j \in 1..Len(calls),
                      calls[i].cb = "response", calls \in Seq(Callbacks)
               PROVE  i = j /\ Finished /\ ret = "OK"
    BY DEF OneOutcome, TypeOK
  <2>1. Len(calls) = 1 /\ pc = "idle" /\ ret = "OK"
    BY DEF Silent
  <2>2. done_streaming
    BY DEF Silent
  <2>3. QED  BY <2>1, <2>2 DEF Finished
<1>3. QED  BY <1>1, <1>2, SilentStep, TypeCorrect, PTL DEF Spec

-----------------------------------------------------------------------------
(* What a call leaves, whatever was cut and whatever the bytes are.        *)

LEMMA AskingStep == TypeOK /\ Asking /\ [Next]_vars => Asking'
<1> SUFFICES ASSUME TypeOK, Asking, [Next]_vars PROVE Asking'
  OBVIOUS
<1>1. CASE Network
  BY <1>1 DEF Network, Arrive, Asking, rop
<1>2. CASE Call
  BY <1>2 DEF Call, Enter, ResumeAt, Asking, rop
<1>3. ASSUME NEW n \in ReadCounts(WantHeader), ReadHeader(n) PROVE Asking'
  <2>1. CASE HeaderComplete(n)
    BY <2>1 DEF HeaderComplete, Return, Asking
  <2>2. CASE HeaderPartial(n)
    <3>1. n \in Int /\ position' = n /\ n < HeaderLen - position /\ position \in Nat
      BY <2>2, ReadCountsRange DEF HeaderPartial, WantHeader, HeaderLen, TypeOK
    <3>2. position' < HeaderLen
      BY <3>1 DEF HeaderLen
    <3>3. QED  BY <2>2, <3>2 DEF HeaderPartial, Return, Asking
  <2>3. CASE HeaderNothing(n)
    BY <2>3 DEF HeaderNothing, Return, Asking, rop
  <2>4. QED  BY <1>3, <2>1, <2>2, <2>3 DEF ReadHeader
<1>4. ASSUME NEW n \in ReadCounts(WantBody), ReadBody(n) \/ WriteOutside(n) PROVE Asking'
  BY <1>4 DEF ReadBody, WriteOutside, Return, Asking, rop
<1>5. CASE Dispatch
  <2>1. /\ position' = 0 /\ msglen_complete' = FALSE
        /\ pc' \in {"header", "idle", "undefined"}
    BY <1>5 DEF Dispatch, DispatchMore, DispatchLast, DispatchError, DispatchBad,
                DispatchNoMemory, DispatchNull, DispatchBadError, Reset, Return
  <2>2. QED  BY <2>1 DEF Asking, HeaderLen
<1>6. CASE UNCHANGED vars
  BY <1>6 DEF vars, rop, Asking
<1>7. QED  BY <1>1, <1>2, <1>3, <1>4, <1>5, <1>6 DEF Next, Step, ReadSome, Stopped

\* The steps that return ERIAK_OK with more to come are reads that got less than
\* they asked for.
LEMMA ReturnsDry ==
    ASSUME "read_error" \notin Faults, TypeOK, Asking, [Next]_vars,
           pc # "idle", pc' = "idle", ret' = "OK", ~done_streaming'
    PROVE  consumed' = arrived'
<1>0. /\ arrived \in Nat /\ consumed \in Nat /\ consumed <= arrived
      /\ position \in Nat /\ msglen \in Nat
  BY FramesInStream, WidthRoom DEF TypeOK
<1>1. ASSUME NEW n \in ReadCounts(WantHeader), ReadHeader(n) PROVE consumed' = arrived'
  <2>1. /\ pc = "header" /\ WantHeader \in Int /\ WantHeader > 0
    BY <1>0, <1>1
    DEF ReadHeader, HeaderComplete, HeaderPartial, HeaderNothing, Asking, WantHeader, HeaderLen
  <2>2. /\ n \in Int /\ n <= arrived - consumed
        /\ n = WantHeader \/ n = arrived - consumed
    BY <2>1, ReadCountsRange
  <2>3. CASE HeaderComplete(n)
    BY <2>3 DEF HeaderComplete, Return
  <2>4. CASE HeaderPartial(n)
    <3>1. n > 0 /\ n < WantHeader /\ UNCHANGED arrived /\ Read(n)
      BY <2>4 DEF HeaderPartial
    <3>2. QED  BY <1>0, <2>1, <2>2, <3>1 DEF Read
  <2>5. CASE HeaderNothing(n)
    <3>1. n <= 0 /\ UNCHANGED <<arrived, consumed>>
      BY <2>5 DEF HeaderNothing
    <3>2. QED  BY <1>0, <2>1, <2>2, <3>1
  <2>6. QED  BY <1>1, <2>3, <2>4, <2>5 DEF ReadHeader
<1>2. ASSUME NEW n \in ReadCounts(WantBody), ReadBody(n) PROVE consumed' = arrived'
  <2>1. WantBody \in Int /\ (position <= msglen => WantBody = msglen - position)
    BY <1>0, WidthRoom DEF WantBody
  <2>2. /\ n \in Int /\ n <= WantBody /\ n <= arrived - consumed
        /\ n = WantBody \/ n = arrived - consumed
    BY <2>1, ReadCountsRange
  <2>3. /\ position' = Wrap(position + n) /\ position' < msglen
        /\ ~(n > 0 /\ position + n > msglen)
        /\ Read(n) /\ UNCHANGED arrived
    BY <1>2 DEF ReadBody, Return
  <2>4. n >= 0
    BY <1>0, <2>2, WidthRoom DEF TypeOK, WantBody
  <2>5. Wrap(position + n) = position + n
    <3>1. position \in 0..(UInt32Size - 1) /\ msglen \in 0..(UInt32Size - 1)
      BY DEF TypeOK
    <3>2. position + n < UInt32Size /\ position + n >= 0
      BY <1>0, <2>2, <2>3, <2>4, <3>1, WidthRoom
    <3>3. QED  BY <3>1, <3>2, <2>2, WidthRoom DEF Wrap
  <2>6. position + n < msglen
    BY <2>3, <2>5
  <2>7. n # WantBody
    BY <1>0, <2>1, <2>2, <2>4, <2>6
  <2>8. QED  BY <1>0, <2>2, <2>3, <2>4, <2>7 DEF Read
<1>3. CASE Network
  BY <1>3 DEF Network, Arrive
<1>4. CASE Call
  BY <1>4 DEF Call, Enter
<1>5. ASSUME NEW n \in ReadCounts(WantBody), WriteOutside(n) PROVE FALSE
  BY <1>5 DEF WriteOutside
<1>6. CASE Dispatch
  BY <1>6 DEF Dispatch, DispatchMore, DispatchLast, DispatchError, DispatchBad,
              DispatchNoMemory, DispatchNull, DispatchBadError, Return
<1>7. CASE UNCHANGED vars
  BY <1>7 DEF vars
<1>8. QED  BY <1>1, <1>2, <1>3, <1>4, <1>5, <1>6, <1>7 DEF Next, Step, ReadSome, Stopped

\* With reads that do not fail, however the stream is cut and whatever else fails,
\* a call that returns ERIAK_OK with more to come has read all there was: ReadsAll
\* of run riak_read.
THEOREM CallsReadAll == ASSUME "read_error" \notin Faults PROVE Spec => ReadsAll
<1>1. Init => Asking
  BY DEF Init, Asking, HeaderLen
<1>2. TypeOK /\ Asking /\ [Next]_vars =>
        [(pc # "idle" /\ pc' = "idle" /\ ret' = "OK" /\ ~done_streaming')
             => consumed' = arrived']_vars
  BY ReturnsDry
<1>3. QED
  BY <1>1, <1>2, TypeCorrect, AskingStep, PTL DEF Spec, ReadsAll

-----------------------------------------------------------------------------
(* riak_read does what FrameDelivery promises.                             *)

\* The setting of FrameDelivery: nothing fails, and the server's error reports can
\* be unpacked.
Exact == /\ Faults = {} /\ Sound
         /\ \A k \in Frame : "bad_error" \notin KindsAt[k]

\* The answers handed to the user.
Given == {calls[i].answer : i \in {j \in 1..Len(calls) : calls[j].cb = "response"}}

LEMMA DeliveryInit == Init => Delivery!Init
  BY DEF Init, Delivery!Init

\* A step of riak_read is a step of FrameDelivery, or leaves it where it is.
LEMMA DeliveryStep ==
    ASSUME Exact, TypeOK, ToldInv, ToldInv', [Next]_vars
    PROVE  [Delivery!Next]_(Delivery!vars)
<1> USE DEF Delivery!vars
<1>1. CASE Network
  BY <1>1 DEF Network, Arrive, rop
<1>2. CASE Call
  BY <1>2 DEF Call, Enter, ResumeAt, rop
<1>3. CASE ReadSome
  <2>1. ~done_streaming
    BY <1>3, Untold DEF ReadSome, ReadHeader, HeaderComplete, HeaderPartial, HeaderNothing,
                        ReadBody, WriteOutside, ToldInv
  <2>2. UNCHANGED <<dispatched, response, done_streaming, calls>>
    BY <1>3 DEF ReadSome, ReadHeader, HeaderComplete, HeaderPartial, HeaderNothing,
                ReadBody, WriteOutside, rop
  <2>3. QED  BY <2>1, <2>2
<1>4. CASE Dispatch
  <2>1. Reset
    BY <1>4 DEF Dispatch, DispatchMore, DispatchLast, DispatchError, DispatchBad,
                DispatchNoMemory, DispatchNull, DispatchBadError
  <2>2. ~done_streaming /\ calls = <<>>
    BY <2>1, Untold DEF Reset, ToldInv
  <2>3. /\ FrameIn(msgbuf) = dispatched + 1 /\ dispatched < NFrames
        /\ dispatched' = dispatched + 1
    BY <2>1, DispatchedFrame, BodyNamesFrame, FramesAssumption
    DEF Reset, ToldInv, Frame, TypeOK
  <2>4. Extended = Append(response, dispatched')
    BY <2>3 DEF Extended
  <2>5. /\ "bad_error" \notin KindsOf(dispatched + 1)
        /\ "more" \in KindsOf(dispatched + 1) => dispatched + 1 # NFrames
    BY <2>3, KindsAssumption, FramesAssumption DEF KindsOf, TypeOK, Exact, Frame
  <2>6. CASE DispatchMore
    <3>1. dispatched' # NFrames
      BY <2>3, <2>5, <2>6 DEF DispatchMore, Holds
    <3>2. dispatched' < NFrames
      BY <2>3, <3>1, FramesAssumption DEF TypeOK
    <3>3. ~done_streaming' /\ calls' = calls /\ response' = Append(response, dispatched')
      BY <2>4, <2>6 DEF DispatchMore
    <3>4. Delivery!TakePart
      BY <2>2, <2>3, <3>2, <3>3 DEF Delivery!TakePart, Delivery!Take
    <3>5. QED  BY <3>4 DEF Delivery!Next
  <2>7. CASE DispatchLast
    <3>1. /\ done_streaming' /\ ret' = "OK" /\ pc' = "idle"
          /\ response' = Append(response, dispatched')
      BY <2>4, <2>7 DEF DispatchLast, Return
    <3>2. calls' = <<Called("response", response', FALSE)>>
      BY <3>1 DEF ToldInv, Told, Ending
    <3>3. Given' = {response'}
      BY <3>2 DEF Given, Called
    <3>4. Delivery!TakeLast
      BY <2>2, <2>3, <3>1, <3>3 DEF Delivery!TakeLast, Delivery!Take, Given
    <3>5. QED  BY <3>4 DEF Delivery!Next
  <2>8. CASE DispatchError
    <3>1. done_streaming' /\ ret' = "SERVER_ERROR" /\ pc' = "idle" /\ response' = <<>>
      BY <2>8 DEF DispatchError, Return
    <3>2. calls' = <<Called("error", <<>>, FALSE), Called("error", <<>>, TRUE)>>
      BY <3>1 DEF ToldInv, Told, Ending
    <3>3. Given' = {} /\ Given = {}
      BY <2>2, <3>2 DEF Given, Called
    <3>4. Delivery!TakeError
      BY <2>2, <2>3, <3>1, <3>3 DEF Delivery!TakeError, Delivery!Take, Given
    <3>5. QED  BY <3>4 DEF Delivery!Next
  <2>9. CASE DispatchBad
    <3>1. /\ done_streaming' /\ ret' = "READ"
          /\ response' \in {response, Append(response, dispatched')}
          /\ UNCHANGED calls
      BY <2>4, <2>9 DEF DispatchBad, Abandoned, Return
    <3>2. Delivery!TakeBad
      BY <2>2, <2>3, <3>1 DEF Delivery!TakeBad, Delivery!Take
    <3>3. QED  BY <3>2 DEF Delivery!Next
  <2>10. ~DispatchNoMemory /\ ~DispatchNull /\ ~DispatchBadError
    BY <2>3, <2>5 DEF DispatchNoMemory, DispatchNull, DispatchBadError, Holds, Exact
  <2>11. QED  BY <1>4, <2>6, <2>7, <2>8, <2>9, <2>10 DEF Dispatch
<1>5. CASE UNCHANGED vars
  BY <1>5 DEF vars, rop
<1>6. QED  BY <1>1, <1>2, <1>3, <1>4, <1>5 DEF Next, Step, Stopped

\* The safety part of DeliversFrames: every behaviour of riak_read is, seen from
\* the user, one of FrameDelivery.
THEOREM Refines == ASSUME Exact PROVE Spec => DeliverySafe
<1>1. Init => ToldInv
  BY InitTyped, CursorInit DEF ToldInv, CursorInv, Init, Told
<1>2. ToldInv /\ [Next]_vars => ToldInv'
  BY StepTyped, CursorStep, ToldStep DEF ToldInv, CursorInv, Sound, Exact
<1>3. ToldInv /\ ToldInv' /\ [Next]_vars => [Delivery!Next]_(Delivery!vars)
  BY DeliveryStep DEF ToldInv, CursorInv
<1>4. QED  BY <1>1, <1>2, <1>3, DeliveryInit, PTL DEF Spec, DeliverySafe
=============================================================================
