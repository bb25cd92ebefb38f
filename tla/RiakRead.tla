------------------------------ MODULE RiakRead ------------------------------
(***************************************************************************)
(* riak_read (src/src/riak.c): the frame reader of the client.  Every      *)
(* answer of the server is a series of frames, each a four byte length     *)
(* followed by that many bytes, the first of them the message id.          *)
(* riak_read is called whenever bytes may be there, keeps its place in the *)
(* riak_operation between calls, hands each complete frame to the decoder  *)
(* of the operation and, when the decoder says the answer is complete,     *)
(* calls the user's response callback.                                     *)
(*                                                                         *)
(* A byte is named by its offset in the server's stream, counted from 1,   *)
(* and 0 names a byte nobody wrote; so a buffer shows where each of its    *)
(* bytes came from, and whether a frame was put together from the right    *)
(* ones is a comparison of numbers.  What a frame holds matters only as    *)
(* far as the decoder's verdict on it, its kind.                           *)
(*                                                                         *)
(* Next is the most general non-blocking caller: it may call whenever      *)
(* bytes are there, and bytes may arrive between any two reads.  The       *)
(* modules that compose riak_read with a transport use its actions and     *)
(* restrict both.                                                          *)
(***************************************************************************)
EXTENDS Integers, Sequences

CONSTANTS
    NFrames,      \* frames the server sends
    Start,        \* Start[k]: bytes of the stream before frame k
    KindsAt,      \* KindsAt[k]: what the decoder may find in frame k
    Cuts,         \* bytes a delivery of the transport may end with
    Registered,   \* the user callbacks the operation has
    UInt32Size,   \* 2^32: the modulus of rop->position and rop->msglen
    ForeignLen,   \* lengths four bytes that are no prefix may spell
    Faults        \* what may fail: a subset of AllFaults

HeaderLen == 4
Frame     == 1..NFrames
Total     == Start[NFrames + 1]
AllFaults == {"alloc", "read_error"}

\* More of the answer, its last part, an error of the server's, a message the
\* decoder rejects, an error message it cannot unpack.
AllKinds  == {"more", "last", "error", "bad", "bad_error"}

ASSUME FramesAssumption ==
    /\ NFrames \in Nat \ {0}
    /\ Start \in [1..(NFrames + 1) -> Nat]
    /\ Start[1] = 0
    \* a frame has a prefix and at least its id byte
    /\ \A j, k \in 1..(NFrames + 1) : j < k => Start[j] + HeaderLen < Start[k]

ASSUME WidthAssumption ==
    /\ UInt32Size \in Nat
    /\ \A k \in Frame : Start[k + 1] - Start[k] < UInt32Size
    /\ ForeignLen \subseteq 0..(UInt32Size - 1)

\* Every frame is something, and the last one sent ends the answer.
ASSUME KindsAssumption ==
    /\ KindsAt \in [Frame -> SUBSET AllKinds \ {{}}]
    /\ "more" \notin KindsAt[NFrames]

ASSUME EnvironmentAssumption ==
    /\ Cuts \subseteq 1..Total /\ Total \in Cuts
    /\ Registered \subseteq {"response", "error"}
    /\ Faults \subseteq AllFaults

VARIABLES
    arrived,          \* bytes the transport holds or has handed out
    consumed,         \* bytes read_cb has handed out
    position,         \* rop->position
    prefix,           \* rop->msglen while it holds the bytes of a split prefix
    msglen,           \* rop->msglen once complete
    msglen_complete,  \* rop->msglen_complete
    msgbuf,           \* rop->msgbuf
    response,         \* rop->response: the frames decoded into it
    error,            \* rop->error is set
    done_streaming,   \* the caller's flag
    pc,               \* where riak_read is
    ret,              \* what its last call returned
    dispatched,       \* frames taken off the stream
    calls             \* the user callbacks made, in order

rop  == <<position, prefix, msglen, msglen_complete, msgbuf, response, error>>
vars == <<arrived, consumed, rop, done_streaming, pc, ret, dispatched, calls>>

-----------------------------------------------------------------------------
(* Bytes, buffers and frames. *)

FrameLen(k)  == Start[k + 1] - Start[k] - HeaderLen
BodyStart(k) == Start[k] + HeaderLen
PrefixOf(k)  == [i \in 0..(HeaderLen - 1) |-> Start[k] + 1 + i]
BodyOf(k)    == [i \in 0..(FrameLen(k) - 1) |-> BodyStart(k) + 1 + i]

Lengths  == {FrameLen(k) : k \in Frame} \cup ForeignLen
Zeroed   == [i \in 0..(HeaderLen - 1) |-> 0]
NoBuffer == [i \in {-1} |-> 0]              \* a NULL rop->msgbuf
IsBuffer(b) == b = NoBuffer \/ \E n \in Lengths : b \in [0..(n - 1) -> 0..Total]

\* (Operators named after another with a suffix are its faulty variants: the
\* properties are tried against them.)
Filled_FromZero(buf, at, n) ==
    [i \in DOMAIN buf |-> IF i < n THEN consumed + 1 + i ELSE buf[i]]

\* buf once n bytes of the stream have been copied in from index at.
Filled(buf, at, n) ==
    [i \in DOMAIN buf |-> IF at <= i /\ i < at + n
                          THEN consumed + 1 + (i - at) ELSE buf[i]]

\* ntohl of the four bytes: a frame's length, or anything when they are not
\* a prefix.
LengthsSpeltBy(bytes) ==
    IF \E k \in Frame : bytes = PrefixOf(k)
    THEN {FrameLen(CHOOSE k \in Frame : bytes = PrefixOf(k))}
    ELSE ForeignLen

\* The frame a buffer holds, 0 when it holds no frame of the server's.
FrameIn(buf) ==
    IF \E k \in Frame : buf = BodyOf(k)
    THEN CHOOSE k \in Frame : buf = BodyOf(k)
    ELSE 0

\* What the decoder may find: anything in bytes that are no frame.
KindsOf(k) == IF k = 0 THEN AllKinds ELSE KindsAt[k]

Wrap_Unbounded(x) == x

\* uint32 arithmetic: one carry or borrow.
Wrap(x) == IF x < 0 THEN x + UInt32Size
           ELSE IF x >= UInt32Size THEN x - UInt32Size ELSE x

-----------------------------------------------------------------------------
Init ==
    /\ arrived = 0 /\ consumed = 0
    /\ position = 0 /\ prefix = Zeroed /\ msglen = 0
    /\ msglen_complete = FALSE /\ msgbuf = NoBuffer
    /\ response = <<>> /\ error = FALSE
    /\ done_streaming = FALSE
    /\ pc = "idle" /\ ret = "none"
    /\ dispatched = 0 /\ calls = <<>>

(* The transport: the stream has arrived up to byte b.                     *)
Arrive(b) ==
    /\ b \in Cuts /\ arrived < b
    /\ arrived' = b
    /\ UNCHANGED <<consumed, rop, done_streaming, pc, ret, dispatched, calls>>

ResumeAt_Header == "header"
ResumeAt == IF msglen_complete THEN "body" ELSE "header"

(* riak_read is entered.                                                   *)
Enter ==
    /\ pc = "idle"
    /\ done_streaming' = FALSE
    /\ pc' = ResumeAt
    /\ ret' = "none"
    /\ UNCHANGED <<arrived, consumed, rop, dispatched, calls>>

Call_Again == arrived > consumed /\ Enter

\* A callback is made for bytes, and not again once the answer is complete.
Call == arrived > consumed /\ ~done_streaming /\ Enter

Return(code) == pc' = "idle" /\ ret' = code

(* One call of read_cb, which hands out n bytes (-1: it failed).           *)
WantHeader == HeaderLen - position
WantBody   == IF position <= msglen THEN msglen - position
              ELSE msglen - position + UInt32Size
Read(n)    == consumed' = IF n > 0 THEN consumed + n ELSE consumed

Lesser(a, b) == IF a < b THEN a ELSE b
ReadCounts(want) ==
    {Lesser(want, arrived - consumed)}
        \cup (IF "read_error" \in Faults THEN {-1} ELSE {})

\* All the length's bytes are there: get a buffer for the message.
HeaderComplete(n) ==
    /\ pc = "header" /\ n = WantHeader
    /\ Read(n)
    /\ \E len \in LengthsSpeltBy(Filled(prefix, position, n)) :
         /\ msglen' = len
         /\ \/ msgbuf' = [i \in 0..(len - 1) |-> 0] /\ pc' = "body" /\ ret' = ret
            \/ "alloc" \in Faults /\ msgbuf' = NoBuffer /\ Return("READ")
    /\ msglen_complete' = TRUE /\ prefix' = Zeroed
    /\ UNCHANGED <<arrived, position, response, error, done_streaming, dispatched, calls>>

\* Some of them: keep them in rop->msglen and note the position.
HeaderPartial(n) ==
    /\ pc = "header" /\ 0 < n /\ n < WantHeader
    /\ Read(n)
    /\ prefix' = Filled(prefix, position, n)
    /\ position' = n
    /\ Return("OK")
    /\ UNCHANGED <<arrived, msglen, msglen_complete, msgbuf, response, error,
                   done_streaming, dispatched, calls>>

\* Nothing there, or the read failed.
HeaderNothing(n) ==
    /\ pc = "header" /\ n <= 0
    /\ Return(IF n = 0 THEN "OK" ELSE "READ")
    /\ UNCHANGED <<arrived, consumed, rop, done_streaming, dispatched, calls>>

ReadHeader(n) == HeaderComplete(n) \/ HeaderPartial(n) \/ HeaderNothing(n)

\* The rest of the message, or what is there of it.  A count of -1 is added to
\* the position like any other.
ReadBody(n) ==
    /\ pc = "body"
    /\ ~(n > 0 /\ (msgbuf = NoBuffer \/ position + n > msglen))
    /\ Read(n)
    /\ msgbuf' = IF n > 0 THEN Filled(msgbuf, position, n) ELSE msgbuf
    /\ position' = Wrap(position + n)
    /\ \/ position' < msglen /\ Return("OK")
       \/ position' = msglen /\ pc' = "dispatch" /\ ret' = ret
       \/ position' > msglen /\ pc' = "aborted" /\ ret' = ret    \* the assert
    /\ UNCHANGED <<arrived, prefix, msglen, msglen_complete, response, error,
                   done_streaming, dispatched, calls>>

\* Bytes written through a NULL msgbuf or past its end: undefined from here on.
WriteOutside(n) ==
    /\ pc = "body"
    /\ n > 0 /\ (msgbuf = NoBuffer \/ position + n > msglen)
    /\ Read(n)
    /\ pc' = "undefined"
    /\ UNCHANGED <<arrived, rop, done_streaming, ret, dispatched, calls>>

-----------------------------------------------------------------------------
Reset_Forgotten ==
    /\ pc = "dispatch" /\ dispatched' = dispatched + 1
    /\ UNCHANGED <<arrived, consumed, prefix, position, msglen, msglen_complete>>

(* The whole message is in msgbuf.  The receive state is reset before it   *)
(* is looked at; what follows depends on what the decoder finds.           *)
Reset ==
    /\ pc = "dispatch"
    /\ dispatched' = dispatched + 1
    /\ position' = 0 /\ msglen' = 0 /\ msglen_complete' = FALSE
    /\ UNCHANGED <<arrived, consumed, prefix>>

Holds(kind) == kind \in KindsOf(FrameIn(msgbuf))
Extended_Fresh == <<FrameIn(msgbuf)>>
Extended    == Append(response, FrameIn(msgbuf))
Called(cb, answer, err) == [cb |-> cb, answer |-> answer, error |-> err]

\* The callbacks made after cs, when c is one the operation has.
Calling(cs, c) == IF c.cb \in Registered THEN Append(cs, c) ELSE cs

\* The server's error: its decoder calls the error callback and then records the
\* error in the operation; riak_read calls it once more.
ErrorCalls_DecoderOnly(cs) == Calling(cs, Called("error", <<>>, error))
ErrorCalls(cs) ==
    Calling(Calling(cs, Called("error", <<>>, error)), Called("error", <<>>, error'))

DispatchMore_Returns ==
    /\ Reset /\ Holds("more")
    /\ response' = Extended /\ done_streaming' = FALSE /\ msgbuf' = NoBuffer
    /\ Return("OK")
    /\ UNCHANGED <<error, calls>>

\* Part of a longer answer: go round the loop.
DispatchMore ==
    /\ Reset /\ Holds("more")
    /\ response' = Extended
    /\ done_streaming' = FALSE
    /\ msgbuf' = NoBuffer
    /\ pc' = "header" /\ ret' = ret
    /\ UNCHANGED <<error, calls>>

\* The answer is complete: call the user.
DispatchLast ==
    /\ Reset /\ Holds("last")
    /\ response' = Extended
    /\ done_streaming' = TRUE
    /\ calls' = Calling(calls, Called("response", Extended, error))
    /\ msgbuf' = NoBuffer
    /\ Return("OK")
    /\ UNCHANGED error

\* The server reports an error: riak_read drops the answer so far and leaves
\* msgbuf to riak_operation_free.
DispatchError ==
    /\ Reset /\ Holds("error")
    /\ error' = TRUE
    /\ calls' = ErrorCalls(calls)
    /\ response' = <<>>
    /\ done_streaming' = TRUE
    /\ Return("SERVER_ERROR")
    /\ UNCHANGED msgbuf

\* What a decoder that fails leaves in rop->response: a response it has just
\* allocated is lost, one that was there before may have the part already.
Abandoned == {response} \cup (IF response = <<>> THEN {} ELSE {Extended})

\* The decoder rejects the message: no callback.
DispatchBad ==
    /\ Reset /\ Holds("bad")
    /\ response' \in Abandoned
    /\ done_streaming' = TRUE
    /\ msgbuf' = NoBuffer
    /\ Return("READ")
    /\ UNCHANGED <<error, calls>>

\* The decoder runs out of memory, before or after it has seen whether more
\* follows.
DispatchNoMemory ==
    /\ Reset /\ "alloc" \in Faults
    /\ \/ Holds("more") /\ done_streaming' \in BOOLEAN
       \/ Holds("last") /\ done_streaming' = TRUE
    /\ response' \in Abandoned
    /\ msgbuf' = NoBuffer
    /\ Return("READ")
    /\ UNCHANGED <<error, calls>>

\* The record for the message, or a key's copy, is NULL, and is followed.
DispatchNull ==
    /\ Reset /\ "alloc" \in Faults
    /\ done_streaming' = TRUE
    /\ pc' = "undefined"
    /\ UNCHANGED <<response, error, msgbuf, ret, calls>>

\* The error report cannot be decoded: riak_read follows a NULL or freed
\* err_response, perhaps after the decoder's own error callback.
DispatchBadError ==
    /\ Reset
    /\ \/ Holds("bad_error") /\ calls' = calls
       \/ /\ Holds("error") /\ "alloc" \in Faults
          /\ calls' \in {calls, Calling(calls, Called("error", <<>>, error))}
    /\ done_streaming' = TRUE
    /\ pc' = "undefined"
    /\ UNCHANGED <<response, error, msgbuf, ret>>

Dispatch == \/ DispatchMore \/ DispatchLast \/ DispatchError
            \/ DispatchBad \/ DispatchNoMemory \/ DispatchNull
            \/ DispatchBadError

-----------------------------------------------------------------------------
Broken   == pc \in {"aborted", "undefined"}
Finished == pc = "idle" /\ done_streaming
\* Every byte has come and been read, and the answer is still incomplete.
Starved  == pc = "idle" /\ consumed = Total
Stopped  == (Broken \/ Finished \/ Starved) /\ UNCHANGED vars

ReadSome == \/ \E n \in ReadCounts(WantHeader) : ReadHeader(n)
            \/ \E n \in ReadCounts(WantBody) : ReadBody(n) \/ WriteOutside(n)
Step     == ReadSome \/ Dispatch
Network  == \E b \in Cuts : Arrive(b)
Next     == Network \/ Call \/ Step \/ Stopped

\* The server sends its whole answer, the event loop makes a due callback and
\* riak_read never waits.
Fairness == WF_vars(Network) /\ WF_vars(Call) /\ WF_vars(Step)
Spec     == Init /\ [][Next]_vars /\ Fairness

-----------------------------------------------------------------------------
(* Properties. *)

Pcs   == {"idle", "header", "body", "dispatch", "aborted", "undefined"}
Codes == {"none", "OK", "READ", "SERVER_ERROR"}
Callbacks == [cb : {"response", "error"}, answer : Seq(0..NFrames), error : BOOLEAN]

\* Byte b is part of a frame's prefix, and not its last byte.
InPrefix(b) == \E k \in Frame : Start[k] < b /\ b < BodyStart(k)

\* Every variable has its type; the counters stay within the stream.
TypeOK ==
    /\ arrived \in 0..Total
    /\ consumed \in 0..arrived
    /\ position \in 0..(UInt32Size - 1)
    /\ prefix \in [0..(HeaderLen - 1) -> 0..Total]
    /\ msglen \in 0..(UInt32Size - 1)
    /\ msglen_complete \in BOOLEAN
    /\ IsBuffer(msgbuf)
    /\ response \in Seq(0..NFrames)
    /\ error \in BOOLEAN
    /\ done_streaming \in BOOLEAN
    /\ pc \in Pcs
    /\ ret \in Codes
    /\ dispatched \in Nat
    /\ calls \in Seq(Callbacks)

\* However the stream is cut into deliveries and calls, the message handed to
\* the decoder is the server's next frame, every byte of it in its place.
FrameIntegrity ==
    pc = "dispatch" => /\ dispatched < NFrames
                       /\ msgbuf = BodyOf(dispatched + 1)

\* Between calls the operation knows exactly where in the stream it stands: at
\* a frame's start, or position bytes into a message still incomplete.
ResumePoint ==
    (pc = "idle" /\ ~done_streaming) =>
        IF msglen_complete
        THEN /\ consumed = BodyStart(dispatched + 1) + position
             /\ position < msglen
             /\ msglen = FrameLen(dispatched + 1)
        ELSE consumed = Start[dispatched + 1] /\ position = 0

\* A user's response callback gets the whole answer, each of its frames once
\* and in order, and nothing of any later one; no error callback comes with it.
AnswerWhole ==
    \A i \in 1..Len(calls) : calls[i].cb = "response" =>
        /\ calls[i].answer = [k \in 1..dispatched |-> k]
        /\ consumed = Start[dispatched + 1]
        /\ Len(calls) = 1

\* An operation that has ended has told its user how: the answer once when
\* riak_read returned ERIAK_OK; a server error by a callback that finds the
\* error in the operation, the partial answer gone.
OutcomeReported ==
    Finished =>
        CASE ret = "OK"           -> Len(calls) = 1 /\ calls[1].cb = "response"
          [] ret = "SERVER_ERROR" -> /\ \E i \in 1..Len(calls) :
                                          calls[i].cb = "error" /\ calls[i].error
                                     /\ response = <<>>
          [] OTHER                -> calls = <<>>

\* The response callback is made at most once, and never to a user who has
\* been given an error, whatever the bytes were.
OneOutcome ==
    \A i, j \in 1..Len(calls) :
        calls[i].cb = "response" => i = j /\ Finished /\ ret = "OK"

\* Why the two hold: where the stream stands and what the buffer holds are
\* functions of the frames taken and of position, in every state of the code.
MidFrame(k) ==
    /\ k \in Frame
    /\ msglen = FrameLen(k)
    /\ consumed = BodyStart(k) + position
    /\ IF pc = "dispatch" THEN position = msglen ELSE position < msglen
    /\ IF msgbuf = NoBuffer THEN position = 0
       ELSE msgbuf = [i \in 0..(msglen - 1) |->
                        IF i < position THEN BodyStart(k) + 1 + i ELSE 0]

\* As long as deliveries do not cut a prefix and reads do not fail, rop's
\* receive state is the stream's: FrameIntegrity and ResumePoint follow.
Cursor ==
    /\ dispatched \in 0..NFrames
    /\ prefix = Zeroed
    /\ ~InPrefix(arrived)
    /\ pc # "aborted"
    /\ pc = "header" => ~msglen_complete
    /\ pc \in {"body", "dispatch"} => msglen_complete
    /\ IF msglen_complete
       THEN pc = "undefined" \/ MidFrame(dispatched + 1)
       ELSE consumed = Start[dispatched + 1] /\ position = 0

\* How an operation may have ended, and what its user has been told by then.
Ending ==
    \/ /\ pc = "idle" /\ ret = "OK"
       /\ response = [k \in 1..dispatched |-> k]
       /\ calls = <<Called("response", response, FALSE)>>
    \/ /\ pc = "idle" /\ ret = "SERVER_ERROR"
       /\ response = <<>>
       /\ calls = <<Called("error", <<>>, FALSE), Called("error", <<>>, TRUE)>>
    \/ pc = "idle" /\ ret = "READ" /\ calls = <<>>
    \/ pc = "undefined" /\ calls = <<>>

\* As long as memory does not run out, the user is told nothing before the
\* operation ends, the answer so far being every frame taken, and then what
\* its end calls for: AnswerWhole and OutcomeReported follow.
Told ==
    /\ done_streaming => ~msglen_complete /\ Ending
    /\ ~done_streaming => /\ calls = <<>> /\ error = FALSE
                          /\ response = [k \in 1..dispatched |-> k]
                          /\ pc # "undefined"
                          /\ msglen_complete => msgbuf # NoBuffer

\* A caller that is called for new bytes only may rely on this: a call that returns
\* ERIAK_OK before the answer is complete has read all there was.
ReadsAll ==
    [][(pc # "idle" /\ pc' = "idle" /\ ret' = "OK" /\ ~done_streaming')
           => consumed' = arrived']_vars

\* What ReadsAll rests on: riak_read never asks for no bytes of a prefix.
Asking ==
    /\ pc = "header" => ~msglen_complete
    /\ pc \in {"body", "dispatch"} => msglen_complete
    /\ ~msglen_complete => position < HeaderLen

\* Every frame that has arrived is handed to the decoder, unless the operation
\* has ended before it.
EveryFrameTaken ==
    \A k \in Frame : (arrived >= Start[k + 1]) ~> (dispatched >= k \/ Finished)

\* The reader does what FrameDelivery promises: the stream's cuts, the calls
\* and the state kept between them are invisible to the user.
Delivery == INSTANCE FrameDelivery WITH
    taken   <- dispatched,
    answer  <- response,
    outcome <- IF done_streaming THEN ret ELSE "pending",
    given   <- {calls[i].answer : i \in {j \in 1..Len(calls) : calls[j].cb = "response"}}
DeliversFrames == Delivery!Spec
DeliverySafe   == Delivery!Init /\ [][Delivery!Next]_(Delivery!vars)

\* What OneOutcome rests on: no callback before the operation ends, and a
\* response callback only as the one callback of an operation that ended well.
Silent ==
    /\ ~done_streaming => calls = <<>>
    /\ done_streaming => pc \in {"idle", "undefined"}
    /\ \/ \A i \in 1..Len(calls) : calls[i].cb = "error"
       \/ Len(calls) = 1 /\ pc = "idle" /\ ret = "OK"
=============================================================================
