---------------------------- MODULE RiakSyncProof ----------------------------
(***************************************************************************)
(* Proofs about the synchronous calls, for any number of calls, any        *)
(* answers and any mishaps.                                                *)
(* That they free their operations: the invariant counts, while a call is  *)
(* under way, one operation more than calls that ended for want of memory, *)
(* and none more between calls; riak_read never returns the code those     *)
(* calls return.                                                           *)
(* That their state has its type, and that no call is given anything of    *)
(* the answer to another: the invariant says where in the server's stream  *)
(* the call stands (Placed).  What riak_read does is taken from the proofs *)
(* about the reader.                                                       *)
(***************************************************************************)
EXTENDS RiakSync, FiniteSetTheorems, SequenceTheorems, TLAPS

Short(s) == {i \in 1..Len(s) : s[i].code = "MEMORY"}

\* The calls that have returned are a series.
Series == \E S : results \in Seq(S)

Counted ==
    /\ Series
    /\ ret # "MEMORY"
    /\ client = "ready" => live = Cardinality(Short(results))
    /\ client \in Parts \cup {"written", "reading"} => live = Cardinality(Short(results)) + 1

-----------------------------------------------------------------------------
LEMMA Appended ==
    ASSUME NEW s, NEW S, s \in Seq(S), NEW x
    PROVE  /\ Append(s, x) \in Seq(S \cup {x})
           /\ Cardinality(Short(s)) \in Nat
           /\ x.code = "MEMORY" => Cardinality(Short(Append(s, x))) = Cardinality(Short(s)) + 1
           /\ x.code # "MEMORY" => Cardinality(Short(Append(s, x))) = Cardinality(Short(s))
<1>1. Len(s) \in Nat /\ s \in Seq(S \cup {x})
  OBVIOUS
<1> DEFINE t == Append(s, x)
<1>2. /\ t \in Seq(S \cup {x}) /\ Len(t) = Len(s) + 1 /\ t[Len(s) + 1] = x
      /\ \A i \in 1..Len(s) : t[i] = s[i]
  BY <1>1
<1> HIDE DEF t
<1>3. IsFiniteSet(Short(s)) /\ Len(s) + 1 \notin Short(s)
  <2>1. Short(s) \subseteq 1..Len(s) /\ IsFiniteSet(1..Len(s))
    BY <1>1, FS_Interval DEF Short
  <2>2. Len(s) + 1 \notin 1..Len(s)
    BY <1>1
  <2>3. QED  BY <2>1, <2>2, FS_Subset
<1>4. 1..Len(t) = (1..Len(s)) \cup {Len(s) + 1}
  BY <1>1, <1>2
<1>5. x.code = "MEMORY" => Short(t) = Short(s) \cup {Len(s) + 1}
  BY <1>2, <1>4 DEF Short
<1>6. x.code # "MEMORY" => Short(t) = Short(s)
  <2> SUFFICES ASSUME x.code # "MEMORY" PROVE Short(t) = Short(s)
    OBVIOUS
  <2>1. \A i \in 1..Len(t) : t[i].code = "MEMORY" => i \in 1..Len(s) /\ s[i].code = "MEMORY"
    BY <1>2, <1>4
  <2>2. \A i \in 1..Len(s) : i \in 1..Len(t) /\ t[i] = s[i]
    BY <1>2, <1>4
  <2>3. QED  BY <2>1, <2>2 DEF Short
<1>7. /\ Cardinality(Short(s)) \in Nat
      /\ Cardinality(Short(s) \cup {Len(s) + 1}) = Cardinality(Short(s)) + 1
  BY <1>3, FS_CardinalityType, FS_AddElement
<1>8. QED  BY <1>2, <1>5, <1>6, <1>7 DEF t

\* riak_read's code is one of its own.
LEMMA ReadReturns ==
    ASSUME ret # "MEMORY", EnterRead \/ ReadSocket
    PROVE  ret' # "MEMORY"
<1>1. CASE EnterRead
  BY <1>1 DEF EnterRead, R!Enter
<1>2. ASSUME NEW n, R!ReadHeader(n) PROVE ret' # "MEMORY"
  BY <1>2 DEF R!ReadHeader, R!HeaderComplete, R!HeaderPartial, R!HeaderNothing, R!Return
<1>3. ASSUME NEW n, R!ReadBody(n) \/ R!WriteOutside(n) PROVE ret' # "MEMORY"
  BY <1>3 DEF R!ReadBody, R!WriteOutside, R!Return
<1>4. CASE R!Dispatch
  BY <1>4 DEF R!Dispatch, R!DispatchMore, R!DispatchLast, R!DispatchError, R!DispatchBad,
              R!DispatchNoMemory, R!DispatchNull, R!DispatchBadError, R!Return
<1>5. QED  BY <1>1, <1>2, <1>3, <1>4 DEF ReadSocket

LEMMA CountedInit == Init => Counted
<1> SUFFICES ASSUME Init PROVE Counted
  OBVIOUS
<1>1. client = "ready" /\ live = 0 /\ results = <<>> /\ ret = "none"
  BY DEF Init, R!Init
<1>2. results \in Seq({}) /\ Short(results) = {}
  BY <1>1 DEF Short
<1>3. QED  BY <1>1, <1>2, FS_EmptySet DEF Counted, Series, Parts

LEMMA CountedStep == Counted /\ [Next]_vars => Counted'
<1> SUFFICES ASSUME Counted, [Next]_vars PROVE Counted'
  OBVIOUS
<1> DEFINE n == Cardinality(Short(results))
<1>0. PICK S : results \in Seq(S)
  BY DEF Counted, Series
<1>1. /\ n \in Nat
      /\ \A x : /\ Append(results, x) \in Seq(S \cup {x})
                /\ x.code = "MEMORY" => Cardinality(Short(Append(results, x))) = n + 1
                /\ x.code # "MEMORY" => Cardinality(Short(Append(results, x))) = n
  BY <1>0, Appended
\* What the cases come to.
<1>2. ASSUME UNCHANGED results, ret' # "MEMORY",
             \/ UNCHANGED <<client, live>>
             \/ client' = "crashed"
             \/ /\ client \in Parts \cup {"written", "reading"} /\ UNCHANGED live
                /\ client' \in Parts \cup {"written", "reading"}
             \/ client = "ready" /\ live' = live + 1 /\ client' = "length"
      PROVE  Counted'
  <2>1. Series'
    BY <1>0, <1>2 DEF Series
  <2>2. n' = n
    BY <1>2
  <2> HIDE DEF n
  <2>3. QED  BY <1>2, <2>1, <2>2 DEF Counted, Parts, n
<1>3. ASSUME NEW x, results' = Append(results, x), client' = "ready", ret' # "MEMORY",
             \/ /\ client \in Parts \cup {"written", "reading"} /\ live' = live - 1
                /\ x.code # "MEMORY"
             \/ client = "ready" /\ live' = live + 1 /\ x.code = "MEMORY"
      PROVE  Counted'
  <2>1. Series'
    BY <1>1, <1>3 DEF Series
  <2>2. n' = IF x.code = "MEMORY" THEN n + 1 ELSE n
    BY <1>1, <1>3
  <2> HIDE DEF n
  <2>3. live' = n'
    BY <1>1, <1>3, <2>2 DEF Counted, n
  <2>4. QED  BY <1>3, <2>1, <2>3 DEF Counted, Parts, n
<1> HIDE DEF n
<1>4. ret # "MEMORY"
  BY DEF Counted
<1>5. CASE Answer
  BY <1>2, <1>4, <1>5 DEF Answer, conn, call, R!Arrive
<1>6. CASE Close
  BY <1>2, <1>4, <1>6 DEF Close, call, reader
<1>7. CASE NewOperation
  BY <1>2, <1>4, <1>7 DEF NewOperation
<1>8. CASE NoMemory
  <2>1. ret' # "MEMORY"
    BY <1>4, <1>8 DEF NoMemory, reader
  <2>2. CASE client' = "crashed" /\ UNCHANGED <<live, results>>
    BY <1>2, <2>1, <2>2
  <2>3. CASE /\ live' = live + 1 /\ UNCHANGED client
             /\ results' = Append(results, [code |-> "MEMORY", answer |-> <<>>, slot |-> 0])
    BY <1>3, <1>8, <2>1, <2>3 DEF NoMemory
  <2>4. QED  BY <1>8, <2>2, <2>3 DEF NoMemory
<1>9. CASE WritePart \/ WriteShort
  <2>1. /\ client \in Parts /\ client' = After(client)
        /\ UNCHANGED <<live, results, ret>>
    BY <1>9 DEF WritePart, WriteShort, call, reader
  <2>2. client' \in Parts \cup {"written"}
    BY <2>1 DEF Parts, After
  <2>3. QED  BY <1>2, <1>4, <2>1, <2>2
<1>10. CASE WriteNothing
  <2>1. /\ client \in Parts /\ client' = "ready" /\ live' = live - 1 /\ UNCHANGED ret
        /\ results' = Append(results, [code |-> "WRITE", answer |-> <<>>, slot |-> slot])
    BY <1>10 DEF WriteNothing, Returns, WriteFreed, reader
  <2>2. QED  BY <1>3, <1>4, <2>1
<1>11. CASE EnterRead \/ ReadSocket
  <2>1. ret' # "MEMORY"
    BY <1>4, <1>11, ReadReturns
  <2>2. /\ UNCHANGED <<live, results>>
        /\ client \in {"written", "reading"} /\ client' \in {"written", "reading"}
    BY <1>11 DEF EnterRead, ReadSocket, conn, call
  <2>3. QED  BY <1>2, <2>1, <2>2
<1>12. CASE Finish
  <2>1. client = "reading" /\ live' = live - 1 /\ UNCHANGED ret
    BY <1>12 DEF Finish, reader, rop
  <2>2. CASE client' = "crashed" /\ UNCHANGED results
    BY <1>2, <1>4, <2>1, <2>2
  <2>3. CASE Returns(ret, response)
    <3>1. /\ results' = Append(results, [code |-> ret, answer |-> response, slot |-> slot])
          /\ client' = "ready"
      BY <2>3 DEF Returns
    <3>2. QED  BY <1>3, <1>4, <2>1, <3>1
  <2>4. QED  BY <1>12, <2>2, <2>3 DEF Finish
<1>13. CASE UNCHANGED vars
  BY <1>2, <1>4, <1>13 DEF vars, call, reader
<1>14. QED
  BY <1>5, <1>6, <1>7, <1>8, <1>9, <1>10, <1>11, <1>12, <1>13
  DEF Next, Program, Write, Stopped

\* Whatever goes wrong in the calls, each frees the operation it made, but for
\* those that found no memory for their request: OperationsFreed of run riak_sync.
THEOREM OperationsAreFreed == Spec => []OperationsFreed
<1>1. Counted => OperationsFreed
  BY DEF Counted, OperationsFreed, Short
<1>2. QED  BY <1>1, CountedInit, CountedStep, PTL DEF Spec

-----------------------------------------------------------------------------
(* The reader. *)

\* The reader with what is proved of it.
RP == INSTANCE RiakReadProof WITH Registered <- {}

\* What the calls assume of the stream is what the reader's proofs assume.
LEMMA ReaderAssumed ==
    RP!FramesAssumption /\ RP!WidthAssumption /\ RP!KindsAssumption /\ RP!EnvironmentAssumption
  BY ReadAssumption
  DEF R!FramesAssumption, R!WidthAssumption, R!KindsAssumption, R!EnvironmentAssumption,
      RP!FramesAssumption, RP!WidthAssumption, RP!KindsAssumption, RP!EnvironmentAssumption,
      R!Frame, R!Total, R!HeaderLen, R!AllKinds, R!AllFaults,
      RP!Frame, RP!Total, RP!HeaderLen, RP!AllKinds, RP!AllFaults

\* The reader of the proofs is the reader of the calls.
LEMMA SameTypes == (R!TypeOK <=> RP!TypeOK) /\ (R!TypeOK' <=> RP!TypeOK')
  BY DEF R!TypeOK, R!Total, R!IsBuffer, R!Lengths, R!NoBuffer, R!FrameLen, R!HeaderLen, R!Frame,
         R!Pcs, R!Codes, R!Callbacks,
         RP!TypeOK, RP!Total, RP!IsBuffer, RP!Lengths, RP!NoBuffer, RP!FrameLen, RP!HeaderLen,
         RP!Frame, RP!Pcs, RP!Codes, RP!Callbacks

\* So is its place in the stream,
LEMMA SameCursor == (R!Cursor <=> RP!Cursor) /\ (R!Cursor' <=> RP!Cursor')
  BY DEF R!Cursor, R!Zeroed, R!InPrefix, R!MidFrame, R!NoBuffer, R!FrameLen, R!HeaderLen, R!Frame,
         R!BodyStart,
         RP!Cursor, RP!Zeroed, RP!InPrefix, RP!MidFrame, RP!NoBuffer, RP!FrameLen, RP!HeaderLen,
         RP!Frame, RP!BodyStart

\* what it asks for,
LEMMA SameCounts ==
    /\ R!WantHeader = RP!WantHeader /\ R!WantBody = RP!WantBody
    /\ \A want : R!ReadCounts(want) = RP!ReadCounts(want)
  BY DEF R!WantHeader, R!WantBody, R!ReadCounts, R!Lesser, R!HeaderLen,
         RP!WantHeader, RP!WantBody, RP!ReadCounts, RP!Lesser, RP!HeaderLen

\* how it reads a prefix,
LEMMA SameHeader == ASSUME NEW n PROVE R!ReadHeader(n) <=> RP!ReadHeader(n)
  BY DEF R!ReadHeader, R!HeaderComplete, R!HeaderPartial, R!HeaderNothing, R!WantHeader, R!Read,
         R!LengthsSpeltBy, R!Filled, R!PrefixOf, R!FrameLen, R!Frame, R!Return, R!NoBuffer,
         R!Zeroed, R!HeaderLen, R!rop,
         RP!ReadHeader, RP!HeaderComplete, RP!HeaderPartial, RP!HeaderNothing, RP!WantHeader,
         RP!Read, RP!LengthsSpeltBy, RP!Filled, RP!PrefixOf, RP!FrameLen, RP!Frame, RP!Return,
         RP!NoBuffer, RP!Zeroed, RP!HeaderLen, RP!rop

\* how it reads a message,
LEMMA SameBody ==
    ASSUME NEW n
    PROVE  (R!ReadBody(n) \/ R!WriteOutside(n)) <=> (RP!ReadBody(n) \/ RP!WriteOutside(n))
  BY DEF R!ReadBody, R!WriteOutside, R!Read, R!Filled, R!Wrap, R!Return, R!NoBuffer, R!rop,
         RP!ReadBody, RP!WriteOutside, RP!Read, RP!Filled, RP!Wrap, RP!Return, RP!NoBuffer, RP!rop

\* and what it does with it.
LEMMA SameDispatch == R!Dispatch <=> RP!Dispatch
  BY DEF R!Dispatch, R!DispatchMore, R!DispatchLast, R!DispatchError, R!DispatchBad,
         R!DispatchNoMemory, R!DispatchNull, R!DispatchBadError, R!Reset, R!Holds, R!KindsOf,
         R!AllKinds, R!FrameIn, R!Frame, R!BodyOf, R!FrameLen, R!BodyStart, R!HeaderLen, R!Extended,
         R!Calling, R!Called, R!ErrorCalls, R!Abandoned, R!Return, R!NoBuffer,
         RP!Dispatch, RP!DispatchMore, RP!DispatchLast, RP!DispatchError, RP!DispatchBad,
         RP!DispatchNoMemory, RP!DispatchNull, RP!DispatchBadError, RP!Reset, RP!Holds, RP!KindsOf,
         RP!AllKinds, RP!FrameIn, RP!Frame, RP!BodyOf, RP!FrameLen, RP!BodyStart, RP!HeaderLen,
         RP!Extended, RP!Calling, RP!Called, RP!ErrorCalls, RP!Abandoned, RP!Return, RP!NoBuffer

\* A step of riak_read keeps its types; in step with the stream, it stays there.
LEMMA ReadKeeps ==
    ASSUME R!TypeOK, ReadSocket
    PROVE  /\ R!TypeOK'
           /\ RP!Uncut /\ R!Cursor => R!Cursor'
<1> USE ReaderAssumed
<1>0. RP!TypeOK /\ (R!Cursor => RP!CursorInv)
  BY SameTypes, SameCursor DEF RP!CursorInv
<1>1. ASSUME NEW n \in SocketCounts(R!WantHeader), R!ReadHeader(n)
      PROVE  R!TypeOK' /\ (RP!Uncut /\ R!Cursor => R!Cursor')
  <2>1. n \in RP!ReadCounts(RP!WantHeader) /\ RP!ReadHeader(n)
    BY <1>1, SameCounts, SameHeader DEF SocketCounts
  <2>2. RP!TypeOK'
    BY <1>0, <2>1, RP!HeaderTyped
  <2>3. RP!Uncut /\ RP!CursorInv => RP!Cursor'
    BY <2>1, RP!HeaderCursor
  <2>4. QED  BY <1>0, <2>2, <2>3, SameTypes, SameCursor
<1>2. ASSUME NEW n \in SocketCounts(R!WantBody), R!ReadBody(n) \/ R!WriteOutside(n)
      PROVE  R!TypeOK' /\ (RP!Uncut /\ R!Cursor => R!Cursor')
  <2>1. n \in RP!ReadCounts(RP!WantBody) /\ (RP!ReadBody(n) \/ RP!WriteOutside(n))
    BY <1>2, SameCounts, SameBody DEF SocketCounts
  <2>2. RP!TypeOK'
    BY <1>0, <2>1, RP!BodyTyped
  <2>3. RP!Uncut /\ RP!CursorInv => RP!Cursor'
    BY <2>1, RP!BodyCursor
  <2>4. QED  BY <1>0, <2>2, <2>3, SameTypes, SameCursor
<1>3. CASE R!Dispatch
  <2>1. RP!Dispatch
    BY <1>3, SameDispatch
  <2>2. RP!TypeOK'
    BY <1>0, <2>1, RP!DispatchTyped
  <2>3. RP!CursorInv => RP!Cursor'
    BY <2>1, RP!DispatchCursor
  <2>4. QED  BY <1>0, <2>2, <2>3, SameTypes, SameCursor
<1>4. QED  BY <1>1, <1>2, <1>3 DEF ReadSocket

-----------------------------------------------------------------------------
(* Types, under any mishap. *)

\* More than TypeOK: a call under way has an operation, and its request has
\* not been heard before it is written.
Typed ==
    /\ TypeOK /\ live <= request
    /\ client \in Parts => heard < request
    /\ client \in Parts \cup {"written", "reading"} => live >= 1

\* Nothing is there at first.
LEMMA TypedInit == Init => Typed
<1> SUFFICES ASSUME Init PROVE Typed
  OBVIOUS
<1>1. RP!Init
  BY DEF Init, R!Init, R!Zeroed, R!NoBuffer, R!HeaderLen, RP!Init, RP!Zeroed, RP!NoBuffer, RP!HeaderLen
<1>2. R!TypeOK
  BY <1>1, ReaderAssumed, RP!InitTyped, SameTypes
<1>3. results \in Seq(Results) /\ 0 \in 0..NRequests
  BY SyncAssumption DEF Init
<1>4. torn \in BOOLEAN /\ closed \in BOOLEAN
  BY DEF Init
<1>5. client = "ready" /\ request = 0 /\ slot = 0 /\ live = 0 /\ heard = 0
  BY DEF Init
<1>6. QED  BY <1>2, <1>3, <1>4, <1>5 DEF Typed, TypeOK, Clients, Parts

\* A fresh operation has the types.
LEMMA FreshTyped ==
    ASSUME R!TypeOK, Fresh,
           UNCHANGED <<arrived, consumed, done_streaming, pc, ret, dispatched, calls>>
    PROVE  R!TypeOK'
<1> USE ReaderAssumed
<1>1. UInt32Size \in Nat /\ UInt32Size > 5 /\ R!Total \in Nat
  BY RP!WidthRoom, RP!FramesInStream DEF R!Total, RP!Total
<1>2. R!TypeOK' <=>
        /\ arrived \in 0..R!Total /\ consumed \in 0..arrived
        /\ position' \in 0..(UInt32Size - 1) /\ prefix' \in [0..(R!HeaderLen - 1) -> 0..R!Total]
        /\ msglen' \in 0..(UInt32Size - 1) /\ msglen_complete' \in BOOLEAN
        /\ R!IsBuffer(msgbuf') /\ response' \in Seq(0..NFrames) /\ error' \in BOOLEAN
        /\ done_streaming \in BOOLEAN /\ pc \in R!Pcs /\ ret \in R!Codes
        /\ dispatched \in Nat /\ calls \in Seq(R!Callbacks)
  BY DEF R!TypeOK, R!IsBuffer
<1>3. prefix' \in [0..(R!HeaderLen - 1) -> 0..R!Total]
  BY <1>1 DEF Fresh, R!Zeroed
<1>4. position' = 0 /\ msglen' = 0 /\ 0 \in 0..(UInt32Size - 1)
  BY <1>1 DEF Fresh
<1>5. R!IsBuffer(msgbuf') /\ response' \in Seq(0..NFrames)
  <2>1. msgbuf' = R!NoBuffer /\ response' = <<>> /\ <<>> \in Seq(0..NFrames)
    BY DEF Fresh
  <2>2. QED  BY <2>1 DEF R!IsBuffer
<1>6. QED  BY <1>2, <1>3, <1>4, <1>5 DEF Fresh, R!TypeOK

\* A result is one: a code, frames and the place of the answer.
LEMMA ResultTyped ==
    ASSUME TypeOK, NEW code \in R!Codes \cup {"WRITE", "MEMORY"},
           NEW answer \in Seq(0..NFrames), NEW s \in 0..NRequests
    PROVE  Append(results, [code |-> code, answer |-> answer, slot |-> s]) \in Seq(Results)
  BY DEF TypeOK, Results

\* Every step keeps the types.
LEMMA TypedStep == Typed /\ [Next]_vars => Typed'
<1> SUFFICES ASSUME Typed, [Next]_vars PROVE Typed'
  OBVIOUS
<1> DEFINE Frame == client \in Clients /\ request \in 0..NRequests /\ heard \in 0..request
                    /\ slot \in 0..heard /\ torn \in BOOLEAN /\ closed \in BOOLEAN
                    /\ live \in 0..request
<1>0. /\ R!TypeOK /\ Frame /\ results \in Seq(Results) /\ NRequests \in Nat
  BY SyncAssumption DEF Typed, TypeOK
<1>1. CASE Answer
  <2>1. PICK b \in Cuts : R!Arrive(b)
    BY <1>1 DEF Answer
  <2>2. b \in 1..R!Total /\ R!Total \in Nat
    BY <2>1, ReaderAssumed, RP!FramesInStream
    DEF RP!EnvironmentAssumption, R!Total, RP!Total
  <2>3. R!TypeOK'
    BY <1>0, <2>1, <2>2 DEF R!Arrive, R!TypeOK, R!IsBuffer, R!rop
  <2>4. QED  BY <1>0, <1>1, <2>3 DEF Answer, conn, call, Typed, TypeOK
<1>2. CASE Close \/ UNCHANGED vars
  <2>1. R!TypeOK'
    BY <1>0, <1>2 DEF Close, reader, rop, vars, R!TypeOK, R!IsBuffer
  <2>2. QED  BY <1>0, <1>2, <2>1 DEF Close, call, vars, conn, Typed, TypeOK
<1>3. CASE NewOperation
  <2>1. R!TypeOK'
    BY <1>0, <1>3, FreshTyped DEF NewOperation
  <2>2. QED  BY <1>0, <1>3, <2>1 DEF NewOperation, conn, Typed, TypeOK, Clients, Parts
<1>4. CASE NoMemory
  <2>1. R!TypeOK'
    BY <1>0, <1>4 DEF NoMemory, reader, rop, R!TypeOK, R!IsBuffer
  <2>2. results' \in Seq(Results)
    <3>1. <<>> \in Seq(0..NFrames) /\ 0 \in 0..NRequests
      BY <1>0
    <3>2. Append(results, [code |-> "MEMORY", answer |-> <<>>, slot |-> 0]) \in Seq(Results)
      BY <3>1, ResultTyped DEF Typed
    <3>3. QED  BY <1>0, <1>4, <3>2 DEF NoMemory
  <2>3. QED  BY <1>0, <1>4, <2>1, <2>2 DEF NoMemory, conn, Typed, TypeOK, Clients, Parts
<1>5. CASE WritePart \/ WriteShort
  <2>1. R!TypeOK'
    BY <1>0, <1>5 DEF WritePart, WriteShort, reader, rop, R!TypeOK, R!IsBuffer
  <2>2. client \in Parts /\ client' = After(client)
        /\ UNCHANGED <<request, live, results, closed>> /\ torn' \in BOOLEAN
    BY <1>0, <1>5 DEF WritePart, WriteShort, call
  <2>3. client' \in Clients /\ client' \notin {"ready", "crashed"}
        /\ (client' \in Parts <=> client' # "written")
    BY <2>2 DEF After, Parts, Clients
  <2>4. \/ UNCHANGED <<heard, slot>>
        \/ client' = "written" /\ heard' = heard + 1 /\ slot' = heard + 1
    BY <1>5, <2>2 DEF WritePart, WriteShort, call
  <2>5. heard < request /\ live >= 1
    BY <2>2 DEF Typed
  <2>6. heard' \in 0..request /\ slot' \in 0..heard' /\ (client' \in Parts => heard' < request)
    BY <1>0, <2>3, <2>4, <2>5
  <2>7. QED  BY <1>0, <2>1, <2>2, <2>3, <2>5, <2>6 DEF Typed, TypeOK
<1>6. CASE WriteNothing
  <2>1. R!TypeOK'
    BY <1>0, <1>6 DEF WriteNothing, reader, rop, R!TypeOK, R!IsBuffer
  <2>2. results' \in Seq(Results)
    <3>1. <<>> \in Seq(0..NFrames) /\ slot \in 0..NRequests
      BY <1>0
    <3>2. QED  BY <1>0, <1>6, <3>1, ResultTyped DEF WriteNothing, Returns, Typed
  <2>3. QED
    BY <1>0, <1>6, <2>1, <2>2
    DEF WriteNothing, Returns, WriteFreed, Typed, TypeOK, Clients, Parts
<1>7. CASE EnterRead
  <2>1. R!TypeOK'
    BY <1>0, <1>7 DEF EnterRead, R!Enter, R!ResumeAt, R!rop, R!TypeOK, R!IsBuffer, R!Pcs, R!Codes
  <2>2. QED  BY <1>0, <1>7, <2>1 DEF EnterRead, conn, call, Typed, TypeOK, Clients, Parts
<1>8. CASE ReadSocket
  <2>1. R!TypeOK'
    BY <1>0, <1>8, ReadKeeps
  <2>2. QED  BY <1>0, <1>8, <2>1 DEF ReadSocket, conn, call, Typed, TypeOK
<1>9. CASE Finish
  <2>1. R!TypeOK'
    BY <1>0, <1>9 DEF Finish, reader, rop, R!TypeOK, R!IsBuffer
  <2>2. results' \in Seq(Results)
    <3>1. slot \in 0..NRequests /\ ret \in R!Codes /\ response \in Seq(0..NFrames)
      BY <1>0 DEF R!TypeOK
    <3>2. QED  BY <1>0, <1>9, <3>1, ResultTyped DEF Finish, Returns, Typed
  <2>3. QED
    BY <1>0, <1>9, <2>1, <2>2 DEF Finish, Returns, conn, Typed, TypeOK, Clients, Parts
<1>10. QED
  BY <1>1, <1>2, <1>3, <1>4, <1>5, <1>6, <1>7, <1>8, <1>9 DEF Next, Program, Write, Stopped

\* Whatever goes wrong, the calls' state has its type: TypeOK of run riak_sync.
THEOREM TypeCorrect == Spec => []TypeOK
<1>1. Typed => TypeOK
  BY DEF Typed
<1>2. QED  BY <1>1, TypedInit, TypedStep, PTL DEF Spec

-----------------------------------------------------------------------------
(* A call starts reading where the answers to the earlier ones end.  This  *)
(* is so when each message comes in one piece, its prefix perhaps before   *)
(* it, and memory suffices: run riak_sync_fetch shows what becomes of a    *)
(* call whose answer is cut.                                               *)

Whole == /\ Faults = {}
         /\ Cuts \subseteq {Start[k + 1] : k \in 1..NFrames} \cup {Start[k] + 4 : k \in 1..NFrames}

\* Frames of the first k answers, and those of them after answer k - 1 up to frame n.
FramesTo(k)   == IF k = 0 THEN 0 ELSE LastOf[k]
PartOf(k, n)  == [i \in 1..(n - FramesTo(k - 1)) |-> FramesTo(k - 1) + i]

\* Nothing is left of the answers, unless the server has gone in the middle of one.
Quiet ==
    /\ consumed = arrived
    /\ closed \/ (dispatched = FramesTo(heard) /\ consumed = EndOf(heard))

Blank == position = 0 /\ prefix = R!Zeroed /\ ~msglen_complete /\ response = <<>>

\* Where riak_read is in the answer to the call's request.
Following ==
    \/ R!Broken
    \/ /\ pc \in {"header", "body", "dispatch"} /\ R!Cursor
       /\ dispatched \in FramesTo(slot - 1)..(FramesTo(slot) - 1)
       /\ response = PartOf(slot, dispatched)
       /\ pc = "body" => position = 0
    \/ /\ pc = "idle" /\ dispatched = FramesTo(slot)
       /\ consumed = arrived /\ consumed = EndOf(slot)
       /\ ret = "OK" => response = AnswerTo(slot)
    \/ /\ pc = "idle" /\ closed /\ consumed = arrived
       /\ BeginsWith(AnswerTo(slot), response)

Placed ==
    /\ arrived \in Cuts \cup {0} /\ arrived <= EndOf(heard)
    /\ client \in Parts \cup {"ready", "written"} => pc = "idle"
    /\ client \in Parts \cup {"written"} => Blank
    /\ client \in Parts => slot = 0
    /\ client \in Parts \cup {"ready"} => Quiet
    /\ client \in {"written", "reading"} /\ slot = 0 =>
          /\ Quiet /\ (closed \/ torn)
          /\ client = "reading" => pc \in {"idle", "header"} /\ Blank
    /\ client \in {"written", "reading"} /\ slot # 0 =>
          /\ slot = heard
          /\ client = "written" => dispatched = FramesTo(slot - 1) /\ consumed = EndOf(slot - 1)
          /\ client = "reading" => Following

\* Frames tile the stream, with a prefix and an id each.
LEMMA StreamFacts ==
    /\ NFrames \in Nat \ {0} /\ Start[1] = 0
    /\ \A k \in 1..(NFrames + 1) : Start[k] \in Nat
    /\ \A j, k \in 1..(NFrames + 1) : j < k => Start[j] + 4 < Start[k]
  BY ReadAssumption DEF R!FramesAssumption, R!HeaderLen

\* The answers tile the frames; the kinds of a frame tell the last one of an
\* answer.
LEMMA AnswerFacts ==
    /\ FramesTo(0) = 0 /\ EndOf(0) = 0
    /\ \A k \in 0..NRequests : FramesTo(k) \in 0..NFrames /\ EndOf(k) = Start[FramesTo(k) + 1]
    /\ \A k \in Request : /\ FramesTo(k) = LastOf[k] /\ FirstOf(k) = FramesTo(k - 1) + 1
                          /\ FramesTo(k - 1) < FramesTo(k) /\ EndOf(k - 1) < EndOf(k)
                          /\ "more" \notin KindsAt[FramesTo(k)]
                          /\ \A i \in (FramesTo(k - 1) + 1)..(FramesTo(k) - 1) : KindsAt[i] = {"more"}
<1>1. /\ NRequests \in Nat \ {0} /\ LastOf \in [Request -> 1..NFrames]
      /\ \A k \in Request :
           /\ FirstOf(k) <= LastOf[k] /\ "more" \notin KindsAt[LastOf[k]]
           /\ \A i \in FirstOf(k)..(LastOf[k] - 1) : KindsAt[i] = {"more"}
  BY SyncAssumption
<1>2. \A k \in 0..NRequests : FramesTo(k) \in 0..NFrames /\ EndOf(k) = Start[FramesTo(k) + 1]
  BY <1>1, StreamFacts DEF FramesTo, EndOf, Request
<1>3. \A k \in Request : FramesTo(k) = LastOf[k] /\ FirstOf(k) = FramesTo(k - 1) + 1
  BY <1>1 DEF FramesTo, FirstOf, Request
<1>4. \A k \in Request : FramesTo(k - 1) < FramesTo(k)
  <2> SUFFICES ASSUME NEW k \in Request PROVE FramesTo(k - 1) < FramesTo(k)
    OBVIOUS
  <2>1. k \in Nat /\ k - 1 \in 0..NRequests /\ k \in 0..NRequests
    BY <1>1 DEF Request
  <2>2. FramesTo(k - 1) \in Nat /\ FramesTo(k) \in Nat
    BY <1>2, <2>1
  <2>3. QED  BY <1>1, <1>3, <2>2
<1>5. \A k \in Request : EndOf(k - 1) < EndOf(k)
  <2> SUFFICES ASSUME NEW k \in Request PROVE EndOf(k - 1) < EndOf(k)
    OBVIOUS
  <2>1. k - 1 \in 0..NRequests /\ k \in 0..NRequests
    BY <1>1 DEF Request
  <2>2. FramesTo(k - 1) + 1 \in 1..(NFrames + 1) /\ FramesTo(k) + 1 \in 1..(NFrames + 1)
    BY <1>2, <2>1, StreamFacts
  <2>3. FramesTo(k - 1) + 1 < FramesTo(k) + 1
    BY <1>2, <1>4, <2>1
  <2>4. Start[FramesTo(k - 1) + 1] + 4 < Start[FramesTo(k) + 1]
    BY <2>2, <2>3, StreamFacts
  <2>5. QED  BY <1>2, <2>1, <2>2, <2>4, StreamFacts
<1>6. FramesTo(0) = 0 /\ EndOf(0) = 0
  BY DEF FramesTo, EndOf
<1>7. QED
  <2> HIDE DEF FramesTo
  <2> QED  BY <1>1, <1>2, <1>3, <1>4, <1>5, <1>6

\* No delivery ends inside a prefix.
LEMMA WholeUncut == Whole => RP!Uncut /\ \A b \in Cuts \cup {0} : ~R!InPrefix(b)
<1> SUFFICES ASSUME Whole, NEW b \in Cuts \cup {0}, NEW k \in 1..NFrames,
                    Start[k] < b, b < Start[k] + 4
             PROVE  FALSE
  BY DEF Whole, RP!Uncut, RP!InPrefix, RP!Frame, RP!BodyStart, RP!HeaderLen,
         R!InPrefix, R!Frame, R!BodyStart, R!HeaderLen
<1>1. b # 0
  BY StreamFacts
<1>2. PICK j \in 1..NFrames : b = Start[j + 1] \/ b = Start[j] + 4
  BY <1>1 DEF Whole
<1>3. /\ j \in 1..(NFrames + 1) /\ j + 1 \in 1..(NFrames + 1) /\ k \in 1..(NFrames + 1)
      /\ k \in Nat /\ j \in Nat
  BY StreamFacts
<1>4. CASE b = Start[j + 1]
  <2>1. ~(k = j + 1) /\ ~(j + 1 < k)
    BY <1>3, <1>4, StreamFacts
  <2>2. k < j + 1
    BY <1>3, <2>1
  <2>3. QED  BY <1>3, <1>4, <2>2, StreamFacts
<1>5. CASE b = Start[j] + 4
  <2>1. j < k \/ j = k \/ k < j
    BY <1>3
  <2>2. QED  BY <1>3, <1>5, <2>1, StreamFacts
<1>6. QED  BY <1>2, <1>4, <1>5

\* At a frame's start there are four bytes or none; behind its prefix the whole
\* message or nothing of it.
LEMMA AllOrNone ==
    ASSUME Whole, NEW a \in Cuts \cup {0}, NEW k \in 1..(NFrames + 1)
    PROVE  /\ a = Start[k] \/ a < Start[k] \/ (k <= NFrames /\ a >= Start[k] + 4)
           /\ k <= NFrames => (a <= Start[k] + 4 \/ a >= Start[k + 1])
<1>0. k \in Nat /\ Start[k] \in Nat /\ (k <= NFrames => k + 1 \in 1..(NFrames + 1) /\ Start[k + 1] \in Nat)
  BY StreamFacts
<1>1. CASE a = 0
  BY <1>0, <1>1, StreamFacts
<1>2. CASE a \in Cuts
  <2>1. PICK j \in 1..NFrames : a = Start[j + 1] \/ a = Start[j] + 4
    BY <1>2 DEF Whole
  <2>2. /\ j \in 1..(NFrames + 1) /\ j + 1 \in 1..(NFrames + 1) /\ j \in Nat
        /\ Start[j] \in Nat /\ Start[j + 1] \in Nat
    BY StreamFacts
  <2>3. CASE a = Start[j + 1]
    <3>1. j + 1 = k \/ j + 1 < k \/ (k < j + 1 /\ k <= NFrames)
      BY <1>0, <2>2, StreamFacts
    <3>2. k < j + 1 => k + 1 = j + 1 \/ k + 1 < j + 1
      BY <1>0, <2>2
    <3>3. QED  BY <1>0, <2>2, <2>3, <3>1, <3>2, StreamFacts
  <2>4. CASE a = Start[j] + 4
    <3>1. j = k \/ j < k \/ k < j
      BY <1>0, <2>2
    <3>2. k < j => k + 1 = j \/ k + 1 < j
      BY <1>0, <2>2
    <3>3. QED  BY <1>0, <2>2, <2>4, <3>1, <3>2, StreamFacts
  <2>5. QED  BY <2>1, <2>3, <2>4
<1>3. QED  BY <1>1, <1>2

\* One more frame of an answer.
LEMMA PartGrows ==
    ASSUME NEW k \in Request, NEW n \in FramesTo(k - 1)..(FramesTo(k) - 1)
    PROVE  /\ PartOf(k, n) \in Seq(Nat) /\ Append(PartOf(k, n), n + 1) = PartOf(k, n + 1)
           /\ PartOf(k, FramesTo(k)) = AnswerTo(k)
           /\ BeginsWith(AnswerTo(k), PartOf(k, n))
<1> DEFINE a == FramesTo(k - 1)
           z == FramesTo(k)
<1>1. a \in Nat /\ z \in Nat /\ n \in Nat /\ a <= n /\ n < z
      /\ LastOf[k] = z /\ FirstOf(k) = a + 1
  <2>1. k - 1 \in 0..NRequests /\ k \in 0..NRequests
    BY SyncAssumption DEF Request
  <2>2. a \in Nat /\ z \in Nat /\ LastOf[k] = z /\ FirstOf(k) = a + 1
    BY <2>1, AnswerFacts
  <2>3. QED  BY <2>2
<1>2. /\ PartOf(k, n) = [i \in 1..(n - a) |-> a + i]
      /\ PartOf(k, n + 1) = [i \in 1..(n + 1 - a) |-> a + i]
      /\ PartOf(k, z) = [i \in 1..(z - a) |-> a + i]
  <2>1. PartOf(k, n) = [i \in 1..(n - a) |-> a + i]
    BY DEF PartOf
  <2>2. PartOf(k, n + 1) = [i \in 1..(n + 1 - a) |-> a + i]
    BY <1>1 DEF PartOf
  <2>3. PartOf(k, z) = [i \in 1..(z - a) |-> a + i]
    BY DEF PartOf
  <2>4. QED  BY <2>1, <2>2, <2>3
<1>3. AnswerTo(k) = [i \in 1..(z - a) |-> a + i]
  <2>1. AnswerTo(k) = [i \in 1..(z - (a + 1) + 1) |-> a + 1 + i - 1]
    BY <1>1 DEF AnswerTo
  <2> HIDE DEF a, z
  <2>2. z - (a + 1) + 1 = z - a /\ \A i \in 1..(z - a) : a + 1 + i - 1 = a + i
    BY <1>1
  <2>3. QED  BY <2>1, <2>2
<1> HIDE DEF a, z
<1>4. n - a \in Nat /\ n + 1 - a = (n - a) + 1 /\ a + ((n - a) + 1) = n + 1
  BY <1>1
<1>5. PartOf(k, n) \in Seq(Nat) /\ Len(PartOf(k, n)) = n - a
  BY <1>1, <1>2, <1>4
<1>6. Append(PartOf(k, n), n + 1) = PartOf(k, n + 1)
  BY <1>1, <1>2, <1>4, <1>5
<1>7. BeginsWith(AnswerTo(k), PartOf(k, n))
  <2>1. Len(AnswerTo(k)) = z - a /\ z - a \in Nat
    BY <1>1, <1>3
  <2>2. QED  BY <1>1, <1>2, <1>3, <1>5, <2>1 DEF BeginsWith
<1>8. QED  BY <1>2, <1>3, <1>5, <1>6, <1>7 DEF z

\* In the answer to a request: what is known of the stream and of the next read.
LEMMA InAnswer ==
    ASSUME Whole, Typed, Placed, client = "reading", slot # 0,
           pc \in {"header", "body", "dispatch"}
    PROVE  /\ slot \in Request /\ slot = heard /\ R!Cursor
           /\ dispatched \in FramesTo(slot - 1)..(FramesTo(slot) - 1)
           /\ FramesTo(slot - 1) \in Nat /\ FramesTo(slot) \in 1..NFrames
           /\ dispatched \in Nat /\ dispatched + 1 \in 1..NFrames
           /\ response = PartOf(slot, dispatched)
           /\ pc = "body" => position = 0
           /\ consumed \in Nat /\ arrived \in Nat /\ consumed <= arrived
<1>1. Following /\ slot = heard
  BY DEF Placed
<1>2. /\ R!Cursor /\ dispatched \in FramesTo(slot - 1)..(FramesTo(slot) - 1)
      /\ response = PartOf(slot, dispatched) /\ (pc = "body" => position = 0)
  BY <1>1 DEF Following, R!Broken
<1>3. slot \in Request
  BY SyncAssumption DEF Typed, TypeOK, Request
<1>4. slot - 1 \in 0..NRequests /\ slot \in 0..NRequests
  BY <1>3, SyncAssumption DEF Request
<1>5. /\ FramesTo(slot - 1) \in Nat /\ FramesTo(slot) \in 0..NFrames
      /\ FramesTo(slot - 1) < FramesTo(slot)
  BY <1>3, <1>4, AnswerFacts
<1>6. consumed \in Nat /\ arrived \in Nat /\ consumed <= arrived
  BY ReaderAssumed, RP!FramesInStream DEF Typed, TypeOK, R!TypeOK, R!Total, RP!Total
<1>7. QED  BY <1>1, <1>2, <1>3, <1>5, <1>6, StreamFacts

\* What read(2) answers: all that was asked for or what is there, and nothing
\* only when the server has gone.
LEMMA SocketAnswers ==
    ASSUME Whole, consumed \in Nat, arrived \in Nat, consumed <= arrived,
           NEW want \in Nat, NEW n \in SocketCounts(want)
    PROVE  /\ n = IF want < arrived - consumed THEN want ELSE arrived - consumed
           /\ n = 0 /\ want # 0 => consumed = arrived /\ closed
  BY DEF SocketCounts, R!ReadCounts, R!Lesser, Whole

\* The prefix of the next frame is read whole, or the server has gone.
LEMMA HeaderStep ==
    ASSUME Whole, Typed, Placed, client = "reading", slot # 0, pc = "header",
           NEW n \in SocketCounts(R!WantHeader), R!ReadHeader(n), R!Cursor',
           UNCHANGED <<slot, closed>>
    PROVE  Following'
<1> DEFINE k == dispatched + 1
<1>1. /\ slot \in Request /\ k \in 1..NFrames /\ response = PartOf(slot, dispatched)
      /\ dispatched \in FramesTo(slot - 1)..(FramesTo(slot) - 1)
      /\ consumed \in Nat /\ arrived \in Nat /\ consumed <= arrived /\ R!Cursor
  BY InAnswer
<1>2. consumed = Start[k] /\ position = 0 /\ k \in 1..(NFrames + 1) /\ Start[k] \in Nat
  BY <1>1, StreamFacts DEF R!Cursor
<1>3. R!WantHeader = 4
  BY <1>2 DEF R!WantHeader, R!HeaderLen
<1>4. arrived = Start[k] \/ arrived >= Start[k] + 4
  BY <1>1, <1>2, AllOrNone DEF Placed
<1>5. (n = 0 /\ consumed = arrived /\ closed) \/ n = 4
  BY <1>1, <1>2, <1>3, <1>4, SocketAnswers
<1>6. CASE n = 0 /\ consumed = arrived /\ closed
  <2>1. R!HeaderNothing(n)
    BY <1>3, <1>6 DEF R!ReadHeader, R!HeaderComplete, R!HeaderPartial
  <2>2. pc' = "idle" /\ UNCHANGED <<arrived, consumed, response>>
    BY <2>1 DEF R!HeaderNothing, R!Return, R!rop
  <2>3. BeginsWith(AnswerTo(slot), response)
    BY <1>1, PartGrows
  <2>4. (BeginsWith(AnswerTo(slot), response))'
    BY <2>2, <2>3 DEF BeginsWith, AnswerTo, FirstOf
  <2>5. QED  BY <1>6, <2>2, <2>4 DEF Following
<1>7. CASE n = 4
  <2>1. R!HeaderComplete(n)
    BY <1>3, <1>7 DEF R!ReadHeader, R!HeaderNothing, R!HeaderPartial
  <2>2. pc' = "body" /\ UNCHANGED <<position, dispatched, response>>
    BY <2>1 DEF R!HeaderComplete, Whole
  <2>3. (response = PartOf(slot, dispatched))'
    BY <1>1, <2>2 DEF PartOf, FramesTo
  <2>4. (dispatched \in FramesTo(slot - 1)..(FramesTo(slot) - 1))'
    BY <1>1, <2>2 DEF FramesTo
  <2>5. QED  BY <1>2, <2>2, <2>3, <2>4 DEF Following
<1>8. QED  BY <1>5, <1>6, <1>7

\* So is its message.
LEMMA BodyStep ==
    ASSUME Whole, Typed, Placed, client = "reading", slot # 0, pc = "body",
           NEW n \in SocketCounts(R!WantBody), R!ReadBody(n) \/ R!WriteOutside(n), R!Cursor',
           UNCHANGED <<slot, closed>>
    PROVE  Following'
<1> DEFINE k == dispatched + 1
           len == Start[k + 1] - Start[k] - 4
<1>1. /\ slot \in Request /\ k \in 1..NFrames /\ response = PartOf(slot, dispatched)
      /\ dispatched \in FramesTo(slot - 1)..(FramesTo(slot) - 1)
      /\ consumed \in Nat /\ arrived \in Nat /\ consumed <= arrived /\ R!Cursor
      /\ position = 0
  BY InAnswer
<1>2. /\ k \in 1..(NFrames + 1) /\ k + 1 \in 1..(NFrames + 1)
      /\ Start[k] \in Nat /\ Start[k + 1] \in Nat /\ Start[k] + 4 < Start[k + 1]
  BY <1>1, StreamFacts
<1>3. R!MidFrame(k)
  BY <1>1 DEF R!Cursor
<1>4. consumed = Start[k] + 4 /\ msglen = len /\ len \in Nat \ {0}
  BY <1>1, <1>2, <1>3 DEF R!MidFrame, R!BodyStart, R!FrameLen, R!HeaderLen
<1>5. R!WantBody = len
  BY <1>1, <1>4 DEF R!WantBody
<1>6. arrived = Start[k] + 4 \/ arrived >= Start[k + 1]
  BY <1>1, <1>2, <1>4, AllOrNone DEF Placed
<1>7. (n = 0 /\ consumed = arrived /\ closed) \/ n = len
  <2> HIDE DEF k
  <2> QED  BY <1>1, <1>2, <1>4, <1>5, <1>6, SocketAnswers
<1>8. CASE R!WriteOutside(n)
  BY <1>8 DEF R!WriteOutside, Following, R!Broken
<1>9. CASE R!ReadBody(n) /\ n = 0 /\ consumed = arrived /\ closed
  <2>1. position' = 0 /\ UNCHANGED <<arrived, consumed, response>>
    BY <1>1, <1>9, ReaderAssumed, RP!WidthRoom DEF R!ReadBody, R!Wrap, R!Read
  <2>2. pc' = "idle"
    <3> HIDE DEF len
    <3>1. msglen \in Nat /\ msglen > 0 /\ position' = 0
      BY <1>4, <2>1
    <3>2. \/ position' < msglen /\ R!Return("OK")
          \/ position' = msglen \/ position' > msglen
      BY <1>9 DEF R!ReadBody
    <3>3. QED  BY <3>1, <3>2 DEF R!Return
  <2>3. BeginsWith(AnswerTo(slot), response)
    BY <1>1, PartGrows
  <2>4. (BeginsWith(AnswerTo(slot), response))'
    BY <2>1, <2>3 DEF BeginsWith, AnswerTo, FirstOf
  <2>5. QED  BY <1>9, <2>1, <2>2, <2>4 DEF Following
<1>10. CASE R!ReadBody(n) /\ n = len
  <2>1. position' = len
    <3>1. position = 0 /\ msglen = len /\ msglen \in Nat /\ msglen < UInt32Size /\ UInt32Size \in Nat
      <4>1. msglen \in 0..(UInt32Size - 1) /\ UInt32Size \in Nat
        BY ReaderAssumed, RP!WidthRoom DEF Typed, TypeOK, R!TypeOK
      <4> HIDE DEF len
      <4>2. QED  BY <1>1, <1>4, <4>1
    <3>2. position' = R!Wrap(position + n)
      BY <1>10 DEF R!ReadBody
    <3> HIDE DEF len
    <3>3. QED  BY <1>10, <3>1, <3>2 DEF R!Wrap
  <2>2. pc' = "dispatch" /\ UNCHANGED <<dispatched, response>>
    BY <1>4, <1>10, <2>1 DEF R!ReadBody, R!Return
  <2>3. (response = PartOf(slot, dispatched))'
    BY <1>1, <2>2 DEF PartOf, FramesTo
  <2>4. (dispatched \in FramesTo(slot - 1)..(FramesTo(slot) - 1))'
    BY <1>1, <2>2 DEF FramesTo
  <2>5. QED  BY <2>2, <2>3, <2>4 DEF Following
<1>11. QED  BY <1>7, <1>8, <1>9, <1>10

\* The message is a frame of the answer, and its kind tells whether the last.
LEMMA DispatchStep ==
    ASSUME Whole, Typed, Placed, client = "reading", slot # 0, R!Dispatch, R!Cursor',
           UNCHANGED <<slot, closed, heard>>
    PROVE  Following'
<1> DEFINE k == dispatched + 1
<1>0. R!Reset /\ pc = "dispatch"
  BY DEF R!Dispatch, R!DispatchMore, R!DispatchLast, R!DispatchError, R!DispatchBad,
         R!DispatchNoMemory, R!DispatchNull, R!DispatchBadError, R!Reset
<1>1. /\ slot \in Request /\ k \in 1..NFrames /\ response = PartOf(slot, dispatched)
      /\ dispatched \in FramesTo(slot - 1)..(FramesTo(slot) - 1) /\ dispatched \in Nat
      /\ FramesTo(slot - 1) \in Nat /\ FramesTo(slot) \in 1..NFrames
      /\ consumed \in Nat /\ arrived \in Nat /\ consumed <= arrived /\ R!Cursor
      /\ slot = heard
  BY <1>0, InAnswer
<1>2. R!FrameIn(msgbuf) = k /\ consumed = Start[k + 1]
  <2>1. RP!CursorInv /\ pc = "dispatch"
    BY <1>0, <1>1, SameTypes, SameCursor DEF RP!CursorInv, Typed, TypeOK
  <2>2. msgbuf = RP!BodyOf(k) /\ consumed = Start[k + 1] /\ k \in RP!Frame
    <3>1. consumed = Start[dispatched + 2] /\ dispatched + 2 = k + 1
      BY <1>1, <2>1, ReaderAssumed, RP!DispatchedFrame
    <3>2. QED  BY <2>1, <3>1, ReaderAssumed, RP!DispatchedFrame
  <2>3. RP!FrameIn(msgbuf) = k
    BY <2>2, ReaderAssumed, RP!BodyNamesFrame
  <2>4. R!FrameIn(msgbuf) = RP!FrameIn(msgbuf)
    BY DEF R!FrameIn, R!BodyOf, R!FrameLen, R!BodyStart, R!HeaderLen, R!Frame,
           RP!FrameIn, RP!BodyOf, RP!FrameLen, RP!BodyStart, RP!HeaderLen, RP!Frame
  <2>5. QED  BY <2>2, <2>3, <2>4
<1>3. k # 0 /\ \A kind : R!Holds(kind) <=> kind \in KindsAt[k]
  BY <1>1, <1>2 DEF R!Holds, R!KindsOf
<1>4. /\ R!Holds("more") => k < FramesTo(slot)
      /\ \A kind : R!Holds(kind) /\ kind # "more" => k = FramesTo(slot)
  <2>1. /\ "more" \notin KindsAt[FramesTo(slot)]
        /\ \A i \in (FramesTo(slot - 1) + 1)..(FramesTo(slot) - 1) : KindsAt[i] = {"more"}
    BY <1>1, AnswerFacts
  <2>2. k <= FramesTo(slot) /\ (k # FramesTo(slot) => KindsAt[k] = {"more"})
    BY <1>1, <2>1
  <2> HIDE DEF k
  <2>3. QED  BY <1>1, <1>3, <2>1, <2>2
<1>5. dispatched' = k /\ UNCHANGED <<arrived, consumed>>
  BY <1>0 DEF R!Reset
<1>6. R!Extended = PartOf(slot, k) /\ PartOf(slot, FramesTo(slot)) = AnswerTo(slot)
  BY <1>1, <1>2, PartGrows DEF R!Extended
<1>7. CASE R!DispatchMore
  <2>1. /\ k < FramesTo(slot) /\ pc' = "header" /\ response' = PartOf(slot, k)
    BY <1>4, <1>6, <1>7 DEF R!DispatchMore
  <2>2. (response = PartOf(slot, dispatched))'
    BY <1>5, <2>1 DEF PartOf, FramesTo
  <2>3. k \in FramesTo(slot - 1)..(FramesTo(slot) - 1)
    BY <1>1, <2>1
  <2>4. (dispatched \in FramesTo(slot - 1)..(FramesTo(slot) - 1))'
    BY <1>5, <2>3 DEF FramesTo
  <2>5. QED  BY <2>1, <2>2, <2>4 DEF Following
<1>8. CASE R!DispatchLast \/ R!DispatchError \/ R!DispatchBad
  <2>1. k = FramesTo(slot) /\ pc' = "idle"
    BY <1>4, <1>8 DEF R!DispatchLast, R!DispatchError, R!DispatchBad, R!Return
  <2>2. EndOf(slot) = Start[k + 1] /\ EndOf(slot) \in Nat
    <3>1. slot \in 0..NRequests /\ k + 1 \in 1..(NFrames + 1)
      BY <1>1, SyncAssumption DEF Request
    <3>2. QED  BY <2>1, <3>1, AnswerFacts, StreamFacts
  <2>3. consumed = arrived /\ consumed = EndOf(slot)
    BY <1>1, <1>2, <2>2 DEF Placed
  <2>4. ret' = "OK" => response' = AnswerTo(slot)
    BY <1>6, <1>8, <2>1 DEF R!DispatchLast, R!DispatchError, R!DispatchBad, R!Return
  <2>5. /\ (dispatched = FramesTo(slot))' /\ (consumed = arrived)' /\ (consumed = EndOf(slot))'
        /\ (ret = "OK" => response = AnswerTo(slot))'
    BY <1>5, <2>1, <2>3, <2>4 DEF FramesTo, EndOf, AnswerTo, FirstOf
  <2>6. QED  BY <2>1, <2>5 DEF Following
<1>9. CASE R!DispatchNoMemory \/ R!DispatchNull \/ R!DispatchBadError
  BY <1>9 DEF Whole, R!DispatchNoMemory, R!DispatchNull, R!DispatchBadError, Following, R!Broken
<1>10. QED  BY <1>7, <1>8, <1>9 DEF R!Dispatch

\* A call whose request the server does not answer finds nothing to read.
LEMMA QuietRead ==
    ASSUME Whole, Typed, Placed, client = "reading", slot = 0, ReadSocket
    PROVE  pc' = "idle" /\ Blank' /\ UNCHANGED <<arrived, consumed, dispatched>>
<1>1. Quiet /\ Blank /\ pc = "header"
  BY DEF Placed, ReadSocket, R!Dispatch, R!DispatchMore, R!DispatchLast, R!DispatchError,
         R!DispatchBad, R!DispatchNoMemory, R!DispatchNull, R!DispatchBadError, R!Reset
<1>2. PICK n \in SocketCounts(R!WantHeader) : R!ReadHeader(n)
  BY <1>1 DEF ReadSocket, R!Dispatch, R!DispatchMore, R!DispatchLast, R!DispatchError,
         R!DispatchBad, R!DispatchNoMemory, R!DispatchNull, R!DispatchBadError, R!Reset
<1>3. consumed \in Nat /\ arrived \in Nat /\ consumed = arrived /\ R!WantHeader = 4
  BY <1>1, ReaderAssumed, RP!FramesInStream
  DEF Typed, TypeOK, R!TypeOK, R!Total, RP!Total, Quiet, Blank, R!WantHeader, R!HeaderLen
<1>4. n = 0
  BY <1>2, <1>3, SocketAnswers
<1>5. R!HeaderNothing(n)
  BY <1>2, <1>3, <1>4 DEF R!ReadHeader, R!HeaderComplete, R!HeaderPartial
<1>6. QED  BY <1>1, <1>5 DEF R!HeaderNothing, R!Return, R!rop, Blank, R!Zeroed

\* At first nothing has been asked and nothing has come.
LEMMA PlacedInit == Init => Placed
  BY AnswerFacts DEF Init, R!Init, Placed, Quiet, Parts

\* A step of the call or of the server keeps the call's place in the stream.
LEMMA PlacedStep == Whole /\ Typed /\ Placed /\ [Next]_vars => Placed'
<1> SUFFICES ASSUME Whole, Typed, Placed, [Next]_vars PROVE Placed'
  OBVIOUS
<1>0. /\ NRequests \in Nat /\ request \in 0..NRequests /\ heard \in 0..request /\ slot \in 0..heard
      /\ consumed \in Nat /\ arrived \in Nat /\ consumed <= arrived
      /\ EndOf(heard) \in Nat /\ Cuts \subseteq Nat
  <2>1. NRequests \in Nat /\ request \in 0..NRequests /\ heard \in 0..request /\ slot \in 0..heard
    BY SyncAssumption DEF Typed, TypeOK
  <2>2. EndOf(heard) \in Nat
    <3>1. heard \in 0..NRequests
      BY <2>1
    <3>2. FramesTo(heard) \in 0..NFrames /\ EndOf(heard) = Start[FramesTo(heard) + 1]
      BY <3>1, AnswerFacts
    <3>3. FramesTo(heard) + 1 \in 1..(NFrames + 1)
      BY <3>2, StreamFacts
    <3>4. QED  BY <3>2, <3>3, StreamFacts
  <2>3. consumed \in Nat /\ arrived \in Nat /\ consumed <= arrived
    BY ReaderAssumed, RP!FramesInStream DEF Typed, TypeOK, R!TypeOK, R!Total, RP!Total
  <2>4. Cuts \subseteq Nat
    BY ReaderAssumed, RP!FramesInStream DEF RP!EnvironmentAssumption, RP!Total
  <2>5. QED  BY <2>1, <2>2, <2>3, <2>4
<1>1. CASE Answer
  <2>1. PICK b \in Cuts : b <= EndOf(heard) /\ R!Arrive(b) /\ ~closed
    BY <1>1 DEF Answer
  <2>2. /\ arrived < b /\ arrived' = b
        /\ UNCHANGED <<client, heard, torn, closed, slot, consumed, rop, pc, ret, dispatched>>
    BY <1>1, <2>1 DEF R!Arrive, R!rop, rop, Answer, conn, call
  <2>3. ~Quiet
    BY <1>0, <2>1, <2>2 DEF Quiet
  <2>4. client \in {"written", "reading"} => slot # 0
    BY <2>3 DEF Placed
  <2>5. client = "reading" => Following'
    <3> SUFFICES ASSUME client = "reading" PROVE Following'
      OBVIOUS
    <3>1. Following /\ slot = heard
      BY <2>4 DEF Placed
    <3>2. ~(pc = "idle" /\ consumed = arrived /\ (closed \/ consumed = EndOf(slot)))
      BY <1>0, <2>1, <2>2, <3>1
    <3>3. CASE R!Broken
      BY <2>2, <3>3 DEF R!Broken, Following
    <3>4. CASE pc \in {"header", "body", "dispatch"} /\ R!Cursor
      <4>1. ~R!InPrefix(b)
        BY WholeUncut
      <4>2. R!Cursor'
        BY <2>2, <3>4, <4>1 DEF rop, R!Cursor, R!InPrefix, R!MidFrame
      <4>3. /\ dispatched \in FramesTo(slot - 1)..(FramesTo(slot) - 1)
            /\ response = PartOf(slot, dispatched) /\ (pc = "body" => position = 0)
        BY <3>1, <3>4 DEF Following, R!Broken
      <4>4. (/\ dispatched \in FramesTo(slot - 1)..(FramesTo(slot) - 1)
             /\ response = PartOf(slot, dispatched) /\ (pc = "body" => position = 0))'
        BY <2>2, <4>3 DEF rop, PartOf, FramesTo
      <4>5. QED  BY <2>2, <3>4, <4>2, <4>4 DEF Following
    <3>5. QED  BY <3>1, <3>2, <3>3, <3>4 DEF Following
  <2>6. QED  BY <2>1, <2>2, <2>3, <2>4, <2>5 DEF Placed, Quiet, Blank, rop, EndOf, FramesTo, R!Zeroed
<1>2. CASE Close \/ UNCHANGED vars
  <2>1. /\ UNCHANGED <<client, heard, torn, slot, arrived, consumed, position, prefix, msglen,
                       msglen_complete, msgbuf, response, pc, ret, dispatched>>
        /\ closed => closed'
    BY <1>2 DEF Close, vars, conn, call, reader, rop
  <2>2. (Quiet => Quiet') /\ (Blank => Blank') /\ ((closed \/ torn) => (closed \/ torn)')
    BY <2>1 DEF Quiet, Blank, EndOf, FramesTo, R!Zeroed
  <2>3. R!Cursor => R!Cursor'
    BY <2>1 DEF R!Cursor, R!InPrefix, R!MidFrame, R!Zeroed
  <2>4. Following => Following'
    BY <2>1, <2>3 DEF Following, R!Broken, PartOf, FramesTo, EndOf, AnswerTo, FirstOf, BeginsWith
  <2>5. /\ (arrived <= EndOf(heard) => (arrived <= EndOf(heard))')
        /\ (dispatched = FramesTo(slot - 1) /\ consumed = EndOf(slot - 1)
              => (dispatched = FramesTo(slot - 1) /\ consumed = EndOf(slot - 1))')
    BY <2>1 DEF EndOf, FramesTo
  <2>6. QED  BY <2>1, <2>2, <2>4, <2>5 DEF Placed
<1>3. CASE NewOperation
  <2>1. /\ client = "ready" /\ client' = "length" /\ slot' = 0 /\ Blank'
        /\ UNCHANGED <<heard, closed, torn, arrived, consumed, pc, dispatched>>
    BY <1>3 DEF NewOperation, conn, Fresh, Blank, R!Zeroed
  <2>2. Quiet /\ pc = "idle"
    BY <2>1 DEF Placed
  <2>3. Quiet'
    BY <2>1, <2>2 DEF Quiet, EndOf, FramesTo
  <2>4. QED  BY <2>1, <2>2, <2>3 DEF Placed, EndOf, Parts
<1>4. CASE NoMemory
  <2>1. /\ client = "ready" /\ client' \in {"ready", "crashed"}
        /\ UNCHANGED <<heard, closed, torn, arrived, consumed, pc, dispatched>>
    BY <1>4 DEF NoMemory, conn, reader
  <2>2. Quiet /\ pc = "idle"
    BY <2>1 DEF Placed
  <2>3. Quiet'
    BY <2>1, <2>2 DEF Quiet, EndOf, FramesTo
  <2>4. QED  BY <2>1, <2>2, <2>3 DEF Placed, EndOf, Parts
<1>5. CASE WritePart \/ WriteShort
  <2>1. /\ client \in Parts /\ client' = After(client) /\ client' \in Parts \cup {"written"}
        /\ UNCHANGED <<arrived, consumed, rop, pc, dispatched, closed>>
    BY <1>5 DEF WritePart, WriteShort, call, reader, After, Parts
  <2>2. Quiet /\ Blank /\ slot = 0 /\ pc = "idle"
    BY <2>1 DEF Placed
  <2>3. Blank'
    BY <2>1, <2>2 DEF Blank, rop, R!Zeroed
  <2>4. CASE client' = "written" /\ heard' = heard + 1 /\ slot' = heard + 1 /\ ~closed
    <3>1. heard + 1 \in Request /\ heard + 1 - 1 = heard
      BY <1>0, <2>1 DEF Typed, Request
    <3>2. heard + 1 \in 0..NRequests
      BY <3>1 DEF Request
    <3>3. EndOf(heard) < EndOf(heard + 1) /\ EndOf(heard + 1) \in Nat
      <4>1. FramesTo(heard + 1) \in 0..NFrames /\ EndOf(heard + 1) = Start[FramesTo(heard + 1) + 1]
        BY <3>2, AnswerFacts
      <4>2. FramesTo(heard + 1) + 1 \in 1..(NFrames + 1)
        BY <4>1, StreamFacts
      <4>3. EndOf(heard) < EndOf(heard + 1)
        <5>1. \A k \in Request : k - 1 = heard => EndOf(heard) < EndOf(k)
          <6>1. \A k \in Request : EndOf(k - 1) < EndOf(k)
            BY AnswerFacts
          <6> HIDE DEF EndOf
          <6>2. QED  BY <6>1
        <5>2. heard \in Int /\ heard + 1 \in Request
          BY <1>0, <3>1
        <5> HIDE DEF EndOf
        <5>3. QED  BY <5>1, <5>2
      <4>4. QED  BY <4>1, <4>2, <4>3, StreamFacts
    <3>4. arrived' <= (EndOf(heard))'
      <4>1. arrived <= EndOf(heard)
        BY DEF Placed
      <4>2. (EndOf(heard))' = EndOf(heard + 1)
        BY <2>4 DEF EndOf
      <4>3. QED  BY <1>0, <2>1, <3>3, <4>1, <4>2
    <3>5. dispatched = FramesTo(heard) /\ consumed = EndOf(heard)
      BY <2>2, <2>4 DEF Quiet
    <3>6. (dispatched = FramesTo(slot - 1) /\ consumed = EndOf(slot - 1))'
      <4>1. (slot - 1)' = heard
        BY <1>0, <2>4
      <4>2. dispatched' = FramesTo(heard) /\ consumed' = EndOf(heard)
        BY <2>1, <3>5
      <4>3. QED  BY <4>1, <4>2 DEF FramesTo, EndOf
    <3>7. heard + 1 # 0
      BY <1>0
    <3>8. QED  BY <2>1, <2>2, <2>3, <2>4, <3>4, <3>6, <3>7 DEF Placed, Parts
  <2>5. CASE UNCHANGED <<heard, slot>> /\ (client' = "written" => closed \/ torn')
    <3>1. Quiet'
      BY <2>1, <2>2, <2>5 DEF Quiet, EndOf, FramesTo
    <3>2. QED  BY <2>1, <2>2, <2>3, <2>5, <3>1 DEF Placed, EndOf, Parts
  <2>6. QED  BY <1>5, <2>1, <2>4, <2>5 DEF WritePart, WriteShort, call
<1>6. CASE WriteNothing
  <2>1. /\ client \in Parts /\ client' = "ready"
        /\ UNCHANGED <<heard, closed, arrived, consumed, pc, dispatched>>
    BY <1>6 DEF WriteNothing, Returns, reader
  <2>2. Quiet /\ pc = "idle"
    BY <2>1 DEF Placed
  <2>3. Quiet'
    BY <2>1, <2>2 DEF Quiet, EndOf, FramesTo
  <2>4. QED  BY <2>1, <2>2, <2>3 DEF Placed, EndOf, Parts
<1>7. CASE EnterRead
  <2>1. /\ client = "written" /\ client' = "reading" /\ pc' = R!ResumeAt
        /\ UNCHANGED <<heard, torn, closed, slot, arrived, consumed, rop, dispatched>>
    BY <1>7 DEF EnterRead, conn, call, R!Enter, R!rop, rop
  <2>2. Blank
    BY <2>1 DEF Placed
  <2>3. pc' = "header" /\ Blank'
    BY <2>1, <2>2 DEF Blank, R!ResumeAt, rop, R!Zeroed
  <2>4. slot = 0 => Quiet' /\ (closed \/ torn)
    BY <2>1 DEF Placed, Quiet, EndOf, FramesTo
  <2>5. ASSUME slot # 0 PROVE slot = heard /\ Following'
    <3>1. slot = heard /\ dispatched = FramesTo(slot - 1) /\ consumed = EndOf(slot - 1)
      BY <2>1, <2>5 DEF Placed
    <3>2. slot \in Request /\ slot - 1 \in 0..NRequests /\ slot \in 0..NRequests
      BY <1>0, <2>5 DEF Request
    <3>3. /\ FramesTo(slot - 1) \in 0..NFrames /\ EndOf(slot - 1) = Start[FramesTo(slot - 1) + 1]
          /\ FramesTo(slot) \in 0..NFrames /\ FramesTo(slot - 1) < FramesTo(slot)
      BY <3>2, AnswerFacts
    <3>4. ~R!InPrefix(arrived)
      BY WholeUncut DEF Placed
    <3>5. R!Cursor'
      BY <2>1, <2>2, <2>3, <3>1, <3>3, <3>4 DEF R!Cursor, Blank, rop, R!Zeroed, R!InPrefix
    <3>6. dispatched \in FramesTo(slot - 1)..(FramesTo(slot) - 1)
      <4>1. FramesTo(slot - 1) \in Int /\ FramesTo(slot) \in Int
        BY <3>3, StreamFacts
      <4> HIDE DEF FramesTo
      <4>2. QED  BY <3>1, <3>3, <4>1
    <3>7. response = PartOf(slot, dispatched)
      <4>1. dispatched - FramesTo(slot - 1) = 0
        BY <3>1, <3>3, StreamFacts
      <4>2. PartOf(slot, dispatched) = [i \in 1..0 |-> FramesTo(slot - 1) + i]
        BY <4>1 DEF PartOf
      <4>3. QED  BY <2>2, <4>2 DEF Blank
    <3>8. (dispatched \in FramesTo(slot - 1)..(FramesTo(slot) - 1))' /\ (response = PartOf(slot, dispatched))'
      BY <2>1, <3>6, <3>7 DEF rop, PartOf, FramesTo
    <3>9. QED  BY <2>3, <3>1, <3>5, <3>8 DEF Following
  <2>6. QED  BY <2>1, <2>3, <2>4, <2>5 DEF Placed, EndOf, Parts
<1>8. CASE ReadSocket
  <2>1. /\ client = "reading" /\ client' = "reading" /\ pc \in {"header", "body", "dispatch"}
        /\ UNCHANGED <<heard, torn, closed, slot>>
    BY <1>8 DEF ReadSocket, conn, call, R!Dispatch, R!DispatchMore, R!DispatchLast, R!DispatchError,
       R!DispatchBad, R!DispatchNoMemory, R!DispatchNull, R!DispatchBadError, R!Reset
  <2>2. arrived' = arrived
    BY <1>8 DEF ReadSocket, R!Dispatch, R!DispatchMore, R!DispatchLast, R!DispatchError,
       R!DispatchBad, R!DispatchNoMemory, R!DispatchNull, R!DispatchBadError, R!Reset,
       R!ReadHeader, R!HeaderComplete, R!HeaderPartial, R!HeaderNothing, R!ReadBody, R!WriteOutside
  <2>3. CASE slot = 0
    <3>1. Quiet /\ (closed \/ torn)
      BY <2>1, <2>3 DEF Placed
    <3>2. pc' = "idle" /\ Blank' /\ Quiet'
      BY <1>8, <2>1, <2>3, <3>1, QuietRead DEF Quiet, EndOf, FramesTo
    <3>3. QED  BY <2>1, <2>2, <2>3, <3>1, <3>2 DEF Placed, EndOf, Parts
  <2>4. CASE slot # 0
    <3>1. R!Cursor /\ slot = heard
      BY <2>1, <2>4, InAnswer
    <3>2. R!Cursor'
      BY <1>8, <3>1, ReadKeeps, WholeUncut DEF Typed, TypeOK
    <3>3. Following'
      <4>1. CASE pc = "header" /\ \E n \in SocketCounts(R!WantHeader) : R!ReadHeader(n)
        BY <2>1, <2>4, <3>2, <4>1, HeaderStep
      <4>2. CASE pc = "body" /\ \E n \in SocketCounts(R!WantBody) : R!ReadBody(n) \/ R!WriteOutside(n)
        BY <2>1, <2>4, <3>2, <4>2, BodyStep
      <4>3. CASE R!Dispatch
        BY <2>1, <2>4, <3>2, <4>3, DispatchStep
      <4>4. QED  BY <1>8, <4>1, <4>2, <4>3 DEF ReadSocket
    <3>4. QED  BY <2>1, <2>2, <2>4, <3>1, <3>3 DEF Placed, EndOf, Parts
  <2>5. QED  BY <2>3, <2>4
<1>9. CASE Finish
  <2>1. /\ client = "reading" /\ pc = "idle" /\ client' \in {"ready", "crashed"}
        /\ UNCHANGED <<heard, torn, closed, slot, arrived, consumed, pc, dispatched>>
    BY <1>9 DEF Finish, Returns, conn, reader
  <2>2. Quiet
    BY <2>1 DEF Placed, Quiet, Following, R!Broken
  <2>3. Quiet'
    BY <2>1, <2>2 DEF Quiet, EndOf, FramesTo
  <2>4. QED  BY <2>1, <2>3 DEF Placed, EndOf, Parts
<1>10. QED
  BY <1>1, <1>2, <1>3, <1>4, <1>5, <1>6, <1>7, <1>8, <1>9 DEF Next, Program, Write, Stopped

-----------------------------------------------------------------------------
(* The two properties of the calls. *)

\* What Placed says of the bytes read is InSync.
LEMMA PlacedInSync == Typed /\ Placed => InSync
<1> SUFFICES ASSUME Typed, Placed, ~closed, ~torn
             PROVE  /\ client \in Parts \cup {"ready"} => consumed = arrived /\ consumed = EndOf(heard)
                    /\ client = "written" => consumed = EndOf(heard - 1)
  BY DEF InSync
<1>1. client \in Parts \cup {"ready"} => consumed = arrived /\ consumed = EndOf(heard)
  BY DEF Placed, Quiet
<1>2. client = "written" => consumed = EndOf(heard - 1)
  BY DEF Placed
<1>3. QED  BY <1>1, <1>2

\* A call starts reading where the answers to the earlier ones end: InSync of run
\* riak_sync, when every message comes whole and memory suffices.
THEOREM InStep == ASSUME Whole PROVE Spec => []InSync
<1>1. Typed /\ Placed => InSync
  BY PlacedInSync
<1>2. Placed /\ Typed /\ [Next]_vars => Placed'
  BY PlacedStep
<1>3. QED  BY <1>1, <1>2, TypedInit, TypedStep, PlacedInit, PTL DEF Spec

\* What AnswersMatch says of one result, the server gone or left with part of a request.
Right(r, gone, part) ==
    r.code = "OK" =>
        IF r.slot = 0 THEN r.answer = <<>> /\ (gone \/ part)
        ELSE \/ r.answer = AnswerTo(r.slot)
             \/ gone /\ BeginsWith(AnswerTo(r.slot), r.answer)

\* AnswersMatch says it of each.
LEMMA MatchIsRight ==
    /\ AnswersMatch <=> \A i \in 1..Len(results) : Right(results[i], closed, torn)
    /\ AnswersMatch' <=> \A i \in 1..Len(results') : Right(results'[i], closed', torn')
<1>1. AnswersMatch <=> \A i \in 1..Len(results) : Right(results[i], closed, torn)
  BY DEF AnswersMatch, Right
<1>2. AnswersMatch' <=> \A i \in 1..Len(results') : Right(results'[i], closed', torn')
  BY DEF AnswersMatch, Right, AnswerTo, FirstOf, BeginsWith
<1>3. QED  BY <1>1, <1>2

\* A result that is right stays right: the server does not come back, and what is
\* left of a request is never completed.
LEMMA RightStays ==
    ASSUME NEW r, NEW gone, NEW part, NEW gone1, NEW part1, gone => gone1, part => part1,
           Right(r, gone, part)
    PROVE  Right(r, gone1, part1)
  BY DEF Right

\* A right result added to right ones,
LEMMA OneMoreResult ==
    ASSUME TypeOK, AnswersMatch, NEW r, results' = Append(results, r),
           (closed => closed') /\ (torn => torn'), Right(r, closed', torn')
    PROVE  AnswersMatch'
<1>1. results \in Seq(Results)
  BY DEF TypeOK
<1>2. \A i \in 1..Len(results') : (i \in 1..Len(results) /\ results'[i] = results[i]) \/ results'[i] = r
  BY <1>1
<1>3. \A i \in 1..Len(results') : Right(results'[i], closed', torn')
  BY <1>2, MatchIsRight, RightStays
<1>4. QED  BY <1>3, MatchIsRight

\* or none.
LEMMA MatchKept ==
    ASSUME AnswersMatch, UNCHANGED results, (closed => closed') /\ (torn => torn')
    PROVE  AnswersMatch'
  BY MatchIsRight, RightStays

\* What a call that ends returns is its own answer's, by the place it read from.
LEMMA MatchStep == Whole /\ Typed /\ Placed /\ AnswersMatch /\ [Next]_vars => AnswersMatch'
<1> SUFFICES ASSUME Whole, Typed, Placed, AnswersMatch, [Next]_vars PROVE AnswersMatch'
  OBVIOUS
<1>0. (closed => closed') /\ (torn => torn')
  <2>1. closed \in BOOLEAN /\ torn \in BOOLEAN
    BY DEF Typed, TypeOK
  <2>2. CASE Close \/ WriteShort \/ WriteNothing
    BY <2>1, <2>2 DEF Close, WriteShort, WriteNothing
  <2>3. CASE ~(Close \/ WriteShort \/ WriteNothing)
    <3>1. UNCHANGED <<closed, torn>>
      BY <2>3 DEF Next, Answer, Program, NewOperation, NoMemory, Write, WritePart, EnterRead,
         ReadSocket, Finish, Stopped, conn, vars
    <3>2. QED  BY <3>1
  <2>4. QED  BY <2>2, <2>3
<1>1. CASE Answer \/ Close \/ NewOperation \/ WritePart \/ WriteShort \/ EnterRead \/ ReadSocket
           \/ UNCHANGED vars
  BY <1>0, <1>1, MatchKept DEF Answer, Close, NewOperation, WritePart, WriteShort, EnterRead,
     ReadSocket, vars, call
<1>2. CASE NoMemory
  <2>1. CASE UNCHANGED results
    BY <1>0, <2>1, MatchKept
  <2>2. CASE results' = Append(results, [code |-> "MEMORY", answer |-> <<>>, slot |-> 0])
    <3>1. Right([code |-> "MEMORY", answer |-> <<>>, slot |-> 0], closed', torn')
      BY DEF Right
    <3>2. QED  BY <1>0, <2>2, <3>1, OneMoreResult DEF Typed
  <2>3. QED  BY <1>2, <2>1, <2>2 DEF NoMemory
<1>3. CASE WriteNothing
  <2>1. Right([code |-> "WRITE", answer |-> <<>>, slot |-> slot], closed', torn')
    BY DEF Right
  <2>2. QED  BY <1>0, <1>3, <2>1, OneMoreResult DEF WriteNothing, Returns, Typed
<1>4. CASE Finish
  <2> DEFINE r == [code |-> ret, answer |-> response, slot |-> slot]
  <2>1. CASE UNCHANGED results
    BY <1>0, <2>1, MatchKept
  <2>2. CASE results' = Append(results, r)
    <3>1. client = "reading" /\ pc = "idle"
      BY <1>4 DEF Finish
    <3>2. slot = 0 => response = <<>> /\ (closed \/ torn)
      BY <3>1 DEF Placed, Blank
    <3>3. slot # 0 /\ ret = "OK" =>
            \/ response = AnswerTo(slot)
            \/ closed /\ BeginsWith(AnswerTo(slot), response)
      <4>1. slot # 0 => Following
        BY <3>1 DEF Placed
      <4>2. QED  BY <3>1, <4>1 DEF Following, R!Broken
    <3>4. Right(r, closed, torn)
      BY <3>2, <3>3 DEF Right
    <3>5. Right(r, closed', torn')
      BY <1>0, <3>4, RightStays
    <3>6. QED  BY <1>0, <2>2, <3>5, OneMoreResult DEF Typed
  <2>3. QED  BY <1>4, <2>1, <2>2 DEF Finish, Returns
<1>5. QED  BY <1>1, <1>2, <1>3, <1>4 DEF Next, Program, Write, Stopped

\* No call is given anything of the answer to another: AnswersMatch of run riak_sync,
\* when every message comes whole and memory suffices.
THEOREM OwnAnswers == ASSUME Whole PROVE Spec => []AnswersMatch
<1>1. Init => AnswersMatch
  BY DEF Init, AnswersMatch
<1>2. Placed /\ Typed /\ [Next]_vars => Placed'
  BY PlacedStep
<1>3. Typed /\ Placed /\ AnswersMatch /\ [Next]_vars => AnswersMatch'
  BY MatchStep
<1>4. QED  BY <1>1, <1>2, <1>3, TypedInit, TypedStep, PlacedInit, PTL DEF Spec
=============================================================================
