-------------------------- MODULE RiakLibeventProof --------------------------
(***************************************************************************)
(* Proofs about RiakLibevent, for any number of operations on one base and *)
(* whatever the servers and the other threads of the process do.           *)
(*                                                                         *)
(* NoLostWakeup rests on the ways out of riak_read: each of them leaves    *)
(* nothing in the buffer or a mishap, and nothing comes while it runs or   *)
(* before the bufferevent is there.  PointerValid needs to know whose the  *)
(* descriptor numbers are.  While the program sets the operations up       *)
(* nothing is closed, so no number is given twice; afterwards nothing is   *)
(* set up, so the numbers of the operations stay apart and whatever one of *)
(* them closes is not another's, though it may be a stranger's.            *)
(***************************************************************************)
EXTENDS RiakLibevent, FiniteSetTheorems, TLAPS

-----------------------------------------------------------------------------
(* Descriptors. *)

\* A finite set of numbers has a smallest.
LEMMA Minimum ==
    ASSUME NEW S, S \subseteq Nat, IsFiniteSet(S), S # {}
    PROVE  \E d \in S : \A e \in S : d <= e
<1> DEFINE Below(d) == {e \in S : e < d}
           Belows   == {Below(d) : d \in S}
<1>1. Belows \subseteq SUBSET S /\ Belows # {}
  OBVIOUS
<1>2. IsWellFoundedOn(StrictSubsetOrdering(S), SUBSET S)
  BY FS_StrictSubsetOrderingWellFounded, FS_FiniteSubsetsOfFinite
<1>3. PICK B \in Belows : \A C \in Belows : ~ (<<C, B>> \in StrictSubsetOrdering(S))
  <2> HIDE DEF Belows
  <2> QED BY <1>1, <1>2, WFMin
<1>4. PICK d \in S : B = Below(d)
  OBVIOUS
<1>5. ASSUME NEW e \in S, ~(d <= e) PROVE FALSE
  <2>1. e \in Nat /\ d \in Nat /\ e < d
    BY <1>5
  <2>2. Below(e) \in Belows
    OBVIOUS
  <2>3. Below(e) \subseteq B /\ e \in B /\ e \notin Below(e)
    <3>1. ASSUME NEW x \in S, x < e PROVE x < d
      <4>1. x \in Nat  OBVIOUS
      <4>2. QED  BY <2>1, <3>1, <4>1
    <3>2. Below(e) \subseteq Below(d)
      BY <3>1
    <3>3. e \in Below(d)
      BY <2>1
    <3>4. e \notin Below(e)
      BY <2>1
    <3>5. QED  BY <1>4, <3>2, <3>3, <3>4
  <2>4. <<Below(e), B>> \in StrictSubsetOrdering(S)
    BY <1>1, <2>2, <2>3 DEF StrictSubsetOrdering
  <2> QED BY <1>3, <2>2, <2>4
<1>6. QED  BY <1>5

\* A new socket gets a number that is free.
LEMMA LowestFree == Free # {} => Lowest \in Free /\ Lowest \in Fds /\ owner[Lowest] = None
<1> SUFFICES ASSUME Free # {} PROVE Lowest \in Free
  BY DEF Free
<1>1. Free \subseteq Nat /\ IsFiniteSet(Free)
  BY LibeventAssumption, FS_Subset DEF Free
<1>2. \E d \in Free : \A e \in Free : d <= e
  BY <1>1, Minimum
<1>3. QED  BY <1>2 DEF Lowest

-----------------------------------------------------------------------------
(* Types. *)

LEMMA StageNames ==
    /\ {Stages[i] : i \in 1..5} = {"new", "sent", "rop_freed", "cxn_freed", "over"}
    /\ AllParts \in Nat /\ 0 \in 0..AllParts
<1>1. /\ Stages[1] = "new" /\ Stages[2] = "sent" /\ Stages[3] = "rop_freed"
      /\ Stages[4] = "cxn_freed" /\ Stages[5] = "over"
  BY DEF Stages
<1>2. 1..5 = {1, 2, 3, 4, 5}
  OBVIOUS
<1>3. {Stages[i] : i \in 1..5} = {"new", "sent", "rop_freed", "cxn_freed", "over"}
  <2> HIDE DEF Stages
  <2> QED  BY <1>1, <1>2
<1>4. QED  BY <1>3, LibeventAssumption DEF AllParts

LEMMA TypeInit == Init => TypeOK
<1> SUFFICES ASSUME Init PROVE TypeOK
  OBVIOUS
<1> USE DEF Init
<1>1. \A o \in Operations : consumed[o] <= arrived[o]
  OBVIOUS
<1>2. stage \in [Operations -> {Stages[i] : i \in 1..5}]
  BY StageNames
<1>3. QED  BY <1>1, <1>2, StageNames DEF TypeOK, Mishaps

\* riak_read ends the operation or leaves it with its bufferevent.
LEMMA ReadCases ==
    ASSUME NEW o \in Operations, Read(o)
    PROVE  /\ reading = o /\ loop = "running" /\ loop' \in {"running", "crashed"}
           /\ UNCHANGED <<stage, exiting, fd, arrived>>
           /\ \/ Finish(o)
              \/ /\ reading' \in {None, o}
                 /\ UNCHANGED <<owner, bev, pointer, pending, done, harm>>
<1>1. CASE Message(o)
  BY <1>1 DEF Message, InLoop, GoOn, Elsewhere, base
<1>2. CASE DecoderFails(o)
  BY <1>2 DEF DecoderFails, InLoop, Leave, Elsewhere, base
<1>3. CASE NoBuffer(o)
  BY <1>3 DEF NoBuffer, InLoop, Leave, Elsewhere, base
<1>4. CASE ShortRead(o)
  BY <1>4 DEF ShortRead, InLoop, Leave, Elsewhere, base
<1>5. CASE Garbled(o)
  BY <1>5 DEF Garbled, Leave, Elsewhere, base
<1>6. CASE Crash(o)
  BY <1>6 DEF Crash, objects, traffic
<1>7. QED  BY <1>1, <1>2, <1>3, <1>4, <1>5, <1>6 DEF Read

\* Where a frame ends, relative to what has been read of it.
LEMMA FrameEnds ==
    ASSUME TypeOK, NEW o \in Operations
    PROVE  /\ FrameEnd(o) \in Nat /\ HeaderEnd(o) = FrameEnd(o) - 1
           /\ consumed[o] < FrameEnd(o) /\ FrameEnd(o) <= consumed[o] + 3
           /\ consumed[o] \in Nat /\ arrived[o] \in Nat /\ arrived[o] <= AllParts
<1>1. /\ consumed[o] \in Nat /\ arrived[o] \in Nat
      /\ arrived[o] <= AllParts
  BY StageNames DEF TypeOK
<1>2. QED  BY <1>1 DEF FrameEnd, HeaderEnd

\* It takes no more than is there, for no other operation, and returns to a buffer
\* that is empty unless it has left a mishap.
LEMMA ReadTakes ==
    ASSUME TypeOK, NEW o \in Operations, Read(o)
    PROVE  /\ consumed' \in [Operations -> 0..AllParts]
           /\ consumed'[o] <= arrived[o]
           /\ mishap' \in [Operations -> Mishaps]
           /\ \A q \in Operations \ {o} : consumed'[q] = consumed[q] /\ mishap'[q] = mishap[q]
           /\ \/ Finish(o) \/ reading' = o \/ mishap'[o] # "none" \/ consumed'[o] = arrived[o]
<1> DEFINE Takes(n, m) == /\ consumed' = [consumed EXCEPT ![o] = n] /\ n \in 0..arrived[o]
                          /\ mishap' = [mishap EXCEPT ![o] = m] /\ m \in Mishaps
           Out(n, m)   == Finish(o) \/ reading' = o \/ m # "none" \/ n = arrived[o]
<1>0. /\ FrameEnd(o) \in Nat /\ HeaderEnd(o) = FrameEnd(o) - 1
      /\ consumed[o] < FrameEnd(o)
      /\ consumed[o] \in Nat /\ arrived[o] \in Nat /\ arrived[o] <= AllParts
      /\ consumed[o] <= arrived[o] /\ mishap[o] \in Mishaps
      /\ mishap = [mishap EXCEPT ![o] = mishap[o]]
      /\ consumed = [consumed EXCEPT ![o] = consumed[o]]
  BY FrameEnds DEF TypeOK
<1>1. ASSUME NEW n, NEW m, Takes(n, m), Out(n, m)
      PROVE  /\ consumed' \in [Operations -> 0..AllParts]
             /\ consumed'[o] <= arrived[o]
             /\ mishap' \in [Operations -> Mishaps]
             /\ \A q \in Operations \ {o} : consumed'[q] = consumed[q] /\ mishap'[q] = mishap[q]
             /\ Out(consumed'[o], mishap'[o])
  <2>1. n \in 0..AllParts /\ n <= arrived[o]
    BY <1>0, <1>1, StageNames
  <2>2. consumed'[o] = n /\ mishap'[o] = m
    BY <1>1 DEF TypeOK
  <2>3. QED  BY <1>1, <2>1, <2>2 DEF TypeOK
<1> HIDE DEF Out
<1>2. CASE Message(o)
  <2>1. Takes(FrameEnd(o), mishap[o])
    BY <1>0, <1>2 DEF Message
  <2>2. Out(FrameEnd(o), mishap[o])
    BY <1>2 DEF Message, GoOn, InLoop, Out
  <2>3. QED  BY <1>1, <2>1, <2>2 DEF Out
<1>3. CASE DecoderFails(o)
  <2>1. Takes(FrameEnd(o), "failed") /\ Out(FrameEnd(o), "failed")
    BY <1>0, <1>3 DEF DecoderFails, Out, Mishaps
  <2>2. QED  BY <1>1, <2>1 DEF Out
<1>4. CASE NoBuffer(o)
  <2>1. HeaderEnd(o) \in 0..arrived[o]
    BY <1>0, <1>4 DEF NoBuffer
  <2>2. Takes(HeaderEnd(o), "null") /\ Out(HeaderEnd(o), "null")
    BY <1>4, <2>1 DEF NoBuffer, Out, Mishaps
  <2>3. QED  BY <1>1, <2>2 DEF Out
<1>5. CASE ShortRead(o)
  <2>1. PICK m \in Mishaps : mishap' = [mishap EXCEPT ![o] = m]
    <3>1. CASE arrived[o] = HeaderEnd(o) - 1
      BY <1>5, <3>1 DEF ShortRead, Mishaps
    <3>2. CASE arrived[o] # HeaderEnd(o) - 1
      BY <1>0, <1>5, <3>2 DEF ShortRead
    <3>3. QED  BY <3>1, <3>2
  <2>2. consumed' = [consumed EXCEPT ![o] = arrived[o]] /\ arrived[o] \in 0..arrived[o]
    BY <1>0, <1>5 DEF ShortRead, Got
  <2>3. Takes(arrived[o], m)
    BY <2>1, <2>2
  <2>4. Out(arrived[o], m)
    BY DEF Out
  <2>5. QED  BY <1>1, <2>3, <2>4 DEF Out
<1>6. CASE Garbled(o)
  <2>1. PICK n \in consumed[o]..arrived[o] : consumed' = [consumed EXCEPT ![o] = n]
    BY <1>6 DEF Garbled
  <2>2. n \in 0..arrived[o]
    BY <1>0
  <2>3. Takes(n, mishap[o])
    BY <1>0, <1>6, <2>1, <2>2 DEF Garbled
  <2>4. Out(n, mishap[o])
    BY <1>6 DEF Garbled, Out
  <2>5. QED  BY <1>1, <2>3, <2>4 DEF Out
<1>7. CASE Crash(o)
  <2>1. UNCHANGED <<consumed, mishap>> /\ consumed[o] \in 0..arrived[o]
    BY <1>0, <1>7 DEF Crash, traffic
  <2>2. Takes(consumed[o], mishap[o])
    BY <1>0, <2>1
  <2>3. Out(consumed[o], mishap[o])
    BY <1>7 DEF Crash, InLoop, traffic, Out
  <2>4. QED  BY <1>1, <2>2, <2>3 DEF Out
<1>8. QED  BY <1>2, <1>3, <1>4, <1>5, <1>6, <1>7 DEF Read

\* What comes is part of the answer, and more than there was.
LEMMA ArrivesWithin ==
    ASSUME TypeOK, NEW o \in Operations, Arrive(o)
    PROVE  \E n \in 0..AllParts : arrived[o] < n /\ arrived' = [arrived EXCEPT ![o] = n]
<1>1. PICK k \in 0..(NFrames - 1), part \in Cuts[o] :
          arrived[o] < 3 * k + part /\ arrived' = [arrived EXCEPT ![o] = 3 * k + part]
  BY DEF Arrive
<1>2. part \in {1, 2, 3} /\ NFrames \in Nat
  BY LibeventAssumption
<1>3. 3 * k + part \in 0..AllParts
  BY <1>2 DEF AllParts
<1>4. QED  BY <1>1, <1>3

LEMMA TypeStep == TypeOK /\ [Next]_vars => TypeOK'
<1> SUFFICES ASSUME TypeOK, [Next]_vars PROVE TypeOK'
  OBVIOUS
<1>0. /\ {Stages[i] : i \in 1..5} = {"new", "sent", "rop_freed", "cxn_freed", "over"}
      /\ \A o \in Operations : Stolen(o) \subseteq {"stolen_descriptor"}
  BY StageNames DEF Stolen
<1> USE <1>0 DEF TypeOK
<1>1. ASSUME NEW o \in Operations, SetUp(o) PROVE TypeOK'
  <2>1. Lowest \in Fds
    BY <1>1, LowestFree DEF SetUp
  <2>2. QED  BY <1>1, <2>1 DEF SetUp, base, traffic
<1>2. CASE Dispatch
  BY <1>2 DEF Dispatch, objects, traffic
<1>3. CASE LoopReturns
  BY <1>3 DEF LoopReturns, objects, traffic
<1>4. ASSUME NEW o \in Operations, FreeOperation(o) PROVE TypeOK'
  BY <1>4 DEF FreeOperation, base, objects, traffic
<1>5. ASSUME NEW o \in Operations, FreeConnection(o) PROVE TypeOK'
  <2>1. owner' \in [Fds -> Operations \cup {None, Stranger}]
    BY <1>5 DEF FreeConnection, Closed
  <2>2. QED  BY <1>5, <2>1 DEF FreeConnection, base, traffic
<1>6. ASSUME NEW o \in Operations, FreeLibevent(o) PROVE TypeOK'
  <2>1. owner' \in [Fds -> Operations \cup {None, Stranger}]
    BY <1>6 DEF FreeLibevent, Freed, Closed
  <2>2. /\ bev' \in [Operations -> {None, "live", "freed"}]
        /\ pending' \in [Operations -> SUBSET {"read", "event"}]
    BY <1>6 DEF FreeLibevent, Freed
  <2>3. harm' \subseteq {"stolen_descriptor", "double_free"}
    BY <1>6 DEF FreeLibevent
  <2>4. QED  BY <1>6, <2>1, <2>2, <2>3 DEF FreeLibevent, Nulled, base
<1>7. ASSUME NEW o \in Operations, Arrive(o) PROVE TypeOK'
  <2>1. PICK n \in 0..AllParts : arrived[o] < n /\ arrived' = [arrived EXCEPT ![o] = n]
    BY <1>7, ArrivesWithin
  <2>2. \A p \in Operations : consumed'[p] <= arrived'[p]
    BY <1>7, <2>1, StageNames DEF Arrive
  <2>3. pending' \in [Operations -> SUBSET {"read", "event"}]
    BY <1>7 DEF Arrive
  <2>4. QED  BY <1>7, <2>1, <2>2, <2>3 DEF Arrive, base, objects
<1>8. ASSUME NEW o \in Operations, EndOfStream(o) \/ ResultCb(o) PROVE TypeOK'
  <2>1. pending' \in [Operations -> SUBSET {"read", "event"}]
    BY <1>8 DEF EndOfStream, ResultCb
  <2>2. reading' \in Operations \cup {None} /\ mishap' \in [Operations -> Mishaps]
    BY <1>8 DEF EndOfStream, ResultCb, Mishaps
  <2>3. QED  BY <1>8, <2>1, <2>2 DEF EndOfStream, ResultCb, base, objects
<1>9. ASSUME NEW o \in Operations, Read(o) PROVE TypeOK'
  <2>1. /\ consumed' \in [Operations -> 0..AllParts] /\ mishap' \in [Operations -> Mishaps]
        /\ \A q \in Operations : consumed'[q] <= arrived'[q]
    <3>1. consumed'[o] <= arrived[o] /\ \A q \in Operations \ {o} : consumed'[q] = consumed[q]
      BY <1>9, ReadTakes
    <3>2. QED  BY <1>9, <3>1, ReadTakes, ReadCases
  <2>2. /\ loop' \in {"running", "crashed"} /\ UNCHANGED <<stage, exiting, fd, arrived>>
        /\ reading' \in Operations \cup {None}
    BY <1>9, ReadCases DEF Finish
  <2>3. CASE Finish(o)
    <3>1. owner' \in [Fds -> Operations \cup {None, Stranger}]
      BY <2>3 DEF Finish, Freed, Closed
    <3>2. /\ bev' \in [Operations -> {None, "live", "freed"}]
          /\ pending' \in [Operations -> SUBSET {"read", "event"}]
          /\ pointer' \in [Operations -> BOOLEAN] /\ done' \in [Operations -> BOOLEAN]
          /\ harm' \subseteq {"stolen_descriptor", "double_free"}
      BY <2>3 DEF Finish, Freed, Nulled
    <3>3. QED  BY <2>1, <2>2, <3>1, <3>2
  <2>4. CASE UNCHANGED <<owner, bev, pointer, pending, done, harm>>
    BY <2>1, <2>2, <2>4
  <2>5. QED  BY <1>9, <2>3, <2>4, ReadCases
<1>10. ASSUME NEW o \in Operations, ConnectionCb(o) PROVE TypeOK'
  <2>1. owner' \in [Fds -> Operations \cup {None, Stranger}]
    BY <1>10 DEF ConnectionCb, Freed, Closed
  <2>2. QED  BY <1>10, <2>1 DEF ConnectionCb, Freed, Exit
<1>11. CASE StrangerOpens
  <2>1. Lowest \in Fds
    BY <1>11, LowestFree DEF StrangerOpens
  <2>2. QED  BY <1>11, <2>1 DEF StrangerOpens, base, traffic
<1>12. CASE UNCHANGED vars
  BY <1>12 DEF vars, base, objects, traffic
<1>13. QED
  BY <1>1, <1>2, <1>3, <1>4, <1>5, <1>6, <1>7, <1>8, <1>9, <1>10, <1>11, <1>12
  DEF Next, Program, TakeDown, Callback, Stopped

\* Whatever the servers, the callbacks and other threads do, counters and states
\* have their types: TypeOK of every run.
THEOREM TypeCorrect == Spec => []TypeOK
<1>1. QED  BY TypeInit, TypeStep, PTL DEF Spec

-----------------------------------------------------------------------------
(* Callbacks. *)

\* riak_read runs in the loop, for an operation that has its bufferevent; nothing is
\* taken down before the loop has returned.
Serving ==
    /\ reading # None => loop \in {"running", "crashed"} /\ bev[reading] = "live"
    /\ loop # "returned" => \A o \in Operations : stage[o] \in {"new", "sent"}

LEMMA ServingStep == TypeOK /\ Serving /\ [Next]_vars => Serving'
<1> SUFFICES ASSUME TypeOK, Serving, [Next]_vars PROVE Serving'
  OBVIOUS
<1> USE DEF TypeOK, Serving
<1>1. ASSUME NEW o \in Operations, SetUp(o) PROVE Serving'
  BY <1>1 DEF SetUp, base, traffic
<1>2. CASE Dispatch
  BY <1>2 DEF Dispatch, traffic
<1>3. CASE LoopReturns
  BY <1>3 DEF LoopReturns, traffic
<1>4. ASSUME NEW o \in Operations, TakeDown(o) PROVE Serving'
  <2>1. loop = "returned" /\ UNCHANGED <<loop, reading>>
    BY <1>4 DEF TakeDown, FreeOperation, FreeConnection, FreeLibevent, base, traffic
  <2>2. QED  BY <2>1
<1>5. ASSUME NEW o \in Operations, Arrive(o) \/ EndOfStream(o) PROVE Serving'
  BY <1>5 DEF Arrive, EndOfStream, base, objects
<1>6. ASSUME NEW o \in Operations, ResultCb(o) PROVE Serving'
  BY <1>6 DEF ResultCb, base, objects
<1>7. ASSUME NEW o \in Operations, Read(o) PROVE Serving'
  <2>1. /\ reading = o /\ loop = "running" /\ loop' \in {"running", "crashed"} /\ UNCHANGED stage
        /\ reading' = None \/ (reading' = o /\ UNCHANGED bev)
    BY <1>7, ReadCases DEF Finish
  <2>2. QED  BY <2>1, LibeventAssumption
<1>8. ASSUME NEW o \in Operations, ConnectionCb(o) PROVE Serving'
  BY <1>8 DEF ConnectionCb
<1>9. CASE StrangerOpens \/ UNCHANGED vars
  BY <1>9 DEF StrangerOpens, vars, base, objects, traffic
<1>10. QED
  BY <1>1, <1>2, <1>3, <1>4, <1>5, <1>6, <1>7, <1>8, <1>9 DEF Next, Program, Callback, Stopped

\* Before its request is sent an operation has no bufferevent, so nothing has
\* come for it and no callback of it is due.
Fresh ==
    \A o \in Operations : stage[o] = "new" =>
        bev[o] = None /\ arrived[o] = 0 /\ consumed[o] = 0 /\ pending[o] = {}

LEMMA FreshStep == TypeOK /\ Serving /\ Fresh /\ [Next]_vars => Fresh'
<1> SUFFICES ASSUME TypeOK, Serving, Fresh, [Next]_vars, NEW p \in Operations, stage'[p] = "new"
             PROVE  bev'[p] = None /\ arrived'[p] = 0 /\ consumed'[p] = 0 /\ pending'[p] = {}
  BY DEF Fresh
<1> USE DEF TypeOK, Fresh, None
<1> DEFINE Still == /\ stage[p] = "new" /\ bev'[p] = bev[p] /\ arrived'[p] = arrived[p]
                    /\ consumed'[p] = consumed[p] /\ pending'[p] = pending[p]
<1>1. ASSUME NEW o \in Operations, SetUp(o) PROVE Still
  BY <1>1 DEF SetUp, traffic
<1>2. ASSUME Dispatch \/ LoopReturns PROVE Still
  BY <1>2 DEF Dispatch, LoopReturns, objects, traffic
<1>3. ASSUME NEW o \in Operations, FreeOperation(o) PROVE Still
  BY <1>3 DEF FreeOperation, objects, traffic
<1>4. ASSUME NEW o \in Operations, FreeConnection(o) PROVE Still
  BY <1>4 DEF FreeConnection, traffic
<1>5. ASSUME NEW o \in Operations, FreeLibevent(o) PROVE Still
  BY <1>5 DEF FreeLibevent, Freed
<1>6. ASSUME NEW o \in Operations, Arrive(o) PROVE Still
  BY <1>6 DEF Arrive, Listening, objects
<1>7. ASSUME NEW o \in Operations, EndOfStream(o) PROVE Still
  BY <1>7 DEF EndOfStream, Listening, objects
<1>8. ASSUME NEW o \in Operations, ResultCb(o) PROVE Still
  BY <1>8 DEF ResultCb, objects
<1>9. ASSUME NEW o \in Operations, Read(o) PROVE Still
  <2>1. reading = o /\ UNCHANGED <<stage, arrived>>
    BY <1>9, ReadCases
  <2>2. p # o
    BY <2>1, LibeventAssumption DEF Serving
  <2>3. consumed'[p] = consumed[p]
    BY <1>9, <2>2, ReadTakes
  <2>4. bev'[p] = bev[p] /\ pending'[p] = pending[p]
    BY <1>9, <2>2, ReadCases DEF Finish, Freed
  <2>5. QED  BY <2>1, <2>3, <2>4
<1>10. ASSUME NEW o \in Operations, ConnectionCb(o) PROVE Still
  BY <1>10 DEF ConnectionCb, Freed
<1>11. ASSUME StrangerOpens PROVE Still
  BY <1>11 DEF StrangerOpens, traffic
<1>12. ASSUME UNCHANGED vars PROVE Still
  BY <1>12 DEF vars, objects, traffic
<1>13. Still
  BY <1>1, <1>2, <1>3, <1>4, <1>5, <1>6, <1>7, <1>8, <1>9, <1>10, <1>11, <1>12
  DEF Next, Program, TakeDown, Callback, Stopped
<1>14. QED  BY <1>13

LEMMA WakeupStep == TypeOK /\ Serving /\ Fresh /\ NoLostWakeup /\ [Next]_vars => NoLostWakeup'
<1> SUFFICES ASSUME TypeOK, Serving, Fresh, NoLostWakeup, [Next]_vars, NEW p \in Operations,
                    bev'[p] = "live", reading' # p, mishap'[p] = "none", consumed'[p] < arrived'[p]
             PROVE  "read" \in pending'[p]
  BY DEF NoLostWakeup
<1> USE DEF TypeOK, NoLostWakeup
<1>1. ASSUME NEW o \in Operations, SetUp(o) PROVE "read" \in pending'[p]
  <2>1. arrived[o] = 0 /\ consumed[o] = 0
    BY <1>1 DEF SetUp, Fresh
  <2>2. p # o
    BY <1>1, <2>1 DEF SetUp, traffic
  <2>3. QED  BY <1>1, <2>2 DEF SetUp, traffic
<1>2. ASSUME Dispatch \/ LoopReturns \/ StrangerOpens \/ UNCHANGED vars PROVE "read" \in pending'[p]
  BY <1>2 DEF Dispatch, LoopReturns, StrangerOpens, vars, objects, traffic
<1>3. ASSUME NEW o \in Operations, FreeOperation(o) PROVE "read" \in pending'[p]
  BY <1>3 DEF FreeOperation, objects, traffic
<1>4. ASSUME NEW o \in Operations, FreeConnection(o) PROVE "read" \in pending'[p]
  BY <1>4 DEF FreeConnection, traffic
<1>5. ASSUME NEW o \in Operations, FreeLibevent(o) PROVE "read" \in pending'[p]
  BY <1>5 DEF FreeLibevent, Freed
<1>6. ASSUME NEW o \in Operations, Arrive(o) PROVE "read" \in pending'[p]
  <2>1. CASE p = o
    BY <1>6, <2>1 DEF Arrive
  <2>2. CASE p # o
    <3>1. arrived'[p] = arrived[p]
      BY <1>6, <2>2, ArrivesWithin
    <3>2. QED  BY <1>6, <2>2, <3>1 DEF Arrive, objects
  <2>3. QED  BY <2>1, <2>2
<1>7. ASSUME NEW o \in Operations, EndOfStream(o) PROVE "read" \in pending'[p]
  BY <1>7 DEF EndOfStream, objects
<1>8. ASSUME NEW o \in Operations, ResultCb(o) PROVE "read" \in pending'[p]
  <2>1. p # o /\ reading = None /\ bev[p] = "live"
    BY <1>8 DEF ResultCb, objects
  <2>2. mishap[p] = "none" /\ consumed[p] < arrived[p] /\ pending'[p] = pending[p] /\ reading # p
    BY <1>8, <2>1, LibeventAssumption DEF ResultCb
  <2>3. QED  BY <2>1, <2>2
<1>9. ASSUME NEW o \in Operations, Read(o) PROVE "read" \in pending'[p]
  <2>1. CASE p = o
    <3>1. ~Finish(o)
      BY <2>1 DEF Finish, Freed
    <3>2. consumed'[o] = arrived[o] /\ arrived' = arrived
      BY <1>9, <2>1, <3>1, ReadTakes, ReadCases
    <3>3. QED  BY <2>1, <3>2
  <2>2. CASE p # o
    <3>1. consumed'[p] = consumed[p] /\ mishap'[p] = mishap[p] /\ arrived' = arrived /\ reading = o
      BY <1>9, <2>2, ReadTakes, ReadCases
    <3>2. bev'[p] = bev[p] /\ pending'[p] = pending[p]
      BY <1>9, <2>2, ReadCases DEF Finish, Freed
    <3>3. QED  BY <2>2, <3>1, <3>2
  <2>3. QED  BY <2>1, <2>2
<1>10. ASSUME NEW o \in Operations, ConnectionCb(o) PROVE "read" \in pending'[p]
  BY <1>10 DEF ConnectionCb, Freed
<1>11. QED
  BY <1>1, <1>2, <1>3, <1>4, <1>5, <1>6, <1>7, <1>8, <1>9, <1>10
  DEF Next, Program, TakeDown, Callback, Stopped

\* riak_read returns to an empty buffer or has given up, and what comes for an
\* operation has a callback due: NoLostWakeup of run riak_libevent.
THEOREM Wakeups == Spec => []NoLostWakeup
<1>1. Init => TypeOK /\ Serving /\ Fresh /\ NoLostWakeup
  <2> SUFFICES ASSUME Init PROVE TypeOK /\ Serving /\ Fresh /\ NoLostWakeup
    OBVIOUS
  <2>1. QED  BY TypeInit, StageNames DEF Init, Serving, Fresh, NoLostWakeup, None
<1>2. TypeOK /\ Serving /\ Fresh /\ NoLostWakeup /\ [Next]_vars
      => (TypeOK /\ Serving /\ Fresh /\ NoLostWakeup)'
  BY TypeStep, ServingStep, FreshStep, WakeupStep
<1>3. QED  BY <1>1, <1>2, PTL DEF Spec

-----------------------------------------------------------------------------
(* Whose the descriptors are. *)

\* Nothing is taken down before the loop, and nothing is set up after it began.
Phases ==
    /\ loop = "before" => \A o \in Operations : stage[o] \in {"new", "sent"}
    /\ loop # "before" => \A o \in Operations : stage[o] # "new"

\* Each connection has a number of its own: two connections that are set up keep
\* different numbers, for no number is free again before they are all set up.
Apart ==
    /\ \A o \in Operations : stage[o] # "new" => fd[o] \in Fds
    /\ \A o, p \in Operations :
           (o # p /\ stage[o] # "new" /\ stage[p] # "new") => fd[o] # fd[p]
    /\ loop = "before" => \A o \in Operations : stage[o] = "sent" => owner[fd[o]] = o

\* Only a server that may close the connection ends the stream.
Kept == \A o \in Operations \ CanClose : "event" \notin pending[o]

PInv == TypeOK /\ Serving /\ Fresh /\ Phases /\ Apart /\ Kept /\ PointerValid

LEMMA PhasesStep == TypeOK /\ Phases /\ [Next]_vars => Phases'
<1> SUFFICES ASSUME TypeOK, Phases, [Next]_vars PROVE Phases'
  OBVIOUS
<1> USE DEF TypeOK, Phases
<1>1. ASSUME NEW o \in Operations, SetUp(o) PROVE Phases'
  BY <1>1 DEF SetUp, base
<1>2. CASE Dispatch
  BY <1>2 DEF Dispatch
<1>3. CASE LoopReturns
  BY <1>3 DEF LoopReturns
<1>4. ASSUME NEW o \in Operations, FreeOperation(o) PROVE Phases'
  BY <1>4 DEF FreeOperation, base
<1>5. ASSUME NEW o \in Operations, FreeConnection(o) PROVE Phases'
  BY <1>5 DEF FreeConnection, base
<1>6. ASSUME NEW o \in Operations, FreeLibevent(o) PROVE Phases'
  BY <1>6 DEF FreeLibevent, base
<1>7. ASSUME NEW o \in Operations, Arrive(o) \/ EndOfStream(o) \/ Callback(o) PROVE Phases'
  <2>1. CASE Read(o)
    BY <2>1, ReadCases
  <2>2. CASE ~Read(o)
    BY <1>7, <2>2 DEF Arrive, EndOfStream, Callback, ResultCb, ConnectionCb, base
  <2>3. QED  BY <2>1, <2>2
<1>8. CASE StrangerOpens \/ UNCHANGED vars
  BY <1>8 DEF StrangerOpens, vars, base
<1>9. QED
  BY <1>1, <1>2, <1>3, <1>4, <1>5, <1>6, <1>7, <1>8 DEF Next, Program, TakeDown, Stopped

LEMMA KeptStep == TypeOK /\ Kept /\ [Next]_vars => Kept'
<1> SUFFICES ASSUME TypeOK, Kept, [Next]_vars, NEW p \in Operations \ CanClose
             PROVE  "event" \notin pending'[p]
  BY DEF Kept
<1> USE DEF TypeOK, Kept
<1>1. ASSUME NEW o \in Operations, SetUp(o) \/ FreeOperation(o) \/ FreeConnection(o)
      PROVE  "event" \notin pending'[p]
  BY <1>1 DEF SetUp, FreeOperation, FreeConnection, traffic
<1>2. ASSUME NEW o \in Operations, FreeLibevent(o) PROVE "event" \notin pending'[p]
  BY <1>2 DEF FreeLibevent, Freed
<1>3. ASSUME NEW o \in Operations, Arrive(o) PROVE "event" \notin pending'[p]
  BY <1>3 DEF Arrive
<1>4. ASSUME NEW o \in Operations, EndOfStream(o) PROVE "event" \notin pending'[p]
  BY <1>4 DEF EndOfStream
<1>5. ASSUME NEW o \in Operations, ResultCb(o) \/ Read(o) PROVE "event" \notin pending'[p]
  BY <1>5, ReadCases DEF ResultCb, Finish, Freed
<1>6. ASSUME NEW o \in Operations, ConnectionCb(o) PROVE "event" \notin pending'[p]
  BY <1>6 DEF ConnectionCb, Freed
<1>7. ASSUME Dispatch \/ LoopReturns \/ StrangerOpens \/ UNCHANGED vars
      PROVE  "event" \notin pending'[p]
  BY <1>7 DEF Dispatch, LoopReturns, StrangerOpens, vars, traffic
<1>8. QED
  BY <1>1, <1>2, <1>3, <1>4, <1>5, <1>6, <1>7 DEF Next, Program, TakeDown, Callback, Stopped

\* A socket that is opened takes no number of an operation that has it still.
LEMMA OpenedKeeps ==
    ASSUME TypeOK, Free # {}, NEW x, owner' = [owner EXCEPT ![Lowest] = x],
           NEW p \in Operations, fd[p] \in Fds, owner[fd[p]] = p
    PROVE  fd[p] # Lowest /\ owner'[fd[p]] = p
<1>1. owner[Lowest] = None /\ Lowest \in Fds /\ p # None
  BY LowestFree, LibeventAssumption
<1>2. QED  BY <1>1 DEF TypeOK

\* A socket that is closed for one operation takes no other's away, once all
\* have been set up.
LEMMA ClosedKeeps ==
    ASSUME TypeOK, Phases, Apart, NEW o \in Operations, loop # "before", Closed(o),
           NEW p \in Operations, p # o
    PROVE  owner'[fd[p]] = owner[fd[p]]
BY DEF TypeOK, Phases, Apart, Closed

LEMMA ApartStep == TypeOK /\ Phases /\ Apart /\ [Next]_vars => Apart'
<1> SUFFICES ASSUME TypeOK, Phases, Apart, [Next]_vars PROVE Apart'
  OBVIOUS
<1>1. ASSUME NEW o \in Operations, SetUp(o) PROVE Apart'
  <2>1. /\ loop = "before" /\ stage[o] = "new" /\ Free # {}
        /\ stage' = [stage EXCEPT ![o] = "sent"] /\ fd' = [fd EXCEPT ![o] = Lowest]
        /\ owner' = [owner EXCEPT ![Lowest] = o] /\ UNCHANGED loop
    BY <1>1 DEF SetUp, base
  <2>2. Lowest \in Fds
    BY <2>1, LowestFree
  <2>3. ASSUME NEW p \in Operations, p # o, stage[p] # "new"
        PROVE  fd[p] \in Fds /\ fd[p] # Lowest /\ owner'[fd[p]] = p
    <3>1. stage[p] = "sent" /\ fd[p] \in Fds /\ owner[fd[p]] = p
      BY <2>1, <2>3 DEF Phases, Apart
    <3>2. QED  BY <2>1, <3>1, OpenedKeeps
  <2>4. /\ fd'[o] = Lowest /\ owner'[Lowest] = o
        /\ \A p \in Operations \ {o} : fd'[p] = fd[p] /\ stage'[p] = stage[p]
    BY <2>1, <2>2 DEF TypeOK
  <2>5. QED  BY <2>1, <2>2, <2>3, <2>4 DEF Apart
<1>2. ASSUME UNCHANGED fd, loop' # "before", \A p \in Operations : stage[p] # "new"
      PROVE  Apart'
  BY <1>2 DEF Apart
<1>3. CASE Dispatch
  BY <1>2, <1>3 DEF Dispatch, objects
<1>4. ASSUME NEW o \in Operations, TakeDown(o) PROVE Apart'
  <2>1. UNCHANGED <<fd, loop>> /\ loop # "before"
    BY <1>4 DEF TakeDown, FreeOperation, FreeConnection, FreeLibevent, Phases, base, objects
  <2>2. QED  BY <1>2, <2>1 DEF Phases
<1>5. CASE LoopReturns
  <2>1. UNCHANGED fd /\ loop # "before" /\ loop' # "before"
    BY <1>5 DEF LoopReturns, objects
  <2>2. QED  BY <1>2, <2>1 DEF Phases
<1>6. ASSUME NEW o \in Operations, Arrive(o) \/ EndOfStream(o) \/ Callback(o) PROVE Apart'
  <2>1. UNCHANGED fd /\ loop # "before" /\ loop' # "before"
    <3>1. CASE Read(o)
      BY <3>1, ReadCases
    <3>2. CASE ~Read(o)
      BY <1>6, <3>2
      DEF Arrive, EndOfStream, Listening, Callback, ResultCb, ConnectionCb, base, objects
    <3>3. QED  BY <3>1, <3>2
  <2>2. QED  BY <1>2, <2>1 DEF Phases
<1>7. CASE StrangerOpens
  <2>1. /\ Free # {} /\ owner' = [owner EXCEPT ![Lowest] = Stranger]
        /\ UNCHANGED <<stage, loop, fd>>
    BY <1>7 DEF StrangerOpens, base
  <2>2. ASSUME NEW p \in Operations, loop = "before", stage[p] = "sent"
        PROVE  owner'[fd[p]] = p
    BY <2>1, <2>2, OpenedKeeps DEF Apart
  <2>3. QED  BY <2>1, <2>2 DEF Apart
<1>8. CASE UNCHANGED vars
  BY <1>8 DEF Apart, vars, base, objects
<1>9. QED
  BY <1>1, <1>3, <1>4, <1>5, <1>6, <1>7, <1>8 DEF Next, Program, Stopped

LEMMA PointerStep == PInv /\ [Next]_vars => PointerValid'
<1> DEFINE Good(p) == bev[p] = "live" /\ (stage[p] \in {"sent", "rop_freed"} => owner[fd[p]] = p)
<1> SUFFICES ASSUME PInv, [Next]_vars, NEW p \in Operations \ CanClose, pointer'[p]
             PROVE  Good(p)'
  BY DEF PointerValid
<1>0. /\ pointer[p] => Good(p) /\ stage[p] # "new" /\ fd[p] \in Fds
      /\ TypeOK /\ Phases /\ Apart
  BY DEF PInv, PointerValid, Fresh, Apart, None
<1>1. ASSUME NEW o \in Operations, SetUp(o) PROVE Good(p)'
  <2>1. /\ Free # {} /\ fd' = [fd EXCEPT ![o] = Lowest] /\ owner' = [owner EXCEPT ![Lowest] = o]
        /\ stage' = [stage EXCEPT ![o] = "sent"] /\ stage[o] = "new" /\ loop = "before"
        /\ bev' = [bev EXCEPT ![o] = "live"] /\ pointer' = [pointer EXCEPT ![o] = TRUE]
    BY <1>1 DEF SetUp
  <2>2. CASE p = o
    BY <1>0, <2>1, <2>2, LowestFree DEF TypeOK
  <2>3. CASE p # o
    <3>1. /\ pointer[p] /\ fd'[p] = fd[p] /\ bev'[p] = bev[p]
      BY <1>0, <2>1, <2>3 DEF TypeOK
    <3>2. owner[fd[p]] = p
      BY <1>0, <2>1, <3>1 DEF Phases
    <3>3. owner'[fd[p]] = p
      BY <1>0, <2>1, <3>1, <3>2, OpenedKeeps
    <3>4. QED  BY <1>0, <3>1, <3>3
  <2>4. QED  BY <2>2, <2>3
<1>2. ASSUME UNCHANGED <<stage, objects>> PROVE Good(p)'
  BY <1>0, <1>2 DEF objects
<1>3. CASE Dispatch \/ LoopReturns \/ UNCHANGED vars
  BY <1>2, <1>3 DEF Dispatch, LoopReturns, vars
<1>4. ASSUME NEW o \in Operations, FreeOperation(o) PROVE Good(p)'
  BY <1>0, <1>4 DEF FreeOperation, objects, TypeOK
<1>5. ASSUME NEW o \in Operations, FreeConnection(o) PROVE Good(p)'
  <2>1. /\ stage[o] = "rop_freed" /\ stage' = [stage EXCEPT ![o] = "cxn_freed"]
        /\ Closed(o) /\ UNCHANGED <<fd, bev, pointer>>
    BY <1>5 DEF FreeConnection
  <2>2. loop # "before"
    BY <1>0, <2>1 DEF Phases
  <2>3. CASE p = o
    BY <1>0, <2>1, <2>3 DEF TypeOK
  <2>4. CASE p # o
    BY <1>0, <2>1, <2>2, <2>4, ClosedKeeps DEF TypeOK
  <2>5. QED  BY <2>3, <2>4
<1>6. ASSUME NEW o \in Operations, loop # "before", Freed(o), UNCHANGED fd,
             stage'[p] = stage[p] \/ p = o, p # o => pointer'[p] = pointer[p], p # o
      PROVE  Good(p)'
  BY <1>0, <1>6, ClosedKeeps DEF Freed, TypeOK
<1>7. ASSUME NEW o \in Operations, FreeLibevent(o) PROVE Good(p)'
  <2>1. /\ stage[o] = "cxn_freed" /\ stage' = [stage EXCEPT ![o] = "over"]
        /\ Nulled(o) /\ UNCHANGED fd
        /\ Freed(o) \/ UNCHANGED <<owner, bev>>
    BY <1>7 DEF FreeLibevent
  <2>2. p # o /\ pointer'[p] = pointer[p] /\ stage'[p] = stage[p]
    BY <1>0, <2>1 DEF Nulled, TypeOK
  <2>3. loop # "before"
    BY <1>0, <2>1 DEF Phases
  <2>4. CASE Freed(o)
    BY <1>6, <2>1, <2>2, <2>3, <2>4
  <2>5. CASE UNCHANGED <<owner, bev>>
    BY <1>0, <2>1, <2>2, <2>5
  <2>6. QED  BY <2>1, <2>4, <2>5
<1>8. ASSUME NEW o \in Operations, Read(o) PROVE Good(p)'
  <2>1. loop # "before" /\ UNCHANGED <<stage, fd>>
    BY <1>8, ReadCases
  <2>2. CASE Finish(o)
    <3>1. p # o /\ pointer'[p] = pointer[p]
      BY <1>0, <2>2 DEF Finish, Nulled, TypeOK
    <3>2. QED  BY <1>6, <2>1, <2>2, <3>1 DEF Finish
  <2>3. CASE UNCHANGED <<owner, bev, pointer>>
    BY <1>2, <2>1, <2>3 DEF objects
  <2>4. QED  BY <1>8, <2>2, <2>3, ReadCases
<1>9. ASSUME NEW o \in Operations, ConnectionCb(o) PROVE Good(p)'
  <2>1. /\ loop # "before" /\ pending[o] = {"event"} /\ Freed(o) /\ UNCHANGED <<stage, fd, pointer>>
    BY <1>9 DEF ConnectionCb
  <2>2. p # o
    BY <2>1 DEF PInv, Kept
  <2>3. QED  BY <1>6, <2>1, <2>2
<1>10. ASSUME NEW o \in Operations, Arrive(o) \/ EndOfStream(o) \/ ResultCb(o) PROVE Good(p)'
  BY <1>2, <1>10 DEF Arrive, EndOfStream, ResultCb
<1>11. CASE StrangerOpens
  <2>1. /\ Free # {} /\ owner' = [owner EXCEPT ![Lowest] = Stranger]
        /\ UNCHANGED <<stage, fd, bev, pointer>>
    BY <1>11 DEF StrangerOpens
  <2>2. QED  BY <1>0, <2>1, OpenedKeeps
<1>12. QED
  BY <1>1, <1>3, <1>4, <1>5, <1>7, <1>8, <1>9, <1>10, <1>11
  DEF Next, Program, TakeDown, Callback, Stopped

\* Until an operation whose connection is not lost is taken down, rev->bevent is
\* live or NULL and the socket under it is its own, whatever is closed for the
\* others: PointerValid of run riak_libevent.
THEOREM PointersValid == Spec => []PointerValid
<1>1. Init => PInv
  <2> SUFFICES ASSUME Init PROVE PInv
    OBVIOUS
  <2>1. Serving /\ Fresh /\ Phases /\ Apart /\ Kept /\ PointerValid
    BY DEF Init, Serving, Fresh, Phases, Apart, Kept, PointerValid, None
  <2>2. QED  BY <2>1, TypeInit DEF PInv
<1>2. PInv /\ [Next]_vars => PInv'
  BY TypeStep, ServingStep, FreshStep, PhasesStep, KeptStep, ApartStep, PointerStep DEF PInv
<1>3. PInv => PointerValid
  BY DEF PInv
<1>4. QED  BY <1>1, <1>2, <1>3, PTL DEF Spec
=============================================================================
