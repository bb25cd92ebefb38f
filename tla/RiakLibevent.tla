---------------------------- MODULE RiakLibevent ----------------------------
(***************************************************************************)
(* The event adapter (src/src/adapters/riak_libevent.h): operations on     *)
(* connections of their own, served by one libevent base, as the           *)
(* asynchronous example and the tests set them up, run them and take them  *)
(* down.  The question is who owns what: the socket is the connection's    *)
(* and the bufferevent's, the bufferevent is the callbacks' and the        *)
(* riak_libevent's, and descriptor numbers are shared with the whole       *)
(* process.                                                                *)
(*                                                                         *)
(* libevent makes a read callback for new bytes and never for those that   *)
(* were left in the buffer, so it matters what one call of riak_read takes *)
(* and how it comes to return.  A frame is three parts here: the beginning *)
(* of its length prefix, the end of it, and the message.  riak_read is a   *)
(* step for each message, until it returns; what it leaves behind is its   *)
(* mishap.  libevent runs one callback of a base at a time.                *)
(***************************************************************************)
EXTENDS Integers, FiniteSets

CONSTANTS
    Operations,   \* the operations on the base
    NFrames,      \* frames in the answer to each
    Fds,          \* descriptor numbers the process may use
    CanClose,     \* operations whose server may close the connection
    Answering,    \* operations whose server is certain to answer
    Failing,      \* operations that may run out of memory
    Cuts,         \* Cuts[o]: parts of a frame deliveries to o may end with
    Strangers     \* sockets other threads of the process may open

None     == "none"
Stranger == "stranger"

ASSUME LibeventAssumption ==
    /\ NFrames \in Nat \ {0}
    /\ IsFiniteSet(Operations) /\ CanClose \subseteq Operations
    /\ None \notin Operations /\ Stranger \notin Operations
    /\ Answering \cup Failing \subseteq Operations
    /\ Cuts \in [Operations -> SUBSET {1, 2, 3}] /\ \A o \in Operations : 3 \in Cuts[o]
    /\ Fds \subseteq Nat \ {0} /\ IsFiniteSet(Fds)
    /\ Strangers \in Nat
    /\ Cardinality(Fds) >= Cardinality(Operations) + Strangers

VARIABLES
    stage,     \* stage[o]: how far the program is with operation o
    loop,      \* whether the program is in event_base_dispatch
    exiting,   \* event_base_loopexit has been called
    fd,        \* fd[o]: cxn->fd
    owner,     \* owner[d]: whose the descriptor is: an operation's, a stranger's
    bev,       \* bev[o]: the bufferevent
    pointer,   \* pointer[o]: rev->bevent is not NULL
    pending,   \* pending[o]: deferred callbacks that are due
    arrived,   \* arrived[o]: parts in the input buffer or taken from it
    consumed,  \* consumed[o]: parts riak_read has taken
    done,      \* done[o]: riak_read has set done_streaming
    reading,   \* the operation riak_read is running for
    mishap,    \* mishap[o]: what the last riak_read has left behind
    harm       \* what has gone wrong with memory and descriptors

base     == <<loop, exiting>>
objects  == <<fd, owner, bev, pointer>>
traffic  == <<pending, arrived, consumed, done, reading, mishap>>
vars     == <<stage, base, objects, traffic, harm>>

\* Nothing; frames, by a decoder that failed before the last message; a message
\* that has no buffer; bytes of a prefix, which misplace what follows.
Mishaps  == {"none", "failed", "null", "split"}
Stages   == <<"new", "sent", "rop_freed", "cxn_freed", "over">>

Init ==
    /\ stage = [o \in Operations |-> "new"]
    /\ loop = "before" /\ exiting = FALSE
    /\ fd = [o \in Operations |-> 0]
    /\ owner = [d \in Fds |-> None]
    /\ bev = [o \in Operations |-> None]
    /\ pointer = [o \in Operations |-> FALSE]
    /\ pending = [o \in Operations |-> {}]
    /\ arrived = [o \in Operations |-> 0]
    /\ consumed = [o \in Operations |-> 0]
    /\ done = [o \in Operations |-> FALSE]
    /\ reading = None /\ mishap = [o \in Operations |-> "none"]
    /\ harm = {}

-----------------------------------------------------------------------------
(* Descriptors: a new socket gets the lowest number that is free.          *)
Free   == {d \in Fds : owner[d] = None}
Lowest == CHOOSE d \in Free : \A e \in Free : d <= e

\* close(fd[o]), made for o.  It does no harm when nobody has the number.
Closed(o) == owner' = [owner EXCEPT ![fd[o]] = None]
Stolen(o) == IF owner[fd[o]] \notin {o, None} THEN {"stolen_descriptor"} ELSE {}

\* Another thread of the process opens a socket.
StrangerOpens ==
    /\ Cardinality({d \in Fds : owner[d] = Stranger}) < Strangers /\ Free # {}
    /\ loop # "crashed"
    /\ owner' = [owner EXCEPT ![Lowest] = Stranger]
    /\ UNCHANGED <<stage, base, fd, bev, pointer, traffic, harm>>

(* The program connects, makes the operation and its riak_libevent and     *)
(* sends the request, for every operation, and runs the loop.              *)
SetUp(o) ==
    /\ loop = "before" /\ stage[o] = "new" /\ Free # {}
    /\ stage' = [stage EXCEPT ![o] = "sent"]
    /\ fd' = [fd EXCEPT ![o] = Lowest]
    /\ owner' = [owner EXCEPT ![Lowest] = o]
    /\ bev' = [bev EXCEPT ![o] = "live"]
    /\ pointer' = [pointer EXCEPT ![o] = TRUE]
    /\ UNCHANGED <<base, traffic, harm>>

Dispatch ==
    /\ loop = "before" /\ \A o \in Operations : stage[o] = "sent"
    /\ loop' = "running"
    /\ UNCHANGED <<stage, exiting, objects, traffic, harm>>

-----------------------------------------------------------------------------
AllParts     == 3 * NFrames
FrameEnd(o)  == 3 * (consumed[o] \div 3 + 1)    \* where the frame it is in ends
HeaderEnd(o) == FrameEnd(o) - 1                 \* and its length prefix

Listening(o) ==
    loop = "running" /\ reading = None /\ bev[o] = "live" /\ "event" \notin pending[o]

(* Part of the answer reaches the input buffer: a read callback is due.    *)
Arrive(o) ==
    /\ Listening(o)
    /\ \E k \in 0..(NFrames - 1), part \in Cuts[o] :
         /\ arrived[o] < 3 * k + part
         /\ arrived' = [arrived EXCEPT ![o] = 3 * k + part]
    /\ pending' = [pending EXCEPT ![o] = @ \cup {"read"}]
    /\ UNCHANGED <<stage, base, objects, consumed, done, reading, mishap, harm>>

(* The end of the stream reaches it: an event callback is due.             *)
EndOfStream(o) ==
    /\ Listening(o) /\ o \in CanClose
    /\ pending' = [pending EXCEPT ![o] = @ \cup {"event"}]
    /\ UNCHANGED <<stage, base, objects, arrived, consumed, done, reading, mishap, harm>>

\* bufferevent_free drops the callbacks that are due and closes the socket.
Freed(o) ==
    /\ bev' = [bev EXCEPT ![o] = "freed"]
    /\ pending' = [pending EXCEPT ![o] = {}]
    /\ Closed(o)

Nulled_Forgotten(o) == pointer' = pointer
Nulled(o)           == pointer' = [pointer EXCEPT ![o] = FALSE]

-----------------------------------------------------------------------------
(* riak_libevent_result_cb: riak_read, and what follows it.                *)

\* The callback is no longer due once it is made.
ResultCb(o) ==
    /\ loop = "running" /\ reading = None /\ bev[o] = "live" /\ "read" \in pending[o]
    /\ reading' = o
    /\ pending' = [pending EXCEPT ![o] = @ \ {"read"}]
    /\ mishap' = [mishap EXCEPT ![o] = IF @ = "failed" THEN "none" ELSE @]
    /\ UNCHANGED <<stage, base, objects, arrived, consumed, done, harm>>

InLoop(o) == reading = o /\ loop = "running" /\ mishap[o] = "none"

\* riak_read returns with done_streaming FALSE, whatever its error.
Leave(o) == reading' = None /\ UNCHANGED <<owner, bev, pointer, pending, done, harm>>

\* It returns with done_streaming TRUE.
Finish(o) ==
    /\ reading' = None
    /\ done' = [done EXCEPT ![o] = TRUE]
    /\ Freed(o) /\ Nulled(o)
    /\ harm' = harm \cup Stolen(o)

\* It goes round its loop.
GoOn_Returns(o) == Leave(o)
GoOn(o)         == UNCHANGED <<reading, owner, bev, pointer, pending, done, harm>>

\* What is left alone by all of them.
Elsewhere == UNCHANGED <<stage, base, fd, arrived>>

\* A message is there.  The last, one that is rejected and a server's error end
\* the operation.
Message(o) ==
    /\ InLoop(o) /\ FrameEnd(o) <= arrived[o]
    /\ consumed' = [consumed EXCEPT ![o] = FrameEnd(o)]
    /\ \/ FrameEnd(o) < AllParts /\ GoOn(o)
       \/ Finish(o)
    /\ Elsewhere /\ UNCHANGED mishap

\* Its decoder fails after it has seen that more follows.
DecoderFails(o) ==
    /\ InLoop(o) /\ FrameEnd(o) <= arrived[o]
    /\ o \in Failing /\ FrameEnd(o) < AllParts
    /\ consumed' = [consumed EXCEPT ![o] = FrameEnd(o)]
    /\ mishap' = [mishap EXCEPT ![o] = "failed"]
    /\ Leave(o) /\ Elsewhere

\* No buffer can be had for a message whose length is there.
NoBuffer(o) ==
    /\ InLoop(o) /\ consumed[o] < HeaderEnd(o) /\ HeaderEnd(o) <= arrived[o]
    /\ o \in Failing
    /\ consumed' = [consumed EXCEPT ![o] = HeaderEnd(o)]
    /\ mishap' = [mishap EXCEPT ![o] = "null"]
    /\ Leave(o) /\ Elsewhere

Got_Asked(o) == FrameEnd(o)
Got(o)       == arrived[o]

\* The buffer ends in the middle of a frame, or with one.
ShortRead(o) ==
    /\ InLoop(o) /\ arrived[o] < FrameEnd(o)
    /\ consumed' = [consumed EXCEPT ![o] = Got(o)]
    /\ mishap' = [mishap EXCEPT ![o] = IF arrived[o] = HeaderEnd(o) - 1 THEN "split" ELSE @]
    /\ Leave(o) /\ Elsewhere

\* Behind a prefix that was split bytes are taken for what they are not.
Garbled(o) ==
    /\ reading = o /\ loop = "running" /\ mishap[o] = "split"
    /\ \E n \in consumed[o]..arrived[o] : consumed' = [consumed EXCEPT ![o] = n]
    /\ Leave(o) \/ Finish(o)
    /\ Elsewhere /\ UNCHANGED mishap

\* The message is written through NULL or past its buffer, or the decoder follows
\* a NULL of its own.
Crash(o) ==
    /\ reading = o /\ loop = "running"
    /\ \/ mishap[o] \in {"null", "split"}
       \/ o \in Failing /\ InLoop(o) /\ FrameEnd(o) <= arrived[o]
    /\ loop' = "crashed"
    /\ UNCHANGED <<stage, exiting, objects, traffic, harm>>

Read(o) ==
    Message(o) \/ DecoderFails(o) \/ NoBuffer(o) \/ ShortRead(o) \/ Garbled(o) \/ Crash(o)

-----------------------------------------------------------------------------
Exit_Forgotten == exiting' = exiting
Exit           == exiting' = TRUE

\* riak_libevent_connection_cb: it frees the bufferevent, and leaves
\* rev->bevent as it is.
ConnectionCb(o) ==
    /\ loop = "running" /\ reading = None /\ bev[o] = "live" /\ pending[o] = {"event"}
    /\ Freed(o)
    /\ harm' = harm \cup Stolen(o)
    /\ Exit
    /\ UNCHANGED <<stage, loop, fd, pointer, arrived, consumed, done, reading, mishap>>

\* event_base_dispatch returns when it has been told to exit, or when no
\* bufferevent is left on the base.
LoopReturns ==
    /\ loop = "running" /\ reading = None
    /\ exiting \/ \A o \in Operations : bev[o] # "live"
    /\ loop' = "returned"
    /\ UNCHANGED <<stage, exiting, objects, traffic, harm>>

-----------------------------------------------------------------------------
(* test_async_disconnect: operation, connection, riak_libevent.            *)
FreeOperation(o) ==
    /\ loop = "returned" /\ stage[o] = "sent"
    /\ stage' = [stage EXCEPT ![o] = "rop_freed"]
    /\ UNCHANGED <<base, objects, traffic, harm>>

\* riak_connection_free closes the socket, whoever else has.
FreeConnection(o) ==
    /\ stage[o] = "rop_freed"
    /\ Closed(o)
    /\ harm' = harm \cup Stolen(o)
    /\ stage' = [stage EXCEPT ![o] = "cxn_freed"]
    /\ UNCHANGED <<base, fd, bev, pointer, traffic>>

\* riak_libevent_free frees the bufferevent rev points to.
FreeLibevent(o) ==
    /\ stage[o] = "cxn_freed"
    /\ stage' = [stage EXCEPT ![o] = "over"]
    /\ IF pointer[o]
       THEN IF bev[o] = "live"
            THEN Freed(o) /\ harm' = harm \cup Stolen(o)
            ELSE harm' = harm \cup {"double_free"} /\ UNCHANGED <<owner, bev, pending>>
       ELSE UNCHANGED <<owner, bev, pending, harm>>
    /\ Nulled(o)
    /\ UNCHANGED <<base, fd, arrived, consumed, done, reading, mishap>>

TakeDown(o) == FreeOperation(o) \/ FreeConnection(o) \/ FreeLibevent(o)

-----------------------------------------------------------------------------
Callback(o) == ResultCb(o) \/ Read(o) \/ ConnectionCb(o)
Program     == Dispatch \/ LoopReturns \/ \E o \in Operations : SetUp(o) \/ TakeDown(o)

\* Everything is taken down, or the process has crashed, or the loop waits for
\* bytes that do not come, having left others in the buffer.
Stopped ==
    /\ \/ \A o \in Operations : stage[o] = "over"
       \/ loop = "crashed"
       \/ \E o \in Operations : /\ bev[o] = "live" /\ reading # o /\ pending[o] = {}
                               /\ arrived[o] = AllParts /\ mishap[o] # "none"
    /\ UNCHANGED vars

Next ==
    \/ Program
    \/ \E o \in Operations : Arrive(o) \/ EndOfStream(o) \/ Callback(o)
    \/ StrangerOpens
    \/ Stopped

\* The servers that are certain to answer do; libevent makes the callbacks that
\* are due and looks at its exit flag; the program goes on.
Spec ==
    /\ Init /\ [][Next]_vars
    /\ WF_vars(Program)
    /\ \A o \in Operations : WF_vars(Callback(o))
    /\ \A o \in Answering : WF_vars(Arrive(o))

-----------------------------------------------------------------------------
(* Properties. *)

\* Every variable has its type.
TypeOK ==
    /\ stage \in [Operations -> {Stages[i] : i \in 1..5}]
    /\ loop \in {"before", "running", "returned", "crashed"} /\ exiting \in BOOLEAN
    /\ fd \in [Operations -> Fds \cup {0}]
    /\ owner \in [Fds -> Operations \cup {None, Stranger}]
    /\ bev \in [Operations -> {None, "live", "freed"}]
    /\ pointer \in [Operations -> BOOLEAN]
    /\ pending \in [Operations -> SUBSET {"read", "event"}]
    /\ arrived \in [Operations -> 0..AllParts]
    /\ consumed \in [Operations -> 0..AllParts]
    /\ \A o \in Operations : consumed[o] <= arrived[o]
    /\ done \in [Operations -> BOOLEAN]
    /\ reading \in Operations \cup {None}
    /\ mishap \in [Operations -> Mishaps]
    /\ harm \subseteq {"stolen_descriptor", "double_free"}

\* Bytes that wait in a buffer while riak_read is not running have a callback due,
\* for none comes for them later, unless the last riak_read gave up on what it was
\* reading: for want of memory, or misled by a split prefix.
NoLostWakeup ==
    \A o \in Operations :
        (bev[o] = "live" /\ reading # o /\ mishap[o] = "none" /\ consumed[o] < arrived[o])
            => "read" \in pending[o]

\* For an operation whose connection is not lost, whatever becomes of the others,
\* rev->bevent is NULL or a bufferevent that has not been freed, and until the
\* connection is freed the socket under it is the operation's.
PointerValid ==
    \A o \in Operations \ CanClose : pointer[o] =>
        /\ bev[o] = "live"
        /\ stage[o] \in {"sent", "rop_freed"} => owner[fd[o]] = o

\* An operation whose server answers is answered in the end, however its answer is
\* cut and whatever its riak_read gave up on before, unless another's connection is
\* lost first, the process crashes, or its last riak_read gave up.
Answered ==
    \A o \in Answering : <>[](done[o] \/ exiting \/ loop = "crashed" \/ mishap[o] # "none")

\* When a connection is lost before the answer to its operation is complete,
\* the loop ends, though other operations wait for answers that may never come.
LoopEnds ==
    \A o \in Operations :
        ("event" \in pending[o]) ~> (loop \in {"returned", "crashed"} \/ done[o])
=============================================================================
