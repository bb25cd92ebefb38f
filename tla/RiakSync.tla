------------------------------ MODULE RiakSync ------------------------------
(***************************************************************************)
(* The synchronous calls of the client (riak_ping, riak_get, riak_put ...  *)
(* in src/src/riak.c): each makes a fresh riak_operation, writes a request *)
(* to the blocking socket of its connection and calls riak_read once       *)
(* (riak_sync_request).  What the connection carries over from one call to *)
(* the next is the server's stream, and nothing else.                      *)
(*                                                                         *)
(* The server answers the requests it has heard, in order.  Its answer to  *)
(* the k-th of them is the k-th of a series of answers, whose frames are   *)
(* those of RiakRead: LastOf[k] is the last frame of answer k.             *)
(***************************************************************************)
EXTENDS Integers, Sequences, FiniteSets

CONSTANTS
    NRequests,    \* calls the program makes
    Ops,          \* Ops[q]: "ping", or "other" for a call that returns its answer
    LastOf,       \* LastOf[k]: the last frame of the server's k-th answer
    Mishaps,      \* what may go wrong in a call, a subset of AllMishaps
    NFrames, Start, KindsAt, Cuts, UInt32Size, ForeignLen, Faults   \* as in RiakRead

VARIABLES
    client,       \* where the program is
    request,      \* calls made so far
    heard,        \* requests the server has received whole
    slot,         \* which of the server's answers is this request's, 0 if none
    torn,         \* the server is left with part of a request
    closed,       \* the server has closed the connection
    live,         \* riak_operations allocated and not freed
    results,      \* what the calls have returned, in order
    arrived, consumed, position, prefix, msglen, msglen_complete, msgbuf,
    response, error, done_streaming, pc, ret, dispatched, calls   \* as in RiakRead

\* The calls give riak_operation_new no callbacks.
R == INSTANCE RiakRead WITH Registered <- {}

conn     == <<heard, torn, closed>>
call     == <<request, slot, live, results>>
rop      == <<position, prefix, msglen, msglen_complete, msgbuf, response, error>>
reader   == <<arrived, consumed, rop, done_streaming, pc, ret, dispatched, calls>>
vars     == <<client, conn, call, reader>>

ASSUME ReadAssumption ==
    R!FramesAssumption /\ R!WidthAssumption /\ R!KindsAssumption /\ R!EnvironmentAssumption

\* The server closes, a write fails or is short, a request finds no memory.
AllMishaps == {"close", "write_error", "no_memory"}

Request  == 1..NRequests
FirstOf(k)  == IF k = 1 THEN 1 ELSE LastOf[k - 1] + 1
AnswerTo(k) == [i \in 1..(LastOf[k] - FirstOf(k) + 1) |-> FirstOf(k) + i - 1]
EndOf(k)    == IF k = 0 THEN 0 ELSE Start[LastOf[k] + 1]

ASSUME SyncAssumption ==
    /\ NRequests \in Nat \ {0}
    /\ Ops \in [Request -> {"ping", "other"}]
    /\ LastOf \in [Request -> 1..NFrames] /\ LastOf[NRequests] = NFrames
    \* an answer is frames with more to come and a last one that ends it
    /\ \A k \in Request :
         /\ FirstOf(k) <= LastOf[k] /\ "more" \notin KindsAt[LastOf[k]]
         /\ \A i \in FirstOf(k)..(LastOf[k] - 1) : KindsAt[i] = {"more"}
    /\ Mishaps \subseteq AllMishaps

-----------------------------------------------------------------------------
Init ==
    /\ R!Init
    /\ client = "ready" /\ request = 0 /\ slot = 0 /\ live = 0
    /\ heard = 0 /\ torn = FALSE /\ closed = FALSE
    /\ results = <<>>

(* The server: it sends what it owes, a piece at a time, and may go away.  *)
Answer ==
    /\ ~closed
    /\ \E b \in Cuts : b <= EndOf(heard) /\ R!Arrive(b)
    /\ UNCHANGED <<client, conn, call>>

Close ==
    /\ "close" \in Mishaps /\ ~closed
    /\ closed' = TRUE
    /\ UNCHANGED <<client, heard, torn, call, reader>>

-----------------------------------------------------------------------------
Fresh_Reused == UNCHANGED rop

\* riak_operation_new clears the operation it allocates.
Fresh ==
    /\ position' = 0 /\ prefix' = R!Zeroed /\ msglen' = 0
    /\ msglen_complete' = FALSE /\ msgbuf' = R!NoBuffer
    /\ response' = <<>> /\ error' = FALSE

(* A call begins: make the operation and encode the request in it.         *)
NewOperation ==
    /\ client = "ready" /\ request < NRequests
    /\ request' = request + 1
    /\ slot' = 0
    /\ live' = live + 1
    /\ Fresh
    /\ client' = "length"
    /\ UNCHANGED <<conn, results, arrived, consumed, done_streaming, pc, ret,
                   dispatched, calls>>

\* The call is over: it returns code and the response of its operation.
Returns(code, answer) ==
    /\ results' = Append(results, [code |-> code, answer |-> answer, slot |-> slot])
    /\ client' = "ready"

\* There is no memory for the operation, which riak_operation_new does not
\* notice (it tests its argument), or for the encoded request: the call
\* returns and its operation is left behind.
NoMemory ==
    /\ "no_memory" \in Mishaps
    /\ client = "ready" /\ request < NRequests
    /\ request' = request + 1
    /\ slot' = 0
    /\ \/ client' = "crashed" /\ UNCHANGED <<live, results>>
       \/ /\ live' = live + 1
          /\ results' = Append(results, [code |-> "MEMORY", answer |-> <<>>, slot |-> 0])
          /\ UNCHANGED client
    /\ UNCHANGED <<conn, reader>>

(* riak_write writes a request in three parts.                             *)
Parts == {"length", "msgid", "payload"}
After(part) == CASE part = "length" -> "msgid"
                 [] part = "msgid"  -> "payload"
                 [] OTHER           -> "written"

\* All of the part is sent.  A server that has closed will not hear it, and one
\* that is left with part of an earlier request takes it for the rest of that.
WritePart ==
    /\ client \in Parts
    /\ client' = After(client)
    /\ IF client' = "written" /\ ~torn /\ ~closed
       THEN heard' = heard + 1 /\ slot' = heard + 1
       ELSE UNCHANGED <<heard, slot>>
    /\ UNCHANGED <<torn, closed, request, live, results, reader>>

\* write(2) sends less than the part or returns -1: riak_write goes on.
WriteShort ==
    /\ "write_error" \in Mishaps /\ client \in Parts
    /\ client' = After(client)
    /\ torn' = TRUE
    /\ UNCHANGED <<heard, closed, call, reader>>

WriteFreed_Never == live' = live
WriteFreed_Twice == live' = live - 2
WriteFreed == live' = live - 1

\* It returns 0: the call gives up, whatever has been sent already.
WriteNothing ==
    /\ "write_error" \in Mishaps /\ client \in Parts
    /\ torn' = (torn \/ client # "length")
    /\ Returns("WRITE", <<>>)
    /\ WriteFreed
    /\ UNCHANGED <<heard, closed, request, slot, reader>>

Write == WritePart \/ WriteShort \/ WriteNothing

(* riak_read, reading from the socket.                                     *)
EnterRead ==
    /\ client = "written"
    /\ R!Enter
    /\ client' = "reading"
    /\ UNCHANGED <<conn, call>>

SocketCounts_NonBlocking(want) ==
    IF want # 0 /\ arrived = consumed /\ ~closed THEN {-1} ELSE R!ReadCounts(want)

SocketCounts_NoEof(want) == IF want # 0 /\ arrived = consumed THEN {} ELSE R!ReadCounts(want)

\* What read(2) may return: it waits while nothing is there, and returns 0 once
\* the server has closed and everything has been read.
SocketCounts(want) ==
    IF want # 0 /\ arrived = consumed /\ ~closed THEN {} ELSE R!ReadCounts(want)

ReadSocket ==
    /\ client = "reading"
    /\ \/ pc = "header" /\ \E n \in SocketCounts(R!WantHeader) : R!ReadHeader(n)
       \/ pc = "body" /\ \E n \in SocketCounts(R!WantBody) :
                             R!ReadBody(n) \/ R!WriteOutside(n)
       \/ R!Dispatch
    /\ UNCHANGED <<client, conn, call>>

\* riak_read has returned: the call hands on its response, whatever it is, and
\* frees the operation.  riak_ping looks into the response first.
Finish ==
    /\ client = "reading" /\ pc = "idle"
    /\ IF Ops[request] = "ping" /\ ret = "OK" /\ response = <<>>
       THEN client' = "crashed" /\ UNCHANGED results
       ELSE Returns(ret, response)
    /\ live' = live - 1
    /\ UNCHANGED <<conn, request, slot, reader>>

Program == NewOperation \/ NoMemory \/ Write \/ EnterRead \/ ReadSocket \/ Finish

-----------------------------------------------------------------------------
Available == /\ client = "reading"
             /\ \/ pc = "header" /\ SocketCounts(R!WantHeader) # {}
                \/ pc = "body" /\ SocketCounts(R!WantBody) # {}
                \/ pc \in {"dispatch", "idle"}
Done      == client = "ready" /\ request = NRequests
Broken    == client = "crashed" \/ R!Broken
Waiting   == client = "reading" /\ ~Available
Stopped   == (Done \/ Broken \/ Waiting) /\ UNCHANGED vars

Next == Answer \/ Close \/ Program \/ Stopped

\* The server sends what it owes; the program does not rest.
Spec == Init /\ [][Next]_vars /\ WF_vars(Answer) /\ WF_vars(Program)

-----------------------------------------------------------------------------
(* Properties. *)

Clients == Parts \cup {"ready", "written", "reading", "crashed"}
Results == [code : R!Codes \cup {"WRITE", "MEMORY"}, answer : Seq(0..NFrames),
            slot : 0..NRequests]

\* Every variable has its type.
TypeOK ==
    /\ R!TypeOK
    /\ client \in Clients
    /\ request \in 0..NRequests
    /\ heard \in 0..request
    /\ slot \in 0..heard
    /\ torn \in BOOLEAN /\ closed \in BOOLEAN
    /\ live \in 0..NRequests
    /\ results \in Seq(Results)

\* s begins with all the elements of t.
BeginsWith(s, t) == Len(t) <= Len(s) /\ \A i \in 1..Len(t) : s[i] = t[i]

\* No call is given anything of the answer to another: what a call returns with
\* ERIAK_OK is the answer to its own request, whole, or as far as it came
\* before the server closed the connection.
AnswersMatch ==
    \A i \in 1..Len(results) : results[i].code = "OK" =>
        IF results[i].slot = 0 THEN results[i].answer = <<>> /\ (closed \/ torn)
        ELSE LET whole == AnswerTo(results[i].slot)
             IN  \/ results[i].answer = whole
                 \/ closed /\ BeginsWith(whole, results[i].answer)

\* A call starts reading where the answers to the earlier ones end, so that the
\* first bytes it gets are its own answer's, as long as every frame is well
\* formed and the server is there.
InSync ==
    (~closed /\ ~torn) =>
        /\ client \in Parts \cup {"ready"} => consumed = arrived /\ consumed = EndOf(heard)
        /\ client = "written" => consumed = EndOf(heard - 1)

\* Every call frees the operation it made on each of its ways out, but for the
\* one whose request could not be encoded.
OperationsFreed ==
    client = "ready" =>
        live = Cardinality({i \in 1..Len(results) : results[i].code = "MEMORY"})

\* A call comes to an end once the server has answered or closed the connection,
\* unless the server was left with part of a request.
EveryCallReturns ==
    (client \notin {"ready", "crashed"}) ~> (client \in {"ready", "crashed"} \/ torn)

\* riak.h:81 calls riak_get's response the fetched data: with the connection
\* open and the request sent, a call that returns ERIAK_OK returns an answer.
OkMeansFetched ==
    \A i \in 1..Len(results) :
        (results[i].code = "OK" /\ results[i].slot > 0 /\ ~closed)
            => results[i].answer # <<>>
=============================================================================
