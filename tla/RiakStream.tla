----------------------------- MODULE RiakStream -----------------------------
(***************************************************************************)
(* The decoders whose answer comes in several messages: list keys and list *)
(* buckets (one code, two names), map-reduce and secondary indexes         *)
(* (src/src/messages).  riak_read hands them one message after another and *)
(* they grow rop->response, until the message that says it is the last;    *)
(* the user then gets the response, and frees it.  A synchronous call may  *)
(* hand it over and have it freed at any time, when the connection is gone.*)
(*                                                                         *)
(* The list decoders copy the keys of each message at once.  The other two *)
(* keep the unpacked messages and build the user's arrays, which point     *)
(* into them, when the last has come.                                      *)
(*                                                                         *)
(* A key is where it came from, <<message, place>>.  Any allocation may    *)
(* fail; what a failure does depends on how far the decoder has come.      *)
(***************************************************************************)
EXTENDS Naturals, Sequences, SequencesExt

CONSTANTS
    Messages,     \* what a message may hold: [keys, terms : Nat, done : BOOLEAN]
    MaxMessages   \* bound on the messages of an answer

ASSUME MessagesAssumption ==
    /\ Messages \subseteq [keys : Nat, terms : Nat, done : BOOLEAN]
    /\ MaxMessages \in Nat

VARIABLES
    decoder,      \* which of them
    sent,         \* the messages received
    response,     \* rop->response
    live,         \* messages unpacked and not yet freed
    short,        \* an allocation has failed
    status        \* of the operation

vars == <<decoder, sent, response, live, short, status>>

Decoders == {"list", "mapreduce", "index"}
Statuses == {"reading", "answered", "failed", "freed", "undefined", "crashed"}

NullKey   == <<0, 0>>
NullArray == << <<0, 1>> >>                   \* no array of keys looks like this
Empty     == [keys |-> NullArray, n_keys |-> 0, n_results |-> 0, _internal |-> <<>>]
NoResponse == [Empty EXCEPT !.n_keys = 1]     \* a NULL pointer

-----------------------------------------------------------------------------
(* Messages and what the decoders make of them. *)

\* The server returns keys or, when asked, terms with them, and only its last
\* message may be empty.
Protocol(m) ==
    /\ m.done \/ m.keys + m.terms > 0
    /\ m.terms > 0 => decoder = "index" /\ m.keys = 0
    /\ \A i \in DOMAIN sent : m.keys = 0 \/ sent[i].terms = 0
    /\ \A i \in DOMAIN sent : m.terms = 0 \/ sent[i].keys = 0

PartOf_OneMore(msgs, k) == [j \in 1..(msgs[k].keys + 1) |-> <<k, j>>]

PartOf(msgs, k) == [j \in 1..msgs[k].keys |-> <<k, j>>]
KeysOf(msgs)    == FlattenSeq([k \in DOMAIN msgs |-> PartOf(msgs, k)])

\* How many things there are in the first messages, and in all of them.
Sums(counts) ==
    LET sum[c \in 0..Len(counts)] == IF c = 0 THEN 0 ELSE sum[c - 1] + counts[c] IN sum
Total(counts) == Sums(counts)[Len(counts)]

\* The response a message is added to: a new one for the first message.
Current == IF response = NoResponse THEN Empty ELSE response

\* A new response is stored in the operation at the end of the decoder only; one
\* that was there is changed on the way.
Kept(r) == IF response = NoResponse THEN NoResponse ELSE r

Grown_Prepended(r, part) ==
    [r EXCEPT !.keys = part \o (IF @ = NullArray THEN <<>> ELSE @), !.n_keys = @ + Len(part)]

\* A list with room for the keys of one more message, and these keys.
Grown(r, part) ==
    [r EXCEPT !.keys = (IF @ = NullArray THEN <<>> ELSE @) \o part, !.n_keys = @ + Len(part)]

Linked_Replaced(r, k) == [r EXCEPT !._internal = <<k>>]

\* The unpacked message is kept in the response.
Linked(r, k) == [r EXCEPT !._internal = Append(@, k)]

\* A walk over things in messages holding widths of them goes on to the next
\* message when the last one's are used up.
After(widths, at) ==
    IF at[1] \notin DOMAIN widths \/ at[2] >= widths[at[1]]
    THEN <<at[1] + 1, 1>> ELSE <<at[1], at[2] + 1>>

\* Where a walk over n things passes, as <<message, place>>.
Visited(widths, n) ==
    LET at[i \in 1..n] == IF i = 1 THEN <<1, 1>> ELSE After(widths, at[i - 1]) IN at

InBounds(walk, counts) ==
    \A i \in DOMAIN walk : walk[i][1] \in DOMAIN counts /\ walk[i][2] <= counts[walk[i][1]]

-----------------------------------------------------------------------------
Init ==
    /\ decoder \in Decoders
    /\ sent = <<>> /\ response = NoResponse /\ live = {}
    /\ short = FALSE /\ status = "reading"

Number == Len(sent) + 1     \* of the message being decoded

Receive(m) ==
    /\ status = "reading" /\ Len(sent) < MaxMessages /\ Protocol(m)
    /\ sent' = Append(sent, m)
    /\ UNCHANGED decoder

Unpack_Freed(m) == Receive(m) /\ live' = live

Unpack(m) == Receive(m) /\ live' = live \cup {Number}

\* The decoder's own verdict: it tells riak_read to go on or to call the user.
Succeed(m) == status' = (IF m.done THEN "answered" ELSE "reading") /\ UNCHANGED short
GiveUp     == status' = "failed"
RunShort   == short' = TRUE

\* The message cannot be unpacked.
NotUnpacked(m) == Receive(m) /\ GiveUp /\ RunShort /\ UNCHANGED <<response, live>>

Spared_Freed == [response EXCEPT !.keys = NullArray]

\* riak_array_realloc frees the old array only when it has a new one.
Spared == response

\* No memory for a new response or, in the list decoders, for the keys' array:
\* nothing is kept of the message, which is not freed either.
NoRoom(m) ==
    /\ Unpack(m)
    /\ decoder = "list" \/ response = NoResponse
    /\ response' = Spared /\ GiveUp /\ RunShort

\* No memory to keep the unpacked message.  Whether more follow has been
\* decided, so that riak_read goes on to the next message if the caller does;
\* a list that was there has the keys.
NoLink(m) ==
    /\ Unpack(m)
    /\ response' = IF decoder = "list" THEN Kept(Grown(response, PartOf(sent', Number)))
                   ELSE response
    /\ status' = IF m.done THEN "failed" ELSE "reading"
    /\ RunShort

\* list keys, list buckets: copy the keys, keep the message.
ListDecode(m) ==
    /\ decoder = "list" /\ Unpack(m)
    /\ response' = Linked(Grown(Current, PartOf(sent', Number)), Number)
    /\ Succeed(m)

\* riak_binary_new returns NULL and the decoder looks into it.
ListKeyLost(m) ==
    /\ decoder = "list" /\ Unpack(m) /\ m.keys > 0
    /\ status' = "undefined" /\ RunShort
    /\ UNCHANGED response

\* map-reduce, indexes: while more is to come, keep the message.
Collect(m) ==
    /\ decoder # "list" /\ Unpack(m) /\ ~m.done
    /\ response' = Linked(Current, Number)
    /\ Succeed(m)

\* map-reduce: one of the user's messages for each unpacked one.
Reduced == [Linked(Current, Number) EXCEPT
              !.keys = [i \in 1..(Len(Current._internal) + 1) |->
                          <<Append(Current._internal, Number)[i], 1>>]]

ReduceDecode(m) ==
    /\ decoder = "mapreduce" /\ Unpack(m) /\ m.done
    /\ \/ response' = Reduced /\ Succeed(m)
       \/ response' = Kept(Linked(response, Number)) /\ GiveUp /\ RunShort

\* indexes: the keys of all the messages, then the terms.
Chunks    == Append(Current._internal, Number)
KeyCounts(msgs)  == [c \in DOMAIN Chunks |-> msgs[Chunks[c]].keys]
TermCounts(msgs) == [c \in DOMAIN Chunks |-> msgs[Chunks[c]].terms]
KeyWalk(msgs)    == Visited(KeyCounts(msgs), Total(KeyCounts(msgs)))
CopiedFrom(walk) == [i \in DOMAIN walk |-> <<Chunks[walk[i][1]], walk[i][2]>>]

Assembled(keys, n_keys, n_results) ==
    [Linked(Current, Number) EXCEPT !.keys = keys, !.n_keys = n_keys, !.n_results = n_results]

\* The keys are copied one by one, before the terms.
IndexDecode(m) ==
    /\ decoder = "index" /\ Unpack(m) /\ m.done
    /\ InBounds(KeyWalk(sent'), KeyCounts(sent'))
    /\ LET n     == Total(KeyCounts(sent'))
           terms == Total(TermCounts(sent'))
           keys  == CopiedFrom(KeyWalk(sent'))
       IN \/ /\ terms = 0
             /\ response' = Assembled(keys, n, 0) /\ Succeed(m)
          \* a term that was copied is taken for a failure, and one that failed
          \* for a copy, while the walk over them counts keys
          \/ /\ terms > 0
             /\ response' = Kept(Assembled(keys, n, terms)) /\ GiveUp
             /\ short' \in {short, TRUE}
          \/ /\ terms > 0 /\ InBounds(Visited(KeyCounts(sent'), terms), TermCounts(sent'))
             /\ response' = Assembled(keys, n, terms)
             /\ status' = "answered" /\ RunShort

\* It runs out of memory at the keys' array, the terms' array or a key.
IndexShort(m) ==
    /\ decoder = "index" /\ Unpack(m) /\ m.done
    /\ LET n == Total(KeyCounts(sent'))
       IN \/ response' = Kept(Linked(response, Number))
          \/ response' = Kept(Assembled([i \in 1..n |-> NullKey], n, 0))
          \/ n > 0 /\ response' = Kept(Assembled(NullArray, n, Total(TermCounts(sent'))))
    /\ GiveUp /\ RunShort

\* A walk leaves the messages' arrays.
IndexStray(m) ==
    /\ decoder = "index" /\ Unpack(m) /\ m.done
    /\ \/ ~InBounds(KeyWalk(sent'), KeyCounts(sent')) /\ UNCHANGED short
       \/ /\ RunShort
          /\ LET terms == Total(TermCounts(sent'))
             IN terms > 0 /\ ~InBounds(Visited(KeyCounts(sent'), terms), TermCounts(sent'))
    /\ status' = "undefined"
    /\ UNCHANGED response

-----------------------------------------------------------------------------
\* What the free functions go through is there: counts agree with arrays, and
\* map-reduce has a user's message for each unpacked one.
Freeable ==
    /\ response.n_results = 0
    /\ response.keys = NullArray =>
         (response.n_keys = 0 /\ (decoder = "mapreduce" => response._internal = <<>>))

\* The user frees the response, when the operation is over or given up.
FreeResponse ==
    /\ status \in {"reading", "answered", "failed"} /\ response # NoResponse
    /\ IF Freeable
       THEN /\ status' = "freed" /\ response' = NoResponse
            /\ live' = live \ {response._internal[i] : i \in DOMAIN response._internal}
       ELSE status' = "crashed" /\ UNCHANGED <<response, live>>
    /\ UNCHANGED <<decoder, sent, short>>

Decode(m) == \/ NotUnpacked(m) \/ NoRoom(m) \/ NoLink(m)
             \/ ListDecode(m) \/ ListKeyLost(m)
             \/ Collect(m) \/ ReduceDecode(m)
             \/ IndexDecode(m) \/ IndexShort(m) \/ IndexStray(m)

Stopped == /\ \/ status \in {"freed", "undefined", "crashed"}
              \/ status = "failed" /\ response = NoResponse
              \/ Len(sent) = MaxMessages /\ response = NoResponse
           /\ UNCHANGED vars

Next == (\E m \in Messages : Decode(m)) \/ FreeResponse \/ Stopped
Spec == Init /\ [][Next]_vars

-----------------------------------------------------------------------------
(* Properties. *)

\* Every variable has its type: a key is one that a message of the answer holds.
TypeOK ==
    /\ decoder \in Decoders
    /\ sent \in Seq(Messages) /\ Len(sent) <= MaxMessages
    /\ live \subseteq DOMAIN sent
    /\ short \in BOOLEAN
    /\ status \in Statuses
    /\ response._internal \in Seq(DOMAIN sent)
    /\ response.n_keys \in Nat /\ response.n_results \in Nat
    /\ response.keys = NullArray \/
         \A i \in DOMAIN response.keys :
            \/ response.keys[i] = NullKey
            \/ /\ response.keys[i][1] \in DOMAIN sent
               /\ decoder # "mapreduce" =>
                    response.keys[i][2] \in 1..sent[response.keys[i][1]].keys

Before(a, b) == a[1] < b[1] \/ (a[1] = b[1] /\ a[2] < b[2])

\* No key comes twice or before its turn, and none of a message is missing that
\* has another key in the answer.
InOrder(keys) ==
    /\ \A i \in 1..(Len(keys) - 1) : Before(keys[i], keys[i + 1])
    /\ decoder # "mapreduce" =>
         \A i \in DOMAIN keys : \A j \in 1..sent[keys[i][1]].keys :
             \E l \in DOMAIN keys : keys[l] = <<keys[i][1], j>>

\* The user gets every key of every message, once, in the order the server sent
\* them, and the decoder never reads outside a message; when memory ran short on
\* the way an answer may lack messages, but what it has is whole and in order.
WholeAnswer ==
    /\ status = "undefined" => short
    /\ status = "answered" =>
         /\ InOrder(response.keys)
         /\ ~short => response.keys = IF decoder = "mapreduce" THEN [k \in DOMAIN sent |-> <<k, 1>>]
                                      ELSE KeysOf(sent)
         /\ ~short /\ decoder # "mapreduce" => response.n_keys = Len(response.keys)

\* Keys that are not copies point into messages that are still there, and that
\* go when the response goes.
KeysBacked ==
    (decoder # "list" /\ response # NoResponse /\ response.keys # NullArray) =>
        \A i \in DOMAIN response.keys :
            response.keys[i] # NullKey =>
                /\ response.keys[i][1] \in live
                /\ \E c \in DOMAIN response._internal : response._internal[c] = response.keys[i][1]

\* A response the user has freed leaves no message behind, if memory sufficed.
NothingLeft == (status = "freed" /\ ~short) => live = {}

\* A list can be freed at any time, whatever allocation failed; the other
\* responses when they are complete (indexes: and memory sufficed).
CompleteFreeable ==
    (decoder = "list" \/ (status = "answered" /\ (decoder = "mapreduce" \/ ~short)))
        => (response = NoResponse \/ Freeable)
=============================================================================
