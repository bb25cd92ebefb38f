----------------------------- MODULE RiakAnswer -----------------------------
(***************************************************************************)
(* Answers of one message: how the decoders of get, put, search, bucket    *)
(* properties, server information, client id and of the bare acknowledge-  *)
(* ments build the user's response, what they leave when they run out of   *)
(* memory half way, and how the response is freed (src/src/messages, with  *)
(* the parts of riak_object.c and riak_bucketprops.c they use).            *)
(*                                                                         *)
(* A decoder is a series of allocations, each with what is done when it    *)
(* fails.  The series is computed from the message, in the order of the    *)
(* code; decoding takes it up to the first failure somebody looks at.      *)
(* What the user gets points into the unpacked message, but for the copies *)
(* of bucket, type and key.                                                *)
(*                                                                         *)
(* A block of memory is <<owner, i, name, j, part>>: a part of the j-th    *)
(* element of a list of the i-th thing of a kind; 0 and "none" for none.   *)
(***************************************************************************)
EXTENDS Naturals, Sequences, FiniteSets, SequencesExt

CONSTANTS
    Kinds,       \* the calls answered
    Objects,     \* what an object may hold
    Docs,        \* fields a found document may have
    Hooks,       \* what a commit hook may hold
    MaxObjects,  \* bound on the objects, documents and hooks of an answer
    MaxShort     \* bound on its allocations that fail

ASSUME AnswerAssumption ==
    /\ Objects \subseteq [binaries : SUBSET STRING, indexes : Nat, usermeta : Nat, links : Nat]
    /\ Docs \subseteq Nat
    /\ Hooks \subseteq [name : BOOLEAN, modfun : BOOLEAN]
    /\ MaxObjects \in Nat /\ MaxShort \in Nat

VARIABLES
    kind,      \* the call answered
    typed,     \* the operation has a bucket type
    message,   \* what the server sent
    short,     \* the allocations that fail
    live,      \* memory in use
    handed,    \* the user has a response
    status     \* "waiting", "ok", "error", "freed" or "crashed"

vars == <<kind, typed, message, short, live, handed, status>>

-----------------------------------------------------------------------------
(* Messages. *)

UpTo(n, S) == UNION {[1..k -> S] : k \in 0..n}

MessagesOf(k) ==
    CASE k = "get" -> [vclock : BOOLEAN, content : UpTo(MaxObjects, Objects)]
      [] k = "put" -> [vclock : BOOLEAN, key : BOOLEAN, content : UpTo(MaxObjects, Objects)]
      [] k = "search" -> [docs : UpTo(MaxObjects, Docs)]
      [] k = "get_bucketprops" ->
             [precommit : UpTo(1, Hooks), postcommit : UpTo(MaxObjects, Hooks), backend : BOOLEAN,
              search_index : BOOLEAN, chash_keyfun : BOOLEAN, linkfun : BOOLEAN]
      [] k = "serverinfo" -> [node : BOOLEAN, server_version : BOOLEAN]
      [] OTHER -> {<<>>}

-----------------------------------------------------------------------------
(* Allocations, each with what follows when it fails:                      *)
(*   abandon   return the error                                            *)
(*   response  free the response's own block                               *)
(*   object    free this object's own block and all that came before it    *)
(*   lists     free all that came before this object                       *)
(*   docs      free the array of documents and the response's own block    *)
(*   props     free the message and the response's block, return ERIAK_OK  *)
(*   backend   the same, and the properties' own block                     *)
(*   ignored   go on                                                       *)
(*   followed  the pointer is used                                         *)

Block(owner, i, name) == <<owner, i, name, 0, "none">>
Response(name) == Block("response", 0, name)
Message        == Block("message", 0, "own")

Try(block, onfail) == <<[block |-> block, onfail |-> onfail]>>
When(condition, steps) == IF condition THEN steps ELSE <<>>
ForEach(n, Steps(_)) == FlattenSeq([j \in 1..n |-> Steps(j)])

\* An array of pairs: the array, each pair, its key and its value.
PairSteps(owner, i, list, n, onfail) ==
    Try(Block(owner, i, list), onfail) \o
    ForEach(n, LAMBDA j : Try(<<owner, i, list, j, "pair">>, onfail) \o
                          Try(<<owner, i, list, j, "key">>, onfail) \o
                          Try(<<owner, i, list, j, "value">>, onfail))

LinkSteps_Unchecked(i, n) ==
    Try(Block("object", i, "links"), "followed") \o
    ForEach(n, LAMBDA j : Try(<<"object", i, "links", j, "link">>, "lists") \o
                          Try(<<"object", i, "links", j, "bucket">>, "ignored") \o
                          Try(<<"object", i, "links", j, "key">>, "ignored") \o
                          Try(<<"object", i, "links", j, "tag">>, "ignored"))

\* The same for links, but it is the message that is looked at for the array.
LinkSteps(i, n) ==
    Try(Block("object", i, "links"), "followed") \o
    ForEach(n, LAMBDA j : Try(<<"object", i, "links", j, "link">>, "lists") \o
                          Try(<<"object", i, "links", j, "bucket">>, "lists") \o
                          Try(<<"object", i, "links", j, "key">>, "lists") \o
                          Try(<<"object", i, "links", j, "tag">>, "lists"))

Binaries == <<"charset", "content_encoding", "content_type", "vtag">>

ObjectSteps(i, o) ==
    Try(Block("object", i, "own"), "object") \o
    Try(Block("object", i, "value"), "object") \o
    ForEach(Len(Binaries), LAMBDA b : When(Binaries[b] \in o.binaries,
                                           Try(Block("object", i, Binaries[b]), "object"))) \o
    When(o.indexes > 0, PairSteps("object", i, "indexes", o.indexes, "lists")) \o
    When(o.usermeta > 0, PairSteps("object", i, "usermeta", o.usermeta, "lists")) \o
    When(o.links > 0, LinkSteps(i, o.links))

\* Where an object was is copied from the operation; nobody looks at the copies.
PlaceSteps(i) ==
    Try(Block("object", i, "bucket"), "ignored") \o
    When(typed, Try(Block("object", i, "bucket_type"), "ignored")) \o
    Try(Block("object", i, "key"), "ignored")

ContentSteps(content, placed) ==
    When(content # <<>>,
         Try(Response("content"), "response") \o
         ForEach(Len(content), LAMBDA i : ObjectSteps(i, content[i]) \o When(placed, PlaceSteps(i))))

GetSteps ==
    Try(Response("own"), "abandon") \o
    When(message.vclock, Try(Response("vclock"), "response")) \o
    ContentSteps(message.content, TRUE)

PutSteps ==
    Try(Response("own"), "abandon") \o
    When(message.vclock, Try(Response("vclock"), "abandon")) \o
    When(message.key, Try(Response("key"), "abandon")) \o
    ContentSteps(message.content, FALSE)

SearchSteps ==
    Try(Response("own"), "abandon") \o
    When(message.docs # <<>>,
         Try(Response("docs"), "response") \o
         ForEach(Len(message.docs), LAMBDA i : PairSteps("doc", i, "fields", message.docs[i], "docs")))

\* Module and function; the message may have none, which counts as no memory.
FunSteps(name, i, present) ==
    Try(<<"props", i, name, 0, "fun">>, IF present THEN "followed" ELSE "ignored") \o
    (IF present THEN Try(<<"props", i, name, 0, "module">>, "props") \o
                     Try(<<"props", i, name, 0, "function">>, "props")
     ELSE Try(<<"props", i, name, 0, "missing">>, "props"))

HookSteps(list, hooks) ==
    Try(Block("props", 0, list), "props") \o
    ForEach(Len(hooks), LAMBDA i :
                Try(<<"props", i, list, 0, "hook">>, "props") \o
                When(hooks[i].name, Try(<<"props", i, list, 0, "name">>, "props")) \o
                FunSteps(list, i, hooks[i].modfun))

PropsSteps ==
    Try(Response("own"), "abandon") \o
    Try(Block("props", 0, "own"), "props") \o
    When(message.precommit # <<>>, HookSteps("precommit", message.precommit)) \o
    When(message.postcommit # <<>>, HookSteps("postcommit", message.postcommit)) \o
    When(message.backend, Try(Block("props", 0, "backend"), "backend")) \o
    When(message.search_index, Try(Block("props", 0, "search_index"), "backend")) \o
    FunSteps("chash_keyfun", 0, message.chash_keyfun) \o
    FunSteps("linkfun", 0, message.linkfun)

ServerinfoSteps ==
    Try(Response("own"), "abandon") \o
    When(message.node, Try(Response("node"), "abandon")) \o
    When(message.server_version, Try(Response("server_version"), "abandon"))

ClientidSteps == Try(Response("own"), "abandon") \o Try(Response("client_id"), "abandon")

BareSteps == Try(Response("own"), "abandon")

Bare == kind \notin {"get", "put", "search", "get_bucketprops", "serverinfo", "get_clientid"}

StepsOf == CASE kind = "get"             -> GetSteps
             [] kind = "put"             -> PutSteps
             [] kind = "search"          -> SearchSteps
             [] kind = "get_bucketprops" -> PropsSteps
             [] kind = "serverinfo"      -> ServerinfoSteps
             [] kind = "get_clientid"    -> ClientidSteps
             [] OTHER                    -> BareSteps

Blocks(steps) == {step.block : step \in ToSet(steps)}

\* The unpacked message comes first; the acknowledgements are not unpacked.
Allocated == IF Bare THEN {} ELSE {Message}

-----------------------------------------------------------------------------
(* Freeing. *)

\* An object's own binaries and lists, elements and parts of elements.
ObjectFreed_NoLinks == {"own", "bucket_type", "bucket", "charset", "content_type",
                        "content_encoding", "key", "value", "vtag", "indexes", "usermeta"}
ObjectFreed == {"own", "bucket_type", "bucket", "charset", "content_type", "content_encoding",
                "key", "value", "vtag", "indexes", "usermeta", "links"}

FreeObject(i) == {b \in live : b[1] = "object" /\ b[2] = i /\ b[3] \in ObjectFreed}
FreeObjects(n) == UNION {FreeObject(i) : i \in 1..n}

GetFree == {Response("vclock"), Response("content"), Message, Response("own")}
           \cup FreeObjects(Len(message.content))

PutFree == {Response("key"), Response("vclock"), Response("content"), Message, Response("own")}
           \cup FreeObjects(Len(message.content))

SearchFree == {Response("docs"), Message, Response("own")} \cup {b \in live : b[1] = "doc"}

\* The message is not freed.
PropsFree == {Response("own")} \cup {b \in live : b[1] = "props"}

ServerinfoFree == {Message, Response("node"), Response("server_version"), Response("own")}
ClientidFree   == {Response("client_id"), Message, Response("own")}

FreeOf == CASE kind = "get"             -> GetFree
            [] kind = "put"             -> PutFree
            [] kind = "search"          -> SearchFree
            [] kind = "get_bucketprops" -> PropsFree
            [] kind = "serverinfo"      -> ServerinfoFree
            [] kind = "get_clientid"    -> ClientidFree
            [] OTHER                    -> {Response("own")}

Undone_LastKept(made, step) ==
    LET i == step.block[2]
        before == {b \in made : b[1] = "object" /\ b[2] + 1 < i /\ b[3] \in ObjectFreed}
                  \cup {Response("content"), Response("own")}
    IN CASE step.onfail = "response" -> {Response("own")}
         [] step.onfail = "object"   -> before \cup {Block("object", i, "own")}
         [] step.onfail = "lists"    -> before
         [] step.onfail = "docs"     -> {Response("docs"), Response("own")}
         [] step.onfail = "props"    -> {Message, Response("own")}
         [] step.onfail = "backend"  -> {Message, Response("own"), Block("props", 0, "own")}
         [] OTHER                    -> {}

\* What a decoder frees of the blocks made when it stops at a step.
Undone(made, step) ==
    LET i == step.block[2]
        before == {b \in made : b[1] = "object" /\ b[2] < i /\ b[3] \in ObjectFreed}
                  \cup {Response("content"), Response("own")}
    IN CASE step.onfail = "response" -> {Response("own")}
         [] step.onfail = "object"   -> before \cup {Block("object", i, "own")}
         [] step.onfail = "lists"    -> before
         [] step.onfail = "docs"     -> {Response("docs"), Response("own")}
         [] step.onfail = "props"    -> {Message, Response("own")}
         [] step.onfail = "backend"  -> {Message, Response("own"), Block("props", 0, "own")}
         [] OTHER                    -> {}

-----------------------------------------------------------------------------
Init ==
    /\ kind \in Kinds /\ typed \in BOOLEAN /\ (typed => kind = "get")
    /\ message \in MessagesOf(kind)
    /\ short = {} /\ live = {} /\ handed = FALSE /\ status = "waiting"

Fails(step) == step.block \in short' \/ step.block[5] = "missing"

\* The first step whose failure is not ignored, 0 if there is none.
StopsAt(steps) ==
    LET stops == {k \in DOMAIN steps : Fails(steps[k]) /\ steps[k].onfail # "ignored"}
    IN IF stops = {} THEN 0 ELSE CHOOSE k \in stops : \A l \in stops : k <= l

MadeBefore(steps, n) ==
    Allocated \cup {steps[k].block : k \in {j \in 1..n : ~Fails(steps[j])}}

\* The response is handed over at the very end, whole.
Finish(steps) ==
    /\ StopsAt(steps) = 0
    /\ live' = MadeBefore(steps, Len(steps))
    /\ handed' = TRUE /\ status' = "ok"

GiveUp_ErrorLost(steps) ==
    LET k == StopsAt(steps) IN
    /\ k # 0 /\ steps[k].onfail # "followed"
    /\ live' = MadeBefore(steps, k) \ Undone(MadeBefore(steps, k), steps[k])
    /\ handed' = FALSE
    /\ status' = IF steps[k].onfail \in {"props", "backend", "object"} THEN "ok" ELSE "error"

\* The decoder gives up, and cleans up after itself as far as it does.
GiveUp(steps) ==
    LET k == StopsAt(steps) IN
    /\ k # 0 /\ steps[k].onfail # "followed"
    /\ live' = MadeBefore(steps, k) \ Undone(MadeBefore(steps, k), steps[k])
    /\ handed' = FALSE
    /\ status' = IF steps[k].onfail \in {"props", "backend"} THEN "ok" ELSE "error"

Crash(steps) ==
    /\ StopsAt(steps) # 0 /\ steps[StopsAt(steps)].onfail = "followed"
    /\ status' = "crashed"
    /\ UNCHANGED <<live, handed>>

\* The allocations of an answer that fail.
Shortages(S) == {ToSet(q) : q \in UpTo(MaxShort, S)}

Decode ==
    /\ status = "waiting"
    /\ short' \in Shortages(Blocks(StepsOf))
    /\ Finish(StepsOf) \/ GiveUp(StepsOf) \/ Crash(StepsOf)
    /\ UNCHANGED <<kind, typed, message>>

\* The message cannot be unpacked: it is malformed, or there is no memory.
NotUnpacked ==
    /\ status = "waiting" /\ ~Bare
    /\ short' = {Message} /\ status' = "error"
    /\ UNCHANGED <<kind, typed, message, live, handed>>

Free_Dangling ==
    /\ status = "ok" /\ handed
    /\ live' = live \ FreeOf /\ status' = "freed"
    /\ UNCHANGED <<kind, typed, message, short, handed>>

Free ==
    /\ status = "ok" /\ handed
    /\ live' = live \ FreeOf /\ handed' = FALSE /\ status' = "freed"
    /\ UNCHANGED <<kind, typed, message, short>>

Stopped == status # "waiting" /\ UNCHANGED vars

Next == Decode \/ NotUnpacked \/ Free \/ Stopped
Spec == Init /\ [][Next]_vars

-----------------------------------------------------------------------------
(* Properties. *)

\* Every variable has its type: memory is the message or of something it holds,
\* and a response is there only between ERIAK_OK and its free, which clears the
\* user's pointer (riak_free).
TypeOK ==
    /\ kind \in Kinds /\ typed \in BOOLEAN /\ message \in MessagesOf(kind)
    /\ live \cup short \subseteq {Message} \cup Blocks(StepsOf)
    /\ handed \in BOOLEAN /\ (handed => status = "ok")
    /\ status \in {"waiting", "ok", "error", "freed", "crashed"}

\* A response is whole: whatever the message holds is in it, whichever
\* allocations failed, but for the copies of the place of an object, which
\* riak_get_response_decode does not look at; and the message its shallow
\* binaries point into (riak_binary_copy_from_pb) is there.
AllOrNothing ==
    handed =>
        /\ Bare \/ Message \in live
        /\ \A b \in Blocks(StepsOf) :
             b \in live \/ (kind = "get" /\ b[1] = "object" /\ b[3] \in {"bucket", "bucket_type", "key"})

\* ERIAK_OK comes with a response, which the user may follow; but for bucket
\* properties, whose decoder returns it when it ran short, or when the server
\* left out a function.
OkMeansResponse == (status = "ok" /\ kind # "get_bucketprops") => handed

\* A user who frees a response leaves nothing behind, whatever allocations of it
\* failed, but for the message of bucket properties.
NothingLeft == status = "freed" => live = IF kind = "get_bucketprops" THEN {Message} ELSE {}

\* "If any object allocation fails, clean up all previously allocated ones": a
\* get or a put that gives up leaves blocks of one object at most, the one it
\* was at, and no array of objects.
OneObjectLost ==
    (status = "error" /\ kind \in {"get", "put"}) =>
        /\ Response("content") \notin live
        /\ \A b, c \in live : b[1] = "object" /\ c[1] = "object" => b[2] = c[2]

\* A decoder goes astray only where an allocation failed: no message of the
\* server makes it follow a NULL, though functions and hooks are optional in it.
Guarded == status = "crashed" => short # {}
=============================================================================
