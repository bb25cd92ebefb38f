---------------------------- MODULE RiakRequests ----------------------------
(***************************************************************************)
(* What a user asks for and what goes to the server: the options of get,   *)
(* put, delete, search and secondary index queries, objects, bucket        *)
(* properties (src/src/riak_object.c, riak_bucketprops.c, the options of   *)
(* src/src/messages), the encoders that turn them into a request and the   *)
(* registration of an asynchronous one (riak_async.c).                     *)
(*                                                                         *)
(* All of these keep a flag and a value for each field, in a dozen places  *)
(* written by hand.  They differ in manner: whether the flag goes up       *)
(* before or after the copy is made, what becomes of the old copy, whether *)
(* the user is told of a failure.  A table for each kind gives its fields  *)
(* and their manners; one action sets any of them.                         *)
(*                                                                         *)
(* A slot <<name, i, part>> is a field (i = 0) or a part of the i-th       *)
(* element of a list.  asked has what the user asked for, slot by slot, so *)
(* that the request can be held against it.                                *)
(***************************************************************************)
EXTENDS Naturals

CONSTANTS
    Calls,       \* the calls the user makes
    Values,      \* what the user may set a field to
    MaxSets,     \* bound on the setters called
    MaxItems,    \* bound on the elements of a list
    CanFail      \* allocations may fail

ASSUME RequestsAssumption ==
    /\ MaxSets \in Nat /\ MaxItems \in Nat \ {0} /\ CanFail \in BOOLEAN
    \* what a user sets is none of the marks below
    /\ Values \cap {"absent", "NULL", "unset", "unknown", "zero", "server", "default"} = {}

VARIABLES
    call,        \* the call being prepared
    api,         \* "sync" or "async"
    given,       \* options are passed, not NULL
    args,        \* the parameters passed
    has,         \* the flags
    value,       \* the values, or pointers to them
    items,       \* elements in each list
    room,        \* elements each list's array has room for
    asked,       \* what the user asked for
    rop,         \* the operation: its callback, decoder and pb_request
    pc,          \* where the user is
    lost,        \* memory nobody can free any more
    failed,      \* an allocation has failed
    again,       \* something was set, or registered, a second time
    sets         \* setters called

fields == <<has, value, items, room, asked>>
vars == <<call, api, given, args, fields, rop, pc, lost, failed, again, sets>>

Absent  == "absent"       \* not in the message
Null    == "NULL"
Unset   == "unset"        \* never asked for
Unknown == "unknown"      \* asked for, and reported as failed
Zero    == "zero"         \* what a message's initialiser leaves in a field
Server  == "server"       \* came with a fetched object
Default == "default"      \* set when options are created
None    == "none"

NoRequest == [call |-> None]
Nobody == [callback |-> None, decoder |-> None, request |-> NoRequest]

-----------------------------------------------------------------------------
(* Fields and the manner each is set in:                                   *)
(*   scalar   flag and value, nothing to fail                              *)
(*   shell    flag, free the old binary but not its data, copy             *)
(*   shell_   the same, and the user is not told when the copy fails       *)
(*   deep_    flag, free the old binary, copy; the user is not told        *)
(*   drop     flag, copy over the old pointer                              *)
(*   copy     copy over the old pointer, flag if that succeeded            *)
(*   fun      as copy, but no flag, and success is reported as a failure   *)
(*   hookfun  as copy, but no flag                                         *)
(*   borrow   flag, and the user's pointer itself                          *)

\* Scalars, and others that are set in another manner.
Manners(scalars, others, manner) ==
    [n \in scalars \cup others |-> IF n \in others THEN manner ELSE "scalar"]

GetSetters == Manners({"r", "pr", "basic_quorum", "notfound_ok", "head", "deletedvclock",
                       "timeout", "sloppy_quorum", "n_val"},
                      {"if_modified"}, "shell_")

PutSetters == Manners({"w", "dw", "return_body", "pw", "if_not_modified", "if_none_match",
                       "return_head", "timeout", "asis", "sloppy_quorum", "n_val"},
                      {"vclock"}, "shell_")

DeleteSetters == Manners({"w", "dw", "pw", "timeout", "sloppy_quorum", "n_val"},
                         {"vclock"}, "deep_")

SearchSetters == Manners({"rows", "start"},
                         {"sort", "filter", "df", "op", "presort"}, "shell")

IndexSetters == Manners({"qtype", "return_terms", "stream", "max_results", "timeout",
                         "pagination_sort"},
                        {"key", "range_min", "range_max", "continuation", "type",
                         "term_regex"}, "drop")

ObjectSetters == Manners({"last_mod", "last_mod_usecs", "deleted"},
                         {"bucket", "bucket_type", "key", "value", "charset", "content_type",
                          "content_encoding", "vtag"}, "copy")

PairSetters == Manners({}, {"key", "value"}, "copy")
LinkSetters == Manners({}, {"bucket", "key", "tag"}, "copy")
HookSetters == [name |-> "drop", modfun |-> "hookfun"]

PropsScalars == {"n_val", "allow_mult", "last_write_wins", "old_vclock", "young_vclock",
                 "big_vclock", "small_vclock", "pr", "r", "w", "pw", "dw", "rw",
                 "basic_quorum", "notfound_ok", "search", "repl"}
Texts        == {"backend", "search_index"}
Functions    == {"chash_keyfun", "linkfun"}
PropsSetters == [n \in PropsScalars \cup Texts \cup Functions |->
                    CASE n \in PropsScalars -> "scalar"
                      [] n \in Texts        -> "borrow"
                      [] n \in Functions    -> "fun"]

OptionCalls == {"get", "put", "delete", "search", "index"}

SettersOf(c) == CASE c = "get"             -> GetSetters
                  [] c = "put"             -> PutSetters
                  [] c = "delete"          -> DeleteSetters
                  [] c = "search"          -> SearchSetters
                  [] c = "index"           -> IndexSetters
                  [] c = "object"          -> ObjectSetters
                  [] c = "set_bucketprops" -> PropsSetters
                  [] OTHER                 -> <<>>

\* The lists: their elements' parts.  A name to return is added with its value.
ListsOf(c) == CASE c = "object" -> [links |-> LinkSetters, usermeta |-> PairSetters,
                                    indexes |-> PairSetters]
                [] c = "set_bucketprops" -> [precommit |-> HookSetters, postcommit |-> HookSetters]
                [] c = "search" -> [fl |-> [value |-> "copy"]]
                [] OTHER -> <<>>

Field(f) == <<f, 0, "itself">>
Element(l, i, setters) == {<<l, i, p>> : p \in DOMAIN setters}
Slots(c) ==
    {Field(f) : f \in DOMAIN SettersOf(c)} \cup
    UNION {Element(l, i, ListsOf(c)[l]) : l \in DOMAIN ListsOf(c), i \in 1..MaxItems}
Manner(s) == IF s[2] = 0 THEN SettersOf(call)[s[1]] ELSE ListsOf(call)[s[1]][s[3]]

\* The slots in use.
Live == {s \in DOMAIN has : s[2] = 0 \/ s[2] <= items[s[1]]}

\* Fields without a flag, always followed.
Required(s) == s \in {Field("bucket"), Field("value")} \/ (s[1] \in {"usermeta", "indexes"} /\ s[3] = "key")

\* The parameters of each call, named by their meaning; type and timeout may be
\* left out (NULL, 0).
PingParams         == {}
ServerinfoParams   == {}
GetClientidParams  == {}
SetClientidParams  == {"clientid"}
PlaceParams        == {"type", "bucket", "key"}      \* of get and delete
SearchParams       == {"bucket", "query"}
IndexParams        == {"type", "bucket", "index"}
ListkeysParams     == {"type", "bucket", "timeout"}
ListbucketsParams  == {"type", "timeout"}
MapreduceParams    == {"content_type", "request"}
BucketpropsParams  == {"type", "bucket"}             \* of get, set and reset

ParamsOf(c) == CASE c \in {"get", "delete"} -> PlaceParams
                 [] c = "search"            -> SearchParams
                 [] c = "index"             -> IndexParams
                 [] c = "list_keys"         -> ListkeysParams
                 [] c = "list_buckets"      -> ListbucketsParams
                 [] c = "mapreduce"         -> MapreduceParams
                 [] c = "ping"              -> PingParams
                 [] c = "serverinfo"        -> ServerinfoParams
                 [] c = "get_clientid"      -> GetClientidParams
                 [] c = "set_clientid"      -> SetClientidParams
                 [] c \in {"get_bucketprops", "set_bucketprops", "reset_bucketprops"}
                                            -> BucketpropsParams
                 [] OTHER                   -> {}

ArgsOf(c) ==
    {a \in [ParamsOf(c) -> ParamsOf(c) \cup {Absent}] :
        \A p \in ParamsOf(c) : a[p] = p \/ (a[p] = Absent /\ p \in {"type", "timeout"})}

\* Requests of the protocol by number.
CodeOf(c) == CASE c = "ping" -> 1            [] c = "get_clientid" -> 3
               [] c = "set_clientid" -> 5    [] c = "serverinfo" -> 7
               [] c = "get" -> 9             [] c \in {"put", "object"} -> 11
               [] c = "delete" -> 13         [] c = "list_buckets" -> 15
               [] c = "list_keys" -> 17      [] c = "get_bucketprops" -> 19
               [] c = "set_bucketprops" -> 21 [] c = "mapreduce" -> 23
               [] c = "index" -> 25          [] c = "search" -> 27
               [] c = "reset_bucketprops" -> 29

-----------------------------------------------------------------------------
(* A call begins: with new options or a new object, or one that was fetched. *)

Blank(c) ==
    /\ has = [s \in Slots(c) |-> Required(s)]
    /\ value = [s \in Slots(c) |-> Null]
    /\ asked = [s \in Slots(c) |-> Unset]
    /\ items = [l \in DOMAIN ListsOf(c) |-> 0]
    /\ room = items

\* riak_2i_options_new turns streaming on.
Streaming(c) ==
    /\ has = [s \in Slots(c) |-> s = Field("stream")]
    /\ value = [s \in Slots(c) |-> IF has[s] THEN Default ELSE Null]
    /\ asked = [s \in Slots(c) |-> IF has[s] THEN Default ELSE Unset]
    /\ items = <<>> /\ room = <<>>

\* Everything in a fetched object is the server's, but its bucket, type and key
\* are copies that nobody looked at.
Fetched(c) ==
    /\ c = "object"
    /\ \E whole \in BOOLEAN, lacking \in SUBSET (IF CanFail THEN {"bucket", "bucket_type", "key"} ELSE {}) :
          /\ has = [s \in Slots(c) |-> Required(s) \/ (s[2] <= 1 /\ (whole \/ s = Field("key")))]
          /\ asked = [s \in Slots(c) |-> IF has[s] /\ s[2] <= 1 THEN Server ELSE Unset]
          /\ value = [s \in Slots(c) |-> IF asked[s] = Unset \/ (s[2] = 0 /\ s[1] \in lacking)
                                         THEN Null ELSE Server]
          /\ failed = (lacking # {})
    /\ items = [l \in DOMAIN ListsOf(c) |-> 1] /\ room = items

Init ==
    /\ call \in Calls
    /\ api \in {"sync", "async"}
    /\ given \in (IF call \in OptionCalls THEN BOOLEAN ELSE {TRUE})
    /\ args \in ArgsOf(call)
    /\ \/ failed = FALSE /\ (IF call = "index" /\ given THEN Streaming(call) ELSE Blank(call))
       \/ Fetched(call)
    /\ rop = Nobody /\ pc = "setting"
    /\ lost = {} /\ again = FALSE /\ sets = 0

\* The same operation is registered for another call.
Begin(c) ==
    /\ pc = "sent" /\ api = "async" /\ sets = 0 /\ DOMAIN SettersOf(c) = {}
    /\ call' = c /\ args' \in ArgsOf(c) /\ given' = TRUE
    /\ has' = <<>> /\ value' = <<>> /\ asked' = <<>> /\ items' = <<>> /\ room' = <<>>
    /\ pc' = "setting" /\ again' = TRUE
    /\ UNCHANGED <<api, rop, lost, failed, sets>>

-----------------------------------------------------------------------------
(* Setters. *)

Copied(m) == IF m \in {"scalar", "borrow"} \/ ~CanFail THEN {TRUE} ELSE BOOLEAN

Raised_Forgotten(m, before, copied) ==
    CASE m = "copy"              -> before
      [] m \in {"fun", "hookfun"} -> copied
      [] OTHER                   -> TRUE

\* The flag after a copy that did or did not succeed.
Raised(m, before, copied) ==
    CASE m = "copy"              -> before \/ copied
      [] m \in {"fun", "hookfun"} -> copied
      [] OTHER                   -> TRUE

\* The setter returns an error.
Told(m, copied) ==
    CASE m \in {"scalar", "borrow", "shell_", "deep_"} -> FALSE
      [] m = "fun" -> copied
      [] OTHER     -> ~copied

\* The old value is freed, or is not memory of the library's.
Released(m) == m \in {"scalar", "borrow", "deep_"}

Set(s, v) ==
    /\ pc = "setting" /\ given /\ sets < MaxSets /\ s[1] # "fl"
    /\ \E copied \in Copied(Manner(s)) :
          /\ value' = [value EXCEPT ![s] = IF copied THEN v ELSE Null]
          /\ has'   = [has EXCEPT ![s] = Raised(Manner(s), @, copied)]
          /\ asked' = [asked EXCEPT ![s] = IF Told(Manner(s), copied) THEN Unknown ELSE v]
          /\ failed' = (failed \/ ~copied)
    /\ lost' = IF value[s] = Null \/ Released(Manner(s)) THEN lost ELSE lost \cup {s}
    /\ again' = (again \/ value[s] # Null)
    /\ sets' = sets + 1
    /\ UNCHANGED <<call, api, given, args, items, room, rop, pc>>

Counted_Always(l, left, made) == IF made THEN items[l] + 1 ELSE items[l]

\* Elements once one was to be added to an array with room for left.
Counted(l, left, made) == IF left # 0 /\ made THEN items[l] + 1 ELSE items[l]

Borrowed(l) == l \in {"precommit", "postcommit"}

\* A new element of a list: the array is made or made longer, whatever came of
\* it the element is made, stored, and counted if it is there.  (The user makes
\* the arrays of hooks.)
Add(l) ==
    /\ pc = "setting" /\ given /\ sets < MaxSets /\ items[l] < MaxItems
    /\ \E longer, made \in IF CanFail /\ ~Borrowed(l) THEN BOOLEAN ELSE {TRUE} :
          LET place == items[l] + 1
              left  == IF longer THEN (IF room[l] = 0 THEN 1 ELSE place) ELSE room[l]
          IN /\ room' = [room EXCEPT ![l] = left]
             /\ pc' = IF left # 0 /\ left < place THEN "stray" ELSE pc
             /\ items' = [items EXCEPT ![l] = Counted(l, left, made)]
             /\ failed' = (failed \/ ~longer \/ ~made)
             /\ \E v \in Values :
                   LET name == <<l, place, "value">>
                   IN IF l = "fl" /\ left # 0 /\ made
                      THEN /\ has' = [has EXCEPT ![name] = TRUE]
                           /\ value' = [value EXCEPT ![name] = v]
                           /\ asked' = [asked EXCEPT ![name] = v]
                      ELSE UNCHANGED <<has, value, asked>>
    /\ sets' = sets + 1
    /\ UNCHANGED <<call, api, given, args, rop, lost, again>>

-----------------------------------------------------------------------------
(* Getters: what can be read back of options, objects and properties. *)

GetGetters    == {"r", "pr", "basic_quorum", "notfound_ok", "if_modified", "head",
                  "deletedvclock", "timeout", "sloppy_quorum", "n_val"}
PutGetters    == {"vclock", "w", "dw", "return_body", "pw", "if_not_modified", "if_none_match",
                  "return_head", "timeout", "asis", "sloppy_quorum", "n_val"}
DeleteGetters == {"vclock", "w", "dw", "pw", "timeout", "sloppy_quorum", "n_val"}
SearchGetters == {"rows", "start", "sort", "filter", "df", "op", "presort", "fl"}
IndexGetters  == {"qtype", "key", "range_min", "range_max", "return_terms", "stream",
                  "max_results", "continuation", "timeout", "type", "term_regex",
                  "pagination_sort"}
ObjectGetters == {"bucket", "bucket_type", "key", "value", "charset", "last_mod",
                  "last_mod_usecs", "content_type", "content_encoding", "deleted", "vtag"}
ListGetters   == {"links", "usermeta", "indexes"}
PropsGetters  == {"n_val", "allow_mult", "last_write_wins", "precommit", "postcommit",
                  "chash_keyfun", "linkfun", "old_vclock", "young_vclock", "big_vclock",
                  "small_vclock", "pr", "r", "w", "pw", "dw", "rw", "basic_quorum",
                  "notfound_ok", "backend", "search", "repl", "search_index"}

GettersOf(c) == CASE c = "get"             -> GetGetters
                  [] c = "put"             -> PutGetters
                  [] c = "delete"          -> DeleteGetters
                  [] c = "search"          -> SearchGetters
                  [] c = "index"           -> IndexGetters
                  [] c = "object"          -> ObjectGetters \cup ListGetters
                  [] c = "set_bucketprops" -> PropsGetters
                  [] OTHER                 -> {}

Shown(s) == [has |-> has[s], value |-> value[s]]

-----------------------------------------------------------------------------
(* Encoders: the request made of the parameters and what was set. *)

Copies_Asked(slots) == [s \in slots |-> value[s]]

\* A field whose flag is up is copied into the message.
Copies(slots) == [s \in slots |-> IF has[s] THEN value[s] ELSE Absent]

Request(parameters, sent) ==
    [call |-> call, code |-> CodeOf(call), args |-> parameters, fields |-> sent]

\* The fields a message has but nobody gave a value.
Zeroed(message, names) ==
    [s \in DOMAIN message |-> IF has[s] /\ s[1] \in names THEN Zero ELSE message[s]]

GetRequest == Request(args, Copies(Live))

PutRequest == Request(args, Zeroed(Copies(Live), {"if_none_match", "if_not_modified"}))

DeleteRequest ==
    Request(args, IF api = "async" THEN [s \in Live |-> Absent] ELSE Copies(Live))

SearchRequest == Request(args, Copies(Live))

\* The type among the options takes the place of the parameter.
IndexRequest ==
    Request([args EXCEPT !.type = IF ~given THEN @
                                  ELSE IF has[Field("type")] THEN value[Field("type")] ELSE Absent],
            Copies(Live))

ObjectRequest == Request(args, Copies(Live))

\* Functions that cannot be copied for the message are left out of it, and the
\* second with the first.
PropsRequest(kept) ==
    Request(args, [s \in Live |-> IF Manner(s) = "fun" /\ s[1] \notin kept THEN Absent
                                  ELSE Copies(Live)[s]])
KeptFuns == {Functions} \cup (IF CanFail THEN {{}, {"chash_keyfun"}} ELSE {})

\* Bucket and type are taken for each other.
ResetRequest ==
    [Request([type |-> args.bucket, bucket |-> args.type], <<>>) EXCEPT !.code = 21]

PlainRequest == Request(args, <<>>)

RequestOf(kept) ==
          CASE call = "get"               -> GetRequest
               [] call = "put"               -> PutRequest
               [] call = "delete"            -> DeleteRequest
               [] call = "search"            -> SearchRequest
               [] call = "index"             -> IndexRequest
               [] call = "object"            -> ObjectRequest
               [] call = "set_bucketprops"   -> PropsRequest(kept)
               [] call = "reset_bucketprops" -> ResetRequest
               [] OTHER                      -> PlainRequest

Hooked == call = "set_bucketprops" /\ \E l \in DOMAIN items : items[l] > 0
Funs   == call = "set_bucketprops" /\ \E s \in Live : Manner(s) = "fun" /\ has[s]
Parted == call = "object" /\ \E l \in DOMAIN items : items[l] > 0

Looks_NoFlags(s) == TRUE

\* The encoder follows the pointer.
Looks(s) == has[s]

NullFollowed ==
    \/ call = "reset_bucketprops" /\ args.type = Absent
    \/ /\ given /\ ~(call = "delete" /\ api = "async")
       /\ \E s \in Live : Looks(s) /\ Manner(s) # "scalar" /\ value[s] = Null

\* The encoder reads memory that is not there.  The messages made for hooks and
\* functions were never initialised: for hooks they are zeroed, and point
\* nowhere; for functions they hold what was in the memory.
EncodeCrash ==
    /\ pc = "setting"
    /\ \/ (NullFollowed \/ Hooked \/ Funs) /\ UNCHANGED failed
       \* whoever fills the message looks at no error
       \/ Parted /\ CanFail /\ failed' = TRUE
    /\ pc' = "crashed"
    /\ UNCHANGED <<call, api, given, args, fields, rop, lost, again, sets>>

\* A message of its own is packed into a buffer.
Bodied == call \notin {"ping", "serverinfo", "get_clientid"}

\* What the encoder makes for the message: parts of an object, the array of names
\* to return; and of bucket properties, which nobody frees.
Parts   == IF Parted \/ (call = "search" /\ items["fl"] > 0) THEN {Field("parts")} ELSE {}
PbProps == IF Funs THEN {Field("pb")} ELSE {}

\* Copies of the parameters the operation had.
OldParameters ==
    IF rop.request # NoRequest /\ call \in {"get", "index", "search"} THEN {Field("parameters")} ELSE {}

Registered_Once(r) == IF api = "async" /\ r.callback = None THEN [r EXCEPT !.callback = call] ELSE r

\* An asynchronous registration sets the callback before anything else.
Registered(r) == IF api = "async" THEN [r EXCEPT !.callback = call] ELSE r

Forgotten == PbProps \cup OldParameters \cup (IF api = "sync" THEN {Field("operation")} ELSE {})

\* The encoder runs short at the array of names, the buffer or the message.  The
\* synchronous calls then forget the operation, and the user may try again.
EncodeShort ==
    /\ pc = "setting" /\ CanFail /\ ~NullFollowed /\ ~Hooked
    /\ \/ lost' = lost \cup Forgotten /\ (call = "search" \/ ~Bodied \/ call = "list_buckets")
       \/ lost' = lost \cup Forgotten \cup Parts /\ Bodied
       \/ lost' = lost \cup Forgotten \cup {Field("buffer")} /\ Bodied /\ call # "list_buckets"
    /\ rop' = Registered(rop)
    /\ failed' = TRUE
    /\ UNCHANGED <<call, api, given, args, fields, pc, again, sets>>

\* The operation with a decoder and a request.
Prepared(kept) == [Registered(rop) EXCEPT !.decoder = call, !.request = RequestOf(kept)]

\* A request is made and kept in the operation.
Encode ==
    /\ pc \in (IF api = "async" THEN {"setting", "sent"} ELSE {"setting"})
    /\ ~NullFollowed /\ ~Hooked
    /\ \E kept \in IF Funs THEN KeptFuns ELSE {Functions} :
          /\ rop' = Prepared(kept)
          /\ failed' = (failed \/ kept # Functions)
    /\ lost' = lost \cup PbProps \cup OldParameters
               \cup (IF rop.request # NoRequest THEN {Field("request")} ELSE {})
    /\ again' = (again \/ rop.request # NoRequest)
    /\ pc' = "sent"
    /\ UNCHANGED <<call, api, given, args, fields, sets>>

-----------------------------------------------------------------------------
(* The user frees the options, the object or the properties. *)

GetFreed_Shell == {}
GetFreed    == {"if_modified"}
PutFreed    == {}
DeleteFreed == {"vclock"}
SearchFreed == {"sort", "filter", "df", "op", "presort", "fl"}
IndexFreed  == {"key", "range_min", "range_max", "type", "continuation", "term_regex"}
ObjectFreed == {"bucket_type", "bucket", "charset", "content_type", "content_encoding",
                "key", "value", "vtag", "indexes", "usermeta", "links"}
PropsFreed  == {"backend", "chash_keyfun", "linkfun", "precommit", "postcommit", "search_index"}

FreedOf(c) == CASE c = "get"             -> GetFreed
                [] c = "put"             -> PutFreed
                [] c = "delete"          -> DeleteFreed
                [] c = "search"          -> SearchFreed
                [] c = "index"           -> IndexFreed
                [] c = "object"          -> ObjectFreed
                [] c = "set_bucketprops" -> PropsFreed
                [] OTHER                 -> {}

\* riak_modfun_free follows its argument.
FunMissing ==
    /\ call = "set_bucketprops"
    /\ \E s \in Live : Manner(s) \in {"fun", "hookfun"} /\ value[s] = Null

Free ==
    /\ pc \in {"setting", "sent"} /\ given
    /\ pc' = IF FunMissing THEN "crashed" ELSE "freed"
    /\ lost' = lost \cup {s \in Live : /\ Manner(s) # "scalar" /\ value[s] # Null
                                       /\ s[1] \notin FreedOf(call)}
    /\ UNCHANGED <<call, api, given, args, fields, rop, failed, again, sets>>

Stopped == pc # "setting" /\ UNCHANGED vars

Next == \/ \E s \in Live, v \in Values : Set(s, v)
        \/ \E l \in DOMAIN items : Add(l)
        \/ \E c \in Calls : Begin(c)
        \/ EncodeCrash \/ EncodeShort \/ Encode
        \/ Free \/ Stopped
Spec == Init /\ [][Next]_vars

-----------------------------------------------------------------------------
(* Properties. *)

Pointers == {Null, Server, Default} \cup Values

\* Every variable has its type; lists fit into their arrays.
TypeOK ==
    /\ call \in Calls /\ api \in {"sync", "async"} /\ given \in BOOLEAN
    /\ args \in ArgsOf(call)
    /\ has \in [Slots(call) -> BOOLEAN] /\ value \in [Slots(call) -> Pointers]
    /\ asked \in [Slots(call) -> {Unset, Unknown, Server, Default} \cup Values]
    /\ \A l \in DOMAIN items : items[l] \in 0..MaxItems /\ (pc # "stray" /\ ~Borrowed(l) => items[l] <= room[l])
    /\ pc \in {"setting", "sent", "freed", "crashed", "stray"}
    /\ rop.callback \in Calls \cup {None} /\ rop.decoder \in Calls \cup {None}
    /\ failed \in BOOLEAN /\ again \in BOOLEAN /\ sets \in 0..MaxSets

\* The request says what the user asked for, slot by slot, but for deaf slots
\* and slots whose setter failed and said so.
AsAskedBut(deaf) ==
    pc = "sent" =>
        /\ rop.request.code = CodeOf(call)
        /\ \A p \in DOMAIN args : p \notin deaf => rop.request.args[p] = args[p]
        /\ DOMAIN rop.request.fields = Live
        /\ \A s \in Live : (s[1] \notin deaf /\ asked[s] # Unknown) =>
              rop.request.fields[s] = IF asked[s] = Unset THEN Absent ELSE asked[s]

\* What is known not to be heard: the flags of a put, all options of an
\* asynchronous delete, the bucket type of an index query with options, a
\* function of bucket properties that could not be copied.
Deaf == CASE call = "put" -> {"if_none_match", "if_not_modified"}
          [] call = "delete" /\ api = "async" -> DeleteGetters
          [] call = "index" /\ given -> {"type"}
          [] call = "set_bucketprops" -> Functions
          [] OTHER -> {}

\* Through any setters, failures and retries the server is asked what the user
\* asked for: nothing else is lost, taken from another field or left over.
Heard == call # "reset_bucketprops" => AsAskedBut(Deaf)

\* The same of every slot.
AsAsked == AsAskedBut({})

\* Without failures, what the user set reads back through the getters, and no
\* flag is up that the user did not raise.
ReadBack ==
    ~failed =>
        \A s \in Live :
            /\ asked[s] \notin {Unset, Unknown} =>
                  s[1] \in GettersOf(call) /\ Shown(s) = [has |-> TRUE, value |-> asked[s]]
            /\ asked[s] = Unset => (Shown(s).has => Required(s))

\* What the user has to see to: an object has a bucket and a value and its pairs
\* keys, a reset has a bucket type.  Bucket properties are out of reach: they
\* cannot be sent with functions and hooks nor freed without functions.
Complete ==
    /\ call # "set_bucketprops"
    /\ call = "reset_bucketprops" => args.type # Absent
    /\ \A s \in Live : Required(s) => value[s] # Null

\* A user who sees to that, and has the memory, is never led astray.
Guarded == pc \in {"crashed", "stray"} => (failed \/ ~Complete)

\* An operation that is ready has the request, the decoder and the callback of
\* one call, unless a registration failed after another had succeeded.
Matched ==
    (rop.request # NoRequest /\ ~(failed /\ again)) =>
        /\ rop.decoder = rop.request.call
        /\ rop.callback \in {None, rop.request.call}

\* What is set once and freed is gone, but for the vector clock of a put and
\* the copies of bucket properties; without failures encoders leave nothing.
FreedWhole ==
    (pc = "freed" /\ ~failed /\ ~again) =>
        lost \subseteq CASE call = "put"             -> {Field("vclock")}
                         [] call = "set_bucketprops" -> {Field("pb")}
                         [] OTHER                    -> {}
=============================================================================
