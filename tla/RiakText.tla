------------------------------ MODULE RiakText ------------------------------
(***************************************************************************)
(* Text of bounded size: responses, options, objects and bucket properties *)
(* printed piece by piece into one buffer (riak_print.c and the printing   *)
(* functions of src/src), two objects compared with what differs printed   *)
(* (riak_object.c), and the names of a connection copied into it           *)
(* (riak_utils.c, riak_connection.c).                                      *)
(*                                                                         *)
(* A text is a series of units, each one call of the printing library.     *)
(* What a character is does not matter, only which one it is: the k-th     *)
(* that would have come out had there been room is k.                      *)
(***************************************************************************)
EXTENDS Integers, Sequences, SequencesExt

CONSTANTS
    Totals,       \* sizes of the user's buffer
    Texts,        \* lengths of a formatted text
    Sizes,        \* lengths of a binary
    MaxElements,  \* bound on the elements of each list printed
    MaxPrints,    \* bound on the texts printed into a buffer
    Pairs,        \* objects that are compared
    NameSize      \* RIAK_HOST_MAX_LEN

ASSUME TextAssumption ==
    /\ Totals \subseteq Nat \ {0} /\ Texts \subseteq Nat \ {0} /\ Sizes \subseteq Nat
    /\ MaxElements \in Nat /\ MaxPrints \in Nat /\ NameSize \in Nat \ {0}

Null == "NULL"
Data == STRING \ {Null}

\* What has to be in an object, and what may be NULL.
Objects ==
    [bucket : Data, value : Data, deleted : BOOLEAN,
     bucket_type : STRING, key : STRING, charset : STRING, content_type : STRING,
     content_encoding : STRING, vtag : STRING, last_mod : STRING, last_mod_usecs : STRING,
     indexes : Seq([key : Data, value : STRING]), usermeta : Seq([key : Data, value : STRING]),
     links : Seq([bucket : STRING, key : STRING, tag : STRING])]

ASSUME PairsAssumption == Pairs \subseteq Objects \X Objects

VARIABLES
    total,     \* size of the buffer
    state,     \* riak_print_state: len is left and wrote used, by its own
               \* account; said is what there was to print
    bare,      \* a binary was printed as it is when no room was left
    todo,      \* units still to be printed
    prints,    \* texts begun
    compared,  \* the objects compared, if that came last, and the verdict
    names      \* the names of a connection, if that was made last: as given and as stored

vars == <<total, state, bare, todo, prints, compared, names>>

Nul       == -1    \* the character 0
Untouched == 0     \* what the buffer held before

Least(a, b) == IF a <= b THEN a ELSE b

-----------------------------------------------------------------------------
(* The printing library. *)

Put_Shown(st, shown, ends, moved, whole) ==
    [len    |-> st.len - moved,
     wrote  |-> st.wrote + shown,
     said   |-> st.said + whole,
     buffer |-> [i \in 0..(total - 1) |->
                    IF i >= st.wrote /\ i < st.wrote + shown THEN st.said + (i - st.wrote) + 1
                    ELSE IF ends /\ i = st.wrote + shown THEN Nul
                    ELSE st.buffer[i]],
     stray  |-> \/ st.stray
                \/ shown > 0 /\ st.wrote + shown > total
                \/ ends /\ st.wrote + shown >= total]

\* Characters written where the state stands, and a NUL, before it moves on.
Put(st, shown, ends, moved, whole) ==
    [len    |-> st.len - moved,
     wrote  |-> st.wrote + moved,
     said   |-> st.said + whole,
     buffer |-> [i \in 0..(total - 1) |->
                    IF i >= st.wrote /\ i < st.wrote + shown THEN st.said + (i - st.wrote) + 1
                    ELSE IF ends /\ i = st.wrote + shown THEN Nul
                    ELSE st.buffer[i]],
     stray  |-> \/ st.stray
                \/ shown > 0 /\ st.wrote + shown > total
                \/ ends /\ st.wrote + shown >= total]

Text_Full(st, n) ==
    IF st.len > 0 THEN Put(st, Least(n, st.len), TRUE, n, n) ELSE [st EXCEPT !.said = @ + n]

\* vsnprintf writes what fits and returns the length of everything.
Text(st, n) ==
    IF st.len > 0 THEN Put(st, Least(n, st.len - 1), TRUE, n, n) ELSE [st EXCEPT !.said = @ + n]

\* Without room len - 1 is taken for an unsigned number, and everything fits.
Binary(st, n) ==
    LET shown == IF st.len > 0 THEN Least(n, st.len - 1) ELSE n
    IN Put(st, shown, st.len # 0, shown, n)

\* Two digits a byte: the last byte may fill all that is left.
Hex(st, n) ==
    LET shown == IF st.len > 0 THEN 2 * Least(n, st.len \div 2) ELSE 2 * n
    IN Put(st, shown, st.len # 0, shown, 2 * n)

\* Name, binary if there is room, end of line.
Label(st, name, n) ==
    LET named == Text(st, name)
    IN Text(IF named.len > 0 THEN Binary(named, n) ELSE named, 1)

LabelHex(st, name, n) ==
    LET named == Text(st, name)
    IN Text(IF named.len > 0 THEN Hex(named, n) ELSE named, 1)

-----------------------------------------------------------------------------
(* Texts: series of units.  A unit is a call, always or only when the field *)
(* is there; "while" stands before the body of a loop that ends when there  *)
(* is no room.                                                              *)

Always(call)    == <<[call |-> call, may |-> FALSE, body |-> 0]>>
May(call)       == <<[call |-> call, may |-> TRUE, body |-> 0]>>
Loop(body)      == <<[call |-> "while", may |-> FALSE, body |-> Len(body)]>> \o body
Repeat(n, text) == FlattenSeq([i \in 1..n |-> text])

PairsText(n) == Repeat(n, Always("label") \o May("label"))

LinkText == Repeat(3, May("label"))

ObjectText(n) ==
    Always("label") \o Repeat(2, May("label")) \o Always("label") \o May("label") \o
    Repeat(2, May("text")) \o Repeat(2, May("label")) \o May("text") \o May("label") \o
    Repeat(n, LinkText) \o Always("text") \o PairsText(n) \o Always("text") \o PairsText(n)

GetText(n) == Always("hex") \o Repeat(2, Always("text")) \o Repeat(n, Loop(ObjectText(n)))

PutText(n) == Repeat(2, May("hex")) \o Always("text") \o Repeat(n, Loop(ObjectText(n)))

SearchText(n) ==
    Repeat(5, Always("text")) \o Repeat(n, Loop(Repeat(2, Always("text")) \o PairsText(n)))

IndexText(n) ==
    Always("text") \o Repeat(n, Loop(Always("label"))) \o Always("text") \o PairsText(n) \o
    Always("text") \o Always("label") \o Repeat(2, Always("text"))

MapreduceText(n) ==
    Always("text") \o
    Repeat(n, Loop(Always("text") \o May("text") \o May("label") \o May("text")))

\* The keys go out as they are, with no look at the room.
ListkeysText(n) ==
    Always("text") \o Repeat(n, Loop(Always("text") \o Always("raw") \o Always("text"))) \o
    Always("text")

ListbucketsText(n) ==
    Always("text") \o Repeat(n, Loop(Always("text") \o Always("raw") \o Always("text"))) \o
    Always("text")

ServerinfoText == Repeat(2, May("label"))
ClientidText   == Always("hex")

GetOptionsText == Repeat(4, May("text")) \o May("label") \o Repeat(5, May("text"))
PutOptionsText == May("label") \o Repeat(11, May("text"))
DeleteOptionsText == May("label") \o Repeat(6, May("text"))

FunText == Always("text") \o Repeat(2, Always("label"))
HooksText(n) == Repeat(n, Always("text") \o May("label") \o FunText)

PropsText(n) ==
    Repeat(3, May("text")) \o Repeat(2, May("text") \o HooksText(n)) \o
    Repeat(12, May("text")) \o May("label") \o Repeat(2, May("text")) \o May("label") \o
    Repeat(2, FunText)

\* What is printed of two binaries, or two numbers, that differ.
DifferText(kind) ==
    CASE kind = "binary" -> Always("text") \o Always("raw") \o Always("text") \o
                            Always("raw") \o Always("text")
      [] kind = "number" -> Always("text")

Printed(n) ==
    {GetText(n), PutText(n), SearchText(n), IndexText(n), MapreduceText(n), ListkeysText(n),
     ListbucketsText(n), ServerinfoText, ClientidText, GetOptionsText, PutOptionsText,
     DeleteOptionsText, PropsText(n)}

-----------------------------------------------------------------------------
(* Comparing two objects: the first check that is not "same" decides.  A   *)
(* binary that is not there is followed.                                   *)

Binaries(a, b) == IF Null \in {a, b} THEN "crashed" ELSE IF a = b THEN "same" ELSE "binary"
Numbers(a, b) == IF a = b THEN "same" ELSE "number"
If(condition, check) == IF condition THEN check ELSE "same"
Has(a) == a # Null

\* A binary and its flag, the binary looked at whatever the flag says.
Flagged(a, b) == <<Numbers(Has(a), Has(b)), Binaries(a, b)>>

OwnChecks(o, p) ==
    <<Binaries(o.bucket, p.bucket), Binaries(o.key, p.key), Binaries(o.value, p.value)>> \o
    Flagged(o.charset, p.charset) \o Flagged(o.content_type, p.content_type) \o
    Flagged(o.content_encoding, p.content_encoding) \o
    <<If(Has(o.vtag) /\ Has(p.vtag), Binaries(o.vtag, p.vtag)),
      If(Has(o.last_mod) /\ Has(p.last_mod), Numbers(o.last_mod, p.last_mod)),
      If(Has(o.last_mod_usecs) /\ Has(p.last_mod_usecs),
         Numbers(o.last_mod_usecs, p.last_mod_usecs)),
      Numbers(o.deleted, p.deleted),
      Numbers(Len(o.indexes), Len(p.indexes)),
      Numbers(Len(o.links), Len(p.links)),
      Numbers(Len(o.usermeta), Len(p.usermeta))>>

PairChecks(a, b) ==
    <<Numbers(Has(a.value), Has(b.value)), Binaries(a.key, b.key),
      If(Has(a.value), Binaries(a.value, b.value))>>

LinkChecks_NoTag(a, b) ==
    <<Numbers(Has(a.bucket), Has(b.bucket)), Numbers(Has(a.key), Has(b.key)),
      Numbers(Has(a.tag), Has(b.tag)),
      If(Has(a.bucket), Binaries(a.bucket, b.bucket)), If(Has(a.key), Binaries(a.key, b.key))>>

LinkChecks(a, b) ==
    <<Numbers(Has(a.bucket), Has(b.bucket)), Numbers(Has(a.key), Has(b.key)),
      Numbers(Has(a.tag), Has(b.tag)),
      If(Has(a.bucket), Binaries(a.bucket, b.bucket)), If(Has(a.key), Binaries(a.key, b.key)),
      If(Has(a.tag), Binaries(a.tag, b.tag))>>

ListChecks(o, p) ==
    FlattenSeq([i \in DOMAIN o.indexes |-> PairChecks(o.indexes[i], p.indexes[i])]) \o
    FlattenSeq([i \in DOMAIN o.links |-> LinkChecks(o.links[i], p.links[i])]) \o
    FlattenSeq([i \in DOMAIN o.usermeta |-> PairChecks(o.usermeta[i], p.usermeta[i])])

Decided(checks) == LET telling == {i \in DOMAIN checks : checks[i] # "same"}
                   IN IF telling = {} THEN "same" ELSE checks[Min(telling)]

Verdict(o, p) == IF Decided(OwnChecks(o, p)) # "same" THEN Decided(OwnChecks(o, p))
                 ELSE Decided(ListChecks(o, p))

-----------------------------------------------------------------------------
(* Names. *)

StrlCpy_Longer(memory, at, name, n, size) ==
    [i \in DOMAIN memory |-> IF i \in at..(at + Least(n, size + 1) - 1) THEN <<name, i - at + 1>>
                             ELSE IF i = at + Least(n, size + 1) THEN <<"nul", 0>>
                             ELSE memory[i]]

\* A name of n characters copied to an array of a size: the NUL comes behind
\* what fits, behind the array when the name fills it.
StrlCpy(memory, at, name, n, size) ==
    [i \in DOMAIN memory |-> IF i \in at..(at + Least(n, size) - 1) THEN <<name, i - at + 1>>
                             ELSE IF i = at + Least(n, size) THEN <<"nul", 0>>
                             ELSE memory[i]]

\* Host name and port number, one array behind the other, then a pointer that
\* is set later.
Cleared == [i \in 0..(2 * NameSize) |-> <<"nul", 0>>]

StoreNames(host, port) ==
    StrlCpy(StrlCpy(Cleared, 0, "host", host, NameSize), NameSize, "port", port, NameSize)

-----------------------------------------------------------------------------
NoObjects == [objects |-> <<>>, verdict |-> "none"]
NoNames   == [host |-> 0, port |-> 0, memory |-> Cleared]

\* riak_print_init leaves room for a NUL.
Init ==
    /\ total \in Totals
    /\ state = [len |-> total - 1, wrote |-> 0, said |-> 0,
                buffer |-> [i \in 0..(total - 1) |-> Untouched], stray |-> FALSE]
    /\ bare = FALSE /\ todo = <<>> /\ prints = 0 /\ compared = NoObjects
    /\ names = NoNames

\* One more text goes into the buffer, behind what is there.
Begin ==
    /\ todo = <<>> /\ prints < MaxPrints
    /\ \E n \in 0..MaxElements : todo' \in Printed(n)
    /\ prints' = prints + 1 /\ compared' = NoObjects /\ names' = NoNames
    /\ UNCHANGED <<total, state, bare>>

Compare ==
    /\ todo = <<>> /\ prints < MaxPrints
    /\ \E pair \in Pairs :
          LET verdict == Verdict(pair[1], pair[2])
          IN /\ compared' = [objects |-> pair, verdict |-> verdict]
             /\ todo' = IF verdict \in {"binary", "number"} THEN DifferText(verdict) ELSE <<>>
    /\ prints' = prints + 1 /\ names' = NoNames
    /\ UNCHANGED <<total, state, bare>>

\* A connection is made; nothing of it is printed.
Connect ==
    /\ todo = <<>>
    /\ \E host, port \in 0..(NameSize + 1) :
          names' = [host |-> host, port |-> port, memory |-> StoreNames(host, port)]
    /\ compared' = NoObjects
    /\ UNCHANGED <<total, state, bare, todo, prints>>

MovesOn == todo' = Tail(todo)

Unit(call) == todo # <<>> /\ ~state.stray /\ todo[1].call = call

Absent ==
    /\ todo # <<>> /\ ~state.stray /\ todo[1].may
    /\ todo' = Tail(todo)
    /\ UNCHANGED <<total, state, bare, prints, compared, names>>

PrintText ==
    /\ Unit("text")
    /\ \E n \in Texts : state' = Text(state, n)
    /\ MovesOn /\ UNCHANGED <<total, bare, prints, compared, names>>

PrintRaw ==
    /\ Unit("raw")
    /\ \E n \in Sizes : state' = Binary(state, n)
    /\ bare' = (bare \/ state.len <= 0)
    /\ MovesOn /\ UNCHANGED <<total, prints, compared, names>>

PrintLabel ==
    /\ Unit("label")
    /\ \E name \in Texts, n \in Sizes : state' = Label(state, name, n)
    /\ MovesOn /\ UNCHANGED <<total, bare, prints, compared, names>>

PrintHex ==
    /\ Unit("hex")
    /\ \E name \in Texts, n \in Sizes : state' = LabelHex(state, name, n)
    /\ MovesOn /\ UNCHANGED <<total, bare, prints, compared, names>>

While ==
    /\ Unit("while")
    /\ todo' = IF state.len > 0 THEN Tail(todo) ELSE SubSeq(todo, todo[1].body + 2, Len(todo))
    /\ UNCHANGED <<total, state, bare, prints, compared, names>>

Stopped == (state.stray \/ (todo = <<>> /\ prints = MaxPrints)) /\ UNCHANGED vars

Next == \/ Begin \/ Compare \/ Connect
        \/ Absent \/ PrintText \/ PrintRaw \/ PrintLabel \/ PrintHex \/ While
        \/ Stopped
Spec == Init /\ [][Next]_vars

-----------------------------------------------------------------------------
(* Properties. *)

\* Every variable has its type, and the state's own account of the buffer is
\* right: used and left make up the buffer but for the NUL.
TypeOK ==
    /\ total \in Totals /\ prints \in 0..MaxPrints /\ bare \in BOOLEAN
    /\ state.wrote \in Nat /\ state.said \in Nat /\ state.stray \in BOOLEAN
    /\ state.len = total - 1 - state.wrote
    /\ DOMAIN state.buffer = 0..(total - 1)
    /\ \A i \in DOMAIN todo : todo[i].call \in {"text", "raw", "label", "hex", "while"}
    /\ compared.verdict \in {"none", "same", "binary", "number", "crashed"}

\* The first k characters, and a NUL behind them.
Shows(st, k) == st.buffer[k] = Nul /\ \A i \in 0..(k - 1) : st.buffer[i] = i + 1

\* However little room there is, the buffer holds the beginning of what was to
\* be printed, with a NUL behind it, and nothing is written outside of it: as
\* long as no binary is printed as it is when there is no room left.
Shown ==
    ~bare => /\ ~state.stray
             /\ total > 1 /\ state.said > 0 => \E k \in 0..(total - 1) : Shows(state, k)

\* Fields that are compared only if both objects have them.
IfBoth == {"vtag", "last_mod", "last_mod_usecs"}

\* riak_object_compare says that two objects are equal exactly if nothing a put
\* would send of one but the bucket type is missing or different in the other,
\* times and tags of the server aside.  It is led astray only by objects one of
\* which has no key, or that both lack a binary.
CompareTells ==
    compared.verdict # "none" =>
        LET o == compared.objects[1]
            p == compared.objects[2]
            Agree(f) == o[f] = p[f] \/ (f \in IfBoth /\ Null \in {o[f], p[f]})
        IN IF compared.verdict = "crashed"
           THEN o.key = Null \/ p.key = Null \/
                \E f \in {"charset", "content_type", "content_encoding"} : o[f] = Null /\ p[f] = Null
           ELSE (compared.verdict = "same") <=> \A f \in DOMAIN o \ {"bucket_type"} : Agree(f)

\* The string that starts somewhere in the connection is the name.
Reads(at, name, n) ==
    /\ \A i \in 1..n : names.memory[at + i - 1] = <<name, i>>
    /\ names.memory[at + n] = <<"nul", 0>>

\* A connection keeps a name that leaves room for its NUL whole, however long
\* the other is; and no copy reaches further than one character past its array.
NamesWhole ==
    /\ names.host < NameSize => Reads(0, "host", names.host)
    /\ names.port < NameSize => Reads(NameSize, "port", names.port)
    /\ names.memory[2 * NameSize] = <<"nul", 0>>
=============================================================================
