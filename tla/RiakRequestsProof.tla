------------------------- MODULE RiakRequestsProof -------------------------
(***************************************************************************)
(* Proofs about what a user sets and what goes to the server, for any      *)
(* calls, any values, any number of setters and any length of lists.  The  *)
(* tables of fields are gone through once, for what the properties need of *)
(* them (FieldFacts, ElementFacts); the invariant then speaks of one slot  *)
(* at a time (SlotKept): how what was asked for stands to the flag and the *)
(* value, whatever failed.                                                 *)
(***************************************************************************)
EXTENDS RiakRequests, TLAPS

\* The manner of a slot of call c.
MannerOf(c, s) == IF s[2] = 0 THEN SettersOf(c)[s[1]] ELSE ListsOf(c)[s[1]][s[3]]

\* A field can be read back and is freed; those without a flag are copies, those
\* that may be asked for in vain functions.
FieldFact(c, f) ==
    LET m == SettersOf(c)[f]
    IN  /\ f \in GettersOf(c)
        /\ f \in {"bucket", "value"} => c = "object" /\ m = "copy"
        /\ m = "fun" => c = "set_bucketprops" /\ f \in Functions
        /\ m # "scalar" /\ f \notin FreedOf(c) => c = "put" /\ f = "vclock"
        /\ c = "object" /\ f \in {"bucket", "bucket_type", "key"} => m = "copy"

\* The tables, call by call.
LEMMA FieldFacts == \A c : \A f \in DOMAIN SettersOf(c) : FieldFact(c, f)
<1> SUFFICES ASSUME NEW c, NEW f \in DOMAIN SettersOf(c) PROVE FieldFact(c, f)
  OBVIOUS
<1> USE DEF FieldFact, SettersOf, GettersOf, FreedOf, Manners
<1>1. CASE c = "get"
  BY <1>1 DEF GetSetters, GetGetters, GetFreed
<1>2. CASE c = "put"
  BY <1>2 DEF PutSetters, PutGetters, PutFreed
<1>3. CASE c = "delete"
  BY <1>3 DEF DeleteSetters, DeleteGetters, DeleteFreed
<1>4. CASE c = "search"
  BY <1>4 DEF SearchSetters, SearchGetters, SearchFreed
<1>5. CASE c = "index"
  BY <1>5 DEF IndexSetters, IndexGetters, IndexFreed
<1>6. CASE c = "object"
  BY <1>6 DEF ObjectSetters, ObjectGetters, ListGetters, ObjectFreed
<1>7. CASE c = "set_bucketprops"
  BY <1>7 DEF PropsSetters, PropsScalars, Texts, Functions, PropsGetters, PropsFreed
<1>8. CASE c \notin {"get", "put", "delete", "search", "index", "object", "set_bucketprops"}
  BY <1>8
<1>9. QED  BY <1>1, <1>2, <1>3, <1>4, <1>5, <1>6, <1>7, <1>8

\* Of the lists: those of an object are its own, names to return a search's.
ElementFact(c, l, p) ==
    /\ c \in {"object", "set_bucketprops", "search"}
    /\ l \in GettersOf(c) /\ l \in FreedOf(c)
    /\ ListsOf(c)[l][p] # "fun"
    /\ l \in {"usermeta", "indexes"} => c = "object" /\ ListsOf(c)[l][p] = "copy"
    /\ c = "object" => ListsOf(c)[l][p] # "scalar"

LEMMA ElementFacts ==
    \A c : \A l \in DOMAIN ListsOf(c) : \A p \in DOMAIN ListsOf(c)[l] : ElementFact(c, l, p)
<1> SUFFICES ASSUME NEW c, NEW l \in DOMAIN ListsOf(c), NEW p \in DOMAIN ListsOf(c)[l]
             PROVE  ElementFact(c, l, p)
  OBVIOUS
<1> USE DEF ElementFact, ListsOf, GettersOf, FreedOf
<1>1. CASE c = "object"
  BY <1>1 DEF LinkSetters, PairSetters, Manners, ObjectGetters, ListGetters, ObjectFreed
<1>2. CASE c = "set_bucketprops"
  BY <1>2 DEF HookSetters, PropsGetters, PropsFreed
<1>3. CASE c = "search"
  BY <1>3 DEF SearchGetters, SearchFreed
<1>4. CASE c \notin {"object", "set_bucketprops", "search"}
  BY <1>4
<1>5. QED  BY <1>1, <1>2, <1>3, <1>4

\* A slot is a field or a part of an element of a list.
LEMMA SlotForm ==
    ASSUME NEW c, NEW s \in Slots(c)
    PROVE  \/ \E f \in DOMAIN SettersOf(c) : s = <<f, 0, "itself">>
           \/ \E l \in DOMAIN ListsOf(c), i \in 1..MaxItems :
                 \E p \in DOMAIN ListsOf(c)[l] : s = <<l, i, p>>
  BY DEF Slots, Field, Element

\* Both are slots.
LEMMA FieldIsSlot == ASSUME NEW c, NEW f \in DOMAIN SettersOf(c) PROVE Field(f) \in Slots(c)
  BY DEF Slots

LEMMA PartIsSlot ==
    ASSUME NEW c, NEW l \in DOMAIN ListsOf(c), NEW i \in 1..MaxItems, NEW p \in DOMAIN ListsOf(c)[l]
    PROVE  <<l, i, p>> \in Slots(c)
<1>1. <<l, i, p>> \in Element(l, i, ListsOf(c)[l])
  BY DEF Element
<1>2. Element(l, i, ListsOf(c)[l]) \in {Element(k, n, ListsOf(c)[k]) : k \in DOMAIN ListsOf(c), n \in 1..MaxItems}
  OBVIOUS
<1>3. QED  BY <1>1, <1>2 DEF Slots

\* What the tables say of a slot.
SlotFact(c, s) ==
    LET m == MannerOf(c, s)
    IN  /\ s[1] \in GettersOf(c)
        /\ Required(s) => c = "object" /\ m = "copy"
        /\ m = "fun" => c = "set_bucketprops" /\ s[1] \in Functions
        /\ m # "scalar" /\ s[1] \notin FreedOf(c) => c = "put" /\ s = Field("vclock")
        /\ c = "object" /\ s[2] = 0 /\ s[1] \in {"bucket", "bucket_type", "key"} => m = "copy"

LEMMA SlotFacts == \A c : \A s \in Slots(c) : SlotFact(c, s)
<1> SUFFICES ASSUME NEW c, NEW s \in Slots(c) PROVE SlotFact(c, s)
  OBVIOUS
<1>1. ASSUME NEW f \in DOMAIN SettersOf(c), s = <<f, 0, "itself">>
      PROVE  SlotFact(c, s)
  <2>1. s[1] = f /\ s[2] = 0 /\ s[3] = "itself" /\ MannerOf(c, s) = SettersOf(c)[f]
    BY <1>1 DEF MannerOf
  <2>2. FieldFact(c, f)
    BY FieldFacts
  <2>3. Required(s) <=> f \in {"bucket", "value"}
    BY <1>1, <2>1 DEF Required, Field
  <2>4. QED  BY <1>1, <2>1, <2>2, <2>3 DEF SlotFact, FieldFact, Field
<1>2. ASSUME NEW l \in DOMAIN ListsOf(c), NEW i \in 1..MaxItems,
             NEW p \in DOMAIN ListsOf(c)[l], s = <<l, i, p>>
      PROVE  SlotFact(c, s)
  <2>1. s[1] = l /\ s[2] = i /\ i # 0 /\ s[3] = p /\ MannerOf(c, s) = ListsOf(c)[l][p]
    BY <1>2 DEF MannerOf
  <2>2. ElementFact(c, l, p)
    BY ElementFacts
  <2>3. Required(s) => l \in {"usermeta", "indexes"}
    BY <1>2, <2>1 DEF Required, Field
  <2>4. QED  BY <2>1, <2>2, <2>3 DEF SlotFact, ElementFact
<1>3. QED  BY <1>1, <1>2, SlotForm

\* Without setters there are no lists, and nothing to be set.
LEMMA NothingToSet ==
    ASSUME NEW c, DOMAIN SettersOf(c) = {}
    PROVE  DOMAIN ListsOf(c) = {} /\ Slots(c) = {} /\ c \notin OptionCalls
<1>1. c \notin {"get", "put", "delete", "search", "index", "object", "set_bucketprops"}
  BY DEF SettersOf, GetSetters, PutSetters, DeleteSetters, SearchSetters, IndexSetters,
         ObjectSetters, PropsSetters, PropsScalars, Texts, Functions, Manners
<1>2. DOMAIN ListsOf(c) = {}
  BY <1>1 DEF ListsOf
<1>3. QED  BY <1>1, <1>2, SlotForm DEF OptionCalls

-----------------------------------------------------------------------------
(* The invariant. *)

\* More than TypeOK: a list has room for its elements, an operation has its three
\* parts, and what is not made by the user's options is always there.
Shape ==
    /\ TypeOK
    /\ items \in [DOMAIN ListsOf(call) -> 0..MaxItems]
    /\ room \in [DOMAIN ListsOf(call) -> Nat]
    /\ pc # "stray" => \A l \in DOMAIN items : items[l] <= room[l]
    /\ call \notin OptionCalls => given
    /\ rop = [callback |-> rop.callback, decoder |-> rop.decoder, request |-> rop.request]

\* What was asked for, the flag and the value of one slot.
SlotKept(s) ==
    /\ asked[s] = Unset => value[s] = Null /\ (has[s] => Required(s))
    /\ asked[s] = Unknown => failed \/ call = "set_bucketprops"
    /\ asked[s] \notin {Unset, Unknown} =>
         \/ has[s] /\ value[s] = asked[s]
         \/ /\ failed /\ value[s] = Null /\ Manner(s) # "scalar"
            /\ has[s] \/ Manner(s) = "fun"
    /\ ~given => asked[s] = Unset

Kept == \A s \in Slots(call) : SlotKept(s)

\* A request that is there before the call has been encoded is another's.
Ready ==
    /\ api = "sync" => rop.callback = None
    /\ (pc = "setting" /\ rop.request # NoRequest) => again

\* What is left behind without failures and repetitions.
Left ==
    (~failed /\ ~again) =>
        lost \subseteq (IF call = "set_bucketprops" THEN {Field("pb")} ELSE {})
                       \cup (IF pc = "freed" /\ call = "put" THEN {Field("vclock")} ELSE {})

Marks == {Absent, Null, Unset, Unknown, Zero, Server, Default}

\* A user sets no marks.
LEMMA ValuesAreNone == Values \cap Marks = {} /\ MaxItems \in Nat \ {0} /\ MaxSets \in Nat
  BY RequestsAssumption DEF Marks, Absent, Null, Unset, Unknown, Zero, Server, Default

\* The slots in use are slots.
LEMMA LiveSlots == ASSUME Shape PROVE Live \subseteq Slots(call) /\ DOMAIN has = Slots(call)
  BY DEF Shape, TypeOK, Live

-----------------------------------------------------------------------------
(* What a setter may do. *)

\* A function stays one of its kind when a value is replaced.
LEMMA ExceptTyped ==
    ASSUME NEW S, NEW T, NEW g \in [S -> T], NEW x, NEW b \in T
    PROVE  [g EXCEPT ![x] = b] \in [S -> T]
  OBVIOUS

\* It names a slot of the call, and keeps flags, values and wishes of the others.
LEMMA SetSlot ==
    ASSUME Shape, NEW x \in Live, NEW v \in Values, Set(x, v)
    PROVE  \E copied \in BOOLEAN :
             /\ x \in Slots(call) /\ copied \in Copied(Manner(x))
             /\ has' \in [Slots(call) -> BOOLEAN]
             /\ value' \in [Slots(call) -> Pointers]
             /\ asked' \in [Slots(call) -> {Unset, Unknown, Server, Default} \cup Values]
             /\ \A s \in Slots(call) \ {x} :
                   has'[s] = has[s] /\ value'[s] = value[s] /\ asked'[s] = asked[s]
             /\ has'[x] = Raised(Manner(x), has[x], copied)
             /\ value'[x] = IF copied THEN v ELSE Null
             /\ asked'[x] = IF Told(Manner(x), copied) THEN Unknown ELSE v
             /\ failed' = (failed \/ ~copied)
<1>1. x \in Slots(call)
  BY LiveSlots
<1>2. PICK copied \in Copied(Manner(x)) :
        /\ value' = [value EXCEPT ![x] = IF copied THEN v ELSE Null]
        /\ has'   = [has EXCEPT ![x] = Raised(Manner(x), has[x], copied)]
        /\ asked' = [asked EXCEPT ![x] = IF Told(Manner(x), copied) THEN Unknown ELSE v]
        /\ failed' = (failed \/ ~copied)
  BY DEF Set
<1>3. copied \in BOOLEAN
  BY DEF Copied
<1>4. /\ has \in [Slots(call) -> BOOLEAN] /\ value \in [Slots(call) -> Pointers]
      /\ asked \in [Slots(call) -> {Unset, Unknown, Server, Default} \cup Values]
  BY DEF Shape, TypeOK
<1>5. Raised(Manner(x), has[x], copied) \in BOOLEAN
  BY <1>1, <1>3, <1>4 DEF Raised
<1>6. has' \in [Slots(call) -> BOOLEAN]
  BY <1>1, <1>2, <1>4, <1>5
<1>7. value' \in [Slots(call) -> Pointers]
  BY <1>1, <1>2, <1>4 DEF Pointers
<1>8. asked' \in [Slots(call) -> {Unset, Unknown, Server, Default} \cup Values]
  BY <1>1, <1>2, <1>4
<1>9. QED  BY <1>1, <1>2, <1>3, <1>4, <1>6, <1>7, <1>8

\* A new element has what it is made with, and no other slot changes.
LEMMA AddSlot ==
    ASSUME Shape, NEW l \in DOMAIN items, Add(l)
    PROVE  /\ has' \in [Slots(call) -> BOOLEAN] /\ value' \in [Slots(call) -> Pointers]
           /\ asked' \in [Slots(call) -> {Unset, Unknown, Server, Default} \cup Values]
           /\ \A s \in Slots(call) :
                 \/ has'[s] = has[s] /\ value'[s] = value[s] /\ asked'[s] = asked[s]
                 \/ has'[s] /\ value'[s] \in Values /\ asked'[s] = value'[s]
<1>1. /\ has \in [Slots(call) -> BOOLEAN] /\ value \in [Slots(call) -> Pointers]
      /\ asked \in [Slots(call) -> {Unset, Unknown, Server, Default} \cup Values]
  BY DEF Shape, TypeOK
<1>2. CASE UNCHANGED <<has, value, asked>>
  BY <1>1, <1>2
<1>3. CASE \E name : \E v \in Values :
             /\ has' = [has EXCEPT ![name] = TRUE]
             /\ value' = [value EXCEPT ![name] = v]
             /\ asked' = [asked EXCEPT ![name] = v]
  <2>0. PICK name : \E v \in Values :
             /\ has' = [has EXCEPT ![name] = TRUE]
             /\ value' = [value EXCEPT ![name] = v]
             /\ asked' = [asked EXCEPT ![name] = v]
    BY <1>3
  <2>1. PICK v \in Values :
             /\ has' = [has EXCEPT ![name] = TRUE]
             /\ value' = [value EXCEPT ![name] = v]
             /\ asked' = [asked EXCEPT ![name] = v]
    BY <2>0
  <2>2. has' \in [Slots(call) -> BOOLEAN]
    <3>1. TRUE \in BOOLEAN
      OBVIOUS
    <3>2. [has EXCEPT ![name] = TRUE] \in [Slots(call) -> BOOLEAN]
      BY <1>1, <3>1, ExceptTyped
    <3>3. QED  BY <2>1, <3>2
  <2>3. value' \in [Slots(call) -> Pointers]
    BY <1>1, <2>1 DEF Pointers
  <2>4. asked' \in [Slots(call) -> {Unset, Unknown, Server, Default} \cup Values]
    BY <1>1, <2>1
  <2>5. ASSUME NEW s \in Slots(call)
        PROVE  \/ has'[s] = has[s] /\ value'[s] = value[s] /\ asked'[s] = asked[s]
               \/ has'[s] /\ value'[s] \in Values /\ asked'[s] = value'[s]
    <3>1. CASE s = name
      BY <1>1, <2>1, <3>1
    <3>2. CASE s # name
      BY <1>1, <2>1, <3>2
    <3>3. QED  BY <3>1, <3>2
  <2>6. QED  BY <2>2, <2>3, <2>4, <2>5
<1>4. QED  BY <1>2, <1>3 DEF Add

-----------------------------------------------------------------------------
(* A call begins. *)

\* Every slot has a flag, a value and a wish.
LEMMA NothingTyped ==
    ASSUME NEW S, NEW T, S = {}
    PROVE  <<>> \in [S -> T]
  OBVIOUS

\* Nothing is set in new options and objects.
LEMMA BlankKept ==
    ASSUME call \in Calls, Blank(call)
    PROVE  /\ has \in [Slots(call) -> BOOLEAN] /\ value \in [Slots(call) -> Pointers]
           /\ asked \in [Slots(call) -> {Unset, Unknown, Server, Default} \cup Values]
           /\ items \in [DOMAIN ListsOf(call) -> 0..MaxItems]
           /\ room \in [DOMAIN ListsOf(call) -> Nat]
           /\ \A l \in DOMAIN items : items[l] <= room[l]
           /\ Kept
<1>1. has \in [Slots(call) -> BOOLEAN]
  <2>1. \A s \in Slots(call) : Required(s) \in BOOLEAN
    BY DEF Required
  <2>2. QED  BY <2>1 DEF Blank
<1>2. value \in [Slots(call) -> Pointers]
  BY DEF Blank, Pointers
<1>3. asked \in [Slots(call) -> {Unset, Unknown, Server, Default} \cup Values]
  BY DEF Blank
<1>4. /\ items \in [DOMAIN ListsOf(call) -> 0..MaxItems]
      /\ room \in [DOMAIN ListsOf(call) -> Nat]
      /\ \A l \in DOMAIN items : items[l] <= room[l]
  BY ValuesAreNone DEF Blank
<1>5. ASSUME NEW s \in Slots(call) PROVE SlotKept(s)
  <2>1. asked[s] = Unset /\ value[s] = Null /\ (has[s] <=> Required(s))
    BY DEF Blank
  <2>2. QED  BY <2>1 DEF SlotKept, Unset, Unknown
<1>6. QED  BY <1>1, <1>2, <1>3, <1>4, <1>5 DEF Kept

\* A query for an index streams, unless the user turns it off.
LEMMA StreamingKept ==
    ASSUME call = "index", given, Streaming(call)
    PROVE  /\ has \in [Slots(call) -> BOOLEAN] /\ value \in [Slots(call) -> Pointers]
           /\ asked \in [Slots(call) -> {Unset, Unknown, Server, Default} \cup Values]
           /\ items \in [DOMAIN ListsOf(call) -> 0..MaxItems]
           /\ room \in [DOMAIN ListsOf(call) -> Nat]
           /\ \A l \in DOMAIN items : items[l] <= room[l]
           /\ Kept
<1>1. DOMAIN ListsOf(call) = {}
  BY DEF ListsOf
<1>2. /\ items = <<>> /\ room = <<>>
      /\ has = [s \in Slots(call) |-> s = Field("stream")]
      /\ value = [s \in Slots(call) |-> IF has[s] THEN Default ELSE Null]
      /\ asked = [s \in Slots(call) |-> IF has[s] THEN Default ELSE Unset]
  BY DEF Streaming
<1>3. /\ items \in [DOMAIN ListsOf(call) -> 0..MaxItems]
      /\ room \in [DOMAIN ListsOf(call) -> Nat]
      /\ \A l \in DOMAIN items : items[l] <= room[l]
  <2>1. DOMAIN items = {}
    BY <1>2
  <2>2. QED  BY <1>1, <1>2, <2>1, NothingTyped
<1>4. has \in [Slots(call) -> BOOLEAN]
  BY <1>2
<1>5. /\ value \in [Slots(call) -> Pointers]
      /\ asked \in [Slots(call) -> {Unset, Unknown, Server, Default} \cup Values]
  BY <1>2 DEF Pointers
<1>6. ASSUME NEW s \in Slots(call) PROVE SlotKept(s)
  <2>1. CASE has[s]
    BY <1>2, <2>1 DEF SlotKept, Unset, Unknown, Default
  <2>2. CASE ~has[s]
    BY <1>2, <2>2 DEF SlotKept, Unset, Unknown, Default
  <2>3. QED  BY <2>1, <2>2
<1>7. QED  BY <1>3, <1>4, <1>5, <1>6 DEF Kept

\* A fetched object has what the server sent, but for copies that failed.
LEMMA FetchedKept ==
    ASSUME Fetched(call), given
    PROVE  /\ has \in [Slots(call) -> BOOLEAN] /\ value \in [Slots(call) -> Pointers]
           /\ asked \in [Slots(call) -> {Unset, Unknown, Server, Default} \cup Values]
           /\ items \in [DOMAIN ListsOf(call) -> 0..MaxItems]
           /\ room \in [DOMAIN ListsOf(call) -> Nat]
           /\ \A l \in DOMAIN items : items[l] <= room[l]
           /\ failed \in BOOLEAN
           /\ Kept
<1>1. PICK whole \in BOOLEAN, lacking \in SUBSET {"bucket", "bucket_type", "key"} :
        /\ has = [s \in Slots(call) |-> Required(s) \/ (s[2] <= 1 /\ (whole \/ s = Field("key")))]
        /\ asked = [s \in Slots(call) |-> IF has[s] /\ s[2] <= 1 THEN Server ELSE Unset]
        /\ value = [s \in Slots(call) |-> IF asked[s] = Unset \/ (s[2] = 0 /\ s[1] \in lacking)
                                          THEN Null ELSE Server]
        /\ failed = (lacking # {})
  <2>1. (IF CanFail THEN {"bucket", "bucket_type", "key"} ELSE {}) \subseteq {"bucket", "bucket_type", "key"}
    OBVIOUS
  <2>2. QED  BY <2>1 DEF Fetched
<1>2. call = "object"
  BY DEF Fetched
<1>3. has \in [Slots(call) -> BOOLEAN]
  <2>1. \A s \in Slots(call) : (Required(s) \/ (s[2] <= 1 /\ (whole \/ s = Field("key")))) \in BOOLEAN
    OBVIOUS
  <2>2. QED  BY <1>1, <2>1
<1>4. /\ value \in [Slots(call) -> Pointers]
      /\ asked \in [Slots(call) -> {Unset, Unknown, Server, Default} \cup Values]
  BY <1>1 DEF Pointers
<1>5. /\ items \in [DOMAIN ListsOf(call) -> 0..MaxItems]
      /\ room \in [DOMAIN ListsOf(call) -> Nat]
      /\ \A l \in DOMAIN items : items[l] <= room[l]
  BY ValuesAreNone DEF Fetched
<1>6. ASSUME NEW s \in Slots(call) PROVE SlotKept(s)
  <2>1. asked[s] = (IF has[s] /\ s[2] <= 1 THEN Server ELSE Unset)
    BY <1>1
  <2>2. value[s] = (IF asked[s] = Unset \/ (s[2] = 0 /\ s[1] \in lacking) THEN Null ELSE Server)
    BY <1>1
  <2>3. CASE has[s] /\ s[2] <= 1
    <3>1. asked[s] = Server
      BY <2>1, <2>3
    <3>2. CASE s[2] = 0 /\ s[1] \in lacking
      <4>1. s[1] \in {"bucket", "bucket_type", "key"} /\ failed
        BY <1>1, <3>2
      <4>2. Manner(s) = MannerOf(call, s)
        BY DEF Manner, MannerOf
      <4>3. Manner(s) = "copy"
        BY <1>2, <3>2, <4>1, <4>2, SlotFacts DEF SlotFact
      <4>4. value[s] = Null
        BY <2>2, <3>2
      <4>5. QED  BY <2>3, <3>1, <4>1, <4>3, <4>4 DEF SlotKept, Unset, Unknown, Server
    <3>3. CASE ~(s[2] = 0 /\ s[1] \in lacking)
      <4>1. value[s] = Server
        BY <2>2, <3>1, <3>3 DEF Server, Unset
      <4>2. QED  BY <2>3, <3>1, <4>1 DEF SlotKept, Unset, Unknown, Server
    <3>4. QED  BY <3>2, <3>3
  <2>4. CASE ~(has[s] /\ s[2] <= 1)
    <3>1. asked[s] = Unset /\ value[s] = Null
      BY <2>1, <2>2, <2>4
    <3>2. has[s] => Required(s)
      BY <1>1, <2>4
    <3>3. QED  BY <3>1, <3>2 DEF SlotKept, Unset, Unknown
  <2>5. QED  BY <2>3, <2>4
<1>7. failed \in BOOLEAN
  BY <1>1
<1>8. QED  BY <1>3, <1>4, <1>5, <1>6, <1>7 DEF Kept

Whole == Shape /\ Kept /\ Ready /\ Left

\* A call begins as it should.
LEMMA Begins == Init => Whole
<1> SUFFICES ASSUME Init PROVE Whole
  OBVIOUS
<1>1. /\ call \in Calls /\ api \in {"sync", "async"} /\ args \in ArgsOf(call)
      /\ given \in BOOLEAN /\ (call \notin OptionCalls => given)
      /\ rop = Nobody /\ pc = "setting" /\ lost = {} /\ again = FALSE /\ sets = 0
  BY DEF Init
<1>2. /\ has \in [Slots(call) -> BOOLEAN] /\ value \in [Slots(call) -> Pointers]
      /\ asked \in [Slots(call) -> {Unset, Unknown, Server, Default} \cup Values]
      /\ items \in [DOMAIN ListsOf(call) -> 0..MaxItems]
      /\ room \in [DOMAIN ListsOf(call) -> Nat]
      /\ \A l \in DOMAIN items : items[l] <= room[l]
      /\ failed \in BOOLEAN
      /\ Kept
  <2>1. CASE failed = FALSE /\ call = "index" /\ given /\ Streaming(call)
    BY <2>1, StreamingKept
  <2>2. CASE failed = FALSE /\ Blank(call)
    BY <1>1, <2>2, BlankKept
  <2>3. CASE Fetched(call)
    <3>1. given
      BY <1>1, <2>3 DEF Fetched, OptionCalls
    <3>2. QED  BY <2>3, <3>1, FetchedKept
  <2>4. QED  BY <2>1, <2>2, <2>3 DEF Init
<1>3. /\ rop.callback = None /\ rop.decoder = None /\ rop.request = NoRequest
      /\ rop = [callback |-> rop.callback, decoder |-> rop.decoder, request |-> rop.request]
  BY <1>1 DEF Nobody
<1>4. sets \in 0..MaxSets
  BY <1>1, ValuesAreNone
<1>5. \A l \in DOMAIN items : items[l] \in 0..MaxItems
  BY <1>2
<1>6. TypeOK
  BY <1>1, <1>2, <1>3, <1>4, <1>5 DEF TypeOK
<1>7. Shape
  BY <1>1, <1>2, <1>3, <1>6 DEF Shape
<1>8. Ready /\ Left
  BY <1>1, <1>3 DEF Ready, Left
<1>9. QED  BY <1>2, <1>7, <1>8 DEF Whole

-----------------------------------------------------------------------------
(* Every step keeps the invariant. *)

\* Setters keep what is known of each slot, the one they set included.
LEMMA SetWhole == ASSUME Whole, NEW x \in Live, NEW v \in Values, Set(x, v) PROVE Whole'
<1>1. PICK copied \in BOOLEAN :
        /\ x \in Slots(call) /\ copied \in Copied(Manner(x))
        /\ has' \in [Slots(call) -> BOOLEAN]
        /\ value' \in [Slots(call) -> Pointers]
        /\ asked' \in [Slots(call) -> {Unset, Unknown, Server, Default} \cup Values]
        /\ \A s \in Slots(call) \ {x} :
              has'[s] = has[s] /\ value'[s] = value[s] /\ asked'[s] = asked[s]
        /\ has'[x] = Raised(Manner(x), has[x], copied)
        /\ value'[x] = IF copied THEN v ELSE Null
        /\ asked'[x] = IF Told(Manner(x), copied) THEN Unknown ELSE v
        /\ failed' = (failed \/ ~copied)
  BY SetSlot DEF Whole
<1>2. /\ pc = "setting" /\ given /\ sets < MaxSets /\ sets' = sets + 1
      /\ lost' = (IF value[x] = Null \/ Released(Manner(x)) THEN lost ELSE lost \cup {x})
      /\ again' = (again \/ value[x] # Null)
      /\ UNCHANGED <<call, api, given, args, items, room, rop, pc>>
  BY DEF Set
<1>3. TypeOK /\ failed' \in BOOLEAN /\ again' \in BOOLEAN /\ sets' \in 0..MaxSets
  BY <1>1, <1>2, ValuesAreNone DEF Whole, Shape, TypeOK
<1>4. TypeOK'
  BY <1>1, <1>2, <1>3 DEF TypeOK, Pointers
<1>5. Shape'
  BY <1>2, <1>4 DEF Whole, Shape
<1>6. \A s : Manner(s)' = Manner(s)
  BY <1>2 DEF Manner
<1>7. v \notin {Unset, Unknown}
  BY ValuesAreNone DEF Marks
<1>8. SlotKept(x)'
  <2>1. CASE Told(Manner(x), copied)
    <3>1. asked'[x] = Unknown /\ given'
      BY <1>1, <1>2, <2>1
    <3>2. failed' \/ call' = "set_bucketprops"
      <4>1. CASE Manner(x) = "fun"
        BY <1>1, <1>2, <4>1, SlotFacts DEF SlotFact, Manner, MannerOf
      <4>2. CASE Manner(x) # "fun"
        BY <1>1, <2>1, <4>2 DEF Told
      <4>3. QED  BY <4>1, <4>2
    <3>3. QED  BY <3>1, <3>2 DEF SlotKept, Unknown, Unset
  <2>2. CASE ~Told(Manner(x), copied)
    <3>1. asked'[x] = v /\ given'
      BY <1>1, <1>2, <2>2
    <3>2. CASE copied
      <4>1. has'[x] /\ value'[x] = v
        BY <1>1, <2>2, <3>2 DEF Raised, Told
      <4>2. QED  BY <1>7, <3>1, <4>1 DEF SlotKept
    <3>3. CASE ~copied
      <4>1. Manner(x) # "scalar" /\ failed' /\ value'[x] = Null
        BY <1>1, <3>3 DEF Copied
      <4>2. has'[x] \/ Manner(x) = "fun"
        BY <1>1, <2>2, <3>3 DEF Raised, Told
      <4>3. QED  BY <1>6, <1>7, <3>1, <4>1, <4>2 DEF SlotKept
    <3>4. QED  BY <3>2, <3>3
  <2>3. QED  BY <2>1, <2>2
<1>9. Kept'
  <2> SUFFICES ASSUME NEW s \in Slots(call) PROVE SlotKept(s)'
    BY <1>2 DEF Kept
  <2>1. CASE s = x
    BY <1>8, <2>1
  <2>2. CASE s # x
    <3>1. has'[s] = has[s] /\ value'[s] = value[s] /\ asked'[s] = asked[s]
      BY <1>1, <2>2
    <3>2. SlotKept(s)
      BY DEF Whole, Kept
    <3>3. (failed => failed') /\ call' = call /\ given' = given
      BY <1>1, <1>2
    <3>4. QED  BY <1>6, <3>1, <3>2, <3>3 DEF SlotKept
  <2>3. QED  BY <2>1, <2>2
<1>10. Ready'
  BY <1>2 DEF Whole, Ready
<1>11. Left'
  BY <1>1, <1>2 DEF Whole, Left
<1>12. QED  BY <1>5, <1>9, <1>10, <1>11 DEF Whole

\* So does the adding of an element, though its array be short of room.
LEMMA AddWhole == ASSUME Whole, NEW l \in DOMAIN items, Add(l) PROVE Whole'
<1>1. /\ has' \in [Slots(call) -> BOOLEAN] /\ value' \in [Slots(call) -> Pointers]
      /\ asked' \in [Slots(call) -> {Unset, Unknown, Server, Default} \cup Values]
      /\ \A s \in Slots(call) :
            \/ has'[s] = has[s] /\ value'[s] = value[s] /\ asked'[s] = asked[s]
            \/ has'[s] /\ value'[s] \in Values /\ asked'[s] = value'[s]
  BY AddSlot DEF Whole
<1>0. room[l] \in Nat /\ items[l] \in Nat
  BY DEF Whole, Shape
<1>2. PICK longer \in BOOLEAN, made \in BOOLEAN, left \in Nat :
        /\ left = (IF longer THEN (IF room[l] = 0 THEN 1 ELSE items[l] + 1) ELSE room[l])
        /\ room' = [room EXCEPT ![l] = left]
        /\ pc' = IF left # 0 /\ left < items[l] + 1 THEN "stray" ELSE pc
        /\ items' = [items EXCEPT ![l] = Counted(l, left, made)]
        /\ failed' = (failed \/ ~longer \/ ~made)
  <2>1. PICK longer \in BOOLEAN, made \in BOOLEAN :
          LET left == IF longer THEN (IF room[l] = 0 THEN 1 ELSE items[l] + 1) ELSE room[l]
          IN  /\ room' = [room EXCEPT ![l] = left]
              /\ pc' = IF left # 0 /\ left < items[l] + 1 THEN "stray" ELSE pc
              /\ items' = [items EXCEPT ![l] = Counted(l, left, made)]
              /\ failed' = (failed \/ ~longer \/ ~made)
    BY DEF Add
  <2>2. (IF longer THEN (IF room[l] = 0 THEN 1 ELSE items[l] + 1) ELSE room[l]) \in Nat
    BY <1>0
  <2>3. QED  BY <2>1, <2>2
<1>3. /\ pc = "setting" /\ given /\ sets < MaxSets /\ items[l] < MaxItems /\ sets' = sets + 1
      /\ UNCHANGED <<call, api, given, args, rop, lost, again>>
  BY DEF Add
<1>4. /\ TypeOK /\ items \in [DOMAIN ListsOf(call) -> 0..MaxItems]
      /\ room \in [DOMAIN ListsOf(call) -> Nat] /\ items[l] <= room[l]
      /\ \A k \in DOMAIN items : items[k] <= room[k]
  BY <1>3 DEF Whole, Shape
<1>5. /\ failed' \in BOOLEAN /\ sets' \in 0..MaxSets /\ pc' \in {"setting", "stray"}
      /\ (failed => failed')
  BY <1>2, <1>3, <1>4, ValuesAreNone DEF TypeOK
<1>6. left \in Nat /\ Counted(l, left, made) \in 0..MaxItems
  BY <1>2, <1>3, <1>4, ValuesAreNone DEF Counted
<1>7. pc' # "stray" => Counted(l, left, made) <= left
  BY <1>2, <1>3, <1>4, ValuesAreNone DEF Counted
<1>8. /\ items' \in [DOMAIN ListsOf(call) -> 0..MaxItems]
      /\ room' \in [DOMAIN ListsOf(call) -> Nat]
  BY <1>2, <1>4, <1>6
<1>9. pc' # "stray" => \A k \in DOMAIN items' : items'[k] <= room'[k]
  <2> SUFFICES ASSUME pc' # "stray", NEW k \in DOMAIN items' PROVE items'[k] <= room'[k]
    OBVIOUS
  <2>1. CASE k = l
    BY <1>2, <1>4, <1>7, <2>1
  <2>2. CASE k # l
    BY <1>2, <1>4, <2>2
  <2>3. QED  BY <2>1, <2>2
<1>10. \A k \in DOMAIN items' : items'[k] \in 0..MaxItems /\ (pc' # "stray" /\ ~Borrowed(k) => items'[k] <= room'[k])
  BY <1>8, <1>9
<1>11. TypeOK'
  BY <1>1, <1>3, <1>4, <1>5, <1>10 DEF TypeOK, Pointers
<1>12. Shape'
  BY <1>3, <1>8, <1>9, <1>11 DEF Whole, Shape
<1>13. Kept'
  <2> SUFFICES ASSUME NEW s \in Slots(call) PROVE SlotKept(s)'
    BY <1>3 DEF Kept
  <2>0. SlotKept(s) /\ Manner(s)' = Manner(s)
    BY <1>3 DEF Whole, Kept, Manner
  <2>1. CASE has'[s] = has[s] /\ value'[s] = value[s] /\ asked'[s] = asked[s]
    BY <1>3, <1>5, <2>0, <2>1 DEF SlotKept
  <2>2. CASE has'[s] /\ value'[s] \in Values /\ asked'[s] = value'[s]
    <3>1. asked'[s] \notin {Unset, Unknown}
      BY <2>2, ValuesAreNone DEF Marks
    <3>2. QED  BY <1>3, <2>2, <3>1 DEF SlotKept
  <2>3. QED  BY <1>1, <2>1, <2>2
<1>14. Ready'
  BY <1>3 DEF Whole, Ready
<1>15. Left'
  BY <1>3, <1>5 DEF Whole, Left
<1>16. QED  BY <1>12, <1>13, <1>14, <1>15 DEF Whole

\* What leaves the fields alone keeps what is known of them.
LEMMA SameFields ==
    ASSUME Shape, Kept, call' = call, given' = given, args' = args, api' = api, sets' = sets,
           UNCHANGED fields, failed => failed', failed' \in BOOLEAN, again' \in BOOLEAN,
           pc' \in {"setting", "sent", "freed", "crashed"}, pc # "stray",
           rop' = [callback |-> rop'.callback, decoder |-> rop'.decoder, request |-> rop'.request],
           rop'.callback \in Calls \cup {None}, rop'.decoder \in Calls \cup {None}
    PROVE  Shape' /\ Kept'
<1>1. has' = has /\ value' = value /\ items' = items /\ room' = room /\ asked' = asked
  BY DEF fields
<1>2. TypeOK'
  BY <1>1 DEF Shape, TypeOK
<1>3. Shape'
  BY <1>1, <1>2 DEF Shape
<1>4. ASSUME NEW s \in Slots(call) PROVE SlotKept(s)'
  <2>1. SlotKept(s) /\ Manner(s)' = Manner(s)
    BY DEF Kept, Manner
  <2>2. QED  BY <1>1, <2>1 DEF SlotKept
<1>5. QED  BY <1>3, <1>4 DEF Kept

\* An operation registered again waits for its new request.
LEMMA BeginWhole == ASSUME Whole, NEW c \in Calls, Begin(c) PROVE Whole'
<1>1. /\ api = "async" /\ DOMAIN SettersOf(c) = {}
      /\ call' = c /\ args' \in ArgsOf(c) /\ given' = TRUE
      /\ has' = <<>> /\ value' = <<>> /\ asked' = <<>> /\ items' = <<>> /\ room' = <<>>
      /\ pc' = "setting" /\ again' = TRUE
      /\ UNCHANGED <<api, rop, lost, failed, sets>>
  BY DEF Begin
<1>2. DOMAIN ListsOf(c) = {} /\ Slots(c) = {}
  BY <1>1, NothingToSet
<1>3. /\ has' \in [Slots(c) -> BOOLEAN] /\ value' \in [Slots(c) -> Pointers]
      /\ asked' \in [Slots(c) -> {Unset, Unknown, Server, Default} \cup Values]
      /\ items' \in [DOMAIN ListsOf(c) -> 0..MaxItems]
      /\ room' \in [DOMAIN ListsOf(c) -> Nat]
  BY <1>1, <1>2, NothingTyped
<1>4. DOMAIN items' = {}
  BY <1>2, <1>3
<1>5. TypeOK'
  BY <1>1, <1>3, <1>4 DEF Whole, Shape, TypeOK, Pointers
<1>6. Shape'
  BY <1>1, <1>3, <1>4, <1>5 DEF Whole, Shape
<1>7. Kept'
  BY <1>1, <1>2 DEF Kept
<1>8. Ready' /\ Left'
  BY <1>1 DEF Whole, Ready, Left
<1>9. QED  BY <1>6, <1>7, <1>8 DEF Whole

\* An encoder that crashes has done nothing that lasts.
LEMMA EncodeCrashWhole == ASSUME Whole, EncodeCrash PROVE Whole'
<1>1. /\ pc = "setting" /\ pc' = "crashed" /\ (failed' = failed \/ failed' = TRUE)
      /\ UNCHANGED <<call, api, given, args, fields, rop, lost, again, sets>>
  BY DEF EncodeCrash
<1>2. Shape' /\ Kept'
  <2>1. /\ failed' \in BOOLEAN /\ again' \in BOOLEAN
        /\ rop' = [callback |-> rop'.callback, decoder |-> rop'.decoder, request |-> rop'.request]
        /\ rop'.callback \in Calls \cup {None} /\ rop'.decoder \in Calls \cup {None}
    BY <1>1 DEF Whole, Shape, TypeOK
  <2>2. QED  BY <1>1, <2>1, SameFields DEF Whole
<1>3. Ready' /\ Left'
  BY <1>1 DEF Whole, Ready, Left
<1>4. QED  BY <1>2, <1>3 DEF Whole

\* A registration sets the callback of an asynchronous call, and only that.
LEMMA RegisteredFacts ==
    ASSUME Shape
    PROVE  /\ Registered(rop) = [callback |-> Registered(rop).callback, decoder |-> rop.decoder,
                                 request |-> rop.request]
           /\ Registered(rop).callback = IF api = "async" THEN call ELSE rop.callback
<1>1. rop = [callback |-> rop.callback, decoder |-> rop.decoder, request |-> rop.request]
  BY DEF Shape
<1>2. CASE api = "async"
  BY <1>1, <1>2 DEF Registered
<1>3. CASE api # "async"
  BY <1>1, <1>3 DEF Registered
<1>4. QED  BY <1>2, <1>3

\* An encoder that runs short leaves the last request where it was.
LEMMA EncodeShortWhole == ASSUME Whole, EncodeShort PROVE Whole'
<1>1. /\ pc = "setting" /\ failed' = TRUE /\ rop' = Registered(rop)
      /\ UNCHANGED <<call, api, given, args, fields, pc, again, sets>>
  BY DEF EncodeShort
<1>2. /\ rop' = [callback |-> rop'.callback, decoder |-> rop.decoder, request |-> rop.request]
      /\ rop'.callback = IF api = "async" THEN call ELSE rop.callback
  BY <1>1, RegisteredFacts DEF Whole
<1>3. rop'.decoder = rop.decoder /\ rop'.request = rop.request
  BY <1>2
<1>4. Shape' /\ Kept'
  <2>1. /\ failed' \in BOOLEAN /\ again' \in BOOLEAN
        /\ rop' = [callback |-> rop'.callback, decoder |-> rop'.decoder, request |-> rop'.request]
        /\ rop'.callback \in Calls \cup {None} /\ rop'.decoder \in Calls \cup {None}
    BY <1>1, <1>2, <1>3 DEF Whole, Shape, TypeOK
  <2>2. QED  BY <1>1, <2>1, SameFields DEF Whole
<1>5. Ready'
  <2>1. api = "sync" => rop'.callback = None
    BY <1>2 DEF Whole, Ready
  <2>2. QED  BY <1>1, <1>3, <2>1 DEF Whole, Ready
<1>6. Left'
  BY <1>1 DEF Left
<1>7. QED  BY <1>4, <1>5, <1>6 DEF Whole

\* The operation once a request is made.
LEMMA PreparedFacts ==
    ASSUME Shape, NEW kept
    PROVE  LET q == Prepared(kept)
           IN  /\ q = [callback |-> q.callback, decoder |-> call, request |-> RequestOf(kept)]
               /\ q.callback = IF api = "async" THEN call ELSE rop.callback
               /\ q.decoder = call /\ q.request = RequestOf(kept)
<1> DEFINE old == Registered(rop)
           new == RequestOf(kept)
           q   == Prepared(kept)
<1>1. /\ old = [callback |-> old.callback, decoder |-> rop.decoder, request |-> rop.request]
      /\ old.callback = IF api = "async" THEN call ELSE rop.callback
  BY RegisteredFacts
<1>2. q = [old EXCEPT !.decoder = call, !.request = new]
  BY DEF Prepared
<1> HIDE DEF old, new, q
<1>3. /\ q = [callback |-> q.callback, decoder |-> call, request |-> new]
      /\ q.callback = old.callback /\ q.decoder = call /\ q.request = new
  <2>1. [old EXCEPT !.decoder = call]
           = [callback |-> old.callback, decoder |-> call, request |-> rop.request]
    BY <1>1
  <2>2. q = [callback |-> old.callback, decoder |-> call, request |-> new]
    BY <1>2, <2>1
  <2>3. QED  BY <2>2
<1>4. /\ q = [callback |-> q.callback, decoder |-> call, request |-> new]
      /\ q.callback = IF api = "async" THEN call ELSE rop.callback
      /\ q.decoder = call /\ q.request = new
  BY <1>1, <1>3
<1>5. QED  BY <1>4 DEF new, q

\* What an encoder leaves behind of bucket properties nobody frees.
LEMMA EncodeWhole == ASSUME Whole, Encode PROVE Whole'
<1>1. /\ pc \in {"setting", "sent"} /\ pc' = "sent"
      /\ lost' = lost \cup PbProps \cup OldParameters
                 \cup (IF rop.request # NoRequest THEN {Field("request")} ELSE {})
      /\ again' = (again \/ rop.request # NoRequest)
      /\ UNCHANGED <<call, api, given, args, fields, sets>>
  BY DEF Encode
<1>2. PICK kept : rop' = Prepared(kept) /\ failed' = (failed \/ kept # Functions)
  BY DEF Encode
<1>3. /\ rop' = [callback |-> rop'.callback, decoder |-> call, request |-> RequestOf(kept)]
      /\ rop'.decoder = call /\ rop'.request = RequestOf(kept)
      /\ rop'.callback = IF api = "async" THEN call ELSE rop.callback
  BY <1>2, PreparedFacts DEF Whole
<1>4. Shape' /\ Kept'
  <2>1. /\ failed' \in BOOLEAN /\ again' \in BOOLEAN
        /\ rop' = [callback |-> rop'.callback, decoder |-> rop'.decoder, request |-> rop'.request]
        /\ rop'.callback \in Calls \cup {None} /\ rop'.decoder \in Calls \cup {None}
    BY <1>1, <1>2, <1>3 DEF Whole, Shape, TypeOK
  <2>2. pc # "stray" /\ (failed => failed')
    BY <1>1, <1>2
  <2>3. QED  BY <1>1, <2>1, <2>2, SameFields DEF Whole
<1>5. Ready'
  BY <1>1, <1>3 DEF Whole, Ready
<1>6. Left'
  <2> SUFFICES ASSUME ~failed', ~again'
               PROVE  lost' \subseteq (IF call = "set_bucketprops" THEN {Field("pb")} ELSE {})
    BY <1>1 DEF Left
  <2>1. ~failed /\ ~again /\ rop.request = NoRequest
    BY <1>1, <1>2
  <2>2. OldParameters = {}
    BY <2>1 DEF OldParameters
  <2>3. PbProps \subseteq (IF call = "set_bucketprops" THEN {Field("pb")} ELSE {})
    BY DEF PbProps, Funs
  <2>4. lost \subseteq (IF call = "set_bucketprops" THEN {Field("pb")} ELSE {})
    BY <1>1, <2>1 DEF Whole, Left
  <2>5. QED  BY <1>1, <2>1, <2>2, <2>3, <2>4
<1>7. QED  BY <1>4, <1>5, <1>6 DEF Whole

\* Freeing leaves the vector clock of a put behind, nothing else that was set.
LEMMA FreeWhole == ASSUME Whole, Free PROVE Whole'
<1>1. /\ pc \in {"setting", "sent"} /\ pc' = (IF FunMissing THEN "crashed" ELSE "freed")
      /\ lost' = lost \cup {s \in Live : /\ Manner(s) # "scalar" /\ value[s] # Null
                                         /\ s[1] \notin FreedOf(call)}
      /\ UNCHANGED <<call, api, given, args, fields, rop, failed, again, sets>>
  BY DEF Free
<1>2. Shape' /\ Kept'
  <2>1. /\ failed' \in BOOLEAN /\ again' \in BOOLEAN /\ pc # "stray"
        /\ pc' \in {"setting", "sent", "freed", "crashed"}
        /\ rop' = [callback |-> rop'.callback, decoder |-> rop'.decoder, request |-> rop'.request]
        /\ rop'.callback \in Calls \cup {None} /\ rop'.decoder \in Calls \cup {None}
    BY <1>1 DEF Whole, Shape, TypeOK
  <2>2. QED  BY <1>1, <2>1, SameFields DEF Whole
<1>3. Ready'
  BY <1>1 DEF Whole, Ready
<1>4. Left'
  <2> SUFFICES ASSUME ~failed, ~again, NEW s \in lost'
               PROVE  \/ call = "set_bucketprops" /\ s = Field("pb")
                      \/ pc' = "freed" /\ call = "put" /\ s = Field("vclock")
    BY <1>1 DEF Left
  <2>1. CASE s \in lost
    BY <1>1, <2>1 DEF Whole, Left
  <2>2. CASE s \in Live /\ Manner(s) # "scalar" /\ s[1] \notin FreedOf(call)
    <3>1. s \in Slots(call) /\ Manner(s) = MannerOf(call, s)
      BY <2>2, LiveSlots DEF Whole, Manner, MannerOf
    <3>2. call = "put" /\ s = Field("vclock")
      BY <2>2, <3>1, SlotFacts DEF SlotFact
    <3>3. ~FunMissing
      BY <3>2 DEF FunMissing
    <3>4. QED  BY <1>1, <3>2, <3>3
  <2>3. QED  BY <1>1, <2>1, <2>2
<1>5. QED  BY <1>2, <1>3, <1>4 DEF Whole

\* The invariant is kept whatever the user does and whatever fails.
LEMMA Keeps == Whole /\ [Next]_vars => Whole'
<1> SUFFICES ASSUME Whole, [Next]_vars PROVE Whole'
  OBVIOUS
<1>1. ASSUME NEW s \in Live, NEW v \in Values, Set(s, v) PROVE Whole'
  BY <1>1, SetWhole
<1>2. ASSUME NEW l \in DOMAIN items, Add(l) PROVE Whole'
  BY <1>2, AddWhole
<1>3. ASSUME NEW c \in Calls, Begin(c) PROVE Whole'
  BY <1>3, BeginWhole
<1>4. CASE EncodeCrash
  BY <1>4, EncodeCrashWhole
<1>5. CASE EncodeShort
  BY <1>5, EncodeShortWhole
<1>6. CASE Encode
  BY <1>6, EncodeWhole
<1>7. CASE Free
  BY <1>7, FreeWhole
<1>8. CASE Stopped \/ UNCHANGED vars
  <2>1. UNCHANGED vars
    BY <1>8 DEF Stopped
  <2>2. /\ call' = call /\ api' = api /\ given' = given /\ args' = args /\ has' = has
        /\ value' = value /\ items' = items /\ room' = room /\ asked' = asked /\ rop' = rop
        /\ pc' = pc /\ lost' = lost /\ failed' = failed /\ again' = again /\ sets' = sets
    BY <2>1 DEF vars, fields
  <2>3. Shape'
    BY <2>2 DEF Whole, Shape, TypeOK
  <2>4. Kept'
    BY <2>2 DEF Whole, Kept, SlotKept, Manner
  <2>5. Ready' /\ Left'
    BY <2>2 DEF Whole, Ready, Left
  <2>6. QED  BY <2>3, <2>4, <2>5 DEF Whole
<1>9. QED  BY <1>1, <1>2, <1>3, <1>4, <1>5, <1>6, <1>7, <1>8 DEF Next

\* The invariant holds whatever the user does and whatever fails.
LEMMA WholeHolds == Spec => []Whole
  BY Begins, Keeps, PTL DEF Spec

-----------------------------------------------------------------------------
(* What it says of the properties. *)

\* Every variable has its type, and lists fit into their arrays unless the user
\* strayed beyond one.
THEOREM TypeCorrect == Spec => []TypeOK
<1>1. Whole => TypeOK
  BY DEF Whole, Shape
<1>2. QED  BY <1>1, WholeHolds, PTL

\* What was set without failures reads back as it was set, whichever of the dozen
\* places it was set in, and no flag is up that the user did not raise.
THEOREM ReadsBack == Spec => []ReadBack
<1>1. ASSUME Whole PROVE ReadBack
  <2> SUFFICES ASSUME ~failed, NEW s \in Live
               PROVE  /\ asked[s] \notin {Unset, Unknown} =>
                            s[1] \in GettersOf(call) /\ Shown(s) = [has |-> TRUE, value |-> asked[s]]
                      /\ asked[s] = Unset => (Shown(s).has => Required(s))
    BY DEF ReadBack
  <2>1. s \in Slots(call) /\ has \in [Slots(call) -> BOOLEAN] /\ SlotKept(s)
    BY <1>1, LiveSlots DEF Whole, Shape, TypeOK, Kept
  <2>2. s[1] \in GettersOf(call)
    BY <2>1, SlotFacts DEF SlotFact
  <2>3. has[s] \in BOOLEAN
    BY <2>1
  <2>4. asked[s] \notin {Unset, Unknown} => has[s] = TRUE /\ value[s] = asked[s]
    BY <2>1, <2>3 DEF SlotKept
  <2>5. asked[s] = Unset => (has[s] => Required(s))
    BY <2>1 DEF SlotKept
  <2>6. QED  BY <2>2, <2>4, <2>5 DEF Shown
<1>2. QED  BY <1>1, WholeHolds, PTL

\* Freed without failures or repetitions, a call leaves nothing behind but the
\* vector clock of a put and the copies of bucket properties.
THEOREM FreesWhole == Spec => []FreedWhole
<1>1. ASSUME Whole PROVE FreedWhole
  <2> SUFFICES ASSUME pc = "freed", ~failed, ~again
               PROVE  lost \subseteq CASE call = "put"             -> {Field("vclock")}
                                       [] call = "set_bucketprops" -> {Field("pb")}
                                       [] OTHER                    -> {}
    BY DEF FreedWhole
  <2>1. lost \subseteq (IF call = "set_bucketprops" THEN {Field("pb")} ELSE {})
                       \cup (IF call = "put" THEN {Field("vclock")} ELSE {})
    BY <1>1 DEF Whole, Left
  <2>2. CASE call = "put"
    BY <2>1, <2>2
  <2>3. CASE call = "set_bucketprops"
    BY <2>1, <2>3
  <2>4. CASE call \notin {"put", "set_bucketprops"}
    BY <2>1, <2>4
  <2>5. QED  BY <2>2, <2>3, <2>4
<1>2. QED  BY <1>1, WholeHolds, PTL

\* A request names its call.
LEMMA NamesCall == ASSUME NEW kept PROVE RequestOf(kept).call = call
<1> USE DEF RequestOf, Request
<1>1. CASE call = "get"
  BY <1>1 DEF GetRequest
<1>2. CASE call = "put"
  BY <1>2 DEF PutRequest
<1>3. CASE call = "delete"
  BY <1>3 DEF DeleteRequest
<1>4. CASE call = "search"
  BY <1>4 DEF SearchRequest
<1>5. CASE call = "index"
  BY <1>5 DEF IndexRequest
<1>6. CASE call = "object"
  BY <1>6 DEF ObjectRequest
<1>7. CASE call = "set_bucketprops"
  BY <1>7 DEF PropsRequest
<1>8. CASE call = "reset_bucketprops"
  BY <1>8 DEF ResetRequest
<1>9. CASE call \notin {"get", "put", "delete", "search", "index", "object", "set_bucketprops",
                        "reset_bucketprops"}
  BY <1>9 DEF PlainRequest
<1>10. QED  BY <1>1, <1>2, <1>3, <1>4, <1>5, <1>6, <1>7, <1>8, <1>9

\* Request, decoder and callback of an operation are those of one call, for as
\* long as no registration failed after another had succeeded.
THEOREM IsMatched == Spec => []Matched
<1>1. Init => Matched
  BY DEF Init, Matched, Nobody
<1>2. ASSUME Whole, Matched, [Next]_vars PROVE Matched'
  <2>1. ASSUME rop' = rop, failed => failed', again => again' PROVE Matched'
    BY <1>2, <2>1 DEF Matched
  <2>2. ASSUME NEW s \in Live, NEW v \in Values, Set(s, v) PROVE Matched'
    BY <2>1, <2>2 DEF Set
  <2>3. ASSUME NEW l \in DOMAIN items, Add(l) PROVE Matched'
    BY <2>1, <2>3 DEF Add
  <2>4. ASSUME NEW c \in Calls, Begin(c) PROVE Matched'
    BY <2>1, <2>4 DEF Begin
  <2>5. CASE EncodeCrash
    BY <2>1, <2>5 DEF EncodeCrash
  <2>6. CASE EncodeShort
    <3>1. rop' = Registered(rop) /\ failed' /\ again' = again /\ pc = "setting"
      BY <2>6 DEF EncodeShort
    <3>2. rop'.request = rop.request
      BY <1>2, <3>1, RegisteredFacts DEF Whole
    <3>3. rop.request # NoRequest => again
      BY <1>2, <3>1 DEF Whole, Ready
    <3>4. QED  BY <3>1, <3>2, <3>3 DEF Matched
  <2>7. CASE Encode
    <3>1. PICK kept : rop' = Prepared(kept)
      BY <2>7 DEF Encode
    <3>2. /\ rop'.callback = IF api = "async" THEN call ELSE rop.callback
          /\ rop'.decoder = call /\ rop'.request = RequestOf(kept)
      BY <1>2, <3>1, PreparedFacts DEF Whole
    <3>3. api = "async" \/ rop.callback = None
      BY <1>2 DEF Whole, Shape, TypeOK, Ready
    <3>4. rop'.request.call = call
      BY <3>2, NamesCall
    <3>5. QED  BY <3>2, <3>3, <3>4 DEF Matched
  <2>8. CASE Free
    BY <2>1, <2>8 DEF Free
  <2>9. CASE Stopped \/ UNCHANGED vars
    BY <2>1, <2>9 DEF Stopped, vars
  <2>10. QED  BY <1>2, <2>2, <2>3, <2>4, <2>5, <2>6, <2>7, <2>8, <2>9 DEF Next
<1>3. QED  BY <1>1, <1>2, WholeHolds, PTL DEF Spec

\* Where an encoder follows a NULL, either a copy had failed or the user left out
\* what he had to give.
LEMMA FollowsNull ==
    ASSUME Whole, NullFollowed, call # "set_bucketprops"
    PROVE  failed \/ ~Complete
<1>1. CASE call = "reset_bucketprops" /\ args.type = Absent
  BY <1>1 DEF Complete
<1>2. CASE \E s \in Live : Looks(s) /\ Manner(s) # "scalar" /\ value[s] = Null
  <2>1. PICK s \in Live : has[s] /\ value[s] = Null
    BY <1>2 DEF Looks
  <2>2. s \in Slots(call) /\ SlotKept(s)
    BY LiveSlots DEF Whole, Kept
  <2>3. asked[s] \in {Unset, Unknown, Server, Default} \cup Values
    BY <2>2 DEF Whole, Shape, TypeOK
  <2>4. CASE asked[s] = Unset
    <3>1. Required(s)
      BY <2>1, <2>2, <2>4 DEF SlotKept
    <3>2. QED  BY <2>1, <3>1 DEF Complete
  <2>5. CASE asked[s] = Unknown
    BY <2>2, <2>5 DEF SlotKept
  <2>6. CASE asked[s] \notin {Unset, Unknown}
    <3>1. asked[s] # Null
      BY <2>3, ValuesAreNone DEF Marks, Null, Unset, Unknown, Server, Default
    <3>2. QED  BY <2>1, <2>2, <2>6, <3>1 DEF SlotKept
  <2>7. QED  BY <2>4, <2>5, <2>6
<1>3. QED  BY <1>1, <1>2 DEF NullFollowed

\* An array falls short of room only when it could not be made longer.
LEMMA Strays ==
    ASSUME Whole, NEW l \in DOMAIN items, Add(l), pc' = "stray"
    PROVE  failed'
<1>1. PICK longer \in BOOLEAN, made \in BOOLEAN :
        LET left == IF longer THEN (IF room[l] = 0 THEN 1 ELSE items[l] + 1) ELSE room[l]
        IN  /\ pc' = IF left # 0 /\ left < items[l] + 1 THEN "stray" ELSE pc
            /\ failed' = (failed \/ ~longer \/ ~made)
  BY DEF Add
<1>2. pc = "setting"
  BY DEF Add
<1>3. items[l] \in Nat /\ room[l] \in Nat /\ items[l] <= room[l]
  BY <1>2 DEF Whole, Shape
<1>4. CASE longer
  <2> DEFINE left == IF room[l] = 0 THEN 1 ELSE items[l] + 1
  <2>1. ~(left < items[l] + 1)
    BY <1>3
  <2>2. pc' = IF left # 0 /\ left < items[l] + 1 THEN "stray" ELSE pc
    BY <1>1, <1>4
  <2> HIDE DEF left
  <2>3. QED  BY <1>2, <2>1, <2>2
<1>5. CASE ~longer
  BY <1>1, <1>5
<1>6. QED  BY <1>4, <1>5

\* With memory for every copy, and given what it has to be given, the library
\* neither follows a NULL nor writes beyond an array.
THEOREM IsGuarded == Spec => []Guarded
<1>1. Init => Guarded
  BY DEF Init, Guarded
<1>2. ASSUME Whole, Guarded, [Next]_vars PROVE Guarded'
  <2>1. ASSUME UNCHANGED <<call, args, has, value, items>>, failed => failed',
               pc' \in {"crashed", "stray"} => pc' = pc \/ failed' \/ ~Complete
        PROVE  Guarded'
    <3>1. Complete' <=> Complete
      BY <2>1 DEF Complete, Live
    <3>2. QED  BY <1>2, <2>1, <3>1 DEF Guarded
  <2>2. ASSUME NEW s \in Live, NEW v \in Values, Set(s, v) PROVE Guarded'
    BY <2>2 DEF Set, Guarded
  <2>3. ASSUME NEW l \in DOMAIN items, Add(l) PROVE Guarded'
    <3>1. pc' \in {"setting", "stray"}
      BY <2>3 DEF Add
    <3>2. QED  BY <1>2, <2>3, <3>1, Strays DEF Guarded
  <2>4. ASSUME NEW c \in Calls, Begin(c) PROVE Guarded'
    BY <2>4 DEF Begin, Guarded
  <2>5. CASE EncodeCrash
    <3>1. /\ UNCHANGED <<call, args, has, value, items>> /\ (failed' = failed \/ failed' = TRUE)
          /\ NullFollowed \/ Hooked \/ Funs \/ failed'
      BY <2>5 DEF EncodeCrash, fields
    <3>2. CASE call = "set_bucketprops"
      BY <2>1, <3>1, <3>2 DEF Complete
    <3>3. CASE call # "set_bucketprops"
      <4>1. ~Hooked /\ ~Funs
        BY <3>3 DEF Hooked, Funs
      <4>2. failed' \/ ~Complete
        BY <1>2, <3>1, <3>3, <4>1, FollowsNull
      <4>3. QED  BY <2>1, <3>1, <4>2
    <3>4. QED  BY <3>2, <3>3
  <2>6. CASE EncodeShort
    BY <2>6 DEF EncodeShort, Guarded
  <2>7. CASE Encode
    BY <2>7 DEF Encode, Guarded
  <2>8. CASE Free
    <3>1. /\ UNCHANGED <<call, args, has, value, items, failed>>
          /\ pc' = IF FunMissing THEN "crashed" ELSE "freed"
      BY <2>8 DEF Free, fields
    <3>2. FunMissing => ~Complete
      BY DEF FunMissing, Complete
    <3>3. QED  BY <2>1, <3>1, <3>2
  <2>9. CASE Stopped \/ UNCHANGED vars
    BY <2>1, <2>9 DEF Stopped, vars, fields
  <2>10. QED  BY <1>2, <2>2, <2>3, <2>4, <2>5, <2>6, <2>7, <2>8, <2>9 DEF Next
<1>3. QED  BY <1>1, <1>2, WholeHolds, PTL DEF Spec

-----------------------------------------------------------------------------
(* The request is what the user asked for. *)

\* A request says what was asked for, but for deaf slots.
Says(r, deaf) ==
    /\ r.code = CodeOf(call)
    /\ \A p \in DOMAIN args : p \notin deaf => r.args[p] = args[p]
    /\ DOMAIN r.fields = Live
    /\ \A s \in Live : (s[1] \notin deaf /\ asked[s] # Unknown) =>
          r.fields[s] = IF asked[s] = Unset THEN Absent ELSE asked[s]

\* A copy of a field says it, if the encoder did not fall over one.
LEMMA CopySays ==
    ASSUME Whole, ~NullFollowed, ~(call = "delete" /\ api = "async"),
           NEW s \in Live, asked[s] # Unknown, Manner(s) # "fun"
    PROVE  Copies(Live)[s] = IF asked[s] = Unset THEN Absent ELSE asked[s]
<1>1. s \in Slots(call) /\ SlotKept(s) /\ Manner(s) = MannerOf(call, s)
  BY LiveSlots DEF Whole, Kept, Manner, MannerOf
<1>2. Copies(Live)[s] = IF has[s] THEN value[s] ELSE Absent
  BY DEF Copies
<1>3. given /\ has[s] /\ Manner(s) # "scalar" => value[s] # Null
  BY DEF NullFollowed, Looks
<1>4. CASE asked[s] = Unset
  <2>1. ASSUME has[s] PROVE FALSE
    <3>1. value[s] = Null /\ Required(s)
      BY <1>1, <1>4, <2>1 DEF SlotKept
    <3>2. call = "object" /\ Manner(s) = "copy"
      BY <1>1, <3>1, SlotFacts DEF SlotFact
    <3>3. given
      BY <3>2 DEF Whole, Shape, OptionCalls
    <3>4. QED  BY <1>3, <2>1, <3>1, <3>2, <3>3
  <2>2. QED  BY <1>2, <1>4, <2>1
<1>5. CASE asked[s] # Unset
  <2>1. given /\ has[s] /\ value[s] = asked[s]
    BY <1>1, <1>3, <1>5 DEF SlotKept
  <2>2. QED  BY <1>2, <1>5, <2>1
<1>6. QED  BY <1>4, <1>5

\* Calls without options, objects or properties have no slots.
LEMMA PlainCalls ==
    ASSUME Whole, call \notin OptionCalls \cup {"object", "set_bucketprops"}
    PROVE  Live = {}
<1>1. DOMAIN SettersOf(call) = {}
  BY DEF SettersOf, OptionCalls
<1>2. QED  BY <1>1, NothingToSet, LiveSlots DEF Whole

\* Whatever call it is of, and whichever functions could be copied.
LEMMA RequestSays ==
    ASSUME Whole, ~NullFollowed, call # "reset_bucketprops", NEW kept
    PROVE  Says(RequestOf(kept), Deaf)
<1> DEFINE Right(sent) ==
       /\ DOMAIN sent = Live
       /\ \A s \in Live : (s[1] \notin Deaf /\ asked[s] # Unknown) =>
             sent[s] = IF asked[s] = Unset THEN Absent ELSE asked[s]
<1>1. ASSUME NEW s \in Live
      PROVE  /\ s[1] \in GettersOf(call)
             /\ Manner(s) = "fun" => call = "set_bucketprops" /\ s[1] \in Functions
  BY LiveSlots, SlotFacts DEF Whole, SlotFact, Manner, MannerOf
<1>2. DOMAIN Copies(Live) = Live
  BY DEF Copies
<1>3. call \notin {"put", "delete", "set_bucketprops"} => Right(Copies(Live))
  BY <1>1, <1>2, CopySays
<1>4. ASSUME NEW sent, Right(sent) PROVE Says(Request(args, sent), Deaf)
  BY <1>4 DEF Says, Request
<1>5. CASE call \in {"get", "search", "object"}
  <2>1. RequestOf(kept) = Request(args, Copies(Live))
    BY <1>5 DEF RequestOf, GetRequest, SearchRequest, ObjectRequest
  <2>2. QED  BY <1>3, <1>4, <1>5, <2>1
<1>6. CASE call = "put"
  <2> DEFINE sent == Zeroed(Copies(Live), {"if_none_match", "if_not_modified"})
  <2>1. Deaf = {"if_none_match", "if_not_modified"}
    BY <1>6 DEF Deaf
  <2>2. /\ DOMAIN sent = Live
        /\ \A s \in Live : s[1] \notin Deaf => sent[s] = Copies(Live)[s]
    BY <1>2, <2>1 DEF Zeroed
  <2>3. Right(sent)
    BY <1>1, <1>6, <2>2, CopySays
  <2>4. RequestOf(kept) = Request(args, sent)
    BY <1>6 DEF RequestOf, PutRequest
  <2>5. QED  BY <1>4, <2>3, <2>4
<1>7. CASE call = "delete"
  <2>1. CASE api = "async"
    <3>1. Deaf = GettersOf(call)
      BY <1>7, <2>1 DEF Deaf, GettersOf
    <3>2. Right([s \in Live |-> Absent])
      BY <1>1, <3>1
    <3>3. RequestOf(kept) = Request(args, [s \in Live |-> Absent])
      BY <1>7, <2>1 DEF RequestOf, DeleteRequest
    <3>4. QED  BY <1>4, <3>2, <3>3
  <2>2. CASE api # "async"
    <3>1. Right(Copies(Live))
      BY <1>1, <1>2, <1>7, <2>2, CopySays
    <3>2. RequestOf(kept) = Request(args, Copies(Live))
      BY <1>7, <2>2 DEF RequestOf, DeleteRequest
    <3>3. QED  BY <1>4, <3>1, <3>2
  <2>3. QED  BY <2>1, <2>2
<1>8. CASE call = "index"
  <2> DEFINE type == IF ~given THEN args.type
                     ELSE IF has[Field("type")] THEN value[Field("type")] ELSE Absent
             parameters == [args EXCEPT !.type = type]
  <2>1. RequestOf(kept) = Request(parameters, Copies(Live))
    BY <1>8 DEF RequestOf, IndexRequest
  <2>2. \A p \in DOMAIN args : p # "type" => parameters[p] = args[p]
    OBVIOUS
  <2>3. ~given => \A p \in DOMAIN args : parameters[p] = args[p]
    OBVIOUS
  <2>4. given => "type" \in Deaf
    BY <1>8 DEF Deaf
  <2>5. \A p \in DOMAIN args : p \notin Deaf => parameters[p] = args[p]
    BY <2>2, <2>3, <2>4
  <2>6. Right(Copies(Live))
    BY <1>3, <1>8
  <2> HIDE DEF parameters
  <2>7. QED  BY <2>1, <2>5, <2>6 DEF Says, Request
<1>9. CASE call = "set_bucketprops"
  <2> DEFINE sent == [s \in Live |-> IF Manner(s) = "fun" /\ s[1] \notin kept THEN Absent
                                     ELSE Copies(Live)[s]]
  <2>1. Deaf = Functions
    BY <1>9 DEF Deaf
  <2>2. \A s \in Live : s[1] \notin Deaf => Manner(s) # "fun" /\ sent[s] = Copies(Live)[s]
    BY <1>1, <2>1
  <2>3. Right(sent)
    BY <1>9, <2>2, CopySays
  <2>4. RequestOf(kept) = Request(args, sent)
    BY <1>9 DEF RequestOf, PropsRequest
  <2>5. QED  BY <1>4, <2>3, <2>4
<1>10. CASE call \notin OptionCalls \cup {"object", "set_bucketprops"}
  <2>1. Live = {}
    BY <1>10, PlainCalls
  <2>2. RequestOf(kept) = Request(args, <<>>)
    BY <1>10 DEF RequestOf, PlainRequest, OptionCalls
  <2>3. DOMAIN <<>> = {}
    OBVIOUS
  <2>4. Right(<<>>)
    BY <2>1, <2>3
  <2>5. QED  BY <1>4, <2>2, <2>4
<1>11. QED  BY <1>5, <1>6, <1>7, <1>8, <1>9, <1>10 DEF OptionCalls

\* Through any setters, failures and retries the server is asked what the user
\* asked for, but for what is known to be deaf.
THEOREM IsHeard == Spec => []Heard
<1> DEFINE Said == (pc = "sent" /\ call # "reset_bucketprops") => Says(rop.request, Deaf)
<1>1. Init => Said
  BY DEF Init
<1>2. ASSUME Whole, Said, [Next]_vars PROVE Said'
  <2>1. CASE Encode
    <3>1. PICK kept : rop' = Prepared(kept)
      BY <2>1 DEF Encode
    <3>2. rop'.request = RequestOf(kept) /\ ~NullFollowed
      BY <1>2, <2>1, <3>1, PreparedFacts DEF Whole, Encode
    <3>3. /\ call' = call /\ api' = api /\ given' = given /\ args' = args
          /\ has' = has /\ items' = items /\ asked' = asked
      BY <2>1 DEF Encode, fields
    <3>4. Deaf' = Deaf /\ Live' = Live
      BY <3>3 DEF Deaf, Live
    <3>5. call # "reset_bucketprops" => Says(rop'.request, Deaf)
      BY <1>2, <3>2, RequestSays
    <3>6. QED  BY <3>3, <3>4, <3>5 DEF Says
  <2>2. ASSUME pc' # "sent" PROVE Said'
    BY <2>2
  <2>3. ASSUME UNCHANGED vars PROVE Said'
    <3>1. /\ call' = call /\ api' = api /\ given' = given /\ args' = args /\ rop' = rop
          /\ has' = has /\ items' = items /\ asked' = asked /\ pc' = pc
      BY <2>3 DEF vars, fields
    <3>2. Deaf' = Deaf /\ Live' = Live
      BY <3>1 DEF Deaf, Live
    <3>3. QED  BY <1>2, <3>1, <3>2 DEF Says
  <2>4. ASSUME Next, ~Encode PROVE pc' # "sent" \/ UNCHANGED vars
    <3>1. ASSUME NEW s \in Live, NEW v \in Values, Set(s, v) PROVE pc' # "sent"
      BY <3>1 DEF Set
    <3>2. ASSUME NEW l \in DOMAIN items, Add(l) PROVE pc' # "sent"
      BY <3>2 DEF Add
    <3>3. ASSUME NEW c \in Calls, Begin(c) PROVE pc' # "sent"
      BY <3>3 DEF Begin
    <3>4. EncodeCrash \/ EncodeShort \/ Free => pc' # "sent"
      BY DEF EncodeCrash, EncodeShort, Free
    <3>5. QED  BY <2>4, <3>1, <3>2, <3>3, <3>4 DEF Next, Stopped
  <2>5. QED  BY <1>2, <2>1, <2>2, <2>3, <2>4
<1>3. Said => Heard
  BY DEF Heard, AsAskedBut, Says
<1>4. QED  BY <1>1, <1>2, <1>3, WholeHolds, PTL DEF Spec
=============================================================================
