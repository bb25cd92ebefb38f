---------------------------- MODULE RiakTextProof ----------------------------
(***************************************************************************)
(* Proofs about RiakText: whatever the size of the buffer, the lengths of  *)
(* what is printed and the texts printed, the buffer holds the beginning   *)
(* of the text and nothing else is written to; comparing tells any two     *)
(* objects apart; and a connection keeps its names.                        *)
(*                                                                         *)
(* Shown is not inductive.  As long as some room is left, all that was     *)
(* printed is in the buffer and the NUL stands where the next character    *)
(* goes (Fits); only the last character of room may be left when a binary  *)
(* has been cut short, and then nothing but a NUL is written there.  Once  *)
(* no room is left nothing is written at all.                              *)
(*                                                                         *)
(* The checks of two objects are a concatenation of series, one for each   *)
(* element of each list.  Each series is Fair to what it compares, and     *)
(* what is fair stays so when put together (FairCat, FairAll).             *)
(***************************************************************************)
EXTENDS RiakText, WellFoundedInduction, SequenceTheorems, TLAPS

-----------------------------------------------------------------------------
(* The invariant, of any state of the printing library. *)

Typed(st) ==
    /\ st = [len |-> st.len, wrote |-> st.wrote, said |-> st.said,
             buffer |-> st.buffer, stray |-> st.stray]
    /\ st.wrote \in Nat /\ st.said \in Nat /\ st.stray \in BOOLEAN
    /\ st.len \in Int /\ st.len = total - 1 - st.wrote
    /\ st.buffer \in [0..(total - 1) -> Int]

HeldTo(st, k) == \A i \in 0..(k - 1) : st.buffer[i] = i + 1

Fits(st) ==
    /\ Typed(st)
    /\ ~st.stray
    /\ st.len > 1 => st.said = st.wrote
    /\ st.len > 0 => /\ HeldTo(st, st.wrote)
                     /\ st.said > 0 => st.buffer[st.wrote] = Nul
    /\ st.said = 0 => st.wrote = 0
    /\ st.len <= 0 /\ total > 1 => \E k \in 0..(total - 1) : Shows(st, k)

Inv ==
    /\ total \in Nat \ {0} /\ bare \in BOOLEAN
    /\ Typed(state)
    /\ ~bare => Fits(state)

-----------------------------------------------------------------------------
(* What the library's calls keep. *)

\* The state after characters were written keeps its type.
LEMMA PutTyped ==
    ASSUME total \in Nat \ {0}, NEW st, Typed(st),
           NEW shown \in Nat, NEW ends \in BOOLEAN, NEW moved \in Nat, NEW whole \in Nat
    PROVE  Typed(Put(st, shown, ends, moved, whole))
  <1> DEFINE after == Put(st, shown, ends, moved, whole)
  <1>1. /\ after.len = st.len - moved /\ after.wrote = st.wrote + moved
        /\ after.said = st.said + whole
        /\ after.stray \in BOOLEAN
        /\ after = [len |-> after.len, wrote |-> after.wrote, said |-> after.said,
                    buffer |-> after.buffer, stray |-> after.stray]
    BY DEF Put, Typed
  <1>2. after.buffer \in [0..(total - 1) -> Int]
    BY DEF Put, Typed, Nul
  <1> QED BY <1>1, <1>2 DEF Typed

\* Characters that leave room for the NUL in the buffer are shown.
LEMMA PutFits ==
    ASSUME total \in Nat \ {0}, NEW st, Fits(st), st.len > 0,
           NEW shown \in Nat, NEW moved \in Nat, NEW whole \in Nat,
           st.wrote + shown < total,
           shown > 0 => st.said = st.wrote,
           moved < st.len - 1 => moved = whole,
           moved < st.len => moved = shown,
           whole = 0 => moved = 0
    PROVE  Fits(Put(st, shown, TRUE, moved, whole))
  <1> DEFINE after == Put(st, shown, TRUE, moved, whole)
  <1>1. Typed(after)
    BY PutTyped DEF Fits
  <1>2. /\ after.len = st.len - moved /\ after.wrote = st.wrote + moved
        /\ after.said = st.said + whole /\ ~after.stray
    BY DEF Put, Fits, Typed
  <1>3. \A i \in 0..(total - 1) :
            after.buffer[i] = IF i >= st.wrote /\ i < st.wrote + shown THEN st.said + (i - st.wrote) + 1
                              ELSE IF TRUE /\ i = st.wrote + shown THEN Nul
                              ELSE st.buffer[i]
    BY DEF Put
  <1>4. /\ st.wrote \in Nat /\ st.len \in Int /\ st.said \in Nat /\ total \in Int
        /\ st.len = total - 1 - st.wrote
    BY DEF Fits, Typed
  <1>4a. HeldTo(st, st.wrote)
    BY DEF Fits
  <1>4b. st.said = 0 => st.wrote = 0
    BY DEF Fits
  <1> HIDE DEF after
  <1>5. Shows(after, st.wrote + shown)
    <2>1. after.buffer[st.wrote + shown] = Nul
      BY <1>3, <1>4
    <2>2. \A i \in 0..(st.wrote + shown - 1) : after.buffer[i] = i + 1
      <3> SUFFICES ASSUME NEW i \in 0..(st.wrote + shown - 1)
                   PROVE  after.buffer[i] = i + 1
        OBVIOUS
      <3>1. CASE i < st.wrote
        <4>1. i \in 0..(total - 1) /\ i \in 0..(st.wrote - 1)
          BY <3>1, <1>4
        <4>2. after.buffer[i] = st.buffer[i]
          BY <3>1, <4>1, <1>3, <1>4
        <4> QED BY <4>1, <4>2, <1>4a DEF HeldTo
      <3>2. CASE i >= st.wrote
        <4>1. i \in 0..(total - 1) /\ i < st.wrote + shown /\ shown > 0
          BY <3>2, <1>4
        <4>2. after.buffer[i] = st.said + (i - st.wrote) + 1
          BY <3>2, <4>1, <1>3
        <4> QED BY <4>1, <4>2, <1>4
      <3> QED BY <3>1, <3>2, <1>4
    <2> DEFINE end == st.wrote + shown
    <2>3. after.buffer[end] = Nul /\ \A i \in 0..(end - 1) : after.buffer[i] = i + 1
      BY <2>1, <2>2, <1>4
    <2> QED BY <2>3 DEF Shows
  <1>6. after.len > 1 => after.said = after.wrote
    BY <1>2, <1>4 DEF Fits
  <1>7. after.len > 0 => HeldTo(after, after.wrote) /\ after.buffer[after.wrote] = Nul
    BY <1>2, <1>4, <1>5 DEF Shows, HeldTo
  <1>8. after.said = 0 => after.wrote = 0
    <2> SUFFICES ASSUME st.said + whole = 0 PROVE st.wrote + moved = 0
      BY <1>2
    <2>1. st.said = 0 /\ whole = 0
      BY <1>4
    <2> QED BY <2>1, <1>4b
  <1>9. \E k \in 0..(total - 1) : Shows(after, k)
    BY <1>4, <1>5
  <1>10. Fits(after)
    BY <1>1, <1>2, <1>6, <1>7, <1>8, <1>9 DEF Fits
  <1> QED BY <1>10 DEF after

\* Formatted text keeps the invariant (riak_print).
LEMMA TextFits ==
    ASSUME total \in Nat \ {0}, NEW st, NEW n \in Nat \ {0}, Typed(st)
    PROVE  Typed(Text(st, n)) /\ (Fits(st) => Fits(Text(st, n)))
  <1>1. CASE st.len > 0
    <2>1. Text(st, n) = Put(st, Least(n, st.len - 1), TRUE, n, n)
      BY <1>1 DEF Text
    <2>2. Least(n, st.len - 1) \in Nat
      BY <1>1 DEF Least, Typed
    <2>3. Typed(Text(st, n))
      BY <2>1, <2>2, PutTyped
    <2>4. ASSUME Fits(st) PROVE Fits(Text(st, n))
      <3>1. /\ st.len \in Int /\ st.wrote \in Int /\ total \in Int
            /\ st.len = total - 1 - st.wrote
            /\ st.len > 1 => st.said = st.wrote
        BY <2>4 DEF Fits, Typed
      <3>2. /\ st.wrote + Least(n, st.len - 1) < total
            /\ Least(n, st.len - 1) > 0 => st.said = st.wrote
            /\ n < st.len => n = Least(n, st.len - 1)
        BY <1>1, <3>1 DEF Least
      <3> QED BY <1>1, <2>1, <2>2, <2>4, <3>2, PutFits
    <2> QED BY <2>3, <2>4
  <1>2. CASE ~(st.len > 0)
    <2>1. Text(st, n) = [st EXCEPT !.said = @ + n]
      BY <1>2 DEF Text
    <2>2. Text(st, n) = [len |-> st.len, wrote |-> st.wrote, said |-> st.said + n,
                         buffer |-> st.buffer, stray |-> st.stray]
      BY <2>1 DEF Typed
    <2>3. Typed(Text(st, n))
      BY <2>2 DEF Typed
    <2>4. ASSUME Fits(st) PROVE Fits(Text(st, n))
      BY <1>2, <2>2, <2>3, <2>4 DEF Fits, Typed, Shows, HeldTo
    <2> QED BY <2>3, <2>4
  <1> QED BY <1>1, <1>2

\* A binary keeps it when there is room (riak_binary_print).
LEMMA BinaryFits ==
    ASSUME total \in Nat \ {0}, NEW st, NEW n \in Nat, Typed(st)
    PROVE  Typed(Binary(st, n)) /\ (Fits(st) /\ st.len > 0 => Fits(Binary(st, n)))
  <1> DEFINE shown == IF st.len > 0 THEN Least(n, st.len - 1) ELSE n
  <1>1. shown \in Nat
    BY DEF Least, Typed
  <1>2. Binary(st, n) = Put(st, shown, st.len # 0, shown, n)
    BY DEF Binary
  <1>3. Typed(Binary(st, n))
    BY <1>1, <1>2, PutTyped
  <1>4. ASSUME Fits(st), st.len > 0 PROVE Fits(Binary(st, n))
    <2>1. (st.len # 0) = TRUE
      BY <1>4 DEF Typed
    <2>2. /\ st.len \in Int /\ st.wrote \in Int /\ total \in Int
          /\ st.len = total - 1 - st.wrote
          /\ st.len > 1 => st.said = st.wrote
      BY <1>4 DEF Fits, Typed
    <2>3. /\ st.wrote + shown < total
          /\ shown > 0 => st.said = st.wrote
          /\ shown < st.len - 1 => shown = n
          /\ n = 0 => shown = 0
      BY <1>4, <2>2 DEF Least
    <2> HIDE DEF shown
    <2>4. Fits(Put(st, shown, TRUE, shown, n))
      BY <1>1, <1>4, <2>3, PutFits
    <2> QED BY <1>2, <2>1, <2>4
  <1> QED BY <1>3, <1>4

\* So does a binary printed as digits (riak_binary_hex_print).
LEMMA HexFits ==
    ASSUME total \in Nat \ {0}, NEW st, NEW n \in Nat, Typed(st)
    PROVE  Typed(Hex(st, n)) /\ (Fits(st) /\ st.len > 0 => Fits(Hex(st, n)))
  <1> DEFINE shown == IF st.len > 0 THEN 2 * Least(n, st.len \div 2) ELSE 2 * n
  <1>1. shown \in Nat /\ 2 * n \in Nat
    BY DEF Least, Typed
  <1>2. Hex(st, n) = Put(st, shown, st.len # 0, shown, 2 * n)
    BY DEF Hex
  <1>3. Typed(Hex(st, n))
    BY <1>1, <1>2, PutTyped
  <1>4. ASSUME Fits(st), st.len > 0 PROVE Fits(Hex(st, n))
    <2>1. (st.len # 0) = TRUE
      BY <1>4 DEF Typed
    <2>2. /\ st.len \in Int /\ st.wrote \in Int /\ total \in Int
          /\ st.len = total - 1 - st.wrote
          /\ st.len > 1 => st.said = st.wrote
      BY <1>4 DEF Fits, Typed
    <2>3. /\ st.wrote + shown < total
          /\ shown > 0 => st.said = st.wrote
          /\ shown < st.len - 1 => shown = 2 * n
          /\ 2 * n = 0 => shown = 0
      BY <1>4, <2>2 DEF Least
    <2> HIDE DEF shown
    <2>4. Fits(Put(st, shown, TRUE, shown, 2 * n))
      BY <1>1, <1>4, <2>3, PutFits
    <2> QED BY <1>2, <2>1, <2>4
  <1> QED BY <1>3, <1>4

\* A line of a name and a binary keeps it: what comes behind the name is looked
\* at only if there is room.
LEMMA LabelFits ==
    ASSUME total \in Nat \ {0}, NEW st, NEW name \in Nat \ {0}, NEW n \in Nat, Typed(st)
    PROVE  /\ Typed(Label(st, name, n)) /\ (Fits(st) => Fits(Label(st, name, n)))
           /\ Typed(LabelHex(st, name, n)) /\ (Fits(st) => Fits(LabelHex(st, name, n)))
  <1> DEFINE named  == Text(st, name)
             middle == IF named.len > 0 THEN Binary(named, n) ELSE named
             digits == IF named.len > 0 THEN Hex(named, n) ELSE named
  <1>1. Typed(named) /\ (Fits(st) => Fits(named))
    BY TextFits
  <1>2. named.said > 0
    BY DEF Text, Put, Typed
  <1> HIDE DEF named
  <1>3. Typed(middle) /\ (Fits(named) => Fits(middle))
    BY <1>1, <1>2, BinaryFits
  <1>4. Typed(digits) /\ (Fits(named) => Fits(digits))
    BY <1>1, <1>2, HexFits
  <1> HIDE DEF middle, digits
  <1>5. Typed(Text(middle, 1)) /\ (Fits(middle) => Fits(Text(middle, 1)))
    BY <1>3, TextFits
  <1>6. Typed(Text(digits, 1)) /\ (Fits(digits) => Fits(Text(digits, 1)))
    BY <1>4, TextFits
  <1>7. Label(st, name, n) = Text(middle, 1) /\ LabelHex(st, name, n) = Text(digits, 1)
    BY DEF Label, LabelHex, middle, digits, named
  <1> QED BY <1>1, <1>3, <1>4, <1>5, <1>6, <1>7

-----------------------------------------------------------------------------
(* The invariant holds. *)

\* The invariant of the printing library holds, initially and after each step.
LEMMA InitInv == Init => Inv
  <1> SUFFICES ASSUME Init PROVE Inv
    OBVIOUS
  <1>1. total \in Nat \ {0} /\ bare = FALSE
    BY TextAssumption DEF Init
  <1>2. state = [len |-> total - 1, wrote |-> 0, said |-> 0,
                 buffer |-> [i \in 0..(total - 1) |-> Untouched], stray |-> FALSE]
    BY DEF Init
  <1>3. Typed(state)
    BY <1>1, <1>2 DEF Typed, Untouched
  <1>4. state.len = total - 1 /\ state.wrote = 0 /\ state.said = 0 /\ state.stray = FALSE
    BY <1>2
  <1>5. Fits(state)
    BY <1>1, <1>3, <1>4 DEF Fits, HeldTo
  <1> QED BY <1>1, <1>3, <1>5 DEF Inv

\* A step that leaves the printing state alone.
LEMMA SameState ==
    ASSUME Inv, UNCHANGED <<total, state, bare>>
    PROVE  Inv'
  BY DEF Inv, Typed, Fits, Shows, HeldTo

LEMMA NextInv == Inv /\ [Next]_vars => Inv'
  <1> SUFFICES ASSUME Inv, [Next]_vars PROVE Inv'
    OBVIOUS
  <1> DEFINE Kept(st) == Typed(st) /\ (~bare => Fits(st))
  <1>a. total \in Nat \ {0} /\ Typed(state) /\ bare \in BOOLEAN /\ (~bare => Fits(state))
    BY DEF Inv
  <1>b. ASSUME total' = total, bare' = bare, Kept(state') PROVE Inv'
    BY <1>a, <1>b DEF Inv, Typed, Fits, Shows, HeldTo
  <1>1. CASE Begin \/ Compare \/ Connect \/ Absent \/ While \/ Stopped \/ UNCHANGED vars
    BY <1>1, SameState DEF Begin, Compare, Connect, Absent, While, Stopped, vars
  <1>2. CASE PrintText
    <2>1. PICK n \in Texts : state' = Text(state, n)
      BY <1>2 DEF PrintText
    <2>2. Kept(state')
      BY <1>a, <2>1, TextFits, TextAssumption
    <2> QED BY <1>2, <1>b, <2>2 DEF PrintText
  <1>3. CASE PrintRaw
    <2>1. PICK n \in Sizes : state' = Binary(state, n)
      BY <1>3 DEF PrintRaw
    <2>2. total' = total /\ bare' = (bare \/ state.len <= 0)
      BY <1>3 DEF PrintRaw
    <2>3. state.len \in Int
      BY <1>a DEF Typed
    <2>4. n \in Nat
      BY TextAssumption
    <2>5. Typed(state') /\ (Fits(state) /\ state.len > 0 => Fits(state'))
      BY <1>a, <2>1, <2>4, BinaryFits
    <2>6. ~bare' => ~bare /\ state.len > 0
      <3> SUFFICES ASSUME ~bare' PROVE ~bare /\ state.len > 0
        OBVIOUS
      <3>1. ~(bare \/ state.len <= 0)
        BY <2>2
      <3>2. ~bare /\ ~(state.len <= 0)
        BY <3>1
      <3> QED BY <3>2, <2>3
    <2>7. bare' \in BOOLEAN
      BY <2>2
    <2>8. Typed(state)' /\ (~bare' => Fits(state)')
      BY <1>a, <2>2, <2>5, <2>6 DEF Typed, Fits, Shows, HeldTo
    <2> QED BY <1>a, <2>2, <2>7, <2>8 DEF Inv
  <1>4. CASE PrintLabel
    <2>1. PICK name \in Texts, n \in Sizes : state' = Label(state, name, n)
      BY <1>4 DEF PrintLabel
    <2>2. Kept(state')
      BY <1>a, <2>1, LabelFits, TextAssumption
    <2> QED BY <1>4, <1>b, <2>2 DEF PrintLabel
  <1>5. CASE PrintHex
    <2>1. PICK name \in Texts, n \in Sizes : state' = LabelHex(state, name, n)
      BY <1>5 DEF PrintHex
    <2>2. Kept(state')
      BY <1>a, <2>1, LabelFits, TextAssumption
    <2> QED BY <1>5, <1>b, <2>2 DEF PrintHex
  <1> QED BY <1>1, <1>2, <1>3, <1>4, <1>5 DEF Next

\* With it the buffer shows the beginning.
LEMMA InvShown == Inv => Shown
  <1> SUFFICES ASSUME Inv, ~bare, total > 1, state.said > 0
               PROVE  \E k \in 0..(total - 1) : Shows(state, k)
    BY DEF Inv, Fits, Shown
  <1>a. /\ state.wrote \in Nat /\ total \in Nat /\ state.len \in Int /\ state.said \in Nat
        /\ state.len = total - 1 - state.wrote
        /\ Fits(state)
    BY DEF Inv, Typed
  <1>1. CASE state.len > 0
    <2>1. Shows(state, state.wrote)
      BY <1>1, <1>a DEF Fits, Shows, HeldTo
    <2> QED BY <1>1, <1>a, <2>1
  <1>2. CASE ~(state.len > 0)
    BY <1>2, <1>a DEF Fits
  <1> QED BY <1>1, <1>2

\* The printing library never writes outside of the buffer and leaves the
\* beginning of the text in it, NUL-terminated, for every size of the buffer and
\* every text, as long as riak_print_binary is called with some room.
THEOREM TextShown == Spec => []Shown
  <1>1. Spec => []Inv
    BY InitInv, NextInv, PTL DEF Spec
  <1> QED BY <1>1, InvShown, PTL

-----------------------------------------------------------------------------
(* Names.                                                                   *)

\* The names of a connection were copied one after the other.
Named ==
    \/ names = NoNames
    \/ \E host, port \in Nat :
          names = [host |-> host, port |-> port, memory |-> StoreNames(host, port)]

\* What is where after both copies.
LEMMA StoredFacts ==
    ASSUME NEW host \in Nat, NEW port \in Nat, NEW memory, memory = StoreNames(host, port)
    PROVE  /\ host < NameSize => /\ \A i \in 0..(host - 1) : memory[i] = <<"host", i + 1>>
                                 /\ memory[host] = <<"nul", 0>>
           /\ port < NameSize => /\ \A i \in 0..(port - 1) : memory[NameSize + i] = <<"port", i + 1>>
                                 /\ memory[NameSize + port] = <<"nul", 0>>
           /\ memory[2 * NameSize] = <<"nul", 0>>
  <1> DEFINE N     == NameSize
             first == StrlCpy(Cleared, 0, "host", host, N)
             h     == Least(host, N)
             p     == Least(port, N)
  <1>1. N \in Nat \ {0} /\ h \in Nat /\ p \in Nat
    BY TextAssumption DEF Least
  <1>2. (host < N => h = host) /\ (port < N => p = port) /\ h <= N /\ p <= N
    BY <1>1 DEF Least
  <1>3. DOMAIN Cleared = 0..(2 * N) /\ \A i \in 0..(2 * N) : Cleared[i] = <<"nul", 0>>
    BY DEF Cleared
  <1>4. DOMAIN first = 0..(2 * N)
    BY <1>3 DEF StrlCpy
  <1>5. ASSUME NEW i \in 0..(2 * N)
        PROVE  first[i] = IF i \in 0..(h - 1) THEN <<"host", i + 1>> ELSE <<"nul", 0>>
    <2>1. first[i] = IF i \in 0..(0 + h - 1) THEN <<"host", i - 0 + 1>>
                     ELSE IF i = 0 + h THEN <<"nul", 0>> ELSE Cleared[i]
      BY <1>3 DEF StrlCpy
    <2>2. i - 0 + 1 = i + 1 /\ 0 + h - 1 = h - 1
      BY <1>1
    <2>3. QED  BY <1>3, <2>1, <2>2
  <1>6. ASSUME NEW i \in 0..(2 * N)
        PROVE  memory[i] = IF i \in N..(N + p - 1) THEN <<"port", i - N + 1>>
                           ELSE IF i = N + p THEN <<"nul", 0>> ELSE first[i]
    <2>1. memory = StrlCpy(first, N, "port", port, N)
      BY DEF StoreNames
    <2> HIDE DEF first
    <2>2. QED  BY <1>4, <2>1 DEF StrlCpy
  <1> HIDE DEF first, h, p, N
  <1>7. ASSUME NEW i \in 0..(N - 1) PROVE memory[i] = first[i]
    <2>1. i \in 0..(2 * N) /\ i \notin N..(N + p - 1) /\ i # N + p
      BY <1>1
    <2>2. QED  BY <1>6, <2>1
  <1>8. ASSUME host < N
        PROVE  /\ \A i \in 0..(host - 1) : memory[i] = <<"host", i + 1>>
               /\ memory[host] = <<"nul", 0>>
    <2>1. ASSUME NEW i \in 0..(host - 1) PROVE memory[i] = <<"host", i + 1>>
      <3>1. i \in 0..(N - 1) /\ i \in 0..(2 * N) /\ i \in 0..(h - 1)
        BY <1>1, <1>2, <1>8
      <3>2. QED  BY <1>5, <1>7, <3>1
    <2>2. host \in 0..(N - 1) /\ host \in 0..(2 * N) /\ host \notin 0..(h - 1)
      BY <1>1, <1>2, <1>8
    <2>3. QED  BY <1>5, <1>7, <2>1, <2>2
  <1>9. ASSUME port < N
        PROVE  /\ \A i \in 0..(port - 1) : memory[N + i] = <<"port", i + 1>>
               /\ memory[N + port] = <<"nul", 0>>
    <2>1. ASSUME NEW i \in 0..(port - 1) PROVE memory[N + i] = <<"port", i + 1>>
      <3>1. N + i \in 0..(2 * N) /\ N + i \in N..(N + p - 1) /\ (N + i) - N + 1 = i + 1
        BY <1>1, <1>2, <1>9
      <3>2. QED  BY <1>6, <3>1
    <2>2. N + port \in 0..(2 * N) /\ N + port \notin N..(N + p - 1) /\ N + port = N + p
      BY <1>1, <1>2, <1>9
    <2>3. QED  BY <1>6, <2>1, <2>2
  <1>10. memory[2 * N] = <<"nul", 0>>
    <2>1. 2 * N \in 0..(2 * N) /\ 2 * N \notin N..(N + p - 1) /\ 2 * N \notin 0..(h - 1)
      BY <1>1, <1>2
    <2>2. QED  BY <1>5, <1>6, <2>1
  <1>11. QED  BY <1>8, <1>9, <1>10 DEF N

\* Names copied so are whole.
LEMMA NamedWhole == Named => NamesWhole
  <1>1. SUFFICES ASSUME Named PROVE NamesWhole
    OBVIOUS
  <1>2. NameSize \in Nat \ {0}
    BY TextAssumption
  <1>3. CASE names = NoNames
    <2>1. /\ names.host = 0 /\ names.port = 0
          /\ \A i \in 0..(2 * NameSize) : names.memory[i] = <<"nul", 0>>
      BY <1>3 DEF NoNames, Cleared
    <2>2. /\ 0 \in 0..(2 * NameSize) /\ NameSize \in 0..(2 * NameSize)
          /\ 2 * NameSize \in 0..(2 * NameSize) /\ 0 + 0 = 0 /\ NameSize + 0 = NameSize /\ 1..0 = {}
      BY <1>2
    <2>3. QED  BY <2>1, <2>2 DEF NamesWhole, Reads
  <1>4. CASE \E host, port \in Nat :
               names = [host |-> host, port |-> port, memory |-> StoreNames(host, port)]
    <2>1. PICK host \in Nat, port \in Nat :
               names = [host |-> host, port |-> port, memory |-> StoreNames(host, port)]
      BY <1>4
    <2> DEFINE memory == names.memory
    <2>2. names.host = host /\ names.port = port /\ memory = StoreNames(host, port)
      BY <2>1
    <2> HIDE DEF memory
    <2>3. /\ host < NameSize => /\ \A i \in 0..(host - 1) : memory[i] = <<"host", i + 1>>
                                /\ memory[host] = <<"nul", 0>>
          /\ port < NameSize => /\ \A i \in 0..(port - 1) : memory[NameSize + i] = <<"port", i + 1>>
                                /\ memory[NameSize + port] = <<"nul", 0>>
          /\ memory[2 * NameSize] = <<"nul", 0>>
      BY <2>2, StoredFacts
    <2>4. ASSUME host < NameSize PROVE Reads(0, "host", host)
      <3>1. ASSUME NEW i \in 1..host PROVE memory[0 + i - 1] = <<"host", i>>
        <4>1. i - 1 \in 0..(host - 1) /\ (i - 1) + 1 = i /\ 0 + i - 1 = i - 1
          OBVIOUS
        <4>2. memory[i - 1] = <<"host", (i - 1) + 1>>
          BY <2>3, <2>4, <4>1
        <4>3. QED  BY <4>1, <4>2
      <3>2. 0 + host = host
        OBVIOUS
      <3>3. memory[0 + host] = <<"nul", 0>>
        BY <2>3, <2>4, <3>2
      <3>4. QED  BY <3>1, <3>3 DEF Reads, memory
    <2>5. ASSUME port < NameSize PROVE Reads(NameSize, "port", port)
      <3>1. ASSUME NEW i \in 1..port PROVE memory[NameSize + i - 1] = <<"port", i>>
        <4>1. i - 1 \in 0..(port - 1) /\ (i - 1) + 1 = i /\ NameSize + i - 1 = NameSize + (i - 1)
          BY <1>2
        <4>2. memory[NameSize + (i - 1)] = <<"port", (i - 1) + 1>>
          BY <2>3, <2>5, <4>1
        <4>3. QED  BY <4>1, <4>2
      <3>2. memory[NameSize + port] = <<"nul", 0>>
        BY <2>3, <2>5
      <3>3. QED  BY <3>1, <3>2 DEF Reads, memory
    <2>6. QED  BY <2>2, <2>3, <2>4, <2>5 DEF NamesWhole, memory
  <1>5. QED  BY <1>1, <1>3, <1>4 DEF Named

\* There are no names but copied ones, initially and after each step.
LEMMA NamedInit == Init => Named
  BY DEF Init, Named

LEMMA NamedNext == Named /\ [Next]_vars => Named'
  <1>1. SUFFICES ASSUME Named, [Next]_vars PROVE Named'
    OBVIOUS
  <1>2. ASSUME names' = names PROVE Named'
    BY <1>1, <1>2 DEF Named
  <1>3. ASSUME names' = NoNames PROVE Named'
    BY <1>3 DEF Named, NoNames, Cleared
  <1>4. CASE Connect
    <2>1. PICK host \in 0..(NameSize + 1), port \in 0..(NameSize + 1) :
               names' = [host |-> host, port |-> port, memory |-> StoreNames(host, port)]
      BY <1>4 DEF Connect
    <2>2. host \in Nat /\ port \in Nat
      BY TextAssumption
    <2>3. QED  BY Zenon, <2>1, <2>2 DEF Named, StoreNames, StrlCpy, Cleared, Least
  <1>5. CASE Begin \/ Compare
    BY <1>3, <1>5 DEF Begin, Compare
  <1>6. CASE Absent \/ PrintText \/ PrintRaw \/ PrintLabel \/ PrintHex \/ While \/ Stopped \/ UNCHANGED vars
    BY <1>2, <1>6 DEF Absent, PrintText, PrintRaw, PrintLabel, PrintHex, While, Stopped, vars
  <1>7. QED  BY <1>1, <1>4, <1>5, <1>6 DEF Next

\* Of a connection's names of any length, one that leaves room for its NUL in its
\* array reads back whole, however long the other is, and no copy reaches further
\* than the character behind the last array.
THEOREM NamesAreWhole == Spec => []NamesWhole
  <1>1. Spec => []Named
    BY NamedInit, NamedNext, PTL DEF Spec
  <1>2. QED  BY <1>1, NamedWhole, PTL

-----------------------------------------------------------------------------
(* Numbers and concatenations.                                              *)

\* Numbers are well-founded, and so have least ones.
LEMMA Less == IsWellFoundedOn({p \in Nat \X Nat : p[1] < p[2]}, Nat)
  BY NatLessThanWellFounded DEF OpToRel

\* A set of numbers that is not empty has a least.
LEMMA LeastOne ==
    ASSUME NEW T, T \subseteq Nat, T # {}
    PROVE  \E x \in T : \A y \in T : x <= y
<1> DEFINE R == {p \in Nat \X Nat : p[1] < p[2]}
<1>1. PICK x \in T : \A y \in T : ~(<<y, x>> \in R)
  <2> HIDE DEF R
  <2>1. IsWellFoundedOn(R, Nat)
    BY Less DEF R
  <2>2. QED  BY <2>1, WFMin
<1>2. ASSUME NEW y \in T PROVE x <= y
  <2>1. x \in Nat /\ y \in Nat
    OBVIOUS
  <2>2. ~(y < x)
    <3>1. y < x => <<y, x>> \in R
      BY <2>1
    <3>2. QED  BY <1>1, <3>1
  <2>3. QED  BY <2>1, <2>2
<1>3. QED  BY <1>2

\* A set of numbers with 0 and with each number's successor has them all.
LEMMA Induct ==
    ASSUME NEW S, 0 \in S, \A n \in Nat : n \in S => n + 1 \in S
    PROVE  Nat \subseteq S
<1> DEFINE T == Nat \ S
<1>1. SUFFICES ASSUME T # {} PROVE FALSE
  OBVIOUS
<1>2. PICK x \in T : \A y \in T : x <= y
  <2>1. T \subseteq Nat
    OBVIOUS
  <2> HIDE DEF T
  <2>2. QED  BY <1>1, <2>1, LeastOne
<1>3. x \in Nat /\ x # 0 /\ x - 1 \in Nat
  OBVIOUS
<1>4. x - 1 \in T
  BY <1>3
<1>5. QED  BY <1>2, <1>3, <1>4

\* f[i] is the concatenation of the first i of ss, as FlattenSeq has it.
Concats(ss, f, n) == f = [i \in 1..n |-> IF i = 1 THEN ss[i] ELSE f[i - 1] \o ss[i]]

\* The i-th beginning of a concatenation.
LEMMA ConcatsAt ==
    ASSUME NEW ss, NEW f, NEW n \in Nat, Concats(ss, f, n), NEW i \in 1..n
    PROVE  f[i] = IF i = 1 THEN ss[i] ELSE f[i - 1] \o ss[i]
BY DEF Concats

\* There are such beginnings, which FlattenSeq chooses.
LEMMA ConcatsExist ==
    ASSUME NEW ss, NEW n \in Nat
    PROVE  \E f : Concats(ss, f, n)
<1> DEFINE P == {m \in Nat : \E f : Concats(ss, f, m)}
<1>1. 0 \in P
  <2> DEFINE f == [i \in 1..0 |-> ss]
  <2>1. f = [i \in 1..0 |-> IF i = 1 THEN ss[i] ELSE f[i - 1] \o ss[i]]
    OBVIOUS
  <2> HIDE DEF f
  <2>2. Concats(ss, f, 0)
    BY <2>1 DEF Concats
  <2>3. QED  BY <2>2
<1>2. ASSUME NEW m \in Nat, m \in P PROVE m + 1 \in P
  <2>1. PICK f : Concats(ss, f, m)
    BY <1>2
  <2> DEFINE new == IF m + 1 = 1 THEN ss[m + 1] ELSE f[m] \o ss[m + 1]
             g == [i \in 1..(m + 1) |-> IF i = m + 1 THEN new ELSE f[i]]
             h == [i \in 1..(m + 1) |-> IF i = 1 THEN ss[i] ELSE g[i - 1] \o ss[i]]
  <2>2. \A i \in 1..m : g[i] = f[i]
    OBVIOUS
  <2>3. g[m + 1] = new
    OBVIOUS
  <2> HIDE DEF g
  <2>4. ASSUME NEW i \in 1..(m + 1) PROVE g[i] = h[i]
    <3>1. CASE i = m + 1
      <4>1. i # 1 => i - 1 = m /\ m \in 1..m
        BY <3>1
      <4>2. i # 1 => g[i - 1] = f[m]
        BY <2>2, <4>1
      <4>3. QED  BY <2>3, <3>1, <4>2
    <3>2. CASE i # m + 1
      <4>1. i \in 1..m /\ (i # 1 => i - 1 \in 1..m)
        BY <3>2
      <4>2. f[i] = IF i = 1 THEN ss[i] ELSE f[i - 1] \o ss[i]
        BY <2>1, <4>1, ConcatsAt
      <4>3. QED  BY <2>2, <4>1, <4>2
    <3>3. QED  BY <3>1, <3>2
  <2>5. g = h
    <3>1. g = [i \in 1..(m + 1) |-> g[i]]
      BY DEF g
    <3>2. QED  BY <2>4, <3>1
  <2>6. Concats(ss, g, m + 1)
    BY <2>5 DEF Concats
  <2>7. QED  BY <2>6
<1>3. Nat \subseteq P
  <2> HIDE DEF P
  <2>1. QED  BY <1>1, <1>2, Induct
<1>4. QED  BY <1>3

\* What holds of a concatenation's beginnings holds of it.
LEMMA FlattenIn ==
    ASSUME NEW T, NEW ss \in Seq(Seq(T)), NEW C,
           <<>> \in C[0],
           \A i \in 1..Len(ss) : \A a \in Seq(T) : a \in C[i - 1] => a \o ss[i] \in C[i]
    PROVE  FlattenSeq(ss) \in Seq(T) /\ FlattenSeq(ss) \in C[Len(ss)]
<1> DEFINE n == Len(ss)
<1>1. n \in Nat /\ \A i \in 1..n : ss[i] \in Seq(T)
  OBVIOUS
<1>2. CASE n = 0
  <2>1. ss = <<>>
    BY <1>2
  <2>2. FlattenSeq(ss) = <<>> /\ <<>> \in Seq(T)
    BY <1>2, <2>1 DEF FlattenSeq
  <2>3. QED  BY <1>2, <2>2
<1>3. CASE n # 0
  <2> DEFINE c == CHOOSE c : Concats(ss, c, n)
  <2>1. Concats(ss, c, n)
    BY <1>1, ConcatsExist
  <2>2. FlattenSeq(ss) = c[n]
    BY <1>3 DEF FlattenSeq, Concats
  <2> HIDE DEF c
  <2> DEFINE P == {i \in Nat : i \in 1..n => c[i] \in Seq(T) /\ c[i] \in C[i]}
  <2>3. 0 \in P
    OBVIOUS
  <2>4. ASSUME NEW i \in Nat, i \in P PROVE i + 1 \in P
    <3> SUFFICES ASSUME i + 1 \in 1..n PROVE c[i + 1] \in Seq(T) /\ c[i + 1] \in C[i + 1]
      OBVIOUS
    <3> DEFINE k == i + 1
    <3>1. k \in 1..n /\ k - 1 = i
      BY <1>1
    <3> HIDE DEF k
    <3>2. c[k] = IF k = 1 THEN ss[k] ELSE c[i] \o ss[k]
      BY <1>1, <2>1, <3>1, ConcatsAt
    <3>3. \A a \in Seq(T) : a \in C[i] => a \o ss[k] \in C[k] /\ a \o ss[k] \in Seq(T)
      BY <1>1, <3>1
    <3>4. CASE k = 1
      <4>1. i = 0 /\ <<>> \in Seq(T) /\ ss[k] \in Seq(T)
        BY <1>1, <3>1, <3>4
      <4>2. <<>> \o ss[k] = ss[k]
        BY <4>1
      <4>3. <<>> \o ss[k] \in C[k]
        BY <3>3, <4>1
      <4>4. QED  BY <3>2, <3>4, <4>1, <4>2, <4>3 DEF k
    <3>5. CASE k # 1
      <4>1. i \in 1..n
        BY <1>1, <3>1, <3>5
      <4>2. c[i] \in Seq(T) /\ c[i] \in C[i]
        BY <2>4, <4>1
      <4>3. QED  BY <3>2, <3>3, <3>5, <4>2 DEF k
    <3>6. QED  BY <3>4, <3>5
  <2>5. Nat \subseteq P
    <3> HIDE DEF P
    <3>1. QED  BY <2>3, <2>4, Induct
  <2>6. n \in 1..n /\ n \in P
    BY <1>1, <1>3, <2>5
  <2>7. QED  BY <2>2, <2>6
<1>4. QED  BY <1>2, <1>3

\* A set of series that is closed under concatenation has what is made for each
\* of several things.
LEMMA SeriesIn ==
    ASSUME NEW T, NEW C, C \subseteq Seq(T), <<>> \in C, \A a, b \in C : a \o b \in C,
           NEW n \in Nat, NEW ss \in [1..n -> C]
    PROVE  FlattenSeq(ss) \in C
<1> DEFINE D == [i \in Nat |-> C]
<1>1. ss \in Seq(Seq(T)) /\ Len(ss) = n
  OBVIOUS
<1>2. \A i \in Nat : D[i] = C
  OBVIOUS
<1> HIDE DEF D
<1>3. \A i \in 1..n : \A a \in Seq(T) : a \in D[i - 1] => a \o ss[i] \in D[i]
  <2>1. \A i \in 1..n : i \in Nat /\ i - 1 \in Nat /\ ss[i] \in C
    OBVIOUS
  <2>2. QED  BY <1>2, <2>1
<1>4. FlattenSeq(ss) \in D[n]
  BY <1>1, <1>2, <1>3, FlattenIn
<1>5. QED  BY <1>2, <1>4

\* Whatever is made of steps of a set for each of several things is a series of them.
LEMMA AllIn ==
    ASSUME NEW S, NEW n \in Nat, NEW ss \in [1..n -> Seq(S)]
    PROVE  FlattenSeq(ss) \in Seq(S)
<1>1. <<>> \in Seq(S) /\ \A a, b \in Seq(S) : a \o b \in Seq(S)
  OBVIOUS
<1>2. QED  BY <1>1, SeriesIn

\* Two series of steps make one, of which each element is a step.
LEMMA CatIn ==
    ASSUME NEW S, NEW a \in Seq(S), NEW b \in Seq(S)
    PROVE  a \o b \in Seq(S)
OBVIOUS

LEMMA ElementIn ==
    ASSUME NEW S, NEW q \in Seq(S), NEW k \in DOMAIN q
    PROVE  q[k] \in S
OBVIOUS

-----------------------------------------------------------------------------
(* Comparing.                                                               *)

Verdicts == {"same", "binary", "number", "crashed"}

AllSame(q) == \A k \in DOMAIN q : q[k] = "same"

\* The k-th check is the first that tells.
Tells(q, k) == k \in DOMAIN q /\ q[k] # "same" /\ \A j \in DOMAIN q : j < k => q[j] = "same"

\* Checks of two things: they find nothing only if the things are equal, differences
\* only if they are not, and what is not there first only if it is bad.
Fair(q, equal, bad) ==
    /\ q \in Seq(Verdicts)
    /\ AllSame(q) => equal
    /\ equal => \A k \in DOMAIN q : q[k] \in {"same", "crashed"}
    /\ \A k \in DOMAIN q : Tells(q, k) /\ q[k] = "crashed" => bad

\* The first check that tells decides.
LEMMA DecidedFacts ==
    ASSUME NEW S, NEW q \in Seq(S)
    PROVE  \/ AllSame(q) /\ Decided(q) = "same"
           \/ \E k \in DOMAIN q : Tells(q, k) /\ Decided(q) = q[k]
<1> DEFINE telling == {i \in DOMAIN q : q[i] # "same"}
<1>1. CASE telling = {}
  BY <1>1 DEF Decided, AllSame
<1>2. CASE telling # {}
  <2> DEFINE k == Min(telling)
  <2>1. telling \subseteq Nat
    OBVIOUS
  <2>2. k \in telling /\ \A j \in telling : k <= j
    <3> HIDE DEF telling
    <3>1. QED  BY <1>2, <2>1, LeastOne DEF Min
  <2>3. Decided(q) = q[k]
    BY <1>2 DEF Decided
  <2>4. Tells(q, k)
    <3>1. k \in DOMAIN q /\ q[k] # "same"
      BY <2>2
    <3>2. ASSUME NEW j \in DOMAIN q, j < k PROVE q[j] = "same"
      <4>1. j \in Nat /\ k \in Nat
        BY <2>1, <2>2
      <4> HIDE DEF k
      <4>2. QED  BY <2>2, <3>2, <4>1
    <3>3. QED  BY Zenon, <3>1, <3>2 DEF Tells
  <2>5. QED  BY Zenon, <2>3, <2>4 DEF Tells
<1>3. QED  BY <1>1, <1>2

\* What checks that are fair decide.
LEMMA FairDecides ==
    ASSUME NEW q, NEW equal \in BOOLEAN, NEW bad \in BOOLEAN, Fair(q, equal, bad)
    PROVE  /\ Decided(q) \in Verdicts
           /\ Decided(q) = "crashed" => bad
           /\ Decided(q) = "same" => AllSame(q) /\ equal
           /\ equal => Decided(q) \in {"same", "crashed"}
<1>1. q \in Seq(Verdicts)
  BY Zenon DEF Fair
<1>2. CASE AllSame(q) /\ Decided(q) = "same"
  <2>1. equal
    BY Zenon, <1>2 DEF Fair
  <2>2. QED  BY <1>2, <2>1 DEF Verdicts
<1>3. CASE \E k \in DOMAIN q : Tells(q, k) /\ Decided(q) = q[k]
  <2>1. PICK k \in DOMAIN q : Tells(q, k) /\ Decided(q) = q[k]
    BY <1>3
  <2>2. q[k] \in Verdicts /\ q[k] # "same"
    <3>1. q[k] \in Verdicts
      BY Zenon, <1>1, ElementIn
    <3>2. QED  BY Zenon, <2>1, <3>1 DEF Tells
  <2>3. q[k] = "crashed" => bad
    BY Zenon, <2>1 DEF Fair
  <2>4. equal => q[k] \in {"same", "crashed"}
    BY Zenon DEF Fair
  <2>5. QED  BY <2>1, <2>2, <2>3, <2>4
<1>4. QED  BY <1>1, <1>2, <1>3, DecidedFacts

\* Checks behind others, which are not made if those tell.
LEMMA FairCat ==
    ASSUME NEW a, NEW b, NEW e1 \in BOOLEAN, NEW e2 \in BOOLEAN, NEW b1 \in BOOLEAN, NEW b2 \in BOOLEAN,
           Fair(a, e1, b1), Fair(b, e2, b2), NEW equal \in BOOLEAN, NEW bad \in BOOLEAN,
           equal <=> e1 /\ e2, b1 => bad, AllSame(a) /\ b2 => bad
    PROVE  Fair(a \o b, equal, bad)
<1> DEFINE c == a \o b
           m == Len(a)
           n == Len(b)
           V == Verdicts
<1>1. a \in Seq(V) /\ b \in Seq(V)
  BY Zenon DEF Fair
<1> HIDE DEF V
<1>2. /\ m \in Nat /\ n \in Nat /\ DOMAIN a = 1..m /\ DOMAIN b = 1..n /\ DOMAIN c = 1..(m + n)
      /\ \A k \in 1..m : k \in 1..(m + n) /\ c[k] = a[k]
      /\ \A k \in 1..n : m + k \in 1..(m + n) /\ c[m + k] = b[k]
      /\ \A k \in 1..(m + n) : k \in 1..m \/ (k - m \in 1..n /\ c[k] = b[k - m])
      /\ c \in Seq(V)
  BY <1>1
<1> HIDE DEF c, m, n
<1>3. AllSame(c) => AllSame(a) /\ AllSame(b)
  <2>1. SUFFICES ASSUME AllSame(c) PROVE AllSame(a) /\ AllSame(b)
    OBVIOUS
  <2>2. ASSUME NEW k \in DOMAIN a PROVE a[k] = "same"
    <3>1. k \in DOMAIN c /\ c[k] = a[k]
      BY <1>2
    <3>2. QED  BY Zenon, <2>1, <3>1 DEF AllSame
  <2>3. ASSUME NEW k \in DOMAIN b PROVE b[k] = "same"
    <3>1. m + k \in DOMAIN c /\ c[m + k] = b[k]
      BY <1>2
    <3>2. QED  BY Zenon, <2>1, <3>1 DEF AllSame
  <2>4. QED  BY Zenon, <2>2, <2>3 DEF AllSame
<1>4. AllSame(c) => equal
  BY Zenon, <1>3 DEF Fair
<1>5. ASSUME equal, NEW k \in DOMAIN c PROVE c[k] \in {"same", "crashed"}
  <2>1. CASE k \in 1..m
    <3>1. k \in DOMAIN a /\ c[k] = a[k]
      BY <1>2, <2>1
    <3>2. QED  BY Zenon, <1>5, <3>1 DEF Fair
  <2>2. CASE k - m \in 1..n /\ c[k] = b[k - m]
    <3>1. k - m \in DOMAIN b
      BY <1>2, <2>2
    <3>2. QED  BY Zenon, <1>5, <2>2, <3>1 DEF Fair
  <2>3. QED  BY <1>2, <2>1, <2>2
<1>6. ASSUME NEW k \in DOMAIN c, Tells(c, k), c[k] = "crashed"
      PROVE  bad
  <2>0. k \in Nat /\ k \in 1..(m + n) /\ c[k] # "same" /\ \A j \in DOMAIN c : j < k => c[j] = "same"
    <3>1. k \in Nat
      BY <1>2
    <3>2. QED  BY Zenon, <1>2, <1>6, <3>1 DEF Tells
  <2>1. CASE k \in 1..m
    <3>1. k \in DOMAIN a /\ c[k] = a[k]
      BY <1>2, <2>1
    <3>2. ASSUME NEW j \in DOMAIN a, j < k PROVE a[j] = "same"
      <4>1. j \in DOMAIN c /\ c[j] = a[j]
        BY <1>2
      <4>2. QED  BY Zenon, <2>0, <3>2, <4>1
    <3>3. Tells(a, k)
      BY Zenon, <2>0, <3>1, <3>2 DEF Tells
    <3>4. QED  BY Zenon, <1>6, <3>1, <3>3 DEF Fair
  <2>2. CASE k - m \in 1..n /\ c[k] = b[k - m]
    <3> DEFINE l == k - m
    <3>1. l \in DOMAIN b /\ c[k] = b[l] /\ l \in Int /\ k = m + l
      BY <1>2, <2>0, <2>2
    <3> HIDE DEF l
    <3>2. ASSUME NEW j \in DOMAIN b, j < l PROVE b[j] = "same"
      <4>1. m + j \in DOMAIN c /\ c[m + j] = b[j] /\ m + j < k
        BY <1>2, <3>1, <3>2
      <4>2. QED  BY Zenon, <2>0, <4>1
    <3>3. Tells(b, l)
      BY Zenon, <2>0, <3>1, <3>2 DEF Tells
    <3>4. ASSUME NEW j \in DOMAIN a PROVE a[j] = "same"
      <4>1. j \in DOMAIN c /\ c[j] = a[j] /\ j < k
        BY <1>2, <2>0, <3>1
      <4>2. QED  BY Zenon, <2>0, <4>1
    <3>5. AllSame(a)
      BY Zenon, <3>4 DEF AllSame
    <3>6. QED  BY Zenon, <1>6, <3>1, <3>3, <3>5 DEF Fair
  <2>3. QED  BY <1>2, <2>0, <2>1, <2>2
<1>7. QED  BY Zenon, <1>2, <1>4, <1>5, <1>6 DEF Fair, c, V

\* Two checks, and three, the later of which are made if the earlier find nothing.
LEMMA FairTwo ==
    ASSUME NEW x \in Verdicts, NEW y \in Verdicts, NEW equal \in BOOLEAN, NEW bad \in BOOLEAN,
           x = "same" /\ y = "same" => equal,
           equal => x \in {"same", "crashed"} /\ y \in {"same", "crashed"},
           x = "crashed" => bad,
           x = "same" /\ y = "crashed" => bad
    PROVE  Fair(<<x, y>>, equal, bad)
<1> DEFINE q == <<x, y>>
           V == Verdicts
<1>1. x \in V /\ y \in V
  OBVIOUS
<1> HIDE DEF V
<1>2. q \in Seq(V) /\ DOMAIN q = {1, 2} /\ q[1] = x /\ q[2] = y
  BY <1>1
<1> HIDE DEF q
<1>3. AllSame(q) => equal
  BY <1>2 DEF AllSame
<1>4. equal => \A k \in DOMAIN q : q[k] \in {"same", "crashed"}
  BY <1>2
<1>5. ASSUME NEW k \in DOMAIN q, Tells(q, k), q[k] = "crashed" PROVE bad
  BY <1>2, <1>5 DEF Tells
<1>6. QED  BY Zenon, <1>2, <1>3, <1>4, <1>5 DEF Fair, q, V

LEMMA FairThree ==
    ASSUME NEW x \in Verdicts, NEW y \in Verdicts, NEW z \in Verdicts,
           NEW equal \in BOOLEAN, NEW bad \in BOOLEAN,
           x = "same" /\ y = "same" /\ z = "same" => equal,
           equal => \A v \in {x, y, z} : v \in {"same", "crashed"},
           x = "crashed" => bad,
           x = "same" /\ y = "crashed" => bad,
           x = "same" /\ y = "same" /\ z = "crashed" => bad
    PROVE  Fair(<<x, y, z>>, equal, bad)
<1> DEFINE q == <<x, y, z>>
           V == Verdicts
<1>1. x \in V /\ y \in V /\ z \in V
  OBVIOUS
<1> HIDE DEF V
<1>2. q \in Seq(V) /\ DOMAIN q = {1, 2, 3} /\ q[1] = x /\ q[2] = y /\ q[3] = z
  BY <1>1
<1> HIDE DEF q
<1>3. AllSame(q) => equal
  BY <1>2 DEF AllSame
<1>4. equal => \A k \in DOMAIN q : q[k] \in {"same", "crashed"}
  BY <1>2
<1>5. ASSUME NEW k \in DOMAIN q, Tells(q, k), q[k] = "crashed" PROVE bad
  BY <1>2, <1>5 DEF Tells
<1>6. QED  BY Zenon, <1>2, <1>3, <1>4, <1>5 DEF Fair, q, V

\* Checks of several things, one after the other.
LEMMA FairAll ==
    ASSUME NEW n \in Nat, NEW ss \in [1..n -> Seq(Verdicts)], NEW e \in [1..n -> BOOLEAN],
           \A i \in 1..n : Fair(ss[i], e[i], FALSE),
           NEW equal \in BOOLEAN, equal <=> \A i \in 1..n : e[i]
    PROVE  Fair(FlattenSeq(ss), equal, FALSE)
<1> DEFINE V == Verdicts
           Upto(i) == \A j \in 1..i : e[j]
           C == [i \in 0..n |-> {q \in Seq(V) : Fair(q, Upto(i), FALSE)}]
<1>1. ss \in Seq(Seq(V)) /\ Len(ss) = n
  <2> HIDE DEF V
  <2>1. ss \in [1..n -> Seq(V)]
    BY DEF V
  <2>2. QED  BY <2>1
<1>2. <<>> \in C[0]
  <2>1. <<>> \in Seq(V) /\ DOMAIN <<>> = {}
    <3> HIDE DEF V
    <3>1. QED  OBVIOUS
  <2>2. Upto(0)
    OBVIOUS
  <2>3. Fair(<<>>, Upto(0), FALSE)
    BY Zenon, <2>1, <2>2 DEF Fair
  <2>4. 0 \in 0..n
    OBVIOUS
  <2>5. QED  BY Zenon, <2>1, <2>3, <2>4
<1>3. ASSUME NEW i \in 1..n, NEW a \in Seq(V), a \in C[i - 1]
      PROVE  a \o ss[i] \in C[i]
  <2>1. i - 1 \in 0..n /\ i \in 0..n /\ ss[i] \in Seq(V)
    BY <1>1
  <2>2. Fair(a, Upto(i - 1), FALSE)
    <3> HIDE DEF Upto
    <3>1. QED  BY Zenon, <1>3, <2>1
  <2>3. Fair(ss[i], e[i], FALSE)
    BY Zenon
  <2>4. (Upto(i - 1) /\ e[i]) <=> Upto(i)
    <3>1. \A j \in 1..i : j \in 1..(i - 1) \/ j = i
      OBVIOUS
    <3>2. \A j \in 1..(i - 1) : j \in 1..i
      OBVIOUS
    <3>3. i \in 1..i
      OBVIOUS
    <3>4. QED  BY Zenon, <3>1, <3>2, <3>3
  <2>5. Fair(a \o ss[i], Upto(i), FALSE)
    <3> DEFINE u  == Upto(i - 1)
               v  == Upto(i)
               w  == e[i]
               no == FALSE
    <3>1. u \in BOOLEAN /\ v \in BOOLEAN /\ w \in BOOLEAN /\ no \in BOOLEAN /\ ~no
      OBVIOUS
    <3>2. Fair(a, u, no) /\ Fair(ss[i], w, no)
      BY Zenon, <2>2, <2>3
    <3>3. v <=> u /\ w
      BY Zenon, <2>4
    <3> HIDE DEF u, v, w, no
    <3>4. Fair(a \o ss[i], v, no)
      BY ONLY <3>1, <3>2, <3>3, FairCat
    <3>5. QED  BY Zenon, <3>4 DEF v, no
  <2>6. a \o ss[i] \in Seq(V)
    BY Zenon, <2>1, CatIn
  <2>7. QED
    <3> HIDE DEF Upto
    <3>1. QED  BY Zenon, <2>1, <2>5, <2>6
<1>4. FlattenSeq(ss) \in C[n]
  <2> HIDE DEF C, V
  <2>1. \A i \in 1..Len(ss) : \A a \in Seq(V) : a \in C[i - 1] => a \o ss[i] \in C[i]
    BY Zenon, <1>1, <1>3
  <2>2. QED  BY Zenon, <1>1, <1>2, <2>1, FlattenIn
<1>5. n \in 0..n
  OBVIOUS
<1>6. QED
  <2> HIDE DEF V
  <2>1. Fair(FlattenSeq(ss), Upto(n), FALSE)
    <3> HIDE DEF Upto
    <3>1. QED  BY Zenon, <1>4, <1>5
  <2>2. equal = Upto(n)
    OBVIOUS
  <2>3. QED  BY Zenon, <2>1, <2>2

\* Single checks.
LEMMA OneCheck ==
    ASSUME NEW a, NEW b
    PROVE  /\ Numbers(a, b) \in {"same", "number"} /\ (Numbers(a, b) = "same" <=> a = b)
           /\ Binaries(a, b) \in Verdicts
           /\ Binaries(a, b) = "same" => a = b
           /\ a = b => Binaries(a, b) \in {"same", "crashed"}
           /\ Binaries(a, b) = "crashed" <=> a = Null \/ b = Null
BY DEF Numbers, Binaries, Verdicts

\* A flag and a binary are fair to the binary, if not both are missing.
LEMMA FlaggedFair ==
    ASSUME NEW a, NEW b
    PROVE  Fair(Flagged(a, b), a = b, a = Null /\ b = Null)
<1> DEFINE x     == Numbers(Has(a), Has(b))
           y     == Binaries(a, b)
           equal == (a = b)
           bad   == a = Null /\ b = Null
<1>1. x \in Verdicts /\ y \in Verdicts
  BY OneCheck DEF Verdicts
<1>2. x = "same" /\ y = "same" => equal
  BY OneCheck
<1>3. equal => x \in {"same", "crashed"} /\ y \in {"same", "crashed"}
  BY OneCheck
<1>4. x # "crashed" /\ (x = "same" /\ y = "crashed" => bad)
  BY OneCheck DEF Has
<1>5. equal \in BOOLEAN /\ bad \in BOOLEAN
  OBVIOUS
<1>6. Flagged(a, b) = <<x, y>>
  BY DEF Flagged
<1> HIDE DEF x, y, equal, bad
<1>7. Fair(<<x, y>>, equal, bad)
  BY <1>1, <1>2, <1>3, <1>4, <1>5, FairTwo
<1>8. QED  BY Zenon, <1>6, <1>7 DEF equal, bad

Paired == [key : Data, value : STRING]

\* So are the checks of two pairs, none of which fails: a pair has its key.
LEMMA PairFair ==
    ASSUME NEW a \in Paired, NEW b \in Paired
    PROVE  Fair(PairChecks(a, b), a = b, FALSE)
<1> DEFINE x     == Numbers(Has(a.value), Has(b.value))
           y     == Binaries(a.key, b.key)
           z     == If(Has(a.value), Binaries(a.value, b.value))
           equal == (a = b)
           bad   == FALSE
<1>1. /\ a.key # Null /\ b.key # Null
      /\ equal <=> a.key = b.key /\ a.value = b.value
  BY DEF Paired, Data
<1>2. x \in Verdicts /\ y \in Verdicts /\ z \in Verdicts
  BY OneCheck DEF Verdicts, If
<1>3. x = "same" /\ y = "same" /\ z = "same" => equal
  BY <1>1, OneCheck DEF If, Has
<1>4. equal => \A v \in {x, y, z} : v \in {"same", "crashed"}
  BY <1>1, OneCheck DEF If
<1>5. x # "crashed" /\ y # "crashed" /\ ~(x = "same" /\ z = "crashed")
  BY <1>1, OneCheck DEF If, Has
<1>6. equal \in BOOLEAN /\ bad \in BOOLEAN
  OBVIOUS
<1>7. PairChecks(a, b) = <<x, y, z>>
  BY DEF PairChecks
<1> HIDE DEF x, y, z, equal, bad
<1>8. Fair(<<x, y, z>>, equal, bad)
  BY <1>2, <1>3, <1>4, <1>5, <1>6, FairThree
<1>9. QED  BY Zenon, <1>7, <1>8 DEF equal, bad

Linked == [bucket : STRING, key : STRING, tag : STRING]

\* The checks of two links are fair, and none fails: a binary is looked at only if both have it.
LEMMA LinkFair ==
    ASSUME NEW a \in Linked, NEW b \in Linked
    PROVE  Fair(LinkChecks(a, b), a = b, FALSE)
<1> DEFINE x1    == Numbers(Has(a.bucket), Has(b.bucket))
           x2    == Numbers(Has(a.key), Has(b.key))
           x3    == Numbers(Has(a.tag), Has(b.tag))
           y1    == If(Has(a.bucket), Binaries(a.bucket, b.bucket))
           y2    == If(Has(a.key), Binaries(a.key, b.key))
           y3    == If(Has(a.tag), Binaries(a.tag, b.tag))
           flags == (Has(a.bucket) <=> Has(b.bucket)) /\ (Has(a.key) <=> Has(b.key)) /\
                    (Has(a.tag) <=> Has(b.tag))
           texts == (Has(a.bucket) => a.bucket = b.bucket) /\ (Has(a.key) => a.key = b.key) /\
                    (Has(a.tag) => a.tag = b.tag)
           equal == (a = b)
           bad   == FALSE
<1>1. equal <=> flags /\ texts
  BY DEF Linked, Has
<1>2. /\ x1 \in Verdicts /\ x2 \in Verdicts /\ x3 \in Verdicts
      /\ y1 \in Verdicts /\ y2 \in Verdicts /\ y3 \in Verdicts
  BY OneCheck DEF Verdicts, If
<1>3. /\ x1 = "same" /\ x2 = "same" /\ x3 = "same" <=> flags
      /\ flags => \A v \in {x1, x2, x3} : v \in {"same", "crashed"}
      /\ x1 # "crashed" /\ x2 # "crashed" /\ x3 # "crashed"
  BY OneCheck DEF Has
<1>4. /\ y1 = "same" /\ y2 = "same" /\ y3 = "same" => texts
      /\ texts => \A v \in {y1, y2, y3} : v \in {"same", "crashed"}
  BY OneCheck DEF If, Has
<1>5. y1 = "crashed" \/ y2 = "crashed" \/ y3 = "crashed" => ~flags
  BY OneCheck DEF If, Has
<1>6. equal \in BOOLEAN /\ bad \in BOOLEAN /\ flags \in BOOLEAN /\ texts \in BOOLEAN /\ ~bad
  OBVIOUS
<1>7. LinkChecks(a, b) = <<x1, x2, x3>> \o <<y1, y2, y3>>
  BY DEF LinkChecks
<1> HIDE DEF x1, x2, x3, y1, y2, y3, equal, bad, flags, texts
<1>8. Fair(<<x1, x2, x3>>, flags, bad)
  BY <1>2, <1>3, <1>6, FairThree
<1> DEFINE lost == ~flags
<1>9. Fair(<<y1, y2, y3>>, texts, lost)
  <2>1. lost \in BOOLEAN /\ (y1 = "crashed" \/ y2 = "crashed" \/ y3 = "crashed" => lost)
    BY <1>5
  <2> HIDE DEF lost
  <2>2. QED  BY <1>2, <1>4, <1>6, <2>1, FairThree
<1>10. AllSame(<<x1, x2, x3>>) => flags
  BY Zenon, <1>8 DEF Fair
<1>11. lost \in BOOLEAN /\ ~(AllSame(<<x1, x2, x3>>) /\ lost)
  BY <1>10
<1>12. Fair(<<x1, x2, x3>> \o <<y1, y2, y3>>, equal, bad)
  <2> DEFINE s == <<x1, x2, x3>>
             t == <<y1, y2, y3>>
  <2>1. Fair(s, flags, bad) /\ Fair(t, texts, lost) /\ ~(AllSame(s) /\ lost)
    BY Zenon, <1>8, <1>9, <1>11
  <2> HIDE DEF s, t, lost
  <2>2. Fair(s \o t, equal, bad)
    BY ONLY <1>1, <1>6, <1>11, <2>1, FairCat
  <2>3. QED  BY Zenon, <2>2 DEF s, t
<1>13. QED  BY Zenon, <1>7, <1>12 DEF equal, bad

\* What the own checks compare, and what leads them astray.
OwnEqual(o, p) ==
    /\ o.bucket = p.bucket /\ o.key = p.key /\ o.value = p.value
    /\ o.charset = p.charset /\ o.content_type = p.content_type
    /\ o.content_encoding = p.content_encoding
    /\ o.vtag = p.vtag \/ Null \in {o.vtag, p.vtag}
    /\ o.last_mod = p.last_mod \/ Null \in {o.last_mod, p.last_mod}
    /\ o.last_mod_usecs = p.last_mod_usecs \/ Null \in {o.last_mod_usecs, p.last_mod_usecs}
    /\ o.deleted = p.deleted
    /\ Len(o.indexes) = Len(p.indexes) /\ Len(o.links) = Len(p.links)
    /\ Len(o.usermeta) = Len(p.usermeta)

ListsEqual(o, p) == o.indexes = p.indexes /\ o.links = p.links /\ o.usermeta = p.usermeta

Astray(o, p) ==
    \/ o.key = Null \/ p.key = Null
    \/ o.charset = Null /\ p.charset = Null
    \/ o.content_type = Null /\ p.content_type = Null
    \/ o.content_encoding = Null /\ p.content_encoding = Null

\* The checks of the objects themselves are fair to what they compare.
LEMMA OwnFair ==
    ASSUME NEW o \in Objects, NEW p \in Objects
    PROVE  Fair(OwnChecks(o, p), OwnEqual(o, p), Astray(o, p))
<1> DEFINE n1 == Binaries(o.bucket, p.bucket)
           n2 == Binaries(o.key, p.key)
           n3 == Binaries(o.value, p.value)
           t1 == If(Has(o.vtag) /\ Has(p.vtag), Binaries(o.vtag, p.vtag))
           t2 == If(Has(o.last_mod) /\ Has(p.last_mod), Numbers(o.last_mod, p.last_mod))
           t3 == If(Has(o.last_mod_usecs) /\ Has(p.last_mod_usecs),
                    Numbers(o.last_mod_usecs, p.last_mod_usecs))
           t4 == Numbers(o.deleted, p.deleted)
           l1 == Numbers(Len(o.indexes), Len(p.indexes))
           l2 == Numbers(Len(o.links), Len(p.links))
           l3 == Numbers(Len(o.usermeta), Len(p.usermeta))
           A == <<n1, n2, n3>>
           B == Flagged(o.charset, p.charset)
           C == Flagged(o.content_type, p.content_type)
           D == Flagged(o.content_encoding, p.content_encoding)
           T == <<t1, t2>>
           U == <<t3, t4>>
           E == T \o U
           F == <<l1, l2, l3>>
           eA == o.bucket = p.bucket /\ o.key = p.key /\ o.value = p.value
           eB == (o.charset = p.charset)
           eC == (o.content_type = p.content_type)
           eD == (o.content_encoding = p.content_encoding)
           eT == (o.vtag = p.vtag \/ Null \in {o.vtag, p.vtag}) /\
                 (o.last_mod = p.last_mod \/ Null \in {o.last_mod, p.last_mod})
           eU == (o.last_mod_usecs = p.last_mod_usecs \/
                    Null \in {o.last_mod_usecs, p.last_mod_usecs}) /\
                 o.deleted = p.deleted
           eE == eT /\ eU
           eF == Len(o.indexes) = Len(p.indexes) /\ Len(o.links) = Len(p.links) /\
                 Len(o.usermeta) = Len(p.usermeta)
           bA == o.key = Null \/ p.key = Null
           bB == o.charset = Null /\ p.charset = Null
           bC == o.content_type = Null /\ p.content_type = Null
           bD == o.content_encoding = Null /\ p.content_encoding = Null
           no == FALSE
<1>1. Fair(A, eA, bA)
  <2>1. n1 \in Verdicts /\ n2 \in Verdicts /\ n3 \in Verdicts
    BY OneCheck
  <2>2. n1 = "same" /\ n2 = "same" /\ n3 = "same" => eA
    BY OneCheck
  <2>3. eA => \A v \in {n1, n2, n3} : v \in {"same", "crashed"}
    BY OneCheck
  <2>4. n1 # "crashed" /\ n3 # "crashed" /\ (n2 = "crashed" => bA)
    <3>1. /\ o.bucket # Null /\ p.bucket # Null /\ o.value # Null /\ p.value # Null
      BY DEF Objects, Data
    <3> HIDE DEF Null
    <3>2. QED  BY <3>1, OneCheck
  <2>5. eA \in BOOLEAN /\ bA \in BOOLEAN
    OBVIOUS
  <2> HIDE DEF n1, n2, n3, eA, bA
  <2>6. QED  BY ONLY <2>1, <2>2, <2>3, <2>4, <2>5, FairThree
<1>2. Fair(B, eB, bB) /\ Fair(C, eC, bC) /\ Fair(D, eD, bD)
  BY Zenon, FlaggedFair
<1>3. Fair(E, eE, no)
  <2>1. /\ t1 \in Verdicts /\ t2 \in Verdicts /\ t3 \in Verdicts /\ t4 \in Verdicts
        /\ t1 # "crashed" /\ t2 # "crashed" /\ t3 # "crashed" /\ t4 # "crashed"
    BY OneCheck DEF If, Has, Verdicts
  <2>2. /\ t1 = "same" /\ t2 = "same" => eT
        /\ eT => t1 \in {"same", "crashed"} /\ t2 \in {"same", "crashed"}
    BY OneCheck DEF If, Has
  <2>3. /\ t3 = "same" /\ t4 = "same" => eU
        /\ eU => t3 \in {"same", "crashed"} /\ t4 \in {"same", "crashed"}
    BY OneCheck DEF If, Has
  <2>4. eT \in BOOLEAN /\ eU \in BOOLEAN /\ no \in BOOLEAN /\ ~no
    OBVIOUS
  <2> HIDE DEF t1, t2, t3, t4, eT, eU, no
  <2>5. Fair(T, eT, no)
    BY ONLY <2>1, <2>2, <2>4, FairTwo DEF T
  <2>6. Fair(U, eU, no)
    BY ONLY <2>1, <2>3, <2>4, FairTwo DEF U
  <2>7. eE \in BOOLEAN
    OBVIOUS
  <2> HIDE DEF T, U
  <2>8. Fair(T \o U, eE, no)
    BY ONLY <2>4, <2>5, <2>6, <2>7, FairCat
  <2>9. QED  BY Zenon, <2>8
<1>4. Fair(F, eF, no)
  <2>1. l1 \in Verdicts /\ l2 \in Verdicts /\ l3 \in Verdicts
    BY OneCheck DEF Verdicts
  <2>2. l1 = "same" /\ l2 = "same" /\ l3 = "same" => eF
    BY OneCheck
  <2>3. eF => \A v \in {l1, l2, l3} : v \in {"same", "crashed"}
    BY OneCheck
  <2>4. l1 # "crashed" /\ l2 # "crashed" /\ l3 # "crashed"
    BY OneCheck
  <2>5. eF \in BOOLEAN /\ no \in BOOLEAN
    OBVIOUS
  <2> HIDE DEF l1, l2, l3, eF, no
  <2>6. QED  BY ONLY <2>1, <2>2, <2>3, <2>4, <2>5, FairThree
<1>5. OwnChecks(o, p) = A \o B \o C \o D \o (E \o F)
  <2> DEFINE G == <<t1, t2, t3, t4, l1, l2, l3>>
  <2>1. OwnChecks(o, p) = A \o B \o C \o D \o G
    BY Zenon DEF OwnChecks
  <2>2. G = E \o F
    <3> HIDE DEF t1, t2, t3, t4, l1, l2, l3
    <3>1. QED  OBVIOUS
  <2>3. QED  BY Zenon, <2>1, <2>2
<1>6. OwnEqual(o, p) <=> eA /\ eB /\ eC /\ eD /\ eE /\ eF
  BY Zenon DEF OwnEqual
<1>7. Astray(o, p) <=> bA \/ bB \/ bC \/ bD
  BY Zenon DEF Astray
<1>8. /\ eA \in BOOLEAN /\ eB \in BOOLEAN /\ eC \in BOOLEAN /\ eD \in BOOLEAN
      /\ eE \in BOOLEAN /\ eF \in BOOLEAN /\ no \in BOOLEAN /\ ~no
      /\ bA \in BOOLEAN /\ bB \in BOOLEAN /\ bC \in BOOLEAN /\ bD \in BOOLEAN
      /\ OwnEqual(o, p) \in BOOLEAN /\ Astray(o, p) \in BOOLEAN
  BY DEF OwnEqual, Astray
<1> HIDE DEF A, B, C, D, E, F, eA, eB, eC, eD, eE, eF, bA, bB, bC, bD, no
<1> DEFINE w    == OwnEqual(o, p)
           bad  == Astray(o, p)
           AB   == A \o B
           ABC  == AB \o C
           ABCD == ABC \o D
           EF   == E \o F
           eAB  == eA /\ eB
           bAB  == bA \/ bB
           eABC == eAB /\ eC
           bABC == bAB \/ bC
           eABCD == eABC /\ eD
           bABCD == bABC \/ bD
           eEF == eE /\ eF
<1>9. w \in BOOLEAN /\ bad \in BOOLEAN /\ (w <=> eABCD /\ eEF) /\ (bABCD => bad)
  BY <1>6, <1>7, <1>8
<1> HIDE DEF w, bad
<1>10. Fair(EF, eEF, no) /\ eEF \in BOOLEAN
  BY ONLY <1>3, <1>4, <1>8, FairCat
<1>11. Fair(AB, eAB, bAB) /\ eAB \in BOOLEAN /\ bAB \in BOOLEAN
  BY ONLY <1>1, <1>2, <1>8, FairCat
<1> HIDE DEF AB, EF, eAB, bAB, eEF
<1>12. Fair(ABC, eABC, bABC) /\ eABC \in BOOLEAN /\ bABC \in BOOLEAN
  BY ONLY <1>2, <1>8, <1>11, FairCat
<1> HIDE DEF ABC, eABC, bABC
<1>13. Fair(ABCD, eABCD, bABCD) /\ eABCD \in BOOLEAN /\ bABCD \in BOOLEAN
  BY ONLY <1>2, <1>8, <1>12, FairCat
<1> HIDE DEF ABCD, eABCD, bABCD
<1>14. Fair(ABCD \o EF, w, bad)
  BY ONLY <1>8, <1>9, <1>10, <1>13, FairCat
<1>15. QED  BY Zenon, <1>5, <1>14 DEF w, bad, ABCD, ABC, AB, EF

\* Lists of the same length.
LEMMA PairsFair ==
    ASSUME NEW a \in Seq(Paired), NEW b \in Seq(Paired), Len(a) = Len(b)
    PROVE  Fair(FlattenSeq([i \in DOMAIN a |-> PairChecks(a[i], b[i])]), a = b, FALSE)
<1> DEFINE n  == Len(a)
           ss == [i \in 1..n |-> PairChecks(a[i], b[i])]
           e  == [i \in 1..n |-> a[i] = b[i]]
           equal == (a = b)
<1>1. n \in Nat /\ DOMAIN a = 1..n /\ equal \in BOOLEAN
  OBVIOUS
<1>2. equal <=> \A i \in 1..n : e[i]
  <2>1. ASSUME \A i \in 1..n : a[i] = b[i] PROVE a = b
    <3> DEFINE S == Paired
    <3>1. a \in Seq(S) /\ b \in Seq(S)
      OBVIOUS
    <3> HIDE DEF S
    <3>2. QED  BY <2>1, <3>1, SeqEqual
  <2>2. QED  BY <2>1
<1>3. ASSUME NEW i \in 1..n
      PROVE  ss[i] \in Seq(Verdicts) /\ e[i] \in BOOLEAN /\ Fair(ss[i], e[i], FALSE)
  <2>1. a[i] \in Paired /\ b[i] \in Paired
    <3> DEFINE S == Paired
    <3>1. a \in Seq(S) /\ b \in Seq(S)
      OBVIOUS
    <3> HIDE DEF S
    <3>2. QED  BY <3>1
  <2>2. Fair(PairChecks(a[i], b[i]), a[i] = b[i], FALSE)
    BY Zenon, <2>1, PairFair
  <2>3. ss[i] = PairChecks(a[i], b[i]) /\ e[i] = (a[i] = b[i])
    BY Zenon
  <2>4. Fair(ss[i], e[i], FALSE)
    BY Zenon, <2>2, <2>3
  <2>5. e[i] \in BOOLEAN
    OBVIOUS
  <2>6. QED  BY Zenon, <2>4, <2>5 DEF Fair
<1>4. ss \in [1..n -> Seq(Verdicts)] /\ e \in [1..n -> BOOLEAN]
  BY Zenon, <1>3
<1> HIDE DEF n, e, equal
<1>5. Fair(FlattenSeq(ss), equal, FALSE)
  <2> HIDE DEF ss
  <2>1. \A i \in 1..n : Fair(ss[i], e[i], FALSE)
    BY Zenon, <1>3
  <2>2. QED  BY Zenon, <1>1, <1>2, <1>4, <2>1, FairAll
<1>6. QED  BY Zenon, <1>1, <1>5 DEF equal

\* So for links.
LEMMA LinksFair ==
    ASSUME NEW a \in Seq(Linked), NEW b \in Seq(Linked), Len(a) = Len(b)
    PROVE  Fair(FlattenSeq([i \in DOMAIN a |-> LinkChecks(a[i], b[i])]), a = b, FALSE)
<1> DEFINE n  == Len(a)
           ss == [i \in 1..n |-> LinkChecks(a[i], b[i])]
           e  == [i \in 1..n |-> a[i] = b[i]]
           equal == (a = b)
<1>1. n \in Nat /\ DOMAIN a = 1..n /\ equal \in BOOLEAN
  OBVIOUS
<1>2. equal <=> \A i \in 1..n : e[i]
  <2>1. ASSUME \A i \in 1..n : a[i] = b[i] PROVE a = b
    <3> DEFINE S == Linked
    <3>1. a \in Seq(S) /\ b \in Seq(S)
      OBVIOUS
    <3> HIDE DEF S
    <3>2. QED  BY <2>1, <3>1, SeqEqual
  <2>2. QED  BY <2>1
<1>3. ASSUME NEW i \in 1..n
      PROVE  ss[i] \in Seq(Verdicts) /\ e[i] \in BOOLEAN /\ Fair(ss[i], e[i], FALSE)
  <2>1. a[i] \in Linked /\ b[i] \in Linked
    <3> DEFINE S == Linked
    <3>1. a \in Seq(S) /\ b \in Seq(S)
      OBVIOUS
    <3> HIDE DEF S
    <3>2. QED  BY <3>1
  <2>2. Fair(LinkChecks(a[i], b[i]), a[i] = b[i], FALSE)
    BY Zenon, <2>1, LinkFair
  <2>3. ss[i] = LinkChecks(a[i], b[i]) /\ e[i] = (a[i] = b[i])
    BY Zenon
  <2>4. Fair(ss[i], e[i], FALSE)
    BY Zenon, <2>2, <2>3
  <2>5. e[i] \in BOOLEAN
    OBVIOUS
  <2>6. QED  BY Zenon, <2>4, <2>5 DEF Fair
<1>4. ss \in [1..n -> Seq(Verdicts)] /\ e \in [1..n -> BOOLEAN]
  BY Zenon, <1>3
<1> HIDE DEF n, e, equal
<1>5. Fair(FlattenSeq(ss), equal, FALSE)
  <2> HIDE DEF ss
  <2>1. \A i \in 1..n : Fair(ss[i], e[i], FALSE)
    BY Zenon, <1>3
  <2>2. QED  BY Zenon, <1>1, <1>2, <1>4, <2>1, FairAll
<1>6. QED  BY Zenon, <1>1, <1>5 DEF equal

\* The lists of an object.
LEMMA ListsOf ==
    ASSUME NEW o \in Objects
    PROVE  /\ o.indexes \in Seq(Paired) /\ o.usermeta \in Seq(Paired)
           /\ o.links \in Seq(Linked)
<1> DEFINE P == Seq(Paired)
           L == Seq(Linked)
           D == Data
<1>1. o \in [bucket : D, value : D, deleted : BOOLEAN,
            bucket_type : STRING, key : STRING, charset : STRING, content_type : STRING,
            content_encoding : STRING, vtag : STRING, last_mod : STRING, last_mod_usecs : STRING,
            indexes : P, usermeta : P, links : L]
  BY Zenon DEF Objects, Paired, Linked
<1> HIDE DEF P, L, D
<1>2. o.indexes \in P /\ o.usermeta \in P /\ o.links \in L
  BY <1>1
<1>3. QED  BY Zenon, <1>2 DEF P, L

\* The checks of the lists are fair to them, once the numbers of elements are the same.
LEMMA ListFair ==
    ASSUME NEW o \in Objects, NEW p \in Objects, OwnEqual(o, p)
    PROVE  Fair(ListChecks(o, p), ListsEqual(o, p), FALSE)
<1> DEFINE A  == FlattenSeq([i \in DOMAIN o.indexes |-> PairChecks(o.indexes[i], p.indexes[i])])
           B  == FlattenSeq([i \in DOMAIN o.links |-> LinkChecks(o.links[i], p.links[i])])
           C  == FlattenSeq([i \in DOMAIN o.usermeta |-> PairChecks(o.usermeta[i], p.usermeta[i])])
           eA == (o.indexes = p.indexes)
           eB == (o.links = p.links)
           eC == (o.usermeta = p.usermeta)
           no == FALSE
<1>1. /\ o.indexes \in Seq(Paired) /\ p.indexes \in Seq(Paired)
      /\ o.links \in Seq(Linked) /\ p.links \in Seq(Linked)
      /\ o.usermeta \in Seq(Paired) /\ p.usermeta \in Seq(Paired)
  BY Zenon, ListsOf
<1>2. /\ Len(o.indexes) = Len(p.indexes) /\ Len(o.links) = Len(p.links)
      /\ Len(o.usermeta) = Len(p.usermeta)
  BY Zenon DEF OwnEqual
<1>3. Fair(A, eA, no) /\ Fair(C, eC, no)
  BY Zenon, <1>1, <1>2, PairsFair
<1>4. Fair(B, eB, no)
  BY Zenon, <1>1, <1>2, LinksFair
<1>5. ListChecks(o, p) = A \o B \o C
  BY Zenon DEF ListChecks
<1>6. ListsEqual(o, p) <=> eA /\ eB /\ eC
  BY Zenon DEF ListsEqual
<1>7. eA \in BOOLEAN /\ eB \in BOOLEAN /\ eC \in BOOLEAN /\ no \in BOOLEAN /\ ~no
  OBVIOUS
<1> HIDE DEF A, B, C, eA, eB, eC, no
<1> DEFINE w   == ListsEqual(o, p)
           AB  == A \o B
           eAB == eA /\ eB
<1>8. w \in BOOLEAN /\ (w <=> eAB /\ eC)
  BY <1>6, <1>7 DEF ListsEqual
<1>9. Fair(AB, eAB, no) /\ eAB \in BOOLEAN
  BY ONLY <1>3, <1>4, <1>7, FairCat
<1> HIDE DEF w, AB, eAB
<1>10. Fair(AB \o C, w, no)
  BY ONLY <1>3, <1>7, <1>8, <1>9, FairCat
<1>11. QED  BY Zenon, <1>5, <1>10 DEF w, AB, no

\* The verdict on two objects.
LEMMA VerdictTells ==
    ASSUME NEW o \in Objects, NEW p \in Objects
    PROVE  /\ Verdict(o, p) \in Verdicts
           /\ Verdict(o, p) = "crashed" => Astray(o, p)
           /\ Verdict(o, p) # "crashed" =>
                 ((Verdict(o, p) = "same") <=> OwnEqual(o, p) /\ ListsEqual(o, p))
<1> DEFINE own   == Decided(OwnChecks(o, p))
           lists == Decided(ListChecks(o, p))
           v     == Verdict(o, p)
           e1    == OwnEqual(o, p)
           e2    == ListsEqual(o, p)
           bad   == Astray(o, p)
           no    == FALSE
           c1    == OwnChecks(o, p)
           c2    == ListChecks(o, p)
<1>1. v = IF own # "same" THEN own ELSE lists
  BY Zenon DEF Verdict
<1>2. e1 \in BOOLEAN /\ e2 \in BOOLEAN /\ bad \in BOOLEAN /\ no \in BOOLEAN /\ ~no
  BY DEF OwnEqual, ListsEqual, Astray
<1>3. Fair(c1, e1, bad)
  BY Zenon, OwnFair
<1>4. e1 => Fair(c2, e2, no)
  BY Zenon, ListFair
<1> HIDE DEF v, e1, e2, bad, no, c1, c2
<1>5. /\ own \in Verdicts /\ (own = "crashed" => bad) /\ (own = "same" => e1)
      /\ e1 => own \in {"same", "crashed"}
  BY ONLY <1>2, <1>3, FairDecides DEF c1
<1>6. e1 => /\ lists \in Verdicts /\ lists # "crashed" /\ (lists = "same" => e2)
            /\ e2 => lists \in {"same", "crashed"}
  BY ONLY <1>2, <1>4, FairDecides DEF c2
<1> HIDE DEF own, lists
<1>7. /\ v \in Verdicts /\ (v = "crashed" => bad)
      /\ v # "crashed" => ((v = "same") <=> e1 /\ e2)
  BY <1>1, <1>2, <1>5, <1>6
<1>8. QED  BY Zenon, <1>7 DEF v, bad, e1, e2

\* What was compared were two objects, and the verdict is theirs.
Judged ==
    \/ compared = NoObjects
    \/ \E o, p \in Objects : compared = [objects |-> <<o, p>>, verdict |-> Verdict(o, p)]

\* That is so initially and after each step.
LEMMA JudgedInit == Init => Judged
BY DEF Init, Judged

LEMMA JudgedNext == Judged /\ [Next]_vars => Judged'
<1> SUFFICES ASSUME Judged, [Next]_vars PROVE Judged'
  OBVIOUS
<1>1. CASE Compare
  <2>1. PICK pair \in Pairs :
            compared' = [objects |-> pair, verdict |-> Verdict(pair[1], pair[2])]
    BY Zenon, <1>1 DEF Compare
  <2>2. pair \in Objects \X Objects
    BY Zenon, PairsAssumption
  <2> DEFINE o == pair[1]
             p == pair[2]
  <2>3. o \in Objects /\ p \in Objects /\ pair = <<o, p>>
    <3> DEFINE S == Objects
    <3>1. pair \in S \X S
      BY <2>2
    <3> HIDE DEF S
    <3>2. o \in S /\ p \in S /\ pair = <<o, p>>
      BY ONLY <3>1
    <3>3. QED  BY Zenon, <3>2 DEF S
  <2>4. compared' = [objects |-> <<o, p>>, verdict |-> Verdict(o, p)]
    BY Zenon, <2>1, <2>3
  <2>5. QED  BY Zenon, <2>3, <2>4 DEF Judged
<1>2. CASE Begin \/ Connect
  <2>1. compared' = NoObjects
    BY Zenon, <1>2 DEF Begin, Connect
  <2>2. QED  BY Zenon, <2>1 DEF Judged, NoObjects
<1>3. CASE Absent \/ PrintText \/ PrintRaw \/ PrintLabel \/ PrintHex \/ While \/ Stopped
           \/ UNCHANGED vars
  <2>1. compared' = compared
    BY Zenon, <1>3 DEF Absent, PrintText, PrintRaw, PrintLabel, PrintHex, While, Stopped, vars
  <2>2. QED  BY Zenon, <2>1 DEF Judged, NoObjects
<1>4. QED  BY Zenon, <1>1, <1>2, <1>3 DEF Next

\* Such a verdict is the right one.
LEMMA JudgedTells == Judged => CompareTells
<1> SUFFICES ASSUME Judged, compared.verdict # "none"
             PROVE  CompareTells
  BY Zenon DEF CompareTells
<1>1. compared # NoObjects
  BY DEF NoObjects
<1>2. PICK o \in Objects, p \in Objects :
          compared = [objects |-> <<o, p>>, verdict |-> Verdict(o, p)]
  BY Zenon, <1>1 DEF Judged
<1> DEFINE v == Verdict(o, p)
           Agree(f) == o[f] = p[f] \/ (f \in IfBoth /\ Null \in {o[f], p[f]})
           Fields == DOMAIN o \ {"bucket_type"}
<1>3. compared.objects[1] = o /\ compared.objects[2] = p /\ compared.verdict = v
  <2> HIDE DEF v
  <2>1. compared = [objects |-> <<o, p>>, verdict |-> v]
    BY Zenon, <1>2 DEF v
  <2>2. QED  BY <2>1
<1>4. Fields = {"bucket", "value", "deleted", "key", "charset", "content_type",
                "content_encoding", "vtag", "last_mod", "last_mod_usecs", "indexes", "usermeta",
                "links"}
  BY DEF Objects
<1>5. ListsEqual(o, p) =>
          /\ Len(o.indexes) = Len(p.indexes) /\ Len(o.links) = Len(p.links)
          /\ Len(o.usermeta) = Len(p.usermeta)
  BY Zenon DEF ListsEqual
<1>6. (\A f \in Fields : Agree(f)) <=> OwnEqual(o, p) /\ ListsEqual(o, p)
  <2>1. ASSUME \A f \in Fields : Agree(f) PROVE OwnEqual(o, p) /\ ListsEqual(o, p)
    BY <1>4, <1>5, <2>1 DEF OwnEqual, ListsEqual, IfBoth
  <2>2. ASSUME OwnEqual(o, p) /\ ListsEqual(o, p), NEW f \in Fields PROVE Agree(f)
    BY <1>4, <2>2 DEF OwnEqual, ListsEqual, IfBoth
  <2>3. QED  BY Zenon, <2>1, <2>2
<1>7. v = "crashed" => Astray(o, p)
  BY Zenon, VerdictTells
<1>8. v # "crashed" => ((v = "same") <=> \A f \in Fields : Agree(f))
  BY Zenon, <1>6, VerdictTells
<1>9. Astray(o, p) =>
          \/ o.key = Null \/ p.key = Null
          \/ \E f \in {"charset", "content_type", "content_encoding"} : o[f] = Null /\ p[f] = Null
  BY DEF Astray
<1>10. QED
  <2> HIDE DEF v, Fields, Agree
  <2>1. IF v = "crashed"
        THEN o.key = Null \/ p.key = Null \/
             \E f \in {"charset", "content_type", "content_encoding"} : o[f] = Null /\ p[f] = Null
        ELSE (v = "same") <=> \A f \in Fields : Agree(f)
    BY Zenon, <1>7, <1>8, <1>9
  <2>2. QED  BY Zenon, <1>3, <2>1 DEF CompareTells, Fields, Agree

\* riak_object_compare tells two objects apart exactly if they differ in what it
\* compares, whatever is in them and however long their lists are.
THEOREM ComparingTells == Spec => []CompareTells
<1>1. Spec => []Judged
  BY JudgedInit, JudgedNext, PTL DEF Spec
<1>2. QED  BY <1>1, JudgedTells, PTL

-----------------------------------------------------------------------------
(* Texts are series of units. *)

Calls   == {"text", "raw", "label", "hex", "while"}
Units   == [call : Calls, may : BOOLEAN, body : Nat]
Written == Seq(Units)

\* One unit.
LEMMA UnitIn ==
    ASSUME NEW call \in Calls, NEW may \in BOOLEAN, NEW body \in Nat
    PROVE  <<[call |-> call, may |-> may, body |-> body]>> \in Written
<1> DEFINE u == [call |-> call, may |-> may, body |-> body]
           U == Units
<1>1. u \in U
  BY DEF Units
<1> HIDE DEF u, U
<1>2. <<u>> \in Seq(U)
  BY <1>1
<1>3. QED  BY Zenon, <1>2 DEF Written, u, U

\* Texts are made from texts.
LEMMA Building ==
    /\ Always("text") \in Written /\ Always("raw") \in Written
    /\ Always("label") \in Written /\ Always("hex") \in Written
    /\ May("text") \in Written /\ May("label") \in Written /\ May("hex") \in Written
    /\ \A a, b \in Written : a \o b \in Written
    /\ \A a \in Written : Loop(a) \in Written
    /\ \A n \in Nat : \A a \in Written : Repeat(n, a) \in Written
<1>1. /\ "text" \in Calls /\ "raw" \in Calls /\ "label" \in Calls /\ "hex" \in Calls
      /\ "while" \in Calls /\ 0 \in Nat /\ FALSE \in BOOLEAN /\ TRUE \in BOOLEAN
  BY DEF Calls
<1>2. \A c \in Calls : Always(c) \in Written /\ May(c) \in Written
  BY Zenon, <1>1, UnitIn DEF Always, May
<1>3. ASSUME NEW a \in Written, NEW b \in Written PROVE a \o b \in Written
  BY Zenon, CatIn DEF Written
<1>4. ASSUME NEW a \in Written PROVE Loop(a) \in Written
  <2>1. Len(a) \in Nat
    <3> DEFINE U == Units
    <3>1. a \in Seq(U)
      BY Zenon DEF Written
    <3> HIDE DEF U
    <3>2. QED  BY <3>1
  <2>2. <<[call |-> "while", may |-> FALSE, body |-> Len(a)]>> \in Written
    BY Zenon, <1>1, <2>1, UnitIn
  <2>3. QED  BY Zenon, <1>3, <2>2 DEF Loop
<1>5. ASSUME NEW n \in Nat, NEW a \in Written PROVE Repeat(n, a) \in Written
  <2>1. [i \in 1..n |-> a] \in [1..n -> Seq(Units)]
    BY Zenon DEF Written
  <2>2. QED  BY Zenon, <2>1, AllIn DEF Repeat, Written
<1>6. QED  BY Zenon, <1>1, <1>2, <1>3, <1>4, <1>5

\* So is what is printed of a difference.
LEMMA DifferIn == ASSUME NEW kind \in {"binary", "number"} PROVE DifferText(kind) \in Written
<1>1. Always("text") \in Written /\ Always("raw") \in Written
  BY Building
<1>2. \A a, b \in Written : a \o b \in Written
  BY Zenon, Building
<1>3. CASE kind = "binary"
  BY <1>1, <1>2, <1>3 DEF DifferText
<1>4. CASE kind = "number"
  BY <1>1, <1>4 DEF DifferText
<1>5. QED  BY <1>3, <1>4

\* Every text that is printed is one.
LEMMA PrintedIn == ASSUME NEW n \in Nat PROVE Printed(n) \subseteq Written
<1>1. PairsText(n) \in Written /\ LinkText \in Written /\ FunText \in Written
  BY Building DEF PairsText, LinkText, FunText
<1>2. ObjectText(n) \in Written
  BY <1>1, Building DEF ObjectText
<1>3. GetText(n) \in Written /\ PutText(n) \in Written
  BY <1>2, Building DEF GetText, PutText
<1>4. SearchText(n) \in Written
  BY <1>1, Building DEF SearchText
<1>5. IndexText(n) \in Written
  BY <1>1, Building DEF IndexText
<1>6. MapreduceText(n) \in Written
  BY Building DEF MapreduceText
<1>7. ListkeysText(n) \in Written /\ ListbucketsText(n) \in Written
  BY Building DEF ListkeysText, ListbucketsText
<1>8. ServerinfoText \in Written /\ ClientidText \in Written
  BY Building DEF ServerinfoText, ClientidText
<1>9. GetOptionsText \in Written /\ PutOptionsText \in Written /\ DeleteOptionsText \in Written
  BY Building DEF GetOptionsText, PutOptionsText, DeleteOptionsText
<1>10. HooksText(n) \in Written
  BY <1>1, Building DEF HooksText
<1>11. PropsText(n) \in Written
  BY <1>1, <1>10, Building DEF PropsText
<1>12. QED
  BY <1>3, <1>4, <1>5, <1>6, <1>7, <1>8, <1>9, <1>11 DEF Printed

-----------------------------------------------------------------------------
(* Types. *)

TypeInv ==
    /\ Inv /\ Judged
    /\ total \in Totals /\ prints \in 0..MaxPrints /\ todo \in Written

\* The types hold initially and after each step.
LEMMA TypeInit == Init => TypeInv
<1> SUFFICES ASSUME Init PROVE TypeInv
  OBVIOUS
<1>1. Inv /\ Judged
  BY Zenon, InitInv, JudgedInit
<1>2. total \in Totals /\ prints = 0 /\ todo = <<>>
  BY Zenon DEF Init
<1>3. prints \in 0..MaxPrints
  BY <1>2, TextAssumption
<1>4. todo \in Written
  <2> DEFINE U == Units
  <2> HIDE DEF U
  <2>1. <<>> \in Seq(U)
    OBVIOUS
  <2>2. QED  BY Zenon, <1>2, <2>1 DEF Written, U
<1>5. QED  BY Zenon, <1>1, <1>2, <1>3, <1>4 DEF TypeInv

\* What is left of a text is one.
LEMMA RestIn ==
    ASSUME NEW text \in Written, text # <<>>, NEW k \in Nat
    PROVE  /\ Tail(text) \in Written /\ SubSeq(text, k + 2, Len(text)) \in Written
           /\ text[1] \in Units
<1> DEFINE U == Units
<1>1. text \in Seq(U)
  BY Zenon DEF Written
<1> HIDE DEF U
<1>2. Tail(text) \in Seq(U) /\ text[1] \in U
  BY <1>1
<1>3. SubSeq(text, k + 2, Len(text)) \in Seq(U)
  <2>1. \A i \in (k + 2)..Len(text) : text[i] \in U
    BY <1>1
  <2>2. QED  BY <1>1, <2>1
<1>4. QED  BY Zenon, <1>2, <1>3 DEF Written, U

LEMMA TypeNext == TypeInv /\ [Next]_vars => TypeInv'
<1> SUFFICES ASSUME TypeInv, [Next]_vars PROVE TypeInv'
  OBVIOUS
<1>1. Inv' /\ Judged'
  BY Zenon, NextInv, JudgedNext DEF TypeInv
<1>2. total' = total /\ total \in Totals /\ todo \in Written
  BY Zenon DEF TypeInv, Next, Begin, Compare, Connect, Absent, PrintText, PrintRaw, PrintLabel,
               PrintHex, While, Stopped, vars
<1>3. prints \in 0..MaxPrints /\ MaxPrints \in Nat /\ MaxElements \in Nat
  BY TextAssumption DEF TypeInv
<1>4. prints' \in 0..MaxPrints
  <2>1. CASE Begin \/ Compare
    <3>1. prints < MaxPrints /\ prints' = prints + 1
      BY Zenon, <2>1 DEF Begin, Compare
    <3>2. QED  BY <1>3, <3>1
  <2>2. CASE ~(Begin \/ Compare)
    <3>1. prints' = prints
      BY Zenon, <2>2 DEF Next, Connect, Absent, PrintText, PrintRaw, PrintLabel,
                         PrintHex, While, Stopped, vars
    <3>2. QED  BY Zenon, <1>3, <3>1
  <2>3. QED  BY Zenon, <2>1, <2>2
<1>5. todo' \in Written
  <2>1. CASE Begin
    <3>1. PICK n \in 0..MaxElements : todo' \in Printed(n)
      BY Zenon, <2>1 DEF Begin
    <3>2. n \in Nat
      BY <1>3
    <3>3. QED  BY Zenon, <3>1, <3>2, PrintedIn
  <2>2. CASE Compare
    <3>1. PICK verdict : todo' = IF verdict \in {"binary", "number"} THEN DifferText(verdict) ELSE <<>>
      BY Zenon, <2>2 DEF Compare
    <3>2. todo = <<>>
      BY Zenon, <2>2 DEF Compare
    <3>3. QED  BY Zenon, <1>2, <3>1, <3>2, DifferIn
  <2>3. CASE Absent \/ PrintText \/ PrintRaw \/ PrintLabel \/ PrintHex
    <3>1. todo # <<>> /\ todo' = Tail(todo)
      BY Zenon, <2>3 DEF Absent, PrintText, PrintRaw, PrintLabel, PrintHex, Unit, MovesOn
    <3>2. 0 \in Nat
      OBVIOUS
    <3>3. QED  BY Zenon, <1>2, <3>1, <3>2, RestIn
  <2>4. CASE While
    <3> DEFINE k == todo[1].body
    <3>1. todo # <<>> /\ todo' \in {Tail(todo), SubSeq(todo, k + 2, Len(todo))}
      <4>1. todo # <<>>
        BY Zenon, <2>4 DEF While, Unit
      <4>2. todo' = IF state.len > 0 THEN Tail(todo) ELSE SubSeq(todo, k + 2, Len(todo))
        BY Zenon, <2>4 DEF While
      <4>3. QED  BY Zenon, <4>1, <4>2
    <3>2. k \in Nat
      <4>1. 0 \in Nat
        OBVIOUS
      <4>2. todo[1] \in Units
        BY Zenon, <1>2, <3>1, <4>1, RestIn
      <4>3. \A u \in Units : u.body \in Nat
        BY DEF Units
      <4>4. QED  BY Zenon, <4>2, <4>3
    <3> HIDE DEF k
    <3>3. Tail(todo) \in Written /\ SubSeq(todo, k + 2, Len(todo)) \in Written
      BY Zenon, <1>2, <3>1, <3>2, RestIn
    <3>4. QED  BY Zenon, <3>1, <3>3
  <2>5. CASE Connect \/ Stopped \/ UNCHANGED vars
    BY Zenon, <1>2, <2>5 DEF Connect, Stopped, vars
  <2>6. QED  BY Zenon, <2>1, <2>2, <2>3, <2>4, <2>5 DEF Next
<1>6. QED  BY Zenon, <1>1, <1>2, <1>4, <1>5 DEF TypeInv

\* They are what TypeOK says.
LEMMA TypeInvType == TypeInv => TypeOK
<1> SUFFICES ASSUME TypeInv PROVE TypeOK
  OBVIOUS
<1>1. total \in Totals /\ prints \in 0..MaxPrints /\ bare \in BOOLEAN
  BY Zenon DEF TypeInv, Inv
<1>2. /\ state.wrote \in Nat /\ state.said \in Nat /\ state.stray \in BOOLEAN
      /\ state.len = total - 1 - state.wrote /\ state.buffer \in [0..(total - 1) -> Int]
  BY Zenon DEF TypeInv, Inv, Typed
<1>3. DOMAIN state.buffer = 0..(total - 1)
  BY <1>2
<1>4. ASSUME NEW i \in DOMAIN todo PROVE todo[i].call \in Calls
  <2>1. todo[i] \in Units
    BY Zenon, ElementIn DEF TypeInv, Written
  <2>2. \A u \in Units : u.call \in Calls
    BY DEF Units
  <2>3. QED  BY Zenon, <2>1, <2>2
<1>5. compared.verdict \in {"none", "same", "binary", "number", "crashed"}
  <2>1. CASE compared = NoObjects
    BY <2>1 DEF NoObjects
  <2>2. CASE \E o, p \in Objects : compared = [objects |-> <<o, p>>, verdict |-> Verdict(o, p)]
    <3>1. PICK o \in Objects, p \in Objects :
              compared = [objects |-> <<o, p>>, verdict |-> Verdict(o, p)]
      BY Zenon, <2>2
    <3> DEFINE v == Verdict(o, p)
               q == <<o, p>>
    <3>2. v \in Verdicts
      BY Zenon, VerdictTells
    <3>3. compared = [objects |-> q, verdict |-> v]
      BY Zenon, <3>1
    <3> HIDE DEF v, q
    <3>4. compared.verdict = v
      BY <3>3
    <3>5. QED  BY <3>2, <3>4 DEF Verdicts
  <2>3. QED  BY Zenon, <2>1, <2>2 DEF TypeInv, Judged
<1>6. QED  BY Zenon, <1>1, <1>2, <1>3, <1>4, <1>5 DEF TypeOK, Calls

\* Every variable has its type, and the printing library's own account of the
\* buffer is right, whatever is printed, compared or connected.
THEOREM TypeCorrect == Spec => []TypeOK
<1>1. Spec => []TypeInv
  BY TypeInit, TypeNext, PTL DEF Spec
<1>2. QED  BY <1>1, TypeInvType, PTL
=============================================================================
