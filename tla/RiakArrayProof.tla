--------------------------- MODULE RiakArrayProof ---------------------------
(***************************************************************************)
(* Proofs about the dynamic array, for all elements, positions, capacities *)
(* and lengths: it keeps within its block, holds what callers gave, and is *)
(* the sequence its header promises.                                       *)
(***************************************************************************)
EXTENDS RiakArray, SequenceTheorems, TLAPS

-----------------------------------------------------------------------------
(* Typing. *)

\* A larger block holds what the old one held, and has room.
LEMMA Growing ==
    ASSUME TypeOK, HasRoom
    PROVE  /\ Room \in Nat /\ capacity <= Room /\ length < Room
           /\ Grown \in [0..Room - 1 -> Slots]
           /\ \A j \in 0..capacity - 1 : Grown[j] = array[j]
           /\ Room > 0
<1>1. Room \in Nat /\ capacity <= Room /\ length < Room
  BY DEF TypeOK, HasRoom, Room
<1>2. \A j \in 0..Room - 1 : (IF j < capacity THEN array[j] ELSE None) \in Slots
  BY <1>1 DEF TypeOK, Slots
<1>3. QED  BY <1>1, <1>2 DEF Grown, TypeOK

LEMMA ShiftedTyped ==
    ASSUME TypeOK, HasRoom, NEW pos \in 0..length
    PROVE  /\ ShiftedUp(pos) \in [0..Room - 1 -> Slots]
           /\ \A j \in 0..length : ShiftedUp(pos)[j] = IF pos < j THEN array[j - 1] ELSE Grown[j]
<1>1. \A j \in 0..Room - 1 :
         (IF pos < j /\ j <= length THEN Grown[j - 1] ELSE Grown[j]) \in Slots
  BY Growing DEF TypeOK
<1>2. \A j \in 0..length : j \in 0..Room - 1 /\ (pos < j => j - 1 \in 0..capacity - 1)
  BY Growing DEF TypeOK
<1>3. QED  BY <1>1, <1>2, Growing DEF ShiftedUp, TypeOK

LEMMA InitTyped == Init => TypeOK
  BY ArrayAssumption DEF Init, TypeOK, Slots

LEMMA StepTyped == TypeOK /\ [Next]_vars => TypeOK'
<1> SUFFICES ASSUME TypeOK, [Next]_vars PROVE TypeOK'
  OBVIOUS
<1> USE ArrayAssumption
<1>0. None \in Slots /\ Elems \subseteq Slots
  BY DEF Slots
<1>1. ASSUME NEW size \in Sizes, New(size) PROVE TypeOK'
  BY <1>0, <1>1 DEF New, Answer, TypeOK
<1>2. CASE NewFails
  BY <1>0, <1>2 DEF NewFails, Answer, TypeOK
<1>3. CASE Free
  BY <1>0, <1>3 DEF Free, Answer, TypeOK
<1>4. CASE Pop
  <2>1. CASE length = 0
    BY <1>0, <1>4, <2>1 DEF Pop, Refuse, Answer, TypeOK
  <2>2. CASE length > 0
    <3>1. array[length - 1] \in Slots
      BY <2>2 DEF TypeOK
    <3>2. QED  BY <1>0, <1>4, <2>2, <3>1 DEF Pop, Refuse, Answer, TypeOK
  <2>3. QED  BY <2>1, <2>2 DEF TypeOK
<1>5. CASE Sort
  <2>1. PICK p \in Permutations1To(length) :
           array' = [j \in 0..capacity - 1 |-> IF j < length THEN array[p[j + 1] - 1] ELSE array[j]]
    BY <1>5 DEF Sort
  <2>2. \A j \in 0..capacity - 1 : j < length => p[j + 1] - 1 \in 0..capacity - 1
    BY DEF Permutations1To, TypeOK
  <2>3. array' \in [0..capacity - 1 -> Slots]
    BY <2>1, <2>2 DEF TypeOK
  <2>4. QED  BY <1>0, <1>5, <2>3 DEF Sort, Answer, TypeOK
<1>6. CASE Stopped
  BY <1>6 DEF Stopped, vars, TypeOK
<1>7. ASSUME NEW e \in Elems, Push(e) PROVE TypeOK'
  <2>1. CASE CannotGrow("push", 0)
    BY <1>0, <2>1 DEF CannotGrow, Answer, TypeOK
  <2>2. CASE Spin
    BY <2>2 DEF Spin, TypeOK
  <2>3. CASE HasRoom /\ array' = [Grown EXCEPT ![length] = e] /\ length' = length + 1
             /\ capacity' = Room /\ Answer("push", 0, "ok", None) /\ UNCHANGED state
    <3>1. array' \in [0..capacity' - 1 -> Slots]
      BY <1>0, <2>3, Growing DEF TypeOK
    <3>2. QED  BY <1>0, <2>3, <3>1, Growing DEF Answer, TypeOK
  <2>4. QED  BY <1>7, <2>1, <2>2, <2>3 DEF Push
<1>8. ASSUME NEW pos \in Positions, Remove(pos) PROVE TypeOK'
  <2>1. CASE Refuse("remove", pos)
    BY <1>0, <2>1 DEF Refuse, Answer, TypeOK
  <2>2. CASE Stray(pos)
    BY <2>2 DEF Stray, TypeOK
  <2>3. CASE /\ 0 <= pos /\ pos <= length - 1
             /\ \E beyond \in Slots :
                   array' = [j \in 0..capacity - 1 |->
                                IF pos <= j /\ j < length
                                THEN IF j + 1 < capacity THEN array[j + 1] ELSE beyond
                                ELSE array[j]]
             /\ length' = length - 1
             /\ Answer("remove", pos, "ok", None) /\ UNCHANGED <<capacity, state>>
    <3>1. array' \in [0..capacity - 1 -> Slots]
      BY <2>3 DEF TypeOK
    <3>2. QED  BY <1>0, <2>3, <3>1 DEF Answer, TypeOK
  <2>4. QED  BY <1>8, <2>1, <2>2, <2>3 DEF Remove
<1>9. ASSUME NEW pos \in Positions, Get(pos) PROVE TypeOK'
  <2>1. CASE Refuse("get", pos)
    BY <1>0, <2>1 DEF Refuse, Answer, TypeOK
  <2>2. CASE Stray(pos)
    BY <2>2 DEF Stray, TypeOK
  <2>3. CASE 0 <= pos /\ pos <= length - 1
    <3>1. array[pos] \in Slots
      BY <2>3 DEF TypeOK
    <3>2. QED  BY <1>0, <1>9, <2>1, <2>2, <3>1 DEF Get, Answer, TypeOK
  <2>4. QED  BY <1>9, <2>1, <2>2, <2>3 DEF Get
<1>10. ASSUME NEW pos \in Positions, NEW e \in Elems, Insert(pos, e) PROVE TypeOK'
  <2>1. CASE Refuse("insert", pos)
    BY <1>0, <2>1 DEF Refuse, Answer, TypeOK
  <2>2. CASE CannotGrow("insert", pos)
    BY <1>0, <2>2 DEF CannotGrow, Answer, TypeOK
  <2>3. CASE Spin
    BY <2>3 DEF Spin, TypeOK
  <2>4. CASE Stray(pos)
    BY <2>4 DEF Stray, TypeOK
  <2>5. CASE /\ 0 <= pos /\ pos <= length /\ HasRoom
             /\ array' = [ShiftedUp(pos) EXCEPT ![pos] = e]
             /\ length' = length + 1 /\ capacity' = Room
             /\ Answer("insert", pos, "ok", None) /\ UNCHANGED state
    <3>1. pos \in 0..length
      BY <2>5 DEF TypeOK
    <3>2. array' \in [0..capacity' - 1 -> Slots]
      BY <1>0, <2>5, <3>1, ShiftedTyped DEF TypeOK
    <3>3. QED  BY <1>0, <2>5, <3>2, Growing DEF Answer, TypeOK
  <2>6. QED  BY <1>10, <2>1, <2>2, <2>3, <2>4, <2>5 DEF Insert
<1>11. ASSUME NEW pos \in Positions, NEW e \in Elems, Put(pos, e) PROVE TypeOK'
  <2>1. CASE Refuse("set", pos)
    BY <1>0, <2>1 DEF Refuse, Answer, TypeOK
  <2>2. CASE Stray(pos)
    BY <2>2 DEF Stray, TypeOK
  <2>3. CASE /\ 0 <= pos /\ pos <= length - 1
             /\ array' = [array EXCEPT ![pos] = e]
             /\ Answer("set", pos, "ok", None) /\ UNCHANGED <<length, capacity, state>>
    BY <1>0, <2>3 DEF Answer, TypeOK
  <2>4. QED  BY <1>11, <2>1, <2>2, <2>3 DEF Put
<1>12. CASE UNCHANGED vars
  BY <1>12 DEF vars, TypeOK
<1>13. QED
  BY <1>1, <1>2, <1>3, <1>4, <1>5, <1>6, <1>7, <1>8, <1>9, <1>10, <1>11, <1>12 DEF Next

\* The array never uses more slots than its block has, and grows before it
\* writes (riak_array_resize).
THEOREM TypeCorrect == Spec => []TypeOK
  BY InitTyped, StepTyped, PTL DEF Spec

-----------------------------------------------------------------------------
(* What is in use was given. *)

GivenInv == TypeOK /\ Given

LEMMA GivenStep == GivenInv /\ [Next]_vars => Given'
<1> SUFFICES ASSUME TypeOK, Given, [Next]_vars PROVE Given'
  BY DEF GivenInv
<1> USE ArrayAssumption
<1>1. ASSUME NEW size \in Sizes, New(size) PROVE Given'
  BY <1>1 DEF New, Given
<1>2. CASE UNCHANGED <<array, length>>
  BY <1>2 DEF Given
<1>3. CASE Pop
  <2>1. array' = array /\ (length' = length \/ length' = length - 1)
    BY <1>3 DEF Pop, Refuse
  <2>2. \A j \in 0..length' - 1 : j \in 0..length - 1
    BY <2>1 DEF TypeOK
  <2>3. QED  BY <2>1, <2>2 DEF Given
<1>4. CASE Sort
  <2>1. PICK p \in Permutations1To(length) :
           array' = [j \in 0..capacity - 1 |-> IF j < length THEN array[p[j + 1] - 1] ELSE array[j]]
    BY <1>4 DEF Sort
  <2>2. \A j \in 0..length - 1 : p[j + 1] - 1 \in 0..length - 1
    BY DEF Permutations1To, TypeOK
  <2>3. \A j \in 0..length - 1 : array'[j] = array[p[j + 1] - 1]
    BY <2>1 DEF TypeOK
  <2>4. length' = length
    BY <1>4 DEF Sort
  <2>5. QED  BY <2>2, <2>3, <2>4 DEF Given
<1>5. ASSUME NEW e \in Elems, Push(e) PROVE Given'
  <2>1. CASE UNCHANGED <<array, length>>
    BY <1>2, <2>1
  <2>2. CASE HasRoom /\ array' = [Grown EXCEPT ![length] = e] /\ length' = length + 1
    <3>1. \A j \in 0..length : array'[j] = IF j = length THEN e ELSE array[j]
      BY <2>2, Growing DEF TypeOK
    <3>2. QED  BY <2>2, <3>1 DEF Given, TypeOK
  <2>3. QED  BY <1>5, <2>1, <2>2 DEF Push, CannotGrow, Spin
<1>6. ASSUME NEW pos \in Positions, Remove(pos) PROVE Given'
  <2>1. CASE UNCHANGED <<array, length>>
    BY <1>2, <2>1
  <2>2. CASE /\ 0 <= pos /\ pos <= length - 1
             /\ \E beyond \in Slots :
                   array' = [j \in 0..capacity - 1 |->
                                IF pos <= j /\ j < length
                                THEN IF j + 1 < capacity THEN array[j + 1] ELSE beyond
                                ELSE array[j]]
             /\ length' = length - 1
    <3>1. PICK beyond \in Slots :
             array' = [j \in 0..capacity - 1 |->
                          IF pos <= j /\ j < length
                          THEN IF j + 1 < capacity THEN array[j + 1] ELSE beyond
                          ELSE array[j]]
      BY <2>2
    <3>2. ASSUME NEW j \in 0..length - 2 PROVE array'[j] = IF j < pos THEN array[j] ELSE array[j + 1]
      <4>1. j \in 0..capacity - 1 /\ j + 1 < capacity /\ j < length
        BY DEF TypeOK
      <4>2. QED  BY <2>2, <3>1, <4>1
    <3>3. \A j \in 0..length - 2 : array[j] \in Elems /\ array[j + 1] \in Elems
      BY DEF Given, TypeOK
    <3>4. QED  BY <2>2, <3>2, <3>3 DEF Given, TypeOK
  <2>3. QED  BY <1>6, <2>1, <2>2 DEF Remove, Refuse, Stray
<1>7. ASSUME NEW pos \in Positions, NEW e \in Elems, Insert(pos, e) PROVE Given'
  <2>1. CASE UNCHANGED <<array, length>>
    BY <1>2, <2>1
  <2>2. CASE /\ 0 <= pos /\ pos <= length /\ HasRoom
             /\ array' = [ShiftedUp(pos) EXCEPT ![pos] = e]
             /\ length' = length + 1
    <3>1. pos \in 0..length
      BY <2>2 DEF TypeOK
    <3>2. \A j \in 0..length : array'[j] \in Elems
      BY <2>2, <3>1, ShiftedTyped, Growing DEF Given, TypeOK
    <3>3. QED  BY <2>2, <3>2 DEF Given, TypeOK
  <2>3. QED  BY <1>7, <2>1, <2>2 DEF Insert, CannotGrow, Spin, Refuse, Stray
<1>8. ASSUME NEW pos \in Positions, NEW e \in Elems, Put(pos, e) PROVE Given'
  <2>1. CASE UNCHANGED <<array, length>>
    BY <1>2, <2>1
  <2>2. CASE array' = [array EXCEPT ![pos] = e] /\ UNCHANGED length
    BY <2>2 DEF Given, TypeOK
  <2>3. QED  BY <1>8, <2>1, <2>2 DEF Put, Refuse, Stray
<1>9. NewFails \/ Free \/ Stopped \/ UNCHANGED vars => UNCHANGED <<array, length>>
  BY DEF NewFails, Free, Stopped, vars
<1>10. \A pos \in Positions : Get(pos) => UNCHANGED <<array, length>>
  BY DEF Get, Refuse, Stray
<1>11. QED
  BY <1>1, <1>2, <1>3, <1>4, <1>5, <1>6, <1>7, <1>8, <1>9, <1>10 DEF Next

\* No slot in use holds anything but what a caller put there, though
\* riak_array_remove reads past the end of a full block.
THEOREM HoldsGiven == Spec => []Given
<1>1. Init => GivenInv
  BY InitTyped DEF Init, GivenInv, Given
<1>2. GivenInv /\ [Next]_vars => GivenInv'
  BY StepTyped, GivenStep DEF GivenInv
<1>3. QED  BY <1>1, <1>2, PTL DEF Spec, GivenInv

-----------------------------------------------------------------------------
(* The array is a sequence. *)

\* The slots in use read as a sequence.
LEMMA Holding ==
    ASSUME GivenInv
    PROVE  /\ Elements \in Seq(Elems) /\ Len(Elements) = length /\ length \in Nat
           /\ \A i \in 1..length : Elements[i] = array[i - 1] /\ array[i - 1] \in Elems
<1>1. length \in Nat /\ \A i \in 1..length : array[i - 1] \in Elems
  BY DEF GivenInv, Given, TypeOK
<1>2. Elements \in [1..length -> Elems]
  BY <1>1 DEF Elements
<1>3. QED  BY <1>1, <1>2 DEF Elements

\* Two sequences put together, and a sequence told by its elements.
LEMMA Joined ==
    ASSUME NEW s \in Seq(Elems), NEW t \in Seq(Elems)
    PROVE  /\ s \o t \in Seq(Elems) /\ Len(s \o t) = Len(s) + Len(t)
           /\ \A i \in 1..Len(s) + Len(t) : (s \o t)[i] = IF i <= Len(s) THEN s[i] ELSE t[i - Len(s)]
  BY ConcatProperties

LEMMA ByElements ==
    ASSUME NEW s \in Seq(Elems), NEW n \in Nat, Len(s) = n
    PROVE  s = [i \in 1..n |-> s[i]]
  BY LenProperties

LEMMA AppendedIs ==
    ASSUME NEW s \in Seq(Elems), NEW e \in Elems
    PROVE  Append(s, e) = [i \in 1..Len(s) + 1 |-> IF i = Len(s) + 1 THEN e ELSE s[i]]
<1> DEFINE t == Append(s, e)
<1>1. t \in Seq(Elems) /\ Len(t) = Len(s) + 1 /\ Len(s) + 1 \in Nat
  OBVIOUS
<1>2. \A i \in 1..Len(s) + 1 : t[i] = IF i = Len(s) + 1 THEN e ELSE s[i]
  BY AppendProperties
<1>3. t = [i \in 1..Len(s) + 1 |-> t[i]]
  <2> HIDE DEF t
  <2>1. QED  BY <1>1, ByElements
<1>4. QED  BY <1>2, <1>3

\* What the abstract insertion makes of it.
LEMMA InsertedIs ==
    ASSUME NEW s \in Seq(Elems), NEW pos \in 0..Len(s), NEW e \in Elems
    PROVE  A!Inserted(s, pos, e) =
             [i \in 1..Len(s) + 1 |-> IF i <= pos THEN s[i] ELSE IF i = pos + 1 THEN e ELSE s[i - 1]]
<1> DEFINE front == SubSeq(s, 1, pos)
           back  == SubSeq(s, pos + 1, Len(s))
           whole == (front \o <<e>>) \o back
<1>1. \A i \in 1..Len(s) : s[i] \in Elems
  OBVIOUS
<1>2. front \in Seq(Elems) /\ Len(front) = pos /\ \A i \in 1..pos : front[i] = s[i]
  BY <1>1, SubSeqProperties
<1>3. /\ back \in Seq(Elems) /\ Len(back) = Len(s) - pos
      /\ \A i \in 1..Len(s) - pos : back[i] = s[pos + i]
  BY <1>1, SubSeqProperties
<1>4. /\ front \o <<e>> \in Seq(Elems) /\ Len(front \o <<e>>) = pos + 1
      /\ \A i \in 1..pos + 1 : (front \o <<e>>)[i] = IF i <= pos THEN s[i] ELSE e
  BY <1>2, Joined
<1>5. /\ whole \in Seq(Elems) /\ Len(whole) = Len(s) + 1
      /\ \A i \in 1..Len(s) + 1 :
            whole[i] = IF i <= pos THEN s[i] ELSE IF i = pos + 1 THEN e ELSE s[i - 1]
  <2> HIDE DEF front, back
  <2>1. whole \in Seq(Elems) /\ Len(whole) = Len(s) + 1
    BY <1>3, <1>4, Joined
  <2>2. \A i \in 1..Len(s) + 1 :
           whole[i] = IF i <= pos + 1 THEN (front \o <<e>>)[i] ELSE back[i - (pos + 1)]
    BY <1>3, <1>4, Joined
  <2>3. \A i \in 1..Len(s) + 1 : i > pos + 1 => back[i - (pos + 1)] = s[i - 1]
    <3> HIDE DEF whole
    <3>1. \A i \in 1..Len(s) + 1 : i > pos + 1 => i - (pos + 1) \in 1..Len(s) - pos
      OBVIOUS
    <3>2. QED  BY <1>3, <3>1
  <2> HIDE DEF whole
  <2>4. ASSUME NEW i \in 1..Len(s) + 1
        PROVE  whole[i] = IF i <= pos THEN s[i] ELSE IF i = pos + 1 THEN e ELSE s[i - 1]
    <3>1. CASE i <= pos + 1
      <4>1. i \in 1..pos + 1
        BY <3>1
      <4>2. QED  BY <1>4, <2>2, <3>1, <4>1
    <3>2. CASE i > pos + 1
      BY <2>2, <2>3, <3>2
    <3>3. QED  BY <3>1, <3>2
  <2>5. QED  BY <2>1, <2>4
<1>6. A!Inserted(s, pos, e) = whole
  BY DEF A!Inserted
<1>7. whole = [i \in 1..Len(s) + 1 |-> whole[i]]
  <2> HIDE DEF whole
  <2>1. QED  BY <1>5, ByElements
<1>8. QED  BY <1>5, <1>6, <1>7

LEMMA RemovedIs ==
    ASSUME NEW s \in Seq(Elems), NEW pos \in 0..Len(s) - 1
    PROVE  A!Removed(s, pos) = [i \in 1..Len(s) - 1 |-> IF i <= pos THEN s[i] ELSE s[i + 1]]
<1> DEFINE front == SubSeq(s, 1, pos)
           back  == SubSeq(s, pos + 2, Len(s))
<1>1. \A i \in 1..Len(s) : s[i] \in Elems
  OBVIOUS
<1>2. front \in Seq(Elems) /\ Len(front) = pos /\ \A i \in 1..pos : front[i] = s[i]
  BY <1>1, SubSeqProperties
<1>3. /\ back \in Seq(Elems) /\ Len(back) = Len(s) - pos - 1
      /\ \A i \in 1..Len(s) - pos - 1 : back[i] = s[pos + 1 + i]
  BY <1>1, SubSeqProperties
<1>4. /\ front \o back \in Seq(Elems) /\ Len(front \o back) = Len(s) - 1
      /\ \A i \in 1..Len(s) - 1 : (front \o back)[i] = IF i <= pos THEN s[i] ELSE s[i + 1]
  <2> HIDE DEF front, back
  <2>1. QED  BY <1>2, <1>3, Joined
<1>5. A!Removed(s, pos) = front \o back
  BY DEF A!Removed
<1> DEFINE whole == front \o back
<1>6. whole = [i \in 1..Len(s) - 1 |-> whole[i]]
  <2>1. whole \in Seq(Elems) /\ Len(whole) = Len(s) - 1
    BY <1>4
  <2> HIDE DEF whole
  <2>2. QED  BY <2>1, ByElements
<1>7. QED  BY <1>4, <1>5, <1>6

LEMMA ArrayInit == Init => A!Init
  BY DEF Init, A!Init, Elements

\* Every step of the code is one of the sequence's.
LEMMA ArrayStep ==
    ASSUME GivenInv, [Next]_vars
    PROVE  [A!Next]_(A!vars)
<1> USE ArrayAssumption
<1>0. /\ Len(Elements) = length /\ length \in Nat /\ capacity \in Nat /\ length <= capacity
      /\ Elements \in Seq(Elems)
      /\ \A i \in 1..length : Elements[i] = array[i - 1]
      /\ \A pos \in Positions : pos \in Int
  BY Holding DEF GivenInv, TypeOK
<1>1. UNCHANGED <<array, length>> => UNCHANGED Elements
  BY DEF Elements
<1>2. \A call, pos, code, elem : Answer(call, pos, code, elem) => A!Answer(call, pos, code, elem)
  BY DEF Answer, A!Answer
<1>3. ASSUME NEW size \in Sizes, New(size) PROVE A!New
  <2>1. Elements' = <<>>
    BY <1>3 DEF New, Elements
  <2>2. (capacity > 0)' \in BOOLEAN
    OBVIOUS
  <2>3. QED  BY <1>2, <1>3, <2>1, <2>2 DEF New, A!New
<1>4. CASE NewFails
  BY <1>1, <1>2, <1>4 DEF NewFails, A!New, A!Next
<1>5. CASE Free
  BY <1>1, <1>2, <1>5 DEF Free, A!Free, A!Next
<1>6. ASSUME NEW call \in {"insert", "push", "remove", "pop", "get", "set"}, NEW pos \in Positions \cup {0},
             state = "live",
             \/ call = "insert" /\ pos > length
             \/ call \in {"remove", "get", "set"} /\ pos > length - 1
             \/ call = "pop" /\ pos = 0 /\ length = 0,
             Refuse(call, pos)
      PROVE  A!Next
  <2>1. length = 0 => Elements = <<>>
    BY DEF Elements
  <2>2. A!Refuse(call, pos)
    BY <1>0, <1>1, <1>2, <1>6, <2>1 DEF Refuse, A!Refuse
  <2>3. QED  BY <1>6, <2>2 DEF A!Next
<1>7. ASSUME NEW call \in {"insert", "push"}, NEW pos \in Positions \cup {0}, state = "live", CannotGrow(call, pos)
      PROVE  A!Next
  <2>1. A!Lose(call, pos)
    BY <1>1, <1>2, <1>7 DEF CannotGrow, A!Lose
  <2>2. QED  BY <1>7, <2>1 DEF A!Next
<1>8. ASSUME state = "live", Spin PROVE A!Next
  <2>1. Elements = <<>>
    BY <1>0, <1>8 DEF Spin, Elements
  <2>2. A!Hang
    BY <1>1, <1>8, <2>1 DEF Spin, A!Hang
  <2>3. QED  BY <2>2 DEF A!Next
<1>9. ASSUME NEW pos \in Positions, state = "live", Stray(pos) PROVE A!Next
  <2>1. A!Stray(pos)
    BY <1>1, <1>9 DEF Stray, A!Stray
  <2>2. QED  BY <2>1 DEF A!Next
<1>10. CASE Pop
  <2>1. CASE length = 0 /\ Refuse("pop", 0)
    BY <1>6, <1>10, <2>1 DEF Pop
  <2>2. CASE /\ length > 0 /\ length' = length - 1
             /\ Answer("pop", 0, "ok", array[length - 1]) /\ UNCHANGED <<array, capacity, state>>
    <3>1. Elements # <<>> /\ Elements[length] = array[length - 1]
      BY <1>0, <2>2
    <3>2. Elements' = SubSeq(Elements, 1, length - 1)
      BY <1>0, <2>2 DEF Elements
    <3>3. A!Pop
      BY <1>0, <1>2, <1>10, <2>2, <3>1, <3>2 DEF Pop, A!Pop
    <3>4. QED  BY <3>3 DEF A!Next
  <2>3. QED  BY <1>10, <2>1, <2>2 DEF Pop
<1>11. CASE Sort
  <2>1. PICK p \in Permutations1To(length) :
           array' = [j \in 0..capacity - 1 |-> IF j < length THEN array[p[j + 1] - 1] ELSE array[j]]
    BY <1>11 DEF Sort
  <2>2. /\ state = "live" /\ Answer("sort", 0, "ok", None) /\ UNCHANGED <<length, capacity, state>>
        /\ \A i, j \in 0..length - 1 : i < j => <<array'[i], array'[j]>> \in Order
    BY <1>11 DEF Sort
  <2>3. p \in [1..length -> 1..length] /\ p \in A!Permutations1To(length)
    BY <2>1 DEF Permutations1To, A!Permutations1To
  <2>4. \A i \in 1..length : array'[i - 1] = Elements[p[i]]
    <3> SUFFICES ASSUME NEW i \in 1..length PROVE array'[i - 1] = Elements[p[i]]
      OBVIOUS
    <3>1. array'[i - 1] = array[p[i] - 1]
      <4>1. i - 1 \in 0..capacity - 1 /\ i - 1 < length /\ (i - 1) + 1 = i
        BY <1>0
      <4>2. QED  BY <2>1, <4>1
    <3>2. p[i] \in 1..length
      BY <2>3
    <3>3. QED  BY <1>0, <3>1, <3>2
  <2>5. Elements' = [i \in 1..length |-> array'[i - 1]]
    BY <2>2 DEF Elements
  <2>6. Elements' = [i \in 1..length |-> Elements[p[i]]]
    BY <2>4, <2>5
  <2>7. \A i, j \in 1..length : i < j => <<Elements'[i], Elements'[j]>> \in Order
    <3> SUFFICES ASSUME NEW i \in 1..length, NEW j \in 1..length, i < j
                 PROVE  <<Elements'[i], Elements'[j]>> \in Order
      OBVIOUS
    <3>1. Elements'[i] = array'[i - 1] /\ Elements'[j] = array'[j - 1]
      BY <2>5
    <3>2. i - 1 \in 0..length - 1 /\ j - 1 \in 0..length - 1 /\ i - 1 < j - 1
      BY <1>0
    <3>3. QED  BY <2>2, <3>1, <3>2
  <2>8. A!Sort
    BY <1>0, <1>2, <2>2, <2>3, <2>6, <2>7 DEF A!Sort
  <2>9. QED  BY <2>8 DEF A!Next
<1>12. ASSUME NEW e \in Elems, Push(e) PROVE A!Next
  <2>1. CASE HasRoom /\ array' = [Grown EXCEPT ![length] = e] /\ length' = length + 1
             /\ capacity' = Room /\ Answer("push", 0, "ok", None) /\ UNCHANGED state
    <3>1. \A i \in 1..length + 1 : array'[i - 1] = IF i = length + 1 THEN e ELSE Elements[i]
      <4> SUFFICES ASSUME NEW i \in 1..length + 1
                   PROVE  array'[i - 1] = IF i = length + 1 THEN e ELSE Elements[i]
        OBVIOUS
      <4>1. i - 1 \in 0..Room - 1 /\ (i # length + 1 => i - 1 \in 0..capacity - 1 /\ i \in 1..length)
        BY <1>0, <2>1, Growing DEF GivenInv
      <4>2. i - 1 = length <=> i = length + 1
        BY <1>0
      <4>3. array'[i - 1] = IF i = length + 1 THEN e ELSE Grown[i - 1]
        BY <2>1, <4>1, <4>2, Growing DEF GivenInv
      <4>4. QED  BY <1>0, <2>1, <4>1, <4>3, Growing DEF GivenInv
    <3>2. Elements' = [i \in 1..length + 1 |-> array'[i - 1]]
      BY <2>1 DEF Elements
    <3>3. Append(Elements, e) = [i \in 1..length + 1 |-> IF i = length + 1 THEN e ELSE Elements[i]]
      BY <1>0, AppendedIs
    <3>7. Elements' = Append(Elements, e)
      BY <3>1, <3>2, <3>3
    <3>4. (capacity > 0)' = (capacity > 0)
      BY <1>0, <2>1 DEF HasRoom, Room
    <3>5. A!Push(e)
      BY <1>2, <1>12, <2>1, <3>7, <3>4 DEF Push, A!Push
    <3>6. QED  BY <3>5 DEF A!Next
  <2>2. QED  BY <1>7, <1>8, <1>12, <2>1 DEF Push
<1>13. ASSUME NEW pos \in Positions, Remove(pos) PROVE A!Next
  <2>1. CASE /\ 0 <= pos /\ pos <= length - 1
             /\ \E beyond \in Slots :
                   array' = [j \in 0..capacity - 1 |->
                                IF pos <= j /\ j < length
                                THEN IF j + 1 < capacity THEN array[j + 1] ELSE beyond
                                ELSE array[j]]
             /\ length' = length - 1
             /\ Answer("remove", pos, "ok", None) /\ UNCHANGED <<capacity, state>>
    <3>1. pos \in 0..Len(Elements) - 1
      <4>1. 0 <= pos /\ pos <= length - 1
        BY <2>1
      <4>2. QED  BY <1>0, <4>1
    <3>2. PICK beyond \in Slots :
             array' = [j \in 0..capacity - 1 |->
                          IF pos <= j /\ j < length
                          THEN IF j + 1 < capacity THEN array[j + 1] ELSE beyond
                          ELSE array[j]]
      BY <2>1
    <3>3. ASSUME NEW i \in 1..length - 1
          PROVE  array'[i - 1] = IF i <= pos THEN Elements[i] ELSE Elements[i + 1]
      <4>1. /\ i - 1 \in 0..capacity - 1 /\ (i - 1) + 1 = i /\ i < capacity /\ i - 1 < length
            /\ (pos <= i - 1 <=> ~(i <= pos))
            /\ i \in 1..length /\ i + 1 \in 1..length /\ (i + 1) - 1 = i
        BY <1>0, <3>1
      <4>2. QED  BY <1>0, <3>2, <4>1
    <3>4. Elements' = [i \in 1..length - 1 |-> array'[i - 1]]
      BY <2>1 DEF Elements
    <3>5. Elements' = A!Removed(Elements, pos)
      <4>1. A!Removed(Elements, pos) =
               [i \in 1..length - 1 |-> IF i <= pos THEN Elements[i] ELSE Elements[i + 1]]
        BY <1>0, <3>1, RemovedIs
      <4>2. QED  BY <3>3, <3>4, <4>1
    <3>6. A!Remove(pos)
      BY <1>2, <1>13, <2>1, <3>1, <3>5 DEF Remove, A!Remove
    <3>7. QED  BY <3>6 DEF A!Next
  <2>2. QED  BY <1>6, <1>9, <1>13, <2>1 DEF Remove
<1>14. ASSUME NEW pos \in Positions, Get(pos) PROVE A!Next
  <2>1. CASE /\ 0 <= pos /\ pos <= length - 1
             /\ Answer("get", pos, "ok", array[pos]) /\ UNCHANGED <<array, length, capacity, state>>
    <3>1. pos \in 0..Len(Elements) - 1 /\ Elements[pos + 1] = array[pos]
      BY <1>0, <2>1
    <3>2. A!Get(pos)
      BY <1>1, <1>2, <1>14, <2>1, <3>1 DEF Get, A!Get
    <3>3. QED  BY <3>2 DEF A!Next
  <2>2. QED  BY <1>6, <1>9, <1>14, <2>1 DEF Get
<1>15. ASSUME NEW pos \in Positions, NEW e \in Elems, Put(pos, e) PROVE A!Next
  <2>1. CASE /\ 0 <= pos /\ pos <= length - 1
             /\ array' = [array EXCEPT ![pos] = e]
             /\ Answer("set", pos, "ok", None) /\ UNCHANGED <<length, capacity, state>>
    <3>1. pos \in 0..Len(Elements) - 1 /\ pos \in 0..capacity - 1
      BY <1>0, <2>1
    <3>2. ASSUME NEW i \in 1..length PROVE array'[i - 1] = IF i = pos + 1 THEN e ELSE Elements[i]
      <4>1. i - 1 \in 0..capacity - 1 /\ (i - 1 = pos <=> i = pos + 1)
        BY <1>0, <3>1
      <4>2. QED  BY <1>0, <2>1, <4>1 DEF GivenInv, TypeOK
    <3>3. Elements' = [i \in 1..length |-> array'[i - 1]]
      BY <2>1 DEF Elements
    <3>4. Elements' = [Elements EXCEPT ![pos + 1] = e]
      <4>1. Elements = [i \in 1..length |-> Elements[i]]
        BY <1>0, ByElements
      <4>2. [Elements EXCEPT ![pos + 1] = e] = [i \in 1..length |-> IF i = pos + 1 THEN e ELSE Elements[i]]
        BY <1>0, <4>1
      <4>3. QED  BY <3>2, <3>3, <4>2
    <3>5. A!Put(pos, e)
      BY <1>2, <1>15, <2>1, <3>1, <3>4 DEF Put, A!Put
    <3>6. QED  BY <3>5 DEF A!Next
  <2>2. QED  BY <1>6, <1>9, <1>15, <2>1 DEF Put
<1>16. ASSUME NEW pos \in Positions, NEW e \in Elems, Insert(pos, e) PROVE A!Next
  <2>1. CASE /\ 0 <= pos /\ pos <= length /\ HasRoom
             /\ array' = [ShiftedUp(pos) EXCEPT ![pos] = e]
             /\ length' = length + 1 /\ capacity' = Room
             /\ Answer("insert", pos, "ok", None) /\ UNCHANGED state
    <3>1. pos \in 0..Len(Elements) /\ pos \in 0..length
      BY <1>0, <2>1
    <3>2. ASSUME NEW i \in 1..length + 1
          PROVE  array'[i - 1] = IF i <= pos THEN Elements[i] ELSE IF i = pos + 1 THEN e ELSE Elements[i - 1]
      <4>1. i - 1 \in 0..Room - 1 /\ i - 1 \in 0..length /\ (i - 1 = pos <=> i = pos + 1)
        <5>1. HasRoom /\ length < Room /\ Room \in Nat
          BY <2>1, Growing DEF GivenInv
        <5>2. QED  BY <1>0, <3>1, <5>1
      <4>2. CASE i = pos + 1
        <5>1. pos \in 0..Room - 1
          BY <4>1, <4>2
        <5>2. array'[pos] = e
          BY <2>1, <3>1, <5>1, ShiftedTyped DEF GivenInv
        <5>3. i - 1 = pos /\ ~(i <= pos)
          BY <1>0, <4>2
        <5>4. QED  BY <4>2, <5>2, <5>3
      <4>3. CASE i <= pos
        <5>1. array'[i - 1] = Grown[i - 1]
          BY <2>1, <3>1, <4>1, <4>3, ShiftedTyped DEF GivenInv
        <5>2. i - 1 \in 0..capacity - 1 /\ i \in 1..length
          BY <1>0, <3>1, <4>3
        <5>3. QED  BY <1>0, <2>1, <4>3, <5>1, <5>2, Growing DEF GivenInv
      <4>4. CASE i > pos + 1
        <5>1. array'[i - 1] = array[(i - 1) - 1]
          BY <2>1, <3>1, <4>1, <4>4, ShiftedTyped DEF GivenInv
        <5>2. i - 1 \in 1..length
          BY <1>0, <3>1, <4>4
        <5>3. QED  BY <1>0, <3>1, <4>4, <5>1, <5>2
      <4>5. i = pos + 1 \/ i <= pos \/ i > pos + 1
        BY <3>1
      <4>6. QED  BY <4>2, <4>3, <4>4, <4>5, Zenon
    <3>3. Elements' = [i \in 1..length + 1 |-> array'[i - 1]]
      BY <2>1 DEF Elements
    <3>4. Elements' = A!Inserted(Elements, pos, e)
      <4>1. A!Inserted(Elements, pos, e) =
               [i \in 1..length + 1 |->
                   IF i <= pos THEN Elements[i] ELSE IF i = pos + 1 THEN e ELSE Elements[i - 1]]
        BY <1>0, <3>1, InsertedIs
      <4>2. QED  BY <3>2, <3>3, <4>1
    <3>5. (capacity > 0)' = (capacity > 0)
      BY <1>0, <2>1 DEF HasRoom, Room
    <3>6. A!Insert(pos, e)
      BY <1>2, <1>16, <2>1, <3>1, <3>4, <3>5 DEF Insert, A!Insert
    <3>7. QED  BY <3>6 DEF A!Next
  <2>2. state = "live" /\ pos \in Positions \cup {0}
    BY <1>16 DEF Insert
  <2>3. QED  BY <1>6, <1>7, <1>8, <1>9, <1>16, <2>1, <2>2 DEF Insert
<1>17. CASE UNCHANGED vars
  BY <1>1, <1>17 DEF vars, A!vars
<1>18. Stopped => UNCHANGED vars
  BY DEF Stopped
<1>19. QED
  BY <1>3, <1>4, <1>5, <1>10, <1>11, <1>12, <1>13, <1>14, <1>15, <1>16, <1>17, <1>18 DEF Next, A!Next

\* The array is the sequence riak_array.h promises, until it is lost to a failed
\* growth, made with no room, or given a position of 2^63 or more.
THEOREM Implements == Spec => IsSequence
<1>1. Init => GivenInv
  BY InitTyped DEF Init, GivenInv, Given
<1>2. GivenInv /\ [Next]_vars => GivenInv'
  BY StepTyped, GivenStep DEF GivenInv
<1>3. GivenInv /\ GivenInv' /\ [Next]_vars => [A!Next]_(A!vars)
  BY ArrayStep
<1>4. QED  BY <1>1, <1>2, <1>3, ArrayInit, PTL DEF Spec, IsSequence, A!Spec
=============================================================================
