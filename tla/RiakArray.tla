----------------------------- MODULE RiakArray -----------------------------
(***************************************************************************)
(* The dynamic array (src/src/riak_array.c): a block of capacity slots of  *)
(* which the first length are in use, grown by doubling.                   *)
(*                                                                         *)
(* A position is a size_t compared as a signed 64-bit integer: positions   *)
(* of 2^63 and more are the negative ones here.                            *)
(***************************************************************************)
EXTENDS Integers, Sequences

CONSTANTS
    Elems,      \* what is stored
    None,       \* NULL
    Order,      \* pairs of elements the comparer does not want swapped
    Sizes,      \* capacities arrays are made with
    Positions,  \* positions callers pass
    MaxLength   \* bound on the elements of an array

ASSUME ArrayAssumption ==
    /\ None \notin Elems
    /\ Sizes \subseteq Nat /\ Positions \subseteq Int /\ MaxLength \in Nat

VARIABLES
    array,     \* the slots, from 0
    length, capacity,
    state,     \* "none", "live", "lost" (freed under its owner), "spinning" or "stray"
    answer     \* what the last call was and returned

vars == <<array, length, capacity, state, answer>>

Slots == Elems \cup {None}

Answer(call, pos, code, elem) == answer' = [call |-> call, pos |-> pos, code |-> code, elem |-> elem]

Init ==
    /\ array = <<>> /\ length = 0 /\ capacity = 0 /\ state = "none"
    /\ answer = [call |-> "none", pos |-> 0, code |-> "ok", elem |-> None]

-----------------------------------------------------------------------------
New(size) ==
    /\ state = "none"
    /\ array' = [j \in 0..size - 1 |-> None]
    /\ length' = 0 /\ capacity' = size /\ state' = "live"
    /\ Answer("new", 0, "ok", None)

NewFails ==
    /\ state = "none"
    /\ Answer("new", 0, "memory", None) /\ UNCHANGED <<array, length, capacity, state>>

Free ==
    /\ state = "live" /\ state' = "none"
    /\ Answer("free", 0, "ok", None) /\ UNCHANGED <<array, length, capacity>>

\* The array after riak_array_resize for one more element, which doubles a full one.
Room == IF length < capacity THEN capacity ELSE 2 * capacity
Grown == [j \in 0..Room - 1 |-> IF j < capacity THEN array[j] ELSE None]

HasRoom == length < capacity \/ capacity > 0

\* No memory for a larger block: the array is freed, and its owner not told where.
CannotGrow(call, pos) ==
    /\ length >= capacity /\ capacity > 0
    /\ state' = "lost"
    /\ Answer(call, pos, "memory", None) /\ UNCHANGED <<array, length, capacity>>

\* Doubling zero for ever.
Spin ==
    /\ length >= capacity /\ capacity = 0
    /\ state' = "spinning" /\ UNCHANGED <<array, length, capacity, answer>>

\* The check lets the position pass and the access goes before the block.
Stray(pos) ==
    /\ pos < 0
    /\ state' = "stray" /\ UNCHANGED <<array, length, capacity, answer>>

Refuse(call, pos) == Answer(call, pos, "range", None) /\ UNCHANGED <<array, length, capacity, state>>

\* Shifts up from the position, from the end down.
ShiftedUp_Ascending(pos) == [j \in 0..Room - 1 |-> IF pos < j /\ j <= length THEN Grown[pos] ELSE Grown[j]]
ShiftedUp(pos) == [j \in 0..Room - 1 |-> IF pos < j /\ j <= length THEN Grown[j - 1] ELSE Grown[j]]

Insert(pos, e) ==
    /\ state = "live" /\ length < MaxLength
    /\ \/ pos > length /\ Refuse("insert", pos)
       \/ pos <= length /\ (CannotGrow("insert", pos) \/ Spin \/ (HasRoom /\ Stray(pos)))
       \/ /\ 0 <= pos /\ pos <= length /\ HasRoom
          /\ array' = [ShiftedUp(pos) EXCEPT ![pos] = e]
          /\ length' = length + 1 /\ capacity' = Room
          /\ Answer("insert", pos, "ok", None) /\ UNCHANGED state

Push_ShortOfMemory(e) ==
    /\ state = "live" /\ length < MaxLength
    /\ \/ CannotGrow("push", 0) \/ Spin
       \/ /\ HasRoom
          /\ array' = [Grown EXCEPT ![length] = e]
          /\ length' = length + 1 /\ UNCHANGED capacity
          /\ Answer("push", 0, "ok", None) /\ UNCHANGED state

Push(e) ==
    /\ state = "live" /\ length < MaxLength
    /\ \/ CannotGrow("push", 0) \/ Spin
       \/ /\ HasRoom
          /\ array' = [Grown EXCEPT ![length] = e]
          /\ length' = length + 1 /\ capacity' = Room
          /\ Answer("push", 0, "ok", None) /\ UNCHANGED state

\* Shifts down, reading one slot behind the last: past the block when it is full,
\* and then whatever is there.
Remove_ToEnd(pos) ==
    /\ state = "live"
    /\ \/ pos > length - 1 /\ Refuse("remove", pos)
       \/ pos <= length - 1 /\ Stray(pos)
       \/ /\ 0 <= pos /\ pos <= length - 1
          /\ \E beyond \in Slots :
                array' = [j \in 0..capacity - 1 |->
                             IF pos <= j /\ j < length
                             THEN IF j + 2 < capacity THEN array[j + 2] ELSE beyond
                             ELSE array[j]]
          /\ length' = length - 1
          /\ Answer("remove", pos, "ok", None) /\ UNCHANGED <<capacity, state>>

Remove(pos) ==
    /\ state = "live"
    /\ \/ pos > length - 1 /\ Refuse("remove", pos)
       \/ pos <= length - 1 /\ Stray(pos)
       \/ /\ 0 <= pos /\ pos <= length - 1
          /\ \E beyond \in Slots :
                array' = [j \in 0..capacity - 1 |->
                             IF pos <= j /\ j < length
                             THEN IF j + 1 < capacity THEN array[j + 1] ELSE beyond
                             ELSE array[j]]
          /\ length' = length - 1
          /\ Answer("remove", pos, "ok", None) /\ UNCHANGED <<capacity, state>>

Pop ==
    /\ state = "live"
    /\ \/ length = 0 /\ Refuse("pop", 0)
       \/ /\ length > 0
          /\ length' = length - 1
          /\ Answer("pop", 0, "ok", array[length - 1]) /\ UNCHANGED <<array, capacity, state>>

Get(pos) ==
    /\ state = "live"
    /\ \/ pos > length - 1 /\ Refuse("get", pos)
       \/ pos <= length - 1 /\ Stray(pos)
       \/ /\ 0 <= pos /\ pos <= length - 1
          /\ Answer("get", pos, "ok", array[pos]) /\ UNCHANGED <<array, length, capacity, state>>

\* riak_array_set
Put(pos, e) ==
    /\ state = "live"
    /\ \/ pos > length - 1 /\ Refuse("set", pos)
       \/ pos <= length - 1 /\ Stray(pos)
       \/ /\ 0 <= pos /\ pos <= length - 1
          /\ array' = [array EXCEPT ![pos] = e]
          /\ Answer("set", pos, "ok", None) /\ UNCHANGED <<length, capacity, state>>

Permutations1To(n) == {p \in [1..n -> 1..n] : \A i, j \in 1..n : i # j => p[i] # p[j]}

\* qsort orders the slots in use.
Sort ==
    /\ state = "live"
    /\ \E p \in Permutations1To(length) :
          array' = [j \in 0..capacity - 1 |-> IF j < length THEN array[p[j + 1] - 1] ELSE array[j]]
    /\ \A i, j \in 0..length - 1 : i < j => <<array'[i], array'[j]>> \in Order
    /\ Answer("sort", 0, "ok", None) /\ UNCHANGED <<length, capacity, state>>

\* Nothing is done with an array that is lost, hangs or was written before its start.
Stopped == state \in {"lost", "spinning", "stray"} /\ UNCHANGED vars

Next ==
    \/ \E size \in Sizes : New(size)
    \/ NewFails \/ Free \/ Pop \/ Sort \/ Stopped
    \/ \E e \in Elems : Push(e)
    \/ \E pos \in Positions : Remove(pos) \/ Get(pos)
    \/ \E pos \in Positions, e \in Elems : Insert(pos, e) \/ Put(pos, e)

Spec == Init /\ [][Next]_vars

-----------------------------------------------------------------------------
(* Properties. *)

\* Every variable has its type; the block has capacity slots, of which no more
\* than all are in use.
TypeOK ==
    /\ array \in [0..capacity - 1 -> Slots]
    /\ capacity \in Nat /\ length \in 0..capacity
    /\ state \in {"none", "live", "lost", "spinning", "stray"}
    /\ answer \in [call : {"none", "new", "free", "insert", "push", "remove", "pop", "get", "set", "sort"},
                   pos : Positions \cup {0}, code : {"ok", "memory", "range"}, elem : Slots]

\* What is in use is what callers put there: neither the NULLs of a new block
\* nor what riak_array_remove reads past the end of a full one come to be
\* elements.
Given == \A j \in 0..length - 1 : array[j] \in Elems

\* The elements, as callers see them.
Elements == [i \in 1..length |-> array[i - 1]]

\* The array is the sequence riak_array.h promises (ArraySequence), until it is
\* lost to a failed riak_array_resize, made with no room and grown, or given a
\* position of 2^63 or more.
A == INSTANCE ArraySequence WITH seq <- Elements, roomy <- capacity > 0
IsSequence == A!Spec
=============================================================================
