--------------------------- MODULE ArraySequence ---------------------------
(***************************************************************************)
(* What riak_array.h promises of a dynamic array: a sequence, zero-indexed,*)
(* that grows at any position up to its end, and refuses a position behind *)
(* it.  What ends the promise is named: no memory to grow, an array made   *)
(* with no room, a position that a signed 64-bit integer cannot hold.      *)
(***************************************************************************)
EXTENDS Integers, Sequences

CONSTANTS
    Elems,      \* what is stored
    None,       \* no element
    Order,      \* pairs of elements the comparer does not want swapped
    Positions   \* positions callers pass; a negative one stands for 2^64 less

VARIABLES
    seq,      \* the elements
    roomy,    \* the array was made with a capacity above zero
    state,    \* "none", "live", "lost", "spinning" or "stray"
    answer    \* what the last call was and returned

vars == <<seq, roomy, state, answer>>

Answer(call, pos, code, elem) == answer' = [call |-> call, pos |-> pos, code |-> code, elem |-> elem]

Init == seq = <<>> /\ roomy = FALSE /\ state = "none" /\ answer = [call |-> "none", pos |-> 0, code |-> "ok", elem |-> None]

New ==
    /\ state = "none"
    /\ \/ /\ state' = "live" /\ seq' = <<>> /\ roomy' \in BOOLEAN
          /\ Answer("new", 0, "ok", None)
       \/ Answer("new", 0, "memory", None) /\ UNCHANGED <<seq, roomy, state>>

Free == state = "live" /\ state' = "none" /\ Answer("free", 0, "ok", None) /\ UNCHANGED <<seq, roomy>>

Inserted(s, pos, e) == SubSeq(s, 1, pos) \o <<e>> \o SubSeq(s, pos + 1, Len(s))
Removed(s, pos)     == SubSeq(s, 1, pos) \o SubSeq(s, pos + 2, Len(s))

Insert(pos, e) ==
    /\ state = "live" /\ pos \in 0..Len(seq)
    /\ seq' = Inserted(seq, pos, e)
    /\ Answer("insert", pos, "ok", None) /\ UNCHANGED <<roomy, state>>

Push(e) ==
    /\ state = "live"
    /\ seq' = Append(seq, e)
    /\ Answer("push", 0, "ok", None) /\ UNCHANGED <<roomy, state>>

Remove(pos) ==
    /\ state = "live" /\ pos \in 0..Len(seq) - 1
    /\ seq' = Removed(seq, pos)
    /\ Answer("remove", pos, "ok", None) /\ UNCHANGED <<roomy, state>>

Pop ==
    /\ state = "live" /\ seq # <<>>
    /\ seq' = SubSeq(seq, 1, Len(seq) - 1)
    /\ Answer("pop", 0, "ok", seq[Len(seq)]) /\ UNCHANGED <<roomy, state>>

Get(pos) ==
    /\ state = "live" /\ pos \in 0..Len(seq) - 1
    /\ Answer("get", pos, "ok", seq[pos + 1]) /\ UNCHANGED <<seq, roomy, state>>

Put(pos, e) ==
    /\ state = "live" /\ pos \in 0..Len(seq) - 1
    /\ seq' = [seq EXCEPT ![pos + 1] = e]
    /\ Answer("set", pos, "ok", None) /\ UNCHANGED <<roomy, state>>

Permutations1To(n) == {p \in [1..n -> 1..n] : \A i, j \in 1..n : i # j => p[i] # p[j]}

Sort ==
    /\ state = "live"
    /\ \E p \in Permutations1To(Len(seq)) : seq' = [i \in 1..Len(seq) |-> seq[p[i]]]
    /\ \A i, j \in 1..Len(seq) : i < j => <<seq'[i], seq'[j]>> \in Order
    /\ Answer("sort", 0, "ok", None) /\ UNCHANGED <<roomy, state>>

\* A position behind the end is refused, and nothing changes.
Refuse(call, pos) ==
    /\ state = "live"
    /\ \/ call = "insert" /\ pos > Len(seq)
       \/ call \in {"remove", "get", "set"} /\ pos >= Len(seq)
       \/ call = "pop" /\ pos = 0 /\ seq = <<>>
    /\ Answer(call, pos, "range", None) /\ UNCHANGED <<seq, roomy, state>>

\* No memory to grow: the owner is left with a pointer to nothing.
Lose(call, pos) ==
    /\ state = "live" /\ call \in {"insert", "push"}
    /\ state' = "lost"
    /\ Answer(call, pos, "memory", None) /\ UNCHANGED <<seq, roomy>>

\* An array made with no room never returns from the call that would grow it.
Hang ==
    /\ state = "live" /\ ~roomy /\ seq = <<>>
    /\ state' = "spinning" /\ UNCHANGED <<seq, roomy, answer>>

\* A position nothing refuses and no array holds.
Stray(pos) ==
    /\ state = "live" /\ pos < 0
    /\ state' = "stray" /\ UNCHANGED <<seq, roomy, answer>>

Next ==
    \/ New \/ Free \/ Pop \/ Sort \/ Hang
    \/ \E e \in Elems : Push(e)
    \/ \E pos \in Positions : Remove(pos) \/ Get(pos) \/ Stray(pos)
    \/ \E pos \in Positions, e \in Elems : Insert(pos, e) \/ Put(pos, e)
    \/ \E call \in {"insert", "push", "remove", "pop", "get", "set"}, pos \in Positions \cup {0} :
          Refuse(call, pos) \/ Lose(call, pos)

Spec == Init /\ [][Next]_vars
=============================================================================
