--------------------------- MODULE RiakStreamProof ---------------------------
(***************************************************************************)
(* Proofs about RiakStream: whatever the messages hold and however many    *)
(* there are, the messages a response keeps are the ones its keys point    *)
(* into, and they go with it; and the user's array has every key of every  *)
(* message, once and in order.                                             *)
(*                                                                         *)
(* SInv says what a response holds at each stage and needs nothing of how  *)
(* much a message has.  OInv adds the order of the messages kept and the   *)
(* keys a list has so far.  What the walk over an index answer visits, and *)
(* what a concatenation holds, follows from the lemmas of the first part.  *)
(***************************************************************************)
EXTENDS Integers, RiakStream, SequenceTheorems, WellFoundedInduction, TLAPS

(* Induction, and what the recursive functions of the model compute.        *)

LEMMA Less == IsWellFoundedOn({p \in Nat \X Nat : p[1] < p[2]}, Nat)
  BY NatLessThanWellFounded DEF OpToRel

LEMMA Induct ==
    ASSUME NEW S, 0 \in S, \A n \in Nat : n \in S => n + 1 \in S
    PROVE  Nat \subseteq S
<1> DEFINE R == {p \in Nat \X Nat : p[1] < p[2]}
           T == Nat \ S
<1>1. SUFFICES ASSUME T # {} PROVE FALSE
  OBVIOUS
<1>2. PICK x \in T : \A y \in T : ~(<<y, x>> \in R)
  <2>1. T \subseteq Nat
    OBVIOUS
  <2> HIDE DEF R, T
  <2>2. IsWellFoundedOn(R, Nat)
    BY Less DEF R
  <2>3. QED BY <1>1, <2>1, <2>2, WFMin
<1>3. x \in Nat /\ x # 0 /\ x - 1 \in Nat
  OBVIOUS
<1>4. x - 1 \in T
  BY <1>3
<1>5. <<x - 1, x>> \in R
  <2>1. <<x - 1, x>> \in Nat \X Nat /\ x - 1 < x
    BY <1>3
  <2>2. QED BY <2>1
<1>6. QED BY <1>2, <1>4, <1>5

\* f goes on from b as G says, for n steps.
Goes(f, G, b, n) == f[0] = b /\ \A i \in 1..n : f[i] = G[<<i, f[i - 1]>>]

LEMMA Recursion ==
    ASSUME NEW X, NEW b \in X, NEW G \in [Nat \X X -> X]
    PROVE  \A n \in Nat : \E f \in [0..n -> X] : Goes(f, G, b, n)
<1> DEFINE S == {n \in Nat : \E f \in [0..n -> X] : Goes(f, G, b, n)}
<1>1. 0 \in S
  <2> DEFINE f == [i \in 0..0 |-> b]
  <2>1. f \in [0..0 -> X] /\ Goes(f, G, b, 0)
    BY DEF Goes
  <2>2. QED  BY <2>1
<1>2. ASSUME NEW n \in Nat, n \in S PROVE n + 1 \in S
  <2>1. PICK f \in [0..n -> X] : Goes(f, G, b, n)
    BY <1>2
  <2> DEFINE x == G[<<n + 1, f[n]>>]
             g == [i \in 0..(n + 1) |-> IF i = n + 1 THEN x ELSE f[i]]
  <2>2. f[n] \in X /\ <<n + 1, f[n]>> \in Nat \X X
    OBVIOUS
  <2>3. x \in X
    BY <2>2
  <2>4. g \in [0..(n + 1) -> X]
    BY <2>3
  <2>5. \A i \in 0..n : g[i] = f[i]
    OBVIOUS
  <2>6. g[n + 1] = x
    OBVIOUS
  <2>7. ASSUME NEW i \in 1..(n + 1) PROVE g[i] = G[<<i, g[i - 1]>>]
    <3> HIDE DEF g
    <3>1. i - 1 \in 0..n
      OBVIOUS
    <3>2. g[i - 1] = f[i - 1]
      BY <2>5, <3>1
    <3>3. CASE i = n + 1
      <4>1. i - 1 = n
        BY <3>3
      <4>2. g[i] = G[<<i, f[i - 1]>>]
        BY <2>6, <3>3, <4>1
      <4>3. QED  BY <3>2, <4>2
    <3>4. CASE i # n + 1
      <4>1. i \in 1..n /\ i \in 0..n
        BY <3>4
      <4>2. g[i] = f[i] /\ f[i] = G[<<i, f[i - 1]>>]
        BY <2>1, <2>5, <4>1 DEF Goes
      <4>3. QED  BY <3>2, <4>2
    <3>5. QED  BY <3>3, <3>4
  <2>8. g[0] = b
    BY <2>1 DEF Goes
  <2>9. Goes(g, G, b, n + 1)
    <3> HIDE DEF g
    <3>1. QED  BY <2>7, <2>8 DEF Goes
  <2>10. QED
    <3> HIDE DEF g
    <3>1. QED  BY <2>4, <2>9
<1>3. Nat \subseteq S
  <2> HIDE DEF S
  <2>1. QED  BY <1>1, <1>2, Induct
<1>4. QED  BY <1>3

Summed(counts, s) == s = [c \in 0..Len(counts) |-> IF c = 0 THEN 0 ELSE s[c - 1] + counts[c]]

\* How many things there are in the first messages.
LEMMA SumsFacts ==
    ASSUME NEW counts \in Seq(Nat)
    PROVE  /\ Sums(counts) \in [0..Len(counts) -> Nat]
           /\ Sums(counts)[0] = 0
           /\ \A c \in 1..Len(counts) : Sums(counts)[c] = Sums(counts)[c - 1] + counts[c]
<1> DEFINE n == Len(counts)
           G == [p \in Nat \X Nat |-> IF p[1] \in 1..n THEN p[2] + counts[p[1]] ELSE 0]
<1>1. n \in Nat /\ G \in [Nat \X Nat -> Nat]
  OBVIOUS
<1>2. PICK f \in [0..n -> Nat] : Goes(f, G, 0, n)
  <2> HIDE DEF G, n
  <2>1. QED  BY <1>1, Recursion
<1>3. ASSUME NEW c \in 1..n PROVE f[c] = f[c - 1] + counts[c]
  <2>1. c - 1 \in 0..n /\ c \in Nat
    BY <1>1
  <2>2. f[c - 1] \in Nat
    BY <1>2, <2>1
  <2>3. <<c, f[c - 1]>> \in Nat \X Nat
    BY <2>1, <2>2
  <2>4. f[c] = G[<<c, f[c - 1]>>]
    BY <1>2 DEF Goes
  <2>5. QED  BY <2>3, <2>4
<1>4. Summed(counts, f)
  <2> DEFINE h == [c \in 0..n |-> IF c = 0 THEN 0 ELSE f[c - 1] + counts[c]]
  <2>1. ASSUME NEW c \in 0..n PROVE f[c] = h[c]
    <3>1. c = 0 => f[c] = 0
      BY <1>2 DEF Goes
    <3>2. c # 0 => c \in 1..n
      OBVIOUS
    <3>3. QED  BY <1>3, <3>1, <3>2
  <2>2. f = h
    BY <1>2, <2>1
  <2>3. QED  BY <2>2 DEF Summed
<1> DEFINE s == CHOOSE s : Summed(counts, s)
<1>5. Summed(counts, s)
  <2> HIDE DEF n, G
  <2>1. QED  BY <1>4
<1>6. Sums(counts) = s
  BY DEF Sums, Summed
<1> HIDE DEF s
<1>7. /\ DOMAIN s = 0..n /\ s[0] = 0
      /\ \A c \in 1..n : s[c] = s[c - 1] + counts[c]
  <2>1. \A c \in 0..n : s[c] = IF c = 0 THEN 0 ELSE s[c - 1] + counts[c]
    BY <1>5 DEF Summed
  <2>2. DOMAIN s = 0..n
    BY <1>5 DEF Summed
  <2>3. QED  BY <1>1, <2>1, <2>2
<1>8. s = [c \in 0..n |-> s[c]]
  BY <1>5 DEF Summed
<1>9. \A c \in 0..n : s[c] \in Nat
  <2> DEFINE P == {c \in Nat : c \in 0..n => s[c] \in Nat}
  <2>1. 0 \in P
    BY <1>7
  <2>2. ASSUME NEW c \in Nat, c \in P PROVE c + 1 \in P
    <3> SUFFICES ASSUME c + 1 \in 0..n PROVE s[c + 1] \in Nat
      OBVIOUS
    <3>1. c \in 0..n /\ c + 1 \in 1..n /\ (c + 1) - 1 = c
      BY <1>1
    <3>2. s[c] \in Nat /\ counts[c + 1] \in Nat
      BY <2>2, <3>1
    <3>3. s[c + 1] = s[c] + counts[c + 1]
      BY <1>7, <3>1
    <3>4. QED  BY <3>2, <3>3
  <2>3. Nat \subseteq P
    <3> HIDE DEF P
    <3>1. QED  BY <2>1, <2>2, Induct
  <2>4. QED  BY <1>1, <2>3
<1>10. QED  BY <1>6, <1>7, <1>8, <1>9

Walked(widths, n, at) == at = [i \in 1..n |-> IF i = 1 THEN <<1, 1>> ELSE After(widths, at[i - 1])]

LEMMA VisitedFacts ==
    ASSUME NEW widths \in Seq(Nat), NEW n \in Nat
    PROVE  /\ DOMAIN Visited(widths, n) = 1..n
           /\ n # 0 => Visited(widths, n)[1] = <<1, 1>>
           /\ \A i \in 2..n : Visited(widths, n)[i] = After(widths, Visited(widths, n)[i - 1])
<1> DEFINE X == Nat \X Nat
           G == [p \in Nat \X X |-> After(widths, p[2])]
<1>1. G \in [Nat \X X -> X]
  <2>1. ASSUME NEW p \in X PROVE After(widths, p) \in X
    BY DEF After
  <2>2. QED  BY <2>1
<1>2. PICK f \in [0..n -> X] : Goes(f, G, <<1, 1>>, n)
  <2>1. <<1, 1>> \in X
    OBVIOUS
  <2> HIDE DEF G, X
  <2>2. QED  BY <1>1, <2>1, Recursion
<1> DEFINE g == [i \in 1..n |-> f[i - 1]]
           h == [i \in 1..n |-> IF i = 1 THEN <<1, 1>> ELSE After(widths, g[i - 1])]
<1>3. ASSUME NEW i \in 1..n PROVE g[i] = h[i]
  <2>1. CASE i = 1
    <3>1. g[i] = f[0] /\ h[i] = <<1, 1>>
      BY <2>1
    <3>2. QED  BY <1>2, <3>1 DEF Goes
  <2>2. CASE i # 1
    <3>1. i - 1 \in 1..n /\ (i - 1) - 1 \in 0..n
      BY <2>2
    <3>2. g[i] = f[i - 1] /\ g[i - 1] = f[(i - 1) - 1] /\ f[(i - 1) - 1] \in X
      BY <3>1
    <3>3. f[i - 1] = G[<<i - 1, f[(i - 1) - 1]>>]
      BY <1>2, <3>1 DEF Goes
    <3>4. <<i - 1, f[(i - 1) - 1]>> \in Nat \X X
      BY <3>1, <3>2
    <3>5. f[i - 1] = After(widths, f[(i - 1) - 1])
      BY <3>3, <3>4
    <3>6. h[i] = After(widths, g[i - 1])
      BY <2>2
    <3>7. QED  BY <3>2, <3>5, <3>6
  <2>3. QED  BY <2>1, <2>2
<1>4. g = h
  BY <1>3
<1>5. Walked(widths, n, g)
  BY <1>4 DEF Walked
<1> DEFINE at == CHOOSE at : Walked(widths, n, at)
<1>6. Walked(widths, n, at)
  <2> HIDE DEF g
  <2>1. QED  BY <1>5
<1>7. Visited(widths, n) = at
  BY Zenon DEF Visited, Walked
<1> HIDE DEF at
<1>8. DOMAIN at = 1..n /\ \A i \in 1..n : at[i] = IF i = 1 THEN <<1, 1>> ELSE After(widths, at[i - 1])
  BY <1>6 DEF Walked
<1>9. n # 0 => at[1] = <<1, 1>>
  <2>1. n # 0 => 1 \in 1..n
    OBVIOUS
  <2>2. QED  BY <1>8, <2>1
<1>10. ASSUME NEW i \in 2..n PROVE at[i] = After(widths, at[i - 1])
  <2>1. i \in 1..n /\ i # 1
    OBVIOUS
  <2>2. QED  BY <1>8, <2>1
<1>11. QED  BY Zenon, <1>7, <1>8, <1>9, <1>10

\* f is the series of the concatenations of the first sequences.
Concats(ss, f, n) == f = [i \in 1..n |-> IF i = 1 THEN ss[i] ELSE f[i - 1] \o ss[i]]

LEMMA ConcatsAt ==
    ASSUME NEW ss, NEW f, NEW n \in Nat, Concats(ss, f, n), NEW i \in 1..n
    PROVE  f[i] = IF i = 1 THEN ss[i] ELSE f[i - 1] \o ss[i]
BY DEF Concats

LEMMA FlattenFacts ==
    ASSUME NEW T, NEW ss \in Seq(Seq(T)),
           Len(ss) # 0
    PROVE  \E f \in [0..Len(ss) -> Seq(T)] :
               /\ f[0] = <<>>
               /\ \A i \in 1..Len(ss) : f[i] = f[i - 1] \o ss[i]
               /\ FlattenSeq(ss) = f[Len(ss)]
<1> DEFINE n == Len(ss)
           X == Seq(T)
           G == [p \in Nat \X X |-> IF p[1] \in 1..n THEN p[2] \o ss[p[1]] ELSE <<>>]
<1>1. n \in Nat /\ n # 0 /\ <<>> \in X /\ \A i \in 1..n : ss[i] \in X
  OBVIOUS
<1>2. G \in [Nat \X X -> X]
  <2>1. ASSUME NEW p \in Nat \X X PROVE (IF p[1] \in 1..n THEN p[2] \o ss[p[1]] ELSE <<>>) \in X
    <3>1. p[2] \in Seq(T)
      OBVIOUS
    <3>2. p[1] \in 1..n => ss[p[1]] \in Seq(T)
      BY <1>1
    <3>3. QED  BY <1>1, <3>1, <3>2
  <2>2. QED  BY <2>1
<1>3. PICK f \in [0..n -> X] : Goes(f, G, <<>>, n)
  <2> HIDE DEF G, X, n
  <2>1. QED  BY <1>1, <1>2, Recursion
<1>4. ASSUME NEW i \in 1..n PROVE f[i] = f[i - 1] \o ss[i]
  <2>1. i - 1 \in 0..n /\ i \in Nat
    BY <1>1
  <2>2. <<i, f[i - 1]>> \in Nat \X X
    BY <2>1
  <2>3. f[i] = G[<<i, f[i - 1]>>]
    BY <1>3 DEF Goes
  <2>4. QED  BY <2>2, <2>3
<1>5. f[0] = <<>>
  BY <1>3 DEF Goes
<1> DEFINE g == [i \in 1..n |-> f[i]]
           h == [i \in 1..n |-> IF i = 1 THEN ss[i] ELSE g[i - 1] \o ss[i]]
<1> HIDE DEF G
<1>6. ASSUME NEW i \in 1..n PROVE g[i] = h[i]
  <2>1. CASE i = 1
    <3>1. f[i] = f[0] \o ss[i] /\ ss[i] \in Seq(T)
      <4>1. f[i] = f[i - 1] \o ss[i]
        BY <1>4
      <4>2. i - 1 = 0 /\ ss[i] \in Seq(T)
        BY <1>1, <2>1
      <4>3. QED  BY <4>1, <4>2
    <3>2. <<>> \o ss[i] = ss[i]
      BY <3>1
    <3>3. QED  BY <1>5, <2>1, <3>1, <3>2
  <2>2. CASE i # 1
    <3>1. i - 1 \in 1..n
      BY <1>1, <2>2
    <3>2. g[i - 1] = f[i - 1] /\ g[i] = f[i]
      BY <3>1
    <3>3. QED  BY <1>4, <2>2, <3>2
  <2>3. QED  BY <2>1, <2>2
<1>7. Concats(ss, g, n)
  <2>1. g = h
    BY <1>6
  <2>2. QED  BY <2>1 DEF Concats
<1> DEFINE c == CHOOSE c : Concats(ss, c, n)
<1>8. Concats(ss, c, n)
  <2> HIDE DEF g
  <2>1. QED  BY <1>7
<1>9. FlattenSeq(ss) = c[n]
  BY <1>1 DEF FlattenSeq, Concats
<1> HIDE DEF c, g
<1>10. \A i \in 0..n : i # 0 => c[i] = f[i]
  <2> DEFINE P == {i \in Nat : i \in 1..n => c[i] = f[i]}
  <2>1. 0 \in P
    OBVIOUS
  <2>2. ASSUME NEW i \in Nat, i \in P PROVE i + 1 \in P
    <3> SUFFICES ASSUME i + 1 \in 1..n PROVE c[i + 1] = f[i + 1]
      OBVIOUS
    <3> DEFINE k == i + 1
    <3>1. k \in 1..n /\ k - 1 = i
      BY <1>1
    <3> HIDE DEF k
    <3>2. f[k] = f[i] \o ss[k]
      BY <1>4, <3>1
    <3>3. c[k] = IF k = 1 THEN ss[k] ELSE c[i] \o ss[k]
      <4>1. c[k] = IF k = 1 THEN ss[k] ELSE c[k - 1] \o ss[k]
        BY <1>1, <1>8, <3>1, ConcatsAt
      <4>2. QED  BY <3>1, <4>1
    <3>4. CASE k = 1
      <4>1. i = 0 /\ ss[k] \in Seq(T)
        BY <1>1, <3>1, <3>4
      <4>2. <<>> \o ss[k] = ss[k]
        BY <4>1
      <4>3. QED  BY <1>5, <3>2, <3>3, <3>4, <4>1, <4>2 DEF k
    <3>5. CASE k # 1
      <4>1. i \in 1..n
        BY <1>1, <3>1, <3>5
      <4>2. c[i] = f[i]
        BY <2>2, <4>1
      <4>3. QED  BY <3>2, <3>3, <3>5, <4>2 DEF k
    <3>6. QED  BY <3>4, <3>5
  <2>3. Nat \subseteq P
    <3> HIDE DEF P
    <3>1. QED  BY <2>1, <2>2, Induct
  <2>4. QED  BY <1>1, <2>3
<1>11. FlattenSeq(ss) = f[n]
  BY <1>1, <1>9, <1>10
<1>12. QED  BY <1>4, <1>5, <1>11

LEMMA SumsRise ==
    ASSUME NEW counts \in Seq(Nat)
    PROVE  \A b \in 0..Len(counts) : \A a \in 0..b : Sums(counts)[a] <= Sums(counts)[b]
<1> DEFINE n == Len(counts)
           S == Sums(counts)
           P == {b \in Nat : b <= n => \A a \in 0..b : S[a] <= S[b]}
<1>1. /\ n \in Nat /\ S \in [0..n -> Nat]
      /\ \A c \in 1..n : S[c] = S[c - 1] + counts[c] /\ counts[c] \in Nat
  BY SumsFacts
<1> HIDE DEF n, S
<1>2. 0 \in P
  BY <1>1
<1>3. ASSUME NEW b \in Nat, b \in P PROVE b + 1 \in P
  <2> SUFFICES ASSUME b + 1 <= n, NEW a \in 0..(b + 1) PROVE S[a] <= S[b + 1]
    OBVIOUS
  <2> DEFINE k == b + 1
  <2>1. k \in 1..n /\ k - 1 = b /\ b \in 0..n /\ k \in 0..n /\ a \in 0..n
    BY <1>1
  <2> HIDE DEF k
  <2>2. S[k] = S[b] + counts[k] /\ counts[k] \in Nat
    BY <1>1, <2>1
  <2>3. S[b] \in Nat /\ S[k] \in Nat /\ S[a] \in Nat
    BY <1>1, <2>1
  <2>4. S[b] <= S[k]
    BY <2>2, <2>3
  <2>5. CASE a = k
    BY <2>3, <2>5 DEF k
  <2>6. CASE a # k
    <3>1. a \in 0..b
      BY <2>1, <2>6 DEF k
    <3>2. S[a] <= S[b]
      BY <1>1, <1>3, <2>1, <3>1
    <3>3. QED  BY <2>3, <2>4, <3>2 DEF k
  <2>7. QED  BY <2>5, <2>6
<1>4. Nat \subseteq P
  <2> HIDE DEF P
  <2>1. QED  BY <1>2, <1>3, Induct
<1>5. QED  BY <1>1, <1>4 DEF n, S

\* The i-th of the things in messages of so many is in message p[1] at p[2].
At(counts, i, p) ==
  /\ p \in Nat \X Nat
  /\ p[1] \in 1..Len(counts) /\ p[2] \in 1..counts[p[1]]
  /\ i = Sums(counts)[p[1] - 1] + p[2]

LEMMA PlaceRange ==
    ASSUME NEW counts \in Seq(Nat), NEW c \in 1..Len(counts), NEW j \in 1..counts[c],
           NEW i, i = Sums(counts)[c - 1] + j
    PROVE  /\ At(counts, i, <<c, j>>)
           /\ i \in 1..Total(counts)
           /\ Sums(counts)[c - 1] < i /\ i <= Sums(counts)[c]
<1> DEFINE S == Sums(counts)
           n == Len(counts)
<1>1. /\ n \in Nat /\ c \in 1..n /\ S \in [0..n -> Nat] /\ S[c] = S[c - 1] + counts[c] /\ counts[c] \in Nat
  BY SumsFacts
<1>2. S[c] <= S[n]
  <2>1. n \in 0..n /\ c \in 0..n
    BY <1>1
  <2>2. QED  BY <2>1, SumsRise
<1>3. Total(counts) = S[n]
  BY DEF Total
<1>4. c - 1 \in 0..n /\ c \in 0..n /\ n \in 0..n
  BY <1>1
<1> HIDE DEF S, n
<1>5. S[c - 1] \in Nat /\ S[n] \in Nat /\ S[c] \in Nat
  BY <1>1, <1>4
<1>6. i = S[c - 1] + j
  BY DEF S
<1>7. j \in Nat /\ 1 <= j /\ j <= counts[c]
  BY <1>1
<1>8. i \in 1..S[n] /\ S[c - 1] < i /\ i <= S[c]
  <2> DEFINE a == S[c - 1]
             b == S[c]
             t == S[n]
             k == counts[c]
  <2>1. /\ a \in Nat /\ b \in Nat /\ t \in Nat /\ k \in Nat /\ j \in Nat
        /\ b = a + k /\ b <= t /\ i = a + j /\ 1 <= j /\ j <= k
    BY <1>1, <1>2, <1>5, <1>6, <1>7
  <2> HIDE DEF a, b, t, k
  <2>2. i \in 1..t /\ a < i /\ i <= b
    BY <2>1
  <2>3. QED  BY <2>2 DEF a, b, t
<1>9. c \in Nat
  BY <1>1
<1>10. QED  BY <1>1, <1>3, <1>6, <1>7, <1>8, <1>9 DEF At, S, n

\* A thing that comes later is in the same message or a later one.
LEMMA PlaceMonotone ==
    ASSUME NEW counts \in Seq(Nat), NEW i, NEW k, NEW p, NEW q,
           At(counts, i, p), At(counts, k, q), i <= k
    PROVE  ~(q[1] < p[1])
<1> DEFINE S == Sums(counts)
           n == Len(counts)
<1>1. n \in Nat /\ S \in [0..n -> Nat]
  BY SumsFacts
<1>2. /\ p[1] \in 1..n /\ q[1] \in 1..n
      /\ S[p[1] - 1] < i /\ k <= S[q[1]]
  BY PlaceRange DEF At
<1>3. ASSUME NEW l, NEW x, At(counts, l, x) PROVE l \in Nat
  <2>1. x[1] \in 1..n /\ x[2] \in Nat /\ l = S[x[1] - 1] + x[2]
    BY <1>3 DEF At
  <2>2. x[1] - 1 \in 0..n
    BY <1>1, <2>1
  <2> DEFINE b == S[x[1] - 1]
  <2>3. b \in Nat /\ x[2] \in Nat /\ l = b + x[2]
    BY <1>1, <2>1, <2>2
  <2> HIDE DEF b
  <2>4. QED  BY <2>3
<1>4. ASSUME q[1] < p[1] PROVE FALSE
  <2>1. p[1] - 1 \in 0..n /\ q[1] \in 0..(p[1] - 1) /\ q[1] \in 0..n
    BY <1>1, <1>2, <1>4
  <2>2. S[q[1]] <= S[p[1] - 1]
    BY <2>1, SumsRise
  <2>3. S[q[1]] \in Nat /\ S[p[1] - 1] \in Nat
    BY <1>1, <2>1
  <2> DEFINE a == S[q[1]]
             b == S[p[1] - 1]
  <2>4. i \in Nat /\ k \in Nat /\ a \in Nat /\ b \in Nat /\ k <= a /\ a <= b /\ b < i
    BY <1>2, <1>3, <2>2, <2>3
  <2> HIDE DEF a, b
  <2>5. QED  BY <2>4
<1>5. QED  BY <1>4

\* In one message it is at a later place.
LEMMA PlaceOrder ==
    ASSUME NEW counts \in Seq(Nat), NEW i, NEW k, NEW p, NEW q,
           At(counts, i, p), At(counts, k, q), i <= k
    PROVE  \/ p[1] < q[1]
           \/ p[1] = q[1] /\ k = i + (q[2] - p[2])
<1> DEFINE S == Sums(counts)
           n == Len(counts)
<1>1. n \in Nat /\ S \in [0..n -> Nat]
  BY SumsFacts
<1>2. /\ p[1] \in 1..n /\ q[1] \in 1..n /\ p[2] \in Nat /\ q[2] \in Nat
      /\ i = S[p[1] - 1] + p[2] /\ k = S[q[1] - 1] + q[2]
  BY DEF At
<1>3. ~(q[1] < p[1])
  BY PlaceMonotone
<1>4. CASE p[1] = q[1]
  <2>1. p[1] - 1 \in 0..n
    <3> DEFINE x == p[1]
    <3>1. x \in 1..n
      BY <1>2
    <3> HIDE DEF x
    <3>2. x - 1 \in 0..n
      BY <1>1, <3>1
    <3>3. QED  BY <3>2 DEF x
  <2>2. S[p[1] - 1] \in Nat
    BY <1>1, <2>1
  <2> DEFINE b == S[p[1] - 1]
  <2>3. b \in Nat /\ i = b + p[2] /\ k = b + q[2]
    BY <1>2, <1>4, <2>2
  <2> HIDE DEF b
  <2>4. k = i + (q[2] - p[2])
    <3> DEFINE x == p[2]
               y == q[2]
    <3>1. x \in Nat /\ y \in Nat /\ i = b + x /\ k = b + y
      BY <1>2, <2>3
    <3> HIDE DEF x, y
    <3>2. k = i + (y - x)
      BY <2>3, <3>1
    <3>3. QED  BY <3>2 DEF x, y
  <2>5. QED  BY <1>4, <2>4
<1>5. CASE p[1] # q[1]
  <2> DEFINE a == p[1]
             b == q[1]
  <2>1. a \in Nat /\ b \in Nat /\ ~(b < a) /\ a # b
    BY <1>3, <1>5 DEF At
  <2> HIDE DEF a, b
  <2>2. a < b
    BY <2>1
  <2>3. QED  BY Zenon, <2>2 DEF a, b
<1>6. QED  BY <1>4, <1>5

\* No two things have one place in the series.
LEMMA PlaceUnique ==
    ASSUME NEW counts \in Seq(Nat), NEW i, NEW p, NEW q, At(counts, i, p), At(counts, i, q)
    PROVE  p = q
<1>1. p \in Nat \X Nat /\ q \in Nat \X Nat /\ i \in Nat
  <2>1. p \in Nat \X Nat /\ q \in Nat \X Nat
    BY DEF At
  <2>2. p[1] \in 1..Len(counts) /\ p[2] \in 1..counts[p[1]] /\ i = Sums(counts)[p[1] - 1] + p[2]
    BY DEF At
  <2>3. i \in 1..Total(counts)
    BY <2>2, PlaceRange
  <2>4. QED  BY <2>1, <2>3
<1>2. p[1] < q[1] \/ (p[1] = q[1] /\ i = i + (q[2] - p[2]))
  <2>1. i <= i
    BY <1>1
  <2>2. QED  BY <2>1, PlaceOrder
<1>3. q[1] < p[1] \/ (p[1] = q[1] /\ i = i + (p[2] - q[2]))
  <2>1. i <= i
    BY <1>1
  <2>2. QED  BY <2>1, PlaceOrder
<1> DEFINE a == p[1]
           b == q[1]
           c == p[2]
           d == q[2]
<1>4. /\ a \in Nat /\ b \in Nat /\ c \in Nat /\ d \in Nat
      /\ p = <<a, c>> /\ q = <<b, d>>
  BY <1>1
<1> HIDE DEF a, b, c, d
<1>5. a = b /\ c = d
  BY <1>1, <1>2, <1>3, <1>4 DEF a, b, c, d
<1>6. QED  BY <1>4, <1>5

LEMMA SumsNothing ==
    ASSUME NEW counts \in Seq(Nat), \A c \in 1..Len(counts) : counts[c] = 0
    PROVE  Total(counts) = 0
<1> DEFINE S == Sums(counts)
           n == Len(counts)
           P == {c \in Nat : c <= n => S[c] = 0}
<1>1. /\ n \in Nat /\ S[0] = 0
      /\ \A c \in 1..n : S[c] = S[c - 1] + counts[c]
  BY SumsFacts
<1> HIDE DEF S, n
<1>2. 0 \in P
  BY <1>1
<1>3. ASSUME NEW c \in Nat, c \in P PROVE c + 1 \in P
  <2> SUFFICES ASSUME c + 1 <= n PROVE S[c + 1] = 0
    OBVIOUS
  <2> DEFINE k == c + 1
  <2>1. k \in 1..n /\ k - 1 = c /\ c <= n
    BY <1>1
  <2> HIDE DEF k
  <2>2. S[k] = S[c] + counts[k] /\ counts[k] = 0 /\ S[c] = 0
    BY <1>1, <1>3, <2>1 DEF n
  <2>3. QED  BY <2>2 DEF k
<1>4. Nat \subseteq P
  <2> HIDE DEF P
  <2>1. QED  BY <1>2, <1>3, Induct
<1>5. S[n] = 0
  BY <1>1, <1>4
<1>6. QED  BY <1>5 DEF Total, S, n

\* A walk over messages of which all but the last hold something passes one thing
\* after another.
LEMMA WalkPlaces ==
    ASSUME NEW counts \in Seq(Nat),
           Total(counts) = 0 \/ \A c \in 1..(Len(counts) - 1) : counts[c] # 0
    PROVE  /\ DOMAIN Visited(counts, Total(counts)) = 1..Total(counts)
           /\ \A i \in 1..Total(counts) : At(counts, i, Visited(counts, Total(counts))[i])
<1> DEFINE S == Sums(counts)
           n == Len(counts)
           t == Total(counts)
           v == Visited(counts, t)
           P == {i \in Nat : i \in 1..t => At(counts, i, v[i])}
<1>1. /\ n \in Nat /\ S \in [0..n -> Nat] /\ S[0] = 0 /\ t = S[n]
      /\ \A c \in 1..n : S[c] = S[c - 1] + counts[c] /\ counts[c] \in Nat
  BY SumsFacts DEF Total
<1>2. t \in Nat
  BY <1>1
<1> HIDE DEF t
<1>3. /\ DOMAIN v = 1..t
      /\ t # 0 => v[1] = <<1, 1>>
      /\ \A i \in 2..t : v[i] = After(counts, v[i - 1])
  BY Zenon, <1>2, VisitedFacts
<1>4. t # 0 => n # 0
  BY <1>1
<1> HIDE DEF v
<1>5. 0 \in P
  OBVIOUS
<1>6. ASSUME NEW i \in Nat, i \in P PROVE i + 1 \in P
  <2> SUFFICES ASSUME i + 1 \in 1..t PROVE At(counts, i + 1, v[i + 1])
    OBVIOUS
  <2>1. t # 0 /\ n # 0 /\ \A c \in 1..(n - 1) : counts[c] # 0
    BY <1>2, <1>4 DEF t
  <2>2. CASE i = 0
    <3>1. v[1] = <<1, 1>> /\ 1 \in 1..n /\ 1 - 1 = 0
      BY <1>1, <1>3, <2>1
    <3>2. counts[1] # 0
      <4>1. CASE n = 1
        <5>1. t = 0 + counts[1]
          BY <1>1, <3>1, <4>1
        <5>2. QED  BY <1>1, <2>1, <3>1, <5>1
      <4>2. CASE n # 1
        BY <1>1, <2>1, <4>2
      <4>3. QED  BY <4>1, <4>2
    <3>3. 1 \in 1..counts[1] /\ 1 = S[1 - 1] + 1
      BY <1>1, <3>1, <3>2
    <3>4. At(counts, 1, <<1, 1>>)
      BY <3>1, <3>3, PlaceRange
    <3>5. QED  BY <2>2, <3>1, <3>4
  <2>3. CASE i # 0
    <3>1. i \in 1..t /\ i + 1 \in 2..t /\ (i + 1) - 1 = i
      BY <1>2, <2>3
    <3>2. At(counts, i, v[i]) /\ v[i + 1] = After(counts, v[i])
      BY <1>3, <1>6, <3>1
    <3> DEFINE c == v[i][1]
               j == v[i][2]
    <3>3. c \in 1..n /\ j \in 1..counts[c] /\ i = S[c - 1] + j /\ v[i] = <<c, j>>
      BY <3>2 DEF At
    <3>4. DOMAIN counts = 1..n /\ S[c - 1] \in Nat /\ S[c] = S[c - 1] + counts[c] /\ counts[c] \in Nat
      <4>1. c \in 1..n
        BY <3>3
      <4> HIDE DEF c, j, S, n
      <4>2. c - 1 \in 0..n
        BY <1>1, <4>1
      <4>3. DOMAIN counts = 1..n
        BY DEF n
      <4>4. QED  BY <1>1, <4>1, <4>2, <4>3
    <3>5. CASE j < counts[c]
      <4>1. v[i + 1] = <<c, j + 1>>
        BY <3>2, <3>3, <3>4, <3>5 DEF After
      <4>2. j + 1 \in 1..counts[c] /\ i + 1 = S[c - 1] + (j + 1)
        <5> DEFINE a == S[c - 1]
                   w == counts[c]
        <5>1. a \in Nat /\ w \in Nat /\ j \in 1..w /\ j < w /\ i = a + j
          BY <3>3, <3>4, <3>5
        <5> HIDE DEF a, w, c, j
        <5>2. j + 1 \in 1..w /\ i + 1 = a + (j + 1)
          BY <5>1
        <5>3. QED  BY <5>2 DEF a, w
      <4> HIDE DEF c, j
      <4>3. At(counts, i + 1, <<c, j + 1>>)
        BY <3>3, <4>2, PlaceRange
      <4>4. QED  BY <4>1, <4>3
    <3>6. CASE ~(j < counts[c])
      <4>1. v[i + 1] = <<c + 1, 1>>
        BY <3>2, <3>3, <3>4, <3>6 DEF After
      <4>2. j = counts[c] /\ i = S[c]
        <5> DEFINE a == S[c - 1]
                   b == S[c]
                   w == counts[c]
        <5>1. a \in Nat /\ w \in Nat /\ j \in 1..w /\ ~(j < w) /\ i = a + j /\ b = a + w
          BY <3>3, <3>4, <3>6
        <5> HIDE DEF a, b, w, c, j
        <5>2. j = w /\ i = b
          BY <5>1
        <5>3. QED  BY <5>2 DEF b, w
      <4> HIDE DEF c, j
      <4>3. c # n
        BY <1>1, <1>2, <3>1, <4>2
      <4> DEFINE d == c + 1
      <4>4. d \in 1..n /\ d - 1 = c
        BY <1>1, <3>3, <4>3
      <4> HIDE DEF d
      <4>5. S[d] = S[c] + counts[d] /\ counts[d] \in Nat
        BY <1>1, <4>4
      <4>6. counts[d] # 0
        <5>1. CASE d = n
          BY <1>1, <1>2, <3>1, <4>2, <4>5, <5>1
        <5>2. CASE d # n
          BY <1>1, <2>1, <4>4, <5>2
        <5>3. QED  BY <5>1, <5>2
      <4>7. 1 \in 1..counts[d] /\ i + 1 = S[d - 1] + 1
        BY <4>2, <4>4, <4>5, <4>6
      <4>8. At(counts, i + 1, <<d, 1>>)
        BY <4>4, <4>7, PlaceRange
      <4>9. QED  BY <4>1, <4>8 DEF d
    <3>7. QED  BY <3>5, <3>6
  <2>4. QED  BY <2>2, <2>3
<1>7. Nat \subseteq P
  <2> HIDE DEF P
  <2>1. QED  BY <1>5, <1>6, Induct
<1>8. \A i \in 1..t : At(counts, i, v[i])
  BY <1>2, <1>7
<1>9. QED  BY <1>3, <1>8 DEF v, t

\* What a concatenation of series holds, and where.
LEMMA FlattenAt ==
    ASSUME NEW T, NEW ss \in Seq(Seq(T)), NEW counts \in Seq(Nat), Len(counts) = Len(ss),
           \A c \in 1..Len(ss) : counts[c] = Len(ss[c])
    PROVE  /\ FlattenSeq(ss) \in Seq(T)
           /\ Len(FlattenSeq(ss)) = Total(counts)
           /\ \A i, p : At(counts, i, p) => FlattenSeq(ss)[i] = ss[p[1]][p[2]]
<1> DEFINE S == Sums(counts)
           n == Len(ss)
<1>1. /\ n \in Nat /\ S \in [0..n -> Nat] /\ S[0] = 0 /\ Total(counts) = S[n]
      /\ \A c \in 1..n : S[c] = S[c - 1] + counts[c] /\ counts[c] \in Nat
  BY SumsFacts DEF Total
<1>2. \A c \in 1..n : ss[c] \in Seq(T)
  OBVIOUS
<1>3. CASE n = 0
  <2>1. ss = <<>>
    BY <1>3
  <2>2. FlattenSeq(ss) = <<>>
    BY <1>3, <2>1 DEF FlattenSeq
  <2>3. \A i, p : ~At(counts, i, p)
    BY <1>3 DEF At
  <2>4. <<>> \in Seq(T) /\ Len(<<>>) = 0
    OBVIOUS
  <2>5. QED  BY <1>1, <1>3, <2>2, <2>3, <2>4
<1>4. CASE n # 0
  <2>1. PICK f \in [0..n -> Seq(T)] :
             /\ f[0] = <<>>
             /\ \A i \in 1..n : f[i] = f[i - 1] \o ss[i]
             /\ FlattenSeq(ss) = f[n]
    BY <1>4, FlattenFacts
  <2> DEFINE Good(b) == /\ Len(f[b]) = S[b]
                        /\ \A c \in 1..b : \A j \in 1..counts[c] : f[b][S[c - 1] + j] = ss[c][j]
             P == {b \in Nat : b <= n => Good(b)}
  <2> HIDE DEF n, S
  <2>2. Good(0)
    BY <1>1, <2>1
  <2>3. ASSUME NEW b \in Nat, b \in P PROVE b + 1 \in P
    <3> SUFFICES ASSUME b + 1 <= n PROVE Good(b + 1)
      OBVIOUS
    <3> DEFINE k == b + 1
               g == f[b]
               h == f[k]
    <3>1. k \in 1..n /\ k - 1 = b /\ b \in 0..n /\ k \in 0..n
      BY <1>1
    <3>2. g \in Seq(T) /\ ss[k] \in Seq(T) /\ h = g \o ss[k]
      BY <1>2, <2>1, <3>1
    <3>3. Len(g) = S[b] /\ S[k] = S[b] + counts[k] /\ counts[k] = Len(ss[k])
      BY <1>1, <2>3, <3>1 DEF n
    <3>4. \A c \in 1..b : \A j \in 1..counts[c] : g[S[c - 1] + j] = ss[c][j]
      <4>1. b <= n
        BY <1>1, <3>1
      <4>2. Good(b)
        BY <2>3, <4>1
      <4>3. QED  BY <4>2
    <3> HIDE DEF P, Good, g, h
    <3>5. Len(h) = S[k]
      <4> HIDE DEF k
      <4>1. Len(h) = Len(g) + Len(ss[k])
        BY <3>2
      <4>2. QED  BY <3>3, <4>1
    <3>6. ASSUME NEW c \in 1..k, NEW j \in 1..counts[c] PROVE h[S[c - 1] + j] = ss[c][j]
      <4>1. c \in 1..Len(counts) /\ S[c - 1] < S[c - 1] + j /\ S[c - 1] + j <= S[c]
        <5>1. c \in 1..Len(counts)
          BY <3>1 DEF n
        <5>2. QED  BY <5>1, PlaceRange DEF S
      <4> DEFINE i == S[c - 1] + j
      <4>2. CASE c = k
        <5>1. c - 1 = b /\ counts[c] = Len(ss[k]) /\ counts[c] \in Nat
          BY <1>1, <3>1, <3>3, <4>2
        <5>2. i = Len(g) + j /\ j \in 1..Len(ss[k])
          BY <3>3, <5>1
        <5> HIDE DEF i, k
        <5>3. h[i] = ss[k][j]
          BY <3>2, <5>2
        <5>4. QED  BY <4>2, <5>3 DEF i
      <4>3. CASE c # k
        <5>1. c \in 1..b
          BY <3>1, <4>3
        <5>2. S[c] <= S[b]
          <6>1. c \in 0..b /\ b \in 0..Len(counts)
            BY <3>1, <5>1 DEF n
          <6>2. QED  BY <6>1, SumsRise DEF S
        <5>3. S[c - 1] \in Nat /\ S[c] \in Nat /\ S[b] \in Nat /\ j \in Nat
          <6>1. c - 1 \in 0..n /\ c \in 0..n
            BY <1>1, <3>1, <5>1
          <6>2. S[c - 1] \in Nat /\ S[c] \in Nat /\ S[b] \in Nat
            BY <1>1, <3>1, <6>1
          <6>3. QED  BY <6>2
        <5>4. i \in Nat /\ 1 <= i /\ i <= Len(g)
          <6>1. Len(g) = S[b] /\ S[c - 1] < i /\ i <= S[c]
            BY <3>3, <4>1
          <6>2. i \in Nat
            BY <5>3
          <6> HIDE DEF i
          <6>3. QED  BY <5>2, <5>3, <6>1, <6>2
        <5> HIDE DEF i, k
        <5>5. h[i] = g[i]
          BY <3>2, <5>4
        <5>6. g[i] = ss[c][j]
          BY <3>4, <5>1 DEF i
        <5>7. QED  BY <5>5, <5>6 DEF i
      <4>4. QED  BY <4>2, <4>3
    <3>7. QED  BY <3>5, <3>6 DEF Good, h
  <2>4. Nat \subseteq P
    <3>1. 0 \in P
      BY <2>2
    <3> HIDE DEF P
    <3>2. QED  BY <2>3, <3>1, Induct
  <2>5. Good(n)
    BY <1>1, <2>4
  <2>6. ASSUME NEW i, NEW p, At(counts, i, p) PROVE f[n][i] = ss[p[1]][p[2]]
    <3>1. p[1] \in 1..n /\ p[2] \in 1..counts[p[1]] /\ i = S[p[1] - 1] + p[2]
      BY <2>6 DEF At, S, n
    <3>2. QED  BY <2>5, <3>1
  <2>7. f[n] \in Seq(T)
    <3>1. n \in 0..n
      BY <1>1
    <3>2. QED  BY <2>1, <3>1
  <2>8. QED  BY <1>1, <2>1, <2>5, <2>6, <2>7
<1>5. QED  BY <1>3, <1>4

LEMMA FlattenAppend ==
    ASSUME NEW T, NEW ss \in Seq(Seq(T)), NEW s \in Seq(T)
    PROVE  FlattenSeq(Append(ss, s)) = FlattenSeq(ss) \o s
<1> DEFINE tt == Append(ss, s)
           n  == Len(ss)
<1>1. /\ n \in Nat /\ Len(tt) = n + 1 /\ tt \in Seq(Seq(T)) /\ tt[n + 1] = s
      /\ \A i \in 1..n : ss[i] = tt[i]
  OBVIOUS
<1> HIDE DEF tt
<1>2. PICK g \in [0..Len(tt) -> Seq(T)] :
           /\ g[0] = <<>>
           /\ \A i \in 1..Len(tt) : g[i] = g[i - 1] \o tt[i]
           /\ FlattenSeq(tt) = g[Len(tt)]
  <2>1. Len(tt) # 0
    BY <1>1
  <2>2. QED  BY <1>1, <2>1, FlattenFacts
<1>3. FlattenSeq(tt) = g[n] \o s
  <2>1. n + 1 \in 1..Len(tt) /\ (n + 1) - 1 = n
    BY <1>1
  <2>2. g[n + 1] = g[n] \o tt[n + 1]
    BY <1>2, <2>1
  <2>3. QED  BY <1>1, <1>2, <2>2
<1>4. g[n] = FlattenSeq(ss)
  <2>1. CASE n = 0
    <3>1. ss = <<>>
      BY <2>1
    <3>2. FlattenSeq(ss) = <<>>
      BY <3>1 DEF FlattenSeq
    <3>3. QED  BY <1>2, <2>1, <3>2
  <2>2. CASE n # 0
    <3>1. PICK f \in [0..n -> Seq(T)] :
               /\ f[0] = <<>>
               /\ \A i \in 1..n : f[i] = f[i - 1] \o ss[i]
               /\ FlattenSeq(ss) = f[n]
      BY <2>2, FlattenFacts
    <3> DEFINE P == {i \in Nat : i <= n => f[i] = g[i]}
    <3> HIDE DEF n
    <3>2. 0 \in P
      BY <1>2, <3>1
    <3>3. ASSUME NEW i \in Nat, i \in P PROVE i + 1 \in P
      <4> SUFFICES ASSUME i + 1 <= n PROVE f[i + 1] = g[i + 1]
        OBVIOUS
      <4> DEFINE k == i + 1
      <4>1. k \in 1..n /\ k \in 1..Len(tt) /\ k - 1 = i /\ i <= n
        BY <1>1
      <4> HIDE DEF k
      <4>2. f[k] = f[i] \o ss[k] /\ g[k] = g[i] \o tt[k]
        BY <1>2, <3>1, <4>1
      <4>3. QED  BY <1>1, <3>3, <4>1, <4>2 DEF k
    <3>4. Nat \subseteq P
      <4> HIDE DEF P
      <4>1. QED  BY <3>2, <3>3, Induct
    <3>5. f[n] = g[n]
      BY <1>1, <3>4
    <3>6. QED  BY <3>1, <3>5
  <2>3. QED  BY <2>1, <2>2
<1>5. QED  BY <1>3, <1>4 DEF tt

-----------------------------------------------------------------------------
(* Responses. *)

Positive == Nat \ {0}
Places   == Positive \X Nat

\* The messages a response keeps.
Held(r) == {r._internal[c] : c \in DOMAIN r._internal}

Shape(r) ==
    /\ r = [keys |-> r.keys, n_keys |-> r.n_keys, n_results |-> r.n_results,
            _internal |-> r._internal]
    /\ r._internal \in Seq(Positive)

-----------------------------------------------------------------------------
(* What the decoders make of a response. *)

LEMMA ArrayNames ==
    /\ Shape(NoResponse) /\ Shape(Empty)
    /\ NoResponse.keys = NullArray /\ NoResponse.n_results = 0 /\ Held(NoResponse) = {}
    /\ Empty.keys = NullArray /\ Empty.n_results = 0 /\ Held(Empty) = {}
    /\ NullArray \notin Seq(Places)
<1>1. NullArray \notin Seq(Places)
  BY DEF NullArray, Places, Positive
<1>2. Shape(Empty) /\ Empty.keys = NullArray /\ Empty.n_results = 0 /\ Held(Empty) = {}
  BY DEF Shape, Empty, Held
<1>3. Shape(NoResponse) /\ NoResponse.keys = NullArray /\ NoResponse.n_results = 0 /\ Held(NoResponse) = {}
  BY DEF Shape, NoResponse, Empty, Held
<1>4. QED  BY <1>1, <1>2, <1>3

LEMMA HeldLinked ==
    ASSUME NEW r, Shape(r), NEW k \in Positive
    PROVE  /\ Shape(Linked(r, k)) /\ Held(Linked(r, k)) = Held(r) \cup {k}
           /\ Linked(r, k).keys = r.keys /\ Linked(r, k).n_results = r.n_results
<1> DEFINE s == r._internal
<1>1. /\ Linked(r, k) = [keys |-> r.keys, n_keys |-> r.n_keys, n_results |-> r.n_results,
                         _internal |-> Append(s, k)]
      /\ s \in Seq(Positive)
  BY DEF Linked, Shape
<1>2. Append(s, k) \in Seq(Positive)
  BY <1>1
<1>3. {Append(s, k)[c] : c \in DOMAIN Append(s, k)} = {s[c] : c \in DOMAIN s} \cup {k}
  <2> HIDE DEF s
  <2>1. /\ DOMAIN Append(s, k) = DOMAIN s \cup {Len(s) + 1}
        /\ Append(s, k)[Len(s) + 1] = k
        /\ \A c \in DOMAIN s : Append(s, k)[c] = s[c]
    BY <1>1
  <2>2. QED  BY <2>1
<1>4. QED  BY <1>1, <1>2, <1>3 DEF Shape, Held

LEMMA HeldGrown ==
    ASSUME NEW r, Shape(r), NEW part \in Seq(Places), r.keys = NullArray \/ r.keys \in Seq(Places)
    PROVE  /\ Shape(Grown(r, part)) /\ Held(Grown(r, part)) = Held(r)
           /\ Grown(r, part).keys \in Seq(Places) /\ Grown(r, part).n_results = r.n_results
<1> DEFINE old == IF r.keys = NullArray THEN <<>> ELSE r.keys
<1>1. Grown(r, part) = [keys |-> old \o part, n_keys |-> r.n_keys + Len(part),
                        n_results |-> r.n_results, _internal |-> r._internal]
  <2> DEFINE n == r.n_keys + Len(part)
             new == old \o part
  <2>1. Grown(r, part) = [r EXCEPT !.keys = new, !.n_keys = n]
    BY Zenon DEF Grown
  <2>2. r = [keys |-> r.keys, n_keys |-> r.n_keys, n_results |-> r.n_results,
             _internal |-> r._internal]
    BY DEF Shape
  <2> HIDE DEF n, new
  <2>3. ASSUME NEW s, s = [r EXCEPT !.keys = new, !.n_keys = n]
        PROVE  s = [keys |-> new, n_keys |-> n, n_results |-> r.n_results, _internal |-> r._internal]
    <3>1. s \in [keys : {r.keys, new}, n_keys : {r.n_keys, n}, n_results : {r.n_results},
                 _internal : {r._internal}]
      BY <2>2, <2>3
    <3>2. s.keys = new /\ s.n_keys = n /\ s.n_results = r.n_results /\ s._internal = r._internal
      BY <2>2, <2>3
    <3>3. QED  BY <3>1, <3>2
  <2>4. QED  BY <2>1, <2>3 DEF n, new
<1>2. old \in Seq(Places)
  OBVIOUS
<1>3. old \o part \in Seq(Places)
  <2> HIDE DEF old
  <2> QED  BY <1>2
<1>4. QED  BY <1>1, <1>3 DEF Shape, Held

WithKeys(r, keys)      == [r EXCEPT !.keys = keys]
WithAll(r, keys, n, t) == [r EXCEPT !.keys = keys, !.n_keys = n, !.n_results = t]

LEMMA HeldWithKeys ==
    ASSUME NEW r, Shape(r), NEW keys
    PROVE  /\ Shape(WithKeys(r, keys)) /\ Held(WithKeys(r, keys)) = Held(r)
           /\ WithKeys(r, keys).keys = keys /\ WithKeys(r, keys).n_results = r.n_results
<1>1. WithKeys(r, keys) = [keys |-> keys, n_keys |-> r.n_keys, n_results |-> r.n_results,
                           _internal |-> r._internal]
  BY DEF WithKeys, Shape
<1>2. QED  BY <1>1 DEF Shape, Held

LEMMA HeldWithAll ==
    ASSUME NEW r, Shape(r), NEW keys, NEW n, NEW t
    PROVE  /\ Shape(WithAll(r, keys, n, t)) /\ Held(WithAll(r, keys, n, t)) = Held(r)
           /\ WithAll(r, keys, n, t).keys = keys /\ WithAll(r, keys, n, t).n_results = t
<1> DEFINE s == WithAll(r, keys, n, t)
<1>0. r = [keys |-> r.keys, n_keys |-> r.n_keys, n_results |-> r.n_results, _internal |-> r._internal]
  BY DEF Shape
<1>1. s \in [keys : {r.keys, keys}, n_keys : {r.n_keys, n}, n_results : {r.n_results, t},
             _internal : {r._internal}]
  BY <1>0 DEF WithAll
<1>2. s.keys = keys /\ s.n_keys = n /\ s.n_results = t /\ s._internal = r._internal
  BY <1>0 DEF WithAll
<1>3. s = [keys |-> keys, n_keys |-> n, n_results |-> t, _internal |-> r._internal]
  <2> HIDE DEF s
  <2> QED  BY <1>1, <1>2
<1>4. Shape(s) /\ Held(s) = Held(r)
  <2> HIDE DEF s
  <2> QED  BY <1>2, <1>3 DEF Shape, Held
<1>5. QED  BY <1>2, <1>4

-----------------------------------------------------------------------------
(* The invariant. *)

Typed ==
    /\ decoder \in Decoders
    /\ sent \in Seq(Messages)
    /\ Shape(response)

\* A response keeps messages that are there; when memory sufficed, all of them,
\* but for a first message whose decoding failed.
Balanced ==
    /\ Held(response) \subseteq live
    /\ (~short /\ (status \in {"reading", "answered"} \/ (status = "failed" /\ response # NoResponse)))
          => live \subseteq Held(response)
    /\ NothingLeft

\* A list has its keys as soon as it is there; the others have none until the
\* last message has come, and then keys of messages they keep.
Keyed ==
    /\ decoder = "list" =>
         response = NoResponse \/ (response.keys \in Seq(Places) /\ response.n_results = 0)
    /\ decoder # "list" =>
         \/ response.keys = NullArray
         \/ \A i \in DOMAIN response.keys :
               response.keys[i] = NullKey \/ response.keys[i][1] \in Held(response)
    /\ (decoder # "list" /\ status = "reading") => response.keys = NullArray /\ response.n_results = 0
    /\ decoder = "mapreduce" => response.n_results = 0
    /\ (status = "answered" /\ (decoder = "mapreduce" \/ ~short)) =>
         response.keys # NullArray /\ response.n_results = 0

SInv == Typed /\ Balanced /\ Keyed

LEMMA StreamInit == Init => SInv
<1> SUFFICES ASSUME Init PROVE SInv
  OBVIOUS
<1>1. decoder \in Decoders /\ sent = <<>> /\ response = NoResponse /\ live = {} /\ status = "reading"
  BY DEF Init
<1>2. QED  BY <1>1, ArrayNames DEF SInv, Typed, Balanced, Keyed, NothingLeft

\* What the message being decoded is added to.
LEMMA CurrentHolds ==
    ASSUME SInv, status = "reading"
    PROVE  /\ Number \in Positive /\ Shape(Current) /\ Held(Current) = Held(response)
           /\ Current.n_results = 0
           /\ decoder = "list" => Current.keys = NullArray \/ Current.keys \in Seq(Places)
           /\ decoder # "list" => Current.keys = NullArray
<1>1. Number \in Positive
  BY DEF Number, Positive, SInv, Typed
<1>2. CASE response = NoResponse
  BY <1>1, <1>2, ArrayNames DEF Current
<1>3. CASE response # NoResponse
  BY <1>1, <1>3 DEF Current, SInv, Typed, Keyed, Decoders
<1>4. QED  BY <1>2, <1>3

\* The keys of the message being decoded.
LEMMA PartPlaces ==
    ASSUME SInv, NEW m \in Messages, sent' = Append(sent, m)
    PROVE  PartOf(sent', Number) \in Seq(Places)
<1>1. /\ Number \in Positive /\ sent'[Number] = m /\ m.keys \in Nat
  BY MessagesAssumption DEF SInv, Typed, Number, Positive
<1>2. \A j \in 1..m.keys : <<Number, j>> \in Places
  BY <1>1 DEF Places
<1>3. QED  BY <1>1, <1>2 DEF PartOf

-----------------------------------------------------------------------------
(* Each outcome of a decoder keeps the invariant. *)

LEMMA Received ==
    ASSUME SInv, NEW m \in Messages, Receive(m)
    PROVE  /\ status = "reading" /\ decoder' = decoder /\ decoder \in Decoders
           /\ sent' \in Seq(Messages) /\ Number \in Positive
           /\ PartOf(sent', Number) \in Seq(Places)
           /\ Unpack(m) => live' = live \cup {Number}
BY CurrentHolds, PartPlaces DEF Receive, Unpack, SInv, Typed

\* The decoder gives up with the response as it was.
LEMMA GivenUp ==
    ASSUME SInv, NEW m \in Messages, Receive(m), UNCHANGED response, status' = "failed",
           short' = TRUE \/ (short' = short /\ response = NoResponse),
           live' = live \/ live' = live \cup {Number}
    PROVE  SInv'
<1>1. status = "reading" /\ decoder' = decoder /\ decoder \in Decoders /\ sent' \in Seq(Messages)
  BY Received
<1>2. Typed'
  BY <1>1 DEF SInv, Typed
<1>3. Balanced'
  BY <1>1 DEF SInv, Balanced, NothingLeft, Held
<1>4. Keyed'
  BY <1>1 DEF SInv, Keyed, Held
<1>5. QED  BY <1>2, <1>3, <1>4 DEF SInv

LEMMA NothingKept ==
    ASSUME SInv, NEW m \in Messages, NotUnpacked(m) \/ NoRoom(m)
    PROVE  SInv'
<1>1. /\ response' = response /\ status' = "failed" /\ short' = TRUE
      /\ Receive(m) /\ (live' = live \/ live' = live \cup {Number})
  BY DEF NotUnpacked, NoRoom, Unpack, Spared, GiveUp, RunShort
<1>2. QED  BY <1>1, GivenUp

\* The message is kept, with the keys copied or none yet.
LEMMA NoLinkStep ==
    ASSUME SInv, NEW m \in Messages, NoLink(m)
    PROVE  SInv'
<1>1. /\ Receive(m) /\ Unpack(m) /\ short' = TRUE /\ status' \in {"failed", "reading"}
      /\ \/ decoder = "list" /\ response' = Kept(Grown(response, PartOf(sent', Number)))
         \/ decoder # "list" /\ response' = response
  BY DEF NoLink, Unpack, RunShort
<1>2. /\ status = "reading" /\ decoder' = decoder /\ decoder \in Decoders /\ sent' \in Seq(Messages)
      /\ PartOf(sent', Number) \in Seq(Places) /\ live' = live \cup {Number}
  BY <1>1, Received
<1>3. CASE response' = response
  <2>1. Typed' /\ Balanced' /\ Keyed'
    BY <1>1, <1>2, <1>3 DEF SInv, Typed, Balanced, NothingLeft, Keyed, Held
  <2>2. QED  BY <2>1 DEF SInv
<1>4. CASE decoder = "list" /\ response # NoResponse /\ response' = Grown(response, PartOf(sent', Number))
  <2>1. response.keys \in Seq(Places) /\ response.n_results = 0 /\ Shape(response)
    BY <1>4 DEF SInv, Typed, Keyed
  <2>2. /\ Shape(response') /\ Held(response') = Held(response)
        /\ response'.keys \in Seq(Places) /\ response'.n_results = 0
    BY <1>2, <1>4, <2>1, HeldGrown
  <2>3. Typed'
    BY <1>2, <2>2 DEF Typed, Shape
  <2>4. Balanced'
    BY <1>1, <1>2, <2>2 DEF SInv, Balanced, NothingLeft, Held
  <2>5. Keyed'
    BY <1>1, <1>2, <1>4, <2>2, ArrayNames DEF Keyed, Held
  <2>6. QED  BY <2>3, <2>4, <2>5 DEF SInv
<1>5. QED  BY <1>1, <1>3, <1>4 DEF Kept

\* A new or grown response that keeps the message, and in which keys, if there
\* are any, are of the messages kept.
LEMMA MessageKept ==
    ASSUME SInv, NEW m \in Messages, Unpack(m), Receive(m),
           Shape(response'), Held(response') = Held(response) \cup {Number},
           status' \in {"reading", "answered", "failed"}, short' \in {short, TRUE}, Keyed'
    PROVE  SInv'
<1>1. /\ status = "reading" /\ decoder' = decoder /\ decoder \in Decoders /\ sent' \in Seq(Messages)
      /\ live' = live \cup {Number}
  BY Received
<1>2. Typed'
  BY <1>1 DEF Typed, Shape
<1>3. Balanced'
  <2>1. Held(response') \subseteq live'
    BY <1>1 DEF SInv, Balanced
  <2>2. ASSUME ~short' PROVE live' \subseteq Held(response')
    BY <1>1, <2>2 DEF SInv, Balanced
  <2>3. NothingLeft'
    BY DEF NothingLeft
  <2> DEFINE H == Held(response)
  <2>4. H' \subseteq live' /\ (~short' => live' \subseteq H')
    BY <2>1, <2>2
  <2> HIDE DEF H
  <2>5. QED  BY <2>3, <2>4 DEF Balanced, H
<1>4. QED  BY <1>2, <1>3 DEF SInv

\* A decoder that fails with a response to keep: a new one is not stored.
LEMMA FailedKept ==
    ASSUME SInv, NEW m \in Messages, Unpack(m), NEW r, response' = Kept(r),
           status' = "failed", short' \in {short, TRUE},
           response # NoResponse =>
               /\ Shape(r) /\ Held(r) = Held(response) \cup {Number}
               /\ decoder = "mapreduce" => r.n_results = 0
               /\ r.keys = NullArray \/
                    \A i \in DOMAIN r.keys : r.keys[i] = NullKey \/ r.keys[i][1] \in Held(r),
           decoder # "list"
    PROVE  SInv'
<1>1. Receive(m) /\ status = "reading" /\ decoder' = decoder /\ live' = live \cup {Number}
  BY Received DEF Unpack
<1>2. CASE response = NoResponse
  <2>1. response' = response
    BY <1>2 DEF Kept
  <2>2. short' = TRUE \/ (short' = short /\ response = NoResponse)
    BY <1>2
  <2>3. QED  BY <1>1, <2>1, <2>2, GivenUp
<1>3. CASE response # NoResponse
  <2>1. response' = r
    BY <1>3 DEF Kept
  <2>2. Keyed'
    <3> DEFINE H == Held(response)
    <3>1. H' = Held(r) /\ decoder' # "list" /\ status' = "failed"
      BY <1>1, <2>1
    <3> HIDE DEF H
    <3>2. QED  BY <1>1, <1>3, <2>1, <3>1 DEF Keyed, H
  <2>3. QED  BY <1>1, <1>3, <2>1, <2>2, MessageKept
<1>4. QED  BY <1>2, <1>3

LEMMA ListDecodeStep ==
    ASSUME SInv, NEW m \in Messages, ListDecode(m)
    PROVE  SInv'
<1>1. /\ decoder = "list" /\ Receive(m) /\ Unpack(m) /\ short' = short
      /\ status' \in {"answered", "reading"}
      /\ response' = Linked(Grown(Current, PartOf(sent', Number)), Number)
  BY DEF ListDecode, Unpack, Succeed
<1>2. /\ status = "reading" /\ decoder' = decoder /\ PartOf(sent', Number) \in Seq(Places)
      /\ Number \in Positive
  BY <1>1, Received
<1>3. /\ Shape(Grown(Current, PartOf(sent', Number)))
      /\ Held(Grown(Current, PartOf(sent', Number))) = Held(response)
      /\ Grown(Current, PartOf(sent', Number)).keys \in Seq(Places)
      /\ Grown(Current, PartOf(sent', Number)).n_results = 0
  BY <1>1, <1>2, CurrentHolds, HeldGrown
<1>4. /\ Shape(response') /\ Held(response') = Held(response) \cup {Number}
      /\ response'.keys \in Seq(Places) /\ response'.n_results = 0
  BY <1>1, <1>2, <1>3, HeldLinked
<1>5. Keyed'
  BY <1>1, <1>2, <1>4, ArrayNames DEF Keyed
<1>6. QED  BY <1>1, <1>4, <1>5, MessageKept

LEMMA CollectStep ==
    ASSUME SInv, NEW m \in Messages, Collect(m)
    PROVE  SInv'
<1>1. /\ decoder # "list" /\ Receive(m) /\ Unpack(m) /\ short' = short
      /\ status' = "reading" /\ response' = Linked(Current, Number)
  BY DEF Collect, Unpack, Succeed
<1>2. status = "reading" /\ decoder' = decoder /\ Number \in Positive
  BY <1>1, Received
<1>3. /\ Shape(response') /\ Held(response') = Held(response) \cup {Number}
      /\ response'.keys = NullArray /\ response'.n_results = 0
  BY <1>1, <1>2, CurrentHolds, HeldLinked
<1>4. Keyed'
  BY <1>1, <1>2, <1>3 DEF Keyed
<1>5. QED  BY <1>1, <1>3, <1>4, MessageKept

\* Keys of messages that the response keeps, at least one of them.
LEMMA ReducedKeys ==
    ASSUME NEW r, Shape(r), r._internal # <<>>,
           NEW keys, keys = [i \in 1..Len(r._internal) |-> <<r._internal[i], 1>>]
    PROVE  /\ keys # NullArray
           /\ \A i \in DOMAIN keys : keys[i][1] \in Held(r)
<1>1. /\ r._internal \in Seq(Positive) /\ DOMAIN r._internal = 1..Len(r._internal)
      /\ 1 \in DOMAIN r._internal
  BY DEF Shape
<1>2. \A i \in DOMAIN keys : keys[i] = <<r._internal[i], 1>> /\ r._internal[i] \in Held(r)
  BY <1>1 DEF Held
<1>3. keys[1] # NullArray[1]
  <2>1. keys[1] = <<r._internal[1], 1>> /\ r._internal[1] # 0
    BY <1>1 DEF Positive
  <2>2. QED  BY <2>1 DEF NullArray
<1>4. QED  BY <1>2, <1>3

LEMMA ReduceDecodeStep ==
    ASSUME SInv, NEW m \in Messages, ReduceDecode(m)
    PROVE  SInv'
<1> DEFINE l == Linked(Current, Number)
<1>1. decoder = "mapreduce" /\ Receive(m) /\ Unpack(m)
  BY DEF ReduceDecode, Unpack
<1>2. status = "reading" /\ decoder' = decoder /\ Number \in Positive
  BY <1>1, Received
<1>3. /\ Shape(l) /\ Held(l) = Held(response) \cup {Number}
      /\ l.keys = NullArray /\ l.n_results = 0
  BY <1>1, <1>2, CurrentHolds, HeldLinked
<1>4. CASE response' = Reduced /\ Succeed(m)
  <2>1. l._internal = Append(Current._internal, Number) /\ Current._internal \in Seq(Positive)
    BY <1>1, <1>2, CurrentHolds DEF Linked, Shape
  <2>2. l._internal # <<>> /\ Len(l._internal) = Len(Current._internal) + 1
    BY <1>2, <2>1
  <2> DEFINE keys == [i \in 1..(Len(Current._internal) + 1) |-> <<Append(Current._internal, Number)[i], 1>>]
  <2>3. response' = WithKeys(l, keys)
    BY <1>4 DEF Reduced, WithKeys
  <2>4. keys = [i \in 1..Len(l._internal) |-> <<l._internal[i], 1>>]
    BY <2>1, <2>2
  <2> HIDE DEF l, keys
  <2>5. keys # NullArray /\ \A i \in DOMAIN keys : keys[i][1] \in Held(l)
    BY <1>3, <2>2, <2>4, ReducedKeys
  <2>6. /\ Shape(response') /\ Held(response') = Held(l)
        /\ response'.keys = keys /\ response'.n_results = 0
    BY <1>3, <2>3, HeldWithKeys
  <2>7. short' = short /\ status' \in {"answered", "reading"} /\ status' = "answered"
    BY <1>4 DEF ReduceDecode, Succeed
  <2>8. Keyed'
    <3> DEFINE H == Held(response)
    <3>1. H' = Held(l)
      BY <2>6
    <3> HIDE DEF H
    <3>2. QED  BY <1>1, <1>2, <2>5, <2>6, <2>7, <3>1 DEF Keyed, H
  <2>9. QED  BY <1>1, <1>3, <2>6, <2>7, <2>8, MessageKept
<1>5. CASE response' = Kept(Linked(response, Number)) /\ GiveUp /\ RunShort
  <2>1. response # NoResponse => Current = response
    BY DEF Current
  <2>2. QED  BY <1>1, <1>3, <1>5, <2>1, FailedKept DEF GiveUp, RunShort
<1>6. QED  BY <1>4, <1>5 DEF ReduceDecode

\* What an index decoder has put together when it is through or fails.
LEMMA AssembledHolds ==
    ASSUME SInv, status = "reading", decoder = "index", NEW keys, NEW n, NEW t
    PROVE  /\ Shape(Assembled(keys, n, t))
           /\ Held(Assembled(keys, n, t)) = Held(response) \cup {Number}
           /\ Assembled(keys, n, t).keys = keys /\ Assembled(keys, n, t).n_results = t
<1> DEFINE l == Linked(Current, Number)
<1>1. Shape(l) /\ Held(l) = Held(response) \cup {Number}
  BY CurrentHolds, HeldLinked
<1>2. Assembled(keys, n, t) = WithAll(l, keys, n, t)
  BY Zenon DEF Assembled, WithAll
<1> HIDE DEF l
<1>3. QED  BY <1>1, <1>2, HeldWithAll

\* The keys that are copied are of the messages that are kept.
LEMMA CopiedKeys ==
    ASSUME SInv, status = "reading", NEW walk, NEW counts,
           DOMAIN counts = DOMAIN Chunks, InBounds(walk, counts)
    PROVE  /\ CopiedFrom(walk) # NullArray
           /\ \A i \in DOMAIN CopiedFrom(walk) :
                 CopiedFrom(walk)[i][1] \in Held(response) \cup {Number}
<1> DEFINE copied == CopiedFrom(walk)
<1>1. /\ Shape(Linked(Current, Number)) /\ Held(Linked(Current, Number)) = Held(response) \cup {Number}
      /\ Linked(Current, Number)._internal = Chunks
  <2>1. Shape(Current) /\ Number \in Positive /\ Held(Current) = Held(response)
    BY CurrentHolds
  <2>2. Linked(Current, Number)._internal = Chunks
    BY <2>1 DEF Chunks, Linked, Shape
  <2>3. QED  BY <2>1, <2>2, HeldLinked
<1>2. \A c \in DOMAIN Chunks : Chunks[c] \in Held(response) \cup {Number} /\ Chunks[c] # 0
  <2>1. Chunks \in Seq(Positive)
    BY <1>1 DEF Shape
  <2>2. \A c \in DOMAIN Chunks : Chunks[c] \in Held(Linked(Current, Number))
    BY <1>1 DEF Held
  <2>3. QED  BY <1>1, <2>1, <2>2 DEF Positive
<1>3. \A i \in DOMAIN walk : copied[i] = <<Chunks[walk[i][1]], walk[i][2]>> /\ walk[i][1] \in DOMAIN Chunks
  BY DEF CopiedFrom, InBounds
<1>4. DOMAIN copied = DOMAIN walk
  BY DEF CopiedFrom
<1>5. copied # NullArray
  <2> HIDE DEF copied
  <2> SUFFICES ASSUME copied = NullArray PROVE FALSE
    OBVIOUS
  <2>1. 1 \in DOMAIN copied /\ copied[1] = <<0, 1>>
    BY DEF NullArray
  <2>2. <<Chunks[walk[1][1]], walk[1][2]>> = <<0, 1>> /\ Chunks[walk[1][1]] # 0
    BY <1>2, <1>3, <1>4, <2>1
  <2>3. QED  BY <2>2
<1>6. QED
  <2> HIDE DEF copied
  <2>1. \A i \in DOMAIN copied : copied[i][1] \in Held(response) \cup {Number}
    BY <1>2, <1>3, <1>4
  <2>2. QED  BY <1>5, <2>1 DEF copied

LEMMA IndexDecodeStep ==
    ASSUME SInv, NEW m \in Messages, IndexDecode(m)
    PROVE  SInv'
<1> DEFINE n     == Total(KeyCounts(sent'))
           terms == Total(TermCounts(sent'))
           walk  == KeyWalk(sent')
           keys  == CopiedFrom(walk)
<1>1. decoder = "index" /\ Receive(m) /\ Unpack(m) /\ InBounds(walk, KeyCounts(sent')) /\ m.done
  BY DEF IndexDecode, Unpack
<1>2. status = "reading" /\ decoder' = decoder /\ Number \in Positive
  BY <1>1, Received
<1>3. \/ terms = 0 /\ response' = Assembled(keys, n, 0) /\ status' = "answered" /\ short' = short
      \/ response' = Kept(Assembled(keys, n, terms)) /\ status' = "failed" /\ short' \in {short, TRUE}
      \/ response' = Assembled(keys, n, terms) /\ status' = "answered" /\ short' = TRUE
  BY <1>1 DEF IndexDecode, Succeed, GiveUp, RunShort
<1> HIDE DEF n, terms, walk, keys
<1>4. /\ keys # NullArray
      /\ \A i \in DOMAIN keys : keys[i][1] \in Held(response) \cup {Number}
  <2>1. DOMAIN KeyCounts(sent') = DOMAIN Chunks
    BY DEF KeyCounts
  <2>2. QED  BY <1>1, <1>2, <2>1, CopiedKeys DEF keys
<1>5. ASSUME NEW t
      PROVE  /\ Shape(Assembled(keys, n, t))
             /\ Held(Assembled(keys, n, t)) = Held(response) \cup {Number}
             /\ Assembled(keys, n, t).keys = keys /\ Assembled(keys, n, t).n_results = t
  BY <1>1, <1>2, AssembledHolds
<1>6. ASSUME NEW t, response' = Assembled(keys, n, t), status' = "answered",
             short' = TRUE \/ (t = 0 /\ short' = short)
      PROVE  SInv'
  <2>1. /\ Shape(response') /\ Held(response') = Held(response) \cup {Number}
        /\ response'.keys = keys /\ response'.n_results = t
    BY <1>5, <1>6
  <2>2. Keyed'
    <3> DEFINE H == Held(response)
    <3>1. H' = Held(response) \cup {Number}
      BY <2>1
    <3> HIDE DEF H
    <3>2. QED  BY <1>1, <1>2, <1>4, <1>6, <2>1, <3>1 DEF Keyed, H
  <2>3. QED  BY <1>1, <1>6, <2>1, <2>2, MessageKept
<1>7. CASE response' = Kept(Assembled(keys, n, terms)) /\ status' = "failed" /\ short' \in {short, TRUE}
  BY <1>1, <1>4, <1>5, <1>7, FailedKept
<1>8. QED  BY <1>3, <1>6, <1>7

LEMMA IndexShortStep ==
    ASSUME SInv, NEW m \in Messages, IndexShort(m)
    PROVE  SInv'
<1> DEFINE n     == Total(KeyCounts(sent'))
           nulls == [i \in 1..n |-> NullKey]
<1>1. /\ decoder = "index" /\ Receive(m) /\ Unpack(m) /\ status' = "failed" /\ short' = TRUE
      /\ \/ response' = Kept(Linked(response, Number))
         \/ response' = Kept(Assembled(nulls, n, 0))
         \/ response' = Kept(Assembled(NullArray, n, Total(TermCounts(sent'))))
  BY DEF IndexShort, Unpack, GiveUp, RunShort
<1>2. status = "reading" /\ decoder' = decoder /\ Number \in Positive
  BY <1>1, Received
<1>3. \A i \in DOMAIN nulls : nulls[i] = NullKey
  OBVIOUS
<1> HIDE DEF n, nulls
<1>4. CASE response' = Kept(Linked(response, Number))
  <2>1. response # NoResponse => Current = response
    BY DEF Current
  <2>2. /\ Shape(Linked(Current, Number)) /\ Held(Linked(Current, Number)) = Held(response) \cup {Number}
        /\ Linked(Current, Number).keys = NullArray
    BY <1>1, <1>2, CurrentHolds, HeldLinked
  <2>3. QED  BY <1>1, <1>4, <2>1, <2>2, FailedKept
<1>5. ASSUME NEW keys, NEW t, response' = Kept(Assembled(keys, n, t)),
             keys = NullArray \/ \A i \in DOMAIN keys : keys[i] = NullKey
      PROVE  SInv'
  <2>1. /\ Shape(Assembled(keys, n, t)) /\ Assembled(keys, n, t).keys = keys
        /\ Held(Assembled(keys, n, t)) = Held(response) \cup {Number}
    BY <1>1, <1>2, AssembledHolds
  <2>2. QED  BY <1>1, <1>5, <2>1, FailedKept
<1>6. QED  BY <1>1, <1>3, <1>4, <1>5

\* A decoder that follows a pointer astray changes nothing it has.
LEMMA StrayStep ==
    ASSUME SInv, NEW m \in Messages, ListKeyLost(m) \/ IndexStray(m)
    PROVE  SInv'
<1>1. /\ Receive(m) /\ Unpack(m) /\ UNCHANGED response /\ status' = "undefined"
  BY DEF ListKeyLost, IndexStray, Unpack
<1>2. /\ status = "reading" /\ decoder' = decoder /\ decoder \in Decoders /\ sent' \in Seq(Messages)
      /\ live' = live \cup {Number}
  BY <1>1, Received
<1>3. Typed' /\ Balanced' /\ Keyed'
  BY <1>1, <1>2 DEF SInv, Typed, Balanced, NothingLeft, Keyed, Held
<1>4. QED  BY <1>3 DEF SInv

LEMMA FreeStep ==
    ASSUME SInv, FreeResponse
    PROVE  SInv'
<1>1. /\ status \in {"reading", "answered", "failed"} /\ response # NoResponse
      /\ UNCHANGED <<decoder, sent, short>>
  BY DEF FreeResponse
<1>2. CASE status' = "freed" /\ response' = NoResponse /\ live' = live \ Held(response)
  <2>1. Typed' /\ Keyed'
    BY <1>1, <1>2, ArrayNames DEF SInv, Typed, Keyed, Decoders
  <2>2. Balanced'
    <3>1. ~short' => live' = {}
      BY <1>1, <1>2 DEF SInv, Balanced
    <3>2. Held(response') = {}
      BY <1>2, ArrayNames
    <3> DEFINE H == Held(response)
    <3>3. H' = {}
      BY <3>2
    <3> HIDE DEF H
    <3>4. QED  BY <1>2, <3>1, <3>3 DEF Balanced, NothingLeft, H
  <2>3. QED  BY <2>1, <2>2 DEF SInv
<1>3. CASE status' = "crashed" /\ UNCHANGED <<response, live>>
  <2>1. Typed' /\ Balanced' /\ Keyed'
    BY <1>1, <1>3 DEF SInv, Typed, Balanced, NothingLeft, Keyed, Held
  <2>2. QED  BY <2>1 DEF SInv
<1>4. QED  BY <1>2, <1>3 DEF FreeResponse, Held

LEMMA StreamStep == SInv /\ [Next]_vars => SInv'
<1> SUFFICES ASSUME SInv, [Next]_vars PROVE SInv'
  OBVIOUS
<1>1. ASSUME NEW m \in Messages, Decode(m) PROVE SInv'
  BY <1>1, NothingKept, NoLinkStep, ListDecodeStep, CollectStep, ReduceDecodeStep,
     IndexDecodeStep, IndexShortStep, StrayStep DEF Decode
<1>2. CASE UNCHANGED vars
  BY <1>2 DEF vars, SInv, Typed, Balanced, NothingLeft, Keyed, Held
<1>3. QED  BY <1>1, <1>2, FreeStep DEF Next, Stopped

LEMMA StreamInv == Spec => []SInv
<1>1. QED  BY StreamInit, StreamStep, PTL DEF Spec

-----------------------------------------------------------------------------
\* A response that is freed takes all the messages it was made from with it, when
\* memory sufficed: NothingLeft of run riak_stream.
THEOREM NothingIsLeft == Spec => []NothingLeft
<1>1. SInv => NothingLeft
  BY DEF SInv, Balanced
<1>2. QED  BY <1>1, StreamInv, PTL

\* The keys of indexes and map-reduce point into messages that are there and that
\* the response will free, however far the decoder came: KeysBacked.
THEOREM KeysAreBacked == Spec => []KeysBacked
<1>1. SInv => KeysBacked
  <2> SUFFICES ASSUME SInv, decoder # "list", response.keys # NullArray,
                      NEW i \in DOMAIN response.keys, response.keys[i] # NullKey
               PROVE  /\ response.keys[i][1] \in live
                      /\ \E c \in DOMAIN response._internal : response._internal[c] = response.keys[i][1]
    BY DEF KeysBacked
  <2>1. response.keys[i][1] \in Held(response) /\ Held(response) \subseteq live
    BY DEF SInv, Keyed, Balanced
  <2>2. QED  BY <2>1 DEF Held
<1>2. QED  BY <1>1, StreamInv, PTL

\* What the free functions walk through is there: CompleteFreeable.
THEOREM CompleteIsFreeable == Spec => []CompleteFreeable
<1>1. SInv => CompleteFreeable
  BY ArrayNames DEF SInv, Keyed, CompleteFreeable, Freeable
<1>2. QED  BY <1>1, StreamInv, PTL

-----------------------------------------------------------------------------
(* Types, order and completeness.                                          *)
(* The decoders can rely on what the server sends: only the last message   *)
(* may be empty, and keys and terms do not come together (Proper).  The    *)
(* messages kept are in the order they came, and all of them if memory     *)
(* sufficed (Chained); a list has the keys of the messages it has seen     *)
(* (Listed).                                                               *)

Proper ==
    /\ \A i \in DOMAIN sent : sent[i].done \/ sent[i].keys + sent[i].terms > 0
    /\ \A i, j \in DOMAIN sent : sent[i].keys = 0 \/ sent[j].terms = 0
    /\ status = "reading" => \A i \in DOMAIN sent : ~sent[i].done

Rising(s) == \A c, d \in DOMAIN s : c < d => s[c] < s[d]

Chained ==
    /\ Rising(response._internal)
    /\ (~short /\ status = "reading") => response._internal = [k \in DOMAIN sent |-> k]

\* Keys of some of the messages, in their order, and every key of these.
Complete(keys, msgs) ==
    /\ \A i \in 1..(Len(keys) - 1) : Before(keys[i], keys[i + 1])
    /\ \A i \in DOMAIN keys : keys[i][1] \in DOMAIN msgs /\ keys[i][2] \in 1..msgs[keys[i][1]].keys
    /\ \A i \in DOMAIN keys : \A j \in 1..msgs[keys[i][1]].keys :
          \E l \in DOMAIN keys : keys[l] = <<keys[i][1], j>>

Listed ==
    decoder = "list" =>
        /\ response # NoResponse => Complete(response.keys, sent)
        /\ (~short /\ status \in {"reading", "answered"}) =>
              IF response = NoResponse THEN sent = <<>>
              ELSE response.keys = KeysOf(sent) /\ response.n_keys = Len(response.keys)

OInv == TypeOK /\ Proper /\ Chained /\ Listed /\ WholeAnswer

KeysTyped(keys, msgs) ==
    keys = NullArray \/
      \A i \in DOMAIN keys :
         \/ keys[i] = NullKey
         \/ /\ keys[i][1] \in DOMAIN msgs
            /\ decoder # "mapreduce" => keys[i][2] \in 1..msgs[keys[i][1]].keys

ResponseTyped(r, msgs) ==
    /\ r._internal \in Seq(DOMAIN msgs)
    /\ r.n_keys \in Nat /\ r.n_results \in Nat
    /\ KeysTyped(r.keys, msgs)

LEMMA TypeParts ==
    TypeOK <=> /\ decoder \in Decoders
               /\ sent \in Seq(Messages) /\ Len(sent) <= MaxMessages
               /\ live \subseteq DOMAIN sent
               /\ short \in BOOLEAN
               /\ status \in Statuses
               /\ ResponseTyped(response, sent)
BY DEF TypeOK, ResponseTyped, KeysTyped

LEMMA BlankFields ==
    /\ NoResponse._internal = <<>> /\ NoResponse.n_keys = 1
    /\ Empty._internal = <<>> /\ Empty.n_keys = 0
BY DEF NoResponse, Empty

\* A new response and none differ only in the count.
LEMMA CurrentFields ==
    ASSUME SInv, TypeOK
    PROVE  /\ Current._internal = response._internal /\ Current.keys = response.keys
           /\ Current.n_results = response.n_results /\ Current.n_keys \in Nat
           /\ Current.n_keys = IF response = NoResponse THEN 0 ELSE response.n_keys
BY BlankFields, ArrayNames DEF Current, TypeOK

LEMMA LinkedFields ==
    ASSUME NEW r, Shape(r), NEW k
    PROVE  /\ Linked(r, k)._internal = Append(r._internal, k)
           /\ Linked(r, k).keys = r.keys /\ Linked(r, k).n_keys = r.n_keys
           /\ Linked(r, k).n_results = r.n_results
<1>1. Linked(r, k) = [keys |-> r.keys, n_keys |-> r.n_keys, n_results |-> r.n_results,
                      _internal |-> Append(r._internal, k)]
  BY DEF Linked, Shape
<1>2. QED  BY <1>1

LEMMA GrownFields ==
    ASSUME NEW r, Shape(r), NEW part
    PROVE  /\ Grown(r, part).keys = (IF r.keys = NullArray THEN <<>> ELSE r.keys) \o part
           /\ Grown(r, part).n_keys = r.n_keys + Len(part)
           /\ Grown(r, part)._internal = r._internal /\ Grown(r, part).n_results = r.n_results
<1> DEFINE n   == r.n_keys + Len(part)
           new == (IF r.keys = NullArray THEN <<>> ELSE r.keys) \o part
<1>1. Grown(r, part) = [r EXCEPT !.keys = new, !.n_keys = n]
  BY Zenon DEF Grown
<1>2. r = [keys |-> r.keys, n_keys |-> r.n_keys, n_results |-> r.n_results,
           _internal |-> r._internal]
  BY DEF Shape
<1> HIDE DEF n, new
<1>3. ASSUME NEW s, s = [r EXCEPT !.keys = new, !.n_keys = n]
      PROVE  s.keys = new /\ s.n_keys = n /\ s._internal = r._internal /\ s.n_results = r.n_results
  BY <1>2, <1>3
<1>4. QED  BY <1>1, <1>3 DEF n, new

LEMMA AssembledFields ==
    ASSUME SInv, TypeOK, status = "reading", NEW keys, NEW n, NEW t
    PROVE  /\ Assembled(keys, n, t).keys = keys /\ Assembled(keys, n, t).n_keys = n
           /\ Assembled(keys, n, t).n_results = t
           /\ Assembled(keys, n, t)._internal = Append(response._internal, Number)
<1> DEFINE l == Linked(Current, Number)
<1>1. Shape(l) /\ l._internal = Append(response._internal, Number)
  BY CurrentHolds, HeldLinked, CurrentFields, LinkedFields
<1>2. Assembled(keys, n, t) = [l EXCEPT !.keys = keys, !.n_keys = n, !.n_results = t]
  BY Zenon DEF Assembled
<1> HIDE DEF l
<1>3. l = [keys |-> l.keys, n_keys |-> l.n_keys, n_results |-> l.n_results, _internal |-> l._internal]
  BY <1>1 DEF Shape
<1>4. ASSUME NEW s, s = [l EXCEPT !.keys = keys, !.n_keys = n, !.n_results = t]
      PROVE  s.keys = keys /\ s.n_keys = n /\ s.n_results = t /\ s._internal = l._internal
  BY <1>3, <1>4
<1>5. QED  BY <1>1, <1>2, <1>4

\* The messages with the one being decoded.
LEMMA SentFacts ==
    ASSUME TypeOK, NEW m \in Messages, Receive(m)
    PROVE  /\ status = "reading" /\ decoder' = decoder
           /\ Number \in Nat \ {0} /\ Number = Len(sent) + 1
           /\ DOMAIN sent = 1..Len(sent) /\ Len(sent) \in Nat /\ DOMAIN sent' = 1..Number
           /\ DOMAIN sent' = DOMAIN sent \cup {Number} /\ Number \notin DOMAIN sent
           /\ sent' \in Seq(Messages) /\ Len(sent') <= MaxMessages
           /\ sent'[Number] = m /\ \A k \in DOMAIN sent : sent'[k] = sent[k]
           /\ m.keys \in Nat /\ m.terms \in Nat /\ m.done \in BOOLEAN
           /\ \A k \in DOMAIN sent : sent[k].keys \in Nat /\ sent[k].terms \in Nat
<1>1. /\ status = "reading" /\ decoder' = decoder /\ sent' = Append(sent, m)
      /\ Len(sent) < MaxMessages /\ sent \in Seq(Messages) /\ MaxMessages \in Nat
      /\ Messages \subseteq [keys : Nat, terms : Nat, done : BOOLEAN]
  BY MessagesAssumption DEF Receive, TypeOK
<1>2. /\ Len(sent) \in Nat /\ DOMAIN sent = 1..Len(sent) /\ Len(sent') = Len(sent) + 1
      /\ sent' \in Seq(Messages) /\ DOMAIN sent' = 1..(Len(sent) + 1)
      /\ sent'[Len(sent) + 1] = m /\ \A k \in DOMAIN sent : sent'[k] = sent[k]
  BY <1>1
<1>3. \A k \in DOMAIN sent : sent[k] \in Messages
  BY <1>1, <1>2
<1>4. Number = Len(sent) + 1
  BY DEF Number
<1>5. /\ Number \in Nat \ {0} /\ Number \notin DOMAIN sent
      /\ DOMAIN sent' = DOMAIN sent \cup {Number} /\ Len(sent') <= MaxMessages
  BY <1>1, <1>2, <1>4
<1>6. QED  BY <1>1, <1>2, <1>3, <1>4, <1>5

LEMMA ProperStays ==
    ASSUME TypeOK, Proper, NEW m \in Messages, Receive(m), status' = "reading" => ~m.done
    PROVE  Proper'
<1>1. /\ m.done \/ m.keys + m.terms > 0
      /\ m.terms > 0 => m.keys = 0
      /\ \A i \in DOMAIN sent : m.keys = 0 \/ sent[i].terms = 0
      /\ \A i \in DOMAIN sent : m.terms = 0 \/ sent[i].keys = 0
  BY DEF Receive, Protocol
<1>2. \A i \in DOMAIN sent' : (i \in DOMAIN sent /\ sent'[i] = sent[i]) \/ (i = Number /\ sent'[i] = m)
  BY SentFacts
<1>3. m.keys = 0 \/ m.terms = 0
  BY <1>1, SentFacts
<1>4. \A i \in DOMAIN sent : ~sent[i].done
  BY SentFacts DEF Proper
<1>5. \A i \in DOMAIN sent' : sent'[i].done \/ sent'[i].keys + sent'[i].terms > 0
  BY <1>1, <1>2 DEF Proper
<1>6. \A i, j \in DOMAIN sent' : sent'[i].keys = 0 \/ sent'[j].terms = 0
  BY <1>1, <1>2, <1>3 DEF Proper
<1>7. status' = "reading" => \A i \in DOMAIN sent' : ~sent'[i].done
  BY <1>2, <1>4
<1>8. QED  BY <1>5, <1>6, <1>7 DEF Proper

\* Keys of messages stay theirs when another comes.
LEMMA KeysStay ==
    ASSUME TypeOK, NEW m \in Messages, Receive(m), NEW keys
    PROVE  /\ KeysTyped(keys, sent) => KeysTyped(keys, sent')
           /\ Complete(keys, sent) => Complete(keys, sent')
<1>1. DOMAIN sent \subseteq DOMAIN sent' /\ \A k \in DOMAIN sent : sent'[k] = sent[k]
  BY SentFacts
<1>2. KeysTyped(keys, sent) => KeysTyped(keys, sent')
  BY <1>1 DEF KeysTyped
<1>3. Complete(keys, sent) => Complete(keys, sent')
  BY <1>1 DEF Complete
<1>4. QED  BY <1>2, <1>3

\* What the message being decoded must leave behind.
LEMMA Closes ==
    ASSUME OInv, NEW m \in Messages, Receive(m),
           live' \subseteq live \cup {Number}, short' \in BOOLEAN, status' \in Statuses,
           status' = "reading" => ~m.done,
           ResponseTyped(response', sent'), Rising(response'._internal),
           (~short' /\ status' = "reading") => response'._internal = [k \in DOMAIN sent' |-> k],
           Listed', WholeAnswer'
    PROVE  OInv'
<1>1. TypeOK /\ Proper
  BY DEF OInv
<1>2. Proper'
  BY <1>1, ProperStays
<1>3. /\ decoder' = decoder /\ decoder \in Decoders /\ sent' \in Seq(Messages)
      /\ Len(sent') <= MaxMessages /\ live' \subseteq DOMAIN sent'
  BY <1>1, SentFacts DEF TypeOK
<1>4. TypeOK'
  BY <1>3 DEF TypeOK, ResponseTyped, KeysTyped
<1>5. Chained'
  BY DEF Chained
<1>6. QED  BY <1>2, <1>4, <1>5 DEF OInv

\* Nothing is made of the message.
LEMMA Untouched ==
    ASSUME OInv, SInv, NEW m \in Messages, Receive(m), UNCHANGED response,
           live' \subseteq live \cup {Number}, short' \in BOOLEAN,
           status' \in {"reading", "failed", "undefined"},
           status' = "reading" => ~m.done /\ short', status' = "undefined" => short'
    PROVE  OInv'
<1>1. TypeOK /\ Chained /\ Listed
  BY DEF OInv
<1>2. ResponseTyped(response', sent')
  <2>1. response._internal \in Seq(DOMAIN sent')
    <3>1. DOMAIN sent \subseteq DOMAIN sent' /\ response._internal \in Seq(DOMAIN sent)
      BY <1>1, SentFacts DEF TypeOK
    <3>2. QED  BY <3>1
  <2>2. KeysTyped(response.keys, sent')
    BY <1>1, KeysStay, TypeParts DEF ResponseTyped
  <2>3. QED  BY <1>1, <2>1, <2>2 DEF ResponseTyped, TypeOK
<1>3. Rising(response'._internal)
  BY <1>1 DEF Chained
<1>4. Listed'
  <2>1. decoder' = decoder
    BY <1>1, SentFacts
  <2>2. status' = "answered" => FALSE
    OBVIOUS
  <2>3. Complete(response.keys, sent) => Complete(response.keys, sent')
    BY <1>1, KeysStay
  <2>4. (~short' /\ status' \in {"reading", "answered"}) => FALSE
    OBVIOUS
  <2>5. (decoder = "list" /\ response # NoResponse) => Complete(response'.keys, sent')
    BY <1>1, <2>3 DEF Listed
  <2>6. QED  BY <2>1, <2>4, <2>5 DEF Listed
<1>5. WholeAnswer'
  BY DEF WholeAnswer
<1>6. QED  BY <1>2, <1>3, <1>4, <1>5, Closes DEF Statuses

\* The message is the last of those kept.
LEMMA KeptOrder ==
    ASSUME TypeOK, Chained, NEW m \in Messages, Receive(m),
           NEW s, s = Append(response._internal, Number)
    PROVE  /\ s \in Seq(DOMAIN sent') /\ Rising(s)
           /\ Len(s) = Len(response._internal) + 1 /\ Len(s) \in Nat /\ s[Len(s)] = Number
           /\ \A c \in 1..(Len(s) - 1) : s[c] = response._internal[c] /\ s[c] \in DOMAIN sent
           /\ ~short => s = [k \in DOMAIN sent' |-> k]
<1> DEFINE r == response._internal
           n == Len(r)
<1>1. /\ r \in Seq(DOMAIN sent) /\ Rising(r) /\ status = "reading"
      /\ ~short => r = [k \in DOMAIN sent |-> k]
      /\ DOMAIN sent = 1..Len(sent) /\ DOMAIN sent' = 1..Number /\ Number = Len(sent) + 1
      /\ Len(sent) \in Nat /\ Number \in Nat \ {0}
  BY SentFacts DEF TypeOK, Chained
<1> HIDE DEF r
<1>2. /\ n \in Nat /\ DOMAIN r = 1..n /\ r \in Seq(DOMAIN sent')
      /\ \A c \in 1..n : r[c] \in DOMAIN sent /\ r[c] \in Nat /\ r[c] < Number
  <2>1. n \in Nat /\ DOMAIN r = 1..n /\ r \in Seq(DOMAIN sent') /\ \A c \in 1..n : r[c] \in DOMAIN sent
    BY <1>1
  <2>2. \A k \in DOMAIN sent : k \in Nat /\ k < Number
    BY <1>1
  <2>3. QED  BY <2>1, <2>2
<1>3. /\ s \in Seq(DOMAIN sent') /\ Len(s) = n + 1 /\ DOMAIN s = 1..(n + 1)
      /\ s[n + 1] = Number /\ \A c \in 1..n : s[c] = r[c]
  <2>1. Number \in DOMAIN sent'
    BY <1>1
  <2>2. s = Append(r, Number)
    BY DEF r
  <2>3. QED  BY <1>2, <2>1, <2>2
<1>4. Rising(s)
  <2> SUFFICES ASSUME NEW c \in DOMAIN s, NEW d \in DOMAIN s, c < d PROVE s[c] < s[d]
    BY Zenon DEF Rising
  <2>0. n \in Nat /\ c \in 1..(n + 1) /\ d \in 1..(n + 1)
    BY Zenon, <1>2, <1>3
  <2> HIDE DEF n
  <2>1. c \in 1..n
    BY <2>0
  <2>2. CASE d \in 1..n
    <3>1. r[c] < r[d]
      BY Zenon, <1>1, <1>2, <2>1, <2>2 DEF Rising
    <3>2. QED  BY <1>3, <2>1, <2>2, <3>1
  <2>3. CASE d = n + 1
    BY <1>2, <1>3, <2>1, <2>3
  <2>4. QED  BY <2>0, <2>2, <2>3
<1>5. ~short => s = [k \in DOMAIN sent' |-> k]
  <2> SUFFICES ASSUME ~short PROVE s = [k \in DOMAIN sent' |-> k]
    OBVIOUS
  <2>1. r = [k \in 1..Len(sent) |-> k]
    BY <1>1
  <2>2. n = Len(sent)
    BY <1>1, <1>2, <2>1
  <2>3. \A c \in 1..n : s[c] = c
    BY <1>3, <2>1, <2>2
  <2>4. \A c \in 1..Number : s[c] = c
    BY <1>1, <1>3, <2>2, <2>3
  <2>5. DOMAIN s = 1..Number /\ s = [c \in DOMAIN s |-> s[c]]
    BY <1>1, <1>3, <2>2
  <2>6. QED  BY <1>1, <2>4, <2>5
<1>6. Len(s) = n + 1 /\ Len(s) \in Nat /\ s[Len(s)] = Number
  <2>1. n \in Nat /\ Len(s) = n + 1 /\ s[n + 1] = Number
    BY <1>2, <1>3
  <2> HIDE DEF n
  <2>2. n + 1 \in Nat
    BY <2>1
  <2>3. QED  BY Zenon, <2>1, <2>2
<1>7. \A c \in 1..(Len(s) - 1) : s[c] = r[c] /\ s[c] \in DOMAIN sent
  <2>1. 1..(Len(s) - 1) = 1..n
    <3>1. Len(s) = n + 1 /\ n \in Nat
      BY Zenon, <1>2, <1>3
    <3> HIDE DEF n
    <3>2. QED  BY <3>1
  <2>2. QED  BY Zenon, <1>2, <1>3, <2>1
<1>8. QED  BY Zenon, <1>3, <1>4, <1>5, <1>6, <1>7 DEF r, n

\* The keys of the message, in its order.
LEMMA PartFacts ==
    ASSUME TypeOK, NEW m \in Messages, Receive(m),
           NEW part, part = PartOf(sent', Number)
    PROVE  /\ part \in Seq(Places) /\ Len(part) = m.keys
           /\ \A j \in 1..m.keys : part[j] = <<Number, j>>
<1>1. sent'[Number] = m /\ m.keys \in Nat /\ Number \in Nat \ {0}
  BY SentFacts
<1>2. part = [j \in 1..m.keys |-> <<Number, j>>]
  BY <1>1 DEF PartOf
<1>3. \A j \in 1..m.keys : <<Number, j>> \in Places
  BY <1>1 DEF Places, Positive
<1>4. QED  BY <1>1, <1>2, <1>3

\* A list's keys with those of the message behind them.
LEMMA CompleteGrown ==
    ASSUME TypeOK, NEW m \in Messages, Receive(m),
           NEW old \in Seq(Places), Complete(old, sent),
           NEW part, part = PartOf(sent', Number)
    PROVE  Complete(old \o part, sent')
<1> DEFINE new == old \o part
           n   == Len(old)
<1>1. /\ sent'[Number] = m /\ m.keys \in Nat /\ Number \in Nat \ {0}
      /\ DOMAIN sent = 1..Len(sent) /\ Len(sent) \in Nat /\ Number = Len(sent) + 1
      /\ DOMAIN sent' = DOMAIN sent \cup {Number} /\ \A k \in DOMAIN sent : sent'[k] = sent[k]
  BY SentFacts
<1>2. /\ part \in Seq(Places) /\ Len(part) = m.keys
      /\ \A j \in 1..m.keys : part[j] = <<Number, j>>
  BY PartFacts
<1>3. /\ n \in Nat /\ DOMAIN old = 1..n
      /\ new \in Seq(Places) /\ Len(new) = n + m.keys /\ DOMAIN new = 1..(n + m.keys)
      /\ \A i \in 1..n : new[i] = old[i]
      /\ \A i \in (n + 1)..(n + m.keys) : new[i] = part[i - n]
  <2>1. n \in Nat /\ DOMAIN old = 1..n
    OBVIOUS
  <2>2. new \in Seq(Places) /\ Len(new) = n + m.keys
    BY <1>2
  <2>3. DOMAIN new = 1..(n + m.keys)
    BY <2>2
  <2>4. \A i \in 1..n : new[i] = old[i]
    BY <1>2
  <2>5. ASSUME NEW i \in (n + 1)..(n + m.keys) PROVE new[i] = part[i - n]
    <3>1. i \in 1..(Len(old) + Len(part)) /\ ~(i <= Len(old))
      BY <1>1, <1>2
    <3>2. QED  BY <1>2, <3>1
  <2>6. QED  BY <2>1, <2>2, <2>3, <2>4, <2>5
<1> HIDE DEF new, n
<1>4. ASSUME NEW j \in 1..m.keys PROVE n + j \in DOMAIN new /\ new[n + j] = <<Number, j>>
  <2>1. n + j \in (n + 1)..(n + m.keys) /\ (n + j) - n = j /\ n + j \in 1..(n + m.keys)
    BY <1>1, <1>3
  <2>2. QED  BY <1>2, <1>3, <2>1
<1>5. ASSUME NEW i \in DOMAIN new, i \notin 1..n
      PROVE  i - n \in 1..m.keys /\ new[i] = <<Number, i - n>>
  <2>1. i \in (n + 1)..(n + m.keys) /\ i - n \in 1..m.keys
    BY <1>1, <1>3, <1>5
  <2>2. QED  BY <1>2, <1>3, <2>1
<1>6. ASSUME NEW i \in 1..n
      PROVE  /\ new[i] = old[i] /\ old[i][1] \in DOMAIN sent /\ i \in DOMAIN old
             /\ old[i][2] \in 1..sent'[old[i][1]].keys
             /\ sent'[old[i][1]] = sent[old[i][1]]
  BY <1>1, <1>3 DEF Complete
<1>7. ASSUME NEW i \in 1..(Len(new) - 1) PROVE Before(new[i], new[i + 1])
  <2>1. i \in DOMAIN new /\ i + 1 \in DOMAIN new
    BY <1>1, <1>3
  <2>2. CASE i + 1 \in 1..n
    <3>1. i \in 1..n /\ i \in 1..(n - 1)
      BY <1>3, <2>2
    <3>2. Before(old[i], old[i + 1])
      BY <3>1 DEF Complete, n
    <3>3. QED  BY <1>3, <2>2, <3>1, <3>2
  <2>3. CASE i \in 1..n /\ i + 1 \notin 1..n
    <3>1. new[i][1] \in DOMAIN sent /\ new[i + 1][1] = Number
      BY <1>5, <1>6, <2>1, <2>3
    <3>2. new[i][1] < new[i + 1][1]
      BY <1>1, <3>1
    <3>3. QED  BY <3>2 DEF Before
  <2>4. CASE i \notin 1..n
    <3>1. i + 1 \notin 1..n
      BY <1>3, <2>4
    <3>2. new[i] = <<Number, i - n>> /\ new[i + 1] = <<Number, (i + 1) - n>>
      BY <1>5, <2>1, <2>4, <3>1
    <3>3. i - n < (i + 1) - n
      BY <1>3
    <3>4. QED  BY <3>2, <3>3 DEF Before
  <2>5. QED  BY <1>3, <2>2, <2>3, <2>4
<1>8. ASSUME NEW i \in DOMAIN new
      PROVE  new[i][1] \in DOMAIN sent' /\ new[i][2] \in 1..sent'[new[i][1]].keys
  <2>1. CASE i \in 1..n
    BY <1>1, <1>6, <2>1
  <2>2. CASE i \notin 1..n
    BY <1>1, <1>5, <2>2
  <2>3. QED  BY <2>1, <2>2
<1>9. ASSUME NEW i \in DOMAIN new, NEW j \in 1..sent'[new[i][1]].keys
      PROVE  \E l \in DOMAIN new : new[l] = <<new[i][1], j>>
  <2>1. CASE i \in 1..n
    <3>1. j \in 1..sent[old[i][1]].keys /\ i \in DOMAIN old /\ new[i] = old[i]
      BY <1>6, <2>1
    <3>2. PICK l \in DOMAIN old : old[l] = <<old[i][1], j>>
      BY <3>1 DEF Complete
    <3>3. l \in DOMAIN new /\ new[l] = old[l]
      BY <1>1, <1>3
    <3>4. QED  BY <3>1, <3>2, <3>3
  <2>2. CASE i \notin 1..n
    <3>1. new[i][1] = Number /\ j \in 1..m.keys
      BY <1>1, <1>5, <2>2
    <3>2. QED  BY <1>4, <3>1
  <2>3. QED  BY <2>1, <2>2
<1>10. QED  BY <1>7, <1>8, <1>9 DEF Complete, new

\* The keys of all the messages, when one more comes.
LEMMA KeysOfMore ==
    ASSUME TypeOK, NEW m \in Messages, Receive(m)
    PROVE  /\ KeysOf(sent') = KeysOf(sent) \o PartOf(sent', Number)
           /\ sent = <<>> => KeysOf(sent') = PartOf(sent', Number)
<1> DEFINE parts(msgs) == [k \in DOMAIN msgs |-> PartOf(msgs, k)]
           part == PartOf(sent', Number)
           ps   == parts(sent)
<1>1. /\ DOMAIN sent = 1..Len(sent) /\ Len(sent) \in Nat /\ Number = Len(sent) + 1
      /\ DOMAIN sent' = 1..Number /\ \A k \in DOMAIN sent : sent'[k] = sent[k]
      /\ \A k \in DOMAIN sent : sent[k].keys \in Nat
  BY SentFacts
<1>2. part \in Seq(Places)
  BY PartFacts
<1>3. ASSUME NEW k \in DOMAIN sent PROVE PartOf(sent, k) \in Seq(Places) /\ PartOf(sent', k) = PartOf(sent, k)
  <2>1. sent'[k] = sent[k] /\ sent[k].keys \in Nat /\ k \in Nat \ {0}
    BY <1>1
  <2>2. \A j \in 1..sent[k].keys : <<k, j>> \in Places
    BY <2>1 DEF Places, Positive
  <2>3. QED  BY <2>1, <2>2 DEF PartOf
<1>4. ps \in Seq(Seq(Places)) /\ Len(ps) = Len(sent)
  <2>1. ps = [k \in 1..Len(sent) |-> PartOf(sent, k)]
    BY <1>1
  <2>2. QED  BY <1>1, <1>3, <2>1
<1>5. parts(sent') = Append(ps, part)
  <2> DEFINE f == parts(sent')
             g == Append(ps, part)
  <2>1. DOMAIN f = 1..Number /\ DOMAIN g = 1..Number
    BY <1>1, <1>4
  <2>2. ASSUME NEW k \in 1..Number PROVE f[k] = g[k]
    <3>1. CASE k \in DOMAIN sent
      <4>1. f[k] = PartOf(sent', k) /\ g[k] = ps[k] /\ ps[k] = PartOf(sent, k)
        BY <1>1, <1>4, <3>1
      <4>2. QED  BY <1>3, <3>1, <4>1
    <3>2. CASE k \notin DOMAIN sent
      <4>1. k = Len(ps) + 1 /\ k = Number
        BY <1>1, <1>4, <3>2
      <4> HIDE DEF part, ps
      <4>2. g[k] = part
        BY <1>4, <4>1
      <4>3. QED  BY <1>1, <4>1, <4>2 DEF part
    <3>3. QED  BY <3>1, <3>2
  <2>3. f = [k \in DOMAIN f |-> f[k]] /\ g = [k \in DOMAIN g |-> g[k]]
    <3> HIDE DEF part, ps
    <3>1. g \in Seq(Seq(Places))
      BY <1>2, <1>4
    <3> HIDE DEF g
    <3>2. g = [k \in DOMAIN g |-> g[k]]
      BY <3>1
    <3>3. QED  BY <3>2
  <2> HIDE DEF f, g
  <2>4. f = g
    BY <2>1, <2>2, <2>3
  <2>5. QED  BY <2>4 DEF f, g
<1>6. KeysOf(sent) = FlattenSeq(ps) /\ KeysOf(sent') = FlattenSeq(parts(sent'))
  BY DEF KeysOf
<1>7. KeysOf(sent') = KeysOf(sent) \o part
  <2> HIDE DEF ps, part, parts
  <2>1. QED  BY <1>2, <1>4, <1>5, <1>6, FlattenAppend
<1>8. ASSUME sent = <<>> PROVE KeysOf(sent') = part
  <2>1. ps = <<>>
    BY <1>4, <1>8
  <2>2. KeysOf(sent) = <<>>
    BY <1>6, <2>1 DEF FlattenSeq
  <2>3. <<>> \o part = part
    BY <1>2
  <2>4. QED  BY <1>7, <2>2, <2>3
<1>9. QED  BY <1>7, <1>8

-----------------------------------------------------------------------------
(* Each outcome of a decoder leaves order behind. *)

LEMMA ListKeys ==
    ASSUME SInv, decoder = "list", response # NoResponse
    PROVE  response.keys \in Seq(Places) /\ response.keys # NullArray
BY ArrayNames DEF SInv, Keyed

LEMMA CompleteTyped ==
    ASSUME NEW keys, NEW msgs, Complete(keys, msgs)
    PROVE  KeysTyped(keys, msgs)
BY DEF Complete, KeysTyped

LEMMA NoLinkOrder ==
    ASSUME OInv, SInv, NEW m \in Messages, NoLink(m)
    PROVE  OInv'
<1> DEFINE part == PartOf(sent', Number)
           new  == Grown(response, part)
<1>1. /\ Receive(m) /\ live' = live \cup {Number} /\ short' = TRUE
      /\ status' = IF m.done THEN "failed" ELSE "reading"
      /\ response' = response \/ (decoder = "list" /\ response # NoResponse /\ response' = new)
  BY DEF NoLink, Unpack, RunShort, Kept
<1>2. TypeOK /\ Chained /\ Listed
  BY DEF OInv
<1>3. CASE response' = response
  BY <1>1, <1>3, Untouched
<1>4. CASE decoder = "list" /\ response # NoResponse /\ response' = new
  <2>1. Shape(response) /\ response.keys \in Seq(Places) /\ response.keys # NullArray
    BY <1>4, ListKeys DEF SInv, Typed
  <2>2. /\ new.keys = response.keys \o part /\ new.n_keys = response.n_keys + Len(part)
        /\ new._internal = response._internal /\ new.n_results = response.n_results
    BY <2>1, GrownFields
  <2>3. part \in Seq(Places)
    BY <1>1, <1>2, PartFacts
  <2>4. Complete(response.keys \o part, sent')
    BY <1>1, <1>2, <1>4, <2>1, CompleteGrown DEF Listed
  <2> HIDE DEF new, part
  <2>5. ResponseTyped(response', sent')
    <3>1. new._internal \in Seq(DOMAIN sent')
      <4>1. DOMAIN sent \subseteq DOMAIN sent' /\ response._internal \in Seq(DOMAIN sent)
        BY <1>1, <1>2, SentFacts DEF TypeOK
      <4>2. response._internal \in Seq(DOMAIN sent')
        BY <4>1
      <4>3. QED  BY <2>2, <4>2
    <3>2. new.n_keys \in Nat /\ new.n_results \in Nat
      <4>1. Len(part) \in Nat /\ response.n_keys \in Nat /\ response.n_results \in Nat
        BY <1>2, <2>3 DEF TypeOK
      <4>2. QED  BY <2>2, <4>1
    <3>3. KeysTyped(new.keys, sent')
      BY <2>2, <2>4, CompleteTyped
    <3>4. QED  BY <1>4, <3>1, <3>2, <3>3 DEF ResponseTyped
  <2>6. Rising(response'._internal)
    BY <1>2, <1>4, <2>2 DEF Chained
  <2>7. Listed'
    BY <1>1, <1>4, <2>2, <2>4 DEF Listed
  <2>8. WholeAnswer'
    BY <1>1 DEF WholeAnswer
  <2>9. QED  BY <1>1, <2>5, <2>6, <2>7, <2>8, Closes DEF Statuses
<1>5. QED  BY <1>1, <1>3, <1>4

LEMMA ListDecodeOrder ==
    ASSUME OInv, SInv, SInv', NEW m \in Messages, ListDecode(m)
    PROVE  OInv'
<1> DEFINE part == PartOf(sent', Number)
           old  == IF Current.keys = NullArray THEN <<>> ELSE Current.keys
           new  == Grown(Current, part)
           link == Append(response._internal, Number)
<1>1. /\ decoder = "list" /\ Receive(m) /\ live' = live \cup {Number} /\ short' = short
      /\ status' = IF m.done THEN "answered" ELSE "reading"
      /\ response' = Linked(new, Number)
  BY DEF ListDecode, Unpack, Succeed
<1>2. TypeOK /\ Chained /\ Listed /\ status = "reading" /\ decoder' = "list" /\ short \in BOOLEAN
  BY <1>1, SentFacts DEF OInv, TypeOK
<1>3. /\ Shape(Current) /\ Current._internal = response._internal /\ Current.n_results = response.n_results
      /\ Current.n_keys = IF response = NoResponse THEN 0 ELSE response.n_keys
      /\ Current.keys = response.keys
  BY <1>2, CurrentHolds, CurrentFields
<1>4. part \in Seq(Places)
  BY <1>1, <1>2, PartFacts
<1>5. /\ old \in Seq(Places) /\ Complete(old, sent)
      /\ response = NoResponse => old = <<>>
      /\ response # NoResponse => old = response.keys
  <2>1. CASE response = NoResponse
    <3>1. old = <<>>
      BY <1>3, <2>1, ArrayNames
    <3>2. Complete(<<>>, sent)
      BY DEF Complete
    <3>3. <<>> \in Seq(Places)
      OBVIOUS
    <3> HIDE DEF old
    <3>4. QED  BY <2>1, <3>1, <3>2, <3>3
  <2>2. CASE response # NoResponse
    BY <1>1, <1>2, <1>3, <2>2, ListKeys DEF Listed
  <2>3. QED  BY <2>1, <2>2
<1>6. /\ new.keys = old \o part /\ new.n_keys = Current.n_keys + Len(part)
      /\ new._internal = response._internal /\ new.n_results = response.n_results
      /\ Shape(new)
  <2>1. /\ new.keys = old \o part /\ new.n_keys = Current.n_keys + Len(part)
        /\ new._internal = Current._internal /\ new.n_results = Current.n_results
    BY <1>3, GrownFields
  <2>2. Current.keys = NullArray \/ Current.keys \in Seq(Places)
    BY <1>1, <1>2, CurrentHolds
  <2>3. Shape(new)
    BY <1>3, <1>4, <2>2, HeldGrown
  <2> HIDE DEF new, old, part
  <2>4. QED  BY <1>3, <2>1, <2>3
<1>7. /\ response'.keys = old \o part /\ response'.n_keys = Current.n_keys + Len(part)
      /\ response'._internal = link /\ response'.n_results = response.n_results
  BY <1>1, <1>6, LinkedFields
<1> HIDE DEF new
<1>8. /\ link \in Seq(DOMAIN sent') /\ Rising(link)
      /\ ~short => link = [k \in DOMAIN sent' |-> k]
  BY <1>1, <1>2, KeptOrder
<1> HIDE DEF link
<1>9. Complete(old \o part, sent')
  BY <1>1, <1>2, <1>5, CompleteGrown
<1>10. response' # NoResponse
  <2>1. link # <<>>
    <3>1. response._internal \in Seq(DOMAIN sent)
      BY <1>2 DEF TypeOK
    <3>2. QED  BY <3>1 DEF link
  <2>2. QED  BY <1>7, <2>1, BlankFields
<1>11. ~short => /\ old \o part = KeysOf(sent')
                 /\ Current.n_keys + Len(part) = Len(old \o part)
  <2> SUFFICES ASSUME ~short PROVE old \o part = KeysOf(sent') /\ Current.n_keys + Len(part) = Len(old \o part)
    OBVIOUS
  <2>1. Len(old \o part) = Len(old) + Len(part)
    BY <1>4, <1>5
  <2>2. CASE response = NoResponse
    <3>1. sent = <<>> /\ old = <<>> /\ Current.n_keys = 0
      BY <1>1, <1>2, <1>3, <1>5, <2>2 DEF Listed
    <3> HIDE DEF old, part
    <3>2. <<>> \o part = part /\ Len(old) = 0
      BY <1>4, <3>1
    <3>3. KeysOf(sent') = part
      BY <1>1, <1>2, <3>1, KeysOfMore DEF part
    <3>4. QED  BY <2>1, <3>1, <3>2, <3>3
  <2>3. CASE response # NoResponse
    <3>1. old = KeysOf(sent) /\ Current.n_keys = Len(old)
      BY <1>1, <1>2, <1>3, <1>5, <2>3 DEF Listed
    <3>2. KeysOf(sent') = KeysOf(sent) \o part
      BY <1>1, <1>2, KeysOfMore
    <3>3. QED  BY <2>1, <3>1, <3>2
  <2>4. QED  BY <2>2, <2>3
<1> HIDE DEF old, part
<1>12. ResponseTyped(response', sent')
  <2>1. KeysTyped(old \o part, sent')
    BY <1>9, CompleteTyped
  <2>2. Current.n_keys + Len(part) \in Nat /\ response.n_results \in Nat
    <3>1. Current.n_keys \in Nat /\ Len(part) \in Nat
      BY <1>2, <1>4, CurrentFields
    <3>2. QED  BY <1>2, <3>1 DEF TypeOK
  <2>3. QED  BY <1>7, <1>8, <2>1, <2>2 DEF ResponseTyped
<1>13. Listed'
  BY <1>1, <1>7, <1>9, <1>10, <1>11 DEF Listed
<1>14. WholeAnswer'
  <2> DEFINE keys == old \o part
  <2>1. response'.keys = keys /\ Complete(keys, sent')
    BY <1>7, <1>9
  <2> HIDE DEF keys
  <2>2. /\ \A i \in 1..(Len(keys) - 1) : Before(keys[i], keys[i + 1])
        /\ \A i \in DOMAIN keys : \A j \in 1..sent'[keys[i][1]].keys :
              \E l \in DOMAIN keys : keys[l] = <<keys[i][1], j>>
    BY Zenon, <2>1 DEF Complete
  <2>3. InOrder(response.keys)'
    BY Zenon, <2>1, <2>2 DEF InOrder
  <2>4. QED  BY <1>1, <1>2, <1>7, <1>11, <2>3 DEF WholeAnswer
<1>15. QED  BY <1>1, <1>2, <1>7, <1>8, <1>12, <1>13, <1>14, Closes DEF Statuses

LEMMA CollectOrder ==
    ASSUME OInv, SInv, NEW m \in Messages, Collect(m)
    PROVE  OInv'
<1> DEFINE link == Append(response._internal, Number)
<1>1. /\ decoder # "list" /\ Receive(m) /\ live' = live \cup {Number} /\ short' = short
      /\ ~m.done /\ status' = "reading" /\ response' = Linked(Current, Number)
  BY DEF Collect, Unpack, Succeed
<1>2. TypeOK /\ Chained /\ status = "reading" /\ decoder' = decoder /\ short \in BOOLEAN
  BY <1>1, SentFacts DEF OInv, TypeOK
<1>3. /\ Shape(Current) /\ Current._internal = response._internal
      /\ Current.n_results = response.n_results /\ Current.n_keys \in Nat
      /\ Current.keys = NullArray
  BY <1>1, <1>2, CurrentHolds, CurrentFields
<1>4. /\ response'.keys = NullArray /\ response'.n_keys \in Nat /\ response'.n_results \in Nat
      /\ response'._internal = link
  BY <1>1, <1>2, <1>3, LinkedFields DEF TypeOK
<1>5. /\ link \in Seq(DOMAIN sent') /\ Rising(link)
      /\ ~short => link = [k \in DOMAIN sent' |-> k]
  BY <1>1, <1>2, KeptOrder
<1> HIDE DEF link
<1>6. ResponseTyped(response', sent')
  BY <1>4, <1>5 DEF ResponseTyped, KeysTyped
<1>7. Listed' /\ WholeAnswer'
  BY <1>1, <1>2 DEF Listed, WholeAnswer
<1>8. QED  BY <1>1, <1>2, <1>4, <1>5, <1>6, <1>7, Closes DEF Statuses

\* A decoder that fails leaves the response with the message, if it was there.
LEMMA FailedOrder ==
    ASSUME OInv, SInv, NEW m \in Messages, decoder # "list", Unpack(m),
           NEW r, response' = Kept(r), status' = "failed", short' \in BOOLEAN,
           response # NoResponse =>
               /\ r._internal = Append(response._internal, Number)
               /\ r.n_keys \in Nat /\ r.n_results \in Nat /\ KeysTyped(r.keys, sent')
    PROVE  OInv'
<1>1. Receive(m) /\ live' = live \cup {Number}
  BY DEF Unpack
<1>2. TypeOK /\ Chained /\ decoder' = decoder
  BY <1>1, SentFacts DEF OInv
<1>3. CASE response = NoResponse
  <2>1. response' = response
    BY <1>3 DEF Kept
  <2>2. QED  BY <1>1, <2>1, Untouched
<1>4. CASE response # NoResponse
  <2>1. response' = r
    BY <1>4 DEF Kept
  <2>2. r._internal \in Seq(DOMAIN sent') /\ Rising(r._internal)
    BY <1>1, <1>2, <1>4, KeptOrder
  <2>3. ResponseTyped(response', sent')
    BY <1>4, <2>1, <2>2 DEF ResponseTyped
  <2>4. Listed' /\ WholeAnswer'
    BY <1>2 DEF Listed, WholeAnswer
  <2>5. QED  BY <1>1, <2>1, <2>2, <2>3, <2>4, Closes DEF Statuses
<1>5. QED  BY <1>3, <1>4

LEMMA ReduceDecodeOrder ==
    ASSUME OInv, SInv, NEW m \in Messages, ReduceDecode(m)
    PROVE  OInv'
<1> DEFINE link == Append(response._internal, Number)
           l    == Linked(Current, Number)
           keys == [i \in 1..(Len(Current._internal) + 1) |-> <<Append(Current._internal, Number)[i], 1>>]
<1>1. /\ decoder = "mapreduce" /\ Receive(m) /\ Unpack(m) /\ live' = live \cup {Number} /\ m.done
      /\ \/ response' = Reduced /\ Succeed(m)
         \/ response' = Kept(Linked(response, Number)) /\ GiveUp /\ RunShort
  BY DEF ReduceDecode, Unpack
<1>2. TypeOK /\ Chained /\ status = "reading" /\ decoder' = "mapreduce" /\ short \in BOOLEAN
  BY <1>1, SentFacts DEF OInv, TypeOK
<1>3. /\ Shape(Current) /\ Current._internal = response._internal
      /\ Current.n_results = response.n_results /\ Current.n_keys \in Nat
      /\ Current.keys = response.keys
      /\ Number \in Positive
  BY <1>2, CurrentHolds, CurrentFields
<1>4. CASE response' = Reduced /\ Succeed(m)
  <2>1. short' = short /\ status' = "answered"
    BY <1>1, <1>4 DEF Succeed
  <2>2. Shape(l) /\ l._internal = link /\ l.n_keys \in Nat /\ l.n_results \in Nat
    <3>1. Shape(l) /\ l._internal = link /\ l.n_keys = Current.n_keys /\ l.n_results = response.n_results
      BY <1>3, HeldLinked, LinkedFields
    <3>2. QED  BY <1>2, <1>3, <3>1 DEF TypeOK
  <2>3. response' = WithKeys(l, keys)
    BY <1>4 DEF Reduced, WithKeys
  <2>4. /\ link \in Seq(DOMAIN sent') /\ Rising(link)
        /\ Len(link) = Len(response._internal) + 1
        /\ ~short => link = [k \in DOMAIN sent' |-> k]
    BY <1>1, <1>2, KeptOrder
  <2>5. keys = [i \in 1..Len(link) |-> <<link[i], 1>>]
    BY <1>3, <2>4
  <2> HIDE DEF l, keys, link
  <2>6. /\ response'.keys = keys /\ response'.n_keys \in Nat /\ response'.n_results \in Nat
        /\ response'._internal = link
    <3>1. l = [keys |-> l.keys, n_keys |-> l.n_keys, n_results |-> l.n_results, _internal |-> l._internal]
      BY <2>2 DEF Shape
    <3>2. WithKeys(l, keys) = [keys |-> keys, n_keys |-> l.n_keys, n_results |-> l.n_results,
                               _internal |-> l._internal]
      BY <3>1 DEF WithKeys
    <3>3. QED  BY <2>2, <2>3, <3>2
  <2>7. Len(link) \in Nat /\ DOMAIN link = 1..Len(link) /\ DOMAIN keys = 1..Len(link)
        /\ Len(keys) = Len(link)
        /\ \A i \in 1..Len(link) : keys[i] = <<link[i], 1>> /\ link[i] \in DOMAIN sent'
    BY <2>4, <2>5
  <2>8. ResponseTyped(response', sent')
    BY <1>1, <2>4, <2>6, <2>7 DEF ResponseTyped, KeysTyped
  <2>9. InOrder(response.keys)'
    <3>1. ASSUME NEW i \in 1..(Len(keys) - 1) PROVE Before(keys[i], keys[i + 1])
      <4>1. i \in DOMAIN link /\ i + 1 \in DOMAIN link /\ i < i + 1
        BY <2>7
      <4>2. link[i] < link[i + 1]
        BY <2>4, <4>1 DEF Rising
      <4>3. keys[i] = <<link[i], 1>> /\ keys[i + 1] = <<link[i + 1], 1>>
        BY <2>7, <4>1
      <4>4. QED  BY <4>2, <4>3 DEF Before
    <3>2. QED  BY <1>2, <2>6, <3>1 DEF InOrder
  <2>10. ~short => keys = [k \in DOMAIN sent' |-> <<k, 1>>]
    <3>1. ASSUME ~short PROVE keys = [k \in DOMAIN sent' |-> <<k, 1>>]
      <4>1. link = [k \in DOMAIN sent' |-> k]
        BY <2>4, <3>1
      <4>2. DOMAIN sent' = 1..Len(link) /\ \A k \in 1..Len(link) : link[k] = k
        BY <2>7, <4>1
      <4>3. QED  BY <2>5, <4>2
    <3>2. QED  BY <3>1
  <2>11. Listed' /\ WholeAnswer'
    BY <1>2, <2>1, <2>6, <2>9, <2>10 DEF Listed, WholeAnswer
  <2>12. QED  BY <1>1, <1>2, <2>1, <2>4, <2>6, <2>8, <2>11, Closes DEF Statuses
<1>5. CASE response' = Kept(Linked(response, Number)) /\ GiveUp /\ RunShort
  <2>1. status' = "failed" /\ short' = TRUE /\ Shape(response)
    BY <1>5 DEF GiveUp, RunShort, SInv, Typed
  <2>2. /\ Linked(response, Number)._internal = link
        /\ Linked(response, Number).keys = response.keys
        /\ Linked(response, Number).n_keys = response.n_keys
        /\ Linked(response, Number).n_results = response.n_results
    BY <2>1, LinkedFields
  <2>3. KeysTyped(response.keys, sent')
    BY <1>1, <1>2, KeysStay, TypeParts DEF ResponseTyped
  <2>4. QED  BY <1>1, <1>2, <1>5, <2>1, <2>2, <2>3, FailedOrder DEF TypeOK
<1>6. QED  BY <1>1, <1>4, <1>5

\* The numbers of keys or terms in the messages of an index answer.
LEMMA CountFacts ==
    ASSUME OInv, SInv, NEW m \in Messages, Receive(m)
    PROVE  /\ Chunks = Append(response._internal, Number)
           /\ Chunks \in Seq(DOMAIN sent') /\ Rising(Chunks) /\ Len(Chunks) \in Nat
           /\ Chunks[Len(Chunks)] = Number /\ Len(Chunks) # 0
           /\ \A c \in 1..(Len(Chunks) - 1) : Chunks[c] \in DOMAIN sent
           /\ ~short => Chunks = [k \in DOMAIN sent' |-> k]
           /\ KeyCounts(sent') \in Seq(Nat) /\ Len(KeyCounts(sent')) = Len(Chunks)
           /\ \A c \in 1..Len(Chunks) : KeyCounts(sent')[c] = sent'[Chunks[c]].keys
           /\ TermCounts(sent') \in Seq(Nat) /\ Len(TermCounts(sent')) = Len(Chunks)
           /\ Total(KeyCounts(sent')) \in Nat /\ Total(TermCounts(sent')) \in Nat
<1>1. TypeOK /\ Chained
  BY DEF OInv
<1>2. Chunks = Append(response._internal, Number)
  BY <1>1, CurrentFields DEF Chunks
<1>3. /\ Chunks \in Seq(DOMAIN sent') /\ Rising(Chunks) /\ Len(Chunks) \in Nat
      /\ Len(Chunks) = Len(response._internal) + 1
      /\ Chunks[Len(Chunks)] = Number
      /\ \A c \in 1..(Len(Chunks) - 1) : Chunks[c] \in DOMAIN sent
      /\ ~short => Chunks = [k \in DOMAIN sent' |-> k]
  BY <1>1, <1>2, KeptOrder
<1>4. Len(Chunks) # 0
  <2>1. Len(response._internal) \in Nat
    BY <1>1 DEF TypeOK
  <2>2. QED  BY <1>3, <2>1
<1>5. \A k \in DOMAIN sent' : sent'[k].keys \in Nat /\ sent'[k].terms \in Nat
  <2>1. \A k \in DOMAIN sent' : (k \in DOMAIN sent /\ sent'[k] = sent[k]) \/ (k = Number /\ sent'[k] = m)
    BY <1>1, SentFacts
  <2>2. /\ m.keys \in Nat /\ m.terms \in Nat
        /\ \A k \in DOMAIN sent : sent[k].keys \in Nat /\ sent[k].terms \in Nat
    BY <1>1, SentFacts
  <2>3. QED  BY <2>1, <2>2
<1> DEFINE ch == Chunks
           d  == sent'
<1>6. /\ DOMAIN ch = 1..Len(ch) /\ \A c \in 1..Len(ch) : ch[c] \in DOMAIN d
      /\ KeyCounts(d) = [c \in DOMAIN ch |-> d[ch[c]].keys]
      /\ TermCounts(d) = [c \in DOMAIN ch |-> d[ch[c]].terms]
  BY <1>3 DEF KeyCounts, TermCounts
<1> HIDE DEF ch
<1>7. /\ KeyCounts(d) \in Seq(Nat) /\ Len(KeyCounts(d)) = Len(ch)
      /\ \A c \in 1..Len(ch) : KeyCounts(d)[c] = d[ch[c]].keys
  <2>1. Len(ch) \in Nat /\ \A c \in 1..Len(ch) : d[ch[c]].keys \in Nat
    BY <1>3, <1>5, <1>6 DEF ch
  <2>2. KeyCounts(d) = [c \in 1..Len(ch) |-> d[ch[c]].keys]
    BY <1>6
  <2> HIDE DEF d
  <2>3. QED  BY <2>1, <2>2
<1>8. TermCounts(d) \in Seq(Nat) /\ Len(TermCounts(d)) = Len(ch)
  <2>1. Len(ch) \in Nat /\ \A c \in 1..Len(ch) : d[ch[c]].terms \in Nat
    BY <1>3, <1>5, <1>6 DEF ch
  <2>2. TermCounts(d) = [c \in 1..Len(ch) |-> d[ch[c]].terms]
    BY <1>6
  <2> HIDE DEF d
  <2>3. QED  BY <2>1, <2>2
<1>9. ASSUME NEW counts \in Seq(Nat) PROVE Total(counts) \in Nat
  <2>1. Sums(counts) \in [0..Len(counts) -> Nat] /\ Len(counts) \in 0..Len(counts)
    BY SumsFacts
  <2>2. QED  BY <2>1 DEF Total
<1>10. QED  BY <1>2, <1>3, <1>4, <1>7, <1>8, <1>9 DEF ch

\* The walk stays in the messages and passes all of their keys in order.
LEMMA IndexKeys ==
    ASSUME OInv, SInv, NEW m \in Messages, Receive(m),
           NEW keys, keys = CopiedFrom(KeyWalk(sent'))
    PROVE  /\ InBounds(KeyWalk(sent'), KeyCounts(sent'))
           /\ Len(keys) = Total(KeyCounts(sent')) /\ Complete(keys, sent')
           /\ ~short => keys = KeysOf(sent')
<1> DEFINE counts == KeyCounts(sent')
           n      == Total(counts)
           walk   == KeyWalk(sent')
           l      == Len(Chunks)
<1>1. /\ Chunks \in Seq(DOMAIN sent') /\ Rising(Chunks) /\ l \in Nat /\ l # 0
      /\ Chunks[l] = Number /\ DOMAIN Chunks = 1..l
      /\ \A c \in 1..(l - 1) : Chunks[c] \in DOMAIN sent
      /\ ~short => Chunks = [k \in DOMAIN sent' |-> k]
      /\ counts \in Seq(Nat) /\ Len(counts) = l /\ DOMAIN counts = 1..l
      /\ \A c \in 1..l : counts[c] = sent'[Chunks[c]].keys
      /\ n \in Nat
  BY CountFacts
<1>2. walk = Visited(counts, n)
  BY DEF KeyWalk
<1>3. /\ \A i \in DOMAIN sent : ~sent[i].done /\ (sent[i].done \/ sent[i].keys + sent[i].terms > 0)
      /\ \A i, j \in DOMAIN sent : sent[i].keys = 0 \/ sent[j].terms = 0
      /\ \A i \in DOMAIN sent : m.keys = 0 \/ sent[i].terms = 0
      /\ \A i \in DOMAIN sent : sent[i].keys \in Nat /\ sent[i].terms \in Nat
      /\ \A k \in DOMAIN sent' : (k \in DOMAIN sent /\ sent'[k] = sent[k]) \/ (k = Number /\ sent'[k] = m)
      /\ \A k \in DOMAIN sent : sent'[k] = sent[k]
  BY SentFacts DEF OInv, Proper, Receive, Protocol
<1> HIDE DEF counts, walk, l
<1>4. n = 0 \/ \A c \in 1..(l - 1) : counts[c] # 0
  <2>1. CASE \E i \in DOMAIN sent : sent[i].terms > 0
    <3>1. PICK i \in DOMAIN sent : sent[i].terms > 0
      BY <2>1
    <3>2. m.keys = 0 /\ \A k \in DOMAIN sent : sent[k].keys = 0
      BY <1>3, <3>1
    <3>3. \A c \in 1..l : Chunks[c] \in DOMAIN sent'
      BY <1>1
    <3>4. \A c \in 1..l : counts[c] = 0
      BY <1>1, <1>3, <3>2, <3>3
    <3>5. QED  BY <1>1, <3>4, SumsNothing
  <2>2. CASE \A i \in DOMAIN sent : ~(sent[i].terms > 0)
    <3>1. \A i \in DOMAIN sent : sent[i].keys # 0
      BY <1>3, <2>2
    <3>2. ASSUME NEW c \in 1..(l - 1) PROVE counts[c] # 0
      <4>1. c \in 1..l /\ Chunks[c] \in DOMAIN sent
        BY <1>1
      <4>2. counts[c] = sent[Chunks[c]].keys
        BY <1>1, <1>3, <4>1
      <4>3. QED  BY <3>1, <4>1, <4>2
    <3>3. QED  BY <3>2
  <2>3. QED  BY <2>1, <2>2
<1>5. DOMAIN walk = 1..n /\ \A i \in 1..n : At(counts, i, walk[i])
  BY <1>1, <1>2, <1>4, WalkPlaces
<1> HIDE DEF n
<1>6. ASSUME NEW i \in 1..n
      PROVE  /\ walk[i][1] \in 1..l /\ walk[i][2] \in 1..counts[walk[i][1]]
             /\ walk[i][1] \in Nat /\ walk[i][2] \in Nat /\ walk[i] = <<walk[i][1], walk[i][2]>>
             /\ keys[i] = <<Chunks[walk[i][1]], walk[i][2]>>
  <2>1. At(counts, i, walk[i])
    BY <1>5
  <2>2. keys[i] = <<Chunks[walk[i][1]], walk[i][2]>>
    BY <1>5 DEF CopiedFrom, walk
  <2>3. QED  BY <1>1, <2>1, <2>2 DEF At
<1>7. DOMAIN keys = 1..n /\ Len(keys) = n /\ keys = [i \in 1..n |-> keys[i]]
  <2>1. keys = [i \in 1..n |-> <<Chunks[walk[i][1]], walk[i][2]>>]
    BY <1>5 DEF CopiedFrom, walk
  <2>2. QED  BY <1>1, <2>1
<1>8. InBounds(walk, counts)
  <2>1. ASSUME NEW i \in 1..n PROVE walk[i][1] \in DOMAIN counts /\ walk[i][2] <= counts[walk[i][1]]
    <3>1. walk[i][1] \in 1..l /\ walk[i][2] \in 1..counts[walk[i][1]]
      BY <1>6
    <3>2. QED  BY <1>1, <3>1
  <2>2. QED  BY <1>5, <2>1 DEF InBounds
<1>9. ASSUME NEW i \in 1..(n - 1) PROVE Before(keys[i], keys[i + 1])
  <2>1. i \in 1..n /\ i + 1 \in 1..n /\ i <= i + 1
    BY <1>1
  <2> DEFINE k == i + 1
             p == walk[i]
             q == walk[k]
  <2>2. \/ p[1] < q[1]
        \/ p[1] = q[1] /\ k = i + (q[2] - p[2])
    <3>1. At(counts, i, p) /\ At(counts, k, q) /\ i <= k
      BY <1>5, <2>1
    <3> HIDE DEF p, q, k
    <3>2. QED  BY <1>1, <3>1, PlaceOrder
  <2>3. /\ p[1] \in 1..l /\ q[1] \in 1..l /\ p[2] \in Nat /\ q[2] \in Nat
        /\ keys[i] = <<Chunks[p[1]], p[2]>> /\ keys[k] = <<Chunks[q[1]], q[2]>>
    BY <1>6, <2>1
  <2> HIDE DEF p, q
  <2>4. CASE p[1] < q[1]
    <3>1. Chunks[p[1]] < Chunks[q[1]]
      BY <1>1, <2>3, <2>4 DEF Rising
    <3>2. QED  BY <2>3, <3>1 DEF Before
  <2>5. CASE p[1] = q[1] /\ k = i + (q[2] - p[2])
    <3>1. p[2] < q[2]
      <4> DEFINE a == p[2]
                 b == q[2]
      <4>1. a \in Nat /\ b \in Nat /\ i + 1 = i + (b - a) /\ i \in Nat
        BY <2>1, <2>3, <2>5
      <4> HIDE DEF a, b
      <4>2. a < b
        BY <4>1
      <4>3. QED  BY <4>2 DEF a, b
    <3>2. QED  BY <2>3, <2>5, <3>1 DEF Before
  <2>6. QED  BY <2>2, <2>4, <2>5
<1>10. ASSUME NEW i \in 1..n
       PROVE  keys[i][1] \in DOMAIN sent' /\ keys[i][2] \in 1..sent'[keys[i][1]].keys
  <2>1. /\ walk[i][1] \in 1..l /\ walk[i][2] \in 1..counts[walk[i][1]]
        /\ keys[i] = <<Chunks[walk[i][1]], walk[i][2]>>
    BY <1>6
  <2>2. Chunks[walk[i][1]] \in DOMAIN sent' /\ counts[walk[i][1]] = sent'[Chunks[walk[i][1]]].keys
    BY <1>1, <2>1
  <2>3. QED  BY <2>1, <2>2
<1>11. ASSUME NEW i \in 1..n, NEW j \in 1..sent'[keys[i][1]].keys
       PROVE  \E k \in 1..n : keys[k] = <<keys[i][1], j>>
  <2> DEFINE c == walk[i][1]
             k == Sums(counts)[c - 1] + j
  <2>1. c \in 1..l /\ keys[i][1] = Chunks[c]
    BY <1>6
  <2>2. j \in 1..counts[c] /\ c \in 1..Len(counts)
    BY <1>1, <2>1
  <2> HIDE DEF c
  <2>3. At(counts, k, <<c, j>>) /\ k \in 1..n
    BY <1>1, <2>2, PlaceRange DEF n
  <2> HIDE DEF k
  <2>4. At(counts, k, walk[k])
    BY <1>5, <2>3
  <2>5. walk[k] = <<c, j>>
    BY <1>1, <2>3, <2>4, PlaceUnique
  <2>6. keys[k] = <<Chunks[c], j>>
    BY <1>6, <2>3, <2>5
  <2>7. QED  BY <2>1, <2>3, <2>6
<1>12. Complete(keys, sent')
  BY <1>7, <1>9, <1>10, <1>11 DEF Complete
<1>13. ASSUME ~short PROVE keys = KeysOf(sent')
  <2> DEFINE parts == [k \in DOMAIN sent' |-> PartOf(sent', k)]
             all   == KeysOf(sent')
  <2>1. DOMAIN sent' = 1..l /\ \A c \in 1..l : Chunks[c] = c /\ counts[c] = sent'[c].keys
    <3>1. Chunks = [k \in DOMAIN sent' |-> k]
      BY <1>1, <1>13
    <3>2. DOMAIN sent' = 1..l
      BY <1>1, <3>1
    <3>3. \A c \in 1..l : Chunks[c] = c
      BY <3>1, <3>2
    <3>4. QED  BY <1>1, <3>2, <3>3
  <2>2. ASSUME NEW c \in 1..l
        PROVE  /\ parts[c] \in Seq(Places) /\ Len(parts[c]) = counts[c]
               /\ \A j \in 1..counts[c] : parts[c][j] = <<c, j>>
    <3>1. parts[c] = [j \in 1..counts[c] |-> <<c, j>>]
      BY <2>1 DEF PartOf
    <3>2. counts[c] \in Nat /\ c \in Nat \ {0}
      BY <1>1
    <3>3. \A j \in 1..counts[c] : <<c, j>> \in Places
      BY <3>2 DEF Places, Positive
    <3> HIDE DEF parts
    <3>4. QED  BY <3>1, <3>2, <3>3
  <2>3. parts \in Seq(Seq(Places)) /\ Len(parts) = l
    <3>1. parts = [c \in 1..l |-> parts[c]]
      BY <2>1
    <3>2. l \in Nat
      BY <1>1
    <3>3. \A c \in 1..l : parts[c] \in Seq(Places)
      BY Zenon, <2>2
    <3> HIDE DEF parts
    <3>4. QED  BY <3>1, <3>2, <3>3
  <2>4. all = FlattenSeq(parts)
    BY DEF KeysOf
  <2> HIDE DEF parts, all
  <2>5. ASSUME NEW c \in 1..Len(counts)
        PROVE  parts[c] \in Seq(Places) /\ Len(parts[c]) = counts[c]
    <3>1. c \in 1..l
      BY <1>1
    <3>2. QED  BY Zenon, <2>2, <3>1
  <2>6. /\ all \in Seq(Places) /\ Len(all) = n
        /\ \A i, p : At(counts, i, p) => all[i] = parts[p[1]][p[2]]
    <3>1. parts \in Seq(Seq(Places)) /\ counts \in Seq(Nat) /\ Len(counts) = Len(parts)
      BY <1>1, <2>3
    <3>2. \A c \in 1..Len(parts) : counts[c] = Len(parts[c])
      BY Zenon, <2>5, <3>1
    <3>3. /\ FlattenSeq(parts) \in Seq(Places)
          /\ Len(FlattenSeq(parts)) = Total(counts)
          /\ \A i, p : At(counts, i, p) => FlattenSeq(parts)[i] = parts[p[1]][p[2]]
      <4> HIDE DEF counts
      <4>1. QED  BY ONLY <3>1, <3>2, FlattenAt
    <3>4. QED  BY Zenon, <2>4, <3>3 DEF n
  <2>7. ASSUME NEW i \in 1..n PROVE keys[i] = all[i]
    <3> DEFINE c == walk[i][1]
               j == walk[i][2]
    <3>1. all[i] = parts[c][j]
      BY Zenon, <1>5, <2>6
    <3>2. c \in 1..l /\ j \in 1..counts[c] /\ keys[i] = <<Chunks[c], j>>
      BY <1>6
    <3> HIDE DEF c, j
    <3>3. parts[c][j] = <<c, j>> /\ Chunks[c] = c
      BY Zenon, <2>1, <2>2, <3>2
    <3>4. QED  BY <3>1, <3>2, <3>3
  <2>8. all = [i \in 1..n |-> all[i]]
    BY <2>6
  <2>9. keys = all
    BY <1>7, <2>7, <2>8
  <2>10. QED  BY <2>9 DEF all
<1>14. QED  BY <1>7, <1>8, <1>12, <1>13 DEF walk, counts, n

\* The keys in their order make the user's answer whole.
LEMMA AnswerInOrder ==
    ASSUME NEW keys, response'.keys = keys, Complete(keys, sent')
    PROVE  InOrder(response.keys)'
<1>1. /\ \A i \in 1..(Len(keys) - 1) : Before(keys[i], keys[i + 1])
      /\ \A i \in DOMAIN keys : \A j \in 1..sent'[keys[i][1]].keys :
            \E l \in DOMAIN keys : keys[l] = <<keys[i][1], j>>
  BY Zenon DEF Complete
<1>2. QED  BY Zenon, <1>1 DEF InOrder

LEMMA IndexDecodeOrder ==
    ASSUME OInv, SInv, NEW m \in Messages, IndexDecode(m)
    PROVE  OInv'
<1> DEFINE n     == Total(KeyCounts(sent'))
           terms == Total(TermCounts(sent'))
           keys  == CopiedFrom(KeyWalk(sent'))
           link  == Append(response._internal, Number)
<1>1. decoder = "index" /\ Receive(m) /\ Unpack(m) /\ live' = live \cup {Number} /\ m.done
  BY DEF IndexDecode, Unpack
<1>2. TypeOK /\ Chained /\ status = "reading" /\ decoder' = "index" /\ short \in BOOLEAN
  BY <1>1, SentFacts DEF OInv, TypeOK
<1>3. \/ terms = 0 /\ response' = Assembled(keys, n, 0) /\ status' = "answered" /\ short' = short
      \/ response' = Kept(Assembled(keys, n, terms)) /\ status' = "failed" /\ short' \in {short, TRUE}
      \/ response' = Assembled(keys, n, terms) /\ status' = "answered" /\ short' = TRUE
  BY <1>1 DEF IndexDecode, Succeed, GiveUp, RunShort
<1>4. n \in Nat /\ terms \in Nat
  BY <1>1, CountFacts
<1>5. Len(keys) = n /\ Complete(keys, sent') /\ (~short => keys = KeysOf(sent'))
  BY <1>1, IndexKeys
<1> HIDE DEF n, terms, keys
<1>6. ASSUME NEW t
      PROVE  /\ Assembled(keys, n, t).keys = keys /\ Assembled(keys, n, t).n_keys = n
             /\ Assembled(keys, n, t).n_results = t /\ Assembled(keys, n, t)._internal = link
  BY <1>2, AssembledFields
<1>7. link \in Seq(DOMAIN sent') /\ Rising(link)
  BY <1>1, <1>2, KeptOrder
<1> HIDE DEF link
<1>8. KeysTyped(keys, sent')
  BY <1>5, CompleteTyped
<1>9. ASSUME NEW t \in Nat, response' = Assembled(keys, n, t), status' = "answered",
             short' = TRUE \/ short' = short
      PROVE  OInv'
  <2>1. /\ response'.keys = keys /\ response'.n_keys = n /\ response'.n_results = t
        /\ response'._internal = link
    BY <1>6, <1>9
  <2>2. ResponseTyped(response', sent') /\ Rising(response'._internal)
    BY <1>4, <1>7, <1>8, <2>1 DEF ResponseTyped
  <2>3. InOrder(response.keys)'
    BY <1>5, <2>1, AnswerInOrder
  <2>4. Listed' /\ WholeAnswer'
    BY <1>2, <1>5, <1>9, <2>1, <2>3 DEF Listed, WholeAnswer
  <2>5. QED  BY <1>1, <1>2, <1>9, <2>2, <2>4, Closes DEF Statuses
<1>10. CASE response' = Kept(Assembled(keys, n, terms)) /\ status' = "failed" /\ short' \in {short, TRUE}
  <2>1. /\ Assembled(keys, n, terms)._internal = Append(response._internal, Number)
        /\ Assembled(keys, n, terms).n_keys \in Nat /\ Assembled(keys, n, terms).n_results \in Nat
        /\ KeysTyped(Assembled(keys, n, terms).keys, sent')
    BY <1>4, <1>6, <1>8 DEF link
  <2>2. QED  BY <1>1, <1>2, <1>10, <2>1, FailedOrder
<1>11. QED  BY <1>3, <1>4, <1>9, <1>10

LEMMA IndexShortOrder ==
    ASSUME OInv, SInv, NEW m \in Messages, IndexShort(m)
    PROVE  OInv'
<1> DEFINE n     == Total(KeyCounts(sent'))
           terms == Total(TermCounts(sent'))
           nulls == [i \in 1..n |-> NullKey]
<1>1. /\ decoder = "index" /\ Receive(m) /\ Unpack(m) /\ status' = "failed" /\ short' = TRUE
      /\ \/ response' = Kept(Linked(response, Number))
         \/ response' = Kept(Assembled(nulls, n, 0))
         \/ response' = Kept(Assembled(NullArray, n, terms))
  BY DEF IndexShort, Unpack, GiveUp, RunShort
<1>2. TypeOK /\ status = "reading" /\ decoder' = decoder
  BY <1>1, SentFacts DEF OInv
<1>3. n \in Nat /\ terms \in Nat
  BY <1>1, CountFacts
<1>4. KeysTyped(nulls, sent') /\ KeysTyped(NullArray, sent')
  BY DEF KeysTyped
<1> HIDE DEF n, terms, nulls
<1>5. CASE response' = Kept(Linked(response, Number))
  <2>1. Shape(response)
    BY DEF SInv, Typed
  <2>2. /\ Linked(response, Number)._internal = Append(response._internal, Number)
        /\ Linked(response, Number).keys = response.keys
        /\ Linked(response, Number).n_keys = response.n_keys
        /\ Linked(response, Number).n_results = response.n_results
    BY <2>1, LinkedFields
  <2>3. KeysTyped(response.keys, sent')
    BY <1>1, <1>2, KeysStay, TypeParts DEF ResponseTyped
  <2>4. QED  BY <1>1, <1>2, <1>5, <2>2, <2>3, FailedOrder DEF TypeOK
<1>6. ASSUME NEW keys, NEW t \in Nat, response' = Kept(Assembled(keys, n, t)), KeysTyped(keys, sent')
      PROVE  OInv'
  <2>1. /\ Assembled(keys, n, t).keys = keys /\ Assembled(keys, n, t).n_keys = n
        /\ Assembled(keys, n, t).n_results = t
        /\ Assembled(keys, n, t)._internal = Append(response._internal, Number)
    BY <1>2, AssembledFields
  <2>2. QED  BY <1>1, <1>3, <1>6, <2>1, FailedOrder
<1>7. QED  BY <1>1, <1>3, <1>4, <1>5, <1>6

\* The walk over the keys never goes astray, the one over the terms only when
\* memory ran short.
LEMMA StrayOrder ==
    ASSUME OInv, SInv, NEW m \in Messages,
           NotUnpacked(m) \/ NoRoom(m) \/ ListKeyLost(m) \/ IndexStray(m)
    PROVE  OInv'
<1>1. /\ Receive(m) /\ UNCHANGED response /\ status' \in {"failed", "undefined"}
      /\ live' \subseteq live \cup {Number}
  BY DEF NotUnpacked, NoRoom, Spared, ListKeyLost, IndexStray, Unpack, GiveUp
<1>2. short' = TRUE
  <2>1. InBounds(KeyWalk(sent'), KeyCounts(sent'))
    BY <1>1, IndexKeys
  <2>2. QED  BY <2>1 DEF NotUnpacked, NoRoom, ListKeyLost, IndexStray, RunShort
<1>3. QED  BY <1>1, <1>2, Untouched

LEMMA FreeOrder ==
    ASSUME OInv, FreeResponse
    PROVE  OInv'
<1>1. TypeOK /\ Proper /\ Chained /\ Listed
  BY DEF OInv
<1>2. UNCHANGED <<decoder, sent, short>>
  BY DEF FreeResponse
<1>3. Proper' /\ WholeAnswer'
  BY <1>1, <1>2 DEF FreeResponse, Proper, WholeAnswer
<1>4. CASE status' = "freed" /\ response' = NoResponse /\ live' \subseteq live
  <2>1. response'._internal = <<>> /\ response'.n_keys = 1 /\ response'.keys = NullArray /\ response'.n_results = 0
    BY <1>4, BlankFields, ArrayNames
  <2>2. ResponseTyped(response', sent')
    BY <2>1 DEF ResponseTyped, KeysTyped
  <2>3. TypeOK'
    BY <1>1, <1>2, <1>4, <2>2 DEF TypeOK, ResponseTyped, KeysTyped, Statuses
  <2>4. Chained' /\ Listed'
    BY <1>4, <2>1 DEF Chained, Listed, Rising
  <2>5. QED  BY <1>3, <2>3, <2>4 DEF OInv
<1>5. CASE status' = "crashed" /\ UNCHANGED <<response, live>>
  <2>1. TypeOK'
    BY <1>1, <1>2, <1>5 DEF TypeOK, Statuses
  <2>2. Chained' /\ Listed'
    BY <1>1, <1>2, <1>5 DEF Chained, Listed
  <2>3. QED  BY <1>3, <2>1, <2>2 DEF OInv
<1>6. QED  BY <1>4, <1>5 DEF FreeResponse

LEMMA OrderInit == Init => OInv
<1> SUFFICES ASSUME Init PROVE OInv
  OBVIOUS
<1>1. /\ response._internal = <<>> /\ response.n_keys = 1 /\ response.keys = NullArray
      /\ response.n_results = 0 /\ sent = <<>> /\ DOMAIN sent = {}
      /\ status = "reading" /\ short = FALSE /\ decoder \in Decoders /\ live = {}
      /\ response = NoResponse
  BY BlankFields, ArrayNames DEF Init
<1>2. sent \in Seq(Messages) /\ Len(sent) <= MaxMessages
  <2>1. <<>> \in Seq(Messages) /\ Len(<<>>) = 0
    OBVIOUS
  <2>2. 0 <= MaxMessages
    BY MessagesAssumption
  <2>3. QED  BY <1>1, <2>1, <2>2
<1>3. TypeOK
  <2>1. <<>> \in Seq(DOMAIN sent)
    OBVIOUS
  <2>2. ResponseTyped(response, sent)
    BY <1>1, <2>1 DEF ResponseTyped, KeysTyped
  <2>3. QED  BY <1>1, <1>2, <2>2, TypeParts DEF Statuses
<1>4. Chained
  <2>1. response._internal = [k \in DOMAIN sent |-> k]
    BY <1>1
  <2>2. QED  BY <1>1, <2>1 DEF Chained, Rising
<1>5. Proper /\ Listed /\ WholeAnswer
  BY <1>1 DEF Proper, Listed, WholeAnswer
<1>6. QED  BY <1>3, <1>4, <1>5 DEF OInv

LEMMA OrderStep == SInv /\ OInv /\ [Next]_vars => OInv'
<1> SUFFICES ASSUME SInv, OInv, [Next]_vars PROVE OInv'
  OBVIOUS
<1>1. SInv'
  BY StreamStep
<1>2. ASSUME NEW m \in Messages, Decode(m) PROVE OInv'
  BY <1>1, <1>2, StrayOrder, NoLinkOrder, ListDecodeOrder, CollectOrder, ReduceDecodeOrder,
     IndexDecodeOrder, IndexShortOrder DEF Decode
<1>3. CASE UNCHANGED vars
  <2>1. UNCHANGED <<decoder, sent, response, live, short, status>>
    BY <1>3 DEF vars
  <2>2. TypeOK' /\ Proper'
    BY <2>1 DEF OInv, TypeOK, Proper
  <2>3. Chained' /\ Listed'
    BY <2>1 DEF OInv, Chained, Listed
  <2>4. WholeAnswer'
    <3>1. InOrder(response.keys) => InOrder(response.keys)'
      BY <2>1 DEF InOrder
    <3>2. QED  BY <2>1, <3>1 DEF OInv, WholeAnswer
  <2>5. QED  BY <2>2, <2>3, <2>4 DEF OInv
<1>4. QED  BY <1>2, <1>3, FreeOrder DEF Next, Stopped

LEMMA OrderInv == Spec => []OInv
<1>1. QED  BY OrderInit, OrderStep, StreamInv, PTL DEF Spec

-----------------------------------------------------------------------------
\* The decoders keep their variables in order for any messages and any failure: a
\* key of the user's array, if it is not NULL, is one that a message of the answer
\* holds, and a message that is kept is one that came: TypeOK of run riak_stream.
THEOREM TypeCorrect == Spec => []TypeOK
<1>1. OInv => TypeOK
  BY DEF OInv
<1>2. QED  BY <1>1, OrderInv, PTL

\* However many messages an answer has and whatever they hold, the user gets every
\* key once and in the order they came; when memory ran short on the way, messages
\* may be missing, but what is there is whole, and only then can a decoder read
\* outside a message: WholeAnswer of run riak_stream.
THEOREM AnswersAreWhole == Spec => []WholeAnswer
<1>1. OInv => WholeAnswer
  BY DEF OInv
<1>2. QED  BY <1>1, OrderInv, PTL
=============================================================================
