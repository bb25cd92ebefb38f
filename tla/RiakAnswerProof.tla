--------------------------- MODULE RiakAnswerProof ---------------------------
(***************************************************************************)
(* Proofs about the answers of one message, for any message, any number of *)
(* objects, links, pairs, documents and hooks, and any allocations that    *)
(* fail.                                                                   *)
(* A decoder is a concatenation of concatenations.  What its series has in *)
(* common (WellMade) is found part by part: each step is one of a few      *)
(* kinds, the steps of a get and a put come object after object, and a     *)
(* function that a message lacks ends the series.  Concatenations of any   *)
(* length are gone through once (FlattenIn), by the least number of steps  *)
(* for which a claim could fail.  The invariant is then the properties     *)
(* themselves, with what a response may hold.                              *)
(***************************************************************************)
EXTENDS RiakAnswer, WellFoundedInduction, SequenceTheorems, TLAPS

-----------------------------------------------------------------------------
(* Numbers and concatenations.                                              *)

LEMMA Less == IsWellFoundedOn({p \in Nat \X Nat : p[1] < p[2]}, Nat)
  BY NatLessThanWellFounded DEF OpToRel

\* A set of numbers that is not empty has a least.
LEMMA Least ==
    ASSUME NEW T, T \subseteq Nat, T # {}
    PROVE  \E x \in T : \A y \in T : x <= y
<1> DEFINE R == {p \in Nat \X Nat : p[1] < p[2]}
<1>1. PICK x \in T : \A y \in T : ~(<<y, x>> \in R)
  <2> HIDE DEF R
  <2>1. IsWellFoundedOn(R, Nat)
    BY Less DEF R
  <2>2. QED  BY <2>1, WFMin
<1>2. ASSUME NEW y \in T PROVE x <= y
  <2>1. x \in Nat /\ y \in Nat
    OBVIOUS
  <2>2. ~(y < x)
    <3>1. y < x => <<y, x>> \in R
      BY <2>1
    <3>2. QED  BY <1>1, <3>1
  <2>3. QED  BY <2>1, <2>2
<1>3. QED  BY <1>2

\* A set of numbers with 0 and with each number's successor has them all.
LEMMA Induct ==
    ASSUME NEW S, 0 \in S, \A n \in Nat : n \in S => n + 1 \in S
    PROVE  Nat \subseteq S
<1> DEFINE T == Nat \ S
<1>1. SUFFICES ASSUME T # {} PROVE FALSE
  OBVIOUS
<1>2. PICK x \in T : \A y \in T : x <= y
  <2>1. T \subseteq Nat
    OBVIOUS
  <2> HIDE DEF T
  <2>2. QED  BY <1>1, <2>1, Least
<1>3. x \in Nat /\ x # 0 /\ x - 1 \in Nat
  OBVIOUS
<1>4. x - 1 \in T
  BY <1>3
<1>5. QED  BY <1>2, <1>3, <1>4

\* f[i] is the concatenation of the first i of ss, as FlattenSeq has it.
Concats(ss, f, n) == f = [i \in 1..n |-> IF i = 1 THEN ss[i] ELSE f[i - 1] \o ss[i]]

LEMMA ConcatsAt ==
    ASSUME NEW ss, NEW f, NEW n \in Nat, Concats(ss, f, n), NEW i \in 1..n
    PROVE  f[i] = IF i = 1 THEN ss[i] ELSE f[i - 1] \o ss[i]
BY DEF Concats

LEMMA ConcatsExist ==
    ASSUME NEW ss, NEW n \in Nat
    PROVE  \E f : Concats(ss, f, n)
<1> DEFINE P == {m \in Nat : \E f : Concats(ss, f, m)}
<1>1. 0 \in P
  <2> DEFINE f == [i \in 1..0 |-> ss]
  <2>1. f = [i \in 1..0 |-> IF i = 1 THEN ss[i] ELSE f[i - 1] \o ss[i]]
    OBVIOUS
  <2> HIDE DEF f
  <2>2. Concats(ss, f, 0)
    BY <2>1 DEF Concats
  <2>3. QED  BY <2>2
<1>2. ASSUME NEW m \in Nat, m \in P PROVE m + 1 \in P
  <2>1. PICK f : Concats(ss, f, m)
    BY <1>2
  <2> DEFINE new == IF m + 1 = 1 THEN ss[m + 1] ELSE f[m] \o ss[m + 1]
             g == [i \in 1..(m + 1) |-> IF i = m + 1 THEN new ELSE f[i]]
             h == [i \in 1..(m + 1) |-> IF i = 1 THEN ss[i] ELSE g[i - 1] \o ss[i]]
  <2>2. \A i \in 1..m : g[i] = f[i]
    OBVIOUS
  <2>3. g[m + 1] = new
    OBVIOUS
  <2> HIDE DEF g
  <2>4. ASSUME NEW i \in 1..(m + 1) PROVE g[i] = h[i]
    <3>1. CASE i = m + 1
      <4>1. i # 1 => i - 1 = m /\ m \in 1..m
        BY <3>1
      <4>2. i # 1 => g[i - 1] = f[m]
        BY <2>2, <4>1
      <4>3. QED  BY <2>3, <3>1, <4>2
    <3>2. CASE i # m + 1
      <4>1. i \in 1..m /\ (i # 1 => i - 1 \in 1..m)
        BY <3>2
      <4>2. f[i] = IF i = 1 THEN ss[i] ELSE f[i - 1] \o ss[i]
        BY <2>1, <4>1, ConcatsAt
      <4>3. QED  BY <2>2, <4>1, <4>2
    <3>3. QED  BY <3>1, <3>2
  <2>5. g = h
    <3>1. g = [i \in 1..(m + 1) |-> g[i]]
      BY DEF g
    <3>2. QED  BY <2>4, <3>1
  <2>6. Concats(ss, g, m + 1)
    BY <2>5 DEF Concats
  <2>7. QED  BY <2>6
<1>3. Nat \subseteq P
  <2> HIDE DEF P
  <2>1. QED  BY <1>1, <1>2, Induct
<1>4. QED  BY <1>3

\* What holds of a concatenation's beginnings holds of it.
LEMMA FlattenIn ==
    ASSUME NEW T, NEW ss \in Seq(Seq(T)), NEW C,
           <<>> \in C[0],
           \A i \in 1..Len(ss) : \A a \in Seq(T) : a \in C[i - 1] => a \o ss[i] \in C[i]
    PROVE  FlattenSeq(ss) \in Seq(T) /\ FlattenSeq(ss) \in C[Len(ss)]
<1> DEFINE n == Len(ss)
<1>1. n \in Nat /\ \A i \in 1..n : ss[i] \in Seq(T)
  OBVIOUS
<1>2. CASE n = 0
  <2>1. ss = <<>>
    BY <1>2
  <2>2. FlattenSeq(ss) = <<>> /\ <<>> \in Seq(T)
    BY <1>2, <2>1 DEF FlattenSeq
  <2>3. QED  BY <1>2, <2>2
<1>3. CASE n # 0
  <2> DEFINE c == CHOOSE c : Concats(ss, c, n)
  <2>1. Concats(ss, c, n)
    BY <1>1, ConcatsExist
  <2>2. FlattenSeq(ss) = c[n]
    BY <1>3 DEF FlattenSeq, Concats
  <2> HIDE DEF c
  <2> DEFINE P == {i \in Nat : i \in 1..n => c[i] \in Seq(T) /\ c[i] \in C[i]}
  <2>3. 0 \in P
    OBVIOUS
  <2>4. ASSUME NEW i \in Nat, i \in P PROVE i + 1 \in P
    <3> SUFFICES ASSUME i + 1 \in 1..n PROVE c[i + 1] \in Seq(T) /\ c[i + 1] \in C[i + 1]
      OBVIOUS
    <3> DEFINE k == i + 1
    <3>1. k \in 1..n /\ k - 1 = i
      BY <1>1
    <3> HIDE DEF k
    <3>2. c[k] = IF k = 1 THEN ss[k] ELSE c[i] \o ss[k]
      BY <1>1, <2>1, <3>1, ConcatsAt
    <3>3. \A a \in Seq(T) : a \in C[i] => a \o ss[k] \in C[k] /\ a \o ss[k] \in Seq(T)
      BY <1>1, <3>1
    <3>4. CASE k = 1
      <4>1. i = 0 /\ <<>> \in Seq(T) /\ ss[k] \in Seq(T)
        BY <1>1, <3>1, <3>4
      <4>2. <<>> \o ss[k] = ss[k]
        BY <4>1
      <4>3. <<>> \o ss[k] \in C[k]
        BY <3>3, <4>1
      <4>4. QED  BY <3>2, <3>4, <4>1, <4>2, <4>3 DEF k
    <3>5. CASE k # 1
      <4>1. i \in 1..n
        BY <1>1, <3>1, <3>5
      <4>2. c[i] \in Seq(T) /\ c[i] \in C[i]
        BY <2>4, <4>1
      <4>3. QED  BY <3>2, <3>3, <3>5, <4>2 DEF k
    <3>6. QED  BY <3>4, <3>5
  <2>5. Nat \subseteq P
    <3> HIDE DEF P
    <3>1. QED  BY <2>3, <2>4, Induct
  <2>6. n \in 1..n /\ n \in P
    BY <1>1, <1>3, <2>5
  <2>7. QED  BY <2>2, <2>6
<1>4. QED  BY <1>2, <1>3

\* A set of series that is closed under concatenation has what is made for each
\* of several things.
LEMMA SeriesIn ==
    ASSUME NEW T, NEW C, C \subseteq Seq(T), <<>> \in C, \A a, b \in C : a \o b \in C,
           NEW n \in Nat, NEW ss \in [1..n -> C]
    PROVE  FlattenSeq(ss) \in C
<1> DEFINE D == [i \in Nat |-> C]
<1>1. ss \in Seq(Seq(T)) /\ Len(ss) = n
  OBVIOUS
<1>2. \A i \in Nat : D[i] = C
  OBVIOUS
<1> HIDE DEF D
<1>3. \A i \in 1..n : \A a \in Seq(T) : a \in D[i - 1] => a \o ss[i] \in D[i]
  <2>1. \A i \in 1..n : i \in Nat /\ i - 1 \in Nat /\ ss[i] \in C
    OBVIOUS
  <2>2. QED  BY <1>2, <2>1
<1>4. FlattenSeq(ss) \in D[n]
  BY <1>1, <1>2, <1>3, FlattenIn
<1>5. QED  BY <1>2, <1>4

\* Whatever is made of steps of a set for each of several things is a series of them.
LEMMA AllIn ==
    ASSUME NEW S, NEW n \in Nat, NEW ss \in [1..n -> Seq(S)]
    PROVE  FlattenSeq(ss) \in Seq(S)
<1>1. <<>> \in Seq(S) /\ \A a, b \in Seq(S) : a \o b \in Seq(S)
  OBVIOUS
<1>2. QED  BY <1>1, SeriesIn

LEMMA TryIn ==
    ASSUME NEW S, NEW b, NEW onfail, [block |-> b, onfail |-> onfail] \in S
    PROVE  Try(b, onfail) \in Seq(S)
BY DEF Try

LEMMA CatIn ==
    ASSUME NEW S, NEW a \in Seq(S), NEW b \in Seq(S)
    PROVE  a \o b \in Seq(S)
OBVIOUS

LEMMA WhenIn ==
    ASSUME NEW S, NEW condition, NEW steps, condition => steps \in Seq(S)
    PROVE  When(condition, steps) \in Seq(S)
<1>1. <<>> \in Seq(S)
  OBVIOUS
<1>2. QED  BY <1>1 DEF When

-----------------------------------------------------------------------------
(* What the series of an answer are made of. *)

Parts == {"none", "pair", "key", "value", "link", "bucket", "tag",
          "hook", "name", "fun", "module", "function"}

\* Allocations of what an owner holds.
Made(owner, is, lists, parts, onfails) ==
    {[block |-> <<owner, i, list, j, part>>, onfail |-> onfail] :
        i \in is, list \in lists, j \in Nat, part \in parts, onfail \in onfails}

LEMMA MadeIn ==
    ASSUME NEW owner, NEW is, NEW lists, NEW parts, NEW onfails,
           NEW i \in is, NEW list \in lists, NEW j \in Nat, NEW part \in parts, NEW onfail \in onfails
    PROVE  [block |-> <<owner, i, list, j, part>>, onfail |-> onfail]
             \in Made(owner, is, lists, parts, onfails)
BY DEF Made

\* What a block of an owner tells.
LEMMA MadeFields ==
    ASSUME NEW owner, NEW is, NEW lists, NEW parts, NEW onfails,
           NEW s \in Made(owner, is, lists, parts, onfails)
    PROVE  /\ s.block[1] = owner /\ s.block[2] \in is /\ s.block[3] \in lists
           /\ s.block[5] \in parts /\ s.onfail \in onfails
<1>1. PICK i \in is, list \in lists, j \in Nat, part \in parts, onfail \in onfails :
           s = [block |-> <<owner, i, list, j, part>>, onfail |-> onfail]
  BY DEF Made
<1>2. s.block = <<owner, i, list, j, part>> /\ s.onfail = onfail
  BY <1>1
<1>3. QED  BY <1>2

\* An array of pairs is made of blocks of one list of one owner.
LEMMA PairsIn ==
    ASSUME NEW S, NEW owner, NEW i, NEW list, NEW n \in Nat, NEW onfail,
           \A j \in Nat, p \in {"none", "pair", "key", "value"} :
              [block |-> <<owner, i, list, j, p>>, onfail |-> onfail] \in S
    PROVE  PairSteps(owner, i, list, n, onfail) \in Seq(S)
<1> DEFINE each(j) == Try(<<owner, i, list, j, "pair">>, onfail) \o
                      Try(<<owner, i, list, j, "key">>, onfail) \o
                      Try(<<owner, i, list, j, "value">>, onfail)
           ss == [j \in 1..n |-> each(j)]
<1>1. ASSUME NEW j \in 1..n PROVE each(j) \in Seq(S)
  <2>1. j \in Nat
    OBVIOUS
  <2>2. /\ Try(<<owner, i, list, j, "pair">>, onfail) \in Seq(S)
        /\ Try(<<owner, i, list, j, "key">>, onfail) \in Seq(S)
        /\ Try(<<owner, i, list, j, "value">>, onfail) \in Seq(S)
    BY <2>1, TryIn
  <2>3. QED  BY <2>2, CatIn
<1>2. Try(Block(owner, i, list), onfail) \in Seq(S)
  BY TryIn DEF Block
<1>3. PairSteps(owner, i, list, n, onfail) = Try(Block(owner, i, list), onfail) \o FlattenSeq(ss)
  BY DEF PairSteps, ForEach
<1> HIDE DEF each
<1>4. ss \in [1..n -> Seq(S)]
  BY <1>1
<1>5. FlattenSeq(ss) \in Seq(S)
  BY <1>4, AllIn
<1>6. QED  BY <1>2, <1>3, <1>5, CatIn

ObjectStep(i) == Made("object", {i}, ObjectFreed, Parts, {"object", "lists", "followed"})
PlaceStep(i)  == Made("object", {i}, {"bucket", "bucket_type", "key"}, Parts, {"ignored"})

LEMMA ObjectTry ==
    ASSUME NEW i \in Nat, NEW list \in ObjectFreed, NEW j \in Nat, NEW part \in Parts,
           NEW onfail \in {"object", "lists", "followed"}
    PROVE  [block |-> <<"object", i, list, j, part>>, onfail |-> onfail] \in ObjectStep(i)
<1>1. i \in {i}
  OBVIOUS
<1>2. QED  BY Zenon, <1>1, MadeIn DEF ObjectStep

\* The links of an object are blocks of that object.
LEMMA LinksIn ==
    ASSUME NEW i \in Nat, NEW n \in Nat
    PROVE  LinkSteps(i, n) \in Seq(ObjectStep(i))
<1> DEFINE each(j) == Try(<<"object", i, "links", j, "link">>, "lists") \o
                      Try(<<"object", i, "links", j, "bucket">>, "lists") \o
                      Try(<<"object", i, "links", j, "key">>, "lists") \o
                      Try(<<"object", i, "links", j, "tag">>, "lists")
           ss == [j \in 1..n |-> each(j)]
           S  == ObjectStep(i)
<1>1. ASSUME NEW j \in 1..n PROVE each(j) \in Seq(S)
  <2>1. ASSUME NEW part \in {"link", "bucket", "key", "tag"}
        PROVE  Try(<<"object", i, "links", j, part>>, "lists") \in Seq(S)
    <3>1. /\ j \in Nat /\ "links" \in ObjectFreed /\ "lists" \in {"object", "lists", "followed"}
          /\ part \in Parts
      BY DEF ObjectFreed, Parts
    <3>2. [block |-> <<"object", i, "links", j, part>>, onfail |-> "lists"] \in S
      BY Zenon, <3>1, ObjectTry
    <3> HIDE DEF S
    <3>3. QED  BY <3>2, TryIn
  <2> HIDE DEF S
  <2>2. QED  BY <2>1, CatIn
<1>2. Try(Block("object", i, "links"), "followed") \in Seq(S)
  <2>1. [block |-> Block("object", i, "links"), onfail |-> "followed"] \in S
    <3>1. 0 \in Nat /\ "links" \in ObjectFreed /\ "none" \in Parts
      BY DEF ObjectFreed, Parts
    <3>2. QED  BY <3>1, ObjectTry DEF Block
  <2> HIDE DEF S
  <2>2. QED  BY <2>1, TryIn
<1>3. LinkSteps(i, n) = Try(Block("object", i, "links"), "followed") \o FlattenSeq(ss)
  BY DEF LinkSteps, ForEach
<1> HIDE DEF each, S
<1>4. ss \in [1..n -> Seq(S)]
  BY <1>1
<1>5. FlattenSeq(ss) \in Seq(S)
  BY <1>4, AllIn
<1>6. LinkSteps(i, n) \in Seq(S)
  BY <1>2, <1>3, <1>5, CatIn
<1>7. QED  BY <1>6 DEF S

ObjectData == [binaries : SUBSET STRING, indexes : Nat, usermeta : Nat, links : Nat]

\* So is everything else its decoder allocates.
LEMMA ObjectIn ==
    ASSUME NEW i \in Nat, NEW o \in ObjectData
    PROVE  ObjectSteps(i, o) \in Seq(ObjectStep(i))
<1> DEFINE each(b) == When(Binaries[b] \in o.binaries,
                           Try(Block("object", i, Binaries[b]), "object"))
           n  == Len(Binaries)
           ss == [b \in 1..n |-> each(b)]
           S  == ObjectStep(i)
<1>1. ASSUME NEW list \in ObjectFreed, NEW onfail \in {"object", "lists", "followed"}
      PROVE  Try(Block("object", i, list), onfail) \in Seq(S)
  <2>1. [block |-> Block("object", i, list), onfail |-> onfail] \in S
    <3>1. 0 \in Nat /\ "none" \in Parts
      BY DEF Parts
    <3>2. QED  BY <3>1, ObjectTry DEF Block
  <2> HIDE DEF S
  <2>2. QED  BY <2>1, TryIn
<1>2. n \in Nat /\ \A b \in 1..n : Binaries[b] \in ObjectFreed
  BY DEF Binaries, ObjectFreed
<1>3. ASSUME NEW list \in {"indexes", "usermeta"}, NEW k \in Nat
      PROVE  PairSteps("object", i, list, k, "lists") \in Seq(S)
  <2>1. ASSUME NEW j \in Nat, NEW p \in {"none", "pair", "key", "value"}
        PROVE  [block |-> <<"object", i, list, j, p>>, onfail |-> "lists"] \in S
    <3>1. /\ list \in ObjectFreed /\ p \in Parts /\ "lists" \in {"object", "lists", "followed"}
      BY DEF ObjectFreed, Parts
    <3>2. QED  BY <3>1, ObjectTry
  <2> HIDE DEF S
  <2>2. QED  BY <2>1, PairsIn
<1>4. LinkSteps(i, o.links) \in Seq(S)
  BY LinksIn DEF ObjectData
<1> HIDE DEF S
<1>5. FlattenSeq(ss) \in Seq(S)
  <2>1. ASSUME NEW b \in 1..n PROVE each(b) \in Seq(S)
    <3>1. Try(Block("object", i, Binaries[b]), "object") \in Seq(S)
      BY <1>1, <1>2
    <3>2. QED  BY <3>1, WhenIn
  <2> HIDE DEF each, n
  <2>2. ss \in [1..n -> Seq(S)]
    BY <2>1
  <2>3. QED  BY <1>2, <2>2, AllIn
<1> DEFINE own  == Try(Block("object", i, "own"), "object")
           val  == Try(Block("object", i, "value"), "object")
           ind  == When(o.indexes > 0, PairSteps("object", i, "indexes", o.indexes, "lists"))
           meta == When(o.usermeta > 0, PairSteps("object", i, "usermeta", o.usermeta, "lists"))
           link == When(o.links > 0, LinkSteps(i, o.links))
<1>6. own \in Seq(S) /\ val \in Seq(S)
  BY <1>1 DEF ObjectFreed
<1>7. ind \in Seq(S) /\ meta \in Seq(S) /\ link \in Seq(S)
  BY <1>3, <1>4, WhenIn DEF ObjectData
<1>8. ObjectSteps(i, o) = own \o val \o FlattenSeq(ss) \o ind \o meta \o link
  BY DEF ObjectSteps, ForEach
<1> HIDE DEF own, val, ind, meta, link, ss
<1>9. ObjectSteps(i, o) \in Seq(S)
  BY <1>5, <1>6, <1>7, <1>8, CatIn
<1>10. QED  BY <1>9 DEF S

\* The copies of its place, whose failure is ignored.
LEMMA PlacesIn ==
    ASSUME NEW i \in Nat
    PROVE  PlaceSteps(i) \in Seq(PlaceStep(i))
<1> DEFINE S == PlaceStep(i)
<1>1. ASSUME NEW name \in {"bucket", "bucket_type", "key"}
      PROVE  Try(Block("object", i, name), "ignored") \in Seq(S)
  <2>1. [block |-> Block("object", i, name), onfail |-> "ignored"] \in S
    <3>1. 0 \in Nat /\ "none" \in Parts /\ i \in {i} /\ "ignored" \in {"ignored"}
      BY DEF Parts
    <3>2. QED  BY Zenon, <3>1, MadeIn DEF Block, PlaceStep
  <2> HIDE DEF S
  <2>2. QED  BY <2>1, TryIn
<1> HIDE DEF S
<1>2. PlaceSteps(i) \in Seq(S)
  BY <1>1, WhenIn, CatIn DEF PlaceSteps
<1>3. QED  BY <1>2 DEF S

\* Blocks of the response itself.
Plain(names, onfails) ==
    {[block |-> Response(name), onfail |-> onfail] : name \in names, onfail \in onfails}

\* One block of the response itself.
LEMMA PlainTry ==
    ASSUME NEW names, NEW onfails, NEW name \in names, NEW onfail \in onfails,
           NEW S, Plain(names, onfails) \subseteq S
    PROVE  Try(Response(name), onfail) \in Seq(S)
<1>1. [block |-> Response(name), onfail |-> onfail] \in S
  BY DEF Plain
<1>2. QED  BY <1>1, TryIn

LEMMA PlainFields ==
    ASSUME NEW names, NEW onfails, NEW s \in Plain(names, onfails)
    PROVE  /\ s.onfail \in onfails /\ \E name \in names : s.block = Response(name)
           /\ s.block[1] = "response" /\ s.block[5] = "none"
<1>1. PICK name \in names, onfail \in onfails : s = [block |-> Response(name), onfail |-> onfail]
  BY DEF Plain
<1>2. s.block = Response(name) /\ s.onfail = onfail
  BY <1>1
<1>3. QED  BY <1>2 DEF Response, Block

-----------------------------------------------------------------------------
(* Objects come one after another.                                          *)

\* Before the array of objects, the array, and the objects.
Rank(s) ==
    IF s.block[1] = "object" THEN s.block[2] + 1
    ELSE IF s.block = Response("content") THEN 1 ELSE 0

Sorted(q) == \A k, l \in DOMAIN q : k <= l => Rank(q[k]) <= Rank(q[l])

OneStep(i, placed) == ObjectStep(i) \cup (IF placed THEN PlaceStep(i) ELSE {})

ContentStep(n, placed) ==
    Plain({"content"}, {"response"}) \cup UNION {OneStep(i, placed) : i \in 1..n}

LEMMA PartsThere == \A p \in Parts : p # "missing"
  BY DEF Parts

\* A step of the i-th object is just that, and ignored only where a place is copied.
LEMMA OneRank ==
    ASSUME NEW i \in Nat, NEW placed \in BOOLEAN, NEW s \in OneStep(i, placed)
    PROVE  /\ Rank(s) = i + 1
           /\ s.block[1] = "object" /\ s.block[2] = i /\ s.block[3] \in ObjectFreed
           /\ s.block[5] # "missing"
           /\ \/ s.onfail \in {"object", "lists", "followed"}
              \/ /\ s.onfail = "ignored" /\ placed
                 /\ s.block[3] \in {"bucket", "bucket_type", "key"}
<1>1. \/ s \in ObjectStep(i)
      \/ placed /\ s \in PlaceStep(i)
  BY DEF OneStep
<1>2. CASE s \in ObjectStep(i)
  <2>1. /\ s.block[1] = "object" /\ s.block[2] \in {i} /\ s.block[3] \in ObjectFreed
        /\ s.block[5] \in Parts /\ s.onfail \in {"object", "lists", "followed"}
    <3>1. s \in Made("object", {i}, ObjectFreed, Parts, {"object", "lists", "followed"})
      BY <1>2 DEF ObjectStep
    <3>2. QED  BY ONLY <3>1, MadeFields
  <2>2. s.block[2] = i
    BY <2>1
  <2>3. Rank(s) = i + 1
    <3>1. Rank(s) = s.block[2] + 1
      BY Zenon, <2>1 DEF Rank
    <3>2. QED  BY Zenon, <2>2, <3>1
  <2>4. s.block[5] # "missing"
    BY Zenon, <2>1, PartsThere
  <2>5. QED  BY Zenon, <2>1, <2>2, <2>3, <2>4
<1>3. CASE placed /\ s \in PlaceStep(i)
  <2>1. /\ s.block[1] = "object" /\ s.block[2] \in {i} /\ s.block[3] \in {"bucket", "bucket_type", "key"}
        /\ s.block[5] \in Parts /\ s.onfail \in {"ignored"}
    <3>1. s \in Made("object", {i}, {"bucket", "bucket_type", "key"}, Parts, {"ignored"})
      BY <1>3 DEF PlaceStep
    <3>2. QED  BY ONLY <3>1, MadeFields
  <2>2. s.block[2] = i /\ s.onfail = "ignored"
    BY <2>1
  <2>3. Rank(s) = i + 1
    <3>1. Rank(s) = s.block[2] + 1
      BY Zenon, <2>1 DEF Rank
    <3>2. QED  BY Zenon, <2>2, <3>1
  <2>4. s.block[5] # "missing"
    BY Zenon, <2>1, PartsThere
  <2>5. s.block[3] \in ObjectFreed
    <3>1. {"bucket", "bucket_type", "key"} \subseteq ObjectFreed
      BY DEF ObjectFreed
    <3>2. QED  BY <2>1, <3>1
  <2>6. QED  BY Zenon, <1>3, <2>1, <2>2, <2>3, <2>4, <2>5
<1>4. QED  BY <1>1, <1>2, <1>3

LEMMA PlainRank ==
    ASSUME NEW names, NEW onfails, NEW s \in Plain(names, onfails)
    PROVE  /\ Rank(s) \in {0, 1}
           /\ "content" \notin names => Rank(s) = 0
           /\ names = {"content"} => Rank(s) = 1 /\ s.block = Response("content")
<1>1. PICK name \in names : s.block = Response(name)
  BY PlainFields
<1>2. s.block[1] # "object" /\ (s.block = Response("content") => name = "content")
  BY <1>1 DEF Response, Block
<1>3. QED  BY <1>1, <1>2 DEF Rank

\* Two series in order, the one before the other, are one in order.
LEMMA SortedCat ==
    ASSUME NEW S, \A s \in S : Rank(s) \in Nat,
           NEW a \in Seq(S), NEW b \in Seq(S), Sorted(a), Sorted(b),
           NEW r \in Nat, \A k \in DOMAIN a : Rank(a[k]) <= r, \A k \in DOMAIN b : r <= Rank(b[k])
    PROVE  Sorted(a \o b)
<1> DEFINE c == a \o b
           m == Len(a)
           n == Len(b)
<1>1. /\ m \in Nat /\ n \in Nat /\ DOMAIN a = 1..m /\ DOMAIN b = 1..n /\ DOMAIN c = 1..(m + n)
      /\ \A k \in 1..m : c[k] = a[k] /\ Rank(a[k]) \in Nat
      /\ \A k \in (m + 1)..(m + n) : c[k] = b[k - m] /\ k - m \in 1..n /\ Rank(b[k - m]) \in Nat
  OBVIOUS
<1> HIDE DEF c, m, n
<1>2. ASSUME NEW k \in DOMAIN c, NEW l \in DOMAIN c, k <= l
      PROVE  Rank(c[k]) <= Rank(c[l])
  <2>1. CASE l \in 1..m
    <3>1. k \in 1..m
      BY <1>1, <1>2, <2>1
    <3>2. c[k] = a[k] /\ c[l] = a[l] /\ k \in DOMAIN a /\ l \in DOMAIN a
      BY <1>1, <2>1, <3>1
    <3>3. Rank(a[k]) <= Rank(a[l])
      BY Zenon, <1>2, <3>2 DEF Sorted
    <3>4. QED  BY <3>2, <3>3
  <2>2. CASE k \in (m + 1)..(m + n)
    <3>1. l \in (m + 1)..(m + n)
      <4>1. m \in Nat /\ n \in Nat /\ l \in 1..(m + n) /\ k <= l /\ k \in (m + 1)..(m + n)
        BY <1>1, <1>2, <2>2
      <4>2. QED  BY ONLY <4>1
    <3> DEFINE x == k - m
               y == l - m
    <3>2. c[k] = b[x] /\ c[l] = b[y] /\ x \in DOMAIN b /\ y \in DOMAIN b
      BY <1>1, <2>2, <3>1
    <3>3. x <= y
      <4>1. m \in Nat /\ l \in (m + 1)..(m + n) /\ k <= l /\ k \in (m + 1)..(m + n)
        BY <1>1, <1>2, <2>2, <3>1
      <4>2. QED  BY ONLY <4>1
    <3> HIDE DEF x, y
    <3>4. Rank(b[x]) <= Rank(b[y])
      BY Zenon, <3>2, <3>3 DEF Sorted
    <3>5. QED  BY <3>2, <3>4
  <2>3. CASE k \in 1..m /\ l \in (m + 1)..(m + n)
    <3> DEFINE y == l - m
    <3>1. c[k] = a[k] /\ c[l] = b[y] /\ y \in DOMAIN b /\ k \in DOMAIN a
      BY <1>1, <2>3
    <3>2. Rank(c[k]) \in Nat /\ Rank(c[l]) \in Nat
      BY <1>1, <2>3, <3>1
    <3> HIDE DEF y
    <3>3. Rank(c[k]) <= r /\ r <= Rank(c[l])
      BY <3>1
    <3>4. QED  BY <3>2, <3>3
  <2>4. k \in 1..m \/ k \in (m + 1)..(m + n)
    BY <1>1
  <2>5. l \in 1..m \/ l \in (m + 1)..(m + n)
    BY <1>1
  <2>6. QED  BY <2>1, <2>2, <2>3, <2>4, <2>5
<1>3. QED  BY <1>2 DEF Sorted, c

\* The elements of a concatenation are those of its parts.
LEMMA CatAll ==
    ASSUME NEW S, NEW P, NEW a \in Seq(S), NEW b \in Seq(S),
           \A k \in DOMAIN a : a[k] \in P, \A k \in DOMAIN b : b[k] \in P
    PROVE  \A k \in DOMAIN (a \o b) : (a \o b)[k] \in P
<1>1. a \in Seq(P) /\ b \in Seq(P)
  OBVIOUS
<1>2. a \o b \in Seq(P)
  BY <1>1
<1>3. QED  BY <1>2

LEMMA MoreIn ==
    ASSUME NEW S, NEW R, S \subseteq R, NEW q \in Seq(S)
    PROVE  q \in Seq(R)
OBVIOUS

LEMMA ElementIn ==
    ASSUME NEW S, NEW q \in Seq(S), NEW k \in DOMAIN q
    PROVE  q[k] \in S
OBVIOUS

LEMMA SameRank ==
    ASSUME NEW S, NEW r \in Nat, \A s \in S : Rank(s) = r, NEW q \in Seq(S)
    PROVE  Sorted(q) /\ \A k \in DOMAIN q : Rank(q[k]) = r
<1>1. \A k \in DOMAIN q : Rank(q[k]) = r
  BY ElementIn
<1>2. Sorted(q)
  BY <1>1 DEF Sorted
<1>3. QED  BY <1>1, <1>2

LEMMA ContentRank ==
    ASSUME NEW n \in Nat, NEW placed \in BOOLEAN, NEW s \in ContentStep(n, placed)
    PROVE  Rank(s) \in Nat /\ 1 <= Rank(s)
<1>1. CASE s \in Plain({"content"}, {"response"})
  <2>1. Rank(s) = 1
    BY <1>1, PlainRank
  <2>2. QED  BY <2>1
<1>2. CASE \E i \in 1..n : s \in OneStep(i, placed)
  <2>1. PICK i \in 1..n : s \in OneStep(i, placed)
    BY <1>2
  <2>2. i \in Nat
    OBVIOUS
  <2>3. Rank(s) = i + 1
    BY <2>1, <2>2, OneRank
  <2>4. QED  BY <2>2, <2>3
<1>3. QED  BY <1>1, <1>2 DEF ContentStep

\* The objects of an answer come in order, after their array.
LEMMA ContentIn ==
    ASSUME NEW content \in Seq(ObjectData), NEW placed \in BOOLEAN,
           NEW q, q = ContentSteps(content, placed)
    PROVE  /\ q \in Seq(ContentStep(Len(content), placed)) /\ Sorted(q)
           /\ \A k \in DOMAIN q : 1 <= Rank(q[k])
<1> DEFINE n       == Len(content)
           T       == ContentStep(n, placed)
           each(i) == ObjectSteps(i, content[i]) \o When(placed, PlaceSteps(i))
           ss      == [i \in 1..n |-> each(i)]
           flat    == FlattenSeq(ss)
           C       == [i \in Nat |-> {p \in Seq(T) : /\ Sorted(p)
                                                     /\ \A k \in DOMAIN p : Rank(p[k]) <= i + 1}]
           own     == Try(Response("content"), "response")
<1>1. n \in Nat /\ \A i \in 1..n : i \in Nat /\ content[i] \in ObjectData
  OBVIOUS
<1>2. \A s \in T : Rank(s) \in Nat /\ 1 <= Rank(s)
  BY <1>1, ContentRank
<1>3. ASSUME NEW i \in 1..n PROVE each(i) \in Seq(OneStep(i, placed)) /\ OneStep(i, placed) \subseteq T
  <2>1. ObjectSteps(i, content[i]) \in Seq(ObjectStep(i))
    BY <1>1, ObjectIn
  <2>2. PlaceSteps(i) \in Seq(PlaceStep(i))
    BY <1>1, PlacesIn
  <2>3. ObjectStep(i) \subseteq OneStep(i, placed) /\ (placed => PlaceStep(i) \subseteq OneStep(i, placed))
    BY DEF OneStep
  <2>4. OneStep(i, placed) \subseteq T
    BY DEF ContentStep
  <2> HIDE DEF T
  <2>5. ObjectSteps(i, content[i]) \in Seq(OneStep(i, placed))
    BY <2>1, <2>3, MoreIn
  <2>6. placed => PlaceSteps(i) \in Seq(OneStep(i, placed))
    BY <2>2, <2>3, MoreIn
  <2>7. When(placed, PlaceSteps(i)) \in Seq(OneStep(i, placed))
    BY <2>6, WhenIn
  <2>8. QED  BY <2>4, <2>5, <2>7, CatIn
<1>4. own \in Seq(T) /\ Sorted(own) /\ \A k \in DOMAIN own : Rank(own[k]) = 1
  <2> DEFINE S == Plain({"content"}, {"response"})
  <2>1. S \subseteq T
    BY DEF ContentStep
  <2>2. \A s \in S : Rank(s) = 1
    BY Zenon, PlainRank
  <2>3. own \in Seq(S)
    <3>1. "content" \in {"content"} /\ "response" \in {"response"} /\ S \subseteq S
      OBVIOUS
    <3>2. QED  BY <3>1, PlainTry
  <2> HIDE DEF S, T, own
  <2>4. own \in Seq(T)
    BY <2>1, <2>3, MoreIn
  <2>5. 1 \in Nat
    OBVIOUS
  <2>6. QED  BY <2>2, <2>3, <2>4, <2>5, SameRank
<1>5. ContentSteps(content, placed) = When(content # <<>>, own \o flat)
  BY DEF ContentSteps, ForEach
<1> HIDE DEF T, each, own
<1>6. ASSUME NEW i \in Nat, NEW p
      PROVE  p \in C[i] <=> /\ p \in Seq(T) /\ Sorted(p)
                            /\ \A k \in DOMAIN p : Rank(p[k]) <= i + 1
  OBVIOUS
<1> HIDE DEF C
<1>7. <<>> \in C[0]
  <2>1. <<>> \in Seq(T) /\ DOMAIN <<>> = {}
    OBVIOUS
  <2>2. QED  BY <1>6, <2>1 DEF Sorted
<1>8. ss \in Seq(Seq(T)) /\ Len(ss) = n /\ \A i \in 1..n : ss[i] = each(i)
  <2>1. \A i \in 1..n : each(i) \in Seq(T)
    BY <1>3, MoreIn
  <2>2. QED  BY <1>1, <2>1
<1> HIDE DEF ss
<1>9. ASSUME NEW i \in 1..n, NEW a \in Seq(T), a \in C[i - 1]
      PROVE  a \o ss[i] \in C[i]
  <2> DEFINE b == ss[i]
  <2>1. i \in Nat /\ i - 1 \in Nat /\ i + 1 \in Nat /\ (i - 1) + 1 = i
    BY <1>1
  <2>2. b \in Seq(OneStep(i, placed)) /\ b \in Seq(T) /\ \A s \in OneStep(i, placed) : Rank(s) = i + 1
    BY <1>3, <1>8, <2>1, MoreIn, OneRank
  <2> HIDE DEF b
  <2>3. Sorted(b) /\ \A k \in DOMAIN b : Rank(b[k]) = i + 1
    BY <2>1, <2>2, SameRank
  <2>4. Sorted(a) /\ \A k \in DOMAIN a : Rank(a[k]) <= i
    <3> DEFINE h == i - 1
    <3>1. h \in Nat /\ h + 1 = i /\ a \in C[h]
      BY <1>9, <2>1
    <3> HIDE DEF h
    <3>2. Sorted(a) /\ \A k \in DOMAIN a : Rank(a[k]) <= h + 1
      BY Zenon, <1>6, <3>1
    <3>3. QED  BY <3>1, <3>2
  <2>5. \A k \in DOMAIN a : Rank(a[k]) <= i + 1
    <3>1. \A k \in DOMAIN a : Rank(a[k]) \in Nat
      BY <1>2, ElementIn
    <3>2. QED  BY <2>1, <2>4, <3>1
  <2>6. \A k \in DOMAIN b : i + 1 <= Rank(b[k])
    BY <2>1, <2>3
  <2>7. Sorted(a \o b)
    BY <1>2, <2>1, <2>2, <2>3, <2>4, <2>5, <2>6, SortedCat
  <2>8. \A k \in DOMAIN (a \o b) : Rank((a \o b)[k]) <= i + 1
    <3> DEFINE P == {s \in T : Rank(s) <= i + 1}
    <3>1. \A k \in DOMAIN a : a[k] \in P
      BY <2>5, ElementIn
    <3>2. \A k \in DOMAIN b : b[k] \in P
      <4>1. \A k \in DOMAIN b : b[k] \in T
        BY <2>2, ElementIn
      <4>2. \A k \in DOMAIN b : Rank(b[k]) <= i + 1
        BY <2>1, <2>3
      <4>3. QED  BY <4>1, <4>2
    <3> HIDE DEF P
    <3>3. \A k \in DOMAIN (a \o b) : (a \o b)[k] \in P
      BY <2>2, <3>1, <3>2, CatAll
    <3>4. QED  BY <3>3 DEF P
  <2>9. a \o b \in Seq(T)
    BY <2>2, CatIn
  <2>10. QED  BY <1>6, <2>1, <2>7, <2>8, <2>9 DEF b
<1>10. flat \in Seq(T) /\ flat \in C[n]
  BY <1>7, <1>8, <1>9, FlattenIn
<1>11. Sorted(flat)
  BY <1>1, <1>6, <1>10
<1> HIDE DEF flat
<1>12. own \o flat \in Seq(T) /\ Sorted(own \o flat)
  <2>1. \A k \in DOMAIN flat : 1 <= Rank(flat[k])
    BY <1>2, <1>10, ElementIn
  <2>2. 1 \in Nat /\ \A k \in DOMAIN own : Rank(own[k]) <= 1
    BY <1>4
  <2>3. QED  BY <1>2, <1>4, <1>10, <1>11, <2>1, <2>2, SortedCat, CatIn
<1>13. q \in Seq(T) /\ Sorted(q)
  <2>1. <<>> \in Seq(T) /\ Sorted(<<>>)
    BY DEF Sorted
  <2>2. QED  BY <1>5, <1>12, <2>1 DEF When
<1>14. \A k \in DOMAIN q : 1 <= Rank(q[k])
  BY <1>2, <1>13, ElementIn
<1>15. QED  BY <1>13, <1>14 DEF T

-----------------------------------------------------------------------------
(* The series of each kind of answer.                                       *)

LEMMA UpToIn ==
    ASSUME NEW n \in Nat, NEW S, NEW q \in UpTo(n, S)
    PROVE  q \in Seq(S)
<1>1. PICK k \in 0..n : q \in [1..k -> S]
  BY DEF UpTo
<1>2. QED  BY <1>1

GetStep ==
    Plain({"own", "vclock"}, {"abandon", "response"}) \cup ContentStep(Len(message.content), TRUE)
PutStep ==
    Plain({"own", "vclock", "key"}, {"abandon"}) \cup ContentStep(Len(message.content), FALSE)
SearchStep ==
    Plain({"own", "docs"}, {"abandon", "response"}) \cup Made("doc", Nat, {"fields"}, Parts, {"docs"})
ServerinfoStep == Plain({"own", "node", "server_version"}, {"abandon"})
ClientidStep   == Plain({"own", "client_id"}, {"abandon"})
BareStep       == Plain({"own"}, {"abandon"})

LEMMA ContentType ==
    ASSUME kind \in {"get", "put"}, message \in MessagesOf(kind)
    PROVE  message.content \in Seq(ObjectData)
<1>1. message.content \in UpTo(MaxObjects, Objects)
  BY DEF MessagesOf
<1>2. MaxObjects \in Nat /\ Objects \subseteq ObjectData
  BY AnswerAssumption DEF ObjectData
<1>3. message.content \in Seq(Objects)
  BY <1>1, <1>2, UpToIn
<1>4. QED  BY <1>2, <1>3, MoreIn

\* A few blocks of the response before what the message holds: in order.
LEMMA Headed ==
    ASSUME NEW names, "content" \notin names, NEW onfails, NEW n \in Nat, NEW placed \in BOOLEAN,
           NEW a \in Seq(Plain(names, onfails)),
           NEW b \in Seq(ContentStep(n, placed)), Sorted(b), \A k \in DOMAIN b : 1 <= Rank(b[k])
    PROVE  /\ a \o b \in Seq(Plain(names, onfails) \cup ContentStep(n, placed))
           /\ Sorted(a \o b)
<1> DEFINE P == Plain(names, onfails)
           T == ContentStep(n, placed)
           S == P \cup T
<1>1. \A s \in P : Rank(s) = 0
  BY PlainRank
<1>2. \A s \in T : Rank(s) \in Nat /\ 1 <= Rank(s)
  BY ContentRank
<1> HIDE DEF P, T
<1>3. \A s \in S : Rank(s) \in Nat
  BY <1>1, <1>2
<1>4. a \in Seq(P) /\ b \in Seq(T)
  BY DEF P, T
<1>5. 0 \in Nat
  OBVIOUS
<1>6. Sorted(a) /\ \A k \in DOMAIN a : Rank(a[k]) = 0
  BY <1>1, <1>4, <1>5, SameRank
<1>7. P \subseteq S /\ T \subseteq S
  OBVIOUS
<1> HIDE DEF S
<1>8. a \in Seq(S) /\ b \in Seq(S)
  BY <1>4, <1>7, MoreIn
<1>9. (\A k \in DOMAIN a : Rank(a[k]) <= 0) /\ (\A k \in DOMAIN b : 0 <= Rank(b[k]))
  <2>1. \A k \in DOMAIN b : Rank(b[k]) \in Nat
    BY <1>2, <1>4, ElementIn
  <2>2. QED  BY <1>6, <2>1
<1>10. Sorted(a \o b)
  BY <1>3, <1>5, <1>6, <1>8, <1>9, SortedCat
<1>11. a \o b \in Seq(S)
  BY <1>8, CatIn
<1>12. QED  BY <1>10, <1>11 DEF S, P, T

LEMMA GetIn ==
    ASSUME kind = "get", message \in MessagesOf(kind)
    PROVE  GetSteps \in Seq(GetStep) /\ Sorted(GetSteps)
<1> DEFINE names   == {"own", "vclock"}
           onfails == {"abandon", "response"}
           S    == Plain(names, onfails)
           own  == Try(Response("own"), "abandon")
           vc   == When(message.vclock, Try(Response("vclock"), "response"))
           rest == ContentSteps(message.content, TRUE)
           n    == Len(message.content)
<1>1. message.content \in Seq(ObjectData) /\ TRUE \in BOOLEAN
  BY ContentType
<1>2. rest \in Seq(ContentStep(n, TRUE)) /\ Sorted(rest) /\ \A k \in DOMAIN rest : 1 <= Rank(rest[k])
  BY <1>1, ContentIn
<1>3. n \in Nat
  BY <1>1
<1>4. "own" \in names /\ "vclock" \in names /\ "abandon" \in onfails /\ "response" \in onfails
      /\ "content" \notin names /\ S \subseteq S
  OBVIOUS
<1>5. own \in Seq(S) /\ Try(Response("vclock"), "response") \in Seq(S)
  <2> HIDE DEF names, onfails
  <2>1. QED  BY <1>4, PlainTry
<1> HIDE DEF S, own
<1>6. vc \in Seq(S)
  BY <1>5, WhenIn
<1> HIDE DEF vc
<1>7. own \o vc \in Seq(S)
  BY <1>5, <1>6, CatIn
<1>8. GetSteps = (own \o vc) \o rest
  BY DEF GetSteps, own, vc
<1> DEFINE a == own \o vc
<1>9. a \in Seq(Plain(names, onfails))
  BY <1>7 DEF S
<1> HIDE DEF a, rest, n, names, onfails
<1>10. /\ a \o rest \in Seq(Plain(names, onfails) \cup ContentStep(n, TRUE))
       /\ Sorted(a \o rest)
  BY <1>1, <1>2, <1>3, <1>4, <1>9, Headed
<1>11. QED  BY <1>8, <1>10 DEF GetStep, names, onfails, n, a

LEMMA PutIn ==
    ASSUME kind = "put", message \in MessagesOf(kind)
    PROVE  PutSteps \in Seq(PutStep) /\ Sorted(PutSteps)
<1> DEFINE names   == {"own", "vclock", "key"}
           onfails == {"abandon"}
           S    == Plain(names, onfails)
           own  == Try(Response("own"), "abandon")
           vc   == When(message.vclock, Try(Response("vclock"), "abandon"))
           key  == When(message.key, Try(Response("key"), "abandon"))
           rest == ContentSteps(message.content, FALSE)
           n    == Len(message.content)
<1>1. message.content \in Seq(ObjectData) /\ FALSE \in BOOLEAN
  BY ContentType
<1>2. rest \in Seq(ContentStep(n, FALSE)) /\ Sorted(rest) /\ \A k \in DOMAIN rest : 1 <= Rank(rest[k])
  BY <1>1, ContentIn
<1>3. n \in Nat
  BY <1>1
<1>4. "own" \in names /\ "vclock" \in names /\ "key" \in names /\ "abandon" \in onfails
      /\ "content" \notin names /\ S \subseteq S
  OBVIOUS
<1>5. /\ own \in Seq(S) /\ Try(Response("vclock"), "abandon") \in Seq(S)
      /\ Try(Response("key"), "abandon") \in Seq(S)
  <2> HIDE DEF names, onfails
  <2>1. QED  BY <1>4, PlainTry
<1> HIDE DEF S, own
<1>6. vc \in Seq(S) /\ key \in Seq(S)
  BY <1>5, WhenIn
<1> HIDE DEF vc, key
<1>7. own \o vc \o key \in Seq(S)
  BY <1>5, <1>6, CatIn
<1>8. PutSteps = (own \o vc \o key) \o rest
  BY DEF PutSteps, own, vc, key
<1> DEFINE a == own \o vc \o key
<1>9. a \in Seq(Plain(names, onfails))
  BY <1>7 DEF S
<1> HIDE DEF a, rest, n, names, onfails
<1>10. /\ a \o rest \in Seq(Plain(names, onfails) \cup ContentStep(n, FALSE))
       /\ Sorted(a \o rest)
  BY <1>1, <1>2, <1>3, <1>4, <1>9, Headed
<1>11. QED  BY <1>8, <1>10 DEF PutStep, names, onfails, n, a

LEMMA SearchIn ==
    ASSUME kind = "search", message \in MessagesOf(kind)
    PROVE  SearchSteps \in Seq(SearchStep)
<1> DEFINE names   == {"own", "docs"}
           onfails == {"abandon", "response"}
           D       == Made("doc", Nat, {"fields"}, Parts, {"docs"})
           S       == SearchStep
           n       == Len(message.docs)
           each(i) == PairSteps("doc", i, "fields", message.docs[i], "docs")
           ss      == [i \in 1..n |-> each(i)]
           own     == Try(Response("own"), "abandon")
           docs    == Try(Response("docs"), "response")
<1>1. n \in Nat /\ \A i \in 1..n : message.docs[i] \in Nat
  <2>1. message.docs \in UpTo(MaxObjects, Docs)
    BY DEF MessagesOf
  <2>2. MaxObjects \in Nat /\ Docs \subseteq Nat
    BY AnswerAssumption
  <2>3. message.docs \in Seq(Docs)
    BY <2>1, <2>2, UpToIn
  <2>4. message.docs \in Seq(Nat)
    BY <2>2, <2>3, MoreIn
  <2>5. QED  BY <2>4
<1>2. own \in Seq(S) /\ docs \in Seq(S)
  <2>1. "own" \in names /\ "docs" \in names /\ "abandon" \in onfails /\ "response" \in onfails
    OBVIOUS
  <2>2. Plain(names, onfails) \subseteq S
    BY DEF SearchStep
  <2> HIDE DEF names, onfails, S
  <2>3. QED  BY <2>1, <2>2, PlainTry
<1>3. ASSUME NEW i \in 1..n PROVE each(i) \in Seq(S)
  <2>1. ASSUME NEW j \in Nat, NEW p \in {"none", "pair", "key", "value"}
        PROVE  [block |-> <<"doc", i, "fields", j, p>>, onfail |-> "docs"] \in S
    <3>1. /\ i \in Nat /\ "fields" \in {"fields"} /\ "docs" \in {"docs"} /\ p \in Parts
      BY <1>1 DEF Parts
    <3>2. [block |-> <<"doc", i, "fields", j, p>>, onfail |-> "docs"] \in D
      BY Zenon, <2>1, <3>1, MadeIn
    <3>3. D \subseteq S
      BY DEF SearchStep
    <3> HIDE DEF D, S
    <3>4. QED  BY <3>2, <3>3
  <2>2. message.docs[i] \in Nat
    BY <1>1
  <2> HIDE DEF S
  <2>3. QED  BY <2>1, <2>2, PairsIn
<1>4. SearchSteps = own \o When(message.docs # <<>>, docs \o FlattenSeq(ss))
  BY DEF SearchSteps, ForEach
<1> HIDE DEF S, each, own, docs
<1>5. ss \in [1..n -> Seq(S)]
  BY <1>3
<1> HIDE DEF n
<1>6. FlattenSeq(ss) \in Seq(S)
  BY <1>1, <1>5, AllIn DEF n
<1> DEFINE flat == FlattenSeq(ss)
<1> HIDE DEF flat
<1>7. docs \o flat \in Seq(S)
  BY <1>2, <1>6, CatIn DEF flat
<1>8. When(message.docs # <<>>, docs \o flat) \in Seq(S)
  BY <1>7, WhenIn
<1>9. SearchSteps \in Seq(S)
  BY <1>2, <1>4, <1>8, CatIn DEF flat
<1>10. QED  BY <1>9 DEF S

\* Blocks of the response, any of which abandons it.
LEMMA AbandonIn ==
    ASSUME NEW names, NEW name \in names
    PROVE  Try(Response(name), "abandon") \in Seq(Plain(names, {"abandon"}))
<1>1. "abandon" \in {"abandon"} /\ Plain(names, {"abandon"}) \subseteq Plain(names, {"abandon"})
  OBVIOUS
<1>2. QED  BY <1>1, PlainTry

LEMMA ServerinfoIn == ServerinfoSteps \in Seq(ServerinfoStep)
<1> DEFINE names == {"own", "node", "server_version"}
           S     == Plain(names, {"abandon"})
           own   == Try(Response("own"), "abandon")
           node  == Try(Response("node"), "abandon")
           ver   == Try(Response("server_version"), "abandon")
<1>1. "own" \in names /\ "node" \in names /\ "server_version" \in names
  OBVIOUS
<1>2. own \in Seq(S) /\ node \in Seq(S) /\ ver \in Seq(S)
  <2> HIDE DEF names
  <2>1. QED  BY <1>1, AbandonIn
<1> HIDE DEF S, own, node, ver
<1>3. When(message.node, node) \in Seq(S) /\ When(message.server_version, ver) \in Seq(S)
  BY <1>2, WhenIn
<1>4. ServerinfoSteps \in Seq(S)
  BY <1>2, <1>3, CatIn DEF ServerinfoSteps, own, node, ver
<1>5. QED  BY <1>4 DEF ServerinfoStep, S

LEMMA ClientidIn == ClientidSteps \in Seq(ClientidStep)
<1> DEFINE names == {"own", "client_id"}
           S     == Plain(names, {"abandon"})
           own   == Try(Response("own"), "abandon")
           id    == Try(Response("client_id"), "abandon")
<1>1. "own" \in names /\ "client_id" \in names
  OBVIOUS
<1>2. own \in Seq(S) /\ id \in Seq(S)
  <2> HIDE DEF names
  <2>1. QED  BY <1>1, AbandonIn
<1> HIDE DEF S, own, id
<1>3. ClientidSteps \in Seq(S)
  BY <1>2, CatIn DEF ClientidSteps, own, id
<1>4. QED  BY <1>3 DEF ClientidStep, S

LEMMA BareIn == BareSteps \in Seq(BareStep)
<1>1. "own" \in {"own"}
  OBVIOUS
<1>2. QED  BY <1>1, AbandonIn DEF BareSteps, BareStep

-----------------------------------------------------------------------------
(* Bucket properties: a failure is ignored only where the message has no    *)
(* function, and then the decoder gives up at the function it misses.       *)

PropLists   == {"own", "precommit", "postcommit", "backend", "search_index", "chash_keyfun", "linkfun"}
PropMade    == Made("props", Nat, PropLists, Parts, {"props", "backend", "ignored", "followed"})
PropMissing == Made("props", Nat, PropLists, {"missing"}, {"props"})
PropsStep   == Plain({"own"}, {"abandon"}) \cup PropMade \cup PropMissing

Misses(q)  == \E k \in DOMAIN q : q[k].block[5] = "missing"
Careful(q) == \A k \in DOMAIN q : q[k].onfail # "ignored"
PropSeqs   == {q \in Seq(PropsStep) : Misses(q) \/ Careful(q)}

\* Series of properties stay so when they are put together.
LEMMA PropCat ==
    ASSUME NEW a \in PropSeqs, NEW b \in PropSeqs
    PROVE  a \o b \in PropSeqs
<1> DEFINE c == a \o b
           S == PropsStep
           m == Len(a)
           n == Len(b)
<1>1. a \in Seq(S) /\ b \in Seq(S)
  BY DEF PropSeqs
<1> HIDE DEF S
<1>2. /\ m \in Nat /\ n \in Nat /\ DOMAIN a = 1..m /\ DOMAIN b = 1..n /\ DOMAIN c = 1..(m + n)
      /\ \A k \in 1..m : k \in 1..(m + n) /\ c[k] = a[k]
      /\ \A k \in 1..n : m + k \in 1..(m + n) /\ c[m + k] = b[k]
      /\ \A k \in 1..(m + n) : k \in 1..m \/ (k - m \in 1..n /\ c[k] = b[k - m])
      /\ c \in Seq(S)
  BY <1>1
<1> HIDE DEF c, m, n
<1>3. CASE Misses(a)
  <2>1. PICK k \in DOMAIN a : a[k].block[5] = "missing"
    BY <1>3 DEF Misses
  <2>2. k \in DOMAIN c /\ c[k] = a[k]
    BY <1>2
  <2>3. Misses(c)
    BY Zenon, <2>1, <2>2 DEF Misses
  <2>4. QED  BY Zenon, <1>2, <2>3 DEF PropSeqs, S, c
<1>4. CASE Misses(b)
  <2>1. PICK k \in DOMAIN b : b[k].block[5] = "missing"
    BY <1>4 DEF Misses
  <2>2. m + k \in DOMAIN c /\ c[m + k] = b[k]
    BY <1>2
  <2>3. Misses(c)
    BY Zenon, <2>1, <2>2 DEF Misses
  <2>4. QED  BY Zenon, <1>2, <2>3 DEF PropSeqs, S, c
<1>5. CASE Careful(a) /\ Careful(b)
  <2>1. ASSUME NEW k \in DOMAIN c PROVE c[k].onfail # "ignored"
    <3>1. CASE k \in 1..m
      <4>1. k \in DOMAIN a /\ c[k] = a[k]
        BY <1>2, <3>1
      <4>2. QED  BY Zenon, <1>5, <4>1 DEF Careful
    <3>2. CASE k - m \in 1..n /\ c[k] = b[k - m]
      <4>1. k - m \in DOMAIN b
        BY <1>2, <3>2
      <4>2. QED  BY Zenon, <1>5, <3>2, <4>1 DEF Careful
    <3>3. QED  BY <1>2, <3>1, <3>2
  <2>2. Careful(c)
    BY Zenon, <2>1 DEF Careful
  <2>3. QED  BY Zenon, <1>2, <2>2 DEF PropSeqs, S, c
<1>6. (Misses(a) \/ Careful(a)) /\ (Misses(b) \/ Careful(b))
  BY Zenon DEF PropSeqs
<1>7. QED  BY <1>3, <1>4, <1>5, <1>6

LEMMA PropEmpty == <<>> \in PropSeqs
<1>1. <<>> \in Seq(PropsStep) /\ DOMAIN <<>> = {}
  OBVIOUS
<1>2. Careful(<<>>)
  BY <1>1 DEF Careful
<1>3. QED  BY Zenon, <1>1, <1>2 DEF PropSeqs

LEMMA PropWhen ==
    ASSUME NEW condition, NEW steps, condition => steps \in PropSeqs
    PROVE  When(condition, steps) \in PropSeqs
BY PropEmpty DEF When

LEMMA PropOne ==
    ASSUME NEW b, NEW onfail, onfail # "ignored", [block |-> b, onfail |-> onfail] \in PropsStep
    PROVE  Try(b, onfail) \in PropSeqs
<1> DEFINE s == [block |-> b, onfail |-> onfail]
           S == PropsStep
<1>1. s \in S /\ s.onfail # "ignored"
  OBVIOUS
<1> HIDE DEF S, s
<1>2. <<s>> \in Seq(S) /\ DOMAIN <<s>> = {1} /\ <<s>>[1] = s
  BY <1>1
<1>3. Careful(<<s>>)
  BY <1>1, <1>2 DEF Careful
<1>4. Try(b, onfail) = <<s>>
  BY DEF Try, s
<1>5. QED  BY Zenon, <1>2, <1>3, <1>4 DEF PropSeqs, S

LEMMA PropMadeIn ==
    ASSUME NEW i \in Nat, NEW list \in PropLists, NEW part \in Parts,
           NEW onfail \in {"props", "backend", "ignored", "followed"}
    PROVE  [block |-> <<"props", i, list, 0, part>>, onfail |-> onfail] \in PropsStep
<1>1. 0 \in Nat
  OBVIOUS
<1>2. [block |-> <<"props", i, list, 0, part>>, onfail |-> onfail] \in PropMade
  BY Zenon, <1>1, MadeIn DEF PropMade
<1>3. QED  BY Zenon, <1>2 DEF PropsStep

LEMMA PropTry ==
    ASSUME NEW i \in Nat, NEW list \in PropLists, NEW part \in Parts,
           NEW onfail \in {"props", "backend", "followed"}
    PROVE  Try(<<"props", i, list, 0, part>>, onfail) \in PropSeqs
<1>1. onfail \in {"props", "backend", "ignored", "followed"} /\ onfail # "ignored"
  OBVIOUS
<1>2. [block |-> <<"props", i, list, 0, part>>, onfail |-> onfail] \in PropsStep
  BY Zenon, <1>1, PropMadeIn
<1>3. QED  BY Zenon, <1>1, <1>2, PropOne

\* A function is there, and looked at, or missed, which ends the series.
LEMMA FunIn ==
    ASSUME NEW list \in PropLists, NEW i \in Nat, NEW present \in BOOLEAN
    PROVE  FunSteps(list, i, present) \in PropSeqs
<1> DEFINE fun == <<"props", i, list, 0, "fun">>
           S   == PropsStep
<1>0. "fun" \in Parts /\ "module" \in Parts /\ "function" \in Parts
  BY DEF Parts
<1>1. CASE present
  <2> DEFINE a == Try(fun, "followed")
             b == Try(<<"props", i, list, 0, "module">>, "props")
             c == Try(<<"props", i, list, 0, "function">>, "props")
  <2>1. a \in PropSeqs /\ b \in PropSeqs /\ c \in PropSeqs
    <3>1. /\ "followed" \in {"props", "backend", "followed"}
          /\ "props" \in {"props", "backend", "followed"}
      OBVIOUS
    <3>2. QED  BY Zenon, <1>0, <3>1, PropTry
  <2>2. FunSteps(list, i, present) = a \o (b \o c)
    BY Zenon, <1>1 DEF FunSteps
  <2> HIDE DEF a, b, c
  <2>3. b \o c \in PropSeqs
    BY Zenon, <2>1, PropCat
  <2>4. QED  BY Zenon, <2>1, <2>2, <2>3, PropCat
<1>2. CASE ~present
  <2> DEFINE s == [block |-> fun, onfail |-> "ignored"]
             t == [block |-> <<"props", i, list, 0, "missing">>, onfail |-> "props"]
  <2>1. s \in S
    <3>1. "ignored" \in {"props", "backend", "ignored", "followed"}
      OBVIOUS
    <3>2. QED  BY Zenon, <1>0, <3>1, PropMadeIn
  <2>2. t \in S
    <3>1. 0 \in Nat /\ "missing" \in {"missing"} /\ "props" \in {"props"}
      OBVIOUS
    <3>2. t \in PropMissing
      BY Zenon, <3>1, MadeIn DEF PropMissing
    <3>3. QED  BY Zenon, <3>2 DEF PropsStep
  <2>3. t.block[5] = "missing"
    OBVIOUS
  <2>4. FunSteps(list, i, present) = Try(fun, "ignored") \o Try(t.block, "props")
    BY <1>2 DEF FunSteps
  <2>5. Try(fun, "ignored") = <<s>> /\ Try(t.block, "props") = <<t>>
    BY DEF Try
  <2> HIDE DEF s, t, S, fun
  <2> DEFINE q == <<s>> \o <<t>>
  <2>6. q \in Seq(S) /\ 2 \in DOMAIN q /\ q[2] = t
    BY <2>1, <2>2
  <2> HIDE DEF q
  <2>7. Misses(q)
    BY Zenon, <2>3, <2>6 DEF Misses
  <2>8. q \in PropSeqs
    BY Zenon, <2>6, <2>7 DEF PropSeqs, S
  <2>9. QED  BY Zenon, <2>4, <2>5, <2>8 DEF q
<1>3. QED  BY <1>1, <1>2

HookData == [name : BOOLEAN, modfun : BOOLEAN]

LEMMA HooksIn ==
    ASSUME NEW list \in PropLists, NEW hooks \in Seq(HookData)
    PROVE  HookSteps(list, hooks) \in PropSeqs
<1> DEFINE n       == Len(hooks)
           each(i) == Try(<<"props", i, list, 0, "hook">>, "props") \o
                      When(hooks[i].name, Try(<<"props", i, list, 0, "name">>, "props")) \o
                      FunSteps(list, i, hooks[i].modfun)
           ss      == [i \in 1..n |-> each(i)]
           own     == Try(Block("props", 0, list), "props")
<1>1. "none" \in Parts /\ "hook" \in Parts /\ "name" \in Parts
      /\ "props" \in {"props", "backend", "followed"}
  BY DEF Parts
<1>2. n \in Nat /\ \A i \in 1..n : i \in Nat /\ hooks[i].modfun \in BOOLEAN
  <2>1. n \in Nat /\ \A i \in 1..n : i \in Nat /\ hooks[i] \in HookData
    OBVIOUS
  <2>2. \A h \in HookData : h.modfun \in BOOLEAN
    BY DEF HookData
  <2>3. QED  BY <2>1, <2>2
<1>3. own \in PropSeqs
  <2>1. 0 \in Nat
    OBVIOUS
  <2>2. QED  BY Zenon, <1>1, <2>1, PropTry DEF Block
<1>4. ASSUME NEW i \in 1..n PROVE each(i) \in PropSeqs
  <2> DEFINE a == Try(<<"props", i, list, 0, "hook">>, "props")
             b == Try(<<"props", i, list, 0, "name">>, "props")
             c == FunSteps(list, i, hooks[i].modfun)
  <2>1. a \in PropSeqs /\ b \in PropSeqs
    BY Zenon, <1>1, <1>2, PropTry
  <2>2. c \in PropSeqs
    BY Zenon, <1>2, FunIn
  <2> HIDE DEF a, b, c
  <2>3. When(hooks[i].name, b) \in PropSeqs
    BY Zenon, <2>1, PropWhen
  <2>4. a \o When(hooks[i].name, b) \o c \in PropSeqs
    BY Zenon, <2>1, <2>2, <2>3, PropCat
  <2>5. QED  BY Zenon, <2>4 DEF a, b, c
<1>5. HookSteps(list, hooks) = own \o FlattenSeq(ss)
  BY DEF HookSteps, ForEach
<1> HIDE DEF own, each
<1>6. ss \in [1..n -> PropSeqs]
  <2> HIDE DEF n
  <2>1. QED  BY ONLY <1>4
<1> HIDE DEF n, ss
<1>7. FlattenSeq(ss) \in PropSeqs
  <2> DEFINE S == PropsStep
  <2>1. PropSeqs \subseteq Seq(S)
    BY DEF PropSeqs
  <2> HIDE DEF S
  <2>2. QED  BY Zenon, <1>2, <1>6, <2>1, PropEmpty, PropCat, SeriesIn
<1>8. QED  BY Zenon, <1>3, <1>5, <1>7, PropCat

LEMMA PropsIn ==
    ASSUME kind = "get_bucketprops", message \in MessagesOf(kind)
    PROVE  PropsSteps \in PropSeqs
<1> DEFINE own   == Try(Response("own"), "abandon")
           mine  == Try(Block("props", 0, "own"), "props")
           pre   == When(message.precommit # <<>>, HookSteps("precommit", message.precommit))
           post  == When(message.postcommit # <<>>, HookSteps("postcommit", message.postcommit))
           back  == When(message.backend, Try(Block("props", 0, "backend"), "backend"))
           index == When(message.search_index, Try(Block("props", 0, "search_index"), "backend"))
           fun   == FunSteps("chash_keyfun", 0, message.chash_keyfun)
           link  == FunSteps("linkfun", 0, message.linkfun)
<1>1. /\ message.precommit \in UpTo(1, Hooks) /\ message.postcommit \in UpTo(MaxObjects, Hooks)
      /\ message.chash_keyfun \in BOOLEAN /\ message.linkfun \in BOOLEAN
  BY DEF MessagesOf
<1>2. message.precommit \in Seq(HookData) /\ message.postcommit \in Seq(HookData)
  <2>1. MaxObjects \in Nat /\ 1 \in Nat /\ Hooks \subseteq HookData
    BY AnswerAssumption DEF HookData
  <2>2. message.precommit \in Seq(Hooks) /\ message.postcommit \in Seq(Hooks)
    BY <1>1, <2>1, UpToIn
  <2>3. QED  BY <2>1, <2>2, MoreIn
<1>3. /\ "own" \in PropLists /\ "precommit" \in PropLists /\ "postcommit" \in PropLists
      /\ "backend" \in PropLists /\ "search_index" \in PropLists
      /\ "chash_keyfun" \in PropLists /\ "linkfun" \in PropLists
      /\ "none" \in Parts /\ 0 \in Nat
      /\ "props" \in {"props", "backend", "followed"} /\ "backend" \in {"props", "backend", "followed"}
  BY DEF PropLists, Parts
<1>4. own \in PropSeqs
  <2>1. "own" \in {"own"} /\ "abandon" \in {"abandon"} /\ "abandon" # "ignored"
    OBVIOUS
  <2>2. [block |-> Response("own"), onfail |-> "abandon"] \in PropsStep
    BY <2>1 DEF PropsStep, Plain
  <2>3. QED  BY Zenon, <2>1, <2>2, PropOne
<1>5. mine \in PropSeqs
  BY Zenon, <1>3, PropTry DEF Block
<1>6. pre \in PropSeqs /\ post \in PropSeqs
  BY Zenon, <1>2, <1>3, HooksIn, PropWhen
<1>7. back \in PropSeqs /\ index \in PropSeqs
  BY Zenon, <1>3, PropTry, PropWhen DEF Block
<1>8. fun \in PropSeqs /\ link \in PropSeqs
  BY Zenon, <1>1, <1>3, FunIn
<1>9. PropsSteps = own \o mine \o pre \o post \o back \o index \o fun \o link
  BY Zenon DEF PropsSteps
<1> HIDE DEF own, mine, pre, post, back, index, fun, link
<1>10. own \o mine \o pre \o post \o back \o index \o fun \o link \in PropSeqs
  BY Zenon, <1>4, <1>5, <1>6, <1>7, <1>8, PropCat
<1>11. QED  BY <1>9, <1>10

-----------------------------------------------------------------------------
(* What all the series have in common.                                      *)

ObjectBlock(b) == b[1] = "object" /\ b[2] \in 1..Len(message.content) /\ b[3] \in ObjectFreed

\* What the free of a kind of response gets at.
Owned(b) ==
    CASE kind = "get" -> b \in {Response("own"), Response("vclock"), Response("content")} \/ ObjectBlock(b)
      [] kind = "put" -> \/ b \in {Response("own"), Response("key"), Response("vclock"), Response("content")}
                         \/ ObjectBlock(b)
      [] kind = "search"          -> b \in {Response("own"), Response("docs")} \/ b[1] = "doc"
      [] kind = "get_bucketprops" -> b = Response("own") \/ b[1] = "props"
      [] kind = "serverinfo"      -> b \in {Response("own"), Response("node"), Response("server_version")}
      [] kind = "get_clientid"    -> b \in {Response("own"), Response("client_id")}
      [] OTHER                    -> b = Response("own")

\* A copy of the place of an object, of which a get may be short.
Spare(b) == kind = "get" /\ b[1] = "object" /\ b[3] \in {"bucket", "bucket_type", "key"}

\* Where a get or a put gives up.
InOrder(s) ==
    \/ s.onfail = "abandon" /\ Rank(s) = 0
    \/ s.onfail = "response" /\ (Rank(s) = 0 \/ (Rank(s) = 1 /\ s.block = Response("content")))
    \/ s.onfail \in {"object", "lists"} /\ s.block[2] \in Nat /\ Rank(s) = s.block[2] + 1
    \/ s.onfail \in {"followed", "ignored"} /\ Rank(s) \in Nat

Regular(s) ==
    /\ Owned(s.block)
    /\ s.block[5] = "missing" => s.onfail = "props"
    /\ s.onfail \in {"props", "backend"} => kind = "get_bucketprops"
    /\ s.onfail = "ignored" => kind = "get_bucketprops" \/ Spare(s.block)
    /\ kind \in {"get", "put"} => InOrder(s)

WellMade ==
    /\ Len(StepsOf) \in Nat /\ DOMAIN StepsOf = 1..Len(StepsOf)
    /\ \A k \in DOMAIN StepsOf : Regular(StepsOf[k])
    /\ kind \in {"get", "put"} => Sorted(StepsOf)
    /\ kind = "get_bucketprops" => Misses(StepsOf) \/ Careful(StepsOf)

\* A block of the response itself, known by its name.
LEMMA PlainRegular ==
    ASSUME NEW names, NEW onfails, NEW s \in Plain(names, onfails),
           \A name \in names : Owned(Response(name)),
           onfails \subseteq {"abandon", "response"},
           kind \in {"get", "put"} => "content" \notin names
    PROVE  Regular(s)
<1>1. /\ s.onfail \in onfails /\ s.block[5] = "none"
      /\ \E name \in names : s.block = Response(name)
  BY PlainFields
<1>2. Owned(s.block)
  BY <1>1
<1>3. kind \in {"get", "put"} => Rank(s) = 0
  BY PlainRank
<1>4. s.onfail \in {"abandon", "response"}
  BY <1>1
<1> HIDE DEF Owned
<1>5. s.onfail \notin {"props", "backend"} /\ s.onfail # "ignored" /\ s.block[5] # "missing"
  BY <1>1, <1>4
<1>6. kind \in {"get", "put"} => InOrder(s)
  BY <1>3, <1>4 DEF InOrder
<1>7. QED  BY Zenon, <1>2, <1>5, <1>6 DEF Regular

\* The array of objects and what is in it.
LEMMA ContentRegular ==
    ASSUME kind \in {"get", "put"}, NEW placed \in BOOLEAN, placed => kind = "get",
           Len(message.content) \in Nat, NEW s \in ContentStep(Len(message.content), placed)
    PROVE  Regular(s)
<1> DEFINE n == Len(message.content)
<1>1. CASE s \in Plain({"content"}, {"response"})
  <2>1. s.onfail \in {"response"} /\ s.block[5] = "none"
    BY <1>1, PlainFields
  <2>2. Rank(s) = 1 /\ s.block = Response("content")
    BY <1>1, PlainRank
  <2>3. Owned(s.block)
    BY <2>2 DEF Owned
  <2>4. InOrder(s)
    BY <2>1, <2>2 DEF InOrder
  <2>5. QED  BY <2>1, <2>3, <2>4 DEF Regular
<1>2. CASE \E i \in 1..n : s \in OneStep(i, placed)
  <2>1. PICK i \in 1..n : s \in OneStep(i, placed)
    BY <1>2
  <2>2. i \in Nat
    OBVIOUS
  <2>3. /\ Rank(s) = i + 1
        /\ s.block[1] = "object" /\ s.block[2] = i /\ s.block[3] \in ObjectFreed
        /\ s.block[5] # "missing"
        /\ \/ s.onfail \in {"object", "lists", "followed"}
           \/ /\ s.onfail = "ignored" /\ placed
              /\ s.block[3] \in {"bucket", "bucket_type", "key"}
    BY <2>1, <2>2, OneRank
  <2>4. Owned(s.block)
    <3>1. ObjectBlock(s.block)
      BY <2>3 DEF ObjectBlock
    <3>2. QED  BY <3>1 DEF Owned
  <2>5. InOrder(s)
    <3>1. i + 1 \in Nat
      BY <2>2
    <3>2. QED  BY <2>2, <2>3, <3>1 DEF InOrder
  <2>6. s.onfail = "ignored" => Spare(s.block)
    BY <2>3 DEF Spare
  <2>7. s.onfail \notin {"props", "backend"}
    BY <2>3
  <2>8. QED  BY Zenon, <2>3, <2>4, <2>5, <2>6, <2>7 DEF Regular
<1>3. QED  BY <1>1, <1>2 DEF ContentStep

LEMMA GetRegular ==
    ASSUME kind = "get", Len(message.content) \in Nat, NEW s \in GetStep
    PROVE  Regular(s)
<1> DEFINE names   == {"own", "vclock"}
           onfails == {"abandon", "response"}
<1>1. CASE s \in Plain(names, onfails)
  <2>1. \A name \in names : Owned(Response(name))
    BY DEF Owned
  <2>2. onfails \subseteq {"abandon", "response"} /\ "content" \notin names
    OBVIOUS
  <2> HIDE DEF names, onfails
  <2>3. QED  BY ONLY <1>1, <2>1, <2>2, PlainRegular
<1>2. CASE s \in ContentStep(Len(message.content), TRUE)
  <2>1. TRUE \in BOOLEAN /\ kind \in {"get", "put"}
    OBVIOUS
  <2>2. QED  BY Zenon, <1>2, <2>1, ContentRegular
<1>3. QED  BY <1>1, <1>2 DEF GetStep

LEMMA PutRegular ==
    ASSUME kind = "put", Len(message.content) \in Nat, NEW s \in PutStep
    PROVE  Regular(s)
<1> DEFINE names   == {"own", "vclock", "key"}
           onfails == {"abandon"}
<1>1. CASE s \in Plain(names, onfails)
  <2>1. \A name \in names : Owned(Response(name))
    BY DEF Owned
  <2>2. onfails \subseteq {"abandon", "response"} /\ "content" \notin names
    OBVIOUS
  <2> HIDE DEF names, onfails
  <2>3. QED  BY ONLY <1>1, <2>1, <2>2, PlainRegular
<1>2. CASE s \in ContentStep(Len(message.content), FALSE)
  <2>1. FALSE \in BOOLEAN /\ kind \in {"get", "put"} /\ ~FALSE
    OBVIOUS
  <2>2. QED  BY Zenon, <1>2, <2>1, ContentRegular
<1>3. QED  BY <1>1, <1>2 DEF PutStep

LEMMA SearchRegular ==
    ASSUME kind = "search", NEW s \in SearchStep
    PROVE  Regular(s)
<1> DEFINE names   == {"own", "docs"}
           onfails == {"abandon", "response"}
<1>1. CASE s \in Plain(names, onfails)
  <2>1. \A name \in names : Owned(Response(name))
    BY DEF Owned
  <2>2. onfails \subseteq {"abandon", "response"} /\ kind \notin {"get", "put"}
    OBVIOUS
  <2> HIDE DEF names, onfails
  <2>3. QED  BY ONLY <1>1, <2>1, <2>2, PlainRegular
<1>2. CASE s \in Made("doc", Nat, {"fields"}, Parts, {"docs"})
  <2>1. s.block[1] = "doc" /\ s.block[5] \in Parts /\ s.onfail \in {"docs"}
    BY ONLY <1>2, MadeFields
  <2>2. s.block[5] # "missing"
    BY Zenon, <2>1, PartsThere
  <2>3. Owned(s.block)
    BY <2>1 DEF Owned
  <2>4. QED  BY <2>1, <2>2, <2>3 DEF Regular
<1>3. QED  BY <1>1, <1>2 DEF SearchStep

\* The answers that have nothing but blocks of their own.
LEMMA AbandonRegular ==
    ASSUME NEW names, NEW s \in Plain(names, {"abandon"}), kind \notin {"get", "put"},
           \A name \in names : Owned(Response(name))
    PROVE  Regular(s)
<1> DEFINE onfails == {"abandon"}
<1>1. onfails \subseteq {"abandon", "response"} /\ s \in Plain(names, onfails)
  OBVIOUS
<1> HIDE DEF onfails
<1>2. QED  BY <1>1, PlainRegular

LEMMA ServerinfoRegular ==
    ASSUME kind = "serverinfo", NEW s \in ServerinfoStep
    PROVE  Regular(s)
<1> DEFINE names == {"own", "node", "server_version"}
<1>1. (\A name \in names : Owned(Response(name))) /\ kind \notin {"get", "put"}
  BY DEF Owned
<1>2. s \in Plain(names, {"abandon"})
  BY DEF ServerinfoStep
<1> HIDE DEF names
<1>3. QED  BY ONLY <1>1, <1>2, AbandonRegular

LEMMA ClientidRegular ==
    ASSUME kind = "get_clientid", NEW s \in ClientidStep
    PROVE  Regular(s)
<1> DEFINE names == {"own", "client_id"}
<1>1. (\A name \in names : Owned(Response(name))) /\ kind \notin {"get", "put"}
  BY DEF Owned
<1>2. s \in Plain(names, {"abandon"})
  BY DEF ClientidStep
<1> HIDE DEF names
<1>3. QED  BY ONLY <1>1, <1>2, AbandonRegular

LEMMA BareRegular ==
    ASSUME Bare, NEW s \in BareStep
    PROVE  Regular(s)
<1> DEFINE names == {"own"}
<1>1. (\A name \in names : Owned(Response(name))) /\ kind \notin {"get", "put"}
  BY DEF Owned, Bare
<1>2. s \in Plain(names, {"abandon"})
  BY DEF BareStep
<1> HIDE DEF names
<1>3. QED  BY ONLY <1>1, <1>2, AbandonRegular

LEMMA PropsRegular ==
    ASSUME kind = "get_bucketprops", NEW s \in PropsStep
    PROVE  Regular(s)
<1>1. CASE s \in Plain({"own"}, {"abandon"})
  <2> DEFINE names == {"own"}
  <2>1. (\A name \in names : Owned(Response(name))) /\ kind \notin {"get", "put"}
    BY DEF Owned
  <2>2. s \in Plain(names, {"abandon"})
    BY <1>1
  <2> HIDE DEF names
  <2>3. QED  BY ONLY <2>1, <2>2, AbandonRegular
<1>2. CASE s \in PropMade
  <2>1. s.block[1] = "props" /\ s.block[5] \in Parts
    <3>1. s \in Made("props", Nat, PropLists, Parts, {"props", "backend", "ignored", "followed"})
      BY <1>2 DEF PropMade
    <3>2. QED  BY ONLY <3>1, MadeFields
  <2>2. s.block[5] # "missing"
    BY Zenon, <2>1, PartsThere
  <2>3. Owned(s.block)
    BY <2>1 DEF Owned
  <2>4. QED  BY <2>2, <2>3 DEF Regular
<1>3. CASE s \in PropMissing
  <2>1. s.block[1] = "props" /\ s.onfail \in {"props"}
    <3>1. s \in Made("props", Nat, PropLists, {"missing"}, {"props"})
      BY <1>3 DEF PropMissing
    <3>2. QED  BY ONLY <3>1, MadeFields
  <2>2. Owned(s.block)
    BY <2>1 DEF Owned
  <2>3. QED  BY <2>1, <2>2 DEF Regular
<1>4. QED  BY <1>1, <1>2, <1>3 DEF PropsStep

\* Elements of a series drawn from a set.
LEMMA SeriesAll ==
    ASSUME NEW S, NEW q \in Seq(S), \A s \in S : Regular(s)
    PROVE  /\ Len(q) \in Nat /\ DOMAIN q = 1..Len(q)
           /\ \A k \in DOMAIN q : Regular(q[k])
<1>1. \A k \in DOMAIN q : q[k] \in S
  BY ElementIn
<1>2. Len(q) \in Nat /\ DOMAIN q = 1..Len(q)
  OBVIOUS
<1>3. QED  BY Zenon, <1>1, <1>2

\* The series of every kind of answer.
LEMMA StepsAreMade ==
    ASSUME message \in MessagesOf(kind)
    PROVE  WellMade
<1>1. CASE kind = "get"
  <2>1. StepsOf = GetSteps
    BY <1>1 DEF StepsOf
  <2>2. GetSteps \in Seq(GetStep) /\ Sorted(GetSteps)
    BY <1>1, GetIn
  <2>3. Len(message.content) \in Nat
    <3>1. message.content \in Seq(ObjectData)
      BY <1>1, ContentType
    <3>2. QED  BY <3>1
  <2>4. \A s \in GetStep : Regular(s)
    BY Zenon, <1>1, <2>3, GetRegular
  <2>5. /\ Len(GetSteps) \in Nat /\ DOMAIN GetSteps = 1..Len(GetSteps)
        /\ \A k \in DOMAIN GetSteps : Regular(GetSteps[k])
    BY Zenon, <2>2, <2>4, SeriesAll
  <2>6. kind # "get_bucketprops"
    BY <1>1
  <2>7. QED  BY Zenon, <2>1, <2>2, <2>5, <2>6 DEF WellMade
<1>2. CASE kind = "put"
  <2>1. StepsOf = PutSteps
    BY <1>2 DEF StepsOf
  <2>2. PutSteps \in Seq(PutStep) /\ Sorted(PutSteps)
    BY <1>2, PutIn
  <2>3. Len(message.content) \in Nat
    <3>1. message.content \in Seq(ObjectData)
      BY <1>2, ContentType
    <3>2. QED  BY <3>1
  <2>4. \A s \in PutStep : Regular(s)
    BY Zenon, <1>2, <2>3, PutRegular
  <2>5. /\ Len(PutSteps) \in Nat /\ DOMAIN PutSteps = 1..Len(PutSteps)
        /\ \A k \in DOMAIN PutSteps : Regular(PutSteps[k])
    BY Zenon, <2>2, <2>4, SeriesAll
  <2>6. kind # "get_bucketprops"
    BY <1>2
  <2>7. QED  BY Zenon, <2>1, <2>2, <2>5, <2>6 DEF WellMade
<1>3. CASE kind = "get_bucketprops"
  <2>1. StepsOf = PropsSteps
    BY <1>3 DEF StepsOf
  <2>2. PropsSteps \in Seq(PropsStep) /\ (Misses(PropsSteps) \/ Careful(PropsSteps))
    BY Zenon, <1>3, PropsIn DEF PropSeqs
  <2>3. \A s \in PropsStep : Regular(s)
    BY Zenon, <1>3, PropsRegular
  <2>4. /\ Len(PropsSteps) \in Nat /\ DOMAIN PropsSteps = 1..Len(PropsSteps)
        /\ \A k \in DOMAIN PropsSteps : Regular(PropsSteps[k])
    BY Zenon, <2>2, <2>3, SeriesAll
  <2>5. kind \notin {"get", "put"}
    BY <1>3
  <2>6. QED  BY Zenon, <2>1, <2>2, <2>4, <2>5 DEF WellMade
<1>4. ASSUME NEW S, StepsOf \in Seq(S), \A s \in S : Regular(s),
             kind \notin {"get", "put", "get_bucketprops"}
      PROVE  WellMade
  <2>1. /\ Len(StepsOf) \in Nat /\ DOMAIN StepsOf = 1..Len(StepsOf)
        /\ \A k \in DOMAIN StepsOf : Regular(StepsOf[k])
    BY Zenon, <1>4, SeriesAll
  <2>2. kind \notin {"get", "put"} /\ kind # "get_bucketprops"
    BY <1>4
  <2>3. QED  BY Zenon, <2>1, <2>2 DEF WellMade
<1>5. CASE kind = "search"
  <2>1. StepsOf = SearchSteps /\ kind \notin {"get", "put", "get_bucketprops"}
    BY <1>5 DEF StepsOf
  <2>2. StepsOf \in Seq(SearchStep)
    BY Zenon, <1>5, <2>1, SearchIn
  <2>3. \A s \in SearchStep : Regular(s)
    BY Zenon, <1>5, SearchRegular
  <2>4. QED  BY Zenon, <1>4, <2>1, <2>2, <2>3
<1>6. CASE kind = "serverinfo"
  <2>1. StepsOf = ServerinfoSteps /\ kind \notin {"get", "put", "get_bucketprops"}
    BY <1>6 DEF StepsOf
  <2>2. StepsOf \in Seq(ServerinfoStep)
    BY Zenon, <2>1, ServerinfoIn
  <2>3. \A s \in ServerinfoStep : Regular(s)
    BY Zenon, <1>6, ServerinfoRegular
  <2>4. QED  BY Zenon, <1>4, <2>1, <2>2, <2>3
<1>7. CASE kind = "get_clientid"
  <2>1. StepsOf = ClientidSteps /\ kind \notin {"get", "put", "get_bucketprops"}
    BY <1>7 DEF StepsOf
  <2>2. StepsOf \in Seq(ClientidStep)
    BY Zenon, <2>1, ClientidIn
  <2>3. \A s \in ClientidStep : Regular(s)
    BY Zenon, <1>7, ClientidRegular
  <2>4. QED  BY Zenon, <1>4, <2>1, <2>2, <2>3
<1>8. CASE Bare
  <2>1. StepsOf = BareSteps /\ kind \notin {"get", "put", "get_bucketprops"}
    BY <1>8 DEF StepsOf, Bare
  <2>2. StepsOf \in Seq(BareStep)
    BY Zenon, <2>1, BareIn
  <2>3. \A s \in BareStep : Regular(s)
    BY Zenon, <1>8, BareRegular
  <2>4. QED  BY Zenon, <1>4, <2>1, <2>2, <2>3
<1>9. QED  BY <1>1, <1>2, <1>3, <1>5, <1>6, <1>7, <1>8 DEF Bare

-----------------------------------------------------------------------------
(* Decoding.                                                                *)

\* The series depends on the call and the message only.
LEMMA Same ==
    ASSUME UNCHANGED <<kind, typed, message>>
    PROVE  StepsOf' = StepsOf
BY DEF StepsOf, GetSteps, PutSteps, SearchSteps, PropsSteps, ServerinfoSteps, ClientidSteps, BareSteps,
       ContentSteps, PlaceSteps, ForEach, When, HookSteps

LEMMA BlocksAre ==
    ASSUME NEW b
    PROVE  b \in Blocks(StepsOf) <=> \E k \in DOMAIN StepsOf : b = StepsOf[k].block
BY DEF Blocks, ToSet

\* Decoding stops at the first failure that is not ignored.
LEMMA StopFacts ==
    ASSUME WellMade, NEW k, k = StopsAt(StepsOf)
    PROVE  \/ k = 0 /\ \A j \in DOMAIN StepsOf : Fails(StepsOf[j]) => StepsOf[j].onfail = "ignored"
           \/ /\ k \in DOMAIN StepsOf /\ k # 0
              /\ Fails(StepsOf[k]) /\ StepsOf[k].onfail # "ignored"
<1> DEFINE stops == {j \in DOMAIN StepsOf : Fails(StepsOf[j]) /\ StepsOf[j].onfail # "ignored"}
<1>1. k = IF stops = {} THEN 0 ELSE CHOOSE j \in stops : \A l \in stops : j <= l
  BY Zenon DEF StopsAt
<1>2. DOMAIN StepsOf \subseteq Nat \ {0}
  BY DEF WellMade
<1>3. CASE stops = {}
  BY <1>1, <1>3
<1>4. CASE stops # {}
  <2>1. \E x \in stops : \A l \in stops : x <= l
    <3>1. stops \subseteq Nat
      BY <1>2
    <3> HIDE DEF stops
    <3>2. QED  BY <1>4, <3>1, Least
  <2>2. k \in stops
    <3> HIDE DEF stops
    <3>1. QED  BY <1>1, <1>4, <2>1
  <2>3. QED  BY <1>2, <2>2
<1>5. QED  BY <1>3, <1>4

LEMMA MadeFacts ==
    ASSUME NEW n, NEW b
    PROVE  b \in MadeBefore(StepsOf, n) <=>
             \/ b \in Allocated
             \/ \E j \in 1..n : ~Fails(StepsOf[j]) /\ b = StepsOf[j].block
BY DEF MadeBefore

\* Every block is the response's.
LEMMA BlocksOwned ==
    ASSUME WellMade, NEW b \in Blocks(StepsOf)
    PROVE  Owned(b)
<1>1. PICK k \in DOMAIN StepsOf : b = StepsOf[k].block
  BY BlocksAre
<1>2. Regular(StepsOf[k])
  BY Zenon DEF WellMade
<1>3. QED  BY Zenon, <1>1, <1>2 DEF Regular

AInv ==
    /\ TypeOK
    /\ live \subseteq Allocated \cup Blocks(StepsOf)
    /\ status = "waiting" => live = {}
    /\ AllOrNothing /\ OkMeansResponse /\ NothingLeft /\ OneObjectLost /\ Guarded

\* What decoding leaves: memory of the answer, and a response that is whole or none.
LEMMA Decoded ==
    ASSUME AInv, status = "waiting", short' \in Shortages(Blocks(StepsOf)),
           UNCHANGED <<kind, typed, message>>,
           live' \subseteq Allocated \cup Blocks(StepsOf),
           handed' \in BOOLEAN, handed' => status' = "ok",
           status' \in {"ok", "error", "crashed"},
           handed' => /\ Bare \/ Message \in live'
                      /\ \A b \in Blocks(StepsOf) : b \in live' \/ Spare(b),
           (status' = "ok" /\ kind # "get_bucketprops") => handed',
           (status' = "error" /\ kind \in {"get", "put"}) =>
                /\ Response("content") \notin live'
                /\ \A b, c \in live' : b[1] = "object" /\ c[1] = "object" => b[2] = c[2],
           status' = "crashed" => short' # {}
    PROVE  AInv'
<1>1. StepsOf' = StepsOf
  BY Same
<1> DEFINE B == Blocks(StepsOf)
<1>2. Blocks(StepsOf)' = B
  BY <1>1 DEF Blocks
<1>3. short' \subseteq B
  <2>1. PICK q \in UpTo(MaxShort, B) : short' = ToSet(q)
    BY DEF Shortages
  <2> HIDE DEF B
  <2>2. q \in Seq(B)
    BY AnswerAssumption, UpToIn
  <2>3. QED  BY <2>1, <2>2 DEF ToSet
<1>4. Allocated' = Allocated /\ Allocated \subseteq {Message}
  BY DEF Allocated, Bare
<1>5. kind' = kind /\ typed' = typed /\ message' = message
  OBVIOUS
<1>6. kind \in Kinds /\ typed \in BOOLEAN /\ message \in MessagesOf(kind)
  BY DEF AInv, TypeOK
<1>7. Message' = Message
  BY DEF Message, Block
<1> HIDE DEF B
<1>8. TypeOK'
  <2>1. MessagesOf(kind)' = MessagesOf(kind)
    BY <1>5
  <2>2. (live \cup short \subseteq {Message} \cup Blocks(StepsOf))'
    BY <1>2, <1>3, <1>4 DEF B
  <2>3. (status \in {"waiting", "ok", "error", "freed", "crashed"})'
    OBVIOUS
  <2>4. QED  BY Zenon, <1>5, <1>6, <2>1, <2>2, <2>3 DEF TypeOK
<1>9. (live \subseteq Allocated \cup Blocks(StepsOf))'
  BY <1>2, <1>4 DEF B
<1>10. AllOrNothing'
  <2>1. Bare' = Bare
    BY <1>5 DEF Bare
  <2>2. SUFFICES ASSUME handed'
        PROVE  /\ Bare \/ Message \in live'
               /\ \A b \in B : b \in live' \/ (/\ kind = "get" /\ b[1] = "object"
                                             /\ b[3] \in {"bucket", "bucket_type", "key"})
    BY Zenon, <1>2, <1>5, <2>1 DEF AllOrNothing
  <2>3. QED  BY Zenon, <2>2 DEF Spare, B
<1>11. status' \notin {"waiting", "freed"}
  OBVIOUS
<1>12. OkMeansResponse' /\ NothingLeft' /\ Guarded'
  BY <1>5, <1>11 DEF OkMeansResponse, NothingLeft, Guarded
<1>13. OneObjectLost'
  BY Zenon, <1>5 DEF OneObjectLost, Response, Block
<1>14. (status = "waiting" => live = {})'
  BY <1>11
<1>15. QED  BY Zenon, <1>8, <1>9, <1>10, <1>12, <1>13, <1>14 DEF AInv

\* What was made is of the answer.
LEMMA MadeIsThere ==
    ASSUME WellMade, NEW n \in 0..Len(StepsOf)
    PROVE  MadeBefore(StepsOf, n) \subseteq Allocated \cup Blocks(StepsOf)
<1>1. ASSUME NEW b \in MadeBefore(StepsOf, n), b \notin Allocated
      PROVE  b \in Blocks(StepsOf)
  <2>1. PICK j \in 1..n : b = StepsOf[j].block
    BY <1>1 DEF MadeBefore
  <2>2. Len(StepsOf) \in Nat /\ DOMAIN StepsOf = 1..Len(StepsOf)
    BY DEF WellMade
  <2>3. j \in DOMAIN StepsOf
    BY <2>2
  <2>4. QED  BY Zenon, <2>1, <2>3, BlocksAre
<1>2. QED  BY <1>1

\* A decoder that gets through has made every block but spare ones.
LEMMA FinishWhole ==
    ASSUME WellMade, StopsAt(StepsOf) = 0, NEW b \in Blocks(StepsOf)
    PROVE  b \in MadeBefore(StepsOf, Len(StepsOf)) \/ Spare(b)
<1>1. PICK k \in DOMAIN StepsOf : b = StepsOf[k].block
  BY BlocksAre
<1>2. \A j \in DOMAIN StepsOf : Fails(StepsOf[j]) => StepsOf[j].onfail = "ignored"
  BY StopFacts
<1>3. \A j \in DOMAIN StepsOf : Regular(StepsOf[j])
  BY Zenon DEF WellMade
<1>4. CASE ~Fails(StepsOf[k])
  <2>1. k \in 1..Len(StepsOf)
    BY Zenon DEF WellMade
  <2>2. QED  BY Zenon, <1>1, <1>4, <2>1, MadeFacts
<1>5. CASE Fails(StepsOf[k])
  <2>1. StepsOf[k].onfail = "ignored"
    BY Zenon, <1>2, <1>5
  <2>2. kind = "get_bucketprops" \/ Spare(b)
    BY Zenon, <1>1, <1>3, <2>1 DEF Regular
  <2>3. ASSUME kind = "get_bucketprops" PROVE FALSE
    <3>1. ~Careful(StepsOf)
      BY Zenon, <2>1 DEF Careful
    <3>2. Misses(StepsOf)
      BY Zenon, <2>3, <3>1 DEF WellMade
    <3>3. PICK j \in DOMAIN StepsOf : StepsOf[j].block[5] = "missing"
      BY Zenon, <3>2 DEF Misses
    <3>4. Fails(StepsOf[j])
      BY Zenon, <3>3 DEF Fails
    <3>5. StepsOf[j].onfail = "ignored" /\ StepsOf[j].onfail = "props"
      BY Zenon, <1>2, <1>3, <3>3, <3>4 DEF Regular
    <3>6. QED  BY <3>5
  <2>4. QED  BY <2>2, <2>3
<1>6. QED  BY <1>4, <1>5

\* A get or a put that stops has made nothing of an object after the one it was
\* at, and frees what came before.
LEMMA OneLost ==
    ASSUME WellMade, kind \in {"get", "put"},
           NEW k \in DOMAIN StepsOf, Fails(StepsOf[k]),
           StepsOf[k].onfail \notin {"ignored", "followed"},
           NEW made, made = MadeBefore(StepsOf, k),
           live' = made \ Undone(made, StepsOf[k])
    PROVE  /\ Response("content") \notin live'
           /\ \A b, c \in live' : b[1] = "object" /\ c[1] = "object" => b[2] = c[2]
<1> DEFINE s == StepsOf[k]
           i == s.block[2]
<1>1. Regular(s) /\ InOrder(s)
  BY Zenon DEF WellMade, Regular
<1>2. k \in Nat /\ 1..k \subseteq DOMAIN StepsOf
  BY DEF WellMade
<1>3. Sorted(StepsOf)
  BY DEF WellMade
<1>4. ASSUME NEW b \in made, b[1] = "object" \/ b = Response("content")
      PROVE  \E j \in 1..k : /\ b = StepsOf[j].block /\ ~Fails(StepsOf[j])
                             /\ Rank(StepsOf[j]) <= Rank(s) /\ Owned(b)
  <2>1. b \notin Allocated
    BY <1>4 DEF Allocated, Message, Response, Block
  <2>2. PICK j \in 1..k : ~Fails(StepsOf[j]) /\ b = StepsOf[j].block
    BY Zenon, <2>1, MadeFacts
  <2>3. j \in DOMAIN StepsOf /\ j <= k
    BY <1>2
  <2>4. Rank(StepsOf[j]) <= Rank(s)
    BY Zenon, <1>3, <2>3 DEF Sorted
  <2>5. Owned(b)
    BY Zenon, <2>2, <2>3 DEF WellMade, Regular
  <2>6. QED  BY Zenon, <2>2, <2>4, <2>5
<1>5. ASSUME NEW b \in made, b = Response("content")
      PROVE  1 <= Rank(s) /\ b # s.block
  <2>1. PICK j \in 1..k : b = StepsOf[j].block /\ ~Fails(StepsOf[j]) /\ Rank(StepsOf[j]) <= Rank(s)
    BY Zenon, <1>4, <1>5
  <2>2. Rank(StepsOf[j]) = 1
    BY <1>5, <2>1 DEF Rank, Response, Block
  <2>3. b # s.block
    BY Zenon, <2>1 DEF Fails
  <2>4. QED  BY <2>1, <2>2, <2>3
<1>6. ASSUME NEW b \in made, b[1] = "object"
      PROVE  /\ b[2] \in Nat /\ b[2] # 0 /\ b[3] \in ObjectFreed
             /\ b[2] + 1 <= Rank(s)
  <2>1. PICK j \in 1..k : b = StepsOf[j].block /\ Rank(StepsOf[j]) <= Rank(s) /\ Owned(b)
    BY Zenon, <1>4, <1>6
  <2>2. ObjectBlock(b)
    BY <1>6, <2>1 DEF Owned, Response, Block
  <2>3. Rank(StepsOf[j]) = b[2] + 1
    BY <1>6, <2>1 DEF Rank
  <2>4. QED  BY <2>1, <2>2, <2>3 DEF ObjectBlock
<1> HIDE DEF s, i
<1>7. CASE s.onfail \in {"abandon", "response"}
  <2>1. Rank(s) = 0 \/ (Rank(s) = 1 /\ s.block = Response("content"))
    BY <1>1, <1>7 DEF InOrder
  <2>2. Response("content") \notin made
    BY <1>5, <2>1
  <2>3. ASSUME NEW b \in made, b[1] = "object" PROVE FALSE
    <3>1. b[2] \in Nat /\ b[2] # 0 /\ b[2] + 1 <= Rank(s)
      BY Zenon, <1>6, <2>3
    <3>2. QED  BY ONLY <2>1, <3>1
  <2>4. QED  BY <2>2, <2>3
<1>8. CASE s.onfail \in {"object", "lists"}
  <2>1. i \in Nat /\ Rank(s) = i + 1
    BY <1>1, <1>8 DEF InOrder, i
  <2>2. /\ {b \in made : b[1] = "object" /\ b[2] < i /\ b[3] \in ObjectFreed} \subseteq Undone(made, s)
        /\ Response("content") \in Undone(made, s)
    BY <1>8 DEF Undone, i
  <2>3. Response("content") \notin live'
    BY <2>2 DEF s
  <2>4. ASSUME NEW b \in live', b[1] = "object" PROVE b[2] = i
    <3>1. b \in made /\ b \notin Undone(made, s)
      BY DEF s
    <3>2. b[2] \in Nat /\ b[3] \in ObjectFreed /\ b[2] + 1 <= Rank(s)
      BY Zenon, <1>6, <2>4, <3>1
    <3>3. ~(b[2] < i)
      BY <2>2, <2>4, <3>1, <3>2
    <3>4. QED  BY <2>1, <3>2, <3>3
  <2>5. QED  BY <2>3, <2>4
<1>9. s.onfail \notin {"ignored", "followed"}
  BY DEF s
<1>10. QED  BY <1>1, <1>7, <1>8, <1>9 DEF InOrder

LEMMA DecodeStep ==
    ASSUME AInv, Decode
    PROVE  AInv'
<1> DEFINE n == Len(StepsOf)
           k == StopsAt(StepsOf)
           s == StepsOf[k]
           B == Blocks(StepsOf)
<1>1. /\ status = "waiting" /\ short' \in Shortages(B) /\ UNCHANGED <<kind, typed, message>>
      /\ Finish(StepsOf) \/ GiveUp(StepsOf) \/ Crash(StepsOf)
  BY Zenon DEF Decode
<1>2. TypeOK /\ live = {} /\ handed = FALSE
  BY <1>1 DEF AInv, TypeOK
<1>3. WellMade
  <2>1. message \in MessagesOf(kind)
    BY <1>2 DEF TypeOK
  <2>2. QED  BY Zenon, <2>1, StepsAreMade
<1>4. n \in 0..n /\ DOMAIN StepsOf = 1..n /\ n \in Nat
  BY <1>3 DEF WellMade
<1>5. CASE Finish(StepsOf)
  <2>1. /\ k = 0 /\ live' = MadeBefore(StepsOf, n) /\ handed' = TRUE /\ status' = "ok"
    BY Zenon, <1>5 DEF Finish
  <2>2. live' \subseteq Allocated \cup B
    BY Zenon, <1>3, <1>4, <2>1, MadeIsThere
  <2>3. Bare \/ Message \in live'
    <3>1. Bare \/ Message \in Allocated
      BY DEF Allocated
    <3>2. Allocated \subseteq live'
      BY <2>1 DEF MadeBefore
    <3>3. QED  BY <3>1, <3>2
  <2>4. \A b \in B : b \in live' \/ Spare(b)
    BY Zenon, <1>3, <2>1, FinishWhole
  <2> HIDE DEF B
  <2>5. /\ handed' \in BOOLEAN /\ handed' /\ status' \in {"ok", "error", "crashed"}
        /\ status' = "ok" /\ status' # "error" /\ status' # "crashed"
    BY <2>1
  <2>6. QED  BY Zenon, <1>1, <2>2, <2>3, <2>4, <2>5, Decoded DEF B
<1>6. CASE GiveUp(StepsOf)
  <2> DEFINE made == MadeBefore(StepsOf, k)
  <2>1. /\ k # 0 /\ s.onfail # "followed" /\ live' = made \ Undone(made, s) /\ handed' = FALSE
        /\ status' = IF s.onfail \in {"props", "backend"} THEN "ok" ELSE "error"
    BY Zenon, <1>6 DEF GiveUp
  <2>2. k \in DOMAIN StepsOf /\ Fails(s) /\ s.onfail # "ignored"
    BY <1>3, <2>1, StopFacts
  <2>3. live' \subseteq Allocated \cup B
    <3>1. k \in 0..n
      BY <1>4, <2>2
    <3>2. made \subseteq Allocated \cup B
      BY Zenon, <1>3, <3>1, MadeIsThere
    <3> HIDE DEF made, B
    <3>3. QED  BY <2>1, <3>2
  <2>4. status' = "ok" => kind = "get_bucketprops"
    <3>1. s.onfail \in {"props", "backend"} => kind = "get_bucketprops"
      BY Zenon, <1>3, <2>2 DEF WellMade, Regular
    <3>2. QED  BY <2>1, <3>1
  <2>5. kind \in {"get", "put"} =>
          /\ Response("content") \notin live'
          /\ \A b, c \in live' : b[1] = "object" /\ c[1] = "object" => b[2] = c[2]
    <3>1. s.onfail \notin {"ignored", "followed"}
      BY <2>1, <2>2
    <3>2. made = MadeBefore(StepsOf, k) /\ live' = made \ Undone(made, s)
      BY Zenon, <2>1
    <3>3. QED  BY Zenon, <1>3, <2>2, <3>1, <3>2, OneLost
  <2>6. /\ handed' \in BOOLEAN /\ ~handed' /\ status' \in {"ok", "error", "crashed"}
        /\ status' # "crashed"
    BY <2>1
  <2> HIDE DEF made, s, k, B
  <2>7. QED  BY Zenon, <1>1, <2>3, <2>4, <2>5, <2>6, Decoded DEF B
<1>7. CASE Crash(StepsOf)
  <2>1. k # 0 /\ s.onfail = "followed" /\ status' = "crashed" /\ live' = live /\ handed' = handed
    BY Zenon, <1>7 DEF Crash
  <2>2. k \in DOMAIN StepsOf /\ Fails(s)
    BY <1>3, <2>1, StopFacts
  <2>3. short' # {}
    <3>1. s.block[5] # "missing"
      <4>1. s.block[5] = "missing" => s.onfail = "props"
        BY Zenon, <1>3, <2>2 DEF WellMade, Regular
      <4>2. QED  BY <2>1, <4>1
    <3>2. s.block \in short'
      BY Zenon, <2>2, <3>1 DEF Fails
    <3>3. QED  BY <3>2
  <2>4. /\ live' \subseteq Allocated \cup B /\ handed' \in BOOLEAN /\ ~handed'
        /\ status' \in {"ok", "error", "crashed"} /\ status' # "ok" /\ status' # "error"
    BY <1>2, <2>1
  <2> HIDE DEF B
  <2>5. QED  BY Zenon, <1>1, <2>3, <2>4, Decoded DEF B
<1>8. QED  BY <1>1, <1>5, <1>6, <1>7

LEMMA NotUnpackedStep ==
    ASSUME AInv, NotUnpacked
    PROVE  AInv'
<1>1. /\ status = "waiting" /\ ~Bare /\ short' = {Message} /\ status' = "error"
      /\ UNCHANGED <<kind, typed, message, live, handed>>
  BY DEF NotUnpacked
<1>2. TypeOK /\ live' = {} /\ ~handed'
  BY <1>1 DEF AInv, TypeOK
<1>3. StepsOf' = StepsOf
  BY <1>1, Same
<1>4. Message' = Message
  BY DEF Message, Block
<1>5. TypeOK'
  <2>1. MessagesOf(kind)' = MessagesOf(kind)
    BY <1>1
  <2>2. (live \cup short \subseteq {Message} \cup Blocks(StepsOf))'
    BY <1>1, <1>2, <1>4
  <2>3. (status \in {"waiting", "ok", "error", "freed", "crashed"})' /\ handed' \in BOOLEAN
    BY <1>1, <1>2 DEF TypeOK
  <2>4. QED  BY Zenon, <1>1, <1>2, <2>1, <2>2, <2>3 DEF TypeOK
<1>6. status' # "waiting" /\ status' # "ok" /\ status' # "freed" /\ status' # "crashed"
  BY <1>1
<1>7. (live \subseteq Allocated \cup Blocks(StepsOf))' /\ (status = "waiting" => live = {})'
  BY <1>2
<1>8. AllOrNothing' /\ OkMeansResponse' /\ NothingLeft' /\ Guarded'
  BY Zenon, <1>2, <1>6 DEF AllOrNothing, OkMeansResponse, NothingLeft, Guarded
<1>9. OneObjectLost'
  BY <1>2 DEF OneObjectLost
<1>10. QED  BY Zenon, <1>5, <1>7, <1>8, <1>9 DEF AInv

\* The free of a response gets at all of it.
LEMMA AllFreed ==
    ASSUME message \in MessagesOf(kind), live \subseteq Allocated \cup Blocks(StepsOf),
           Bare \/ Message \in live
    PROVE  live \ FreeOf = IF kind = "get_bucketprops" THEN {Message} ELSE {}
<1>1. WellMade
  BY StepsAreMade
<1>2. \A b \in live : b \in Allocated \/ Owned(b)
  BY Zenon, <1>1, BlocksOwned
<1>3. ASSUME NEW b \in live, ObjectBlock(b), kind \in {"get", "put"}
      PROVE  b \in FreeOf
  <2>1. b \in FreeObjects(Len(message.content))
    BY <1>3 DEF FreeObjects, FreeObject, ObjectBlock
  <2>2. CASE kind = "get"
    BY <2>1, <2>2 DEF FreeOf, GetFree
  <2>3. CASE kind = "put"
    BY <2>1, <2>3 DEF FreeOf, PutFree
  <2>4. QED  BY <1>3, <2>2, <2>3
<1>4. ASSUME NEW b \in live, b # Message
      PROVE  b \in FreeOf
  <2>1. Owned(b)
    BY <1>2, <1>4 DEF Allocated
  <2>2. CASE kind = "get"
    <3>1. \/ b \in {Response("own"), Response("vclock"), Response("content")}
          \/ ObjectBlock(b)
      BY Zenon, <2>1, <2>2 DEF Owned
    <3>2. QED  BY <1>3, <2>2, <3>1 DEF FreeOf, GetFree
  <2>3. CASE kind = "put"
    <3>1. \/ b \in {Response("own"), Response("key"), Response("vclock"), Response("content")}
          \/ ObjectBlock(b)
      BY <2>1, <2>3 DEF Owned
    <3>2. QED  BY <1>3, <2>3, <3>1 DEF FreeOf, PutFree
  <2>4. CASE kind = "search"
    BY <2>1, <2>4 DEF Owned, FreeOf, SearchFree
  <2>5. CASE kind = "get_bucketprops"
    BY <2>1, <2>5 DEF Owned, FreeOf, PropsFree
  <2>6. CASE kind = "serverinfo"
    BY <2>1, <2>6 DEF Owned, FreeOf, ServerinfoFree
  <2>7. CASE kind = "get_clientid"
    BY <2>1, <2>7 DEF Owned, FreeOf, ClientidFree
  <2>8. CASE Bare
    BY <2>1, <2>8 DEF Owned, FreeOf, Bare
  <2>9. QED  BY <2>2, <2>3, <2>4, <2>5, <2>6, <2>7, <2>8 DEF Bare
<1>5. CASE kind = "get_bucketprops"
  <2>1. Message \in live
    BY <1>5 DEF Bare
  <2>2. Message \notin FreeOf
    BY <1>5 DEF FreeOf, PropsFree, Message, Response, Block
  <2>3. QED  BY <1>4, <1>5, <2>1, <2>2
<1>6. CASE kind # "get_bucketprops"
  <2>1. Message \in live => Message \in FreeOf
    <3>1. Message \in live => ~Bare
      <4>1. ASSUME Bare, Message \in live PROVE FALSE
        <5>1. Owned(Message)
          BY <1>2, <4>1 DEF Allocated
        <5>2. QED  BY <4>1, <5>1 DEF Owned, Bare, Message, Response, Block
      <4>2. QED  BY <4>1
    <3>2. ~Bare => Message \in FreeOf
      BY <1>6 DEF Bare, FreeOf, GetFree, PutFree, SearchFree, ServerinfoFree, ClientidFree
    <3>3. QED  BY <3>1, <3>2
  <2>2. QED  BY <1>4, <1>6, <2>1
<1>7. QED  BY <1>5, <1>6

LEMMA FreeStep ==
    ASSUME AInv, Free
    PROVE  AInv'
<1>1. /\ status = "ok" /\ handed /\ live' = live \ FreeOf /\ handed' = FALSE /\ status' = "freed"
      /\ UNCHANGED <<kind, typed, message, short>>
  BY DEF Free
<1>2. TypeOK /\ live \subseteq Allocated \cup Blocks(StepsOf) /\ (Bare \/ Message \in live)
  BY <1>1 DEF AInv, AllOrNothing
<1>3. live' = IF kind = "get_bucketprops" THEN {Message} ELSE {}
  BY Zenon, <1>1, <1>2, AllFreed DEF TypeOK
<1>4. StepsOf' = StepsOf
  BY <1>1, Same
<1>5. Message' = Message
  BY DEF Message, Block
<1>6. Blocks(StepsOf)' = Blocks(StepsOf) /\ Allocated' = Allocated
  BY <1>1, <1>4 DEF Blocks, Allocated, Bare
<1>7. live' \subseteq live
  BY <1>1
<1>8. TypeOK'
  <2>1. MessagesOf(kind)' = MessagesOf(kind)
    BY <1>1
  <2>2. (live \cup short \subseteq {Message} \cup Blocks(StepsOf))'
    BY <1>1, <1>2, <1>5, <1>6, <1>7 DEF TypeOK
  <2>3. (status \in {"waiting", "ok", "error", "freed", "crashed"})' /\ handed' \in BOOLEAN /\ ~handed'
    BY <1>1
  <2>4. QED  BY Zenon, <1>1, <1>2, <2>1, <2>2, <2>3 DEF TypeOK
<1>9. (live \subseteq Allocated \cup Blocks(StepsOf))'
  BY <1>2, <1>6, <1>7
<1>10. /\ status' # "waiting" /\ status' # "ok" /\ status' # "error" /\ status' # "crashed" /\ ~handed'
  BY <1>1
<1>11. NothingLeft'
  BY <1>1, <1>3, <1>5 DEF NothingLeft
<1>12. AllOrNothing' /\ OkMeansResponse' /\ OneObjectLost' /\ Guarded'
  BY Zenon, <1>10 DEF AllOrNothing, OkMeansResponse, OneObjectLost, Guarded
<1>13. QED  BY Zenon, <1>8, <1>9, <1>10, <1>11, <1>12 DEF AInv

LEMMA Unchanged ==
    ASSUME AInv, UNCHANGED vars
    PROVE  AInv'
<1>1. /\ UNCHANGED <<kind, typed, message>> /\ short' = short /\ live' = live
      /\ handed' = handed /\ status' = status
  BY DEF vars
<1>2. StepsOf' = StepsOf
  BY <1>1, Same
<1>3. Blocks(StepsOf)' = Blocks(StepsOf)
  BY <1>2 DEF Blocks
<1>4. MessagesOf(kind)' = MessagesOf(kind) /\ Message' = Message /\ Bare' = Bare /\ Allocated' = Allocated
  BY <1>1 DEF Message, Block, Bare, Allocated
<1>5. TypeOK' = TypeOK
  BY Zenon, <1>1, <1>3, <1>4 DEF TypeOK
<1>6. AllOrNothing' = AllOrNothing
  BY Zenon, <1>1, <1>3, <1>4 DEF AllOrNothing
<1>7. OkMeansResponse' = OkMeansResponse /\ NothingLeft' = NothingLeft /\ Guarded' = Guarded
  BY <1>1, <1>4 DEF OkMeansResponse, NothingLeft, Guarded
<1>8. OneObjectLost' = OneObjectLost
  BY Zenon, <1>1 DEF OneObjectLost, Response, Block
<1>9. QED  BY Zenon, <1>1, <1>3, <1>4, <1>5, <1>6, <1>7, <1>8 DEF AInv

LEMMA InitHolds == Init => AInv
<1>1. SUFFICES ASSUME Init PROVE AInv
  OBVIOUS
<1>2. /\ kind \in Kinds /\ typed \in BOOLEAN /\ message \in MessagesOf(kind)
      /\ short = {} /\ live = {} /\ handed = FALSE /\ status = "waiting"
  BY <1>1 DEF Init
<1>3. TypeOK
  <2>1. live \cup short \subseteq {Message} \cup Blocks(StepsOf)
    BY <1>2
  <2>2. /\ handed \in BOOLEAN /\ ~handed
        /\ status \in {"waiting", "ok", "error", "freed", "crashed"}
    BY <1>2
  <2>3. QED  BY Zenon, <1>2, <2>1, <2>2 DEF TypeOK
<1>4. QED
  BY <1>2, <1>3 DEF AInv, AllOrNothing, OkMeansResponse, NothingLeft, OneObjectLost, Guarded

LEMMA Invariant == Spec => []AInv
<1>1. AInv /\ [Next]_vars => AInv'
  <2>1. SUFFICES ASSUME AInv, [Next]_vars PROVE AInv'
    OBVIOUS
  <2>2. CASE Decode
    BY <2>1, <2>2, DecodeStep
  <2>3. CASE NotUnpacked
    BY <2>1, <2>3, NotUnpackedStep
  <2>4. CASE Free
    BY <2>1, <2>4, FreeStep
  <2>5. CASE UNCHANGED vars
    BY <2>1, <2>5, Unchanged
  <2>6. Decode \/ NotUnpacked \/ Free \/ UNCHANGED vars
    BY <2>1 DEF Next, Stopped
  <2>7. QED  BY <2>2, <2>3, <2>4, <2>5, <2>6
<1>2. QED  BY InitHolds, <1>1, PTL DEF Spec

-----------------------------------------------------------------------------
(* Theorems.                                                                *)

\* Every variable keeps its type: memory in use is the message's or a block of
\* the series its decoder allocates, and there is a response only between
\* ERIAK_OK and its free.
THEOREM TypeCorrect == Spec => []TypeOK
<1>1. AInv => TypeOK
  BY DEF AInv
<1>2. QED  BY Invariant, <1>1, PTL

\* However many objects, links, pairs, documents or hooks an answer has, and
\* whichever of its allocations fail, a response handed to the user holds all
\* that the message does, but for the copies of the place of an object of a get.
THEOREM HandedWhole == Spec => []AllOrNothing
<1>1. AInv => AllOrNothing
  BY DEF AInv
<1>2. QED  BY Invariant, <1>1, PTL

\* ERIAK_OK comes with a response, but for bucket properties.
THEOREM OkHasResponse == Spec => []OkMeansResponse
<1>1. AInv => OkMeansResponse
  BY DEF AInv
<1>2. QED  BY Invariant, <1>1, PTL

\* The free of a response gets at every block of it, for messages of any size;
\* of bucket properties the unpacked message stays.
THEOREM LeavesNothing == Spec => []NothingLeft
<1>1. AInv => NothingLeft
  BY DEF AInv
<1>2. QED  BY Invariant, <1>1, PTL

\* A get or a put that runs out of memory anywhere in its objects frees the
\* array and all the objects before the one it was at.
THEOREM LosesOneObject == Spec => []OneObjectLost
<1>1. AInv => OneObjectLost
  BY DEF AInv
<1>2. QED  BY Invariant, <1>1, PTL

\* No message alone makes a decoder follow a NULL: it takes an allocation that
\* fails.
THEOREM IsGuarded == Spec => []Guarded
<1>1. AInv => Guarded
  BY DEF AInv
<1>2. QED  BY Invariant, <1>1, PTL
=============================================================================
