----------------------------- MODULE QueueLemmas -----------------------------
(***************************************************************************)
(* Facts about sequences that hold every element once, as queues do that   *)
(* link nodes, and about numbers, which the theorems of several modules    *)
(* rest on.                                                                *)
(***************************************************************************)
EXTENDS Integers, SequencesExt, FiniteSetTheorems, SequenceTheorems, WellFoundedInduction, TLAPS

Elems(s) == {s[i] : i \in 1..Len(s)}
Distinct(s) == \A i, j \in 1..Len(s) : s[i] = s[j] => i = j

-----------------------------------------------------------------------------
(* Numbers *)

\* Every nonempty set of numbers has a least one: from the library's fact that < is
\* well-founded.
LEMMA HasMin ==
  ASSUME NEW S, S \subseteq Nat, S # {}
  PROVE  \E x \in S : \A y \in S : x <= y
<1> DEFINE R == OpToRel(<, Nat)
<1>1. \E x \in S : \A y \in S : ~ (<<y, x>> \in R)
  BY WFMin, NatLessThanWellFounded
<1>2. \A x, y \in Nat : y < x => <<y, x>> \in R
  BY DEF OpToRel
<1> HIDE DEF R
<1>3. SUFFICES ASSUME NEW x \in S, \A y \in S : ~ (<<y, x>> \in R) PROVE \A y \in S : x <= y
  BY <1>1
<1>4. \A y \in S : ~(y < x)
  BY <1>2, <1>3
<1> QED BY <1>4

\* Induction, for a set of numbers.
LEMMA SetInduction ==
  ASSUME NEW P, 0 \in P, \A n \in Nat : n \in P => n + 1 \in P
  PROVE  Nat \subseteq P
<1> SUFFICES ASSUME Nat \ P # {} PROVE FALSE
  OBVIOUS
<1>1. PICK x \in Nat \ P : \A y \in Nat \ P : x <= y
  BY HasMin
<1>2. x # 0 /\ x - 1 \in Nat
  BY <1>1
<1>3. x - 1 \in P
  BY <1>1, <1>2
<1> QED BY <1>1, <1>2, <1>3

-----------------------------------------------------------------------------
(* Elements of a sequence *)

LEMMA AppendElems ==
  ASSUME NEW S, NEW s \in Seq(S), NEW e \in S
  PROVE  /\ Elems(Append(s, e)) = Elems(s) \cup {e}
         /\ Len(Append(s, e)) = Len(s) + 1
         /\ Distinct(s) /\ e \notin Elems(s) => Distinct(Append(s, e))
<1>1. /\ Len(Append(s, e)) = Len(s) + 1 /\ Len(s) \in Nat
      /\ \A i \in 1..Len(s) : Append(s, e)[i] = s[i]
      /\ Append(s, e)[Len(s) + 1] = e
  OBVIOUS
<1>2. Elems(Append(s, e)) = Elems(s) \cup {e}
  BY <1>1 DEF Elems
<1>3. Distinct(s) /\ e \notin Elems(s) => Distinct(Append(s, e))
  BY <1>1 DEF Elems, Distinct
<1> QED BY <1>1, <1>2, <1>3

LEMMA TailElems ==
  ASSUME NEW S, NEW s \in Seq(S), s # <<>>
  PROVE  /\ Elems(s) = Elems(Tail(s)) \cup {Head(s)} /\ Len(Tail(s)) = Len(s) - 1
         /\ Head(s) \in S /\ Tail(s) \in Seq(S)
         /\ Distinct(s) => Head(s) \notin Elems(Tail(s)) /\ Distinct(Tail(s))
<1>1. /\ Len(Tail(s)) = Len(s) - 1 /\ Len(s) \in Nat /\ Len(s) > 0
      /\ \A i \in 1..Len(s) - 1 : Tail(s)[i] = s[i + 1]
      /\ Head(s) = s[1] /\ Head(s) \in S /\ Tail(s) \in Seq(S)
  BY HeadTailProperties
<1>2. Elems(s) = Elems(Tail(s)) \cup {Head(s)}
  <2>1. \A i \in 1..Len(s) : i = 1 \/ (i - 1 \in 1..Len(s) - 1 /\ Tail(s)[i - 1] = s[i])
    BY <1>1
  <2>2. Elems(s) \subseteq Elems(Tail(s)) \cup {Head(s)}
    BY <1>1, <2>1 DEF Elems
  <2>3. Elems(Tail(s)) \cup {Head(s)} \subseteq Elems(s)
    BY <1>1 DEF Elems
  <2> QED BY <2>2, <2>3
<1>3. Distinct(s) => Head(s) \notin Elems(Tail(s)) /\ Distinct(Tail(s))
  BY <1>1 DEF Elems, Distinct
<1> QED BY <1>1, <1>2, <1>3

\* What is left of a sequence without its i-th element.
LEMMA RemoveAtType ==
  ASSUME NEW S, NEW s \in Seq(S), NEW i \in 1..Len(s)
  PROVE  /\ RemoveAt(s, i) \in Seq(S)
         /\ Len(RemoveAt(s, i)) = Len(s) - 1
         /\ \A j \in 1..Len(s) - 1 : RemoveAt(s, i)[j] = IF j < i THEN s[j] ELSE s[j + 1]
<1> DEFINE p == SubSeq(s, 1, i - 1)
           q == SubSeq(s, i + 1, Len(s))
<1>1. /\ p \in Seq(S) /\ Len(p) = i - 1
      /\ \A j \in 1..i - 1 : p[j] = s[j]
  OBVIOUS
<1>2. /\ q \in Seq(S) /\ Len(q) = Len(s) - i
      /\ \A j \in 1..Len(s) - i : q[j] = s[i + j]
  OBVIOUS
<1>3. RemoveAt(s, i) = p \o q
  BY DEF RemoveAt
<1> HIDE DEF p, q
<1>4. /\ p \o q \in Seq(S) /\ Len(p \o q) = Len(s) - 1
      /\ \A j \in 1..Len(s) - 1 : (p \o q)[j] = IF j <= i - 1 THEN p[j] ELSE q[j - (i - 1)]
  <2>1. /\ p \o q \in Seq(S) /\ Len(p \o q) = Len(p) + Len(q)
        /\ \A j \in 1..Len(p) + Len(q) :
             (p \o q)[j] = IF j <= Len(p) THEN p[j] ELSE q[j - Len(p)]
    BY <1>1, <1>2, ConcatProperties
  <2>2. Len(p) + Len(q) = Len(s) - 1
    BY <1>1, <1>2
  <2> HIDE DEF p
  <2> QED BY <1>1, <2>1, <2>2
<1>5. \A j \in 1..Len(s) - 1 : (p \o q)[j] = IF j < i THEN s[j] ELSE s[j + 1]
  <2> TAKE j \in 1..Len(s) - 1
  <2>1. CASE j < i
    BY <1>1, <1>4, <2>1
  <2>2. CASE ~(j < i)
    <3>1. j - (i - 1) \in 1..Len(s) - i /\ i + (j - (i - 1)) = j + 1
      BY <2>2
    <3>2. q[j - (i - 1)] = s[j + 1]
      BY <1>2, <3>1
    <3> QED BY <1>4, <2>2, <3>2
  <2> QED BY <2>1, <2>2
<1> QED BY <1>3, <1>4, <1>5

LEMMA RemoveElems ==
  ASSUME NEW S, NEW s \in Seq(S), NEW i \in 1..Len(s), Distinct(s)
  PROVE  /\ Elems(RemoveAt(s, i)) = Elems(s) \ {s[i]}
         /\ Len(RemoveAt(s, i)) = Len(s) - 1 /\ Distinct(RemoveAt(s, i))
         /\ RemoveAt(s, i) \in Seq(S)
<1> DEFINE r == RemoveAt(s, i)
<1>1. /\ r \in Seq(S) /\ Len(r) = Len(s) - 1 /\ Len(s) \in Nat
      /\ \A j \in 1..Len(s) - 1 : r[j] = IF j < i THEN s[j] ELSE s[j + 1]
  <2>1. Len(s) \in Nat
    OBVIOUS
  <2>2. /\ RemoveAt(s, i) \in Seq(S) /\ Len(RemoveAt(s, i)) = Len(s) - 1
        /\ \A j \in 1..Len(s) - 1 : RemoveAt(s, i)[j] = IF j < i THEN s[j] ELSE s[j + 1]
    BY RemoveAtType
  <2> QED BY <2>1, <2>2, Zenon
<1> HIDE DEF r
<1>2. Distinct(r)
  <2> SUFFICES ASSUME NEW j \in 1..Len(r), NEW k \in 1..Len(r), r[j] = r[k] PROVE j = k
    BY DEF Distinct
  <2> DEFINE at(l) == IF l < i THEN l ELSE l + 1
  <2>1. \A l \in 1..Len(r) : at(l) \in 1..Len(s) /\ r[l] = s[at(l)]
    BY <1>1
  <2>2. at(j) = at(k)
    BY <2>1 DEF Distinct
  <2> QED BY <1>1, <2>2
<1>3. Elems(r) \subseteq Elems(s) \ {s[i]}
  BY <1>1 DEF Elems, Distinct
<1>4. Elems(s) \ {s[i]} \subseteq Elems(r)
  <2>1. \A j \in 1..Len(s) : j < i => j \in 1..Len(r) /\ r[j] = s[j]
    BY <1>1
  <2>2. \A j \in 1..Len(s) : j > i => j - 1 \in 1..Len(r) /\ r[j - 1] = s[j]
    BY <1>1
  <2> QED BY <1>1, <2>1, <2>2 DEF Elems
<1> QED BY <1>1, <1>2, <1>3, <1>4 DEF r

LEMMA ElemsOfSeq ==
  ASSUME NEW S, NEW s \in Seq(S)
  PROVE  /\ Elems(s) \subseteq S /\ ToSet(s) = Elems(s) /\ DOMAIN s = 1..Len(s)
         /\ Len(s) \in Nat /\ (s = <<>> <=> Elems(s) = {}) /\ IsFiniteSet(Elems(s))
         /\ Cardinality(Elems(s)) <= Len(s)
<1>1. Len(s) \in Nat /\ DOMAIN s = 1..Len(s) /\ s \in [1..Len(s) -> S]
  BY LenProperties
<1>2. \A i \in 1..Len(s) : s[i] \in S
  BY <1>1
<1>3. s = <<>> <=> Elems(s) = {}
  <2>1. CASE s = <<>>
    BY <2>1 DEF Elems
  <2>2. CASE s # <<>>
    <3>1. 1 \in 1..Len(s)
      BY <1>1, <2>2, EmptySeq
    <3> QED BY <2>2, <3>1 DEF Elems
  <2> QED BY <2>1, <2>2
<1>4. s \in Surjection(1..Len(s), Elems(s))
  BY <1>1 DEF Surjection, Elems
<1>5. IsFiniteSet(1..Len(s)) /\ Cardinality(1..Len(s)) = Len(s)
  BY <1>1, FS_Interval
<1>6. IsFiniteSet(Elems(s)) /\ Cardinality(Elems(s)) <= Len(s)
  BY <1>4, <1>5, FS_Surjection
<1> QED BY <1>1, <1>2, <1>3, <1>6 DEF Elems, ToSet

LEMMA EmptyElems == /\ Elems(<<>>) = {} /\ Distinct(<<>>)
BY DEF Elems, Distinct

LEMMA ConcatElems ==
  ASSUME NEW S, NEW s \in Seq(S), NEW t \in Seq(S)
  PROVE  /\ s \o t \in Seq(S) /\ Elems(s \o t) = Elems(s) \cup Elems(t)
         /\ Distinct(s) /\ Distinct(t) /\ Elems(s) \cap Elems(t) = {} => Distinct(s \o t)
<1> DEFINE r == s \o t
<1>1. /\ r \in Seq(S) /\ Len(r) = Len(s) + Len(t)
      /\ \A i \in 1..Len(s) + Len(t) : r[i] = IF i <= Len(s) THEN s[i] ELSE t[i - Len(s)]
  BY ConcatProperties
<1>2. Len(s) \in Nat /\ Len(t) \in Nat
  OBVIOUS
<1> HIDE DEF r
<1>3. /\ \A i \in 1..Len(s) : i \in 1..Len(r) /\ r[i] = s[i]
      /\ \A i \in 1..Len(t) : Len(s) + i \in 1..Len(r) /\ r[Len(s) + i] = t[i]
  <2>1. \A i \in 1..Len(s) : i \in 1..Len(r) /\ r[i] = s[i]
    BY <1>1, <1>2
  <2>2. ASSUME NEW i \in 1..Len(t) PROVE Len(s) + i \in 1..Len(r) /\ r[Len(s) + i] = t[i]
    <3>1. Len(s) + i \in 1..Len(s) + Len(t) /\ ~(Len(s) + i <= Len(s)) /\ (Len(s) + i) - Len(s) = i
      BY <1>2
    <3>2. r[Len(s) + i] = t[(Len(s) + i) - Len(s)]
      BY <1>1, <3>1
    <3> QED BY <1>1, <3>1, <3>2
  <2> QED BY <2>1, <2>2
<1>4. Elems(r) \subseteq Elems(s) \cup Elems(t)
  <2> SUFFICES ASSUME NEW i \in 1..Len(r) PROVE r[i] \in Elems(s) \cup Elems(t)
    BY DEF Elems
  <2>1. CASE i <= Len(s)
    <3>1. i \in 1..Len(s) /\ r[i] = s[i]
      BY <1>1, <1>2, <2>1
    <3> QED BY <3>1 DEF Elems
  <2>2. CASE ~(i <= Len(s))
    <3>1. i - Len(s) \in 1..Len(t) /\ r[i] = t[i - Len(s)]
      BY <1>1, <1>2, <2>2
    <3> QED BY <3>1 DEF Elems
  <2> QED BY <2>1, <2>2
<1>5. Elems(s) \cup Elems(t) \subseteq Elems(r)
  BY <1>3 DEF Elems
<1>6. ASSUME Distinct(s), Distinct(t), Elems(s) \cap Elems(t) = {}
      PROVE  Distinct(r)
  <2> SUFFICES ASSUME NEW i \in 1..Len(r), NEW j \in 1..Len(r), r[i] = r[j] PROVE i = j
    BY DEF Distinct
  <2>1. \A k \in 1..Len(r) : \/ k \in 1..Len(s) /\ r[k] = s[k] /\ r[k] \in Elems(s)
                             \/ k - Len(s) \in 1..Len(t) /\ r[k] = t[k - Len(s)] /\ r[k] \in Elems(t)
    <3> TAKE k \in 1..Len(r)
    <3>1. CASE k <= Len(s)
      <4>1. k \in 1..Len(s) /\ r[k] = s[k]
        BY <1>1, <1>2, <3>1
      <4> QED BY <4>1 DEF Elems
    <3>2. CASE ~(k <= Len(s))
      <4>1. k - Len(s) \in 1..Len(t) /\ r[k] = t[k - Len(s)]
        BY <1>1, <1>2, <3>2
      <4> QED BY <4>1 DEF Elems
    <3> QED BY <3>1, <3>2
  <2>2. CASE r[i] \in Elems(s)
    <3>1. i \in 1..Len(s) /\ j \in 1..Len(s) /\ s[i] = s[j]
      BY <1>6, <2>1, <2>2
    <3> QED BY <1>6, <3>1 DEF Distinct
  <2>3. CASE r[i] \notin Elems(s)
    <3>1. /\ i - Len(s) \in 1..Len(t) /\ j - Len(s) \in 1..Len(t)
          /\ t[i - Len(s)] = t[j - Len(s)]
      BY <1>6, <2>1, <2>3
    <3>2. i - Len(s) = j - Len(s)
      BY <1>6, <3>1 DEF Distinct
    <3> QED BY <1>2, <3>2
  <2> QED BY <2>2, <2>3
<1> QED BY <1>1, <1>4, <1>5, <1>6 DEF r

LEMMA SingleElems ==
  ASSUME NEW S, NEW e \in S
  PROVE  <<e>> \in Seq(S) /\ Elems(<<e>>) = {e} /\ Distinct(<<e>>)
BY DEF Elems, Distinct

LEMMA ConsElems ==
  ASSUME NEW S, NEW s \in Seq(S), NEW e \in S
  PROVE  /\ <<e>> \o s \in Seq(S) /\ Elems(<<e>> \o s) = Elems(s) \cup {e}
         /\ Distinct(s) /\ e \notin Elems(s) => Distinct(<<e>> \o s)
<1>1. <<e>> \in Seq(S) /\ Elems(<<e>>) = {e} /\ Distinct(<<e>>)
  BY SingleElems
<1>2. /\ <<e>> \o s \in Seq(S) /\ Elems(<<e>> \o s) = Elems(<<e>>) \cup Elems(s)
      /\ Distinct(<<e>>) /\ Distinct(s) /\ Elems(<<e>>) \cap Elems(s) = {} => Distinct(<<e>> \o s)
  BY <1>1, ConcatElems
<1> QED BY <1>1, <1>2

\* A sequence is cut in two.
LEMMA SplitElems ==
  ASSUME NEW S, NEW s \in Seq(S), NEW k \in 0..Len(s)
  PROVE  LET p == SubSeq(s, 1, k)
             q == SubSeq(s, k + 1, Len(s))
         IN  /\ p \in Seq(S) /\ q \in Seq(S) /\ Len(p) = k
             /\ Elems(s) = Elems(p) \cup Elems(q)
             /\ Distinct(s) => Distinct(p) /\ Distinct(q) /\ Elems(p) \cap Elems(q) = {}
<1> DEFINE p == SubSeq(s, 1, k)
           q == SubSeq(s, k + 1, Len(s))
<1>1. /\ p \in Seq(S) /\ Len(p) = k /\ \A i \in 1..k : p[i] = s[i]
  OBVIOUS
<1>2. /\ q \in Seq(S) /\ Len(q) = Len(s) - k /\ \A i \in 1..Len(s) - k : q[i] = s[k + i]
  OBVIOUS
<1>3. Len(s) \in Nat /\ k \in Nat /\ k <= Len(s)
  OBVIOUS
<1> HIDE DEF p, q
<1>4. Elems(p) \cup Elems(q) \subseteq Elems(s)
  <2>1. \A i \in 1..Len(p) : i \in 1..Len(s) /\ p[i] = s[i]
    BY <1>1, <1>3
  <2>2. \A i \in 1..Len(q) : k + i \in 1..Len(s) /\ q[i] = s[k + i]
    BY <1>2, <1>3
  <2> QED BY <2>1, <2>2 DEF Elems
<1>5. Elems(s) \subseteq Elems(p) \cup Elems(q)
  <2> SUFFICES ASSUME NEW i \in 1..Len(s) PROVE s[i] \in Elems(p) \cup Elems(q)
    BY DEF Elems
  <2>1. CASE i <= k
    BY <1>1, <1>3, <2>1 DEF Elems
  <2>2. CASE ~(i <= k)
    <3>1. i - k \in 1..Len(s) - k /\ k + (i - k) = i
      BY <1>3, <2>2
    <3>2. q[i - k] = s[i] /\ i - k \in 1..Len(q)
      BY <1>2, <3>1
    <3> QED BY <3>2 DEF Elems
  <2> QED BY <2>1, <2>2
<1>6. ASSUME Distinct(s)
      PROVE  Distinct(p) /\ Distinct(q) /\ Elems(p) \cap Elems(q) = {}
  <2>1. Distinct(p)
    BY <1>1, <1>3, <1>6 DEF Distinct
  <2>2. Distinct(q)
    <3> SUFFICES ASSUME NEW i \in 1..Len(q), NEW j \in 1..Len(q), q[i] = q[j] PROVE i = j
      BY DEF Distinct
    <3>1. s[k + i] = s[k + j] /\ k + i \in 1..Len(s) /\ k + j \in 1..Len(s)
      BY <1>2, <1>3
    <3>2. k + i = k + j
      BY <1>6, <3>1 DEF Distinct
    <3> QED BY <1>3, <3>2
  <2>3. ASSUME NEW i \in 1..Len(p), NEW j \in 1..Len(q), p[i] = q[j] PROVE FALSE
    <3>1. s[i] = s[k + j] /\ i \in 1..Len(s) /\ k + j \in 1..Len(s) /\ i # k + j
      BY <1>1, <1>2, <1>3, <2>3
    <3> QED BY <1>6, <3>1 DEF Distinct
  <2> QED BY <2>1, <2>2, <2>3 DEF Elems
<1> QED BY <1>1, <1>2, <1>4, <1>5, <1>6 DEF p, q

\* The sequences of a set have each of its elements once.
LEMMA SetToSeqsElems ==
  ASSUME NEW S, IsFiniteSet(S), NEW q \in SetToSeqs(S)
  PROVE  q \in Seq(S) /\ Elems(q) = S /\ Distinct(q)
<1> DEFINE n == Cardinality(S)
<1>1. n \in Nat
  BY FS_CardinalityType
<1>2. q \in [1..n -> S] /\ \A i, j \in 1..n : i # j => q[i] # q[j]
  BY DEF SetToSeqs
<1>3. q \in Seq(S) /\ Len(q) = n
  BY <1>1, <1>2
<1>4. q \in Injection(1..n, S)
  BY <1>2 DEF Injection, IsInjective
<1>5. IsFiniteSet(1..n) /\ Cardinality(1..n) = n
  BY <1>1, FS_Interval
<1>6. q \in Surjection(1..n, S)
  BY <1>4, <1>5, FS_Injection
<1> HIDE DEF n
<1> QED BY <1>2, <1>3, <1>6 DEF Elems, Distinct, Surjection

-----------------------------------------------------------------------------
(* Sequences that are built element by element *)

\* FlattenSeq is a recursive function: there is one, by induction on its domain.
LEMMA FlattenStep ==
  ASSUME NEW S, NEW n \in Nat, n >= 1, NEW s \in [1..n -> Seq(S)]
  PROVE  \E f : /\ FlattenSeq(s) = f[n]
                /\ f[1] = s[1] /\ \A i \in 2..n : f[i] = f[i - 1] \o s[i]
<1> DEFINE Is(f, k) == f = [i \in 1..k |-> IF i = 1 THEN s[i] ELSE f[i - 1] \o s[i]]
           P == {k \in Nat : \E f : Is(f, k)}
<1>1. 0 \in P
  <2>1. Is([i \in 1..0 |-> <<>>], 0)
    OBVIOUS
  <2> QED BY <2>1
<1>2. ASSUME NEW k \in Nat, k \in P PROVE k + 1 \in P
  <2>1. PICK f : Is(f, k)
    BY <1>2
  <2> DEFINE g == [i \in 1..k + 1 |->
                     IF i <= k THEN f[i] ELSE IF i = 1 THEN s[i] ELSE f[i - 1] \o s[i]]
  <2>2. \A i \in 1..k : g[i] = f[i] /\ f[i] = (IF i = 1 THEN s[i] ELSE f[i - 1] \o s[i])
    <3>1. \A i \in 1..k : f[i] = (IF i = 1 THEN s[i] ELSE f[i - 1] \o s[i])
      BY <2>1, Zenon
    <3>2. \A i \in 1..k : i \in 1..k + 1 /\ i <= k
      OBVIOUS
    <3> QED BY <3>1, <3>2
  <2>3. \A i \in 1..k + 1 : g[i] = IF i = 1 THEN s[i] ELSE g[i - 1] \o s[i]
    <3> TAKE i \in 1..k + 1
    <3>1. CASE i = 1
      <4>1. i <= k => i \in 1..k
        BY <3>1
      <4>2. i <= k => g[i] = s[i]
        BY <2>2, <3>1, <4>1
      <4>3. ~(i <= k) => g[i] = s[i]
        BY <3>1
      <4> QED BY <3>1, <4>2, <4>3
    <3>2. CASE i # 1 /\ i <= k
      <4>1. i \in 1..k /\ i - 1 \in 1..k
        BY <3>2
      <4> QED BY <2>2, <3>2, <4>1
    <3>3. CASE i # 1 /\ ~(i <= k)
      <4>1. i - 1 \in 1..k
        BY <3>3
      <4>2. g[i - 1] = f[i - 1]
        BY <2>2, <4>1
      <4> QED BY <3>3, <4>2
    <3> QED BY <3>1, <3>2, <3>3
  <2>4. g = [i \in 1..k + 1 |-> g[i]]
    OBVIOUS
  <2> HIDE DEF g
  <2>5. Is(g, k + 1)
    BY <2>3, <2>4, Zenon
  <2>6. \E h : Is(h, k + 1)
    BY <2>5, Zenon
  <2> HIDE DEF Is
  <2> QED BY <2>6
<1>3. n \in P
  <2> HIDE DEF P
  <2>1. Nat \subseteq P
    BY <1>1, <1>2, SetInduction
  <2> QED BY <2>1
<1> DEFINE flat == CHOOSE f : Is(f, n)
<1>4. Is(flat, n)
  BY <1>3
<1>5. DOMAIN s = 1..n /\ Len(s) = n /\ n # 0
  BY LenProperties
<1>6. FlattenSeq(s) = flat[n]
  BY <1>5, Zenon DEF FlattenSeq
<1> HIDE DEF flat
<1>7. \A i \in 1..n : flat[i] = IF i = 1 THEN s[i] ELSE flat[i - 1] \o s[i]
  BY <1>4
<1>8. flat[1] = s[1]
  BY <1>7
<1>9. \A i \in 2..n : flat[i] = flat[i - 1] \o s[i]
  <2>1. \A i \in 2..n : i \in 1..n /\ i # 1
    OBVIOUS
  <2> QED BY <1>7, <2>1
<1>10. /\ FlattenSeq(s) = flat[n]
       /\ flat[1] = s[1] /\ \A i \in 2..n : flat[i] = flat[i - 1] \o s[i]
  BY <1>6, <1>8, <1>9, Zenon
<1> QED BY <1>10, Zenon

LEMMA FlattenElems ==
  ASSUME NEW S, NEW n \in Nat, n >= 1, NEW s \in [1..n -> Seq(S)]
  PROVE  /\ FlattenSeq(s) \in Seq(S)
         /\ Elems(FlattenSeq(s)) = UNION {Elems(s[i]) : i \in 1..n}
         /\ (/\ \A i \in 1..n : Distinct(s[i])
             /\ \A i, j \in 1..n : i # j => Elems(s[i]) \cap Elems(s[j]) = {})
            => Distinct(FlattenSeq(s))
<1> DEFINE Apart == /\ \A i \in 1..n : Distinct(s[i])
                    /\ \A i, j \in 1..n : i # j => Elems(s[i]) \cap Elems(s[j]) = {}
<1>1. PICK f : /\ FlattenSeq(s) = f[n]
               /\ f[1] = s[1] /\ \A i \in 2..n : f[i] = f[i - 1] \o s[i]
  BY FlattenStep
<1> DEFINE Good(k) == /\ f[k] \in Seq(S)
                      /\ Elems(f[k]) = UNION {Elems(s[i]) : i \in 1..k}
                      /\ Apart => Distinct(f[k])
           P == {k \in Nat : k + 1 <= n => Good(k + 1)}
<1>2. 0 \in P
  <2>1. 1..1 = {1} /\ 1 \in 1..n
    OBVIOUS
  <2> QED BY <1>1, <2>1
<1>3. ASSUME NEW k \in Nat, k \in P PROVE k + 1 \in P
  <2> SUFFICES ASSUME (k + 1) + 1 <= n PROVE Good((k + 1) + 1)
    OBVIOUS
  <2> DEFINE m == k + 1
             t == f[m]
             u == s[m + 1]
  <2>1. m \in Nat /\ m >= 1 /\ m + 1 <= n /\ m + 1 \in 1..n /\ m + 1 \in 2..n /\ (m + 1) - 1 = m
    OBVIOUS
  <2>2. Good(m)
    BY <1>3
  <2>3. f[m + 1] = t \o u /\ u \in Seq(S)
    BY <1>1, <2>1
  <2>4. 1..m + 1 = (1..m) \cup {m + 1}
    BY <2>1
  <2> HIDE DEF m, Apart
  <2>5. t \in Seq(S) /\ Elems(t) = UNION {Elems(s[i]) : i \in 1..m} /\ (Apart => Distinct(t))
    BY <2>2
  <2>6. /\ t \o u \in Seq(S) /\ Elems(t \o u) = Elems(t) \cup Elems(u)
        /\ Distinct(t) /\ Distinct(u) /\ Elems(t) \cap Elems(u) = {} => Distinct(t \o u)
    BY <2>3, <2>5, ConcatElems
  <2>7. Elems(t \o u) = UNION {Elems(s[i]) : i \in 1..m + 1}
    BY <2>4, <2>5, <2>6
  <2>8. Apart => Distinct(u) /\ Elems(t) \cap Elems(u) = {}
    <3>1. \A i \in 1..m : i \in 1..n /\ i # m + 1
      BY <2>1
    <3> QED BY <2>1, <2>5, <3>1 DEF Apart
  <2>9. Good(m + 1)
    BY <2>3, <2>5, <2>6, <2>7, <2>8
  <2> QED BY <2>9 DEF m
<1>4. Good(n)
  <2> HIDE DEF P
  <2>1. Nat \subseteq P
    BY <1>2, <1>3, SetInduction
  <2>2. n - 1 \in P /\ (n - 1) + 1 = n
    BY <2>1
  <2> HIDE DEF Good
  <2>3. (n - 1) + 1 <= n => Good((n - 1) + 1)
    BY <2>2 DEF P
  <2> QED BY <2>2, <2>3
<1> QED BY <1>1, <1>4

LEMMA FlattenNone == FlattenSeq(<<>>) = <<>>
BY DEF FlattenSeq

\* What is appended is flattened last.
LEMMA FlattenAppend ==
  ASSUME NEW S, NEW s \in Seq(Seq(S)), NEW x \in Seq(S)
  PROVE  /\ FlattenSeq(Append(s, x)) = FlattenSeq(s) \o x
         /\ FlattenSeq(s) \in Seq(S)
<1> DEFINE n == Len(s)
           t == Append(s, x)
           T == Seq(S)
<1> HIDE DEF T
<1>0. s \in Seq(T) /\ x \in T
  BY DEF T
<1>1. n \in Nat /\ s \in [1..n -> T] /\ (n = 0 <=> s = <<>>)
  BY <1>0, LenProperties, EmptySeq
<1>2. t \in [1..n + 1 -> T] /\ t[n + 1] = x /\ \A i \in 1..n : t[i] = s[i]
  <2>1. /\ t \in Seq(T) /\ Len(t) = n + 1 /\ t[n + 1] = x
        /\ \A i \in 1..n : t[i] = s[i]
    BY <1>0, AppendProperties
  <2> HIDE DEF n, t
  <2> QED BY <2>1, LenProperties
<1> USE DEF T
<1>3. FlattenSeq(s) \in Seq(S)
  <2> HIDE DEF n
  <2>1. CASE n = 0
    <3>1. <<>> \in Seq(S)
      OBVIOUS
    <3> QED BY <1>1, <2>1, <3>1, FlattenNone
  <2>2. CASE n # 0
    <3>1. n >= 1
      BY <1>1, <2>2
    <3> QED BY <1>1, <3>1, FlattenElems
  <2> QED BY <2>1, <2>2
<1> HIDE DEF n, t
<1>4. PICK g : /\ FlattenSeq(t) = g[n + 1]
               /\ g[1] = t[1] /\ \A i \in 2..n + 1 : g[i] = g[i - 1] \o t[i]
  <2>1. n + 1 \in Nat /\ n + 1 >= 1
    BY <1>1
  <2>2. \E g : /\ FlattenSeq(t) = g[n + 1]
               /\ g[1] = t[1] /\ \A i \in 2..n + 1 : g[i] = g[i - 1] \o t[i]
    BY <1>2, <2>1, FlattenStep
  <2> QED BY <2>2, Zenon
<1>5. CASE n = 0
  <2>1. FlattenSeq(t) = x
    BY <1>2, <1>4, <1>5
  <2>2. FlattenSeq(s) = <<>> /\ <<>> \o x = x
    BY <1>1, <1>5, FlattenNone
  <2> QED BY <1>3, <2>1, <2>2 DEF t
<1>6. CASE n # 0
  <2>1. PICK f : FlattenSeq(s) = f[n] /\ f[1] = s[1] /\ \A i \in 2..n : f[i] = f[i - 1] \o s[i]
    <3>1. n >= 1
      BY <1>1, <1>6
    <3>2. \E f : /\ FlattenSeq(s) = f[n]
                 /\ f[1] = s[1] /\ \A i \in 2..n : f[i] = f[i - 1] \o s[i]
      BY <1>1, <3>1, FlattenStep
    <3> QED BY <3>2, Zenon
  <2> DEFINE P == {k \in Nat : k + 1 <= n => f[k + 1] = g[k + 1]}
  <2>2. 0 \in P
    BY <1>1, <1>2, <1>4, <1>6, <2>1
  <2>3. ASSUME NEW k \in Nat, k \in P PROVE k + 1 \in P
    <3> SUFFICES ASSUME (k + 1) + 1 <= n PROVE f[(k + 1) + 1] = g[(k + 1) + 1]
      OBVIOUS
    <3>1. /\ (k + 1) + 1 \in 2..n /\ (k + 1) + 1 \in 2..n + 1 /\ (k + 1) + 1 \in 1..n
          /\ ((k + 1) + 1) - 1 = k + 1 /\ k + 1 <= n
      BY <1>1
    <3>2. f[k + 1] = g[k + 1]
      BY <2>3, <3>1
    <3>3. t[(k + 1) + 1] = s[(k + 1) + 1]
      BY <1>2, <3>1
    <3>4. f[(k + 1) + 1] = f[((k + 1) + 1) - 1] \o s[(k + 1) + 1]
      BY <2>1, <3>1
    <3>5. g[(k + 1) + 1] = g[((k + 1) + 1) - 1] \o t[(k + 1) + 1]
      BY <1>4, <3>1
    <3> QED BY <3>1, <3>2, <3>3, <3>4, <3>5
  <2>4. f[n] = g[n]
    <3> HIDE DEF P
    <3>1. Nat \subseteq P
      BY <2>2, <2>3, SetInduction
    <3>2. n - 1 \in P /\ (n - 1) + 1 = n
      BY <1>1, <1>6, <3>1
    <3> QED BY <1>1, <3>2 DEF P
  <2>5. n + 1 \in 2..n + 1 /\ (n + 1) - 1 = n
    BY <1>1, <1>6
  <2>6. g[n + 1] = g[n] \o x
    BY <1>2, <1>4, <2>5
  <2> QED BY <1>3, <1>4, <2>1, <2>4, <2>6 DEF t
<1> QED BY <1>5, <1>6

\* A series in the middle of a longer one.
LEMMA Middle ==
  ASSUME NEW S, NEW a \in Seq(S), NEW b \in Seq(S), NEW c \in Seq(S)
  PROVE  SubSeq((a \o b) \o c, Len(a) + 1, Len(a) + Len(b)) = b
<1> DEFINE s == (a \o b) \o c
           n == Len(a)
           l == Len(b)
           t == SubSeq(s, n + 1, n + l)
<1>1. n \in Nat /\ l \in Nat /\ a \o b \in Seq(S) /\ Len(a \o b) = n + l
  OBVIOUS
<1>2. \A i \in 1..l : (a \o b)[n + i] = b[i]
  OBVIOUS
<1>3. s \in Seq(S) /\ \A i \in 1..n + l : s[i] = (a \o b)[i]
  <2> DEFINE d == a \o b
  <2>1. d \in Seq(S) /\ Len(d) = n + l
    BY <1>1
  <2> HIDE DEF d, n, l
  <2>2. d \o c \in Seq(S) /\ \A i \in 1..n + l : (d \o c)[i] = d[i]
    BY <1>1, <2>1
  <2> QED BY <2>2 DEF d
<1> HIDE DEF s, n, l
<1>4. \A i \in 1..l : s[n + i] = b[i]
  <2> TAKE i \in 1..l
  <2>1. n + i \in 1..n + l
    BY <1>1
  <2> QED BY <1>2, <1>3, <2>1
<1>5. \A i \in n + 1..n + l : s[i] \in S
  <2> TAKE i \in n + 1..n + l
  <2>1. i - n \in 1..l /\ n + (i - n) = i
    BY <1>1
  <2>2. b[i - n] \in S
    BY <2>1 DEF l
  <2> QED BY <1>4, <2>1, <2>2
<1>6. t \in Seq(S) /\ Len(t) = l /\ \A i \in 1..l : t[i] = s[n + i]
  <2>1. /\ t \in Seq(S) /\ Len(t) = (IF n + 1 <= n + l THEN (n + l) - (n + 1) + 1 ELSE 0)
        /\ \A i \in 1..(n + l) - (n + 1) + 1 : t[i] = s[(n + 1) + i - 1]
    BY <1>1, <1>5, SubSeqProperties
  <2>2. \A i \in 1..l : i \in 1..(n + l) - (n + 1) + 1 /\ (n + 1) + i - 1 = n + i
    BY <1>1
  <2> HIDE DEF t
  <2> QED BY <1>1, <2>1, <2>2
<1> HIDE DEF t
<1>7. t = b
  BY <1>1, <1>4, <1>6, SeqEqual DEF l
<1> QED BY <1>7 DEF t, s, n, l

\* What is in the first part of a series is there whatever follows.
LEMMA SliceKept ==
  ASSUME NEW S, NEW a \in Seq(S), NEW b \in Seq(S), NEW i \in Nat, NEW l \in Nat, i + l <= Len(a)
  PROVE  SubSeq(a \o b, i + 1, i + l) = SubSeq(a, i + 1, i + l)
<1>1. CASE l = 0
  <2>1. i + l < i + 1
    BY <1>1
  <2> QED BY <2>1, SubSeqEmpty
<1>2. CASE l # 0
  <2>1. i + 1 \in 1..Len(a) /\ i + l \in 1..Len(a)
    BY <1>2
  <2> QED BY <2>1, SubSeqOfConcat1
<1> QED BY <1>1, <1>2

\* The next element of a series moves from what is to come to what was.
LEMMA OneMore ==
  ASSUME NEW S, NEW s \in Seq(S), NEW n \in 0..Len(s), SubSeq(s, n + 1, Len(s)) # <<>>
  PROVE  /\ n + 1 \in 0..Len(s) /\ Head(SubSeq(s, n + 1, Len(s))) \in S
         /\ Tail(SubSeq(s, n + 1, Len(s))) = SubSeq(s, (n + 1) + 1, Len(s))
         /\ SubSeq(s, 1, n) \in Seq(S)
         /\ SubSeq(s, 1, n + 1) = Append(SubSeq(s, 1, n), Head(SubSeq(s, n + 1, Len(s))))
<1>1. Len(s) \in Nat /\ n \in Nat
  OBVIOUS
<1>2. n + 1 <= Len(s)
  <2>1. n = Len(s) => Len(s) < n + 1
    BY <1>1
  <2>2. n = Len(s) => SubSeq(s, n + 1, Len(s)) = <<>>
    BY <1>1, <2>1, SubSeqEmpty
  <2> QED BY <1>1, <2>2
<1>3. n + 1 \in 1..Len(s) /\ Len(s) \in n + 1..Len(s) /\ 1 \in 1..Len(s) /\ n + 1 \in 1..Len(s)
  BY <1>1, <1>2
<1>4. /\ Head(SubSeq(s, n + 1, Len(s))) = s[n + 1]
      /\ Tail(SubSeq(s, n + 1, Len(s))) = SubSeq(s, (n + 1) + 1, Len(s))
  BY <1>3, HeadTailOfSubSeq
<1>5. s[n + 1] \in S
  BY <1>3
<1>6. SubSeq(s, 1, n) \in Seq(S)
  BY SplitElems
<1>7. SubSeq(s, 1, n + 1) = SubSeq(s, 1, (n + 1) - 1) \o <<s[n + 1]>>
  BY <1>3, SubSeqRecursiveSecond
<1>8. SubSeq(s, 1, n) \o <<s[n + 1]>> = Append(SubSeq(s, 1, n), s[n + 1])
  BY <1>5, <1>6, AppendIsConcat
<1>9. (n + 1) - 1 = n /\ n + 1 \in 0..Len(s)
  BY <1>1, <1>2
<1> QED BY <1>4, <1>5, <1>6, <1>7, <1>8, <1>9
=============================================================================
