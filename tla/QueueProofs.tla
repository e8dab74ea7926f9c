---------------------------- MODULE QueueProofs ----------------------------
(***************************************************************************)
(* That the links of queue.h implement lists, for every number of heads    *)
(* and of entries and every series of macros: Queue implements Lists.      *)
(***************************************************************************)
EXTENDS Queue, QueueLemmas

-----------------------------------------------------------------------------
(* Links that form a list *)

Link(m, x, y) == m.next[x] = y /\ m.prev[y] = x

\* The cells from x over the elements of s to y, of which x is the 0th.
CellAt(x, s, y, i) == IF i = 0 THEN x ELSE IF i = Len(s) + 1 THEN y ELSE s[i]

Segment(m, x, s, y) == \A i \in 0..Len(s) : Link(m, CellAt(x, s, y, i), CellAt(x, s, y, i + 1))

\* The links of m hold the lists ls; what is in no list may have been initialized.
Holds(m, ls) ==
  /\ m \in [next : [Cells -> Cells], prev : [Cells -> Cells]]
  /\ ls \in [Heads -> Seq(Entries)]
  /\ \A h \in Heads : Distinct(ls[h]) /\ Segment(m, h, ls[h], h)
  /\ \A g, h \in Heads : g # h => Elems(ls[g]) \cap Elems(ls[h]) = {}
  /\ \A q \in Entries : m.next[q] = q => m.prev[q] = q

LinksInv == \E ls : Holds(links, ls)

\* A list is cut at one of its elements.
LEMMA SegmentCut ==
  ASSUME NEW S, NEW a \in Seq(S), NEW b \in Seq(S), NEW q \in S, NEW m, NEW x, NEW y
  PROVE  Segment(m, x, a \o (<<q>> \o b), y) <=> Segment(m, x, a, q) /\ Segment(m, q, b, y)
<1> DEFINE s == a \o (<<q>> \o b)
           n == Len(a)
           l == Len(b)
<1>1. n \in Nat /\ l \in Nat /\ s \in Seq(S) /\ Len(s) = n + l + 1
  OBVIOUS
<1>2. /\ \A i \in 1..n : s[i] = a[i]
      /\ s[n + 1] = q
      /\ \A i \in 1..l : s[n + 1 + i] = b[i]
  OBVIOUS
<1> HIDE DEF s, n, l
<1>3. \A i \in 0..n + 1 : CellAt(x, s, y, i) = CellAt(x, a, q, i)
  BY <1>1, <1>2 DEF CellAt, n
<1>4. \A i \in 0..l + 1 : CellAt(x, s, y, n + 1 + i) = CellAt(q, b, y, i)
  BY <1>1, <1>2 DEF CellAt, l
<1>5. ASSUME Segment(m, x, s, y)
      PROVE  Segment(m, x, a, q) /\ Segment(m, q, b, y)
  <2>1. ASSUME NEW i \in 0..n PROVE Link(m, CellAt(x, a, q, i), CellAt(x, a, q, i + 1))
    <3>1. i \in 0..Len(s) /\ i \in 0..n + 1 /\ i + 1 \in 0..n + 1
      BY <1>1
    <3> QED BY <1>3, <1>5, <3>1 DEF Segment
  <2>2. ASSUME NEW i \in 0..l PROVE Link(m, CellAt(q, b, y, i), CellAt(q, b, y, i + 1))
    <3>1. n + 1 + i \in 0..Len(s) /\ i \in 0..l + 1 /\ i + 1 \in 0..l + 1 /\ n + 1 + i + 1 = n + 1 + (i + 1)
      BY <1>1
    <3> QED BY <1>4, <1>5, <3>1 DEF Segment
  <2> QED BY <2>1, <2>2 DEF Segment, n, l
<1>6. ASSUME Segment(m, x, a, q), Segment(m, q, b, y)
      PROVE  Segment(m, x, s, y)
  <2> SUFFICES ASSUME NEW i \in 0..Len(s) PROVE Link(m, CellAt(x, s, y, i), CellAt(x, s, y, i + 1))
    BY DEF Segment
  <2>1. CASE i <= n
    <3>1. i \in 0..n /\ i \in 0..n + 1 /\ i + 1 \in 0..n + 1
      BY <1>1, <2>1
    <3> QED BY <1>3, <1>6, <3>1 DEF Segment, n
  <2>2. CASE ~(i <= n)
    <3> DEFINE j == i - (n + 1)
    <3>1. /\ j \in 0..l /\ j \in 0..l + 1 /\ j + 1 \in 0..l + 1
          /\ n + 1 + j = i /\ n + 1 + (j + 1) = i + 1
      BY <1>1, <2>2
    <3> HIDE DEF j
    <3>2. Link(m, CellAt(q, b, y, j), CellAt(q, b, y, j + 1))
      BY <1>6, <3>1 DEF Segment, l
    <3>3. CellAt(x, s, y, i) = CellAt(q, b, y, j) /\ CellAt(x, s, y, i + 1) = CellAt(q, b, y, j + 1)
      BY <1>4, <3>1
    <3> QED BY <3>2, <3>3
  <2> QED BY <2>1, <2>2
<1> QED BY <1>5, <1>6 DEF s

LEMMA SegmentNone == ASSUME NEW m, NEW x, NEW y PROVE Segment(m, x, <<>>, y) <=> Link(m, x, y)
BY DEF Segment, CellAt

LEMMA SegmentOne ==
  ASSUME NEW S, NEW q \in S, NEW m, NEW x, NEW y
  PROVE  Segment(m, x, <<q>>, y) <=> Link(m, x, q) /\ Link(m, q, y)
<1>1. <<>> \in Seq(S) /\ <<>> \o (<<q>> \o <<>>) = <<q>>
  OBVIOUS
<1>2. Segment(m, x, <<>> \o (<<q>> \o <<>>), y) <=> Segment(m, x, <<>>, q) /\ Segment(m, q, <<>>, y)
  BY <1>1, SegmentCut
<1> QED BY <1>1, <1>2, SegmentNone

LEMMA SegmentCons ==
  ASSUME NEW S, NEW b \in Seq(S), NEW q \in S, NEW m, NEW x, NEW y
  PROVE  Segment(m, x, <<q>> \o b, y) <=> Link(m, x, q) /\ Segment(m, q, b, y)
<1>1. <<>> \in Seq(S) /\ <<>> \o (<<q>> \o b) = <<q>> \o b
  OBVIOUS
<1> QED BY <1>1, SegmentCut, SegmentNone

\* What is written elsewhere leaves a segment as it is.
LEMMA SegmentFrame ==
  ASSUME NEW S, NEW s \in Seq(S), NEW m, NEW k, NEW x, NEW y, Segment(m, x, s, y),
         \A c \in Elems(s) : k.next[c] = m.next[c] /\ k.prev[c] = m.prev[c],
         k.next[x] = m.next[x], k.prev[y] = m.prev[y]
  PROVE  Segment(k, x, s, y)
<1> SUFFICES ASSUME NEW i \in 0..Len(s) PROVE Link(k, CellAt(x, s, y, i), CellAt(x, s, y, i + 1))
  BY DEF Segment
<1> DEFINE c == CellAt(x, s, y, i)
           d == CellAt(x, s, y, i + 1)
<1>1. Len(s) \in Nat
  OBVIOUS
<1>2. c = x \/ c \in Elems(s)
  BY <1>1 DEF CellAt, Elems
<1>3. d = y \/ d \in Elems(s)
  BY <1>1 DEF CellAt, Elems
<1>4. m.next[c] = d /\ m.prev[d] = c
  BY DEF Segment, Link
<1> HIDE DEF c, d
<1>5. k.next[c] = d /\ k.prev[d] = c
  BY <1>2, <1>3, <1>4
<1> QED BY <1>5 DEF Link, c, d

\* The last cell of a segment.
EndOf(x, s) == CellAt(x, s, x, Len(s))

\* A segment gets another end.
LEMMA SegmentEnd ==
  ASSUME NEW S, NEW s \in Seq(S), NEW m, NEW k, NEW x, NEW y, NEW z, Segment(m, x, s, y),
         Distinct(s), x \notin Elems(s), Link(k, EndOf(x, s), z),
         \A c \in Elems(s) : k.prev[c] = m.prev[c],
         \A c \in Elems(s) \cup {x} : c # EndOf(x, s) => k.next[c] = m.next[c]
  PROVE  Segment(k, x, s, z)
<1> SUFFICES ASSUME NEW i \in 0..Len(s) PROVE Link(k, CellAt(x, s, z, i), CellAt(x, s, z, i + 1))
  BY DEF Segment
<1>1. Len(s) \in Nat
  OBVIOUS
<1>2. CASE i = Len(s)
  <2>1. CellAt(x, s, z, i) = EndOf(x, s) /\ CellAt(x, s, z, i + 1) = z
    BY <1>1, <1>2 DEF CellAt, EndOf
  <2> QED BY <2>1
<1>3. CASE i < Len(s)
  <2> DEFINE c == CellAt(x, s, y, i)
             d == CellAt(x, s, y, i + 1)
  <2>1. c = CellAt(x, s, z, i) /\ d = CellAt(x, s, z, i + 1) /\ d = s[i + 1]
    BY <1>1, <1>3 DEF CellAt
  <2>2. d \in Elems(s)
    BY <1>1, <1>3, <2>1 DEF Elems
  <2>3. c \in Elems(s) \cup {x} /\ c # EndOf(x, s)
    <3>1. CASE i = 0
      <4>1. c = x /\ EndOf(x, s) = s[Len(s)] /\ s[Len(s)] \in Elems(s)
        BY <1>1, <1>3, <3>1 DEF CellAt, EndOf, Elems
      <4> QED BY <4>1
    <3>2. CASE i # 0
      <4>1. c = s[i] /\ EndOf(x, s) = s[Len(s)] /\ i \in 1..Len(s) /\ Len(s) \in 1..Len(s)
        BY <1>1, <1>3, <3>2 DEF CellAt, EndOf
      <4>2. s[i] # s[Len(s)]
        BY <1>3, <4>1 DEF Distinct
      <4> QED BY <4>1, <4>2 DEF Elems
    <3> QED BY <3>1, <3>2
  <2>4. m.next[c] = d /\ m.prev[d] = c
    BY DEF Segment, Link
  <2> HIDE DEF c, d
  <2> QED BY <2>1, <2>2, <2>3, <2>4 DEF Link
<1> QED BY <1>1, <1>2, <1>3

LEMMA EndIs ==
  ASSUME NEW S, NEW s \in Seq(S), NEW m, NEW x, NEW y, Segment(m, x, s, y)
  PROVE  /\ m.prev[y] = EndOf(x, s) /\ m.next[EndOf(x, s)] = y
         /\ EndOf(x, s) \in Elems(s) \cup {x}
<1>1. Len(s) \in Nat
  OBVIOUS
<1>2. CellAt(x, s, y, Len(s) + 1) = y /\ CellAt(x, s, y, Len(s)) = EndOf(x, s)
  BY <1>1 DEF CellAt, EndOf
<1>3. Link(m, EndOf(x, s), y)
  BY <1>1, <1>2 DEF Segment
<1>4. Len(s) # 0 => EndOf(x, s) = s[Len(s)] /\ Len(s) \in 1..Len(s)
  BY <1>1 DEF CellAt, EndOf
<1>5. Len(s) = 0 => EndOf(x, s) = x
  BY DEF CellAt, EndOf
<1> QED BY <1>3, <1>4, <1>5 DEF Link, Elems

LEMMA HeadAndRest ==
  ASSUME NEW S, NEW s \in Seq(S), s # <<>>
  PROVE  s[1] \in S /\ Tail(s) \in Seq(S) /\ s = <<s[1]>> \o Tail(s)
OBVIOUS

-----------------------------------------------------------------------------
(* The operations of QUEUE_NEXT and QUEUE_PREV *)

LinkMaps == [next : [Cells -> Cells], prev : [Cells -> Cells]]

\* QUEUE_INSERT_TAIL: q goes between the last cell of the list and its head.
LEMMA InsertedTailIs ==
  ASSUME NEW m \in LinkMaps, NEW h \in Cells, NEW q \in Cells
  PROVE  LET k == InsertedTail(m, h, q)
             p == m.prev[h]
         IN  /\ k \in LinkMaps
             /\ k.next = [m.next EXCEPT ![q] = h, ![p] = q]
             /\ k.prev = [m.prev EXCEPT ![q] = p, ![h] = q]
BY DEF InsertedTail, SetNext, SetPrev, LinkMaps

LEMMA InsertedHeadIs ==
  ASSUME NEW m \in LinkMaps, NEW h \in Cells, NEW q \in Cells, q # m.next[h]
  PROVE  LET k == InsertedHead(m, h, q)
             n == m.next[h]
         IN  /\ k \in LinkMaps
             /\ k.next = [m.next EXCEPT ![q] = n, ![h] = q]
             /\ k.prev = [m.prev EXCEPT ![q] = h, ![n] = q]
BY DEF InsertedHead, SetNext, SetPrev, LinkMaps

LEMMA RemovedIs ==
  ASSUME NEW m \in LinkMaps, NEW q \in Cells, m.prev[q] # q \/ m.next[q] = q
  PROVE  LET k == Removed(m, q)
             p == m.prev[q]
             n == m.next[q]
         IN  /\ k \in LinkMaps
             /\ k.next = [m.next EXCEPT ![p] = n]
             /\ k.prev = [m.prev EXCEPT ![n] = p]
BY DEF Removed, SetNext, SetPrev, LinkMaps

LEMMA InitializedIs ==
  ASSUME NEW m \in LinkMaps, NEW q \in Cells
  PROVE  LET k == Initialized(m, q)
         IN  /\ k \in LinkMaps
             /\ k.next = [m.next EXCEPT ![q] = q]
             /\ k.prev = [m.prev EXCEPT ![q] = q]
BY DEF Initialized, SetNext, SetPrev, LinkMaps

\* QUEUE_ADD: the list of n, which is not empty, goes to the end of that of h.
LEMMA QueueAddedIs ==
  ASSUME NEW m \in LinkMaps, NEW h \in Cells, NEW n \in Cells, h # n,
         m.next[n] # n, m.next[n] # h, m.prev[h] # n
  PROVE  LET k == QueueAdded(m, h, n)
             p == m.prev[h]
             c == m.next[n]
             d == m.prev[n]
         IN  /\ k \in LinkMaps
             /\ k.next = [m.next EXCEPT ![p] = c, ![d] = h]
             /\ k.prev = [m.prev EXCEPT ![c] = p, ![h] = d]
BY DEF QueueAdded, SetNext, SetPrev, LinkMaps

\* QUEUE_SPLIT: the list of h is cut before q, and n gets what follows.
LEMMA SplitIs ==
  ASSUME NEW m \in LinkMaps, NEW h \in Cells, NEW n \in Cells, NEW q \in Cells,
         n # h, n # q, q # h, m.prev[h] # n
  PROVE  LET k == Split(m, h, q, n)
             p == m.prev[q]
             d == m.prev[h]
         IN  /\ k \in LinkMaps
             /\ k.next = [m.next EXCEPT ![d] = n, ![n] = q, ![p] = h]
             /\ k.prev = [m.prev EXCEPT ![n] = d, ![h] = p, ![q] = n]
BY DEF Split, SetNext, SetPrev, LinkMaps

-----------------------------------------------------------------------------
(* Walks *)

\* The cells a walk comes to, as Walk defines them.
Visits(f, h, n) == CHOOSE g : g = [k \in 0..n |-> IF k = 0 THEN f[h] ELSE f[g[k - 1]]]

\* They are a recursive function: there is one, by induction.
LEMMA VisitsAre ==
  ASSUME NEW f, NEW h, NEW n \in Nat
  PROVE  /\ DOMAIN Visits(f, h, n) = 0..n
         /\ \A k \in 0..n : Visits(f, h, n)[k] = IF k = 0 THEN f[h] ELSE f[Visits(f, h, n)[k - 1]]
<1> DEFINE Is(g, l) == g = [k \in 0..l |-> IF k = 0 THEN f[h] ELSE f[g[k - 1]]]
           P == {l \in Nat : \E g : Is(g, l)}
<1>1. 0 \in P
  <2> DEFINE g == [k \in 0..0 |-> f[h]]
  <2>1. g = [k \in 0..0 |-> IF k = 0 THEN f[h] ELSE f[g[k - 1]]]
    OBVIOUS
  <2> HIDE DEF g
  <2> QED BY <2>1
<1>2. ASSUME NEW l \in Nat, l \in P PROVE l + 1 \in P
  <2>1. PICK g : Is(g, l)
    BY <1>2
  <2> DEFINE e == [k \in 0..l + 1 |-> IF k <= l THEN g[k] ELSE f[g[l]]]
  <2>2. \A k \in 0..l : g[k] = (IF k = 0 THEN f[h] ELSE f[g[k - 1]])
    BY <2>1, Zenon
  <2>3. \A k \in 0..l + 1 : e[k] = IF k = 0 THEN f[h] ELSE f[e[k - 1]]
    <3> TAKE k \in 0..l + 1
    <3>1. CASE k <= l
      <4>1. k \in 0..l /\ e[k] = g[k] /\ (k # 0 => k - 1 \in 0..l + 1 /\ k - 1 <= l)
        BY <3>1
      <4>2. k # 0 => e[k - 1] = g[k - 1]
        BY <4>1
      <4>3. g[k] = IF k = 0 THEN f[h] ELSE f[g[k - 1]]
        BY <2>2, <4>1
      <4> HIDE DEF e
      <4> QED BY <4>1, <4>2, <4>3
    <3>2. CASE ~(k <= l)
      <4>1. k = l + 1 /\ k # 0 /\ k - 1 = l /\ l \in 0..l + 1
        BY <3>2
      <4>2. e[k] = f[g[l]] /\ e[l] = g[l]
        BY <4>1
      <4> QED BY <4>1, <4>2
    <3> QED BY <3>1, <3>2
  <2>4. e = [k \in 0..l + 1 |-> e[k]]
    OBVIOUS
  <2> HIDE DEF e
  <2>5. Is(e, l + 1)
    BY <2>3, <2>4, Zenon
  <2>6. \E g2 : Is(g2, l + 1)
    BY <2>5, Zenon
  <2> HIDE DEF Is
  <2> QED BY <2>6
<1>3. n \in P
  <2> HIDE DEF P
  <2>1. Nat \subseteq P
    BY <1>1, <1>2, SetInduction
  <2> QED BY <2>1
<1> DEFINE at == Visits(f, h, n)
<1>4. Is(at, n)
  BY <1>3, Zenon DEF Visits
<1> HIDE DEF at
<1>5. DOMAIN at = 0..n /\ \A k \in 0..n : at[k] = (IF k = 0 THEN f[h] ELSE f[at[k - 1]])
  BY <1>4, Zenon
<1> QED BY <1>5 DEF at

\* No list is longer than there are cells.
LEMMA ListFits ==
  ASSUME NEW s \in Seq(Entries), Distinct(s)
  PROVE  Len(s) \in 0..Cardinality(Cells) /\ Cardinality(Cells) \in Nat
<1>1. Len(s) \in Nat /\ s \in [1..Len(s) -> Entries]
  BY LenProperties
<1>2. IsFiniteSet(Cells) /\ Cardinality(Cells) \in Nat
  BY QueueAssumption, FS_CardinalityType DEF Cells
<1>3. s \in [1..Len(s) -> Cells]
  BY <1>1 DEF Cells
<1>4. s \in Injection(1..Len(s), Cells)
  BY <1>1, <1>3 DEF Distinct, Injection, IsInjective
<1>5. Cardinality(1..Len(s)) = Len(s)
  BY <1>1, FS_Interval
<1>6. Cardinality(1..Len(s)) <= Cardinality(Cells)
  BY <1>2, <1>4, FS_Injection
<1> QED BY <1>1, <1>2, <1>5, <1>6

LEMMA WalkIs ==
  ASSUME NEW f, NEW h \in Heads, NEW s \in Seq(Entries), Distinct(s),
         \A i \in 0..Len(s) : f[CellAt(h, s, h, i)] = CellAt(h, s, h, i + 1)
  PROVE  Walk(f, h) = s
<1> DEFINE n == Cardinality(Cells)
           at == Visits(f, h, n)
           end == {k \in DOMAIN at : at[k] = h}
           last == CHOOSE k \in end : \A j \in end : k <= j
           l == Len(s)
<1>1. l \in Nat /\ n \in Nat /\ l <= n
  BY ListFits
<1>2. Walk(f, h) = IF end = {} THEN <<>> ELSE [i \in 1..last |-> at[i - 1]]
  BY Zenon DEF Walk, Visits
<1>3. DOMAIN at = 0..n
  BY <1>1, VisitsAre
<1>4. \A k \in 0..n : at[k] = IF k = 0 THEN f[h] ELSE f[at[k - 1]]
  BY <1>1, VisitsAre
<1> HIDE DEF n, at, l
<1> DEFINE P == {k \in Nat : k <= l => at[k] = CellAt(h, s, h, k + 1)}
<1>5. 0 \in P
  <2>1. at[0] = f[h]
    BY <1>1, <1>4
  <2>2. f[CellAt(h, s, h, 0)] = CellAt(h, s, h, 0 + 1) /\ CellAt(h, s, h, 0) = h
    BY <1>1 DEF l, CellAt
  <2> QED BY <2>1, <2>2
<1>6. ASSUME NEW k \in Nat, k \in P PROVE k + 1 \in P
  <2> SUFFICES ASSUME k + 1 <= l PROVE at[k + 1] = CellAt(h, s, h, (k + 1) + 1)
    OBVIOUS
  <2>1. at[k + 1] = f[at[k]]
    <3>1. k + 1 \in 0..n /\ k + 1 # 0 /\ (k + 1) - 1 = k
      BY <1>1
    <3> QED BY <1>4, <3>1
  <2>2. at[k] = CellAt(h, s, h, k + 1)
    BY <1>1, <1>6
  <2>3. k + 1 \in 0..Len(s)
    BY <1>1 DEF l
  <2> QED BY <2>1, <2>2, <2>3
<1>7. \A k \in 0..l : at[k] = CellAt(h, s, h, k + 1)
  <2> HIDE DEF P
  <2>1. Nat \subseteq P
    BY <1>5, <1>6, SetInduction
  <2>2. \A k \in 0..l : k \in P /\ k <= l
    BY <1>1, <2>1
  <2> QED BY <2>2 DEF P
<1>8. at[l] = h
  BY <1>1, <1>7 DEF CellAt, l
<1>9. \A k \in 0..l : k < l => at[k] = s[k + 1] /\ at[k] # h
  <2> TAKE k \in 0..l
  <2> HAVE k < l
  <2>1. at[k] = s[k + 1]
    BY <1>1, <1>7 DEF CellAt, l
  <2>2. k + 1 \in 1..Len(s)
    BY <1>1 DEF l
  <2>3. s[k + 1] \in Entries
    BY <2>2
  <2> QED BY <2>1, <2>3, QueueAssumption
<1>10. l \in end /\ \A k \in end : l <= k
  <2>1. l \in end
    BY <1>1, <1>3, <1>8
  <2>2. ASSUME NEW k \in end, k < l PROVE FALSE
    <3>1. k \in 0..l /\ at[k] = h
      BY <1>1, <1>3, <2>2
    <3> QED BY <1>9, <2>2, <3>1
  <2> QED BY <1>1, <1>3, <2>1, <2>2
<1>11. last = l
  <2>1. last \in end /\ \A j \in end : last <= j
    BY <1>10
  <2>2. last <= l /\ l <= last /\ last \in 0..n
    BY <1>3, <1>10, <2>1
  <2> QED BY <1>1, <2>2
<1>12. Walk(f, h) = [i \in 1..l |-> at[i - 1]]
  BY <1>2, <1>10, <1>11
<1>13. [i \in 1..l |-> at[i - 1]] = [i \in 1..l |-> s[i]]
  <2>1. \A i \in 1..l : at[i - 1] = s[i]
    <3> TAKE i \in 1..l
    <3>1. i - 1 \in 0..l /\ i - 1 < l /\ (i - 1) + 1 = i
      BY <1>1
    <3> QED BY <1>9, <3>1
  <2> QED BY <2>1
<1>14. s = [i \in 1..l |-> s[i]]
  BY LenProperties DEF l
<1> QED BY <1>12, <1>13, <1>14

\* What QUEUE_FOREACH visits, and what it would visit backwards.
LEMMA WalksAre ==
  ASSUME NEW m, NEW ls, Holds(m, ls), NEW h \in Heads
  PROVE  Walk(m.next, h) = ls[h] /\ Walk(m.prev, h) = Reverse(ls[h])
<1> DEFINE s == ls[h]
           l == Len(s)
           r == Reverse(s)
<1>1. s \in Seq(Entries) /\ Distinct(s) /\ Segment(m, h, s, h) /\ l \in Nat
  BY DEF Holds
<1>2. Walk(m.next, h) = s
  <2>1. \A i \in 0..Len(s) : m.next[CellAt(h, s, h, i)] = CellAt(h, s, h, i + 1)
    BY <1>1 DEF Segment, Link
  <2> HIDE DEF s
  <2> QED BY <1>1, <2>1, WalkIs
<1> HIDE DEF s
<1>3. r = [i \in 1..l |-> s[(l - i) + 1]]
  BY DEF Reverse
<1>4. \A i \in 1..l : (l - i) + 1 \in 1..l
  BY <1>1
<1>5. r \in Seq(Entries) /\ Len(r) = l /\ \A i \in 1..l : r[i] = s[(l - i) + 1]
  <2>1. \A i \in 1..l : s[(l - i) + 1] \in Entries
    BY <1>1, <1>4 DEF l
  <2> HIDE DEF l, r
  <2>2. r \in Seq(Entries)
    BY <1>1, <1>3, <2>1, IsASeq
  <2>3. DOMAIN r = 1..l
    BY <1>3
  <2>4. Len(r) = l
    BY <1>1, <2>2, <2>3, LenProperties
  <2> QED BY <1>3, <2>2, <2>4
<1> HIDE DEF l, r
<1>6. Distinct(r)
  <2> SUFFICES ASSUME NEW i \in 1..l, NEW j \in 1..l, r[i] = r[j] PROVE i = j
    BY <1>5 DEF Distinct
  <2>1. (l - i) + 1 = (l - j) + 1
    BY <1>1, <1>4, <1>5 DEF Distinct, l
  <2> QED BY <1>1, <2>1
<1>7. \A i \in 0..l + 1 : CellAt(h, r, h, i) = CellAt(h, s, h, (l + 1) - i)
  <2> TAKE i \in 0..l + 1
  <2>1. CASE i = 0 \/ i = l + 1
    BY <1>1, <1>5, <2>1 DEF CellAt, l
  <2>2. CASE i # 0 /\ i # l + 1
    <3>1. i \in 1..l /\ (l + 1) - i = (l - i) + 1 /\ (l + 1) - i # 0 /\ (l + 1) - i # l + 1
      BY <1>1, <2>2
    <3>2. r[i] = s[(l + 1) - i]
      BY <1>5, <3>1
    <3> QED BY <1>5, <2>2, <3>1, <3>2 DEF CellAt, l
  <2> QED BY <2>1, <2>2
<1>8. \A i \in 0..Len(r) : m.prev[CellAt(h, r, h, i)] = CellAt(h, r, h, i + 1)
  <2> TAKE i \in 0..Len(r)
  <2> DEFINE j == l - i
  <2>1. /\ i \in 0..l + 1 /\ i + 1 \in 0..l + 1 /\ (l + 1) - i = j + 1 /\ (l + 1) - (i + 1) = j
        /\ j \in 0..Len(s)
    BY <1>1, <1>5 DEF l
  <2> HIDE DEF j
  <2>2. m.prev[CellAt(h, s, h, j + 1)] = CellAt(h, s, h, j)
    BY <1>1, <2>1 DEF Segment, Link
  <2>3. CellAt(h, r, h, i) = CellAt(h, s, h, j + 1) /\ CellAt(h, r, h, i + 1) = CellAt(h, s, h, j)
    <3>1. CellAt(h, r, h, i) = CellAt(h, s, h, (l + 1) - i)
      BY <1>7, <2>1
    <3>2. CellAt(h, r, h, i + 1) = CellAt(h, s, h, (l + 1) - (i + 1))
      BY <1>7, <2>1
    <3> QED BY <2>1, <3>1, <3>2
  <2> QED BY <2>2, <2>3
<1>9. Walk(m.prev, h) = r
  BY <1>5, <1>6, <1>8, WalkIs
<1> QED BY <1>2, <1>9 DEF r, s

LEMMA ListsShown ==
  ASSUME NEW m, NEW ls, Holds(m, ls)
  PROVE  /\ [h \in Heads |-> Walk(m.next, h)] = ls
         /\ \A h \in Heads : Walk(m.next, h) = ls[h] /\ Walk(m.prev, h) = Reverse(ls[h])
         /\ \A h \in Heads : ToSet(Walk(m.next, h)) = Elems(ls[h])
<1>1. \A h \in Heads : Walk(m.next, h) = ls[h] /\ Walk(m.prev, h) = Reverse(ls[h])
  BY WalksAre
<1>2. ls \in [Heads -> Seq(Entries)]
  BY DEF Holds
<1>3. [h \in Heads |-> Walk(m.next, h)] = ls
  BY <1>1, <1>2
<1>4. \A h \in Heads : ToSet(Walk(m.next, h)) = Elems(ls[h])
  BY <1>1, <1>2, ElemsOfSeq
<1> QED BY <1>1, <1>3, <1>4

-----------------------------------------------------------------------------
(* Steps *)

\* An element of a list is not linked to itself.
LEMMA NotItself ==
  ASSUME NEW S, NEW s \in Seq(S), NEW m, NEW x, NEW y, Segment(m, x, s, y),
         Distinct(s), y \notin Elems(s), NEW q \in Elems(s)
  PROVE  m.next[q] # q
<1>1. PICK i \in 1..Len(s) : q = s[i]
  BY DEF Elems
<1>2. Len(s) \in Nat
  OBVIOUS
<1>3. m.next[q] = CellAt(x, s, y, i + 1)
  <2>1. i \in 0..Len(s) /\ CellAt(x, s, y, i) = q
    BY <1>1, <1>2 DEF CellAt
  <2> QED BY <2>1 DEF Segment, Link
<1>4. CASE i = Len(s)
  <2>1. CellAt(x, s, y, i + 1) = y
    BY <1>2, <1>4 DEF CellAt
  <2> QED BY <1>3, <2>1
<1>5. CASE i # Len(s)
  <2>1. i + 1 \in 1..Len(s) /\ CellAt(x, s, y, i + 1) = s[i + 1] /\ i + 1 # i
    BY <1>2, <1>5 DEF CellAt
  <2>2. s[i + 1] # s[i]
    BY <2>1 DEF Distinct
  <2> QED BY <1>1, <1>3, <2>1, <2>2
<1> QED BY <1>4, <1>5

\* The lists of the heads C change, the links of the others do not.
Rewrites(m, ls, k, ks, C) ==
  /\ k \in LinkMaps /\ ks \in [Heads -> Seq(Entries)] /\ C \subseteq Heads
  /\ \A h \in Heads \ C :
       /\ ks[h] = ls[h]
       /\ \A c \in Elems(ls[h]) \cup {h} : k.next[c] = m.next[c] /\ k.prev[c] = m.prev[c]
  /\ \A h \in C : Distinct(ks[h]) /\ Segment(k, h, ks[h], h)
  /\ \A g \in Heads, h \in C : g # h => Elems(ks[g]) \cap Elems(ks[h]) = {}
  /\ \A q \in Entries : (\A h \in C : q \notin Elems(ks[h])) => (k.next[q] = q => k.prev[q] = q)

LEMMA HoldsAgain ==
  ASSUME NEW m, NEW ls, Holds(m, ls), NEW k, NEW ks, NEW C, Rewrites(m, ls, k, ks, C)
  PROVE  Holds(k, ks)
<1> USE DEF Rewrites
<1>1. ASSUME NEW h \in Heads PROVE Distinct(ks[h]) /\ Segment(k, h, ks[h], h)
  <2>1. CASE h \notin C
    <3>1. ks[h] = ls[h] /\ Distinct(ls[h]) /\ Segment(m, h, ls[h], h) /\ ls[h] \in Seq(Entries)
      BY <2>1 DEF Holds
    <3>2. Segment(k, h, ls[h], h)
      BY <2>1, <3>1, SegmentFrame
    <3> QED BY <3>1, <3>2
  <2> QED BY <2>1
<1>2. ASSUME NEW g \in Heads, NEW h \in Heads, g # h PROVE Elems(ks[g]) \cap Elems(ks[h]) = {}
  <2>1. CASE g \notin C /\ h \notin C
    BY <1>2, <2>1 DEF Holds
  <2> QED BY <1>2, <2>1
<1>3. ASSUME NEW q \in Entries, k.next[q] = q PROVE k.prev[q] = q
  <2>1. ASSUME NEW h \in Heads, q \in Elems(ks[h]) PROVE FALSE
    <3>1. ks[h] \in Seq(Entries) /\ h \notin Elems(ks[h])
      BY ElemsOfSeq, QueueAssumption
    <3> QED BY <1>1, <1>3, <2>1, <3>1, NotItself
  <2> QED BY <1>3, <2>1
<1> QED BY <1>1, <1>2, <1>3 DEF Holds, LinkMaps

LEMMA ListFacts ==
  ASSUME NEW m, NEW ls, Holds(m, ls), NEW h \in Heads
  PROVE  /\ m \in LinkMaps /\ ls \in [Heads -> Seq(Entries)]
         /\ ls[h] \in Seq(Entries) /\ Distinct(ls[h]) /\ Segment(m, h, ls[h], h)
         /\ Elems(ls[h]) \subseteq Entries /\ h \notin Entries /\ h \in Cells /\ Entries \subseteq Cells
         /\ \A g \in Heads : g # h => Elems(ls[g]) \cap Elems(ls[h]) = {}
         /\ \A g \in Heads : g \notin Elems(ls[h]) /\ Elems(ls[g]) \subseteq Entries /\ g \notin Entries
         /\ m.prev[h] = EndOf(h, ls[h]) /\ m.prev[h] \in Elems(ls[h]) \cup {h}
<1>1. ls \in [Heads -> Seq(Entries)] /\ Distinct(ls[h]) /\ Segment(m, h, ls[h], h)
  BY DEF Holds
<1>2. \A g \in Heads : Elems(ls[g]) \subseteq Entries
  BY <1>1, ElemsOfSeq
<1>3. m.prev[h] = EndOf(h, ls[h]) /\ m.prev[h] \in Elems(ls[h]) \cup {h}
  BY <1>1, EndIs
<1> QED BY <1>1, <1>2, <1>3, QueueAssumption DEF Holds, LinkMaps, Cells

LEMMA OneList ==
  ASSUME NEW m, NEW ls, Holds(m, ls), NEW k \in LinkMaps, NEW h \in Heads,
         NEW t \in Seq(Entries), Distinct(t), Segment(k, h, t, h),
         \A g \in Heads : g # h => Elems(ls[g]) \cap Elems(t) = {},
         \A g \in Heads \ {h} :
           \A c \in Elems(ls[g]) \cup {g} : k.next[c] = m.next[c] /\ k.prev[c] = m.prev[c],
         \A q \in Entries : q \notin Elems(t) => (k.next[q] = q => k.prev[q] = q)
  PROVE  Holds(k, [ls EXCEPT ![h] = t])
<1> DEFINE ks == [ls EXCEPT ![h] = t]
           C  == {h}
<1>1. ks \in [Heads -> Seq(Entries)] /\ ks[h] = t /\ \A g \in Heads \ {h} : ks[g] = ls[g]
  BY DEF Holds
<1> HIDE DEF ks
<1>2. \A g \in Heads \ C :
        /\ ks[g] = ls[g]
        /\ \A c \in Elems(ls[g]) \cup {g} : k.next[c] = m.next[c] /\ k.prev[c] = m.prev[c]
  BY <1>1
<1>3. \A g \in C : Distinct(ks[g]) /\ Segment(k, g, ks[g], g)
  BY <1>1
<1>4. \A g \in Heads, f \in C : g # f => Elems(ks[g]) \cap Elems(ks[f]) = {}
  BY <1>1
<1>5. \A q \in Entries : (\A g \in C : q \notin Elems(ks[g])) => (k.next[q] = q => k.prev[q] = q)
  BY <1>1
<1>6. C \in SUBSET Heads
  OBVIOUS
<1> HIDE DEF C
<1>7. Rewrites(m, ls, k, ks, C)
  BY <1>1, <1>2, <1>3, <1>4, <1>5, <1>6 DEF Rewrites
<1>8. Holds(k, ks)
  BY <1>7, HoldsAgain
<1> QED BY <1>8 DEF ks

\* A free element joins a list at its end, ...
LEMMA TailJoins ==
  ASSUME NEW m, NEW ls, Holds(m, ls), NEW h \in Heads, NEW q \in Entries,
         \A g \in Heads : q \notin Elems(ls[g])
  PROVE  Holds(InsertedTail(m, h, q), [ls EXCEPT ![h] = Append(@, q)])
<1> DEFINE s == ls[h]
           k == InsertedTail(m, h, q)
           p == m.prev[h]
           t == Append(s, q)
<1>1. /\ m \in LinkMaps /\ ls \in [Heads -> Seq(Entries)]
      /\ s \in Seq(Entries) /\ Distinct(s) /\ Segment(m, h, s, h)
      /\ Elems(s) \subseteq Entries /\ h \notin Entries /\ h \in Cells /\ Entries \subseteq Cells
      /\ \A g \in Heads : g # h => Elems(ls[g]) \cap Elems(s) = {}
      /\ \A g \in Heads : g \notin Elems(s) /\ Elems(ls[g]) \subseteq Entries /\ g \notin Entries
      /\ p = EndOf(h, s) /\ p \in Elems(s) \cup {h}
  BY ListFacts
<1>2. /\ k \in LinkMaps
      /\ k.next = [m.next EXCEPT ![q] = h, ![p] = q]
      /\ k.prev = [m.prev EXCEPT ![q] = p, ![h] = q]
  <2>1. m \in LinkMaps /\ h \in Cells /\ q \in Cells
    BY <1>1
  <2> HIDE DEF s, t
  <2> QED BY <2>1 DEF InsertedTail, SetNext, SetPrev, LinkMaps
<1>3. t \in Seq(Entries) /\ Elems(t) = Elems(s) \cup {q} /\ Distinct(t)
  BY <1>1, AppendElems
<1> HIDE DEF k, p
<1>4. /\ \A c \in Cells : c # q /\ c # p => k.next[c] = m.next[c]
      /\ \A c \in Cells : c # q /\ c # h => k.prev[c] = m.prev[c]
      /\ k.next[p] = q /\ k.prev[q] = p /\ k.next[q] = h /\ k.prev[h] = q
  BY <1>1, <1>2 DEF LinkMaps
<1>5. Segment(k, h, t, h)
  <2>1. Segment(k, h, s, q)
    <3>1. Link(k, EndOf(h, s), q)
      BY <1>1, <1>4 DEF Link
    <3>2. \A c \in Elems(s) : k.prev[c] = m.prev[c]
      BY <1>1, <1>4
    <3>3. \A c \in Elems(s) \cup {h} : c # EndOf(h, s) => k.next[c] = m.next[c]
      BY <1>1, <1>4
    <3> HIDE DEF s
    <3> QED BY <1>1, <3>1, <3>2, <3>3, SegmentEnd
  <2>2. Segment(k, q, <<>>, h)
    BY <1>4, SegmentNone DEF Link
  <2>3. t = s \o (<<q>> \o <<>>) /\ <<>> \in Seq(Entries)
    BY <1>1
  <2> HIDE DEF s, t
  <2> QED BY <1>1, <2>1, <2>2, <2>3, SegmentCut
<1> HIDE DEF t, s
<1>6. \A g \in Heads \ {h} : \A c \in Elems(ls[g]) \cup {g} : k.next[c] = m.next[c] /\ k.prev[c] = m.prev[c]
  BY <1>1, <1>4 DEF Cells
<1>7. \A e \in Entries : e \notin Elems(t) => (k.next[e] = e => k.prev[e] = e)
  BY <1>1, <1>3, <1>4 DEF Holds
<1>8. \A g \in Heads : g # h => Elems(ls[g]) \cap Elems(t) = {}
  BY <1>1, <1>3
<1>9. Holds(k, [ls EXCEPT ![h] = t])
  BY <1>2, <1>3, <1>5, <1>6, <1>7, <1>8, OneList
<1> QED BY <1>9 DEF k, t, s

\* ... or at its head.
LEMMA HeadJoins ==
  ASSUME NEW m, NEW ls, Holds(m, ls), NEW h \in Heads, NEW q \in Entries,
         \A g \in Heads : q \notin Elems(ls[g])
  PROVE  Holds(InsertedHead(m, h, q), [ls EXCEPT ![h] = <<q>> \o @])
<1> DEFINE s == ls[h]
           k == InsertedHead(m, h, q)
           n == m.next[h]
           t == <<q>> \o s
<1>1. /\ m \in LinkMaps /\ ls \in [Heads -> Seq(Entries)]
      /\ s \in Seq(Entries) /\ Distinct(s) /\ Segment(m, h, s, h)
      /\ Elems(s) \subseteq Entries /\ h \notin Entries /\ h \in Cells /\ Entries \subseteq Cells
      /\ \A g \in Heads : g # h => Elems(ls[g]) \cap Elems(s) = {}
      /\ \A g \in Heads : g \notin Elems(s) /\ Elems(ls[g]) \subseteq Entries /\ g \notin Entries
  BY ListFacts
<1>2. t \in Seq(Entries) /\ Elems(t) = Elems(s) \cup {q} /\ Distinct(t)
  BY <1>1, ConsElems
<1>3. n = IF s = <<>> THEN h ELSE s[1]
  <2>1. 0 \in 0..Len(s) /\ CellAt(h, s, h, 0) = h
    BY <1>1 DEF CellAt
  <2>2. CellAt(h, s, h, 0 + 1) = IF s = <<>> THEN h ELSE s[1]
    <3>1. s = <<>> => Len(s) = 0
      OBVIOUS
    <3>2. s # <<>> => Len(s) # 0 /\ Len(s) \in Nat
      BY <1>1, EmptySeq
    <3> HIDE DEF s
    <3> QED BY <3>1, <3>2 DEF CellAt
  <2> QED BY <1>1, <2>1, <2>2 DEF Segment, Link
<1>4. n \in Elems(s) \cup {h}
  <2>1. s # <<>> => 1 \in 1..Len(s)
    BY <1>1
  <2> HIDE DEF s
  <2> QED BY <1>3, <2>1 DEF Elems
<1>5. /\ k \in LinkMaps
      /\ k.next = [m.next EXCEPT ![q] = n, ![h] = q]
      /\ k.prev = [m.prev EXCEPT ![q] = h, ![n] = q]
  <2>1. m \in LinkMaps /\ h \in Cells /\ q \in Cells /\ q # n
    BY <1>1, <1>4
  <2> HIDE DEF s, t
  <2> QED BY <2>1 DEF InsertedHead, SetNext, SetPrev, LinkMaps
<1> HIDE DEF k, n
<1>6. /\ \A c \in Cells : c # q /\ c # h => k.next[c] = m.next[c]
      /\ \A c \in Cells : c # q /\ c # n => k.prev[c] = m.prev[c]
      /\ k.next[h] = q /\ k.prev[q] = h /\ k.next[q] = n /\ k.prev[n] = q
  BY <1>1, <1>4, <1>5 DEF LinkMaps
<1>7. Segment(k, h, t, h)
  <2>1. CASE s = <<>>
    <3>1. t = <<q>> /\ n = h
      BY <1>3, <2>1
    <3> HIDE DEF t
    <3> QED BY <1>6, <3>1, SegmentOne DEF Link
  <2>2. CASE s # <<>>
    <3> DEFINE r == Tail(s)
    <3>1. n \in Entries /\ r \in Seq(Entries) /\ s = <<n>> \o r
      BY <1>1, <1>3, <2>2, HeadAndRest
    <3>2. Elems(r) \subseteq Elems(s) /\ n \notin Elems(r)
      BY <1>1, <2>2, <1>3, TailElems
    <3> HIDE DEF s, r
    <3>3. Segment(m, n, r, h)
      BY <1>1, <3>1, SegmentCons
    <3>4. \A c \in Elems(r) : k.next[c] = m.next[c] /\ k.prev[c] = m.prev[c]
      BY <1>1, <1>6, <3>2 DEF s
    <3>5. k.next[n] = m.next[n] /\ k.prev[h] = m.prev[h]
      BY <1>1, <1>4, <1>6, <3>1
    <3>6. Segment(k, n, r, h)
      BY <3>1, <3>3, <3>4, <3>5, SegmentFrame
    <3>7. Segment(k, q, s, h)
      BY <1>6, <3>1, <3>6, SegmentCons DEF Link
    <3> QED BY <1>1, <1>6, <3>7, SegmentCons DEF Link
  <2> QED BY <2>1, <2>2
<1> HIDE DEF t, s
<1>8. \A g \in Heads \ {h} : \A c \in Elems(ls[g]) \cup {g} : k.next[c] = m.next[c] /\ k.prev[c] = m.prev[c]
  BY <1>1, <1>4, <1>6 DEF Cells
<1>9. \A e \in Entries : e \notin Elems(t) => (k.next[e] = e => k.prev[e] = e)
  BY <1>1, <1>2, <1>4, <1>6 DEF Holds
<1>10. \A g \in Heads : g # h => Elems(ls[g]) \cap Elems(t) = {}
  BY <1>1, <1>2
<1>11. Holds(k, [ls EXCEPT ![h] = t])
  BY <1>2, <1>5, <1>7, <1>8, <1>9, <1>10, OneList
<1> QED BY <1>11 DEF k, t, s

\* A sequence is what is before one of its elements, the element and what follows.
Cuts(s, i, q, a, b) ==
  /\ q \in Elems(s)
  /\ s = a \o (<<q>> \o b) /\ RemoveAt(s, i) = a \o b
  /\ SubSeq(s, i, Len(s)) = <<q>> \o b /\ SubSeq(s, 1, i - 1) = a
  /\ Distinct(a) /\ Distinct(b) /\ Distinct(<<q>> \o b) /\ Distinct(a \o b)
  /\ Elems(s) = Elems(a) \cup Elems(b) \cup {q}
  /\ q \notin Elems(a) /\ q \notin Elems(b) /\ Elems(a) \cap Elems(b) = {}

LEMMA CutAt ==
  ASSUME NEW S, NEW s \in Seq(S), Distinct(s), NEW i \in 1..Len(s), NEW q, q = s[i]
  PROVE  \E a, b \in Seq(S) : Cuts(s, i, q, a, b) /\ q \in S
<1> DEFINE a == SubSeq(s, 1, i - 1)
           b == SubSeq(s, i + 1, Len(s))
           c == SubSeq(s, i, Len(s))
           l == Len(s)
<1>1. l \in Nat /\ i - 1 \in 0..l /\ (i - 1) + 1 = i /\ i \in 1..l /\ l \in i..l /\ i - 1 \in 0..l
  OBVIOUS
<1>2. q \in S /\ q \in Elems(s)
  BY DEF Elems
<1>3. /\ a \in Seq(S) /\ c \in Seq(S) /\ Elems(s) = Elems(a) \cup Elems(c)
      /\ Distinct(a) /\ Distinct(c) /\ Elems(a) \cap Elems(c) = {}
  BY <1>1, SplitElems
<1>4. b \in Seq(S)
  BY <1>1, SplitElems
<1>5. c = <<q>> \o b
  BY <1>1, SubSeqRecursiveFirst
<1>6. s = a \o c
  <2>1. 1 \in 1..l + 1 /\ i - 1 \in 1 - 1..l /\ l \in (i - 1)..l
    BY <1>1
  <2>2. a \o SubSeq(s, (i - 1) + 1, l) = SubSeq(s, 1, l)
    BY <2>1, ConcatAdjacentSubSeq
  <2>3. SubSeq(s, 1, l) = s
    BY SubSeqFull
  <2> QED BY <1>1, <2>2, <2>3
<1>7. RemoveAt(s, i) = a \o b
  BY DEF RemoveAt
<1>8. Elems(c) = Elems(b) \cup {q}
  <2> HIDE DEF a, b, c
  <2> QED BY <1>2, <1>4, <1>5, ConsElems
<1>9. Head(c) = q /\ Tail(c) = b /\ c # <<>>
  <2>1. Head(c) = q /\ Tail(c) = b
    BY <1>1, HeadTailOfSubSeq
  <2>2. Elems(c) # {}
    BY <1>8
  <2> QED BY <1>3, <2>1, <2>2, ElemsOfSeq
<1> HIDE DEF a, b, c, l
<1>10. q \notin Elems(b) /\ Distinct(b)
  <2>1. Head(c) \notin Elems(Tail(c)) /\ Distinct(Tail(c))
    BY <1>3, <1>9, TailElems
  <2> QED BY <1>9, <2>1
<1>11. Distinct(a \o b)
  BY <1>3, <1>4, <1>8, <1>10, ConcatElems
<1>12. SubSeq(s, i, Len(s)) = <<q>> \o b /\ SubSeq(s, 1, i - 1) = a
  BY <1>5 DEF a, c
<1>13. Elems(s) = Elems(a) \cup Elems(b) \cup {q} /\ q \notin Elems(a) /\ Elems(a) \cap Elems(b) = {}
  BY <1>3, <1>8
<1>14. a \in Seq(S) /\ b \in Seq(S)
  BY <1>3, <1>4
<1>15. Cuts(s, i, q, a, b)
  BY <1>2, <1>3, <1>4, <1>5, <1>6, <1>7, <1>10, <1>11, <1>12, <1>13 DEF Cuts
<1> QED BY <1>2, <1>14, <1>15

LEMMA FirstIs ==
  ASSUME NEW S, NEW s \in Seq(S), NEW m, NEW x, NEW y, Segment(m, x, s, y)
  PROVE  m.next[x] = IF s = <<>> THEN y ELSE s[1]
<1>1. Len(s) \in Nat /\ (s = <<>> <=> Len(s) = 0)
  BY EmptySeq
<1>2. 0 \in 0..Len(s) /\ CellAt(x, s, y, 0) = x /\ CellAt(x, s, y, 0 + 1) = IF s = <<>> THEN y ELSE s[1]
  BY <1>1 DEF CellAt
<1> QED BY <1>2 DEF Segment, Link

\* An element that is in no list may be initialized.
LEMMA FreeInitialized ==
  ASSUME NEW m, NEW ls, Holds(m, ls), NEW q \in Entries, \A g \in Heads : q \notin Elems(ls[g])
  PROVE  Holds(Initialized(m, q), ls)
<1> DEFINE k == Initialized(m, q)
<1>1. m \in LinkMaps /\ q \in Cells /\ \A g \in Heads : g # q /\ Elems(ls[g]) \subseteq Entries
  <2>1. \A g \in Heads : Elems(ls[g]) \subseteq Entries /\ m \in LinkMaps /\ g \notin Entries
    BY ListFacts
  <2> QED BY <2>1 DEF Holds, LinkMaps, Cells
<1>2. k \in LinkMaps /\ k.next = [m.next EXCEPT ![q] = q] /\ k.prev = [m.prev EXCEPT ![q] = q]
  BY <1>1 DEF Initialized, SetNext, SetPrev, LinkMaps
<1> HIDE DEF k
<1>3. /\ \A c \in Cells : c # q => k.next[c] = m.next[c] /\ k.prev[c] = m.prev[c]
      /\ k.next[q] = q /\ k.prev[q] = q
  BY <1>1, <1>2 DEF LinkMaps
<1>4. Rewrites(m, ls, k, ls, {})
  <2>1. ls \in [Heads -> Seq(Entries)] /\ \A e \in Entries : m.next[e] = e => m.prev[e] = e
    BY DEF Holds
  <2>2. \A g \in Heads : \A c \in Elems(ls[g]) \cup {g} : c \in Cells /\ c # q
    BY <1>1 DEF Cells
  <2>3. \A e \in Entries : k.next[e] = e => k.prev[e] = e
    BY <1>3, <2>1 DEF Cells
  <2> QED BY <1>2, <1>3, <2>1, <2>2, <2>3 DEF Rewrites
<1>5. Holds(k, ls)
  BY <1>4, HoldsAgain
<1> QED BY <1>5 DEF k

\* What is linked to itself stays so when it is initialized, or removed once more.
LEMMA SelfLinked ==
  ASSUME NEW m \in LinkMaps, NEW q \in Cells, m.next[q] = q, m.prev[q] = q
  PROVE  Initialized(m, q) = m /\ Removed(m, q) = m
BY DEF Initialized, Removed, SetNext, SetPrev, LinkMaps

\* QUEUE_REMOVE takes an element out of its list.
LEMMA ElementLeaves ==
  ASSUME NEW m, NEW ls, Holds(m, ls), NEW h \in Heads, NEW i \in 1..Len(ls[h])
  PROVE  Holds(Removed(m, ls[h][i]), [ls EXCEPT ![h] = RemoveAt(@, i)])
<1> DEFINE s == ls[h]
           q == s[i]
           t == RemoveAt(s, i)
           k == Removed(m, q)
           p == m.prev[q]
           n == m.next[q]
<1>1. /\ m \in LinkMaps /\ ls \in [Heads -> Seq(Entries)]
      /\ s \in Seq(Entries) /\ Distinct(s) /\ Segment(m, h, s, h)
      /\ Elems(s) \subseteq Entries /\ h \notin Entries /\ h \in Cells /\ Entries \subseteq Cells
      /\ \A g \in Heads : g # h => Elems(ls[g]) \cap Elems(s) = {}
      /\ \A g \in Heads : g \notin Elems(s) /\ Elems(ls[g]) \subseteq Entries /\ g \notin Entries
  BY ListFacts
<1> HIDE DEF s
<1>2. PICK a, b \in Seq(Entries) :
      /\ q \in Entries /\ q \in Elems(s)
      /\ s = a \o (<<q>> \o b) /\ t = a \o b
      /\ Distinct(a) /\ Distinct(b) /\ Distinct(a \o b)
      /\ Elems(s) = Elems(a) \cup Elems(b) \cup {q}
      /\ q \notin Elems(a) /\ q \notin Elems(b) /\ Elems(a) \cap Elems(b) = {}
  <2>1. i \in 1..Len(s)
    BY DEF s
  <2>2. q = s[i] /\ t = RemoveAt(s, i)
    OBVIOUS
  <2> HIDE DEF q, t
  <2>3. \E a, b \in Seq(Entries) : Cuts(s, i, q, a, b) /\ q \in Entries
    BY <1>1, <2>1, <2>2, CutAt
  <2> QED BY <2>2, <2>3 DEF Cuts
<1> HIDE DEF q, t
<1>3. Segment(m, h, a, q) /\ Segment(m, q, b, h)
  BY <1>1, <1>2, SegmentCut
<1>4. p = EndOf(h, a) /\ p \in Elems(a) \cup {h}
  BY <1>2, <1>3, EndIs
<1>5. n = IF b = <<>> THEN h ELSE b[1]
  BY <1>2, <1>3, FirstIs
<1>6. b # <<>> => n \in Entries /\ Tail(b) \in Seq(Entries) /\ b = <<n>> \o Tail(b)
                  /\ n \in Elems(b) /\ n \notin Elems(Tail(b)) /\ Elems(Tail(b)) \subseteq Elems(b)
  <2>1. b # <<>> => b[1] \in Entries /\ Tail(b) \in Seq(Entries) /\ b = <<b[1]>> \o Tail(b)
    BY <1>2, HeadAndRest
  <2>2. b # <<>> => Elems(b) = Elems(Tail(b)) \cup {b[1]} /\ b[1] \notin Elems(Tail(b))
    <3>1. b[1] = Head(b)
      OBVIOUS
    <3> QED BY <1>2, <3>1, TailElems
  <2> QED BY <1>5, <2>1, <2>2
<1>7. n \in Elems(b) \cup {h}
  BY <1>5, <1>6
<1>8. /\ k \in LinkMaps
      /\ k.next = [m.next EXCEPT ![p] = n]
      /\ k.prev = [m.prev EXCEPT ![n] = p]
  <2>1. m \in LinkMaps /\ q \in Cells /\ p # q
    BY <1>1, <1>2, <1>4
  <2> QED BY <2>1 DEF Removed, SetNext, SetPrev, LinkMaps
<1> HIDE DEF k, p, n
<1>9. /\ \A c \in Cells : c # p => k.next[c] = m.next[c]
      /\ \A c \in Cells : c # n => k.prev[c] = m.prev[c]
      /\ k.next[p] = n /\ k.prev[n] = p
  <2>1. p \in Cells /\ n \in Cells
    BY <1>1, <1>2, <1>4, <1>7
  <2> QED BY <1>1, <1>8, <2>1 DEF LinkMaps
<1> DEFINE r == Tail(b)
<1>20. \A c \in Elems(a) : c \in Cells /\ c # n /\ c # h
  BY <1>1, <1>2, <1>7
<1>21. \A c \in Elems(b) : c \in Cells /\ c # p /\ c # h
  BY <1>1, <1>2, <1>4
<1>22. b # <<>> => \A c \in Elems(r) : c \in Cells /\ c # p /\ c # n
  BY <1>6, <1>21
<1>23. \A g \in Heads \ {h} : \A c \in Elems(ls[g]) \cup {g} : c \in Cells /\ c # p /\ c # n
  <2> SUFFICES ASSUME NEW g \in Heads, g # h, NEW c \in Elems(ls[g]) \cup {g}
               PROVE  c \in Cells /\ c # p /\ c # n
    OBVIOUS
  <2>1. c \in Cells /\ c \notin Elems(s) /\ c # h
    BY <1>1 DEF Cells
  <2> QED BY <1>2, <1>4, <1>7, <2>1
<1>10. Segment(k, h, a, n)
  <2>1. Link(k, EndOf(h, a), n)
    BY <1>4, <1>9 DEF Link
  <2>2. \A c \in Elems(a) : k.prev[c] = m.prev[c]
    BY <1>9, <1>20
  <2>3. \A c \in Elems(a) \cup {h} : c # EndOf(h, a) => k.next[c] = m.next[c]
    BY <1>1, <1>4, <1>9, <1>20
  <2>4. h \notin Elems(a)
    BY <1>1, <1>2
  <2> QED BY <1>2, <1>3, <2>1, <2>2, <2>3, <2>4, SegmentEnd
<1>11. Segment(k, h, t, h)
  <2>1. CASE b = <<>>
    <3>1. t = a /\ n = h
      BY <1>2, <1>5, <2>1
    <3> QED BY <1>10, <3>1
  <2>2. CASE b # <<>>
    <3>0. n \in Entries /\ r \in Seq(Entries) /\ b = <<n>> \o r
      BY <1>6, <2>2
    <3> HIDE DEF r
    <3>1. Segment(m, n, r, h)
      BY <1>2, <1>3, <3>0, SegmentCons
    <3>2. \A c \in Elems(r) : k.next[c] = m.next[c] /\ k.prev[c] = m.prev[c]
      BY <1>9, <1>22, <2>2
    <3>3. k.next[n] = m.next[n] /\ k.prev[h] = m.prev[h]
      BY <1>1, <1>2, <1>4, <1>6, <1>9, <2>2
    <3>4. Segment(k, n, r, h)
      BY <3>0, <3>1, <3>2, <3>3, SegmentFrame
    <3>5. t = a \o (<<n>> \o r)
      BY <1>2, <3>0
    <3> QED BY <1>2, <3>0, <1>10, <3>4, <3>5, SegmentCut
  <2> QED BY <2>1, <2>2
<1>12. t \in Seq(Entries) /\ Elems(t) = Elems(a) \cup Elems(b) /\ Distinct(t)
  BY <1>2, ConcatElems
<1>13. \A g \in Heads \ {h} : \A c \in Elems(ls[g]) \cup {g} : k.next[c] = m.next[c] /\ k.prev[c] = m.prev[c]
  BY <1>9, <1>23
<1>14. \A e \in Entries : e \notin Elems(t) => (k.next[e] = e => k.prev[e] = e)
  <2> SUFFICES ASSUME NEW e \in Entries, e \notin Elems(t), k.next[e] = e PROVE k.prev[e] = e
    OBVIOUS
  <2>1. e # p /\ e # n
    BY <1>1, <1>4, <1>7, <1>12
  <2>2. k.next[e] = m.next[e] /\ k.prev[e] = m.prev[e]
    BY <1>1, <1>9, <2>1
  <2> QED BY <2>2 DEF Holds
<1>15. \A g \in Heads : g # h => Elems(ls[g]) \cap Elems(t) = {}
  BY <1>1, <1>2, <1>12
<1>16. Holds(k, [ls EXCEPT ![h] = t])
  BY <1>8, <1>11, <1>12, <1>13, <1>14, <1>15, OneList
<1>17. [ls EXCEPT ![h] = RemoveAt(@, i)] = [ls EXCEPT ![h] = t]
  BY DEF t, s
<1> QED BY <1>16, <1>17 DEF k, q, s

\* Elements pass between two lists.
LEMMA TwoLists ==
  ASSUME NEW m, NEW ls, Holds(m, ls), NEW k \in LinkMaps, NEW h \in Heads, NEW n \in Heads, h # n,
         NEW t \in Seq(Entries), NEW u \in Seq(Entries), Distinct(t), Distinct(u),
         Segment(k, h, t, h), Segment(k, n, u, n), Elems(t) \cap Elems(u) = {},
         Elems(t) \cup Elems(u) = Elems(ls[h]) \cup Elems(ls[n]),
         \A c \in Cells \ (Elems(ls[h]) \cup Elems(ls[n]) \cup {h, n}) :
           k.next[c] = m.next[c] /\ k.prev[c] = m.prev[c]
  PROVE  Holds(k, [ls EXCEPT ![h] = t, ![n] = u])
<1> DEFINE ks == [ls EXCEPT ![h] = t, ![n] = u]
           C  == {h, n}
<1>1. /\ ks \in [Heads -> Seq(Entries)] /\ ks[h] = t /\ ks[n] = u
      /\ \A g \in Heads \ C : ks[g] = ls[g]
  BY DEF Holds
<1>2. /\ \A f, g \in Heads : f # g => Elems(ls[f]) \cap Elems(ls[g]) = {}
      /\ \A g \in Heads : Elems(ls[g]) \subseteq Entries /\ g \notin Entries
      /\ \A e \in Entries : m.next[e] = e => m.prev[e] = e
  <2>1. \A g \in Heads : Elems(ls[g]) \subseteq Entries /\ g \notin Entries
    BY ListFacts
  <2> QED BY <2>1 DEF Holds
<1> HIDE DEF ks
<1>3. ASSUME NEW g \in Heads \ C
      PROVE  /\ ks[g] = ls[g]
             /\ \A c \in Elems(ls[g]) \cup {g} : k.next[c] = m.next[c] /\ k.prev[c] = m.prev[c]
  <2>1. \A c \in Elems(ls[g]) \cup {g} : c \in Cells \ (Elems(ls[h]) \cup Elems(ls[n]) \cup {h, n})
    <3>1. g # h /\ g # n /\ g \in Cells
      BY DEF Cells
    <3>2. Elems(ls[g]) \cap Elems(ls[h]) = {} /\ Elems(ls[g]) \cap Elems(ls[n]) = {}
      BY <1>2, <3>1
    <3>3. h \notin Elems(ls[g]) /\ n \notin Elems(ls[g]) /\ Elems(ls[g]) \subseteq Cells
      BY <1>2 DEF Cells
    <3>4. g \notin Elems(ls[h]) /\ g \notin Elems(ls[n])
      BY <1>2
    <3> QED BY <3>1, <3>2, <3>3, <3>4
  <2> QED BY <1>1, <2>1
<1>4. \A g \in C : Distinct(ks[g]) /\ Segment(k, g, ks[g], g)
  BY <1>1
<1>5. ASSUME NEW f \in Heads, NEW g \in C, f # g PROVE Elems(ks[f]) \cap Elems(ks[g]) = {}
  <2>1. CASE f \in C
    BY <1>1, <1>5, <2>1
  <2>2. CASE f \notin C
    <3>1. Elems(ls[f]) \cap (Elems(t) \cup Elems(u)) = {} /\ ks[f] = ls[f]
      BY <1>1, <1>2, <2>2
    <3> QED BY <1>1, <3>1
  <2> QED BY <2>1, <2>2
<1>6. ASSUME NEW e \in Entries, \A g \in C : e \notin Elems(ks[g]), k.next[e] = e
      PROVE  k.prev[e] = e
  <2>1. e \in Cells \ (Elems(ls[h]) \cup Elems(ls[n]) \cup {h, n})
    BY <1>1, <1>2, <1>6 DEF Cells
  <2> QED BY <1>2, <1>6, <2>1
<1>7. C \subseteq Heads
  OBVIOUS
<1> HIDE DEF C
<1>8. Rewrites(m, ls, k, ks, C)
  BY <1>1, <1>3, <1>4, <1>5, <1>6, <1>7 DEF Rewrites
<1>9. Holds(k, ks)
  BY <1>8, HoldsAgain
<1> QED BY <1>9 DEF ks

\* QUEUE_ADD and QUEUE_INIT change nothing when the second list is empty.
LEMMA NothingAdded ==
  ASSUME NEW m \in LinkMaps, NEW h \in Cells, NEW n \in Cells, h # n, m.prev[h] # n,
         m.next[m.prev[h]] = h, m.next[n] = n, m.prev[n] = n
  PROVE  Initialized(QueueAdded(m, h, n), n) = m
<1> DEFINE k == Initialized(QueueAdded(m, h, n), n)
<1>1. /\ k = [next |-> k.next, prev |-> k.prev]
      /\ \A c \in Cells : k.next[c] = m.next[c] /\ k.prev[c] = m.prev[c]
      /\ k.next \in [Cells -> Cells] /\ k.prev \in [Cells -> Cells]
  BY DEF QueueAdded, Initialized, SetNext, SetPrev, LinkMaps
<1> HIDE DEF k
<1>2. /\ m = [next |-> m.next, prev |-> m.prev]
      /\ m.next \in [Cells -> Cells] /\ m.prev \in [Cells -> Cells]
  BY DEF LinkMaps
<1>3. k.next = m.next /\ k.prev = m.prev
  BY <1>1, <1>2
<1> QED BY <1>1, <1>2, <1>3 DEF k

\* Otherwise it goes to the end of the first list.
LEMMA ListAdded ==
  ASSUME NEW m, NEW ls, Holds(m, ls), NEW h \in Heads, NEW n \in Heads, h # n
  PROVE  Holds(Initialized(QueueAdded(m, h, n), n), [ls EXCEPT ![h] = @ \o ls[n], ![n] = <<>>])
<1> DEFINE s == ls[h]
           t == ls[n]
           k == Initialized(QueueAdded(m, h, n), n)
           p == m.prev[h]
           c == m.next[n]
           d == m.prev[n]
           r == Tail(t)
           l == s \o t
<1>1. /\ m \in LinkMaps /\ ls \in [Heads -> Seq(Entries)]
      /\ s \in Seq(Entries) /\ Distinct(s) /\ Segment(m, h, s, h)
      /\ t \in Seq(Entries) /\ Distinct(t) /\ Segment(m, n, t, n)
      /\ Elems(s) \subseteq Entries /\ Elems(t) \subseteq Entries /\ Elems(s) \cap Elems(t) = {}
      /\ h \notin Entries /\ n \notin Entries /\ h \in Cells /\ n \in Cells /\ Entries \subseteq Cells
      /\ p = EndOf(h, s) /\ p \in Elems(s) \cup {h} /\ d = EndOf(n, t) /\ d \in Elems(t) \cup {n}
  BY ListFacts
<1> HIDE DEF s, t
<1>2. c = (IF t = <<>> THEN n ELSE t[1]) /\ m.next[p] = h
  BY <1>1, FirstIs, EndIs
<1>3. l \in Seq(Entries) /\ Elems(l) = Elems(s) \cup Elems(t) /\ Distinct(l)
  BY <1>1, ConcatElems
<1>4. CASE t = <<>>
  <2>1. d = n /\ p # n /\ c = n
    <3>1. Elems(t) = {}
      BY <1>4, EmptyElems
    <3> HIDE DEF p, d, c
    <3> QED BY <1>1, <1>2, <1>4, <3>1
  <2>2. k = m
    <3> HIDE DEF k
    <3>1. Initialized(QueueAdded(m, h, n), n) = m
      BY <1>1, <1>2, <2>1, NothingAdded
    <3> QED BY <3>1 DEF k
  <2>3. l = s
    BY <1>1, <1>4
  <2>4. [ls EXCEPT ![h] = @ \o ls[n], ![n] = <<>>] = ls
    <3> HIDE DEF l
    <3>1. ls[n] = <<>> /\ ls[h] \o ls[n] = ls[h]
      BY <1>4, <2>3 DEF l, s, t
    <3> QED BY <1>1, <3>1
  <2> HIDE DEF k
  <2> QED BY <2>2, <2>4 DEF k
<1>5. CASE t # <<>>
  <2>1. c \in Entries /\ r \in Seq(Entries) /\ t = <<c>> \o r
    BY <1>1, <1>2, <1>5, HeadAndRest
  <2>2. Elems(t) = Elems(r) \cup {c} /\ c \notin Elems(r) /\ Distinct(r)
    <3>1. Head(t) = t[1]
      OBVIOUS
    <3> HIDE DEF r
    <3>2. Elems(t) = Elems(Tail(t)) \cup {Head(t)} /\ Head(t) \notin Elems(Tail(t)) /\ Distinct(Tail(t))
      BY <1>1, <1>5, TailElems
    <3> QED BY <1>2, <1>5, <3>1, <3>2 DEF r
  <2> HIDE DEF r
  <2>3. Segment(m, n, <<>>, c) /\ Segment(m, c, r, n)
    BY <1>1, <2>1, SegmentCons, SegmentNone
  <2>4. d = EndOf(c, r) /\ d \in Elems(r) \cup {c}
    BY <2>1, <2>3, EndIs
  <2>5. /\ c \in Cells /\ d \in Cells /\ p \in Cells /\ c # h /\ c # n /\ d # h /\ d # n /\ p # n
        /\ p # c /\ p # d /\ p \notin Elems(t)
    BY <1>1, <2>1, <2>2, <2>4
  <2>6. /\ k \in LinkMaps
        /\ k.next = [m.next EXCEPT ![p] = c, ![d] = h, ![n] = n]
        /\ k.prev = [m.prev EXCEPT ![c] = p, ![h] = d, ![n] = n]
    BY <1>1, <2>5 DEF QueueAdded, Initialized, SetNext, SetPrev, LinkMaps
  <2> HIDE DEF k, p, c, d
  <2>7. /\ \A x \in Cells : x # p /\ x # d /\ x # n => k.next[x] = m.next[x]
        /\ \A x \in Cells : x # c /\ x # h /\ x # n => k.prev[x] = m.prev[x]
        /\ k.next[p] = c /\ k.next[d] = h /\ k.next[n] = n
        /\ k.prev[c] = p /\ k.prev[h] = d /\ k.prev[n] = n
    BY <1>1, <2>5, <2>6 DEF LinkMaps
  <2>8. \A x \in Elems(s) : x \in Cells /\ x # c /\ x # d /\ x # h /\ x # n
    BY <1>1, <2>2, <2>4
  <2>9. \A x \in Elems(t) : x \in Cells /\ x # p /\ x # h /\ x # n
    BY <1>1, <2>5
  <2>10. Segment(k, h, s, c)
    <3>1. Link(k, EndOf(h, s), c)
      BY <1>1, <2>7 DEF Link
    <3>2. \A x \in Elems(s) : k.prev[x] = m.prev[x]
      BY <2>7, <2>8
    <3>3. \A x \in Elems(s) \cup {h} : x # EndOf(h, s) => k.next[x] = m.next[x]
      BY <1>1, <2>5, <2>7, <2>8
    <3>4. h \notin Elems(s)
      BY <2>8
    <3> QED BY <1>1, <3>1, <3>2, <3>3, <3>4, SegmentEnd
  <2>11. Segment(k, c, r, h)
    <3>1. Link(k, EndOf(c, r), h)
      BY <2>4, <2>7 DEF Link
    <3>2. \A x \in Elems(r) : k.prev[x] = m.prev[x]
      BY <2>2, <2>7, <2>9
    <3>3. \A x \in Elems(r) \cup {c} : x # EndOf(c, r) => k.next[x] = m.next[x]
      BY <2>2, <2>4, <2>7, <2>9
    <3> QED BY <2>1, <2>2, <2>3, <3>1, <3>2, <3>3, SegmentEnd
  <2>12. Segment(k, h, l, h)
    <3>1. l = s \o (<<c>> \o r)
      BY <2>1
    <3> HIDE DEF l
    <3> QED BY <1>1, <2>1, <2>10, <2>11, <3>1, SegmentCut
  <2> HIDE DEF l
  <2>13. Segment(k, n, <<>>, n)
    BY <2>7, SegmentNone DEF Link
  <2>14. \A x \in Cells \ (Elems(s) \cup Elems(t) \cup {h, n}) :
           k.next[x] = m.next[x] /\ k.prev[x] = m.prev[x]
    BY <1>1, <2>2, <2>4, <2>7
  <2>15. <<>> \in Seq(Entries) /\ Distinct(<<>>) /\ Elems(<<>>) = {}
    BY EmptyElems
  <2>16. Holds(k, [ls EXCEPT ![h] = l, ![n] = <<>>])
    <3>1. Elems(l) \cup Elems(<<>>) = Elems(ls[h]) \cup Elems(ls[n]) /\ Elems(l) \cap Elems(<<>>) = {}
      BY <1>3, <2>15 DEF s, t
    <3>2. \A x \in Cells \ (Elems(ls[h]) \cup Elems(ls[n]) \cup {h, n}) :
            k.next[x] = m.next[x] /\ k.prev[x] = m.prev[x]
      BY <2>14 DEF s, t
    <3> QED BY <1>3, <2>6, <2>12, <2>13, <2>15, <3>1, <3>2, TwoLists
  <2>17. [ls EXCEPT ![h] = @ \o ls[n], ![n] = <<>>] = [ls EXCEPT ![h] = l, ![n] = <<>>]
    BY DEF l, s, t
  <2> QED BY <2>16, <2>17 DEF k
<1> QED BY <1>4, <1>5

\* QUEUE_SPLIT: the end of a list, from one of its elements on, goes to an empty one.
LEMMA ListSplit ==
  ASSUME NEW m, NEW ls, Holds(m, ls), NEW h \in Heads, NEW n \in Heads, h # n, ls[n] = <<>>,
         NEW i \in 1..Len(ls[h])
  PROVE  Holds(Split(m, h, ls[h][i], n),
               [ls EXCEPT ![h] = SubSeq(@, 1, i - 1), ![n] = SubSeq(ls[h], i, Len(ls[h]))])
<1> DEFINE s == ls[h]
           q == s[i]
           k == Split(m, h, q, n)
           p == m.prev[q]
           d == m.prev[h]
<1>1. /\ m \in LinkMaps /\ ls \in [Heads -> Seq(Entries)]
      /\ s \in Seq(Entries) /\ Distinct(s) /\ Segment(m, h, s, h) /\ Elems(s) \subseteq Entries
      /\ h \notin Entries /\ n \notin Entries /\ h \in Cells /\ n \in Cells /\ Entries \subseteq Cells
      /\ d = EndOf(h, s)
  BY ListFacts
<1>2. Elems(ls[n]) = {}
  BY EmptyElems
<1> HIDE DEF s
<1>3. PICK a, b \in Seq(Entries) : Cuts(s, i, q, a, b) /\ q \in Entries
  <2>1. i \in 1..Len(s) /\ q = s[i]
    BY DEF s
  <2> HIDE DEF q
  <2> QED BY <1>1, <2>1, CutAt
<1> HIDE DEF q
<1> DEFINE u == <<q>> \o b
<1>4. /\ s = a \o u /\ SubSeq(s, 1, i - 1) = a /\ SubSeq(s, i, Len(s)) = u
      /\ Distinct(a) /\ Distinct(b) /\ Distinct(u) /\ q \in Elems(s)
      /\ Elems(s) = Elems(a) \cup Elems(b) \cup {q}
      /\ q \notin Elems(a) /\ q \notin Elems(b) /\ Elems(a) \cap Elems(b) = {}
  BY <1>3 DEF Cuts
<1>5. u \in Seq(Entries) /\ Elems(u) = Elems(b) \cup {q}
  BY <1>3, ConsElems
<1>6. Segment(m, h, a, q) /\ Segment(m, q, b, h)
  BY <1>1, <1>3, <1>4, SegmentCut
<1>7. p = EndOf(h, a) /\ p \in Elems(a) \cup {h}
  BY <1>3, <1>6, EndIs
<1>8. d = EndOf(q, b) /\ d \in Elems(b) \cup {q}
  BY <1>3, <1>6, EndIs
<1>9. /\ q \in Cells /\ p \in Cells /\ d \in Cells /\ q # h /\ q # n /\ p # n /\ p # q /\ p # d
      /\ d # h /\ d # n
  BY <1>1, <1>3, <1>4, <1>7, <1>8
<1>10. /\ k \in LinkMaps
       /\ k.next = [m.next EXCEPT ![d] = n, ![n] = q, ![p] = h]
       /\ k.prev = [m.prev EXCEPT ![n] = d, ![h] = p, ![q] = n]
  <2> HIDE DEF u
  <2> QED BY <1>1, <1>9 DEF Split, SetNext, SetPrev, LinkMaps
<1> HIDE DEF k, p, d, u
<1>11. /\ \A x \in Cells : x # p /\ x # d /\ x # n => k.next[x] = m.next[x]
       /\ \A x \in Cells : x # q /\ x # h /\ x # n => k.prev[x] = m.prev[x]
       /\ k.next[d] = n /\ k.next[n] = q /\ k.next[p] = h
       /\ k.prev[n] = d /\ k.prev[h] = p /\ k.prev[q] = n
  BY <1>1, <1>9, <1>10 DEF LinkMaps
<1>12. \A x \in Elems(a) : x \in Cells /\ x # q /\ x # d /\ x # h /\ x # n
  BY <1>1, <1>4, <1>8
<1>13. \A x \in Elems(b) : x \in Cells /\ x # q /\ x # p /\ x # h /\ x # n
  BY <1>1, <1>4, <1>7
<1>14. Segment(k, h, a, h)
  <2>1. Link(k, EndOf(h, a), h)
    BY <1>7, <1>11 DEF Link
  <2>2. \A x \in Elems(a) : k.prev[x] = m.prev[x]
    BY <1>11, <1>12
  <2>3. \A x \in Elems(a) \cup {h} : x # EndOf(h, a) => k.next[x] = m.next[x]
    BY <1>1, <1>7, <1>9, <1>11, <1>12
  <2>4. h \notin Elems(a)
    BY <1>12
  <2> QED BY <1>3, <1>4, <1>6, <2>1, <2>2, <2>3, <2>4, SegmentEnd
<1>15. Segment(k, q, b, n)
  <2>1. Link(k, EndOf(q, b), n)
    BY <1>8, <1>11 DEF Link
  <2>2. \A x \in Elems(b) : k.prev[x] = m.prev[x]
    BY <1>11, <1>13
  <2>3. \A x \in Elems(b) \cup {q} : x # EndOf(q, b) => k.next[x] = m.next[x]
    BY <1>8, <1>9, <1>11, <1>13
  <2> QED BY <1>3, <1>4, <1>6, <2>1, <2>2, <2>3, SegmentEnd
<1>16. Segment(k, n, u, n)
  BY <1>3, <1>11, <1>15, SegmentCons DEF Link, u
<1>17. Elems(a) \cap Elems(u) = {} /\ Elems(a) \cup Elems(u) = Elems(ls[h]) \cup Elems(ls[n])
  BY <1>2, <1>4, <1>5 DEF s
<1>18. \A x \in Cells \ (Elems(ls[h]) \cup Elems(ls[n]) \cup {h, n}) :
         k.next[x] = m.next[x] /\ k.prev[x] = m.prev[x]
  BY <1>4, <1>7, <1>8, <1>11 DEF s
<1>19. Holds(k, [ls EXCEPT ![h] = a, ![n] = u])
  BY <1>3, <1>4, <1>5, <1>10, <1>14, <1>16, <1>17, <1>18, TwoLists
<1>20. [ls EXCEPT ![h] = SubSeq(@, 1, i - 1), ![n] = SubSeq(ls[h], i, Len(ls[h]))]
         = [ls EXCEPT ![h] = a, ![n] = u]
  BY <1>4 DEF s
<1> QED BY <1>19, <1>20 DEF k, q, s

-----------------------------------------------------------------------------
(* Queue implements Lists *)

\* The links hold lists at the start, ...
LEMMA LinksStart == QInit => Holds(links, [h \in Heads |-> <<>>])
<1> SUFFICES ASSUME QInit PROVE Holds(links, [h \in Heads |-> <<>>])
  OBVIOUS
<1> DEFINE ls == [h \in Heads |-> <<>>]
<1>1. links \in [next : [Cells -> Cells], prev : [Cells -> Cells]]
  BY DEF QInit
<1>2. \A q \in Cells : links.next[q] = q /\ links.prev[q] = q
  BY DEF QInit
<1>3. \A h \in Heads : h \in Cells /\ ls[h] = <<>>
  BY DEF Cells
<1>4. \A q \in Entries : q \in Cells
  BY DEF Cells
<1>5. ls \in [Heads -> Seq(Entries)]
  OBVIOUS
<1> HIDE DEF ls
<1>6. \A h \in Heads : Distinct(ls[h]) /\ Segment(links, h, ls[h], h)
  <2> TAKE h \in Heads
  <2>1. Segment(links, h, <<>>, h)
    BY <1>2, <1>3, SegmentNone DEF Link
  <2> QED BY <1>3, <2>1, EmptyElems
<1>7. \A g, h \in Heads : g # h => Elems(ls[g]) \cap Elems(ls[h]) = {}
  BY <1>3, EmptyElems
<1>8. Holds(links, ls)
  BY <1>1, <1>2, <1>4, <1>5, <1>6, <1>7 DEF Holds
<1> QED BY <1>8 DEF ls

\* ... and every step changes them as Lists allows.
Joined(ls, ks) ==
  \E h \in Heads, q \in Entries :
    /\ \A g \in Heads : q \notin Elems(ls[g])
    /\ ks = [ls EXCEPT ![h] = Append(@, q)] \/ ks = [ls EXCEPT ![h] = <<q>> \o @]

Left(ls, ks) == \E h \in Heads : \E i \in 1..Len(ls[h]) : ks = [ls EXCEPT ![h] = RemoveAt(@, i)]

Transferred(ls, ks) ==
  \E h, n \in Heads : /\ h # n
                      /\ \E k \in 0..Len(ls[n]) :
                           ks = [ls EXCEPT ![h] = @ \o SubSeq(ls[n], k + 1, Len(ls[n])),
                                           ![n] = SubSeq(@, 1, k)]

Changed(ls, ks) == ks = ls \/ Joined(ls, ks) \/ Left(ls, ks) \/ Transferred(ls, ks)

LEMMA ElementRemoved ==
  ASSUME NEW ls, Holds(links, ls), NEW q \in Entries, q \in Linked
  PROVE  \E ks : /\ Holds(Removed(links, q), ks) /\ Left(ls, ks)
                 /\ \A g \in Heads : q \notin Elems(ks[g])
<1>1. PICK h \in Heads : q \in Elems(ls[h])
  BY ListsShown DEF Linked, Forward
<1>2. PICK i \in 1..Len(ls[h]) : q = ls[h][i]
  BY <1>1 DEF Elems
<1> DEFINE ks == [ls EXCEPT ![h] = RemoveAt(@, i)]
<1>3. Holds(Removed(links, q), ks)
  BY <1>2, ElementLeaves
<1>4. Left(ls, ks)
  BY DEF Left
<1>5. \A g \in Heads : q \notin Elems(ks[g])
  <2>1. /\ ls \in [Heads -> Seq(Entries)] /\ Distinct(ls[h])
        /\ \A g \in Heads : g # h => Elems(ls[g]) \cap Elems(ls[h]) = {}
    BY ListFacts
  <2>2. Elems(RemoveAt(ls[h], i)) = Elems(ls[h]) \ {q}
    BY <1>2, <2>1, RemoveElems
  <2>3. ks[h] = RemoveAt(ls[h], i) /\ \A g \in Heads \ {h} : ks[g] = ls[g]
    BY <2>1
  <2> HIDE DEF ks
  <2> QED BY <1>1, <2>1, <2>2, <2>3
<1> QED BY <1>3, <1>4, <1>5

LEMMA ListMoved ==
  ASSUME NEW ls, Holds(links, ls), NEW h \in Heads, NEW n \in Heads, h # n, ls[n] = <<>>,
         NEW i \in 1..Len(ls[h])
  PROVE  \E ks : Holds(Split(links, h, ls[h][i], n), ks) /\ Transferred(ls, ks)
<1> DEFINE ks == [ls EXCEPT ![h] = SubSeq(@, 1, i - 1), ![n] = SubSeq(ls[h], i, Len(ls[h]))]
<1>1. Holds(Split(links, h, ls[h][i], n), ks)
  BY ListSplit
<1>2. ls \in [Heads -> Seq(Entries)] /\ ls[h] \in Seq(Entries) /\ Len(ls[h]) \in Nat
  BY ListFacts
<1>3. i - 1 \in 0..Len(ls[h]) /\ (i - 1) + 1 = i
  BY <1>2
<1>4. SubSeq(ls[h], i, Len(ls[h])) \in Seq(Entries)
  BY <1>2, <1>3, SplitElems
<1>5. <<>> \o SubSeq(ls[h], i, Len(ls[h])) = SubSeq(ls[h], i, Len(ls[h]))
  BY <1>4, ConcatEmptySeq
<1>6. ks = [ls EXCEPT ![n] = @ \o SubSeq(ls[h], (i - 1) + 1, Len(ls[h])), ![h] = SubSeq(@, 1, i - 1)]
  BY <1>2, <1>3, <1>5
<1> HIDE DEF ks
<1>7. \E k \in 0..Len(ls[h]) : ks = [ls EXCEPT ![n] = @ \o SubSeq(ls[h], k + 1, Len(ls[h])),
                                             ![h] = SubSeq(@, 1, k)]
  BY <1>3, <1>6
<1>8. Transferred(ls, ks)
  BY <1>7 DEF Transferred
<1> QED BY <1>1, <1>8

LEMMA StepChanges ==
  ASSUME NEW ls, Holds(links, ls), QNext
  PROVE  \E ks : Holds(links', ks) /\ Changed(ls, ks)
<1>1. \A q \in Entries : q \in Linked <=> \E g \in Heads : q \in Elems(ls[g])
  BY ListsShown DEF Linked, Forward
<1>2. \A h \in Heads : Forward(h) = ls[h] /\ ToSet(Forward(h)) = Elems(ls[h])
  BY ListsShown DEF Forward
<1>3. ASSUME NEW h \in Heads, NEW q \in Entries, InsertTail(h, q)
      PROVE  \E ks : Holds(links', ks) /\ Changed(ls, ks)
  <2>1. Holds(links', [ls EXCEPT ![h] = Append(@, q)])
    BY <1>1, <1>3, TailJoins DEF InsertTail
  <2> QED BY <1>1, <1>3, <2>1 DEF InsertTail, Changed, Joined
<1>4. ASSUME NEW h \in Heads, NEW q \in Entries, InsertHead(h, q)
      PROVE  \E ks : Holds(links', ks) /\ Changed(ls, ks)
  <2>1. Holds(links', [ls EXCEPT ![h] = <<q>> \o @])
    BY <1>1, <1>4, HeadJoins DEF InsertHead
  <2> QED BY <1>1, <1>4, <2>1 DEF InsertHead, Changed, Joined
<1>5. ASSUME NEW q \in Entries, Unlink(q) PROVE \E ks : Holds(links', ks) /\ Changed(ls, ks)
  <2>1. CASE q \in Linked
    BY <1>5, <2>1, ElementRemoved DEF Unlink, Changed
  <2>2. CASE q \notin Linked
    <3>1. links.next[q] = q /\ links.prev[q] = q /\ links \in LinkMaps /\ q \in Cells
      BY <1>5, <2>2 DEF Unlink, Holds, LinkMaps, Cells
    <3>2. links' = links
      BY <1>5, <3>1, SelfLinked DEF Unlink
    <3> QED BY <3>2 DEF Changed
  <2> QED BY <2>1, <2>2
<1>6. ASSUME NEW q \in Entries, UnlinkInit(q) PROVE \E ks : Holds(links', ks) /\ Changed(ls, ks)
  <2>1. PICK ks : /\ Holds(Removed(links, q), ks) /\ Left(ls, ks)
                  /\ \A g \in Heads : q \notin Elems(ks[g])
    BY <1>6, ElementRemoved DEF UnlinkInit
  <2>2. Holds(links', ks)
    BY <1>6, <2>1, FreeInitialized DEF UnlinkInit
  <2> QED BY <2>1, <2>2 DEF Changed
<1>7. ASSUME NEW h \in Heads, NEW n \in Heads, AddAll(h, n)
      PROVE  \E ks : Holds(links', ks) /\ Changed(ls, ks)
  <2> DEFINE ks == [ls EXCEPT ![h] = @ \o ls[n], ![n] = <<>>]
  <2>1. Holds(links', ks) /\ h # n
    BY <1>7, ListAdded DEF AddAll
  <2>2. ls[n] \in Seq(Entries) /\ ls \in [Heads -> Seq(Entries)]
    BY ListFacts
  <2>3. SubSeq(ls[n], 0 + 1, Len(ls[n])) = ls[n] /\ SubSeq(ls[n], 1, 0) = <<>> /\ 0 \in 0..Len(ls[n])
    BY <2>2, SubSeqFull, SubSeqEmpty
  <2>4. ks = [ls EXCEPT ![h] = @ \o SubSeq(ls[n], 0 + 1, Len(ls[n])), ![n] = SubSeq(@, 1, 0)]
    BY <2>1, <2>2, <2>3
  <2>5. Transferred(ls, ks)
    BY <2>1, <2>3, <2>4 DEF Transferred
  <2> QED BY <2>1, <2>5 DEF Changed
<1>8. ASSUME NEW h \in Heads, NEW n \in Heads, Move(h, n)
      PROVE  \E ks : Holds(links', ks) /\ Changed(ls, ks)
  <2>1. h # n /\ ls[n] = <<>> /\ links' = Moved(links, h, n)
    BY <1>2, <1>8 DEF Move
  <2>2. /\ links \in LinkMaps /\ n \in Cells
        /\ ls[n] \in Seq(Entries) /\ Segment(links, n, ls[n], n)
    BY ListFacts
  <2>3. links.next[h] = IF ls[h] = <<>> THEN h ELSE ls[h][1]
    <3>1. ls[h] \in Seq(Entries) /\ Segment(links, h, ls[h], h)
      BY ListFacts
    <3> QED BY <3>1, FirstIs
  <2>4. CASE Empty(links, h)
    <3>1. links.next[n] = n /\ links.prev[n] = n
      BY <2>1, <2>2, SegmentNone DEF Link
    <3>2. links' = links
      BY <2>1, <2>2, <2>4, <3>1, SelfLinked DEF Moved
    <3> QED BY <3>2 DEF Changed
  <2>5. CASE ~Empty(links, h)
    <3>1. ls[h] # <<>> /\ ls[h] \in Seq(Entries) /\ links.next[h] = ls[h][1]
      BY <2>3, <2>5, ListFacts DEF Empty
    <3>2. 1 \in 1..Len(ls[h])
      BY <3>1, EmptySeq
    <3>3. links' = Split(links, h, ls[h][1], n)
      BY <2>1, <2>5, <3>1 DEF Moved
    <3> QED BY <2>1, <3>2, <3>3, ListMoved DEF Changed
  <2> QED BY <2>4, <2>5
<1>9. ASSUME NEW h \in Heads, NEW n \in Heads, NEW q \in Entries, SplitAt(h, q, n)
      PROVE  \E ks : Holds(links', ks) /\ Changed(ls, ks)
  <2>1. h # n /\ ls[n] = <<>> /\ q \in Elems(ls[h]) /\ links' = Split(links, h, q, n)
    BY <1>2, <1>9 DEF SplitAt
  <2>2. PICK i \in 1..Len(ls[h]) : q = ls[h][i]
    BY <2>1 DEF Elems
  <2> QED BY <2>1, <2>2, ListMoved DEF Changed
<1> QED BY <1>3, <1>4, <1>5, <1>6, <1>7, <1>8, <1>9 DEF QNext

\* A change of the lists is a step of Lists, or none.
LEMMA ChangeIsStep ==
  ASSUME NEW ls, NEW ks, Holds(links, ls), Holds(links', ks), Changed(ls, ks)
  PROVE  [AbstractLists!Next]_([h \in Heads |-> Forward(h)])
<1> DEFINE lists == [h \in Heads |-> Forward(h)]
<1>1. lists = ls
  BY ListsShown DEF Forward
<1>2. lists' = ks
  BY ListsShown DEF Forward
<1>3. ls \in [Heads -> Seq(Entries)]
  BY DEF Holds
<1>4. AbstractLists!Members = UNION {Elems(ls[h]) : h \in Heads}
  <2>1. AbstractLists!Members = UNION {ToSet(ls[h]) : h \in Heads}
    BY <1>1 DEF AbstractLists!Members, AbstractLists!ToSet, ToSet
  <2>2. \A h \in Heads : ToSet(ls[h]) = Elems(ls[h])
    BY <1>3, ElemsOfSeq
  <2> QED BY <2>1, <2>2
<1>5. \A h \in Heads : DOMAIN ls[h] = 1..Len(ls[h]) /\ \A i \in 1..Len(ls[h]) : ls[h][i] \in Entries
  BY <1>3, ElemsOfSeq
<1>6. ASSUME ks # ls, Joined(ls, ks) PROVE AbstractLists!Next
  <2>1. PICK h \in Heads, q \in Entries :
          /\ \A g \in Heads : q \notin Elems(ls[g])
          /\ ks = [ls EXCEPT ![h] = Append(@, q)] \/ ks = [ls EXCEPT ![h] = <<q>> \o @]
    BY <1>6 DEF Joined
  <2>2. AbstractLists!Join(h, q)
    BY <1>1, <1>2, <1>4, <2>1 DEF AbstractLists!Join
  <2> QED BY <1>1, <1>2, <1>6, <2>2 DEF AbstractLists!Next
<1>7. ASSUME ks # ls, Left(ls, ks) PROVE AbstractLists!Next
  <2>0. PICK h \in Heads : \E i \in 1..Len(ls[h]) : ks = [ls EXCEPT ![h] = RemoveAt(@, i)]
    BY <1>7 DEF Left
  <2>1. PICK i \in 1..Len(ls[h]) : ks = [ls EXCEPT ![h] = RemoveAt(@, i)]
    BY <2>0
  <2>2. AbstractLists!Leave(ls[h][i])
    <3>1. AbstractLists!RemoveAt(ls[h], i) = RemoveAt(ls[h], i)
      BY DEF AbstractLists!RemoveAt, RemoveAt
    <3>2. \E g \in Heads : \E j \in DOMAIN ls[g] :
            ls[g][j] = ls[h][i] /\ ks = [ls EXCEPT ![g] = AbstractLists!RemoveAt(ls[g], j)]
      <4>1. i \in DOMAIN ls[h] /\ ks = [ls EXCEPT ![h] = AbstractLists!RemoveAt(ls[h], i)]
        BY <1>5, <2>1, <3>1
      <4> QED BY <4>1
    <3> HIDE DEF lists
    <3>3. \E g \in Heads : \E j \in DOMAIN lists[g] :
            lists[g][j] = ls[h][i] /\ lists' = [lists EXCEPT ![g] = AbstractLists!RemoveAt(lists[g], j)]
      BY <1>1, <1>2, <3>2
    <3> QED BY <3>3, Zenon DEF AbstractLists!Leave, lists
  <2> QED BY <1>1, <1>2, <1>5, <1>7, <2>2 DEF AbstractLists!Next
<1>8. ASSUME ks # ls, Transferred(ls, ks) PROVE AbstractLists!Next
  <2>1. PICK h, n \in Heads :
          /\ h # n
          /\ \E k \in 0..Len(ls[n]) : ks = [ls EXCEPT ![h] = @ \o SubSeq(ls[n], k + 1, Len(ls[n])),
                                                      ![n] = SubSeq(@, 1, k)]
    BY <1>8 DEF Transferred
  <2>2. AbstractLists!Transfer(h, n)
    BY <1>1, <1>2, <2>1 DEF AbstractLists!Transfer
  <2> QED BY <1>1, <1>2, <1>8, <2>2 DEF AbstractLists!Next
<1>9. ks = ls => UNCHANGED lists
  BY <1>1, <1>2
<1> QED BY <1>6, <1>7, <1>8, <1>9 DEF Changed

LEMMA ListsAgree == LinksInv => TwoWays /\ Apart
<1> SUFFICES ASSUME NEW ls, Holds(links, ls) PROVE TwoWays /\ Apart
  BY DEF LinksInv
<1>1. \A h \in Heads : /\ Forward(h) = ls[h] /\ Backward(h) = Reverse(ls[h])
                       /\ ToSet(Forward(h)) = Elems(ls[h])
  BY ListsShown DEF Forward, Backward
<1>2. Apart
  BY <1>1 DEF Apart, Holds
<1>3. ASSUME NEW h \in Heads
      PROVE  /\ Forward(h) = Reverse(Backward(h)) /\ ToSet(Forward(h)) \subseteq Entries
             /\ Empty(links, h) <=> Forward(h) = <<>>
  <2> DEFINE s == ls[h]
             r == Reverse(s)
  <2>1. /\ s \in Seq(Entries) /\ Segment(links, h, s, h) /\ Elems(s) \subseteq Entries
        /\ h \notin Entries /\ Len(s) \in Nat
    BY ListFacts
  <2> HIDE DEF s
  <2>2. s = Reverse(r)
    <3>1. r = [i \in 1..Len(s) |-> s[(Len(s) - i) + 1]]
      BY DEF Reverse
    <3>2. Len(r) = Len(s) /\ \A i \in 1..Len(s) : r[(Len(s) - i) + 1] = s[i]
      BY <2>1, <3>1
    <3> HIDE DEF r
    <3>3. Reverse(r) = [i \in 1..Len(s) |-> s[i]]
      BY <3>2 DEF Reverse
    <3> QED BY <2>1, <3>3, LenProperties
  <2>3. links.next[h] = IF s = <<>> THEN h ELSE s[1]
    BY <2>1, FirstIs
  <2>4. s # <<>> => s[1] \in Entries
    BY <2>1, HeadAndRest
  <2> HIDE DEF r
  <2> QED BY <1>1, <2>1, <2>2, <2>3, <2>4 DEF Empty, r, s
<1> QED BY <1>2, <1>3 DEF TwoWays

\* For every number of heads and of entries: whatever series of queue.h's macros the
\* adapter applies, each keeps the links of every list whole in both directions, no
\* list leads into another, and the lists change as Lists says, an element joining
\* at an end, leaving, or the end of one list becoming that of another.
THEOREM QueueImplements == QSpec => ImplementsLists
<1>1. QInit => LinksInv /\ AbstractLists!Init
  <2> SUFFICES ASSUME QInit PROVE LinksInv /\ AbstractLists!Init
    OBVIOUS
  <2>1. Holds(links, [h \in Heads |-> <<>>])
    BY LinksStart
  <2>2. [h \in Heads |-> Forward(h)] = [h \in Heads |-> <<>>]
    BY <2>1, ListsShown DEF Forward
  <2> QED BY <2>1, <2>2 DEF LinksInv, AbstractLists!Init
<1>2. LinksInv /\ [QNext]_links => LinksInv' /\ [AbstractLists!Next]_([h \in Heads |-> Forward(h)])
  <2> SUFFICES ASSUME LinksInv, [QNext]_links
               PROVE  LinksInv' /\ [AbstractLists!Next]_([h \in Heads |-> Forward(h)])
    OBVIOUS
  <2>1. PICK ls : Holds(links, ls)
    BY DEF LinksInv
  <2>2. \E ks : Holds(links', ks) /\ Changed(ls, ks)
    <3>1. CASE QNext
      BY <2>1, <3>1, StepChanges
    <3>2. CASE links' = links
      BY <2>1, <3>2 DEF Changed
    <3> QED BY <3>1, <3>2
  <2>3. PICK ks : Holds(links', ks) /\ Changed(ls, ks)
    BY <2>2
  <2>4. [AbstractLists!Next]_([h \in Heads |-> Forward(h)])
    BY <2>1, <2>3, ChangeIsStep
  <2> QED BY <2>3, <2>4 DEF LinksInv
<1>3. LinksInv => TwoWays /\ Apart
  BY ListsAgree
<1> QED BY <1>1, <1>2, <1>3, PTL DEF QSpec, ImplementsLists, AbstractLists!Spec
=============================================================================
