----------------------------- MODULE HashTable -----------------------------
(***************************************************************************)
(* The hash table of uthash.h, in which discord-adapter-ratelimit.c keeps  *)
(* its routes and buckets: every element is in a chain, the bucket of its  *)
(* hash, and in the doubly linked list of all elements in the order they   *)
(* were added.  A chain that grows too long doubles the number of buckets. *)
(*                                                                         *)
(* uthash does not forbid two elements of the same key, and the buckets of *)
(* Discord may be such elements.                                           *)
(***************************************************************************)
EXTENDS Naturals, SequencesExt, FiniteSets

CONSTANTS
  Items,       \* structures with a hash handle
  KeyOf,       \* their keys
  HashOf,      \* HASH_VALUE of every key
  InitialLog,  \* HASH_INITIAL_NUM_BUCKETS_LOG2 (5)
  Thresh,      \* HASH_BKT_CAPACITY_THRESH (10)
  MaxLog       \* bound: no more than 2^MaxLog buckets

HNULL == "NULL"

ASSUME HashAssumption ==
  /\ IsFiniteSet(Items) /\ HNULL \notin Items
  /\ \A e \in Items : KeyOf[e] \in Nat /\ HashOf[KeyOf[e]] \in Nat
  /\ InitialLog \in Nat /\ MaxLog \in Nat /\ Thresh \in Nat \ {0}

VARIABLE table  \* head, the UT_hash_table it leads to, and the handles

NoHandle == [prev |-> HNULL, next |-> HNULL, hh_prev |-> HNULL, hh_next |-> HNULL]
NoBucket == [hh_head |-> HNULL, count |-> 0, expand_mult |-> 0]
NoTable  == [head |-> HNULL, tail |-> HNULL, num_items |-> 0, log2 |-> 0,
             buckets |-> <<>>, ineff_expands |-> 0, noexpand |-> FALSE,
             hh |-> [e \in Items |-> NoHandle]]

THInit == table = NoTable

\* HASH_TO_BKT
Bkt(e, log2) == HashOf[KeyOf[e]] % 2^log2

\* HASH_MAKE_TABLE
MakeTable(t, e) ==
  [t EXCEPT !.head = e, !.tail = e, !.log2 = InitialLog,
            !.buckets = [i \in 0 .. 2^InitialLog - 1 |-> NoBucket]]

\* HASH_APPEND_LIST
AppendList(t, e) ==
  [t EXCEPT !.hh[e].prev = t.tail, !.hh[t.tail].next = e, !.tail = e]

\* The element becomes the first of its chain.
Chained(t, e, b) ==
  LET first == t.buckets[b].hh_head
      t1 == [t EXCEPT !.buckets[b].count = @ + 1, !.buckets[b].hh_head = e,
                      !.hh[e].hh_next = first, !.hh[e].hh_prev = HNULL]
  IN  IF first = HNULL THEN t1 ELSE [t1 EXCEPT !.hh[first].hh_prev = e]

\* The elements that follow a link from e on.
RECURSIVE Trail(_, _, _)
Trail(t, e, link) ==
  IF e = HNULL THEN <<>> ELSE <<e>> \o Trail(t, t.hh[e][link], link)

Chain(t, b) == Trail(t, t.buckets[b].hh_head, "hh_next")
App(t)      == Trail(t, t.head, "next")

\* Mutant of Rehashed: items keep the link to the item before them.
Rehashed_Prev(t, e, ideal) ==
  LET b == Bkt(e, t.log2)
      first == t.buckets[b].hh_head
  IN  [t EXCEPT !.buckets[b].count = @ + 1, !.buckets[b].hh_head = e, !.hh[e].hh_next = first]

\* An item moves to the new buckets, whose multiplier grows with their count.
Rehashed(t, e, ideal) ==
  LET b  == Bkt(e, t.log2)
      t1 == Chained(t, e, b)
      n  == t1.buckets[b].count
  IN  [t1 EXCEPT !.buckets[b].expand_mult =
         IF n > ideal /\ n > @ * ideal THEN @ + 1 ELSE @]

\* HASH_EXPAND_BUCKETS: twice the buckets, until two expansions in a row leave
\* more than half of the items in places that are not ideal.
Expanded(t) ==
  LET n      == 2^(t.log2 + 1)
      ideal  == (t.num_items \div n) + (IF t.num_items % n # 0 THEN 1 ELSE 0)
      old    == FlattenSeq([i \in 1 .. 2^t.log2 |-> Chain(t, i - 1)])
      new    == FoldLeft(LAMBDA u, e : Rehashed(u, e, ideal),
                  [t EXCEPT !.log2 = @ + 1, !.buckets = [i \in 0 .. n - 1 |-> NoBucket]], old)
      over(b) == IF new.buckets[b].count > ideal THEN new.buckets[b].count - ideal ELSE 0
      nonideal == FoldLeft(LAMBDA s, b : s + over(b), 0, [i \in 1..n |-> i - 1])
      ineff  == IF nonideal > t.num_items \div 2 THEN t.ineff_expands + 1 ELSE 0
  IN  [new EXCEPT !.ineff_expands = ineff, !.noexpand = (@ \/ ineff > 1)]

\* HASH_ADD_TO_BKT, in HASH_ADD_TO_TABLE
AddToTable(t, e) ==
  LET b  == Bkt(e, t.log2)
      t1 == Chained([t EXCEPT !.num_items = @ + 1], e, b)
      c  == t1.buckets[b]
  IN  IF c.count >= (c.expand_mult + 1) * Thresh /\ ~t1.noexpand THEN Expanded(t1) ELSE t1

\* HASH_ADD
Add(e) ==
  /\ e \notin ToSet(App(table))
  /\ LET t == [table EXCEPT !.hh[e] = NoHandle]
     IN  table' = AddToTable(IF t.head = HNULL THEN MakeTable(t, e) ELSE AppendList(t, e), e)
  /\ table'.log2 <= MaxLog

\* HASH_ADD_INORDER: before the first item with a greater key.
AddInOrder(e) ==
  /\ e \notin ToSet(App(table)) /\ table.head # HNULL
  /\ LET t     == [table EXCEPT !.hh[e] = NoHandle]
         later == SelectSeq(App(t), LAMBDA x : KeyOf[x] > KeyOf[e])
         x     == Head(later)
         p     == t.hh[x].prev
         t1    == [t EXCEPT !.hh[e].next = x, !.hh[e].prev = p, !.hh[x].prev = e]
         t2    == IF p = HNULL THEN [t1 EXCEPT !.head = e] ELSE [t1 EXCEPT !.hh[p].next = e]
     IN  table' = AddToTable(IF later = <<>> THEN AppendList(t, e) ELSE t2, e)
  /\ table'.log2 <= MaxLog

\* HASH_FIND
Find(k) ==
  IF table.head = HNULL THEN HNULL
  ELSE LET found == SelectSeq(Chain(table, HashOf[k] % 2^table.log2), LAMBDA e : KeyOf[e] = k)
       IN  IF found = <<>> THEN HNULL ELSE Head(found)

\* HASH_DEL_IN_BKT
DelInBkt(t, e, b) ==
  LET h  == t.hh[e]
      t1 == [t EXCEPT !.buckets[b].count = @ - 1,
                      !.buckets[b].hh_head = IF @ = e THEN h.hh_next ELSE @]
      t2 == IF h.hh_prev = HNULL THEN t1 ELSE [t1 EXCEPT !.hh[h.hh_prev].hh_next = h.hh_next]
  IN  IF h.hh_next = HNULL THEN t2 ELSE [t2 EXCEPT !.hh[h.hh_next].hh_prev = h.hh_prev]

\* Mutant of Deleted: the tail stays where it was.
Deleted_Tail(t, e) ==
  LET h  == t.hh[e]
      t2 == IF h.prev = HNULL THEN [t EXCEPT !.head = h.next] ELSE [t EXCEPT !.hh[h.prev].next = h.next]
      t3 == IF h.next = HNULL THEN t2 ELSE [t2 EXCEPT !.hh[h.next].prev = h.prev]
  IN  IF h.prev = HNULL /\ h.next = HNULL THEN NoTable
      ELSE [DelInBkt(t3, e, Bkt(e, t.log2)) EXCEPT !.num_items = @ - 1, !.hh[e] = NoHandle]

\* HASH_DELETE_HH: the table goes with its last item.  A deleted item keeps
\* its handle in the code, where it is not read again.
Deleted(t, e) ==
  LET h  == t.hh[e]
      t1 == IF t.tail = e THEN [t EXCEPT !.tail = h.prev] ELSE t
      t2 == IF h.prev = HNULL THEN [t1 EXCEPT !.head = h.next] ELSE [t1 EXCEPT !.hh[h.prev].next = h.next]
      t3 == IF h.next = HNULL THEN t2 ELSE [t2 EXCEPT !.hh[h.next].prev = h.prev]
  IN  IF h.prev = HNULL /\ h.next = HNULL THEN NoTable
      ELSE [DelInBkt(t3, e, Bkt(e, t.log2)) EXCEPT !.num_items = @ - 1, !.hh[e] = NoHandle]

Del(e) == e \in ToSet(App(table)) /\ table' = Deleted(table, e)

RECURSIVE Merged_Strict(_, _)
\* Mutant of Merged: of equals, the later one first.
Merged_Strict(p, q) ==
  IF p = <<>> \/ q = <<>> THEN p \o q
  ELSE IF KeyOf[Head(p)] < KeyOf[Head(q)] THEN <<Head(p)>> \o Merged_Strict(Tail(p), q)
  ELSE <<Head(q)>> \o Merged_Strict(p, Tail(q))

RECURSIVE Merged(_, _)
\* HASH_SRT, a merge sort of the list: two runs become one, ...
Merged(p, q) ==
  IF p = <<>> \/ q = <<>> THEN p \o q
  ELSE IF KeyOf[Head(p)] <= KeyOf[Head(q)] THEN <<Head(p)>> \o Merged(Tail(p), q)
  ELSE <<Head(q)>> \o Merged(p, Tail(q))

\* ... every pair of runs of a size, ...
MergePass(s, size) ==
  LET Upto(n) == IF n < Len(s) THEN n ELSE Len(s)
  IN FlattenSeq([i \in 1 .. ((Len(s) + 2 * size - 1) \div (2 * size)) |->
    LET from == 2 * size * (i - 1)
    IN  Merged(SubSeq(s, from + 1, Upto(from + size)),
               SubSeq(s, from + size + 1, Upto(from + 2 * size)))])

\* ... and sizes are doubled until a pass merges once.
RECURSIVE MergeSorted(_, _)
MergeSorted(s, size) ==
  IF Len(s) <= 2 * size THEN MergePass(s, size) ELSE MergeSorted(MergePass(s, size), 2 * size)

\* The links of the list are those of a sequence.
Relinked(t, s) ==
  [t EXCEPT !.head = s[1], !.tail = s[Len(s)],
            !.hh = [e \in Items |->
                      IF e \notin ToSet(s) THEN t.hh[e]
                      ELSE LET i == CHOOSE i \in DOMAIN s : s[i] = e
                           IN [t.hh[e] EXCEPT !.prev = IF i = 1 THEN HNULL ELSE s[i - 1],
                                              !.next = IF i = Len(s) THEN HNULL ELSE s[i + 1]]]]

Sort == table.head # HNULL /\ table' = Relinked(table, MergeSorted(App(table), 1))

THNext == Sort \/ \E e \in Items : Add(e) \/ AddInOrder(e) \/ Del(e)

THSpec == THInit /\ [][THNext]_table
-----------------------------------------------------------------------------
(* Properties *)

TableBuckets == DOMAIN table.buckets

\* HASH_FSCK, the library's own check, compiled away in this program: after any
\* series of additions, deletions, sorts and expansions the counts are right,
\* and all links agree both ways.
Fsck ==
  LET Back(s, link) == \A i \in DOMAIN s :
                         table.hh[s[i]][link] = IF i = 1 THEN HNULL ELSE s[i - 1]
  IN /\ \A b \in TableBuckets : /\ Back(Chain(table, b), "hh_prev")
                           /\ table.buckets[b].count = Len(Chain(table, b))
     /\ Back(App(table), "prev")
     /\ Len(App(table)) = table.num_items
     /\ table.head # HNULL => table.tail = App(table)[Len(App(table))]
     /\ MapThenSumSet(LAMBDA b : table.buckets[b].count, TableBuckets) = table.num_items

\* What is in the list is found, whatever the expansions did to the chains: the
\* bucket a route was mapped to is not forgotten and made a second time.
Finds ==
  \A e \in Items :
    LET found == Find(KeyOf[e])
        same  == {x \in ToSet(App(table)) : KeyOf[x] = KeyOf[e]}
    IN  IF same = {} THEN found = HNULL ELSE found \in same

\* Sorting loses nothing, and items of one key keep their order.
SortsStably ==
  [][Sort =>
       LET old == App(table)
           new == App(table)'
           at(s, e) == CHOOSE i \in DOMAIN s : s[i] = e
       IN /\ ToSet(new) = ToSet(old) /\ Len(new) = Len(old)
          /\ \A i, j \in DOMAIN new :
               i < j => \/ KeyOf[new[i]] < KeyOf[new[j]]
                        \/ KeyOf[new[i]] = KeyOf[new[j]] /\ at(old, new[i]) < at(old, new[j])]_table

\* The table keeps its items: they are found, linked and counted, and sorting them
\* loses and turns round nothing.
KeepsItems ==
  [](Fsck /\ Finds) /\ SortsStably
=============================================================================
