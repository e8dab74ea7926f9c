-------------------------------- MODULE Heap --------------------------------
(***************************************************************************)
(* The binary min heap of heap-inl.h, a tree of nodes with links to their  *)
(* children and parents, that holds the timers of discord-adapter.c.       *)
(***************************************************************************)
EXTENDS Naturals, SequencesExt, FiniteSets

CONSTANTS
  Nodes,  \* the nodes of contexts
  Keys    \* the times they are due, compared by timer_less_than

NULL == "NULL"

ASSUME HeapAssumption == IsFiniteSet(Nodes) /\ NULL \notin Nodes /\ Keys \subseteq Nat

VARIABLES
  heap,  \* min, nelts; left, right and parent of every node, and its time
  last   \* history: the node that heap_dequeue removed last, as a set

heapVars == <<heap, last>>

Unlinked == [left |-> NULL, right |-> NULL, parent |-> NULL]

HInit ==
  /\ heap = [min |-> NULL, nelts |-> 0,
             node |-> [n \in Nodes |-> Unlinked], key |-> [n \in Nodes |-> 0]]
  /\ last = {}

\* Stores of a value in a field of a node that may be NULL.
Store(h, n, field, v) ==
  IF n = NULL THEN h
  ELSE CASE field = "left"   -> [h EXCEPT !.node[n].left = v]
         [] field = "right"  -> [h EXCEPT !.node[n].right = v]
         [] field = "parent" -> [h EXCEPT !.node[n].parent = v]

\* What linked to n from above links to m.
Replace(h, above, n, m) ==
  IF above = NULL THEN [h EXCEPT !.min = m]
  ELSE Store(h, above, IF h.node[above].left = n THEN "left" ELSE "right", m)

\* A step is repeated until it changes nothing, which takes as many rounds as
\* there are nodes at most.
Repeat(Step(_), h) == FoldLeft(LAMBDA g, i : Step(g), h, [i \in 1..Cardinality(Nodes) |-> i])

\* Mutant of Swapped: the sibling keeps its old parent.
Swapped_Sibling(h, p, c) ==
  LET side  == IF h.node[p].left = c THEN "left" ELSE "right"
      h1 == [h EXCEPT !.node[p] = [h.node[c] EXCEPT !.parent = c], !.node[c] = h.node[p]]
      h2 == Store(h1, c, side, p)
      h4 == Store(Store(h2, h2.node[p].left, "parent", p), h2.node[p].right, "parent", p)
  IN  Replace(h4, h4.node[c].parent, p, c)

\* heap_node_swap: the child moves up, its parent takes its place.
Swapped(h, p, c) ==
  LET side  == IF h.node[p].left = c THEN "left" ELSE "right"
      other == IF side = "left" THEN h.node[p].right ELSE h.node[p].left
      h1 == [h EXCEPT !.node[p] = [h.node[c] EXCEPT !.parent = c], !.node[c] = h.node[p]]
      h2 == Store(h1, c, side, p)
      h3 == Store(h2, other, "parent", c)
      h4 == Store(Store(h3, h3.node[p].left, "parent", p), h3.node[p].right, "parent", p)
  IN  Replace(h4, h4.node[c].parent, p, c)

\* timer_less_than, which also holds of equal times, where heap-inl.h:45 asks for
\* "a < b": equal timers are swapped as well.
LessThan(h, n, m) == h.key[n] <= h.key[m]

\* Walk up the tree while the parent is not earlier than n.
SiftedUp(h, n) ==
  Repeat(LAMBDA g : IF g.node[n].parent # NULL /\ LessThan(g, n, g.node[n].parent)
                    THEN Swapped(g, g.node[n].parent, n) ELSE g, h)

\* Mutant of SmallestOf: the right child is not looked at.
SmallestOf_Left(h, n) ==
  LET l == h.node[n].left IN IF l # NULL /\ LessThan(h, l, n) THEN l ELSE n

SmallestOf(h, n) ==
  LET l == h.node[n].left
      r == h.node[n].right
      s == IF l # NULL /\ LessThan(h, l, n) THEN l ELSE n
  IN  IF r # NULL /\ LessThan(h, r, s) THEN r ELSE s

\* Walk down while a child is not later; of two equal children the right one goes up.
SiftedDown(h, n) ==
  Repeat(LAMBDA g : IF SmallestOf(g, n) # n THEN Swapped(g, n, SmallestOf(g, n)) ELSE g, h)

\* The directions from the root to the i-th place of the tree, in the order of
\* rows, are the binary digits of i after the first.
Path(i) ==
  LET k == CHOOSE k \in 0..i : 2^k <= i /\ i < 2^(k + 1)
  IN  [j \in 1..k |-> IF (i \div 2^(k - j)) % 2 = 1 THEN "right" ELSE "left"]

ChildAt(h, n, side) == IF side = "left" THEN h.node[n].left ELSE h.node[n].right

Follow(h, path) == FoldLeft(LAMBDA n, side : ChildAt(h, n, side), h.min, path)

\* *slot = v for the slot at a path, and the node that has the slot.
Owner(h, path) == IF path = <<>> THEN NULL ELSE Follow(h, Front(path))
StoreAt(h, path, v) ==
  IF path = <<>> THEN [h EXCEPT !.min = v] ELSE Store(h, Owner(h, path), Last(path), v)

\* heap_insert
Inserted(h, n, k) ==
  LET path == Path(h.nelts + 1)
      h1 == [h EXCEPT !.node[n] = [Unlinked EXCEPT !.parent = Owner(h, path)],
                      !.key[n] = k, !.nelts = @ + 1]
  IN  SiftedUp(StoreAt(h1, path, n), n)

\* Mutant of Rebalanced: only downwards.
Rebalanced_Down(h, n) == SiftedDown(h, n)

\* The node that took the place of the removed one goes down, then up: it need
\* not be the largest of the tree.
Rebalanced(h, n) == SiftedUp(SiftedDown(h, n), n)

\* What the code leaves in a node that is outside the heap is never read.
Forget(h, n) == [h EXCEPT !.node[n] = Unlinked, !.key[n] = 0]

\* heap_remove: the last node takes the place of n.
Without(h, n) ==
  IF h.nelts = 0 THEN h
  ELSE LET path == Path(h.nelts)
           m  == Follow(h, path)
           h1 == StoreAt([h EXCEPT !.nelts = @ - 1], path, NULL)
           at == h1.node[n]
           h2 == [h1 EXCEPT !.node[m] = at]
           h3 == Store(Store(h2, at.left, "parent", m), at.right, "parent", m)
       IN  Forget(IF m = n THEN h1 ELSE Rebalanced(Replace(h3, at.parent, n, m), m), n)

-----------------------------------------------------------------------------
\* The nodes of the heap, with their places.
Places == 1..heap.nelts
At(i)  == Follow(heap, Path(i))
InHeap == {At(i) : i \in Places}

\* A timer is set for a context that has none.
HeapInsert(n, k) ==
  /\ n \notin InHeap
  /\ heap' = Inserted(heap, n, k)
  /\ last' = {}

\* A timer is removed before it is due.
HeapRemove(n) ==
  /\ n \in InHeap
  /\ heap' = Without(heap, n)
  /\ last' = {}

\* heap_dequeue: the least of them is removed.
HeapDequeue ==
  /\ heap.min # NULL
  /\ heap' = Without(heap, heap.min)
  /\ last' = {heap.min}

HNext == HeapDequeue \/ \E n \in Nodes : HeapRemove(n) \/ \E k \in Keys : HeapInsert(n, k)

HSpec == HInit /\ [][HNext]_heapVars
-----------------------------------------------------------------------------
(* Properties *)

\* "It's always a complete binary tree" with links that agree both ways, after
\* any series of insertions and removals: a wrong link in a swap loses timers or
\* crashes many steps later.
WellLinked ==
  /\ Cardinality(InHeap) = heap.nelts /\ InHeap \subseteq Nodes
  /\ heap.nelts = 0 <=> heap.min = NULL
  /\ \A i \in Places :
       LET n == heap.node[At(i)]
       IN /\ n.parent = (IF i = 1 THEN NULL ELSE At(i \div 2))
          /\ n.left  = (IF 2*i \in Places THEN At(2*i) ELSE NULL)
          /\ n.right = (IF 2*i + 1 \in Places THEN At(2*i + 1) ELSE NULL)

\* "The root is the lowest element in the set", and so for every subtree.
HeapOrdered == \A i \in Places \ {1} : heap.key[At(i \div 2)] <= heap.key[At(i)]

AbstractTimers ==
  INSTANCE Timers WITH due <- [n \in InHeap |-> heap.key[n]], fired <- last

\* The heap implements a set of timers of which the earliest fires first, and stays
\* a heap, although equal timers change places on every walk: what is wrong in a
\* subtree shows only when its root has fired.
ImplementsTimers == AbstractTimers!Spec /\ [](WellLinked /\ HeapOrdered)
=============================================================================
