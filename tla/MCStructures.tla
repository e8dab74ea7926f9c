---------------------------- MODULE MCStructures ----------------------------
\* Instances for TLC of the structures of pointers.  They are independent of each
\* other: a behaviour is about one of them.
EXTENDS Queue, Heap, HashTable

CONSTANTS node1, node2, node3, node4, node5, node6

TwoHeads   == {"h1", "h2"}
ThreeEntries == {"e1", "e2", "e3"}
SixNodes   == {node1, node2, node3, node4, node5, node6}
ThreeTimes == 0..2
AnyNode    == Permutations(SixNodes)
\* Items of five keys, of which two are equal, and hashes that collide.
FiveItems  == {"a", "b", "c", "d", "e"}
Keyed      == [a |-> 0, b |-> 1, c |-> 2, d |-> 2, e |-> 3]
Hashed     == <<2, 1, 6>> @@ (0 :> 0)

VARIABLE subject

Init == QInit /\ HInit /\ THInit /\ subject \in {"queue", "heap", "table"}

Next ==
  /\ UNCHANGED subject
  /\ \/ subject = "queue" /\ QNext /\ UNCHANGED <<heapVars, table>>
     \/ subject = "heap" /\ HNext /\ UNCHANGED <<links, table>>
     \/ subject = "table" /\ THNext /\ UNCHANGED <<links, heapVars>>

Spec == Init /\ [][Next]_<<links, heapVars, table, subject>>
=============================================================================
