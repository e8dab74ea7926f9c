------------------------------- MODULE Queue -------------------------------
(***************************************************************************)
(* The circular doubly linked lists of queue.h: a list is a head and the   *)
(* elements linked to it.  The macros only write links; whether an element *)
(* is in a list is for their users to know.  An element that has left keeps*)
(* its links, unless QUEUE_INIT is applied to it.                          *)
(***************************************************************************)
EXTENDS Naturals, SequencesExt, FiniteSets

CONSTANTS
  Heads,   \* heads of lists: waitq and busyq of the buckets, idleq, ...
  Entries  \* elements: the entries of contexts and of connections

ASSUME QueueAssumption == IsFiniteSet(Heads \cup Entries) /\ Heads \cap Entries = {}

Cells == Heads \cup Entries

VARIABLE links   \* QUEUE_NEXT and QUEUE_PREV of every head and element

SetNext(m, q, v) == [m EXCEPT !.next[q] = v]
SetPrev(m, q, v) == [m EXCEPT !.prev[q] = v]

QInit == links = [next |-> [q \in Cells |-> q], prev |-> [q \in Cells |-> q]]

\* QUEUE_INIT
Initialized(m, q) == SetPrev(SetNext(m, q, q), q, q)

\* QUEUE_EMPTY
Empty(m, h) == m.next[h] = h

\* QUEUE_FOREACH: the elements of a list, and the same backwards.
Walk(f, h) ==
  LET at[k \in 0..Cardinality(Cells)] == IF k = 0 THEN f[h] ELSE f[at[k - 1]]
      end == {k \in DOMAIN at : at[k] = h}
  IN  IF end = {} THEN <<>>
      ELSE [i \in 1 .. (CHOOSE k \in end : \A j \in end : k <= j) |-> at[i - 1]]

Forward(h)  == Walk(links.next, h)
Backward(h) == Walk(links.prev, h)

Linked == UNION {ToSet(Forward(h)) : h \in Heads}

-----------------------------------------------------------------------------
\* Mutant of InsertedTail: the old tail is not linked to the new one.
InsertedTail_Lost(m, h, q) == SetPrev(SetPrev(SetNext(m, q, h), q, m.prev[h]), h, q)

\* QUEUE_INSERT_TAIL, write by write.
InsertedTail(m, h, q) ==
  LET m1 == SetPrev(SetNext(m, q, h), q, m.prev[h])
      m2 == SetNext(m1, m1.prev[q], q)
  IN  SetPrev(m2, h, q)

\* QUEUE_INSERT_HEAD
InsertedHead(m, h, q) ==
  LET m1 == SetPrev(SetNext(m, q, m.next[h]), q, h)
      m2 == SetPrev(m1, m1.next[q], q)
  IN  SetNext(m2, h, q)

\* QUEUE_REMOVE
Removed(m, q) ==
  LET m1 == SetNext(m, m.prev[q], m.next[q])
  IN  SetPrev(m1, m1.next[q], m1.prev[q])

\* QUEUE_ADD: it leaves the links of the head n as they are.
QueueAdded(m, h, n) ==
  LET m1 == SetNext(m, m.prev[h], m.next[n])
      m2 == SetPrev(m1, m1.next[n], m1.prev[h])
      m3 == SetPrev(m2, h, m2.prev[n])
  IN  SetNext(m3, m3.prev[h], h)

\* Mutant of Split: the tail of what stays is not closed.
Split_Open(m, h, q, n) ==
  LET m1 == SetPrev(m, n, m.prev[h])
      m2 == SetNext(SetNext(m1, m1.prev[n], n), n, q)
  IN  SetPrev(SetPrev(m2, h, m2.prev[q]), q, n)

\* QUEUE_SPLIT: the elements from q on go from h to n.
Split(m, h, q, n) ==
  LET m1 == SetPrev(m, n, m.prev[h])
      m2 == SetNext(SetNext(m1, m1.prev[n], n), n, q)
      m3 == SetPrev(m2, h, m2.prev[q])
      m4 == SetNext(m3, m3.prev[h], h)
  IN  SetPrev(m4, q, n)

\* QUEUE_MOVE
Moved(m, h, n) == IF Empty(m, h) THEN Initialized(m, n) ELSE Split(m, h, m.next[h], n)

-----------------------------------------------------------------------------
(* The macros as their users apply them *)

InsertTail(h, q) == q \notin Linked /\ links' = InsertedTail(links, h, q)

InsertHead(h, q) == q \notin Linked /\ links' = InsertedHead(links, h, q)

\* An element is removed from its list; after QUEUE_INIT, once more.
Unlink(q) ==
  /\ q \in Linked \/ links.next[q] = q
  /\ links' = Removed(links, q)

\* QUEUE_REMOVE and QUEUE_INIT, as when a request of a bucket is sent.
UnlinkInit(q) == q \in Linked /\ links' = Initialized(Removed(links, q), q)

\* QUEUE_ADD and QUEUE_INIT of the other head, as in discord_adapter_stop_all.
AddAll(h, n) == h # n /\ links' = Initialized(QueueAdded(links, h, n), n)

\* QUEUE_MOVE to a head of the stack, whatever it held.
Move(h, n) == h # n /\ Forward(n) = <<>> /\ links' = Moved(links, h, n)

SplitAt(h, q, n) ==
  /\ h # n /\ Forward(n) = <<>> /\ q \in ToSet(Forward(h))
  /\ links' = Split(links, h, q, n)

QNext ==
  \/ \E h \in Heads, q \in Entries : InsertTail(h, q) \/ InsertHead(h, q)
  \/ \E q \in Entries : Unlink(q) \/ UnlinkInit(q)
  \/ \E h, n \in Heads : AddAll(h, n) \/ Move(h, n)
  \/ \E h, n \in Heads, q \in Entries : SplitAt(h, q, n)

QSpec == QInit /\ [][QNext]_links
-----------------------------------------------------------------------------
(* Properties *)

\* Both links of every list agree, over any series of insertions at both ends,
\* removals from the middle, second removals, splits and concatenations: a wrong
\* write here sends the loop of discord_adapter_perform round for ever.
TwoWays ==
  \A h \in Heads : /\ Forward(h) = Reverse(Backward(h)) /\ ToSet(Forward(h)) \subseteq Entries
                   /\ Empty(links, h) <=> Forward(h) = <<>>

\* No list leads into another: that is how requests get lost.
Apart == \A g, h \in Heads : g # h => ToSet(Forward(g)) \cap ToSet(Forward(h)) = {}

AbstractLists == INSTANCE Lists WITH lists <- [h \in Heads |-> Forward(h)]

\* The links implement lists of elements, in both directions: what a series of
\* macros leaves is what Requests takes for sequences.
ImplementsLists == AbstractLists!Spec /\ [](TwoWays /\ Apart)
=============================================================================
