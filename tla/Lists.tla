------------------------------- MODULE Lists -------------------------------
(***************************************************************************)
(* What the users of queue.h rely on: lists of distinct elements, each     *)
(* element in one list at most.                                            *)
(***************************************************************************)
EXTENDS SequencesExt

CONSTANTS Heads, Entries

VARIABLE lists

Init == lists = [h \in Heads |-> <<>>]

Members == UNION {ToSet(lists[h]) : h \in Heads}

\* A free element joins a list at one of its ends,
Join(h, q) ==
  /\ q \notin Members
  /\ lists' \in {[lists EXCEPT ![h] = Append(@, q)], [lists EXCEPT ![h] = <<q>> \o @]}

\* leaves the list it is in,
Leave(q) ==
  \E h \in Heads : \E i \in DOMAIN lists[h] :
    lists[h][i] = q /\ lists' = [lists EXCEPT ![h] = RemoveAt(@, i)]

\* or the second of two lists becomes the end of the first, in whole or from
\* some element on.
Transfer(h, n) ==
  /\ h # n
  /\ \E k \in 0..Len(lists[n]) :
       lists' = [lists EXCEPT ![h] = @ \o SubSeq(lists[n], k + 1, Len(lists[n])),
                              ![n] = SubSeq(@, 1, k)]

\* A step changes a list.
Next ==
  /\ lists' # lists
  /\ \/ \E h \in Heads, q \in Entries : Join(h, q)
     \/ \E q \in Entries : Leave(q)
     \/ \E h, n \in Heads : Transfer(h, n)

Spec == Init /\ [][Next]_lists
=============================================================================
