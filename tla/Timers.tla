------------------------------ MODULE Timers ------------------------------
(***************************************************************************)
(* What discord-adapter.c relies on of heap-inl.h: a set of timers, each   *)
(* with the time it is due, of which the earliest is the next to fire.     *)
(***************************************************************************)
EXTENDS Naturals, Functions

CONSTANTS Nodes, Keys

VARIABLES due,    \* the times of the timers that are set
          fired   \* the timer that has fired last

vars == <<due, fired>>

Init == due = <<>> /\ fired = {}

Set(n, k) ==
  /\ n \notin DOMAIN due
  /\ due' = [m \in DOMAIN due \cup {n} |-> IF m = n THEN k ELSE due[m]]
  /\ fired' = {}

Without(n) == due' = Restrict(due, DOMAIN due \ {n})

Cancel(n) == n \in DOMAIN due /\ Without(n) /\ fired' = {}

Fire(n) ==
  /\ n \in DOMAIN due /\ \A m \in DOMAIN due : due[n] <= due[m]
  /\ Without(n) /\ fired' = {n}

\* A step sets, cancels or fires a timer.
Next == due' # due /\ \E n \in Nodes : Cancel(n) \/ Fire(n) \/ \E k \in Keys : Set(n, k)

Spec == Init /\ [][Next]_vars
=============================================================================
