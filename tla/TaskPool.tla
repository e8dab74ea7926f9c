------------------------------ MODULE TaskPool ------------------------------
(***************************************************************************)
(* What a thread pool promises to those who submit tasks: a bounded queue, *)
(* served in order by at most MaxRunning tasks at a time.  When it closes  *)
(* it takes no more tasks; it runs the pending ones first ("draining") or  *)
(* drops them ("cancelled"), and is gone when nothing runs.                *)
(***************************************************************************)
EXTENDS Naturals, Sequences, FiniteSets

CONSTANTS Tasks, Capacity, MaxRunning

VARIABLES pending, running, finished, phase

vars == <<pending, running, finished, phase>>

Init ==
  /\ pending = <<>> /\ running = {} /\ finished = {}
  /\ phase = "open"

\* A task that has not been accepted before.
Submit(k) ==
  /\ phase = "open"
  /\ Len(pending) < Capacity
  /\ k \notin running \cup finished /\ \A i \in 1 .. Len(pending) : pending[i] # k
  /\ pending' = Append(pending, k)
  /\ UNCHANGED <<running, finished, phase>>

Start ==
  /\ phase \in {"open", "draining"}
  /\ pending # <<>>
  /\ Cardinality(running) < MaxRunning
  /\ running' = running \cup {Head(pending)}
  /\ pending' = Tail(pending)
  /\ UNCHANGED <<finished, phase>>

Finish(k) ==
  /\ k \in running
  /\ running' = running \ {k}
  /\ finished' = finished \cup {k}
  /\ UNCHANGED <<pending, phase>>

Close ==
  /\ phase = "open"
  /\ phase' \in {"draining", "cancelled"}
  /\ UNCHANGED <<pending, running, finished>>

Gone ==
  /\ \/ phase = "draining" /\ pending = <<>>
     \/ phase = "cancelled"
  /\ running = {}
  /\ phase' = "gone"
  /\ UNCHANGED <<pending, running, finished>>

Next ==
  \/ \E k \in Tasks : Submit(k) \/ Finish(k)
  \/ Start \/ Close \/ Gone

Spec == Init /\ [][Next]_vars

\* Tasks end, room for a task is used, and a closed pool goes away.
FairSpec ==
  /\ Spec
  /\ WF_vars(Start) /\ WF_vars(Gone)
  /\ \A k \in Tasks : WF_vars(Finish(k))
=============================================================================
