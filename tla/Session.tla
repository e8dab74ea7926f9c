------------------------------ MODULE Session ------------------------------
(***************************************************************************)
(* What discord_run promises of a Discord session, without the connection, *)
(* the threads or the messages: a session goes online only through a       *)
(* connection of its own, a session that closes does come to its end, and  *)
(* no more than MaxTries connections in a row are opened without one of    *)
(* them going online.                                                      *)
(***************************************************************************)
EXTENDS Naturals

CONSTANT MaxTries   \* connections opened before the run gives up

VARIABLES
  phase,   \* "offline", "connecting", "online", "closing" or "over"
  tries    \* connections opened since the session was last online

sessionVars == <<phase, tries>>

Init == phase = "offline" /\ tries = 0

Connect ==
  /\ phase = "offline" /\ tries < MaxTries
  /\ phase' = "connecting"
  /\ tries' = tries + 1

\* READY or RESUMED; one that is closing already stays so.
GoOnline ==
  /\ phase \in {"connecting", "online"}
  /\ phase' = "online"
  /\ tries' = 0

Close ==
  /\ phase \in {"connecting", "online"}
  /\ phase' = "closing"
  /\ UNCHANGED tries

\* The connection is gone; the run goes on, or is over.
Leave ==
  /\ phase \in {"connecting", "online", "closing"}
  /\ phase' \in {"offline", "over"}
  /\ UNCHANGED tries

\* The run ends, for whatever reason.
Finish ==
  /\ phase' = "over"
  /\ tries' \in {tries, 0}

RunAgain ==
  /\ phase = "over"
  /\ phase' = "offline"
  /\ tries' = 0

Next == Connect \/ GoOnline \/ Close \/ Leave \/ Finish \/ RunAgain

\* A session that is closing does not stay so.
Fairness == WF_sessionVars(phase = "closing" /\ (Leave \/ Finish))

Spec == Init /\ [][Next]_sessionVars
FairSpec == Spec /\ Fairness
=============================================================================
