----------------------------- MODULE MCRequests -----------------------------
\* Instances of Requests for TLC.
EXTENDS Requests, TLC

CONSTANTS r1, r2, h1

OneRoute    == {r1}
TwoRoutes   == {r1, r2}
OneHash     == {h1}
\* A route of its own bucket, and one the server names no bucket for.
OwnAndNone  == (r1 :> h1) @@ (r2 :> NoHash)
\* Two routes that the server counts together.
Shared      == (r1 :> h1) @@ (r2 :> h1)
Single      == r1 :> h1
AllKinds    == {"ok", "server_error", "limited", "limited_globally", "read_error"}
Batches     == {"ok", "limited", "read_error"}
TwoKinds    == {"ok", "limited"}
NoLimits    == {"ok", "refused"}
Limits      == {"ok", "limited"}
GlobalOnly  == {"ok", "limited_globally"}
Liveness    == {"ok", "limited", "limited_globally", "read_error", "failed"}
Errors      == {"ok", "server_error"}
OneTick     == {1}
TwoTicks    == {1, 2}
Tails       == {FALSE}
HeadsToo    == {FALSE, TRUE}
ZeroOnly    == {0}
ZeroOrTwo   == {0, 2}
TwoOnly     == {2}
=============================================================================
