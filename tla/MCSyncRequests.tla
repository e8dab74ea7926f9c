--------------------------- MODULE MCSyncRequests ---------------------------
\* Instances of SyncRequests for TLC.
EXTENDS SyncRequests, TLC

CONSTANTS main, worker, other, r1, r2, json, multipart

TwoThreads   == {main, worker}
ThreeThreads == {main, worker, other}
OneRoute     == {r1}
TwoRoutes    == {r1, r2}
JustFirst    == {r1}
OneType      == {json}
TwoTypes     == {json, multipart}
AllKinds     == {"ok", "server_error", "limited", "limited_globally", "internal"}
Limits       == {"ok", "limited", "internal"}
Failures     == {"ok", "limited_globally", "internal"}
OneTick      == {1}
TwoTicks     == {1, 2}
AnyName      == Permutations(Threads) \cup Permutations(Types)
=============================================================================
