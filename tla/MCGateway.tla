----------------------------- MODULE MCGateway -----------------------------
\* Instances of Gateway for TLC.
EXTENDS Gateway

CONSTANTS w1, w2

OneWorker  == {w1}
TwoWorkers == {w1, w2}
NoWorkers  == {}
NoCalls    == {}
AllCalls   == {"shutdown", "reconnect", "resume"}
ShutdownOnly == {"shutdown"}
InMain     == {"main"}
InWorker   == {"worker"}
Both       == {"main", "worker"}
AllCodes   == {"fatal", "normal", "timed_out", "other"}
=============================================================================
