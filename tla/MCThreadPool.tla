---------------------------- MODULE MCThreadPool ----------------------------
\* Instances of ThreadPool for TLC.
EXTENDS ThreadPool, TLC

CONSTANTS main, client, k1, k2, k3, k4

OneCaller  == {main}
TwoCallers == {main, client}
TwoTasks   == {k1, k2}
ThreeTasks == {k1, k2, k3}
FourTasks  == {k1, k2, k3, k4}

TaskSymmetry == Permutations(Tasks)
=============================================================================
