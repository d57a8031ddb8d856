---------------------------- MODULE MCThreadPool ----------------------------
(* Instances of ThreadPool for TLC.                                        *)
EXTENDS ThreadPool, TLC

CONSTANTS c1, c2, w1, w2, t1, t2, t3, t4

TwoClients == {c1, c2}
TwoWorkers == {w1, w2}
ThreeTasks == {t1, t2, t3}
FourTasks == {t1, t2, t3, t4}

Symmetric ==
    Permutations(TwoClients) \cup Permutations(TwoWorkers) \cup Permutations(FourTasks)

=============================================================================
