--------------------------- MODULE MCLockTracking ---------------------------
(* Instances of LockTracking for TLC.                                      *)
EXTENDS LockTracking, TLC

CONSTANTS t1, t2, t3, a, b, c

TwoThreads == {t1, t2}
ThreeThreads == {t1, t2, t3}
TwoMutexes == {a, b}
ThreeMutexes == {a, b, c}
OneRecursive == {a}
OneTracked == {t1}
None == {}

ThreadSymmetry == Permutations(ThreeThreads)
Symmetric == Permutations(ThreeThreads) \cup Permutations(ThreeMutexes)

=============================================================================
