------------------------------ MODULE MCRwLock ------------------------------
(* Instances of RwLock for TLC.                                            *)
EXTENDS RwLock, TLC

CONSTANTS t1, t2, t3, t4

\* Every thread makes every call.
AllCalls == [t \in Threads |-> CallKinds]

\* Every thread makes every call except try_wrlock.
NoTryWrite == [t \in Threads |-> CallKinds \ {"try_wrlock"}]

\* Two writers, one of which also reads, and a reader.
WritersAndReader ==
    [t \in Threads |-> CASE t = t1 -> {"wrlock"}
                         [] t = t2 -> {"wrlock", "rdlock"}
                         [] OTHER -> {"rdlock"}]

ThreadSymmetry == Permutations(Threads)
=============================================================================
