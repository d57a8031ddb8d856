---------------------------- MODULE RwLockProofs ----------------------------
(***************************************************************************)
(* Theorems about RwLock.  Every step of a thread is local: it changes the *)
(* pc, the record and the holds of that thread only (StepIsLocal).  What a *)
(* step does to an invariant is then a statement about one thread and the  *)
(* shared variables, which a lemma of each section lifts to all threads.   *)
(* LightSteps sets apart the steps that touch no queue and no phase, so    *)
(* that only the few remaining ones are treated by case.                   *)
(*                                                                         *)
(* The invariants build on each other: CountInv (counters and records),    *)
(* WriterInv (who owns the lock), TicketInv (the writers' queue), together *)
(* QueueInv; WakeInv (sleeping writers), ReadersInv (phases and sleeping   *)
(* readers), ClosedInv (the fast path) and WriterAlone (exclusion).        *)
(***************************************************************************)
EXTENDS RwLock, FiniteSetTheorems, WellFoundedInduction, TLAPS

ThreadTypes ==
    /\ tls \in [Threads -> {"none", "fast", "slow"}]
    /\ pc \in [Threads -> {"idle"} \cup FastPc \cup WakePc \cup ReadPc
                            \cup WritePc \cup UnlockPc]
    /\ call \in [Threads -> {"none", "rdlock", "try_rdlock", "rdunlock"}]
    /\ holds \in [Threads -> {"none", "read", "write"}]

\* Where a thread is decides what its thread-local record says.
RecordOf(t) ==
    /\ pc[t] \in {"fast_cas", "fast_recheck"} => tls[t] = "fast"
    /\ pc[t] \in {"fast_undo"} \cup WakePc \cup ReadPc \cup WritePc => tls[t] = "none"
    /\ pc[t] = "rd_unlock" => tls[t] = "slow"
    /\ holds[t] = "read" => tls[t] # "none" /\ pc[t] = "idle"

\* A destroyed lock is idle.
DestroyedIsIdle ==
    initialised_state = "DESTROYED" =>
        /\ NoCallInProgress
        /\ ~HasActiveReaders /\ waiting_readers = 0 /\ waiting_writers = 0

CountInv ==
    /\ ThreadTypes /\ DestroyedIsIdle /\ CountersAgree
    /\ \A t \in Threads : RecordOf(t)

AnyStep(t) ==
    Call(t) \/ ReaderStep(t) \/ WriterStep(t) \/ Unlock(t) \/ SpuriousWakeup(t)

LocalStep(t) ==
    \A u \in Threads : u # t => /\ pc'[u] = pc[u] /\ tls'[u] = tls[u]
                                /\ holds'[u] = holds[u]

USE DEF FastPc, WakePc, ReadPc, WritePc, QueuedPc, UnlockPc

\* What the two outcomes of a slow reader do to its thread and the counters.
\* The fast path is reopened only with no writer about, and no phase opens.
MayOpen ==
    /\ reader_fast_path_open' =>
           reader_fast_path_open \/ (~writer_active /\ (WriterPriority => waiting_writers = 0))
    /\ reader_phase_open' => reader_phase_open

LEMMA AdmitReaderEffect ==
    ASSUME NEW t \in Threads, NEW w, AdmitReader(t, w)
    PROVE  /\ tls' = [tls EXCEPT ![t] = "slow"] /\ pc' = [pc EXCEPT ![t] = "idle"]
           /\ call' = [call EXCEPT ![t] = "none"]
           /\ holds' = [holds EXCEPT ![t] = "read"]
           /\ active_readers' = active_readers + 1 /\ waiting_readers' = w
           /\ MayOpen
BY Zenon DEF AdmitReader, ReturnTo, MayOpen

LEMMA ReaderFailsEffect ==
    ASSUME NEW t \in Threads, NEW w, ReaderFails(t, w)
    PROVE  /\ tls' = tls /\ pc' = [pc EXCEPT ![t] = "idle"]
           /\ call' = [call EXCEPT ![t] = "none"]
           /\ holds' = holds
           /\ active_readers' = active_readers /\ waiting_readers' = w
           /\ MayOpen
BY Zenon DEF ReaderFails, ReturnTo, MayOpen, RefreshedFastPath

\* A slow reader, at the mutex or in the queue, is admitted or refused; or it
\* queues; or it goes on waiting.
Queued(t) == IF pc[t] = "rd_wait" THEN 1 ELSE 0

Admitted(t) ==
    /\ tls' = [tls EXCEPT ![t] = "slow"] /\ pc' = [pc EXCEPT ![t] = "idle"]
    /\ call' = [call EXCEPT ![t] = "none"] /\ holds' = [holds EXCEPT ![t] = "read"]
    /\ active_readers' = active_readers + 1
    /\ waiting_readers' = waiting_readers - Queued(t)
    /\ ~writer_active
    /\ MayOpen

Refused(t) ==
    /\ pc' = [pc EXCEPT ![t] = "idle"] /\ call' = [call EXCEPT ![t] = "none"]
    /\ waiting_readers' = waiting_readers - Queued(t)
    /\ MayOpen
    /\ UNCHANGED <<tls, holds, active_readers>>

Waits(t) ==
    /\ pc' = [pc EXCEPT ![t] = "rd_wait"]
    /\ waiting_readers' = waiting_readers + 1 - Queued(t)
    /\ UNCHANGED <<tls, call, holds, active_readers>>
    /\ pc[t] = "rd_wait" \/ active_writer_thread # t
    /\ MayOpen

LEMMA SlowReaderSteps ==
    ASSUME ThreadTypes, CountersAgree, NEW t \in Threads,
           RdSlowAdmit(t) \/ RdSlowQueue(t) \/ RdResume(t)
    PROVE  /\ Admitted(t) \/ Refused(t) \/ Waits(t)
           /\ pc[t] \in {"rd_mutex", "rd_wait"} /\ mutex = NoThread
           /\ UNCHANGED <<initialised_state, mutex, fast_active_readers, close_pending,
                          waiting_writers, active_writer_thread>>
<1>a. waiting_readers \in Nat
  <2>1. QueuedReaders \in SUBSET Threads
    BY Zenon DEF QueuedReaders
  <2> QED BY <2>1, RwLockAssumption, FS_Subset, FS_CardinalityType, Zenon DEF CountersAgree
<1> USE DEF SlowReaderUnchanged, writerVars, Queued
<1>1. CASE RdSlowAdmit(t)
  <2>1. CASE AdmitReader(t, waiting_readers)
    BY <1>a, <1>1, <2>1, AdmitReaderEffect DEF RdSlowAdmit, ReaderGated, Admitted
  <2>2. CASE ReaderFails(t, waiting_readers)
    BY <1>a, <1>1, <2>2, ReaderFailsEffect DEF RdSlowAdmit, Refused
  <2> QED BY <1>1, <2>1, <2>2, Zenon DEF RdSlowAdmit
<1>2. CASE RdSlowQueue(t)
  <2>1. CASE ReaderFails(t, waiting_readers)
    BY <1>a, <1>2, <2>1, ReaderFailsEffect DEF RdSlowQueue, Refused
  <2>2. CASE ~ReaderFails(t, waiting_readers)
    BY <1>a, <1>2, <2>2 DEF RdSlowQueue, Waits, MayOpen
  <2> QED BY <2>1, <2>2, Zenon
<1>3. CASE RdResume(t)
  <2>1. CASE AdmitReader(t, waiting_readers - 1) /\ ~ReaderBlocked(ticket[t])
    BY <1>a, <1>3, <2>1, AdmitReaderEffect, Zenon DEF RdResume, ReaderBlocked, Admitted
  <2>2. CASE ReaderFails(t, waiting_readers - 1)
    BY <1>a, <1>3, <2>2, ReaderFailsEffect, Zenon DEF RdResume, Refused
  <2>3. CASE UNCHANGED <<threadVars, active_readers, waiting_readers, reader_phase_open,
                         reader_fast_path_open>>
    <3>1. pc' = [pc EXCEPT ![t] = "rd_wait"]
      BY <1>3, <2>3, Zenon DEF RdResume, ThreadTypes, threadVars
    <3>2. pc[t] = "rd_wait" /\ MayOpen /\ waiting_readers + 1 - Queued(t) = waiting_readers
      BY <1>a, <1>3, <2>3 DEF RdResume, MayOpen
    <3>3. Waits(t)
      BY <2>3, <3>1, <3>2, Zenon DEF Waits, threadVars
    <3> QED BY <1>3, <3>2, <3>3, Zenon DEF RdResume
  <2> QED BY <1>3, <2>1, <2>2, <2>3, Zenon DEF RdResume
<1> QED BY <1>1, <1>2, <1>3, Zenon

LEMMA StepIsLocal ==
    ASSUME ThreadTypes, CountersAgree, NEW t \in Threads, AnyStep(t)
    PROVE  ThreadTypes' /\ LocalStep(t)
<1> USE DEF ThreadTypes, LocalStep, threadVars
<1>1. CASE RdLock(t)
    BY <1>1, ZenonT(30) DEF RdLock, RdLockCall
<1>2. CASE TryRdLock(t)
    BY <1>2, Zenon DEF TryRdLock, RdLockCall
<1>3. CASE FastIncrement(t)
    BY <1>3, Zenon DEF FastIncrement
<1>4. CASE FastRecheck(t)
    BY <1>4 DEF FastRecheck, ReturnTo
<1>5. CASE FastUndo(t)
    BY <1>5, Zenon DEF FastUndo
<1>6. CASE WakeCheck(t)
    BY <1>6, ZenonT(30) DEF WakeCheck, LeaveWake
<1>7. CASE WakeLock(t)
    BY <1>7, ZenonT(30) DEF WakeLock, LeaveWake
<1>8. CASE WakeClose(t)
    BY <1>8, Zenon DEF WakeClose, LeaveWake
<1>9. CASE RdSlowReject(t)
    BY <1>9, Zenon DEF RdSlowReject, ReturnTo
<1>10. CASE WrLock(t)
    BY <1>10, Zenon DEF WrLock, WriterMayEnter
<1>11. CASE WrCheck(t)
    BY <1>11, ZenonT(30) DEF WrCheck
<1>12. CASE WrResume(t)
    BY <1>12, Zenon DEF WrResume
<1>13. CASE WrTake(t)
    BY <1>13, Zenon DEF WrTake
<1>14. CASE WrFail(t)
    BY <1>14, Zenon DEF WrFail
<1>15. CASE TryWrLock(t)
    BY <1>15, Zenon DEF TryWrLock, WriterMayEnter
<1>16. CASE TryWrTake(t)
    BY <1>16, Zenon DEF TryWrTake
<1>17. CASE RdUnlockCall(t)
    BY <1>17, Zenon DEF RdUnlockCall, UnlockCall
<1>18. CASE WrUnlockCall(t)
    BY <1>18, Zenon DEF WrUnlockCall, UnlockCall
<1>19. CASE RdUnlockFast(t)
    BY <1>19, ZenonT(30) DEF RdUnlockFast
<1>20. CASE RdUnlockSlow(t)
    BY <1>20, Zenon DEF RdUnlockSlow
<1>21. CASE WrUnlock(t)
    BY <1>21, Zenon DEF WrUnlock
<1>22. CASE SpuriousWakeup(t)
    BY <1>22, Zenon DEF SpuriousWakeup
<1>23. CASE RdSlowAdmit(t) \/ RdSlowQueue(t) \/ RdResume(t)
  <2>1. CASE Admitted(t)
    BY <2>1, Zenon DEF Admitted
  <2>2. CASE Refused(t)
    BY <2>2, Zenon DEF Refused
  <2>3. CASE Waits(t)
    BY <2>3, Zenon DEF Waits
  <2> QED BY <1>23, <2>1, <2>2, <2>3, SlowReaderSteps, Zenon
<1> QED BY <1>1, <1>2, <1>3, <1>4, <1>5, <1>6, <1>7, <1>8, <1>9, <1>10, <1>11, <1>12,
       <1>13, <1>14, <1>15, <1>16, <1>17, <1>18, <1>19, <1>20, <1>21, <1>22, <1>23, ZenonT(30)
    DEF AnyStep, Call, ReaderStep, WriterStep, Unlock

-----------------------------------------------------------------------------
(* The counters count: for every strategy, every set of calls, with or     *)
(* without faults and store buffering.                                     *)

InSlow(t) == tls[t] = "slow"
InFast(t) == (tls[t] = "fast" /\ pc[t] # "fast_cas") \/ pc[t] = "fast_undo"
InReadQueue(t) == pc[t] = "rd_wait"
InWriteQueue(t) == pc[t] \in QueuedPc

\* A counter goes from m to n as its thread goes from in to out of the set.
Follows(before, after, m, n) ==
    n = m + (IF after THEN 1 ELSE 0) - (IF before THEN 1 ELSE 0)

LEMMA FollowsKeepsCount ==
    ASSUME NEW S \in SUBSET Threads, NEW T \in SUBSET Threads, NEW t \in Threads,
           \A u \in Threads : u # t => (u \in S <=> u \in T),
           NEW m, NEW n, m = Cardinality(S), Follows(t \in S, t \in T, m, n)
    PROVE  n = Cardinality(T)
<1>1. IsFiniteSet(S) /\ Cardinality(S) \in Nat
    BY RwLockAssumption, FS_Subset, FS_CardinalityType, Zenon
<1>2. CASE t \in T /\ t \notin S
    BY <1>1, <1>2, T = S \cup {t}, FS_AddElement, SMTT(30) DEF Follows
<1>3. CASE t \in S /\ t \notin T
    BY <1>1, <1>3, T = S \ {t}, FS_RemoveElement DEF Follows
<1>4. CASE t \in S <=> t \in T
    BY <1>1, <1>4, T = S DEF Follows
<1> QED BY <1>2, <1>3, <1>4, Zenon

LEMMA MembersAreCounted ==
    ASSUME NEW S \in SUBSET Threads, NEW t \in S
    PROVE  Cardinality(S) # 0
BY RwLockAssumption, FS_Subset, FS_CardinalityType, FS_EmptySet, Zenon

\* In a step of thread t the four counters follow its moves.
CountersFollow(t) ==
    /\ Follows(InSlow(t), InSlow(t)', active_readers, active_readers')
    /\ Follows(InFast(t), InFast(t)', fast_active_readers, fast_active_readers')
    /\ Follows(InReadQueue(t), InReadQueue(t)', waiting_readers, waiting_readers')
    /\ Follows(InWriteQueue(t), InWriteQueue(t)', waiting_writers, waiting_writers')

LEMMA CountersFollowAgree ==
    ASSUME CountersAgree, NEW t \in Threads, LocalStep(t), CountersFollow(t),
           \A u \in Threads : RecordOf(u)'
    PROVE  CountersAgree'
<1> USE DEF CountersAgree, CountersFollow, LocalStep
<1>1. active_readers' = Cardinality(SlowReaders')
    BY FollowsKeepsCount DEF SlowReaders, InSlow
<1>2. fast_active_readers' = Cardinality(FastReaders')
    BY FollowsKeepsCount DEF FastReaders, InFast
<1>3. waiting_readers' = Cardinality(QueuedReaders')
    BY FollowsKeepsCount DEF QueuedReaders, InReadQueue
<1>4. waiting_writers' = Cardinality(QueuedWriters')
  <2>1. /\ QueuedWriters \in SUBSET Threads /\ QueuedWriters' \in SUBSET Threads
        /\ \A u \in Threads : u # t => (u \in QueuedWriters <=> u \in QueuedWriters')
        /\ t \in QueuedWriters <=> InWriteQueue(t)
        /\ t \in QueuedWriters' <=> InWriteQueue(t)'
    BY Zenon DEF QueuedWriters, InWriteQueue
  <2>2. Follows(t \in QueuedWriters, t \in QueuedWriters', waiting_writers, waiting_writers')
    BY <2>1, Zenon DEF Follows
  <2> QED BY <2>1, <2>2, FollowsKeepsCount, Zenon
<1> QED BY <1>1, <1>2, <1>3, <1>4, Zenon DEF RecordOf

LEMMA CountInit == Init => CountInv
<1> SUFFICES ASSUME Init PROVE CountInv
    OBVIOUS
<1>1. ThreadTypes /\ DestroyedIsIdle /\ \A t \in Threads : RecordOf(t)
    BY Zenon DEF Init, ThreadTypes, RecordOf, DestroyedIsIdle
<1>2. SlowReaders = {} /\ FastReaders = {} /\ QueuedReaders = {} /\ QueuedWriters = {}
    BY Zenon DEF Init, SlowReaders, FastReaders, QueuedReaders, QueuedWriters
<1>3. CountersAgree
    BY <1>2, FS_EmptySet, Zenon DEF Init, CountersAgree
<1> QED BY <1>1, <1>3, Zenon DEF CountInv

\* The counters as tests, and that they are numbers.
LEMMA CountersTest ==
    ASSUME CountersAgree
    PROVE  /\ active_readers = 0 <=> SlowReaders = {}
           /\ fast_active_readers = 0 <=> FastReaders = {}
           /\ waiting_readers = 0 <=> QueuedReaders = {}
           /\ waiting_writers = 0 <=> QueuedWriters = {}
           /\ active_readers \in Nat /\ fast_active_readers \in Nat
           /\ waiting_readers \in Nat /\ waiting_writers \in Nat
<1>1. /\ SlowReaders \in SUBSET Threads /\ FastReaders \in SUBSET Threads
      /\ QueuedReaders \in SUBSET Threads /\ QueuedWriters \in SUBSET Threads
    BY Zenon DEF SlowReaders, FastReaders, QueuedReaders, QueuedWriters
<1> QED BY <1>1, RwLockAssumption, FS_Subset, FS_CardinalityType, FS_EmptySet, Zenon
        DEF CountersAgree

LEMMA CountThreadStep ==
    ASSUME CountInv, NEW t \in Threads, AnyStep(t)
    PROVE  CountInv'
<1> DEFINE StaysUp ==
        \/ initialised_state' # "DESTROYED"
        \/ UNCHANGED <<initialised_state, pc, countVars, fast_active_readers>>
<1>a. ThreadTypes /\ RecordOf(t) /\ DestroyedIsIdle /\ CountersAgree
    BY Zenon DEF CountInv
<1>b. ThreadTypes' /\ LocalStep(t)
    BY <1>a, StepIsLocal, Zenon
<1>c. /\ active_readers \in Nat /\ fast_active_readers \in Nat
      /\ waiting_readers \in Nat /\ waiting_writers \in Nat
    BY <1>a, CountersTest, Zenon
<1>d. SUFFICES RecordOf(t)' /\ CountersFollow(t) /\ StaysUp
  <2>1. \A u \in Threads : RecordOf(u)'
    BY <1>b, ZenonT(30) DEF CountInv, RecordOf, LocalStep
  <2>2. DestroyedIsIdle'
    BY <1>a, <1>d, Zenon DEF DestroyedIsIdle, NoCallInProgress, HasActiveReaders, countVars
  <2> QED BY <1>a, <1>b, <2>1, <2>2, CountersFollowAgree, Zenon DEF CountInv
<1>e. pc[t] # "idle" => initialised_state # "DESTROYED"
    BY <1>a, Zenon DEF DestroyedIsIdle, NoCallInProgress
<1> USE DEF ThreadTypes, RecordOf, CountersFollow, Follows, InSlow, InFast, InReadQueue,
            InWriteQueue, fastVars, countVars, threadVars
<1>1. CASE RdLock(t)
    BY <1>a, <1>c, <1>e, <1>1 DEF RdLock, RdLockCall
<1>2. CASE TryRdLock(t)
    BY <1>a, <1>c, <1>e, <1>2 DEF TryRdLock, RdLockCall
<1>3. CASE FastIncrement(t)
    BY <1>a, <1>c, <1>e, <1>3 DEF FastIncrement
<1>4. CASE FastRecheck(t)
    BY <1>a, <1>c, <1>e, <1>4 DEF FastRecheck, ReturnTo
<1>5. CASE FastUndo(t)
    BY <1>a, <1>c, <1>e, <1>5 DEF FastUndo
<1>6. CASE WakeCheck(t)
    BY <1>a, <1>c, <1>e, <1>6 DEF WakeCheck, LeaveWake
<1>7. CASE WakeLock(t)
    BY <1>a, <1>c, <1>e, <1>7 DEF WakeLock, LeaveWake
<1>8. CASE WakeClose(t)
    BY <1>a, <1>c, <1>e, <1>8 DEF WakeClose, LeaveWake
<1>9. CASE RdSlowReject(t)
    BY <1>a, <1>c, <1>e, <1>9 DEF RdSlowReject, ReturnTo
<1>10. CASE WrLock(t)
    BY <1>a, <1>c, <1>e, <1>10 DEF WrLock, WriterMayEnter
<1>11. CASE WrCheck(t)
    BY <1>a, <1>c, <1>e, <1>11 DEF WrCheck
<1>12. CASE WrResume(t)
    BY <1>a, <1>c, <1>e, <1>12 DEF WrResume
<1>13. CASE WrTake(t)
    BY <1>a, <1>c, <1>e, <1>13 DEF WrTake
<1>14. CASE WrFail(t)
    BY <1>a, <1>c, <1>e, <1>14 DEF WrFail
<1>15. CASE TryWrLock(t)
    BY <1>a, <1>c, <1>e, <1>15 DEF TryWrLock, WriterMayEnter
<1>16. CASE TryWrTake(t)
    BY <1>a, <1>c, <1>e, <1>16 DEF TryWrTake
<1>17. CASE RdUnlockCall(t)
    BY <1>a, <1>c, <1>e, <1>17 DEF RdUnlockCall, UnlockCall
<1>18. CASE WrUnlockCall(t)
    BY <1>a, <1>c, <1>e, <1>18 DEF WrUnlockCall, UnlockCall
<1>19. CASE RdUnlockFast(t)
  <2>1. t \in FastReaders /\ FastReaders \in SUBSET Threads
    BY <1>a, <1>19, Zenon DEF RdUnlockFast, FastReaders
  <2>2. fast_active_readers # 0
    BY <1>a, <2>1, MembersAreCounted, ZenonT(30) DEF CountersAgree
  <2> QED BY <1>a, <1>c, <1>e, <1>19, <2>2 DEF RdUnlockFast
<1>20. CASE RdUnlockSlow(t)
    BY <1>a, <1>c, <1>e, <1>20 DEF RdUnlockSlow
<1>21. CASE WrUnlock(t)
    BY <1>a, <1>c, <1>e, <1>21 DEF WrUnlock
<1>22. CASE SpuriousWakeup(t)
    BY <1>a, <1>c, <1>e, <1>22 DEF SpuriousWakeup
<1>23. CASE RdSlowAdmit(t) \/ RdSlowQueue(t) \/ RdResume(t)
  <2>1. /\ Admitted(t) \/ Refused(t) \/ Waits(t)
        /\ pc[t] \in {"rd_mutex", "rd_wait"}
        /\ UNCHANGED <<initialised_state, fast_active_readers, waiting_writers>>
    BY <1>a, <1>23, SlowReaderSteps, ZenonT(30)
  <2>2. CASE Admitted(t)
    BY <1>a, <1>c, <1>e, <2>1, <2>2 DEF Admitted, Queued
  <2>3. CASE Refused(t)
    BY <1>a, <1>c, <1>e, <2>1, <2>3 DEF Refused, Queued
  <2>4. CASE Waits(t)
    BY <1>a, <1>c, <1>e, <2>1, <2>4 DEF Waits, Queued
  <2> QED BY <2>1, <2>2, <2>3, <2>4, Zenon
<1> QED BY <1>1, <1>2, <1>3, <1>4, <1>5, <1>6, <1>7, <1>8, <1>9, <1>10, <1>11, <1>12,
       <1>13, <1>14, <1>15, <1>16, <1>17, <1>18, <1>19, <1>20, <1>21, <1>22, <1>23, ZenonT(30)
    DEF AnyStep, Call, ReaderStep, WriterStep, Unlock

LEMMA CountNext == CountInv /\ [Next]_vars => CountInv'
<1> SUFFICES ASSUME CountInv, [Next]_vars PROVE CountInv'
    OBVIOUS
<1>1. ASSUME NEW t \in Threads, AnyStep(t) PROVE CountInv'
    BY <1>1, CountThreadStep, Zenon
<1>2. ASSUME UNCHANGED <<threadVars, countVars, fast_active_readers>>, DestroyedIsIdle'
      PROVE  CountInv'
    BY <1>2, Zenon DEF CountInv, CountersAgree, ThreadTypes, RecordOf, SlowReaders,
                FastReaders, QueuedReaders, QueuedWriters, threadVars, countVars
<1> USE DEF CountInv, DestroyedIsIdle, NoCallInProgress, HasActiveReaders, fastVars,
            countVars, threadVars
<1>3. CASE DrainStoreBuffer
    BY <1>2, <1>3, Zenon DEF DrainStoreBuffer
<1>4. CASE Destroy
    BY <1>2, <1>4, Zenon DEF Destroy
<1>5. CASE Initialise
    BY <1>2, <1>5, Zenon DEF Initialise
<1>6. CASE UNCHANGED vars
    BY <1>2, <1>6, Zenon DEF vars
<1> QED BY <1>1, <1>3, <1>4, <1>5, <1>6, Zenon DEF Next, AnyStep

\* The waiting and active counters of the lock are exact in every reachable
\* state, whatever the strategy, the calls, the faults and the memory model:
\* no path through rdlock, wrlock, their unlocks or their failures counts a
\* thread twice or forgets it.
THEOREM CountersAreExact == Spec => []CountersAgree
<1>1. CountInv => CountersAgree
    BY Zenon DEF CountInv
<1> QED BY <1>1, CountInit, CountNext, PTL DEF Spec

-----------------------------------------------------------------------------
(* The mutex and the active writer, again for every strategy, set of       *)
(* calls, fault and memory model.                                          *)

CriticalPc == {"wake_close", "wr_check", "wr_fail", "wr_take", "try_take"}
TakingPc == {"wr_take", "try_take"}

\* The internal mutex is held exactly inside a critical section of two steps.
MutexOwner == \A t \in Threads : mutex = t <=> pc[t] \in CriticalPc

\* A writer is active, or has decided to become active.
WriterIn == writer_active \/ \E t \in Threads : pc[t] \in TakingPc

\* Such a writer has no reader of the slow path beside it, and no other writer.
WriterFirst ==
    /\ writer_active => ~reader_fast_path_open
    /\ WriterIn => ~reader_phase_open /\ \A t \in Threads : tls[t] # "slow"
    /\ (\E t \in Threads : pc[t] \in TakingPc) => ~writer_active

\* The holder for writing is the recorded one.  It may call rdlock, and gets
\* as far as the mutex.
WriterRecorded ==
    /\ \A t \in Threads :
           /\ holds[t] = "write" \/ pc[t] = "wr_unlock" => active_writer_thread = t
           /\ holds[t] = "write" => pc[t] \in {"idle", "rd_mutex"}
    /\ initialised_state = "DESTROYED" => ~writer_active

WriterInv == MutexOwner /\ WriterFirst /\ WriterRecorded

\* What a step of thread t may do to the mutex, and to the writer.
MutexStep(t) ==
    \/ mutex' = mutex /\ (pc[t] \in CriticalPc <=> pc'[t] \in CriticalPc)
    \/ mutex = NoThread /\ mutex' = t /\ pc'[t] \in CriticalPc
    \/ pc[t] \in CriticalPc /\ mutex' = NoThread /\ pc'[t] \notin CriticalPc

KeepsWriter(t) ==
    /\ active_writer_thread' = active_writer_thread
    /\ tls'[t] = "slow" => tls[t] = "slow" \/ ~WriterIn
    /\ reader_phase_open' => reader_phase_open \/ ~WriterIn
    /\ reader_fast_path_open' => reader_fast_path_open \/ ~writer_active
    /\ holds'[t] = "write" => holds[t] = "write" /\ pc'[t] \in {"idle", "rd_mutex"}
    /\ pc'[t] = "wr_unlock" => pc[t] = "wr_unlock" \/ active_writer_thread = t
    /\ pc'[t] \in TakingPc /\ pc[t] \notin TakingPc =>
           /\ ~writer_active /\ ~reader_phase_open'
           /\ tls'[t] # "slow" /\ \A u \in Threads : tls[u] # "slow"

BecomesWriter(t) ==
    /\ pc[t] \in TakingPc /\ pc'[t] = "idle"
    /\ tls'[t] = tls[t] /\ tls[t] = "none"
    /\ active_writer_thread' = t /\ ~reader_fast_path_open'
    /\ reader_phase_open' = reader_phase_open

StopsWriting(t) ==
    /\ pc[t] = "wr_unlock" /\ pc'[t] = "idle" /\ mutex = NoThread
    /\ holds'[t] = holds[t]
    /\ active_writer_thread' = NoThread

LEMMA WriterLocal ==
    ASSUME WriterInv, NEW t \in Threads, LocalStep(t), MutexStep(t),
           KeepsWriter(t) \/ BecomesWriter(t) \/ StopsWriting(t),
           initialised_state' = "DESTROYED" =>
               UNCHANGED <<initialised_state, active_writer_thread>>
    PROVE  WriterInv'
<1> USE RwLockAssumption DEF WriterInv, LocalStep
<1>1. MutexOwner'
    BY Zenon DEF MutexOwner, MutexStep
<1>2. CASE KeepsWriter(t)
  <2>1. WriterFirst'
    BY <1>2, Zenon DEF KeepsWriter, WriterFirst, WriterIn, writer_active
  <2>2. WriterRecorded'
    BY <1>2, Zenon DEF KeepsWriter, WriterRecorded, writer_active
  <2> QED BY <1>1, <2>1, <2>2, Zenon
<1>3. CASE BecomesWriter(t)
  <2>1. WriterFirst'
    BY <1>1, <1>3, Zenon DEF BecomesWriter, MutexOwner, CriticalPc, TakingPc, WriterFirst,
                      WriterIn, writer_active
  <2>2. WriterRecorded'
    BY <1>3, Zenon DEF BecomesWriter, TakingPc, WriterFirst, WriterRecorded, writer_active
  <2> QED BY <1>1, <2>1, <2>2, Zenon
<1>4. CASE StopsWriting(t)
  <2>1. WriterFirst'
    BY <1>4, ZenonT(30) DEF StopsWriting, MutexOwner, CriticalPc, TakingPc, WriterFirst, WriterIn,
                writer_active
  <2>2. WriterRecorded'
    BY <1>4, Zenon DEF StopsWriting, WriterRecorded, writer_active
  <2> QED BY <1>1, <2>1, <2>2, Zenon
<1> QED BY <1>2, <1>3, <1>4, Zenon

LEMMA WriterInit == Init => WriterInv
BY RwLockAssumption DEF Init, WriterInv, MutexOwner, CriticalPc, TakingPc, WriterFirst,
   WriterIn, WriterRecorded, writer_active

LEMMA WriterThreadStep ==
    ASSUME CountInv, WriterInv, NEW t \in Threads, AnyStep(t)
    PROVE  WriterInv'
<1> DEFINE StaysUp == initialised_state' = "DESTROYED" =>
                          UNCHANGED <<initialised_state, active_writer_thread>>
<1>a. /\ ThreadTypes /\ RecordOf(t) /\ DestroyedIsIdle /\ CountersAgree
      /\ NoThread \notin Threads
      /\ mutex = t <=> pc[t] \in CriticalPc
      /\ holds[t] = "write" => active_writer_thread = t /\ pc[t] \in {"idle", "rd_mutex"}
    BY RwLockAssumption, Zenon DEF CountInv, WriterInv, MutexOwner, WriterRecorded
<1>b. LocalStep(t)
    BY <1>a, StepIsLocal, Zenon
<1>c. active_readers \in Nat /\ waiting_writers \in Nat
    BY <1>a, CountersTest, Zenon
<1>d. /\ mutex = NoThread /\ ~writer_active => ~WriterIn
      /\ WriterIn => active_readers = 0
      /\ active_readers = 0 => \A u \in Threads : tls[u] # "slow"
      /\ writer_active => ~reader_fast_path_open
  <2>1. active_readers = 0 <=> \A u \in Threads : tls[u] # "slow"
    BY <1>a, CountersTest, Zenon DEF SlowReaders
  <2>2. mutex = NoThread /\ ~writer_active => ~WriterIn
    BY <1>a, Zenon DEF WriterInv, MutexOwner, CriticalPc, TakingPc, WriterIn
  <2> QED BY <2>1, <2>2, Zenon DEF WriterInv, WriterFirst
<1>e. /\ pc[t] # "idle" => initialised_state # "DESTROYED"
      /\ pc[t] = "wr_unlock" => active_writer_thread = t
    BY <1>a, Zenon DEF DestroyedIsIdle, NoCallInProgress, WriterInv, WriterRecorded
<1>g. SUFFICES /\ MutexStep(t) /\ StaysUp
               /\ KeepsWriter(t) \/ BecomesWriter(t) \/ StopsWriting(t)
    BY <1>b, WriterLocal, Zenon
<1> USE <1>a, <1>c, <1>e DEF ThreadTypes, RecordOf, MutexStep, CriticalPc, TakingPc,
    KeepsWriter, writer_active, fastVars, phaseVars, writerVars, countVars, threadVars
<1>1. CASE RdLock(t)
    BY <1>d, <1>1, ZenonT(30) DEF RdLock, RdLockCall
<1>2. CASE TryRdLock(t)
    BY <1>d, <1>2, ZenonT(30) DEF TryRdLock, RdLockCall
<1>3. CASE FastIncrement(t)
    BY <1>3, Zenon DEF FastIncrement
<1>4. CASE FastRecheck(t)
    BY <1>4 DEF FastRecheck, ReturnTo
<1>5. CASE FastUndo(t)
    BY <1>5, Zenon DEF FastUndo
<1>6. CASE WakeCheck(t)
    BY <1>6, ZenonT(30) DEF WakeCheck, LeaveWake
<1>7. CASE WakeLock(t)
    BY <1>7, ZenonT(30) DEF WakeLock, LeaveWake
<1>8. CASE WakeClose(t)
    BY <1>8, Zenon DEF WakeClose, LeaveWake
<1>9. CASE RdSlowReject(t)
    BY <1>9, Zenon DEF RdSlowReject, ReturnTo
<1>10. CASE WrLock(t)
    BY <1>10, Zenon DEF WrLock, WriterMayEnter
<1>11. CASE WrCheck(t)
  <2>1. reader_fast_path_open' => reader_fast_path_open
    BY <1>11, Zenon DEF WrCheck
  <2>2. MutexStep(t) /\ StaysUp
    BY <1>11, ZenonT(30) DEF WrCheck
  <2>3. KeepsWriter(t)
    BY <1>d, <1>11, <2>1 DEF WrCheck, WriterBlocked, HasActiveReaders
  <2> QED BY <2>2, <2>3, Zenon
<1>12. CASE WrResume(t)
    BY <1>12, Zenon DEF WrResume
<1>13. CASE WrTake(t)
    BY <1>13, ZenonT(30) DEF WrTake, BecomesWriter
<1>14. CASE WrFail(t)
    BY <1>14, Zenon DEF WrFail, RefreshedFastPath
<1>15. CASE TryWrLock(t)
    BY <1>d, <1>15, ZenonT(30) DEF TryWrLock, WriterMayEnter, HasActiveReaders
<1>16. CASE TryWrTake(t)
    BY <1>16, Zenon DEF TryWrTake, BecomesWriter
<1>17. CASE RdUnlockCall(t)
    BY <1>17, Zenon DEF RdUnlockCall, UnlockCall
<1>18. CASE WrUnlockCall(t)
    BY <1>18, Zenon DEF WrUnlockCall, UnlockCall
<1>19. CASE RdUnlockFast(t)
    BY <1>19 DEF RdUnlockFast
<1>20. CASE RdUnlockSlow(t)
  <2>1. ~WriterIn
    BY <1>d, <1>20, Zenon DEF RdUnlockSlow
  <2>2. MutexStep(t) /\ StaysUp
    BY <1>20, ZenonT(30) DEF RdUnlockSlow
  <2> QED BY <1>20, <2>1, <2>2, Zenon DEF RdUnlockSlow, WriterIn
<1>21. CASE WrUnlock(t)
    BY <1>21, ZenonT(30) DEF WrUnlock, StopsWriting
<1>22. CASE SpuriousWakeup(t)
    BY <1>22, ZenonT(30) DEF SpuriousWakeup
<1>23. CASE RdSlowAdmit(t) \/ RdSlowQueue(t) \/ RdResume(t)
  <2>1. /\ Admitted(t) \/ Refused(t) \/ Waits(t)
        /\ pc[t] \in {"rd_mutex", "rd_wait"} /\ mutex = NoThread
        /\ UNCHANGED <<initialised_state, mutex, active_writer_thread>>
    BY <1>23, SlowReaderSteps, ZenonT(30)
  <2>3. CASE Admitted(t)
    BY <1>d, <2>1, <2>3, ZenonT(30) DEF Admitted, MayOpen
  <2>4. CASE Refused(t)
    BY <2>1, <2>4, ZenonT(30) DEF Refused, MayOpen
  <2>5. CASE Waits(t)
    BY <2>1, <2>5, ZenonT(30) DEF Waits, MayOpen
  <2> QED BY <2>1, <2>3, <2>4, <2>5, ZenonT(30)
<1> QED BY <1>1, <1>2, <1>3, <1>4, <1>5, <1>6, <1>7, <1>8, <1>9, <1>10, <1>11, <1>12,
       <1>13, <1>14, <1>15, <1>16, <1>17, <1>18, <1>19, <1>20, <1>21, <1>22, <1>23, ZenonT(30)
    DEF AnyStep, Call, ReaderStep, WriterStep, Unlock

LEMMA WriterNext == CountInv /\ WriterInv /\ [Next]_vars => WriterInv'
<1> SUFFICES ASSUME CountInv, WriterInv, [Next]_vars PROVE WriterInv'
    OBVIOUS
<1>1. ASSUME NEW t \in Threads, AnyStep(t) PROVE WriterInv'
    BY <1>1, WriterThreadStep, Zenon
<1> USE RwLockAssumption DEF CountInv, WriterInv, MutexOwner, CriticalPc, TakingPc,
    WriterFirst, WriterIn, WriterRecorded, writer_active, NoCallInProgress,
    fastVars, countVars, phaseVars, writerVars, threadVars
<1>3. CASE DrainStoreBuffer
    BY <1>3, Zenon DEF DrainStoreBuffer
<1>4. CASE Destroy
    BY <1>4, Zenon DEF Destroy
<1>5. CASE Initialise
  <2>1. /\ UNCHANGED <<mutex, pc, tls, holds>> /\ active_writer_thread' = NoThread
        /\ \A t \in Threads : pc[t] = "idle"
        /\ initialised_state = "DESTROYED"
    BY <1>5, Zenon DEF Initialise
  <2> QED BY <2>1, Zenon
<1>6. CASE UNCHANGED vars
    BY <1>6, Zenon DEF vars
<1> QED BY <1>1, <1>3, <1>4, <1>5, <1>6, Zenon DEF Next, AnyStep

\* A thread that holds the lock in either mode never sleeps on it, whatever
\* it calls: rdlock and wrlock find the caller's record or the caller in
\* active_writer_thread before they reach a wait loop.
THEOREM HoldersNeverWait == Spec => []NonRecursive
<1>1. Init => CountInv /\ WriterInv
    BY CountInit, WriterInit, Zenon
<1>2. CountInv /\ WriterInv /\ [Next]_vars => (CountInv /\ WriterInv)'
    BY CountNext, WriterNext, Zenon
<1>3. CountInv /\ WriterInv => NonRecursive
    BY Zenon DEF CountInv, ThreadTypes, RecordOf, WriterInv, WriterRecorded, NonRecursive
<1> QED BY <1>1, <1>2, <1>3, PTL DEF Spec

-----------------------------------------------------------------------------
(* The tickets of the writers, for every strategy, set of calls, fault and *)
(* memory model.                                                           *)

\* Steps that touch neither queue: the fast path, the wake-up of a writer,
\* refusals, the entries of the unlocks, and a return from a wait.
Light(t) ==
    /\ UNCHANGED <<wticketVars, phaseVars, writerVars, countVars, ticket>>
    /\ pc[t] \in QueuedPc <=> pc'[t] \in QueuedPc
    /\ pc[t] = "rd_wait" <=> pc'[t] = "rd_wait"
    /\ pc'[t] \in {"wr_take", "wr_fail"} => pc'[t] = pc[t]
    /\ reader_condition' \subseteq reader_condition

LEMMA LightSteps ==
    ASSUME ThreadTypes, NEW t \in Threads, AnyStep(t)
    PROVE  \/ Light(t)
           \/ WrLock(t) \/ WrCheck(t) \/ WrTake(t) \/ WrFail(t)
           \/ TryWrLock(t) \/ TryWrTake(t) \/ WrUnlock(t) \/ RdUnlockSlow(t)
           \/ RdSlowAdmit(t) \/ RdSlowQueue(t) \/ RdResume(t)
<1> USE DEF ThreadTypes, Light, fastVars, countVars, wticketVars, phaseVars, writerVars,
            condVars, threadVars
<1>1. CASE RdLock(t) \/ TryRdLock(t)
    BY <1>1 DEF RdLock, TryRdLock, RdLockCall
<1>2. CASE FastIncrement(t) \/ FastUndo(t)
    BY <1>2, ZenonT(30) DEF FastIncrement, FastUndo
<1>3. CASE FastRecheck(t)
    BY <1>3 DEF FastRecheck, ReturnTo
<1>4. CASE WakeCheck(t)
    BY <1>4, ZenonT(30) DEF WakeCheck, LeaveWake
<1>5. CASE WakeLock(t)
    BY <1>5 DEF WakeLock, LeaveWake
<1>6. CASE WakeClose(t)
    BY <1>6, Zenon DEF WakeClose, LeaveWake
<1>7. CASE RdSlowReject(t)
    BY <1>7, Zenon DEF RdSlowReject, ReturnTo
<1>8. CASE WrResume(t)
    BY <1>8, Zenon DEF WrResume
<1>9. CASE RdUnlockCall(t) \/ WrUnlockCall(t)
    BY <1>9 DEF RdUnlockCall, WrUnlockCall, UnlockCall
<1>10. CASE RdUnlockFast(t)
    BY <1>10, ZenonT(30) DEF RdUnlockFast
<1>11. CASE SpuriousWakeup(t)
    BY <1>11, Zenon DEF SpuriousWakeup
<1> QED BY <1>1, <1>2, <1>3, <1>4, <1>5, <1>6, <1>7, <1>8, <1>9, <1>10, <1>11, ZenonT(30)
    DEF AnyStep, Call, ReaderStep, WriterStep, Unlock

TicketTypes ==
    /\ next_writer_ticket \in Ticket /\ serving_writer_ticket \in Ticket
    /\ next_reader_ticket \in Ticket /\ reader_phase_cutoff \in Ticket
    /\ ticket \in [Threads -> Ticket \cup {NoTicket}]

\* The tickets given out and not yet served.
Issued == serving_writer_ticket..(next_writer_ticket - 1)

\* The active writer came through wrlock and is the one being served.
ServedIsActive == writer_active /\ active_writer_has_ticket

\* Every queued writer has an issued ticket of its own that is not cancelled,
\* and the ticket being served is the active writer's if that one has one.
QueueHasTickets ==
    /\ \A t \in QueuedWriters : /\ ticket[t] \in Issued \ cancelled_writer_tickets
                                /\ ServedIsActive => ticket[t] # serving_writer_ticket
    /\ \A t, u \in QueuedWriters : t # u => ticket[t] # ticket[u]
    /\ \A t \in Threads : pc[t] = "wr_take" => ticket[t] = serving_writer_ticket

\* Conversely every issued ticket is cancelled, or active, or some queued
\* writer's; and the one being served is not cancelled.
TicketsHaveOwners ==
    /\ \A k \in Issued : \/ k \in cancelled_writer_tickets
                         \/ k = serving_writer_ticket /\ ServedIsActive
                         \/ \E t \in QueuedWriters : ticket[t] = k
    /\ cancelled_writer_tickets \subseteq Issued \ {serving_writer_ticket}
    /\ ServedIsActive => serving_writer_ticket \in Issued

TicketInv ==
    /\ TicketTypes /\ QueueHasTickets /\ TicketsHaveOwners
    /\ serving_writer_ticket <= next_writer_ticket

\* Every nonempty set of naturals has a least element.
LEMMA LeastNatural ==
    ASSUME NEW S \in SUBSET Nat, S # {}
    PROVE  \E x \in S : \A y \in S : x <= y
<1>1. \E x \in S : \A y \in S : ~(<<y, x>> \in OpToRel(<, Nat))
    BY NatLessThanWellFounded, WFMin, Zenon
<1>2. \A x, y \in Nat : y < x => <<y, x>> \in OpToRel(<, Nat)
    BY Zenon DEF OpToRel
<1>3. \E x \in S : \A y \in S : ~(y < x)
    BY <1>1, <1>2, Zenon
<1> QED BY <1>3

\* advance_cancelled finds the first ticket that is not cancelled, if there is
\* one up to m.
LEMMA AdvanceFindsFirst ==
    ASSUME NEW s \in Ticket, NEW C, NEW m \in s..MaxTicket, m \notin C
    PROVE  /\ AdvanceCancelled(s, C) \in s..m
           /\ AdvanceCancelled(s, C) \notin C
           /\ \A k \in s..(AdvanceCancelled(s, C) - 1) : k \in C
<1> DEFINE Free == {k \in s..MaxTicket : k \notin C}
           First(n) == n \notin C /\ \A k \in s..(n - 1) : k \in C
<1>1. MaxTicket \in Nat
    BY RwLockAssumption, Zenon
<1>2. PICK x \in Free : \A y \in Free : x <= y
  <2>1. Free \in SUBSET Nat /\ m \in Free
    BY <1>1 DEF Ticket
  <2> QED BY <2>1, LeastNatural, Zenon
<1>4. x \in s..MaxTicket /\ First(x)
    BY <1>1, <1>2 DEF Ticket
<1>5. AdvanceCancelled(s, C) \in s..MaxTicket /\ First(AdvanceCancelled(s, C))
    BY <1>4, Zenon DEF AdvanceCancelled
<1> QED BY <1>1, <1>5 DEF Ticket

TicketsLocal(t) == \A u \in Threads : u # t => ticket'[u] = ticket[u]

\* The step of t leaves the queue of writers and their tickets alone.
KeepsQueue(t) ==
    /\ UNCHANGED <<wticketVars, writerVars>>
    /\ pc[t] \in QueuedPc <=> pc'[t] \in QueuedPc
    /\ pc[t] \in QueuedPc => ticket'[t] = ticket[t]
    /\ pc'[t] = "wr_take" => pc[t] = "wr_take" \/ ticket[t] = serving_writer_ticket

LEMMA KeepsQueueKeepsTickets ==
    ASSUME TicketInv, NEW t \in Threads, LocalStep(t), TicketsLocal(t), KeepsQueue(t),
           TicketTypes'
    PROVE  TicketInv'
<1> USE DEF LocalStep, TicketsLocal, KeepsQueue, wticketVars, writerVars
<1>1. QueuedWriters' = QueuedWriters /\ \A u \in QueuedWriters : ticket'[u] = ticket[u]
    BY Zenon DEF QueuedWriters
<1>2. Issued' = Issued /\ ServedIsActive' = ServedIsActive
    BY Zenon DEF Issued, ServedIsActive, writer_active
<1>3. QueueHasTickets'
    BY <1>1, <1>2 DEF TicketInv, QueueHasTickets
<1>4. TicketsHaveOwners'
    BY <1>1, <1>2 DEF TicketInv, TicketsHaveOwners
<1> QED BY <1>3, <1>4, ZenonT(30) DEF TicketInv

\* The steps of a slow reader give and take reader tickets only.
LEMMA SlowReaderTickets ==
    ASSUME ThreadTypes, TicketTypes, NEW t \in Threads,
           RdSlowAdmit(t) \/ RdSlowQueue(t) \/ RdResume(t)
    PROVE  TicketTypes' /\ TicketsLocal(t) /\ KeepsQueue(t)
<1>1. MaxTicket \in Nat
    BY RwLockAssumption, ZenonT(30)
<1> USE DEF ThreadTypes, TicketTypes, TicketsLocal, KeepsQueue, SlowReaderUnchanged,
            wticketVars, writerVars, threadVars, AdmitReader, ReaderFails, ReturnTo
<1>2. CASE RdSlowAdmit(t)
    BY <1>2, Zenon DEF RdSlowAdmit
<1>3. CASE RdSlowQueue(t)
  <2>1. ReaderTicket \in Ticket /\ ReaderTicket + 1 \in Ticket
    BY <1>1, <1>3 DEF RdSlowQueue, ReaderTicket, Ticket
  <2> QED BY <1>3, <2>1, ZenonT(30) DEF RdSlowQueue
<1>4. CASE RdResume(t)
    BY <1>4, Zenon DEF RdResume
<1> QED BY <1>2, <1>3, <1>4, ZenonT(30)

\* With nobody queued and nobody active no ticket is outstanding.
LEMMA EmptyQueue ==
    ASSUME TicketInv, QueuedWriters = {}, ~writer_active
    PROVE  serving_writer_ticket = next_writer_ticket /\ cancelled_writer_tickets = {}
<1>1. MaxTicket \in Nat
    BY RwLockAssumption, ZenonT(30)
<1>2. serving_writer_ticket \notin Issued
    BY Zenon DEF TicketInv, TicketsHaveOwners, ServedIsActive
<1>3. serving_writer_ticket = next_writer_ticket
    BY <1>1, <1>2 DEF TicketInv, TicketTypes, Issued, Ticket
<1>4. Issued = {}
    BY <1>1, <1>3 DEF TicketInv, TicketTypes, Issued, Ticket
<1> QED BY <1>3, <1>4, ZenonT(30) DEF TicketInv, TicketsHaveOwners

LEMMA WrLockTickets ==
    ASSUME CountInv, WriterInv, TicketInv, NEW t \in Threads, LocalStep(t), WrLock(t)
    PROVE  TicketInv'
<1> DEFINE n == NextTicket
           s == ServingTicket
<1>1. MaxTicket \in Nat /\ ThreadTypes /\ TicketTypes
    BY RwLockAssumption, Zenon DEF CountInv, TicketInv
<1>2. /\ n \in Ticket /\ s \in Ticket /\ s <= n /\ n # MaxTicket
      /\ cancelled_writer_tickets \subseteq (s..(n - 1)) \ {s}
      /\ \A u \in QueuedWriters : ticket[u] \in (s..(n - 1)) \ cancelled_writer_tickets
      /\ ServedIsActive => s \in s..(n - 1) /\ \A u \in QueuedWriters : ticket[u] # s
      /\ \A k \in s..(n - 1) : \/ k \in cancelled_writer_tickets
                               \/ k = s /\ ServedIsActive
                               \/ \E u \in QueuedWriters : ticket[u] = k
  <2>1. CASE TicketsExhausted
    <3>1. QueuedWriters = {} /\ ~writer_active
      BY <2>1, CountersTest, Zenon DEF CountInv, TicketsExhausted
    <3>2. n = 0 /\ s = 0 /\ cancelled_writer_tickets = {}
      BY <2>1, <3>1, EmptyQueue, ZenonT(30) DEF NextTicket, ServingTicket
    <3> QED BY <1>1, <3>1, <3>2, RwLockAssumption DEF Ticket, ServedIsActive
  <2>2. CASE ~TicketsExhausted
    BY <1>1, <2>2, ZenonT(30) DEF NextTicket, ServingTicket, TicketInv, TicketTypes, QueueHasTickets,
                      TicketsHaveOwners, Issued, WrLock, WriterMayEnter
  <2> QED BY <2>1, <2>2, ZenonT(30)
<1>3. /\ QueuedWriters' = QueuedWriters \cup {t} /\ t \notin QueuedWriters
      /\ QueuedWriters \subseteq Threads
      /\ ticket' = [ticket EXCEPT ![t] = n]
      /\ next_writer_ticket' = n + 1 /\ serving_writer_ticket' = s
      /\ UNCHANGED <<cancelled_writer_tickets, next_reader_ticket, reader_phase_cutoff>>
    BY <1>1 DEF WrLock, WriterMayEnter, ThreadTypes, LocalStep, QueuedWriters, phaseVars
<1>4. ServedIsActive' = ServedIsActive
    BY Zenon DEF WrLock, ServedIsActive, writer_active, writerVars
<1>5. TicketTypes'
    BY <1>1, <1>2, <1>3 DEF TicketTypes, Ticket
<1>6. /\ ticket'[t] = n /\ \A u \in QueuedWriters : ticket'[u] = ticket[u]
      /\ Issued' = s..n
    BY <1>1, <1>2, <1>3 DEF TicketTypes, Issued, Ticket
<1>7. QueueHasTickets'
  <2>1. \A u \in Threads : pc'[u] # "wr_take"
    BY <1>1, RwLockAssumption DEF WrLock, WriterMayEnter, WriterInv, MutexOwner, CriticalPc,
                                  LocalStep, ThreadTypes
  <2>2. \A u, v \in QueuedWriters : u # v => ticket[u] # ticket[v]
    BY Zenon DEF TicketInv, QueueHasTickets
  <2> QED BY <1>1, <1>2, <1>3, <1>4, <1>6, <2>1, <2>2 DEF QueueHasTickets, Ticket
<1>8. TicketsHaveOwners'
    BY <1>1, <1>2, <1>3, <1>4, <1>6 DEF TicketsHaveOwners, Ticket
<1> QED BY <1>1, <1>2, <1>3, <1>5, <1>7, <1>8 DEF TicketInv, Ticket

\* A thread that leaves the queue of writers: its ticket is the one that is
\* missing from the queue afterwards.
LEMMA LeavesQueue ==
    ASSUME ThreadTypes, TicketTypes, NEW t \in Threads, LocalStep(t), pc[t] \in QueuedPc,
           pc' = [pc EXCEPT ![t] = "idle"], ticket' = [ticket EXCEPT ![t] = NoTicket]
    PROVE  /\ QueuedWriters' = QueuedWriters \ {t} /\ t \in QueuedWriters
           /\ QueuedWriters \subseteq Threads
           /\ \A u \in Threads : u # t => ticket'[u] = ticket[u]
           /\ ticket' \in [Threads -> Ticket \cup {NoTicket}]
BY ZenonT(30) DEF ThreadTypes, TicketTypes, LocalStep, QueuedWriters

LEMMA WrTakeTickets ==
    ASSUME CountInv, WriterInv, TicketInv, NEW t \in Threads, LocalStep(t), WrTake(t)
    PROVE  TicketInv'
<1>1. ThreadTypes /\ TicketTypes
    BY Zenon DEF CountInv, TicketInv
<1>2. /\ QueuedWriters' = QueuedWriters \ {t} /\ t \in QueuedWriters
      /\ \A u \in QueuedWriters \ {t} : ticket'[u] = ticket[u]
      /\ ticket' \in [Threads -> Ticket \cup {NoTicket}]
    BY <1>1, LeavesQueue, Zenon DEF WrTake
<1>3. /\ UNCHANGED <<next_writer_ticket, serving_writer_ticket, cancelled_writer_tickets,
                     next_reader_ticket, reader_phase_cutoff>>
      /\ Issued' = Issued
    BY Zenon DEF WrTake, wticketVars, phaseVars, Issued
<1>4. ServedIsActive' /\ ~ServedIsActive /\ ticket[t] = serving_writer_ticket
    BY RwLockAssumption, ZenonT(30) DEF WrTake, ServedIsActive, writer_active, WriterInv, WriterFirst,
                            TakingPc, TicketInv, QueueHasTickets
<1>5. \A u \in Threads : pc'[u] # "wr_take"
    BY <1>1 DEF WrTake, WriterInv, MutexOwner, CriticalPc, LocalStep, ThreadTypes
<1>6. QueueHasTickets'
    BY <1>2, <1>3, <1>4, <1>5 DEF TicketInv, QueueHasTickets
<1>7. TicketsHaveOwners'
    BY <1>2, <1>3, <1>4, Zenon DEF TicketInv, TicketsHaveOwners, QueueHasTickets
<1> QED BY <1>1, <1>2, <1>3, <1>6, <1>7, ZenonT(30) DEF TicketInv, TicketTypes

LEMMA WrFailTickets ==
    ASSUME CountInv, WriterInv, TicketInv, NEW t \in Threads, LocalStep(t), WrFail(t)
    PROVE  TicketInv'
<1> DEFINE k == ticket[t]
           C == cancelled_writer_tickets \cup {k}
           n == AdvanceCancelled(k, C)
<1>1. MaxTicket \in Nat /\ ThreadTypes /\ TicketTypes
    BY RwLockAssumption, Zenon DEF CountInv, TicketInv
<1>2. /\ QueuedWriters' = QueuedWriters \ {t} /\ t \in QueuedWriters
      /\ \A u \in QueuedWriters \ {t} : ticket'[u] = ticket[u]
      /\ ticket' \in [Threads -> Ticket \cup {NoTicket}]
    BY <1>1, LeavesQueue, Zenon DEF WrFail
<1>3. UNCHANGED <<next_writer_ticket, next_reader_ticket, reader_phase_cutoff>>
    BY Zenon DEF WrFail, phaseVars
<1>4. ServedIsActive' = ServedIsActive
    BY Zenon DEF WrFail, ServedIsActive, writer_active, writerVars
<1>5. \A u \in Threads : pc'[u] # "wr_take"
    BY <1>1 DEF WrFail, WriterInv, MutexOwner, CriticalPc, LocalStep, ThreadTypes
<1>6. k \in Issued /\ C \subseteq Issued
    BY <1>2, Zenon DEF TicketInv, QueueHasTickets, TicketsHaveOwners
<1>7. CASE k = serving_writer_ticket
  <2>1. next_writer_ticket \in k..MaxTicket /\ next_writer_ticket \notin C /\ k \in Ticket
    BY <1>1, <1>6 DEF TicketTypes, Issued, Ticket
  <2>2. n \in k..next_writer_ticket /\ n \notin C /\ \A j \in k..(n - 1) : j \in C
    BY <2>1, AdvanceFindsFirst, ZenonT(30)
  <2>3. ~ServedIsActive
    BY <1>2, <1>7, Zenon DEF TicketInv, QueueHasTickets
  <2>4. serving_writer_ticket' = n /\ cancelled_writer_tickets' = C \ (k..(n - 1))
    BY <1>7, Zenon DEF WrFail
  <2>5. /\ n \in Ticket /\ n <= next_writer_ticket
        /\ \A j : j \in Issued /\ j \notin k..(n - 1) <=> j \in Issued'
    <3>1. Issued = k..(next_writer_ticket - 1) /\ Issued' = n..(next_writer_ticket - 1)
      BY <1>3, <1>7, <2>4, Zenon DEF Issued
    <3>2. next_writer_ticket \in 0..MaxTicket /\ k \in 0..MaxTicket
      BY <1>1, <2>1, Zenon DEF TicketTypes, Ticket
    <3> HIDE DEF n, k
    <3>3. n \in Ticket /\ n <= next_writer_ticket
      BY <1>1, <2>2, <3>2 DEF Ticket
    <3>4. \A j : j \in Issued /\ j \notin k..(n - 1) <=> j \in Issued'
      BY <1>1, <2>2, <3>1, <3>2
    <3> QED BY <3>3, <3>4, Zenon
  <2>6. QueueHasTickets'
    BY <1>2, <1>4, <1>5, <2>2, <2>3, <2>4, <2>5, ZenonT(30) DEF TicketInv, QueueHasTickets
  <2>7. TicketsHaveOwners'
    <3>1. cancelled_writer_tickets' \subseteq Issued' \ {n}
      BY <1>6, <2>2, <2>4, <2>5, Zenon
    <3>2. \A j \in Issued' : j \in C \/ \E u \in QueuedWriters \ {t} : ticket[u] = j
      BY <2>3, <2>5, Zenon DEF TicketInv, TicketsHaveOwners
    <3> QED BY <1>2, <1>4, <2>3, <2>4, <2>5, <3>1, <3>2, Zenon DEF TicketsHaveOwners
  <2> QED BY <1>1, <1>2, <1>3, <2>4, <2>5, <2>6, <2>7, Zenon DEF TicketInv, TicketTypes
<1>8. CASE k # serving_writer_ticket
  <2>1. serving_writer_ticket' = serving_writer_ticket /\ cancelled_writer_tickets' = C
    BY <1>8, Zenon DEF WrFail
  <2>2. Issued' = Issued
    BY <1>3, <2>1, Zenon DEF Issued
  <2>3. QueueHasTickets'
    BY <1>2, <1>4, <1>5, <2>1, <2>2 DEF TicketInv, QueueHasTickets
  <2>4. TicketsHaveOwners'
    BY <1>2, <1>4, <1>6, <1>8, <2>1, <2>2, Zenon DEF TicketInv, TicketsHaveOwners
  <2> QED BY <1>1, <1>2, <1>3, <2>1, <2>3, <2>4, ZenonT(30) DEF TicketInv, TicketTypes
<1> QED BY <1>7, <1>8, Zenon

LEMMA TryWrLockTickets ==
    ASSUME CountInv, WriterInv, TicketInv, NEW t \in Threads, LocalStep(t), TryWrLock(t)
    PROVE  TicketInv'
<1>1. MaxTicket \in Nat /\ ThreadTypes /\ TicketTypes
    BY RwLockAssumption, Zenon DEF CountInv, TicketInv
<1>2. next_writer_ticket = serving_writer_ticket /\ Issued = {}
    BY <1>1 DEF TryWrLock, Issued, TicketTypes, Ticket
<1>3. QueuedWriters = {} /\ QueuedWriters' = {} /\ cancelled_writer_tickets = {}
    BY <1>1, <1>2, ZenonT(30) DEF TryWrLock, WriterMayEnter, TicketInv, QueueHasTickets,
       TicketsHaveOwners, QueuedWriters, LocalStep, ThreadTypes
<1>4. /\ next_writer_ticket' = serving_writer_ticket' /\ serving_writer_ticket' \in Ticket
      /\ UNCHANGED <<cancelled_writer_tickets, ticket, next_reader_ticket,
                     reader_phase_cutoff>>
    BY <1>1, <1>2 DEF TryWrLock, NextTicket, ServingTicket, TicketTypes, Ticket, phaseVars
<1>5. Issued' = {} /\ ~ServedIsActive'
    BY <1>1, <1>4 DEF TryWrLock, Issued, Ticket, ServedIsActive, writer_active, writerVars
<1>6. QueueHasTickets' /\ TicketsHaveOwners'
    BY <1>3, <1>4, <1>5, Zenon DEF QueueHasTickets, TicketsHaveOwners, QueuedWriters
<1> QED BY <1>1, <1>4, <1>6, SMTT(30) DEF TicketInv, TicketTypes, Ticket

LEMMA WrUnlockTickets ==
    ASSUME CountInv, WriterInv, TicketInv, NEW t \in Threads, LocalStep(t), WrUnlock(t)
    PROVE  TicketInv'
<1> DEFINE C == cancelled_writer_tickets
           s == serving_writer_ticket + 1
           n == AdvanceCancelled(s, C)
<1>1. MaxTicket \in Nat /\ ThreadTypes /\ TicketTypes /\ CountersAgree
    BY RwLockAssumption, Zenon DEF CountInv, TicketInv
<1>2. /\ QueuedWriters' = QueuedWriters /\ ticket' = ticket
      /\ ~ServedIsActive' /\ next_reader_ticket' = next_reader_ticket
      /\ reader_phase_cutoff' \in Ticket
    BY <1>1, Zenon DEF WrUnlock, OpenReaderPhase, LocalStep, ThreadTypes, QueuedWriters,
                ServedIsActive, writer_active, TicketTypes
<1>3. \A u \in Threads : pc'[u] # "wr_take"
    BY <1>1, RwLockAssumption DEF WrUnlock, WriterInv, MutexOwner, CriticalPc, LocalStep,
                                  ThreadTypes
<1>4. SUFFICES /\ next_writer_ticket' \in Ticket /\ serving_writer_ticket' \in Ticket
               /\ serving_writer_ticket' <= next_writer_ticket'
               /\ cancelled_writer_tickets' \subseteq Issued' \ {serving_writer_ticket'}
               /\ \A u \in QueuedWriters :
                      ticket[u] \in Issued' \ cancelled_writer_tickets'
               /\ \A k \in Issued' : \/ k \in cancelled_writer_tickets'
                                      \/ \E u \in QueuedWriters : ticket[u] = k
    BY <1>1, <1>2, <1>3, <1>4, Zenon DEF TicketInv, TicketTypes, QueueHasTickets, TicketsHaveOwners
<1>5. CASE ~active_writer_has_ticket
  <2>1. UNCHANGED wticketVars /\ ~ServedIsActive /\ Issued' = Issued
    BY <1>5, Zenon DEF WrUnlock, wticketVars, ServedIsActive, Issued
  <2> QED BY <2>1, Zenon DEF wticketVars, TicketInv, TicketTypes, QueueHasTickets, TicketsHaveOwners
<1>6. CASE active_writer_has_ticket
  <2>1. ServedIsActive
    BY <1>6, RwLockAssumption, Zenon DEF WrUnlock, ServedIsActive, writer_active, WriterInv,
                                  WriterRecorded
  <2>2. /\ s \in Ticket /\ next_writer_ticket \in s..MaxTicket
        /\ \A j : j \in Issued /\ j # serving_writer_ticket <=> j \in s..(next_writer_ticket - 1)
    BY <1>1, <2>1 DEF TicketInv, TicketsHaveOwners, TicketTypes, Issued, Ticket
  <2>3. /\ C \subseteq s..(next_writer_ticket - 1)
        /\ \A u \in QueuedWriters : ticket[u] \in (s..(next_writer_ticket - 1)) \ C
        /\ \A k \in s..(next_writer_ticket - 1) :
               k \in C \/ \E u \in QueuedWriters : ticket[u] = k
    BY <2>1, <2>2, Zenon DEF TicketInv, QueueHasTickets, TicketsHaveOwners
  <2>4. next_writer_ticket \notin C
    BY <1>1, <2>2, <2>3 DEF Ticket
  <2>5. n \in s..next_writer_ticket /\ n \notin C /\ \A j \in s..(n - 1) : j \in C
    BY <2>2, <2>4, AdvanceFindsFirst, Zenon
  <2>6. waiting_writers = 0 <=> QueuedWriters = {}
    BY <1>1, CountersTest, Zenon
  <2>7. FinishWriterQueue(s)
    BY <1>6, Zenon DEF WrUnlock
  <2>8. CASE waiting_writers = 0 /\ next_writer_ticket = s
    <3>1. C = {} /\ QueuedWriters = {}
      BY <1>1, <2>2, <2>3, <2>6, <2>8 DEF Ticket
    <3>2. /\ next_writer_ticket' = 0 /\ serving_writer_ticket' = 0
          /\ cancelled_writer_tickets' = C
      BY <2>7, <2>8, Zenon DEF FinishWriterQueue
    <3> QED BY <1>1, <3>1, <3>2 DEF Issued, Ticket
  <2>9. CASE ~(waiting_writers = 0 /\ next_writer_ticket = s)
    <3> DEFINE D == C \ (s..(n - 1))
    <3>1. CASE waiting_writers = 0 /\ next_writer_ticket = n /\ D = {}
      BY <1>1, <2>6, <2>7, <2>9, <3>1 DEF FinishWriterQueue, Issued, Ticket
    <3>2. CASE ~(waiting_writers = 0 /\ next_writer_ticket = n /\ D = {})
      <4>1. /\ next_writer_ticket' = next_writer_ticket /\ serving_writer_ticket' = n
            /\ cancelled_writer_tickets' = D
        BY <2>7, <2>9, <3>2, Zenon DEF FinishWriterQueue
      <4>2. \A j : j \in s..(next_writer_ticket - 1) /\ j \notin s..(n - 1) <=> j \in Issued'
        BY <1>1, <2>2, <2>5, <4>1 DEF Issued, Ticket
      <4>3. n \in Ticket /\ next_writer_ticket \in Ticket /\ n <= next_writer_ticket
        BY <1>1, <2>2, <2>5 DEF Ticket
      <4>4. D \subseteq Issued' \ {n}
        BY <2>3, <2>5, <4>2, Zenon
      <4>5. \A u \in QueuedWriters : ticket[u] \in Issued' \ D
        BY <2>3, <2>5, <4>2, Zenon
      <4>6. \A k \in Issued' : k \in D \/ \E u \in QueuedWriters : ticket[u] = k
        BY <2>3, <4>2, Zenon
      <4> QED BY <4>1, <4>3, <4>4, <4>5, <4>6, ZenonT(30)
    <3> QED BY <3>1, <3>2, Zenon
  <2> QED BY <2>8, <2>9, Zenon
<1> QED BY <1>5, <1>6, Zenon

LEMMA TicketThreadStep ==
    ASSUME CountInv, WriterInv, TicketInv, NEW t \in Threads, AnyStep(t)
    PROVE  TicketInv'
<1>1. ThreadTypes /\ TicketTypes /\ CountersAgree
    BY Zenon DEF CountInv, TicketInv
<1>2. LocalStep(t)
    BY <1>1, StepIsLocal, Zenon
<1>3. SUFFICES \/ TicketInv'
               \/ TicketTypes' /\ TicketsLocal(t) /\ KeepsQueue(t)
    BY <1>2, KeepsQueueKeepsTickets, Zenon
<1> USE <1>1 DEF TicketTypes, TicketsLocal, KeepsQueue
<1>4. CASE Light(t)
    BY <1>4, Zenon DEF Light, wticketVars, phaseVars
<1>5. CASE WrLock(t) \/ WrTake(t) \/ WrFail(t) \/ TryWrLock(t) \/ WrUnlock(t)
    BY <1>2, <1>5, WrLockTickets, WrTakeTickets, WrFailTickets, TryWrLockTickets,
       WrUnlockTickets, Zenon
<1>6. CASE WrCheck(t)
    BY <1>6, Zenon DEF WrCheck, WriterBlocked, ThreadTypes, wticketVars, phaseVars
<1>7. CASE TryWrTake(t)
  <2>1. /\ QueuedWriters' = QueuedWriters /\ \A u \in Threads : pc'[u] # "wr_take"
        /\ UNCHANGED <<wticketVars, phaseVars, ticket>>
    BY <1>2, <1>7 DEF TryWrTake, ThreadTypes, LocalStep, QueuedWriters, WriterInv, MutexOwner,
                      CriticalPc
  <2>2. ~ServedIsActive /\ ~ServedIsActive' /\ Issued' = Issued
    BY <1>7, <2>1, Zenon DEF TryWrTake, ServedIsActive, WriterInv, WriterFirst, TakingPc, Issued,
                      wticketVars
  <2>3. QueueHasTickets' /\ TicketsHaveOwners'
    BY <2>1, <2>2, Zenon DEF TicketInv, QueueHasTickets, TicketsHaveOwners, wticketVars
  <2> QED BY <2>1, <2>3, Zenon DEF TicketInv, wticketVars, phaseVars
<1>8. CASE RdUnlockSlow(t)
  <2>1. reader_phase_cutoff' \in Ticket
    BY <1>8, Zenon DEF RdUnlockSlow, LastReaderLeaves, HandOverToWriters, OpenReaderPhase
  <2> QED BY <1>8, <2>1, Zenon DEF RdUnlockSlow, ThreadTypes, wticketVars
<1>9. CASE RdSlowAdmit(t) \/ RdSlowQueue(t) \/ RdResume(t)
    BY <1>9, SlowReaderTickets, Zenon
<1> QED BY <1>4, <1>5, <1>6, <1>7, <1>8, <1>9, LightSteps, ZenonT(30)

LEMMA TicketInit == Init => TicketInv
<1> SUFFICES ASSUME Init PROVE TicketInv
    OBVIOUS
<1>1. MaxTicket \in Nat /\ QueuedWriters = {} /\ Issued = {}
    BY RwLockAssumption DEF Init, QueuedWriters, Issued
<1> QED BY <1>1 DEF Init, TicketInv, TicketTypes, Ticket, QueueHasTickets, TicketsHaveOwners,
                    ServedIsActive, writer_active

LEMMA TicketNext == CountInv /\ WriterInv /\ TicketInv /\ [Next]_vars => TicketInv'
<1> SUFFICES ASSUME CountInv, WriterInv, TicketInv, [Next]_vars PROVE TicketInv'
    OBVIOUS
<1>1. ASSUME NEW t \in Threads, AnyStep(t) PROVE TicketInv'
    BY <1>1, TicketThreadStep, Zenon
<1>2. ASSUME UNCHANGED <<wticketVars, phaseVars, writerVars, threadVars>>
      PROVE  TicketInv'
    BY <1>2, Zenon DEF TicketInv, TicketTypes, QueueHasTickets, TicketsHaveOwners, ServedIsActive,
       Issued, QueuedWriters, writer_active, wticketVars, phaseVars, writerVars, threadVars
<1>3. CASE DrainStoreBuffer
    BY <1>2, <1>3, Zenon DEF DrainStoreBuffer
<1>4. CASE Destroy
  <2>1. cancelled_writer_tickets = {}
    BY <1>4, EmptyQueue, Zenon DEF Destroy, NoCallInProgress, QueuedWriters
  <2> QED BY <1>2, <1>4, <2>1, Zenon DEF Destroy, wticketVars
<1>5. CASE Initialise
  <2>1. MaxTicket \in Nat /\ QueuedWriters' = {} /\ Issued' = {} /\ ~ServedIsActive'
    BY <1>5, RwLockAssumption DEF Initialise, NoCallInProgress, threadVars, QueuedWriters,
                                  Issued, ServedIsActive, writer_active
  <2>2. /\ \A t \in Threads : pc'[t] # "wr_take"
        /\ ticket' = ticket
    BY <1>5, Zenon DEF Initialise, NoCallInProgress, threadVars
  <2>3. QueueHasTickets' /\ TicketsHaveOwners'
    BY <1>5, <2>1, <2>2, Zenon DEF Initialise, QueueHasTickets, TicketsHaveOwners
  <2> QED BY <1>5, <2>1, <2>2, <2>3 DEF Initialise, TicketInv, TicketTypes, Ticket
<1>6. CASE UNCHANGED vars
    BY <1>2, <1>6, Zenon DEF vars
<1> QED BY <1>1, <1>3, <1>4, <1>5, <1>6, ZenonT(30) DEF Next, AnyStep

QueueInv == CountInv /\ WriterInv /\ TicketInv

LEMMA QueueIsInvariant == Spec => []QueueInv
<1>1. Init => QueueInv
    BY CountInit, WriterInit, TicketInit, Zenon DEF QueueInv
<1>2. QueueInv /\ [Next]_vars => QueueInv'
    BY CountNext, WriterNext, TicketNext, Zenon DEF QueueInv
<1> QED BY <1>1, <1>2, PTL DEF Spec

\* The queue of writers never waits for a ticket that nobody holds: whatever
\* wait is abandoned, finish_writer_queue and the cancellation in wrlock move
\* serving_writer_ticket past every cancelled ticket, and the two counters
\* restart from zero only when no ticket is out.
THEOREM ServedTicketHasOwner == Spec => []ServingTicketLive
<1>1. QueueInv => ServingTicketLive
  <2> SUFFICES ASSUME QueueInv, next_writer_ticket # serving_writer_ticket
               PROVE  \/ writer_active /\ active_writer_has_ticket
                      \/ \E t \in QueuedWriters : ticket[t] = serving_writer_ticket
    BY Zenon DEF ServingTicketLive
  <2>1. serving_writer_ticket \in Issued
    BY RwLockAssumption DEF QueueInv, TicketInv, TicketTypes, Issued, Ticket
  <2> QED BY <2>1, Zenon DEF QueueInv, TicketInv, TicketsHaveOwners, ServedIsActive
<1> QED BY <1>1, QueueIsInvariant, PTL

\* Writers are admitted in the order of their tickets: the one that returns
\* from wrlock with the lock has the least ticket of all that are queued, also
\* after cancelled tickets and after a restart of the counters.
THEOREM WritersAreServedInOrder == Spec => WritersInTicketOrder
<1> DEFINE Oldest ==
        \A t \in Threads : pc[t] = "wr_take" /\ holds'[t] = "write" =>
            \A u \in QueuedWriters : ticket[t] <= ticket[u]
<1>1. QueueInv => Oldest
  <2> SUFFICES ASSUME QueueInv, NEW t \in Threads, pc[t] = "wr_take",
                      NEW u \in QueuedWriters
               PROVE  ticket[t] <= ticket[u]
    OBVIOUS
  <2>1. ticket[t] = serving_writer_ticket /\ ticket[u] \in Issued
    BY Zenon DEF QueueInv, TicketInv, QueueHasTickets
  <2> QED BY <2>1, RwLockAssumption DEF QueueInv, TicketInv, TicketTypes, Issued, Ticket
<1>2. QueueInv /\ [Next]_vars => [Oldest]_vars
    BY <1>1, Zenon
<1> QED BY <1>2, QueueIsInvariant, PTL DEF Spec, WritersInTicketOrder

-----------------------------------------------------------------------------
(* The wake-ups of the writers, for every strategy, set of calls, fault    *)
(* and memory model.                                                       *)

\* Who sleeps on writer_condition is in the wait loop of wrlock, and is woken
\* when its turn comes.
WakeInv ==
    /\ \A t \in writer_condition : t \in Threads /\ pc[t] = "wr_wait"
    /\ NoLostWriterWakeup

\* In a step of thread t no sleeping writer is forgotten: all are woken; or
\* all still have to wait; or t goes on to wake them; or nothing they wait
\* for changes, and t is not one that was about to wake them.
WakeStep(t) ==
    \/ writer_condition' = {}
    \/ /\ writer_condition' \subseteq writer_condition
       /\ t \in writer_condition' => pc'[t] = "wr_wait"
       /\ \/ HasActiveReaders' \/ writer_active' \/ reader_phase_open'
          \/ pc'[t] \in WakePc
    \/ /\ writer_condition' \subseteq writer_condition \cup {t}
       /\ t \in writer_condition' =>
              /\ pc'[t] = "wr_wait" /\ ticket'[t] = ticket[t]
              /\ t \in writer_condition \/ WriterBlocked(ticket[t])
       /\ UNCHANGED <<active_readers, fast_active_readers, active_writer_thread,
                      reader_phase_open, serving_writer_ticket>>
       /\ pc[t] \notin WakePc

LEMMA WakeLocal ==
    ASSUME WakeInv, NEW t \in Threads, LocalStep(t), TicketsLocal(t), WakeStep(t)
    PROVE  WakeInv'
<1>1. CASE writer_condition' = {}
    BY <1>1, Zenon DEF WakeInv, NoLostWriterWakeup
<1>2. CASE /\ writer_condition' \subseteq writer_condition
           /\ t \in writer_condition' => pc'[t] = "wr_wait"
           /\ \/ HasActiveReaders' \/ writer_active' \/ reader_phase_open'
              \/ pc'[t] \in WakePc
    BY <1>2, Zenon DEF WakeInv, NoLostWriterWakeup, LocalStep, WriterBlocked
<1>3. CASE /\ writer_condition' \subseteq writer_condition \cup {t}
           /\ t \in writer_condition' =>
                  /\ pc'[t] = "wr_wait" /\ ticket'[t] = ticket[t]
                  /\ t \in writer_condition \/ WriterBlocked(ticket[t])
           /\ UNCHANGED <<active_readers, fast_active_readers, active_writer_thread,
                          reader_phase_open, serving_writer_ticket>>
           /\ pc[t] \notin WakePc
  <2>1. ASSUME NEW u \in writer_condition'
        PROVE  /\ u \in Threads /\ pc'[u] = "wr_wait"
               /\ ~WriterBlocked(ticket[u])' => \E v \in Threads : pc'[v] \in WakePc
    <3>1. u \in Threads /\ pc'[u] = "wr_wait" /\ ticket'[u] = ticket[u]
      BY <1>3, <2>1, Zenon DEF WakeInv, LocalStep, TicketsLocal
    <3>2. WriterBlocked(ticket[u])' <=> WriterBlocked(ticket[u])
      BY <1>3, <3>1, Zenon DEF WriterBlocked, HasActiveReaders, writer_active
    <3>3. ASSUME ~WriterBlocked(ticket[u]) PROVE \E v \in Threads : pc'[v] \in WakePc
      <4>1. u \in writer_condition
        BY <1>3, <2>1, <3>3, Zenon
      <4>2. PICK v \in Threads : pc[v] \in WakePc
        BY <3>3, <4>1, Zenon DEF WakeInv, NoLostWriterWakeup
      <4> QED BY <1>3, <4>2, Zenon DEF LocalStep
    <3> QED BY <3>1, <3>2, <3>3, Zenon
  <2> QED BY <2>1, Zenon DEF WakeInv, NoLostWriterWakeup
<1> QED BY <1>1, <1>2, <1>3, Zenon DEF WakeStep

\* The steps of a slow reader that may let a writer in wake it.
LEMMA SlowReaderWakes ==
    ASSUME ThreadTypes, CountersAgree, TicketTypes, WakeInv, NEW t \in Threads,
           RdSlowAdmit(t) \/ RdSlowQueue(t) \/ RdResume(t)
    PROVE  WakeStep(t)
<1>1. pc[t] \in {"rd_mutex", "rd_wait"} /\ t \notin writer_condition
    BY Zenon DEF RdSlowAdmit, RdSlowQueue, RdResume, WakeInv
<1>2. active_readers \in Nat /\ fast_active_readers \in Nat
    BY CountersTest, Zenon
<1>3. waiting_writers = 0 => writer_condition = {}
    BY CountersTest, Zenon DEF WakeInv, QueuedWriters
<1>4. UNCHANGED <<fast_active_readers, active_writer_thread, serving_writer_ticket>>
    BY Zenon DEF RdSlowAdmit, RdSlowQueue, RdResume, SlowReaderUnchanged, wticketVars, writerVars
<1>5. ASSUME NEW w, AdmitReader(t, w) PROVE WakeStep(t)
    BY <1>1, <1>2, <1>5 DEF AdmitReader, WakeStep, HasActiveReaders
<1>6. ASSUME NEW w, ReaderFails(t, w) PROVE WakeStep(t)
    BY <1>1, <1>3, <1>4, <1>6, Zenon DEF ReaderFails, WakeStep
<1>7. CASE UNCHANGED <<active_readers, reader_phase_open, writer_condition>>
    BY <1>1, <1>4, <1>7, Zenon DEF WakeStep
<1> QED BY <1>5, <1>6, <1>7, Zenon DEF RdSlowAdmit, RdSlowQueue, RdResume

LEMMA WakeThreadStep ==
    ASSUME CountInv, TicketInv, WakeInv, NEW t \in Threads, AnyStep(t)
    PROVE  WakeInv'
<1>a. ThreadTypes /\ TicketTypes /\ CountersAgree /\ NoThread \notin Threads
    BY RwLockAssumption, Zenon DEF CountInv, TicketInv
<1>b. LocalStep(t)
    BY <1>a, StepIsLocal, Zenon
<1>c. /\ active_readers \in Nat /\ fast_active_readers \in Nat
      /\ t \in writer_condition => pc[t] = "wr_wait"
    BY <1>a, CountersTest, Zenon DEF WakeInv
<1>d. waiting_writers = 0 => writer_condition = {}
    BY <1>a, CountersTest, Zenon DEF WakeInv, QueuedWriters
<1>e. SUFFICES TicketsLocal(t) /\ WakeStep(t)
    BY <1>b, WakeLocal, Zenon
<1> USE <1>a, <1>c DEF ThreadTypes, TicketTypes, TicketsLocal, WakeStep,
    fastVars, countVars, wticketVars, phaseVars, writerVars, condVars, threadVars
<1>1. CASE RdLock(t) \/ TryRdLock(t)
    BY <1>1, Zenon DEF RdLock, TryRdLock, RdLockCall
<1>3. CASE FastIncrement(t)
    BY <1>3 DEF FastIncrement, HasActiveReaders
<1>4. CASE FastRecheck(t)
    BY <1>4, Zenon DEF FastRecheck
<1>5. CASE FastUndo(t)
    BY <1>5, Zenon DEF FastUndo
<1>6. CASE WakeCheck(t)
    BY <1>6, Zenon DEF WakeCheck, HasActiveReaders
<1>7. CASE WakeLock(t)
    BY <1>d, <1>7, Zenon DEF WakeLock, HasActiveReaders
<1>8. CASE WakeClose(t)
    BY <1>8, Zenon DEF WakeClose
<1>9. CASE RdSlowReject(t)
    BY <1>9, Zenon DEF RdSlowReject
<1>10. CASE WrLock(t)
    BY <1>d, <1>10, Zenon DEF WrLock, WriterMayEnter, ServingTicket, TicketsExhausted
<1>11. CASE WrCheck(t)
    BY <1>11, Zenon DEF WrCheck
<1>12. CASE WrResume(t)
    BY <1>12, Zenon DEF WrResume
<1>13. CASE WrTake(t)
    BY <1>13, Zenon DEF WrTake, writer_active
<1>14. CASE WrFail(t)
    BY <1>14, Zenon DEF WrFail
<1>15. CASE TryWrLock(t)
    BY <1>d, <1>15, Zenon DEF TryWrLock, WriterMayEnter, ServingTicket, TicketsExhausted
<1>16. CASE TryWrTake(t)
    BY <1>16, Zenon DEF TryWrTake, writer_active
<1>17. CASE RdUnlockCall(t) \/ WrUnlockCall(t)
    BY <1>17, Zenon DEF RdUnlockCall, WrUnlockCall, UnlockCall
<1>19. CASE RdUnlockFast(t)
  <2>1. t \in FastReaders
    BY <1>19, Zenon DEF RdUnlockFast, FastReaders
  <2>2. fast_active_readers # 0
    BY <2>1, CountersTest, Zenon
  <2> QED BY <1>19, <2>2, Zenon DEF RdUnlockFast
<1>20. CASE RdUnlockSlow(t)
  <2>1. CASE active_readers = 1
    BY <1>d, <1>20, <2>1, Zenon DEF RdUnlockSlow, LastReaderLeaves, HandOverToWriters, OpenReaderPhase
  <2>2. CASE active_readers # 1
    BY <1>20, <2>2 DEF RdUnlockSlow, HasActiveReaders
  <2> QED BY <2>1, <2>2, Zenon
<1>21. CASE WrUnlock(t)
    BY <1>d, <1>21, Zenon DEF WrUnlock, OpenReaderPhase
<1>22. CASE SpuriousWakeup(t)
    BY <1>22, Zenon DEF SpuriousWakeup
<1>23. CASE RdSlowAdmit(t) \/ RdSlowQueue(t) \/ RdResume(t)
    BY <1>23, SlowReaderTickets, SlowReaderWakes, ZenonT(30)
<1> QED BY <1>1, <1>3, <1>4, <1>5, <1>6, <1>7, <1>8, <1>9, <1>10, <1>11, <1>12, <1>13,
       <1>14, <1>15, <1>16, <1>17, <1>19, <1>20, <1>21, <1>22, <1>23, ZenonT(30)
    DEF AnyStep, Call, ReaderStep, WriterStep, Unlock

LEMMA WakeNext == QueueInv /\ WakeInv /\ [Next]_vars => WakeInv'
<1> SUFFICES ASSUME QueueInv, WakeInv, [Next]_vars PROVE WakeInv'
    OBVIOUS
<1>1. ASSUME NEW t \in Threads, AnyStep(t) PROVE WakeInv'
    BY <1>1, WakeThreadStep, Zenon DEF QueueInv
<1>2. CASE DrainStoreBuffer \/ UNCHANGED vars
  <2>1. /\ writer_condition' = writer_condition /\ ticket' = ticket /\ pc' = pc
        /\ UNCHANGED <<countVars, wticketVars, phaseVars, writerVars>>
        /\ fast_active_readers' = fast_active_readers
    BY <1>2, Zenon DEF DrainStoreBuffer, vars, fastVars, condVars, threadVars
  <2> QED BY <2>1, Zenon DEF WakeInv, NoLostWriterWakeup, WriterBlocked, HasActiveReaders,
          writer_active, countVars, wticketVars, phaseVars, writerVars
<1>3. CASE Destroy \/ Initialise
  <2>1. writer_condition = {} /\ writer_condition' = {}
    BY <1>3, Zenon DEF Destroy, Initialise, NoCallInProgress, WakeInv, condVars
  <2> QED BY <2>1, Zenon DEF WakeInv, NoLostWriterWakeup
<1> QED BY <1>1, <1>2, <1>3, Zenon DEF Next, AnyStep

\* No wake-up of a writer is lost, under either strategy, with try_wrlock,
\* with failing waits and with a close that lingers in the store buffer:
\* whenever the last obstacle of a writer asleep on writer_condition goes, the
\* step that removes it broadcasts, or its thread is inside
\* wake_writer_after_reader_exit and will.
THEOREM SleepingWritersAreWoken == Spec => []NoLostWriterWakeup
<1>1. Init => QueueInv /\ WakeInv
    BY CountInit, WriterInit, TicketInit, Zenon DEF QueueInv, Init, WakeInv, NoLostWriterWakeup
<1>2. QueueInv /\ WakeInv /\ [Next]_vars => (QueueInv /\ WakeInv)'
    BY CountNext, WriterNext, TicketNext, WakeNext, Zenon DEF QueueInv
<1>3. WakeInv => NoLostWriterWakeup
    BY Zenon DEF WakeInv
<1> QED BY <1>1, <1>2, <1>3, PTL DEF Spec

-----------------------------------------------------------------------------
(* The queue of readers and the reader phases.                             *)

\* A queued reader has a ticket that was given out, an open phase admits only
\* such tickets, and who sleeps on reader_condition is in the wait loop of
\* rdlock.
ReaderQueueInv ==
    /\ \A t \in reader_condition : t \in Threads /\ pc[t] = "rd_wait"
    /\ \A t \in QueuedReaders : ticket[t] \in 0..(next_reader_ticket - 1)
    /\ reader_phase_open => WriterPriority /\ reader_phase_cutoff <= next_reader_ticket

\* What a step of thread t does to the queue of readers.
ReaderQueueStep(t) ==
    /\ reader_condition' \subseteq reader_condition \cup {t}
    /\ t \in reader_condition' => pc'[t] = "rd_wait"
    /\ pc'[t] = "rd_wait" => ticket'[t] \in 0..(next_reader_ticket' - 1)
    /\ next_reader_ticket <= next_reader_ticket' \/ QueuedReaders = {}
    /\ reader_phase_open' => WriterPriority /\ reader_phase_cutoff' <= next_reader_ticket'

LEMMA ReaderQueueLocal ==
    ASSUME TicketTypes, TicketTypes', ReaderQueueInv, NEW t \in Threads, LocalStep(t),
           TicketsLocal(t), ReaderQueueStep(t)
    PROVE  ReaderQueueInv'
<1>1. \A u \in reader_condition' : u \in Threads /\ pc'[u] = "rd_wait"
    BY Zenon DEF ReaderQueueInv, ReaderQueueStep, LocalStep
<1>2. \A u \in QueuedReaders' : ticket'[u] \in 0..(next_reader_ticket' - 1)
  <2> SUFFICES ASSUME NEW u \in QueuedReaders', u # t
               PROVE  ticket'[u] \in 0..(next_reader_ticket' - 1)
    BY Zenon DEF ReaderQueueStep, QueuedReaders
  <2>1. u \in QueuedReaders /\ ticket'[u] = ticket[u]
    BY Zenon DEF QueuedReaders, LocalStep, TicketsLocal
  <2> QED BY <2>1, RwLockAssumption DEF ReaderQueueInv, ReaderQueueStep, TicketTypes, Ticket
<1> QED BY <1>1, <1>2, Zenon DEF ReaderQueueInv, ReaderQueueStep

\* The step of t leaves the queue of readers and their phase alone.
KeepsReaders(t) ==
    /\ UNCHANGED <<next_reader_ticket, reader_phase_cutoff, reader_phase_open, active_readers>>
    /\ reader_condition' \subseteq reader_condition
    /\ pc[t] = "rd_wait" <=> pc'[t] = "rd_wait"
    /\ pc[t] = "rd_wait" => ticket'[t] = ticket[t]

LEMMA ReaderKeepers ==
    ASSUME ThreadTypes, NEW t \in Threads,
           \/ Light(t) \/ WrLock(t) \/ WrCheck(t) \/ WrTake(t) \/ WrFail(t)
           \/ TryWrLock(t) \/ TryWrTake(t)
    PROVE  KeepsReaders(t)
<1> USE DEF ThreadTypes, KeepsReaders, phaseVars, countVars, condVars
<1>1. CASE Light(t)
    BY <1>1, Zenon DEF Light
<1>2. CASE WrLock(t) \/ TryWrLock(t)
    BY <1>2, Zenon DEF WrLock, TryWrLock, WriterMayEnter
<1>3. CASE WrCheck(t)
    BY <1>3, Zenon DEF WrCheck
<1>4. CASE WrTake(t) \/ TryWrTake(t)
    BY <1>4, Zenon DEF WrTake, TryWrTake
<1>5. CASE WrFail(t)
    BY <1>5, Zenon DEF WrFail
<1> QED BY <1>1, <1>2, <1>3, <1>4, <1>5, ZenonT(30)

LEMMA TicketsStayLocal ==
    ASSUME ThreadTypes, TicketTypes, NEW t \in Threads, AnyStep(t)
    PROVE  TicketsLocal(t)
<1>1. CASE Light(t) \/ WrCheck(t) \/ TryWrLock(t) \/ TryWrTake(t) \/ WrUnlock(t) \/ RdUnlockSlow(t)
    BY <1>1, Zenon DEF Light, WrCheck, TryWrLock, TryWrTake, WrUnlock, RdUnlockSlow, TicketsLocal
<1>2. CASE WrLock(t) \/ WrTake(t) \/ WrFail(t)
    BY <1>2, Zenon DEF WrLock, WrTake, WrFail, TicketTypes, TicketsLocal
<1>3. CASE RdSlowAdmit(t) \/ RdSlowQueue(t) \/ RdResume(t)
    BY <1>3, SlowReaderTickets, Zenon
<1> QED BY <1>1, <1>2, <1>3, LightSteps, Zenon

LEMMA ReaderQueueThreadStep ==
    ASSUME CountInv, TicketTypes, TicketTypes', ReaderQueueInv, NEW t \in Threads, AnyStep(t)
    PROVE  ReaderQueueInv'
<1>a. ThreadTypes /\ CountersAgree /\ MaxTicket \in Nat
    BY RwLockAssumption, Zenon DEF CountInv
<1>b. LocalStep(t) /\ TicketsLocal(t)
    BY <1>a, StepIsLocal, TicketsStayLocal, Zenon
<1>c. SUFFICES ReaderQueueStep(t)
    BY <1>b, ReaderQueueLocal, Zenon
<1>d. /\ t \in reader_condition => pc[t] = "rd_wait"
      /\ pc[t] = "rd_wait" => ticket[t] \in 0..(next_reader_ticket - 1)
      /\ reader_phase_open => WriterPriority /\ reader_phase_cutoff <= next_reader_ticket
      /\ next_reader_ticket \in Nat /\ reader_phase_cutoff \in Nat
    BY <1>a, SMTT(30) DEF ReaderQueueInv, QueuedReaders, TicketTypes, Ticket
<1> USE <1>a, <1>d DEF ThreadTypes, ReaderQueueStep, SlowReaderUnchanged, condVars, phaseVars
<1>1. CASE KeepsReaders(t)
    BY <1>1 DEF KeepsReaders
<1>2. CASE WrUnlock(t)
    BY <1>2, SMTT(30) DEF WrUnlock, OpenReaderPhase
<1>3. CASE RdUnlockSlow(t)
    BY <1>3, SMTT(30) DEF RdUnlockSlow, LastReaderLeaves, HandOverToWriters, OpenReaderPhase
<1>e. ASSUME NEW w, AdmitReader(t, w) \/ ReaderFails(t, w), UNCHANGED reader_condition,
             UNCHANGED <<next_reader_ticket, reader_phase_cutoff>>,
             t \notin reader_condition
      PROVE  ReaderQueueStep(t)
  <2>1. pc'[t] = "idle" /\ (reader_phase_open' => reader_phase_open)
    BY <1>e, AdmitReaderEffect, ReaderFailsEffect, Zenon DEF MayOpen
  <2> QED BY <1>e, <2>1
<1>4. CASE RdSlowAdmit(t)
    BY <1>4, <1>e, Zenon DEF RdSlowAdmit
<1>5. CASE RdSlowQueue(t)
  <2>1. ReaderTicket \in Nat /\ (reader_phase_open => ReaderTicket = next_reader_ticket)
    BY <1>5, ZenonT(30) DEF RdSlowQueue, ReaderTicket, ReaderTicketsRestart
  <2>2. ReaderTicket = next_reader_ticket \/ QueuedReaders = {}
    BY <1>5, CountersTest, ZenonT(30) DEF RdSlowQueue, ReaderTicket, ReaderTicketsRestart
  <2>3. /\ next_reader_ticket' = ReaderTicket + 1 /\ UNCHANGED reader_phase_cutoff
        /\ reader_phase_open' => reader_phase_open
        /\ pc[t] = "rd_mutex"
    BY <1>5, Zenon DEF RdSlowQueue, ReaderFails
  <2>4. CASE pc' = [pc EXCEPT ![t] = "rd_wait"]
    <3>1. pc'[t] = "rd_wait"
      BY <2>4, Zenon
    <3>2. ticket' = [ticket EXCEPT ![t] = ReaderTicket] /\ reader_condition' = reader_condition \cup {t}
      BY <1>5, <3>1, ZenonT(30) DEF RdSlowQueue, ReaderFails, ReturnTo
    <3>3. ticket'[t] = ReaderTicket
      BY <3>2, Zenon DEF TicketTypes
    <3> QED BY <2>1, <2>2, <2>3, <3>1, <3>2, <3>3, SMTT(30)
  <2>5. CASE ReaderFails(t, waiting_readers) /\ UNCHANGED reader_condition
    BY <2>1, <2>2, <2>3, <2>5 DEF ReaderFails, ReturnTo
  <2> QED BY <1>5, <2>4, <2>5, Zenon DEF RdSlowQueue
<1>6. CASE RdResume(t)
  <2>1. CASE UNCHANGED <<threadVars, reader_phase_open>> /\ reader_condition' = reader_condition \cup {t}
    BY <1>6, <2>1 DEF RdResume, threadVars
  <2> QED BY <1>6, <1>e, <2>1, Zenon DEF RdResume
<1> QED BY <1>1, <1>2, <1>3, <1>4, <1>5, <1>6, LightSteps, ReaderKeepers, ZenonT(30)

LEMMA ReaderQueueNext == QueueInv /\ ReaderQueueInv /\ [Next]_vars => ReaderQueueInv'
<1> SUFFICES ASSUME QueueInv, ReaderQueueInv, [Next]_vars PROVE ReaderQueueInv'
    OBVIOUS
<1>1. ASSUME NEW t \in Threads, AnyStep(t) PROVE ReaderQueueInv'
    BY <1>1, TicketNext, ReaderQueueThreadStep, Zenon DEF QueueInv, TicketInv, Next, AnyStep
<1>2. CASE DrainStoreBuffer \/ Destroy \/ UNCHANGED vars
    BY <1>2 DEF DrainStoreBuffer, Destroy, vars, ReaderQueueInv, QueuedReaders, phaseVars,
                condVars, threadVars
<1>3. CASE Initialise
  <2>1. /\ reader_condition' = reader_condition /\ QueuedReaders' = {} /\ ~reader_phase_open'
        /\ reader_condition = {}
    BY <1>3, Zenon DEF Initialise, NoCallInProgress, ReaderQueueInv, QueuedReaders, condVars, threadVars
  <2> QED BY <2>1, Zenon DEF ReaderQueueInv
<1> QED BY <1>1, <1>2, <1>3, Zenon DEF Next, AnyStep

ReadersInv == QueueInv /\ ReaderQueueInv

LEMMA ReadersInit == Init => ReadersInv
BY CountInit, WriterInit, TicketInit, Zenon
   DEF ReadersInv, QueueInv, ReaderQueueInv, QueuedReaders, Init

LEMMA ReadersNext == ReadersInv /\ [Next]_vars => ReadersInv'
BY CountNext, WriterNext, TicketNext, ReaderQueueNext, Zenon DEF ReadersInv, QueueInv

\* The wait of a writer is never abandoned, and writers have priority.
WritersStay == WriterPriority /\ "CONDITION_WAIT" \notin Faults

NobodyFails == \A t \in Threads : pc[t] # "wr_fail"

\* In a step of thread t no sleeping reader loses its reason to wait.
StrandsNobody(t) ==
    \/ reader_condition' = {}
    \/ /\ reader_condition' \subseteq reader_condition \cup {t}
       /\ \A k \in Int : ReaderBlocked(k) => ReaderBlocked(k)'
       /\ t \in reader_condition' => \/ t \in reader_condition /\ ticket'[t] = ticket[t]
                                     \/ ReaderBlocked(ticket[t])'

LEMMA StrandsNobodyKeeps ==
    ASSUME TicketTypes, NoStrandedReader, reader_condition \subseteq Threads,
           NEW t \in Threads, TicketsLocal(t), StrandsNobody(t)
    PROVE  NoStrandedReader'
<1>1. /\ \A u \in Threads : ticket[u] \in Int
      /\ \A u \in reader_condition : ReaderBlocked(ticket[u])
    BY RwLockAssumption DEF TicketTypes, Ticket, NoTicket, NoStrandedReader
<1>2. SUFFICES ASSUME NEW u \in reader_condition' PROVE ReaderBlocked(ticket[u])'
    BY Zenon DEF NoStrandedReader
<1>3. CASE ReaderBlocked(ticket[t])' /\ u = t
    BY <1>3, Zenon
<1>4. CASE /\ u \in reader_condition /\ ticket'[u] = ticket[u]
           /\ \A k \in Int : ReaderBlocked(k) => ReaderBlocked(k)'
  <2>1. ReaderBlocked(ticket[u]) /\ ticket[u] \in Int
    BY <1>1, <1>4, Zenon
  <2> QED BY <1>4, <2>1, Zenon DEF ReaderBlocked
<1> QED BY <1>3, <1>4, Zenon DEF StrandsNobody, TicketsLocal

LEMMA StrandThreadStep ==
    ASSUME WritersStay, ReadersInv, ReadersInv', NobodyFails, NoStrandedReader,
           NEW t \in Threads, AnyStep(t)
    PROVE  NobodyFails' /\ NoStrandedReader'
<1>a. /\ ThreadTypes /\ TicketTypes /\ CountersAgree /\ CountersAgree'
      /\ reader_condition \subseteq Threads /\ NoThread \notin Threads
      /\ t \in reader_condition => pc[t] = "rd_wait"
      /\ next_reader_ticket \in Int /\ reader_phase_cutoff \in Int /\ ticket[t] \in Int
      /\ reader_phase_open => reader_phase_cutoff <= next_reader_ticket
  <2>1. /\ ThreadTypes /\ TicketTypes /\ CountersAgree /\ CountersAgree'
        /\ reader_condition \subseteq Threads /\ NoThread \notin Threads
        /\ t \in reader_condition => pc[t] = "rd_wait"
        /\ reader_phase_open => reader_phase_cutoff <= next_reader_ticket
    BY RwLockAssumption, Zenon DEF ReadersInv, QueueInv, CountInv, TicketInv, ReaderQueueInv
  <2>2. next_reader_ticket \in Int /\ reader_phase_cutoff \in Int /\ ticket[t] \in Int
    BY <2>1, RwLockAssumption DEF TicketTypes, Ticket, NoTicket
  <2> QED BY <2>1, <2>2, Zenon
<1>b. LocalStep(t) /\ TicketsLocal(t)
    BY <1>a, StepIsLocal, TicketsStayLocal, Zenon
<1>c. /\ waiting_readers = 0 => reader_condition = {}
      /\ waiting_writers \in Nat /\ active_readers \in Nat
      /\ active_readers # 0 => ~writer_active
    BY <1>a, CountersTest, Zenon DEF ReadersInv, QueueInv, ReaderQueueInv, QueuedReaders, SlowReaders,
                              WriterInv, WriterFirst, WriterIn
<1>d. waiting_readers' = 0 /\ t \notin reader_condition => reader_condition = {}
  <2>1. waiting_readers' = 0 => QueuedReaders' = {}
    BY <1>a, RwLockAssumption, FS_Subset, FS_EmptySet, Zenon DEF CountersAgree, QueuedReaders
  <2> QED BY <1>b, <2>1, Zenon DEF ReadersInv, ReaderQueueInv, QueuedReaders, LocalStep
<1>e. SUFFICES (pc'[t] = "wr_fail" => pc[t] = "wr_fail") /\ StrandsNobody(t)
    BY <1>a, <1>b, StrandsNobodyKeeps, ZenonT(30) DEF NobodyFails, LocalStep
<1> USE <1>a, <1>c DEF WritersStay, ThreadTypes, StrandsNobody, ReaderBlocked, writer_active,
    SlowReaderUnchanged, countVars, phaseVars, writerVars, condVars
<1>1. CASE Light(t)
    BY <1>1, Zenon DEF Light
<1>2. CASE WrLock(t)
    BY <1>2 DEF WrLock, WriterMayEnter
<1>3. CASE WrCheck(t)
    BY <1>3, Zenon DEF WrCheck
<1>4. CASE WrTake(t) \/ TryWrTake(t)
    BY <1>4, Zenon DEF WrTake, TryWrTake
<1>5. CASE WrFail(t)
    BY <1>5, ZenonT(30) DEF WrFail, NobodyFails
<1>6. CASE TryWrLock(t)
    BY <1>6, ZenonT(30) DEF TryWrLock, WriterMayEnter
<1>7. CASE WrUnlock(t)
    BY <1>7, ZenonT(30) DEF WrUnlock, OpenReaderPhase
<1>8. CASE RdUnlockSlow(t)
    BY <1>8, Zenon DEF RdUnlockSlow, LastReaderLeaves, HandOverToWriters, OpenReaderPhase
<1>9. ASSUME NEW w, AdmitReader(t, w), UNCHANGED reader_condition, SlowReaderUnchanged,
             t \notin reader_condition
      PROVE  pc'[t] = "idle" /\ StrandsNobody(t)
    BY <1>9, Zenon DEF AdmitReader, ReturnTo
<1>10. ASSUME NEW w, ReaderFails(t, w), UNCHANGED reader_condition, SlowReaderUnchanged,
              t \notin reader_condition
       PROVE  pc'[t] = "idle" /\ StrandsNobody(t)
    BY <1>10, <1>d, ZenonT(30) DEF ReaderFails, ReturnTo
<1>11. CASE RdSlowAdmit(t)
    BY <1>9, <1>10, <1>11, ZenonT(30) DEF RdSlowAdmit
<1>12. CASE RdSlowQueue(t)
  <2>1. reader_phase_open => ReaderTicket >= reader_phase_cutoff
    BY <1>12, Zenon DEF RdSlowQueue, ReaderTicket, ReaderTicketsRestart
  <2>2. ticket' = [ticket EXCEPT ![t] = ReaderTicket] /\ ticket'[t] = ReaderTicket
    BY <1>12, Zenon DEF RdSlowQueue, TicketTypes
  <2> QED BY <1>12, <2>1, <2>2 DEF RdSlowQueue, ReaderGated
<1>13. CASE RdResume(t)
  <2>1. CASE reader_condition' = reader_condition \cup {t}
    BY <1>9, <1>10, <1>13, <2>1, ZenonT(30) DEF RdResume, threadVars
  <2> QED BY <1>9, <1>10, <1>13, <2>1, Zenon DEF RdResume
<1> QED BY <1>1, <1>2, <1>3, <1>4, <1>5, <1>6, <1>7, <1>8, <1>11, <1>12, <1>13, LightSteps, ZenonT(30)

\* With writer priority, and as long as no writer's wait fails, a reader
\* asleep on reader_condition always has a reason to: a writer is active, or
\* waits, or the open phase began before the reader's ticket.  So the step
\* that lets it in is one that wakes it.  The claim needs both hypotheses:
\* wrlock's failure path wakes writers only, and with reader priority
\* wrunlock wakes the readers only when no writer waits.
THEOREM ReadersAreNotStranded ==
    ASSUME WritersStay
    PROVE  Spec => []NoStrandedReader
<1> DEFINE Inv == ReadersInv /\ NobodyFails /\ NoStrandedReader
<1>1. Init => Inv
    BY ReadersInit, Zenon DEF Init, NobodyFails, NoStrandedReader
<1>2. Inv /\ [Next]_vars => Inv'
  <2> SUFFICES ASSUME Inv, [Next]_vars PROVE NobodyFails' /\ NoStrandedReader'
    BY ReadersNext, Zenon
  <2>1. ASSUME NEW t \in Threads, AnyStep(t) PROVE NobodyFails' /\ NoStrandedReader'
    BY <2>1, ReadersNext, StrandThreadStep, ZenonT(30)
  <2>2. CASE DrainStoreBuffer \/ UNCHANGED vars
    BY <2>2 DEF DrainStoreBuffer, vars, NobodyFails, NoStrandedReader, ReaderBlocked,
       writer_active, countVars, phaseVars, writerVars, condVars, threadVars
  <2>3. CASE Destroy \/ Initialise
    <3>1. reader_condition' = {} /\ pc' = pc
      BY <2>3, Zenon DEF Destroy, Initialise, NoCallInProgress, ReadersInv, ReaderQueueInv, condVars,
                  threadVars
    <3> QED BY <3>1, Zenon DEF NobodyFails, NoStrandedReader
  <2> QED BY <2>1, <2>2, <2>3, ZenonT(30) DEF Next, AnyStep
<1> QED BY <1>1, <1>2, PTL DEF Spec

\* Whoever the open phase still has to admit, apart from its active readers.
InPhase(t) == pc[t] = "rd_wait" /\ ticket[t] < reader_phase_cutoff

\* In a step of thread t the open phase keeps a reader.
PhaseStep(t) ==
    reader_phase_open' =>
        \/ active_readers' # 0
        \/ \E u \in Threads : InPhase(u)'
        \/ /\ reader_phase_open
           /\ UNCHANGED <<active_readers, reader_phase_cutoff>>
           /\ InPhase(t) => InPhase(t)'

LEMMA PhaseLocal ==
    ASSUME ReaderPhaseLive, NEW t \in Threads, LocalStep(t), TicketsLocal(t), PhaseStep(t)
    PROVE  ReaderPhaseLive'
BY Zenon DEF ReaderPhaseLive, LocalStep, TicketsLocal, PhaseStep, InPhase

LEMMA PhaseThreadStep ==
    ASSUME "READER_BOOKKEEPING" \notin Faults, ReadersInv, ReaderPhaseLive,
           NEW t \in Threads, AnyStep(t)
    PROVE  ReaderPhaseLive'
<1>a. /\ ThreadTypes /\ TicketTypes /\ CountersAgree
      /\ reader_phase_open => ~writer_active
      /\ active_readers \in Nat
      /\ next_reader_ticket \in Int /\ reader_phase_cutoff \in Int /\ ticket[t] \in Int
    BY RwLockAssumption, CountersTest DEF ReadersInv, QueueInv, CountInv, WriterInv, WriterFirst,
       WriterIn, TicketInv, TicketTypes, Ticket, NoTicket
<1>b. LocalStep(t) /\ TicketsLocal(t)
    BY <1>a, StepIsLocal, TicketsStayLocal, Zenon
<1>c. SUFFICES PhaseStep(t)
    BY <1>b, PhaseLocal, Zenon
<1>d. ASSUME waiting_readers # 0, OpenReaderPhase, pc[t] # "rd_wait"
      PROVE  \E u \in Threads : InPhase(u)'
  <2>1. PICK u \in Threads : u # t /\ pc[u] = "rd_wait"
    BY <1>a, <1>d, CountersTest, ZenonT(30) DEF QueuedReaders
  <2>2. ticket[u] < next_reader_ticket
    BY <1>a, <2>1 DEF ReadersInv, ReaderQueueInv, QueuedReaders
  <2> QED BY <1>b, <1>d, <2>1, <2>2, ZenonT(30) DEF OpenReaderPhase, InPhase, LocalStep, TicketsLocal
<1> USE <1>a DEF PhaseStep, InPhase, SlowReaderUnchanged
<1>1. CASE KeepsReaders(t)
    BY <1>1, Zenon DEF KeepsReaders
<1>2. CASE WrUnlock(t)
    BY <1>2, <1>d, Zenon DEF WrUnlock, countVars
<1>3. CASE RdUnlockSlow(t)
  <2>1. CASE active_readers = 1
    BY <1>3, <1>d, <2>1, ZenonT(30) DEF RdUnlockSlow, LastReaderLeaves, HandOverToWriters
  <2>2. CASE active_readers # 1
    BY <1>3, <2>2, SMTT(30) DEF RdUnlockSlow
  <2> QED BY <2>1, <2>2, Zenon
<1>4. ASSUME NEW w, AdmitReader(t, w) PROVE PhaseStep(t)
    BY <1>4 DEF AdmitReader
<1>5. ASSUME NEW w, ReaderFails(t, w), UNCHANGED reader_phase_cutoff, ~InPhase(t)
      PROVE  PhaseStep(t)
    BY <1>5, Zenon DEF ReaderFails
<1>6. CASE RdSlowAdmit(t)
    BY <1>4, <1>6, Zenon DEF RdSlowAdmit
<1>7. CASE RdSlowQueue(t)
    BY <1>5, <1>7, Zenon DEF RdSlowQueue
<1>8. CASE RdResume(t)
  <2>1. CASE ReaderFails(t, waiting_readers - 1) /\ ReaderBlocked(ticket[t])
    <3>1. reader_phase_open => ~InPhase(t)
      <4>1. ticket[t] \in 0..(next_reader_ticket - 1)
        BY <1>8, Zenon DEF RdResume, ReadersInv, ReaderQueueInv, QueuedReaders
      <4> QED BY <2>1, <4>1 DEF ReaderBlocked, NoTicket
    <3> QED BY <1>5, <1>8, <2>1, <3>1, ZenonT(30) DEF RdResume, ReaderFails
  <2>2. CASE UNCHANGED <<threadVars, active_readers, reader_phase_open>>
    BY <1>8, <2>2, Zenon DEF RdResume, threadVars
  <2> QED BY <1>4, <1>8, <2>1, <2>2, Zenon DEF RdResume
<1> QED BY <1>1, <1>2, <1>3, <1>6, <1>7, <1>8, LightSteps, ReaderKeepers, ZenonT(30)

\* A reader phase that wrunlock or rdunlock opened is never left open with
\* nobody to close it, as long as no admitted reader is lost for want of a
\* thread-local slot: an active reader is in it, or a queued one that it will
\* admit; waits that fail do not disturb this.
THEOREM ReaderPhasesAreLive ==
    ASSUME "READER_BOOKKEEPING" \notin Faults
    PROVE  Spec => []ReaderPhaseLive
<1> DEFINE Inv == ReadersInv /\ ReaderPhaseLive
<1>1. Init => Inv
    BY ReadersInit, Zenon DEF Init, ReaderPhaseLive
<1>2. Inv /\ [Next]_vars => Inv'
  <2> SUFFICES ASSUME Inv, [Next]_vars PROVE ReaderPhaseLive'
    BY ReadersNext, Zenon
  <2>1. ASSUME NEW t \in Threads, AnyStep(t) PROVE ReaderPhaseLive'
    BY <2>1, PhaseThreadStep, ZenonT(30)
  <2>2. CASE DrainStoreBuffer \/ Destroy \/ UNCHANGED vars
    BY <2>2, Zenon DEF DrainStoreBuffer, Destroy, vars, ReaderPhaseLive, countVars, phaseVars, threadVars
  <2>3. CASE Initialise
    BY <2>3, Zenon DEF Initialise, ReaderPhaseLive
  <2> QED BY <2>1, <2>2, <2>3, ZenonT(30) DEF Next, AnyStep
<1> QED BY <1>1, <1>2, PTL DEF Spec

-----------------------------------------------------------------------------
(* The fast path and the writers, where the close is ordered before the    *)
(* test: writer priority, and a store that the next load cannot overtake.  *)

OrderedClose == WriterPriority /\ ~StoreBuffering

\* A writer that waits or holds the lock has closed the fast path.
ClosedForWriters ==
    /\ writer_active \/ waiting_writers # 0 => ~reader_fast_path_open
    /\ ~close_pending

LEMMA ClosedThreadStep ==
    ASSUME OrderedClose, CountInv, WriterInv, ClosedForWriters, NEW t \in Threads, AnyStep(t)
    PROVE  ClosedForWriters'
<1>a. ThreadTypes /\ CountersAgree
    BY Zenon DEF CountInv
<1>c. active_readers \in Nat /\ waiting_writers \in Nat
    BY <1>a, CountersTest, Zenon
<1>d. active_readers # 0 => ~writer_active
    BY <1>a, CountersTest, Zenon DEF SlowReaders, WriterInv, WriterFirst, WriterIn
<1>e. SUFFICES ASSUME ~UNCHANGED <<reader_fast_path_open, close_pending, waiting_writers,
                                   active_writer_thread>>
               PROVE  ClosedForWriters'
    BY DEF ClosedForWriters, writer_active
<1> USE <1>a, <1>c, <1>e DEF OrderedClose, ClosedForWriters, writer_active, fastVars,
    writerVars, countVars
<1>8. CASE WakeClose(t)
    BY <1>8, Zenon DEF WakeClose
<1>10. CASE WrLock(t)
    BY <1>10, Zenon DEF WrLock
<1>11. CASE WrCheck(t)
  <2>1. reader_fast_path_open' => reader_fast_path_open
    BY <1>11, Zenon DEF WrCheck
  <2>2. ~close_pending' /\ UNCHANGED <<active_writer_thread, waiting_writers>>
    BY <1>11, Zenon DEF WrCheck
  <2> QED BY <2>1, <2>2, Zenon
<1>13. CASE WrTake(t)
    BY <1>13, Zenon DEF WrTake
<1>14. CASE WrFail(t)
    BY <1>14, Zenon DEF WrFail, RefreshedFastPath
<1>16. CASE TryWrTake(t)
    BY <1>16, Zenon DEF TryWrTake
<1>20. CASE RdUnlockSlow(t)
  <2>1. reader_fast_path_open' =>
            reader_fast_path_open \/ (active_readers = 1 /\ waiting_writers = 0)
    BY <1>20, Zenon DEF RdUnlockSlow, LastReaderLeaves, HandOverToWriters, OpenReaderPhase
  <2>2. UNCHANGED <<close_pending, waiting_writers, active_writer_thread>>
    BY <1>20, Zenon DEF RdUnlockSlow
  <2> QED BY <1>d, <2>1, <2>2
<1>21. CASE WrUnlock(t)
  <2>1. /\ reader_fast_path_open' => waiting_writers = 0
        /\ active_writer_thread' = NoThread /\ UNCHANGED <<close_pending, waiting_writers>>
    BY <1>21, Zenon DEF WrUnlock, OpenReaderPhase
  <2> QED BY <2>1, Zenon
<1>23. CASE RdSlowAdmit(t) \/ RdSlowQueue(t) \/ RdResume(t)
  <2>1. MayOpen /\ UNCHANGED <<close_pending, waiting_writers, active_writer_thread>>
    BY <1>23, SlowReaderSteps, Zenon DEF Admitted, Refused, Waits
  <2> QED BY <2>1, Zenon DEF MayOpen
<1> QED BY <1>8, <1>10, <1>11, <1>13, <1>14, <1>16, <1>20, <1>21, <1>23, ZenonT(30)
    DEF AnyStep, Call, ReaderStep, WriterStep, Unlock, RdLock, TryRdLock, RdLockCall,
        FastIncrement, FastRecheck, FastUndo, WakeCheck, WakeLock, RdSlowReject, WrResume,
        TryWrLock, RdUnlockCall, WrUnlockCall, UnlockCall, RdUnlockFast, SpuriousWakeup

LEMMA ClosedNext ==
    ASSUME OrderedClose, CountInv, WriterInv, ClosedForWriters, [Next]_vars
    PROVE  ClosedForWriters'
<1>1. ASSUME NEW t \in Threads, AnyStep(t) PROVE ClosedForWriters'
    BY <1>1, ClosedThreadStep, Zenon
<1> QED BY <1>1 DEF CountInv, DestroyedIsIdle, ClosedForWriters, writer_active, Next, AnyStep,
        DrainStoreBuffer, Destroy, Initialise, vars, fastVars, countVars, writerVars

ClosedInv == ReadersInv /\ ClosedForWriters

LEMMA ClosedIsInvariant ==
    ASSUME OrderedClose
    PROVE  Spec => []ClosedInv
<1>1. Init => ClosedInv
    BY ReadersInit, Zenon DEF Init, ClosedInv, ClosedForWriters, writer_active
<1>2. ClosedInv /\ [Next]_vars => ClosedInv'
    BY ReadersNext, ClosedNext, Zenon DEF ClosedInv, ReadersInv, QueueInv
<1> QED BY <1>1, <1>2, PTL DEF Spec

LEMMA AdmissionStep ==
    ASSUME OrderedClose, ClosedInv, [Next]_vars, NEW t \in Threads,
           waiting_writers # 0, holds[t] = "none", holds'[t] = "read"
    PROVE  pc[t] = "rd_wait" /\ reader_phase_open /\ ticket[t] < reader_phase_cutoff
<1>1. /\ ThreadTypes /\ CountersAgree
      /\ ticket[t] \in Int /\ reader_phase_cutoff \in Int
      /\ ~reader_fast_path_open
    BY RwLockAssumption DEF ClosedInv, ReadersInv, QueueInv, CountInv, TicketInv, TicketTypes,
                            Ticket, NoTicket, ClosedForWriters
<1>2. holds' # holds
    OBVIOUS
<1>3. PICK u \in Threads : AnyStep(u)
    BY <1>2, Zenon DEF Next, AnyStep, DrainStoreBuffer, Destroy, Initialise, vars, threadVars
<1>4. u = t
    BY <1>1, <1>3, StepIsLocal, Zenon DEF LocalStep
<1>5. ~FastRecheck(t)
    BY <1>1, <1>2, Zenon DEF FastRecheck
<1>6. RdSlowAdmit(t) \/ RdResume(t)
    BY <1>1, <1>2, <1>3, <1>4, <1>5, ZenonT(30) DEF AnyStep, Call, ReaderStep, WriterStep, Unlock, RdLock,
       TryRdLock, RdLockCall, FastIncrement, FastUndo, WakeCheck, WakeLock, WakeClose,
       RdSlowReject, RdSlowQueue, ReaderFails, WrLock, WrCheck, WrResume, WrTake, WrFail,
       TryWrLock, TryWrTake, RdUnlockCall, WrUnlockCall, UnlockCall, RdUnlockFast,
       RdUnlockSlow, WrUnlock, SpuriousWakeup, threadVars, ThreadTypes
<1>7. ~RdSlowAdmit(t)
    BY Zenon DEF RdSlowAdmit, ReaderGated, OrderedClose
<1>8. RdResume(t) /\ ~ReaderBlocked(ticket[t])
    BY <1>2, <1>6, <1>7, Zenon DEF RdResume, ReaderFails, threadVars
<1>9. pc[t] = "rd_wait"
    BY <1>8, Zenon DEF RdResume
<1>10. reader_phase_open /\ ~(ticket[t] >= reader_phase_cutoff)
    BY <1>8, Zenon DEF ReaderBlocked, OrderedClose
<1>11. ticket[t] < reader_phase_cutoff
    BY <1>1, <1>10
<1> QED BY <1>9, <1>10, <1>11, SMTT(30)

\* With writer priority and an ordered close, no reader overtakes a waiting
\* writer, neither on the fast path nor under the mutex, unless the reader was
\* queued when the open reader phase began; try_wrlock, failing waits and
\* failing bookkeeping change nothing in that.
THEOREM ReadersRespectWaitingWriters ==
    ASSUME OrderedClose
    PROVE  Spec => OnlyPhaseReadersPass
<1> DEFINE Pass ==
        \A t \in Threads :
            waiting_writers # 0 /\ holds[t] = "none" /\ holds'[t] = "read" =>
                /\ pc[t] = "rd_wait" /\ reader_phase_open
                /\ ticket[t] < reader_phase_cutoff
<1>1. ClosedInv /\ [Next]_vars => [Pass]_vars
    BY AdmissionStep, Zenon
<1> QED BY <1>1, ClosedIsInvariant, PTL DEF Spec, OnlyPhaseReadersPass

-----------------------------------------------------------------------------
(* Mutual exclusion, for the use of the lock in which the fast path is     *)
(* closed and then tested: writer priority, writers that call wrlock, and  *)
(* a close that the next load cannot overtake.                             *)

ClosesBeforeTest == OrderedClose /\ \A t \in Threads : "try_wrlock" \notin Calls[t]

\* A thread that reads, or that nothing stops from reading.  A fast reader at
\* fast_cas or fast_recheck will still see a closed fast path and back out.
Reads(t) ==
    tls[t] = "slow" \/ (tls[t] = "fast" /\ pc[t] \notin {"fast_cas", "fast_recheck"})

WriterAlone ==
    /\ WriterIn => \A t \in Threads : ~Reads(t)
    /\ \A t \in Threads : pc[t] # "try_take"

\* A step of thread t lets a writer in only with no reader about, and a reader
\* only with no writer about.
ExclusiveStep(t) ==
    /\ \/ active_writer_thread' \in {active_writer_thread, NoThread}
       \/ pc[t] = "wr_take"
    /\ pc'[t] = "wr_take" => pc[t] = "wr_take" \/ \A u \in Threads : ~Reads(u)
    /\ Reads(t)' => \/ Reads(t)
                    \/ ~WriterIn /\ pc'[t] # "wr_take" /\ UNCHANGED active_writer_thread
    /\ pc'[t] # "try_take"

LEMMA ExclusionLocal ==
    ASSUME WriterAlone, NEW t \in Threads, LocalStep(t), ExclusiveStep(t)
    PROVE  WriterAlone'
<1>1. \A u \in Threads : u # t => (Reads(u)' <=> Reads(u))
    BY Zenon DEF LocalStep, Reads
<1>2. WriterIn' => WriterIn \/ \A u \in Threads : ~Reads(u)
    BY Zenon DEF WriterAlone, LocalStep, ExclusiveStep, WriterIn, TakingPc, writer_active
<1>3. ASSUME WriterIn' PROVE \A u \in Threads : ~Reads(u)'
  <2>1. \A u \in Threads : ~Reads(u)
    BY <1>2, <1>3, Zenon DEF WriterAlone
  <2>2. ~Reads(t)'
    BY <1>3, <2>1, Zenon DEF WriterAlone, LocalStep, ExclusiveStep, WriterIn, TakingPc, writer_active
  <2> QED BY <1>1, <2>1, <2>2, Zenon
<1> QED BY <1>3, Zenon DEF WriterAlone, LocalStep, ExclusiveStep

LEMMA ExclusionThreadStep ==
    ASSUME ClosesBeforeTest, ClosedInv, WriterAlone, NEW t \in Threads, AnyStep(t)
    PROVE  WriterAlone'
<1>a. ThreadTypes /\ RecordOf(t) /\ CountersAgree /\ MutexOwner /\ pc[t] # "try_take"
    BY Zenon DEF ClosedInv, ReadersInv, QueueInv, CountInv, WriterInv, WriterAlone
<1>b. LocalStep(t)
    BY <1>a, StepIsLocal, Zenon
<1>c. /\ reader_fast_path_open => ~WriterIn
      /\ mutex = NoThread /\ ~writer_active => ~WriterIn
      /\ ~HasActiveReaders => \A u \in Threads : ~Reads(u)
  <2>1. (\E u \in Threads : pc[u] \in TakingPc) => waiting_writers # 0
    BY <1>a, CountersTest, Zenon DEF QueuedWriters, TakingPc, WriterAlone
  <2>2. ~HasActiveReaders => \A u \in Threads : ~Reads(u)
    BY <1>a, CountersTest, Zenon DEF HasActiveReaders, SlowReaders, FastReaders, Reads
  <2>3. reader_fast_path_open => ~WriterIn
    BY <2>1, Zenon DEF ClosedInv, ClosedForWriters, WriterIn
  <2>4. mutex = NoThread /\ ~writer_active => ~WriterIn
    BY <1>a, RwLockAssumption, Zenon DEF MutexOwner, CriticalPc, TakingPc, WriterIn
  <2> QED BY <2>2, <2>3, <2>4, Zenon
<1>d. SUFFICES ExclusiveStep(t)
    BY <1>b, ExclusionLocal, Zenon
<1> USE <1>a DEF ThreadTypes, RecordOf, ExclusiveStep, Reads, writerVars, threadVars
<1>1. CASE RdLock(t) \/ TryRdLock(t)
    BY <1>1, ZenonT(30) DEF RdLock, TryRdLock, RdLockCall
<1>2. CASE FastIncrement(t) \/ FastUndo(t)
    BY <1>2, Zenon DEF FastIncrement, FastUndo
<1>3. CASE FastRecheck(t)
    BY <1>c, <1>3, ZenonT(30) DEF FastRecheck, ReturnTo
<1>4. CASE WakeCheck(t)
    BY <1>4, Zenon DEF WakeCheck, LeaveWake
<1>5. CASE WakeLock(t)
    BY <1>5, Zenon DEF WakeLock, LeaveWake
<1>6. CASE WakeClose(t)
    BY <1>6, Zenon DEF WakeClose, LeaveWake
<1>7. CASE RdSlowReject(t)
    BY <1>7, Zenon DEF RdSlowReject, ReturnTo
<1>8. CASE WrLock(t) \/ WrResume(t)
    BY <1>8, Zenon DEF WrLock, WrResume, WriterMayEnter
<1>9. CASE WrCheck(t)
    BY <1>c, <1>9, Zenon DEF WrCheck, WriterBlocked
<1>10. CASE WrTake(t)
    BY <1>10, Zenon DEF WrTake
<1>11. CASE WrFail(t)
    BY <1>11, Zenon DEF WrFail
<1>12. CASE TryWrLock(t) \/ TryWrTake(t)
    BY <1>12, Zenon DEF TryWrLock, TryWrTake, ClosesBeforeTest
<1>13. CASE RdUnlockCall(t) \/ WrUnlockCall(t)
    BY <1>13, Zenon DEF RdUnlockCall, WrUnlockCall, UnlockCall
<1>14. CASE RdUnlockFast(t)
    BY <1>14, Zenon DEF RdUnlockFast
<1>15. CASE RdUnlockSlow(t)
    BY <1>15, Zenon DEF RdUnlockSlow
<1>16. CASE WrUnlock(t)
    BY <1>16, Zenon DEF WrUnlock
<1>17. CASE SpuriousWakeup(t)
    BY <1>17, Zenon DEF SpuriousWakeup
<1>18. CASE RdSlowAdmit(t) \/ RdSlowQueue(t) \/ RdResume(t)
  <2>1. /\ Admitted(t) \/ Refused(t) \/ Waits(t)
        /\ pc[t] \in {"rd_mutex", "rd_wait"} /\ mutex = NoThread
        /\ UNCHANGED active_writer_thread
    BY <1>18, SlowReaderSteps, Zenon
  <2>2. CASE Admitted(t)
    BY <1>c, <2>1, <2>2, Zenon DEF Admitted
  <2>3. CASE Refused(t)
    BY <2>1, <2>3, Zenon DEF Refused
  <2>4. CASE Waits(t)
    BY <2>1, <2>4, Zenon DEF Waits
  <2> QED BY <2>1, <2>2, <2>3, <2>4, Zenon
<1> QED BY <1>1, <1>2, <1>3, <1>4, <1>5, <1>6, <1>7, <1>8, <1>9, <1>10, <1>11, <1>12,
       <1>13, <1>14, <1>15, <1>16, <1>17, <1>18, ZenonT(30)
    DEF AnyStep, Call, ReaderStep, WriterStep, Unlock

LEMMA ExclusionNext ==
    ASSUME ClosesBeforeTest, ClosedInv, WriterAlone, [Next]_vars
    PROVE  WriterAlone'
<1>1. ASSUME NEW t \in Threads, AnyStep(t) PROVE WriterAlone'
    BY <1>1, ExclusionThreadStep, Zenon
<1>2. CASE DrainStoreBuffer \/ Destroy \/ Initialise \/ UNCHANGED vars
  <2>1. /\ UNCHANGED <<pc, tls>>
        /\ active_writer_thread' \in {active_writer_thread, NoThread}
    BY <1>2, Zenon DEF DrainStoreBuffer, Destroy, Initialise, vars, writerVars, threadVars
  <2> QED BY <2>1, Zenon DEF WriterAlone, WriterIn, TakingPc, Reads, writer_active
<1> QED BY <1>1, <1>2, Zenon DEF Next, AnyStep

\* No reader overlaps a writer and no two writers overlap, for any number of
\* threads, with faults, spurious wake-ups and every interleaving of the fast
\* path: provided the writers use wrlock with writer priority, and the store
\* that closes the fast path is ordered before the load of the reader count.
THEOREM WritersAreAlone ==
    ASSUME ClosesBeforeTest
    PROVE  Spec => []MutualExclusion
<1>1. Init => WriterAlone
    BY Zenon DEF Init, WriterAlone, WriterIn, TakingPc, Reads, writer_active
<1>2. ClosedInv /\ WriterAlone /\ [Next]_vars => WriterAlone'
    BY ExclusionNext, Zenon
<1>3. ClosedInv /\ WriterAlone => MutualExclusion
    BY RwLockAssumption DEF ClosedInv, ReadersInv, QueueInv, CountInv, ThreadTypes, RecordOf,
       WriterInv, WriterRecorded, WriterAlone, WriterIn, Reads, writer_active, MutualExclusion
<1>4. Spec => []ClosedInv
    BY ClosedIsInvariant, Zenon DEF ClosesBeforeTest
<1> QED BY <1>1, <1>2, <1>3, <1>4, PTL DEF Spec

=============================================================================
