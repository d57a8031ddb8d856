------------------------ MODULE LockTrackingProofs --------------------------
(***************************************************************************)
(* What the lock tracker records about a thread is what the thread holds,  *)
(* for any number of threads and mutexes.                                  *)
(***************************************************************************)
EXTENDS LockTracking, FiniteSetTheorems, NaturalsInduction, WellFoundedInduction, TLAPS

\* a call in progress names a mutex, and holds it exactly from the native
\* acquisition to the native release
CallInv(t) ==
    /\ pc[t] \in {"idle", "exited"} => want[t] = NoMutex
    /\ pc[t] \notin {"idle", "exited"} => want[t] \in Mutexes
    /\ pc[t] \in {"notify_acquired", "rollback"} => native[want[t]] = t
    /\ pc[t] \in {"notify_wait", "native_lock", "notify_released"} => native[want[t]] # t

\* the thread's list is what it holds, but for the mutex of the call in progress
ListInv(t) ==
    /\ pc[t] \in {"notify_acquired", "rollback"} => owned[t] = Held(t) \ {want[t]}
    /\ pc[t] = "notify_released" => owned[t] \ {want[t]} = Held(t)
    /\ pc[t] \notin {"notify_acquired", "rollback", "notify_released"} => owned[t] = Held(t)

OwnedInv == TypeOK /\ \A t \in Threads : CallInv(t) /\ ListInv(t)

\* the part of the type invariant the registry and the thread lists need
TypeOfRegistry ==
    /\ info_owned \in [Threads -> SUBSET Mutexes]
    /\ info_waiting \in [Threads -> MaybeMutex]
    /\ owners \in [Mutexes -> MaybeThread]

\* Init gives every variable its type and every thread an empty, exact list
LEMMA OwnedInit == Init => OwnedInv
<1> SUFFICES ASSUME Init PROVE OwnedInv
    OBVIOUS
<1>1. TypeOK
    BY TrackingConstants DEF Init, TypeOK, MaybeThread, MaybeMutex
<1>2. \A t \in Threads : CallInv(t) /\ ListInv(t)
    BY TrackingConstants DEF Init, CallInv, ListInv, Held
<1> QED
    BY <1>1, <1>2 DEF OwnedInv

\* every step keeps every variable's type
LEMMA TypeStep ==
    ASSUME OwnedInv, NEW t \in Threads, Step(t)
    PROVE  TypeOK'
<1> USE TrackingConstants DEF MaybeThread, MaybeMutex
<1>0. TypeOK /\ CallInv(t)
    BY DEF OwnedInv
<1>1. ASSUME NEW m \in Mutexes, LockFree(t, m) PROVE TypeOK'
    BY <1>0, <1>1 DEF TypeOK, LockFree, TakeNative, Goto, local, registry, lifetimes
<1>2. ASSUME NEW m \in Mutexes, LockTaken(t, m) PROVE TypeOK'
    BY <1>0, <1>2 DEF TypeOK, LockTaken, Goto, local, registry, lifetimes, native_vars
<1>3. ASSUME NEW m \in Mutexes, LockAgain(t, m) PROVE TypeOK'
    BY <1>0, <1>3 DEF TypeOK, LockAgain, local, registry, lifetimes
<1>4. ASSUME NEW m \in Mutexes, UnlockInner(t, m) PROVE TypeOK'
    BY <1>0, <1>4 DEF TypeOK, UnlockInner, local, registry, lifetimes
<1>5. ASSUME NEW m \in Mutexes, Unlock(t, m) PROVE TypeOK'
    BY <1>0, <1>5 DEF TypeOK, Unlock, ReleaseNative, Goto, local, registry, lifetimes
<1>6. ASSUME PublishWait(t), WaitAllowed(t) \/ WaitRefused(t) \/ DetectFails(t) PROVE TypeOK'
  <2>1. TypeOfRegistry'
      BY <1>0, <1>6 DEF TypeOK, TypeOfRegistry, PublishWait, PublishOwned, SetOwners
  <2>2. /\ owned' \in [Threads -> SUBSET Mutexes]
        /\ waiting' \in [Threads -> MaybeMutex]
        /\ published' \in [Threads -> BOOLEAN]
        /\ required' \in [Threads -> BOOLEAN]
      BY <1>0, <1>6 DEF TypeOK, PublishWait
  <2>3. UNCHANGED <<native, depth, joinable, restarts>>
      BY <1>6, Zenon DEF WaitAllowed, WaitRefused, DetectFails, native_vars, lifetimes
  <2>4. /\ pc' \in [Threads -> {"idle", "notify_wait", "native_lock", "notify_acquired",
                               "rollback", "notify_released", "exited"}]
        /\ want' \in [Threads -> MaybeMutex]
      BY <1>0, <1>6 DEF TypeOK, WaitAllowed, WaitRefused, DetectFails, Goto, Return
  <2> QED
      BY <1>0, <2>1, <2>2, <2>3, <2>4, Zenon DEF TypeOK, TypeOfRegistry
<1>7. ASSUME PublishFails(t) PROVE TypeOK'
  <2>1. TypeOfRegistry'
      BY <1>0, <1>7 DEF TypeOK, TypeOfRegistry, PublishFails, PublishOwned, SetOwners, registry
  <2> QED
      BY <1>0, <1>7, <2>1, Zenon
      DEF TypeOK, TypeOfRegistry, PublishFails, Goto, Return, local, native_vars, lifetimes
<1>8. ASSUME NativeLock(t) PROVE TypeOK'
    BY <1>0, <1>8 DEF TypeOK, CallInv, NativeLock, TakeNative, Goto, local, registry, lifetimes
<1>9. ASSUME NativeLockFails(t) PROVE TypeOK'
    BY <1>0, <1>9 DEF TypeOK, NativeLockFails, Goto, local, registry, lifetimes, native_vars
<1>10. ASSUME NotifyAcquired(t) PROVE TypeOK'
  <2>0. want[t] \in Mutexes
      BY <1>0, <1>10 DEF CallInv, NotifyAcquired
  <2>1. TypeOfRegistry'
      BY <1>0, <1>10, <2>0
      DEF TypeOK, TypeOfRegistry, NotifyAcquired, IndexAcquired, RecordAcquired, SetOwners, registry
  <2> QED
      BY <1>0, <1>10, <2>0, <2>1, ZenonT(30)
      DEF TypeOK, TypeOfRegistry, NotifyAcquired, Goto, Return, native_vars, lifetimes
<1>11. ASSUME NotifyAcquiredFails(t) PROVE TypeOK'
  <2>0. want[t] \in Mutexes
      BY <1>0, <1>11 DEF CallInv, NotifyAcquiredFails
  <2>1. TypeOfRegistry'
      BY <1>0, <1>11, <2>0
      DEF TypeOK, TypeOfRegistry, NotifyAcquiredFails, IndexAcquired, RecordAcquired, SetOwners, registry
  <2> QED
      BY <1>0, <1>11, <2>1, Zenon
      DEF TypeOK, TypeOfRegistry, NotifyAcquiredFails, Goto, native_vars, lifetimes
<1>12. ASSUME Rollback(t) PROVE TypeOK'
    BY <1>0, <1>12 DEF TypeOK, CallInv, Rollback, ReleaseNative, Goto, local, registry, lifetimes
<1>13. ASSUME NotifyReleased(t) PROVE TypeOK'
  <2>1. TypeOfRegistry'
      BY <1>0, <1>13
      DEF TypeOK, TypeOfRegistry, NotifyReleased, Withdraw, ClearMutexOwner, registry
  <2>2. published' \in [Threads -> BOOLEAN]
      BY <1>0, <1>13, Zenon DEF TypeOK, NotifyReleased
  <2> QED
      BY <1>0, <1>13, <2>1, <2>2, Zenon
      DEF TypeOK, TypeOfRegistry, NotifyReleased, Withdraw, ForgetOwned, Goto, Return, native_vars, lifetimes
<1>14. ASSUME ThreadExit(t) PROVE TypeOK'
  <2>1. TypeOfRegistry'
      BY <1>0, <1>14 DEF TypeOK, TypeOfRegistry, ThreadExit, EraseThread
  <2>2. /\ published' \in [Threads -> BOOLEAN]
        /\ required' \in [Threads -> BOOLEAN]
      BY <1>0, <1>14 DEF TypeOK, ThreadExit
  <2>3. /\ joinable' \in SUBSET Threads
        /\ restarts' \in 0..MaxRestarts
      BY <1>0, <1>14 DEF TypeOK, ThreadExit
  <2> QED
      BY <1>0, <1>14, <2>1, <2>2, <2>3 DEF TypeOK, TypeOfRegistry, ThreadExit, Goto, native_vars
<1>15. ASSUME ThreadEnter(t) PROVE TypeOK'
    BY <1>0, <1>15 DEF TypeOK, ThreadEnter, Goto, native_vars, registry, lifetimes
<1>16. ASSUME JoinReturns(t) PROVE TypeOK'
    BY <1>0, <1>16 DEF TypeOK, JoinReturns, EraseThread, native_vars, local
<1>17. WaitAllowed(t) \/ WaitRefused(t) \/ DetectFails(t) => PublishWait(t)
    BY DEF WaitAllowed, WaitRefused, DetectFails
<1> QED
    BY <1>1, <1>2, <1>3, <1>4, <1>5, <1>6, <1>7, <1>8, <1>9, <1>10, <1>11, <1>12, <1>13,
       <1>14, <1>15, <1>16, <1>17
    DEF Step, Calls

\* a step of t touches only t's call and t's list, and among the mutexes only
\* one that t takes from nobody or gives up
OnlyOwn(t) ==
    \A u \in Threads \ {t} :
        /\ pc'[u] = pc[u]
        /\ want'[u] = want[u]
        /\ owned'[u] = owned[u]
        /\ \A m \in Mutexes : native'[m] = u <=> native[m] = u

\* every step of a thread is one of that kind
LEMMA StepIsOwn ==
    ASSUME OwnedInv, NEW t \in Threads, Step(t)
    PROVE  OnlyOwn(t)
<1> USE TrackingConstants
<1>0. TypeOK /\ CallInv(t)
    BY DEF OwnedInv
<1>1. \A u \in Threads \ {t} : pc'[u] = pc[u] /\ want'[u] = want[u]
  <2>1. CASE Calls(t)
      BY <1>0, <2>1 DEF TypeOK, Calls, LockFree, LockTaken, LockAgain, UnlockInner, Unlock,
         ReleaseNative, Goto
  <2>2. CASE WaitAllowed(t) \/ WaitRefused(t) \/ DetectFails(t) \/ PublishFails(t)
      BY <1>0, <2>2 DEF TypeOK, WaitAllowed, WaitRefused, DetectFails, PublishFails, Goto, Return
  <2>3. CASE NativeLock(t) \/ NativeLockFails(t) \/ Rollback(t) \/ NotifyReleased(t)
      BY <1>0, <2>3 DEF TypeOK, NativeLock, NativeLockFails, Rollback, ReleaseNative,
         NotifyReleased, Goto, Return
  <2>4. CASE \/ NotifyAcquired(t) \/ NotifyAcquiredFails(t)
             \/ ThreadExit(t) \/ ThreadEnter(t) \/ JoinReturns(t)
      BY <1>0, <2>4 DEF TypeOK, NotifyAcquired, NotifyAcquiredFails, ThreadExit, ThreadEnter,
         JoinReturns, Goto, Return
  <2> QED
      BY <2>1, <2>2, <2>3, <2>4 DEF Step
<1>2. \A u \in Threads \ {t} : owned'[u] = owned[u]
    BY <1>0 DEF TypeOK, Step, Calls, LockFree, LockTaken, LockAgain, UnlockInner, Unlock,
       WaitAllowed, WaitRefused, DetectFails, PublishWait, PublishFails, NativeLock, NativeLockFails,
       NotifyAcquired, NotifyAcquiredFails, Rollback, NotifyReleased, ForgetOwned, ThreadExit,
       ThreadEnter, JoinReturns, local
<1>3. \A u \in Threads \ {t}, m \in Mutexes : native'[m] = u <=> native[m] = u
  <2>1. ASSUME NEW k \in Mutexes, LockFree(t, k) \/ LockTaken(t, k) \/ LockAgain(t, k)
        PROVE  \A u \in Threads \ {t}, m \in Mutexes : native'[m] = u <=> native[m] = u
      BY <1>0, <2>1 DEF TypeOK, LockFree, TakeNative, LockTaken, LockAgain, native_vars
  <2>2. ASSUME NEW k \in Mutexes, UnlockInner(t, k) \/ Unlock(t, k)
        PROVE  \A u \in Threads \ {t}, m \in Mutexes : native'[m] = u <=> native[m] = u
      BY <1>0, <2>2 DEF TypeOK, UnlockInner, Unlock, ReleaseNative
  <2>3. CASE NativeLock(t) \/ Rollback(t)
      BY <1>0, <2>3 DEF TypeOK, CallInv, NativeLock, TakeNative, Rollback, ReleaseNative
  <2>4. CASE UNCHANGED native
      BY <2>4, Zenon
  <2>5. Step(t) => \/ \E k \in Mutexes : LockFree(t, k) \/ LockTaken(t, k) \/ LockAgain(t, k)
                   \/ \E k \in Mutexes : UnlockInner(t, k) \/ Unlock(t, k)
                   \/ NativeLock(t) \/ Rollback(t)
                   \/ UNCHANGED native
      BY Zenon DEF Step, Calls, WaitAllowed, WaitRefused, DetectFails, PublishFails, NativeLockFails,
         NotifyAcquired, NotifyAcquiredFails, NotifyReleased, ThreadExit, ThreadEnter,
         JoinReturns, native_vars
  <2> QED
      BY <2>1, <2>2, <2>3, <2>4, <2>5
<1> QED
    BY <1>1, <1>2, <1>3 DEF OnlyOwn

\* t's own step keeps t's call and t's list right
LEMMA OwnStep ==
    ASSUME OwnedInv, NEW t \in Threads, Step(t)
    PROVE  CallInv(t)' /\ ListInv(t)'
<1> USE TrackingConstants DEF CallInv, ListInv, Held
<1>0. TypeOK /\ CallInv(t) /\ ListInv(t)
    BY DEF OwnedInv
<1>1. ASSUME NEW m \in Mutexes, LockFree(t, m) PROVE CallInv(t)' /\ ListInv(t)'
    BY <1>0, <1>1 DEF TypeOK, LockFree, TakeNative, Goto, local
<1>2. ASSUME NEW m \in Mutexes, LockTaken(t, m) PROVE CallInv(t)' /\ ListInv(t)'
    BY <1>0, <1>2 DEF TypeOK, LockTaken, Goto, local, native_vars
<1>3. ASSUME NEW m \in Mutexes, LockAgain(t, m) \/ UnlockInner(t, m) PROVE CallInv(t)' /\ ListInv(t)'
    BY <1>0, <1>3 DEF TypeOK, LockAgain, UnlockInner, local
<1>4. ASSUME NEW m \in Mutexes, Unlock(t, m) PROVE CallInv(t)' /\ ListInv(t)'
    BY <1>0, <1>4 DEF TypeOK, Unlock, ReleaseNative, Goto, local
<1>5. ASSUME WaitAllowed(t) PROVE CallInv(t)' /\ ListInv(t)'
    BY <1>0, <1>5 DEF TypeOK, WaitAllowed, PublishWait, Goto, native_vars
<1>6. ASSUME WaitRefused(t) \/ DetectFails(t) PROVE CallInv(t)' /\ ListInv(t)'
    BY <1>0, <1>6 DEF TypeOK, WaitRefused, DetectFails, PublishWait, Goto, Return, native_vars
<1>7. ASSUME PublishFails(t) PROVE CallInv(t)' /\ ListInv(t)'
    BY <1>0, <1>7 DEF TypeOK, PublishFails, Goto, Return, local, native_vars
<1>8. ASSUME NativeLock(t) PROVE CallInv(t)' /\ ListInv(t)'
    BY <1>0, <1>8 DEF TypeOK, NativeLock, TakeNative, Goto, local
<1>9. ASSUME NativeLockFails(t) PROVE CallInv(t)' /\ ListInv(t)'
    BY <1>0, <1>9 DEF TypeOK, NativeLockFails, Goto, local, native_vars
<1>10. ASSUME NotifyAcquired(t) PROVE CallInv(t)' /\ ListInv(t)'
    BY <1>0, <1>10 DEF TypeOK, NotifyAcquired, Goto, Return, native_vars
<1>11. ASSUME NotifyAcquiredFails(t) PROVE CallInv(t)' /\ ListInv(t)'
    BY <1>0, <1>11 DEF TypeOK, NotifyAcquiredFails, Goto, native_vars
<1>12. ASSUME Rollback(t) PROVE CallInv(t)' /\ ListInv(t)'
    BY <1>0, <1>12 DEF TypeOK, Rollback, ReleaseNative, Goto, local
<1>13. ASSUME NotifyReleased(t) PROVE CallInv(t)' /\ ListInv(t)'
    BY <1>0, <1>13 DEF TypeOK, NotifyReleased, ForgetOwned, Goto, Return, native_vars
<1>14. ASSUME ThreadExit(t) \/ ThreadEnter(t) \/ JoinReturns(t) PROVE CallInv(t)' /\ ListInv(t)'
    BY <1>0, <1>14 DEF TypeOK, ThreadExit, ThreadEnter, JoinReturns, Goto, native_vars, local
<1> QED
    BY <1>1, <1>2, <1>3, <1>4, <1>5, <1>6, <1>7, <1>8, <1>9, <1>10, <1>11, <1>12, <1>13, <1>14
    DEF Step, Calls

\* OwnedInv is inductive: the stepping thread by OwnStep, the others by StepIsOwn
LEMMA OwnedNext == OwnedInv /\ [Next]_vars => OwnedInv'
<1> SUFFICES ASSUME OwnedInv, [Next]_vars PROVE OwnedInv'
    OBVIOUS
<1>1. ASSUME NEW t \in Threads, Step(t) PROVE OwnedInv'
  <2>1. TypeOK'
      BY <1>1, TypeStep
  <2>2. ASSUME NEW u \in Threads \ {t} PROVE CallInv(u)' /\ ListInv(u)'
    <3>1. /\ pc'[u] = pc[u] /\ want'[u] = want[u] /\ owned'[u] = owned[u]
          /\ \A m \in Mutexes : native'[m] = u <=> native[m] = u
        BY <1>1, <2>2, StepIsOwn DEF OnlyOwn
    <3>2. Held(u)' = Held(u)
        BY <3>1 DEF Held
    <3> QED
        BY <3>1, <3>2, <2>2 DEF OwnedInv, CallInv, ListInv
  <2> QED
      BY <1>1, <2>1, <2>2, OwnStep DEF OwnedInv
<1>2. CASE UNCHANGED vars
    BY <1>2 DEF vars, OwnedInv, TypeOK, CallInv, ListInv, Held, native_vars, local, registry, lifetimes
<1> QED
    BY <1>1, <1>2 DEF Next

\* the thread-local lists that get_owned_mutexes and is_owned_by_thread answer
\* from are exactly what the threads hold, for any threads, mutexes, faults and
\* thread identifiers used again
THEOREM OwnedListsAreExact == Spec => []OwnedListIsExact
<1>1. OwnedInv => OwnedListIsExact
    BY DEF OwnedInv, ListInv, OwnedListIsExact
<1> QED
    BY <1>1, OwnedInit, OwnedNext, PTL DEF Spec

\* every variable of the mutexes and the tracker keeps its type
THEOREM TrackerIsTyped == Spec => []TypeOK
<1>1. OwnedInv => TypeOK
    BY DEF OwnedInv
<1> QED
    BY <1>1, OwnedInit, OwnedNext, PTL DEF Spec

-----------------------------------------------------------------------------
(* Threads that live on: no identifier is used again.                      *)

PublishedInv ==
    /\ joinable = {}
    /\ restarts = 0
    /\ BlockedArePublished

\* a thread gets to the native lock only through the publishing notify_wait, and
\* nobody else writes its record
LEMMA PublishedNext ==
    ASSUME MaxRestarts = 0
    PROVE  OwnedInv /\ PublishedInv /\ [Next]_vars => PublishedInv'
<1> SUFFICES ASSUME OwnedInv, PublishedInv, [Next]_vars PROVE PublishedInv'
    OBVIOUS
<1>1. ASSUME NEW t \in Threads, Step(t) PROVE PublishedInv'
  <2> USE TrackingConstants
  <2>0. TypeOK /\ CallInv(t) /\ ListInv(t)
      BY DEF OwnedInv
  <2>1. ~ThreadExit(t) /\ ~JoinReturns(t)
      BY DEF ThreadExit, JoinReturns, PublishedInv
  <2>2. joinable' = {} /\ restarts' = 0
      BY <1>1, <2>1 DEF PublishedInv, Step, Calls, LockFree, LockTaken, LockAgain, UnlockInner, Unlock,
         WaitAllowed, WaitRefused, DetectFails, PublishFails, NativeLock, NativeLockFails,
         NotifyAcquired, NotifyAcquiredFails, Rollback, NotifyReleased, ThreadEnter, lifetimes
  <2>3. ASSUME NEW u \in Threads \ {t}
        PROVE  info_owned'[u] = info_owned[u] /\ info_waiting'[u] = info_waiting[u]
    <3>1. CASE Calls(t) \/ NativeLock(t) \/ NativeLockFails(t) \/ Rollback(t) \/ ThreadEnter(t)
        BY <3>1 DEF Calls, LockFree, LockTaken, LockAgain, UnlockInner, Unlock, NativeLock,
           NativeLockFails, Rollback, ThreadEnter, registry
    <3>2. CASE WaitAllowed(t) \/ WaitRefused(t) \/ DetectFails(t)
        BY <2>0, <2>3, <3>2 DEF TypeOK, WaitAllowed, WaitRefused, DetectFails, PublishWait, PublishOwned
    <3>3. CASE PublishFails(t) \/ NotifyReleased(t)
        BY <2>0, <2>3, <3>3 DEF TypeOK, PublishFails, PublishOwned, NotifyReleased, registry
    <3>4. CASE NotifyAcquired(t) \/ NotifyAcquiredFails(t)
        BY <2>0, <2>3, <3>4 DEF TypeOK, NotifyAcquired, NotifyAcquiredFails, IndexAcquired,
           RecordAcquired, registry
    <3> QED
        BY <1>1, <2>1, <3>1, <3>2, <3>3, <3>4 DEF Step
  <2>4. ASSUME NEW u \in Threads \ {t}, Blocked(u)'
        PROVE  info_owned'[u] = Held(u)' /\ info_waiting'[u] = want'[u]
    <3>1. /\ pc'[u] = pc[u] /\ want'[u] = want[u]
          /\ \A m \in Mutexes : native'[m] = u <=> native[m] = u
        BY <1>1, StepIsOwn DEF OnlyOwn
    <3>2. Held(u)' = Held(u)
        BY <3>1 DEF Held
    <3>3. info_owned[u] = Held(u) /\ info_waiting[u] = want[u]
        BY <2>4, <3>1 DEF Blocked, PublishedInv, BlockedArePublished
    <3> QED
        BY <2>3, <3>1, <3>2, <3>3
  <2>5. ASSUME Blocked(t)'
        PROVE  info_owned'[t] = Held(t)' /\ info_waiting'[t] = want'[t]
    <3>1. pc[t] # "native_lock" => WaitAllowed(t)
        BY <1>1, <2>0, <2>1, <2>5 DEF TypeOK, Blocked, Step, Calls, LockFree, LockTaken, LockAgain,
           UnlockInner, Unlock, ReleaseNative, WaitRefused, DetectFails, PublishFails, NativeLock,
           NativeLockFails, NotifyAcquired, NotifyAcquiredFails, Rollback, NotifyReleased,
           ThreadEnter, Goto, Return
    <3>2. pc[t] # "native_lock"
        BY <1>1, <2>0, <2>1, <2>5 DEF TypeOK, Blocked, Step, Calls, LockFree, LockTaken, LockAgain,
           UnlockInner, Unlock, ReleaseNative, WaitAllowed, WaitRefused, DetectFails, PublishFails,
           NativeLock, NativeLockFails, NotifyAcquired, NotifyAcquiredFails, Rollback,
           NotifyReleased, ThreadEnter, Goto, Return
    <3>3. /\ info_owned'[t] = owned[t] /\ info_waiting'[t] = want[t]
          /\ pc[t] = "notify_wait"
          /\ UNCHANGED <<native, want>>
        BY <2>0, <3>1, <3>2 DEF TypeOK, WaitAllowed, PublishWait, PublishOwned, native_vars
    <3> QED
        BY <2>0, <3>3 DEF ListInv, Held
  <2> QED
      BY <2>2, <2>4, <2>5 DEF PublishedInv, BlockedArePublished, Blocked
<1>2. CASE UNCHANGED vars
    BY <1>2 DEF vars, PublishedInv, BlockedArePublished, Blocked, Held, native_vars, local, registry, lifetimes
<1> QED
    BY <1>1, <1>2 DEF Next

\* while no thread identifier is used again, a thread blocked in the native lock
\* has its wait and everything it holds in the registry for detect_cycle to see
THEOREM BlockedThreadsAreVisible ==
    ASSUME MaxRestarts = 0
    PROVE  Spec => []BlockedArePublished
<1>1. Init => PublishedInv
    BY DEF Init, PublishedInv, BlockedArePublished, Blocked
<1>2. PublishedInv => BlockedArePublished
    BY DEF PublishedInv
<1> QED
    BY <1>1, <1>2, OwnedInit, OwnedNext, PublishedNext, PTL DEF Spec

-----------------------------------------------------------------------------
(* The owner index, for threads the tracker learns of only when they wait. *)

\* no thread of pt_thread_create, no identifier used again, no failing allocation
OnlyForeignThreads == Tracked = {} /\ MaxRestarts = 0 /\ Faults = FALSE

\* an indexed mutex belongs to a published thread, and a recorded wait means
\* the thread is published
IndexInv ==
    /\ \A t \in Threads : required[t] = FALSE
    /\ \A t \in Threads : waiting[t] # NoMutex => published[t] = TRUE
    /\ \A m \in Mutexes, t \in Threads : owners[m] = t => published[t] = TRUE
    /\ OwnerIndexIsCurrent

\* what t's step does to t's own entries of the index
IndexStep(t) ==
    /\ required' = required
    /\ waiting'[t] # NoMutex => published'[t] = TRUE
    /\ \A m \in Mutexes : owners'[m] = t =>
           /\ published'[t] = TRUE
           /\ native'[m] = t \/ (pc'[t] = "notify_released" /\ want'[t] = m)

\* t's entries come with t published and go when t gives the mutex up
LEMMA IndexOwnStep ==
    ASSUME OnlyForeignThreads, OwnedInv, PublishedInv, IndexInv, NEW t \in Threads, Step(t)
    PROVE  IndexStep(t)
<1> USE TrackingConstants
<1>0. TypeOK /\ CallInv(t) /\ ListInv(t)
    BY DEF OwnedInv
<1>I. /\ required[t] = FALSE
      /\ waiting[t] # NoMutex => published[t] = TRUE
      /\ \A m \in Mutexes : owners[m] = t =>
             /\ published[t] = TRUE
             /\ native[m] = t \/ (pc[t] = "notify_released" /\ want[t] = m)
    BY DEF IndexInv, OwnerIndexIsCurrent
<1>1. ASSUME NEW m \in Mutexes, LockFree(t, m) PROVE IndexStep(t)
    BY <1>0, <1>I, <1>1 DEF TypeOK, IndexStep, LockFree, TakeNative, Goto, local, registry
<1>2. ASSUME NEW m \in Mutexes, LockTaken(t, m) PROVE IndexStep(t)
    BY <1>0, <1>I, <1>2 DEF TypeOK, IndexStep, LockTaken, Goto, local, registry, native_vars
<1>3. ASSUME NEW m \in Mutexes, LockAgain(t, m) \/ UnlockInner(t, m) PROVE IndexStep(t)
    BY <1>0, <1>I, <1>3 DEF TypeOK, IndexStep, LockAgain, UnlockInner, local, registry
<1>4. ASSUME NEW m \in Mutexes, Unlock(t, m) PROVE IndexStep(t)
    BY <1>0, <1>I, <1>4 DEF TypeOK, IndexStep, Unlock, ReleaseNative, Goto, local, registry
<1>5. ASSUME WaitAllowed(t) \/ WaitRefused(t) PROVE IndexStep(t)
  <2>1. /\ pc[t] = "notify_wait"
        /\ published'[t] = TRUE
        /\ required' = required
        /\ native' = native
        /\ owners' = SetOwners(t, owned[t])
      BY <1>0, <1>5 DEF TypeOK, WaitAllowed, WaitRefused, PublishWait, native_vars
  <2>2. ASSUME NEW m \in Mutexes, owners'[m] = t PROVE native'[m] = t
      BY <1>0, <1>I, <2>1, <2>2 DEF SetOwners, ListInv, Held
  <2> QED
      BY <2>1, <2>2 DEF IndexStep
<1>6. ASSUME NativeLock(t) PROVE IndexStep(t)
    BY <1>0, <1>I, <1>6 DEF TypeOK, CallInv, IndexStep, NativeLock, TakeNative, Goto, local, registry
<1>7. ASSUME NotifyAcquired(t) PROVE IndexStep(t)
  <2>1. /\ pc[t] = "notify_acquired"
        /\ waiting'[t] = NoMutex
        /\ published' = published /\ required' = required /\ native' = native
        /\ native[want[t]] = t
      BY <1>0, <1>7 DEF TypeOK, CallInv, NotifyAcquired, native_vars
  <2>2. CASE StaysLocal(t)
      BY <1>I, <1>7, <2>1, <2>2 DEF IndexStep, NotifyAcquired, registry
  <2>3. CASE ~StaysLocal(t)
    <3>1. published[t] = TRUE
        BY <1>0, <1>I, <2>3 DEF TypeOK, StaysLocal
    <3>2. owners' = SetOwners(t, {want[t]})
        BY <1>7, <2>3 DEF NotifyAcquired, IndexAcquired
    <3> QED
        BY <1>I, <2>1, <3>1, <3>2 DEF IndexStep, SetOwners
  <2> QED
      BY <2>2, <2>3
<1>8. ASSUME Rollback(t) PROVE IndexStep(t)
    BY <1>0, <1>I, <1>8 DEF TypeOK, CallInv, IndexStep, Rollback, ReleaseNative, Goto, local, registry
<1>9. ASSUME NotifyReleased(t) PROVE IndexStep(t)
  <2>1. /\ pc[t] = "notify_released" /\ want[t] \in Mutexes
        /\ required' = required /\ native' = native
        /\ waiting'[t] = NoMutex \/ waiting'[t] = waiting[t]
        /\ owned'[t] = Held(t)
      BY <1>0, <1>9 DEF TypeOK, CallInv, ListInv, NotifyReleased, ForgetOwned, Withdraw, native_vars
  <2>2. CASE published[t] = FALSE
      BY <1>0, <1>I, <1>9, <2>1, <2>2 DEF TypeOK, IndexStep, NotifyReleased, registry
  <2>3. CASE published[t] = TRUE
    <3>1. owners' = [owners EXCEPT ![want[t]] = NoThread]
        BY <1>9, <2>3 DEF NotifyReleased, ClearMutexOwner
    <3>2. published'[t] = (owned'[t] # {} \/ waiting'[t] # NoMutex)
        BY <1>0, <1>9, <2>3 DEF TypeOK, NotifyReleased
    <3>3. ASSUME NEW m \in Mutexes, owners'[m] = t PROVE native[m] = t /\ owned'[t] # {}
        BY <1>0, <1>I, <2>1, <3>1, <3>3 DEF TypeOK, Held
    <3> QED
        BY <2>1, <3>2, <3>3, Zenon DEF IndexStep
  <2> QED
      BY <1>0, <2>2, <2>3, Zenon DEF TypeOK
<1>10. /\ ~DetectFails(t) /\ ~PublishFails(t) /\ ~NativeLockFails(t) /\ ~NotifyAcquiredFails(t)
       /\ ~ThreadExit(t) /\ ~JoinReturns(t)
  <2>1. ~DetectFails(t) /\ ~PublishFails(t) /\ ~NativeLockFails(t) /\ ~NotifyAcquiredFails(t)
      BY DEF OnlyForeignThreads, DetectFails, PublishFails, NativeLockFails, NotifyAcquiredFails
  <2>2. ~ThreadExit(t)
      BY DEF OnlyForeignThreads, PublishedInv, ThreadExit
  <2>3. ~JoinReturns(t)
      BY DEF PublishedInv, JoinReturns
  <2> QED
      BY <2>1, <2>2, <2>3
<1>11. ASSUME ThreadEnter(t) PROVE IndexStep(t)
  <2>1. required' = required
      BY <1>0, <1>I, <1>11 DEF TypeOK, OnlyForeignThreads, ThreadEnter
  <2> QED
      BY <1>0, <1>I, <1>11, <2>1 DEF TypeOK, IndexStep, ThreadEnter, Goto, native_vars, registry
<1> QED
    BY <1>1, <1>2, <1>3, <1>4, <1>5, <1>6, <1>7, <1>8, <1>9, <1>10, <1>11 DEF Step, Calls

\* other threads' steps never add an entry for a thread
LEMMA IndexNext ==
    ASSUME OnlyForeignThreads
    PROVE  OwnedInv /\ PublishedInv /\ IndexInv /\ [Next]_vars => IndexInv'
<1> SUFFICES ASSUME OwnedInv, PublishedInv, IndexInv, [Next]_vars PROVE IndexInv'
    OBVIOUS
<1>1. ASSUME NEW t \in Threads, Step(t) PROVE IndexInv'
  <2>0. TypeOK
      BY DEF OwnedInv
  <2>1. IndexStep(t)
      BY <1>1, IndexOwnStep
  <2>2. ASSUME NEW u \in Threads \ {t}
        PROVE  /\ waiting'[u] = waiting[u] /\ published'[u] = published[u]
               /\ \A m \in Mutexes : owners'[m] = u => owners[m] = u
    <3>1. waiting'[u] = waiting[u]
        BY <1>1, <2>0, <2>2
        DEF TypeOK, Step, Calls, LockFree, LockTaken, LockAgain, UnlockInner, Unlock, WaitAllowed,
           WaitRefused, DetectFails, PublishWait, PublishFails, NativeLock, NativeLockFails,
           NotifyAcquired, NotifyAcquiredFails, Rollback, NotifyReleased,
           ThreadExit, ThreadEnter, JoinReturns, local
    <3>2. published'[u] = published[u]
        BY <1>1, <2>0, <2>2
        DEF TypeOK, Step, Calls, LockFree, LockTaken, LockAgain, UnlockInner, Unlock, WaitAllowed,
           WaitRefused, DetectFails, PublishWait, PublishFails, NativeLock, NativeLockFails,
           NotifyAcquired, NotifyAcquiredFails, Rollback, NotifyReleased,
           ThreadExit, ThreadEnter, JoinReturns, local
    <3>3. ASSUME NEW m \in Mutexes, owners'[m] = u PROVE owners[m] = u
      <4>1. \/ UNCHANGED owners
            \/ \E ms : owners' = SetOwners(t, ms)
            \/ \E k : owners' = [owners EXCEPT ![k] = NoThread]
            \/ owners' = [k \in Mutexes |-> IF owners[k] = t THEN NoThread ELSE owners[k]]
        <5>1. CASE Calls(t) \/ NativeLock(t) \/ NativeLockFails(t) \/ Rollback(t) \/ ThreadEnter(t)
            BY <5>1 DEF Calls, LockFree, LockTaken, LockAgain, UnlockInner, Unlock, NativeLock,
               NativeLockFails, Rollback, ThreadEnter, registry
        <5>2. CASE WaitAllowed(t) \/ WaitRefused(t) \/ DetectFails(t) \/ PublishFails(t)
            BY <5>2 DEF WaitAllowed, WaitRefused, DetectFails, PublishWait, PublishFails, registry
        <5>3. CASE NotifyAcquired(t) \/ NotifyAcquiredFails(t)
            BY <5>3 DEF NotifyAcquired, NotifyAcquiredFails, IndexAcquired, registry
        <5>4. CASE NotifyReleased(t) \/ ThreadExit(t) \/ JoinReturns(t)
            BY <5>4 DEF NotifyReleased, ClearMutexOwner, ThreadExit, JoinReturns, EraseThread, registry
        <5> QED
            BY <1>1, <5>1, <5>2, <5>3, <5>4 DEF Step
      <4> QED
          BY <2>0, <2>2, <3>3, <4>1, TrackingConstants DEF TypeOK, SetOwners
    <3> QED
        BY <3>1, <3>2, <3>3
  <2>3. ASSUME NEW u \in Threads \ {t}
        PROVE  /\ pc'[u] = pc[u] /\ want'[u] = want[u]
               /\ \A m \in Mutexes : native'[m] = u <=> native[m] = u
      BY <1>1, StepIsOwn DEF OnlyOwn
  <2>4. ASSUME NEW u \in Threads, NEW m \in Mutexes, owners'[m] = u
        PROVE  /\ published'[u] = TRUE
               /\ native'[m] = u \/ (pc'[u] = "notify_released" /\ want'[u] = m)
      BY <2>1, <2>2, <2>3, <2>4 DEF IndexStep, IndexInv, OwnerIndexIsCurrent
  <2>5. \A u \in Threads : waiting'[u] # NoMutex => published'[u] = TRUE
      BY <2>1, <2>2 DEF IndexStep, IndexInv
  <2>6. \A u \in Threads : required'[u] = FALSE
      BY <2>1 DEF IndexStep, IndexInv
  <2>7. OwnerIndexIsCurrent'
      BY <2>4, Zenon DEF OwnerIndexIsCurrent
  <2> QED
      BY <2>4, <2>5, <2>6, <2>7, Zenon DEF IndexInv
<1>2. CASE UNCHANGED vars
    BY <1>2 DEF vars, IndexInv, OwnerIndexIsCurrent, native_vars, local, registry
<1> QED
    BY <1>1, <1>2 DEF Next

\* for threads the tracker only learns of when they wait, the owner index never
\* outlives the ownership, but for the moment between the native unlock and the
\* same call's notify_released
THEOREM OwnerIndexFollowsOwners ==
    ASSUME OnlyForeignThreads
    PROVE  Spec => []OwnerIndexIsCurrent
<1>1. Init => PublishedInv
    BY DEF Init, PublishedInv, BlockedArePublished, Blocked
<1>2. Init => IndexInv
    BY TrackingConstants DEF Init, IndexInv, OwnerIndexIsCurrent, OnlyForeignThreads
<1>3. IndexInv => OwnerIndexIsCurrent
    BY DEF IndexInv
<1>4. MaxRestarts = 0
    BY DEF OnlyForeignThreads
<1>5. OwnedInv /\ PublishedInv /\ [Next]_vars => PublishedInv'
    BY <1>4, PublishedNext
<1> QED
    BY <1>1, <1>2, <1>3, <1>5, OwnedInit, OwnedNext, IndexNext, PTL DEF Spec

-----------------------------------------------------------------------------
(* The walk of detect_cycle.                                               *)

\* a nonempty set of naturals has a least member: the induction of the walk
LEMMA LeastNatural ==
    ASSUME NEW S \in SUBSET Nat, S # {}
    PROVE  \E x \in S : \A y \in S : x <= y
<1>1. \E x \in S : \A y \in S : ~(<<y, x>> \in OpToRel(<, Nat))
    BY NatLessThanWellFounded, WFMin, Zenon
<1>2. \A x, y \in Nat : y < x => <<y, x>> \in OpToRel(<, Nat)
    BY Zenon DEF OpToRel
<1>3. \E x \in S : \A y \in S : ~(y < x)
    BY <1>1, <1>2, Zenon
<1> QED
    BY <1>3

FirstCall(m) == [mutex |-> m, visited_mutexes |-> {}, visited_threads |-> {}]

\* f is the first n + 1 calls of detect_cycle
IsWalk(f, t, m, n) ==
    f = [i \in 0..n |-> IF i = 0 THEN FirstCall(m) ELSE Deeper(t, f[i - 1])]

LEMMA WalkExists ==
    ASSUME NEW t, NEW m, NEW n \in Nat PROVE \E f : IsWalk(f, t, m, n)
<1> DEFINE Bad == {k \in Nat : ~\E f : IsWalk(f, t, m, k)}
<1> SUFFICES ASSUME Bad # {} PROVE FALSE
    BY Zenon
<1>1. PICK k \in Bad : \A j \in Bad : k <= j
  <2>1. Bad \in SUBSET Nat
      BY Zenon
  <2> HIDE DEF Bad
  <2> QED
      BY <2>1, LeastNatural, Zenon
<1>2. k \in Nat /\ \A f : ~IsWalk(f, t, m, k)
    BY Zenon
<1>3. CASE k = 0
  <2>1. \A i \in 0..0 : i = 0
      OBVIOUS
  <2> DEFINE f == [i \in 0..0 |-> FirstCall(m)]
  <2>2. IsWalk(f, t, m, 0)
      BY <2>1, Zenon DEF IsWalk
  <2> QED
      BY <1>2, <1>3, <2>2, Zenon
<1>4. CASE k # 0
  <2>1. /\ k - 1 \in Nat /\ ~(k <= k - 1) /\ \A i \in 0..k : i \in Nat
        /\ \A i \in 0..k : i # 0 => i - 1 \in 0..(k - 1) /\ i - 1 \in 0..k
        /\ \A i \in 0..(k - 1) : i \in 0..k
      BY <1>2, <1>4
  <2>2. PICK g : IsWalk(g, t, m, k - 1)
      BY <1>1, <2>1, Zenon
  <2> DEFINE f == [i \in 0..k |-> IF i = 0 THEN FirstCall(m) ELSE Deeper(t, g[i - 1])]
  <2>3. \A i \in 0..(k - 1) : g[i] = IF i = 0 THEN FirstCall(m) ELSE Deeper(t, g[i - 1])
      BY <2>2, Zenon DEF IsWalk
  <2>4. \A i \in 0..(k - 1) : f[i] = g[i]
      BY <2>1, <2>3, Zenon
  <2>5. \A i \in 0..k : i # 0 => f[i - 1] = g[i - 1]
      BY <2>1, <2>4, Zenon
  <2>6. \A i \in 0..k : (IF i = 0 THEN FirstCall(m) ELSE Deeper(t, g[i - 1]))
                       = (IF i = 0 THEN FirstCall(m) ELSE Deeper(t, f[i - 1]))
      BY <2>5, Zenon
  <2>7. f = [i \in 0..k |-> IF i = 0 THEN FirstCall(m) ELSE Deeper(t, f[i - 1])]
      BY <2>6, Zenon
  <2> QED
      BY <1>2, <2>7, Zenon DEF IsWalk
<1> QED
    BY <1>3, <1>4

\* what detect_cycle answers, in terms of its calls
LEMMA DetectIsWalk ==
    ASSUME NEW t, NEW m
    PROVE  \E f : /\ IsWalk(f, t, m, Cardinality(Mutexes))
                  /\ detect_cycle(t, m)
                        <=> \E n \in 0..Cardinality(Mutexes) : FindsOwned(t, f[n])
<1>1. Cardinality(Mutexes) \in Nat
    BY FS_CardinalityType, TrackingConstants
<1>2. \E f : IsWalk(f, t, m, Cardinality(Mutexes))
    BY <1>1, WalkExists, Zenon
<1> QED
    BY <1>2, Zenon DEF IsWalk, FirstCall, detect_cycle

\* the registry of a thread about to wait: its own mutexes, and what others say
LEMMA WaitPublishes ==
    ASSUME OwnedInv, NEW t \in Threads, WaitRefused(t) \/ WaitAllowed(t)
    PROVE  /\ info_owned'[t] = Held(t) /\ want[t] \in Mutexes /\ native[want[t]] # t
           /\ \A u \in Threads \ {t} : info_waiting'[u] = info_waiting[u]
           /\ \A m \in Mutexes : owners'[m] = IF native[m] = t THEN t ELSE owners[m]
           /\ NoMutex \notin info_owned'[t]
<1>1. /\ TypeOK /\ CallInv(t) /\ ListInv(t) /\ pc[t] = "notify_wait" /\ PublishWait(t)
    BY DEF OwnedInv, WaitRefused, WaitAllowed
<1>2. owned[t] = Held(t) /\ want[t] \in Mutexes /\ native[want[t]] # t
    BY <1>1 DEF CallInv, ListInv
<1>3. \A m \in Mutexes : m \in owned[t] <=> native[m] = t
    BY <1>2 DEF Held
<1>4. info_owned'[t] = owned[t] /\ owned[t] \subseteq Mutexes
    BY <1>1, Zenon DEF PublishWait, PublishOwned, TypeOK
<1>5. \A u \in Threads \ {t} : info_waiting'[u] = info_waiting[u]
    BY <1>1, Zenon DEF PublishWait, TypeOK
<1>6. \A m \in Mutexes : owners'[m] = IF m \in owned[t] THEN t ELSE owners[m]
    BY <1>1, Zenon DEF PublishWait, SetOwners
<1> QED
    BY <1>2, <1>3, <1>4, <1>5, <1>6, TrackingConstants, Zenon

\* what the walk reads off the registry when no wait is abandoned: an owner
\* with a recorded wait holds the mutex, and its call stands behind the wait
LEMMA OwnerReallyWaits ==
    ASSUME OwnedInv, OwnerIndexIsCurrent, NEW t \in Threads, WaitRefused(t) \/ WaitAllowed(t),
           \A u \in Threads \ {t} : ~AbandonedWait(u),
           NEW m \in Mutexes, NEW o, o = owners'[m], o \notin {NoThread, t},
           info_waiting'[o] # NoMutex
    PROVE  /\ o \in Threads \ {t} /\ native[m] = o
           /\ info_waiting'[o] = want[o] /\ want[o] \in Mutexes
           /\ ~Blocked(o) => native[want[o]] = o
<1>1. /\ info_owned'[t] = Held(t)
      /\ \A u \in Threads \ {t} : info_waiting'[u] = info_waiting[u]
      /\ \A k \in Mutexes : owners'[k] = IF native[k] = t THEN t ELSE owners[k]
    BY WaitPublishes, Zenon
<1>2. o = owners[m] /\ o \in Threads \ {t}
    BY <1>1, Zenon DEF OwnedInv, TypeOK, MaybeThread
<1>3. info_waiting[o] # NoMutex /\ ~AbandonedWait(o) /\ info_waiting'[o] = info_waiting[o]
    BY <1>1, <1>2, Zenon
<1>4. pc[o] \in {"native_lock", "notify_acquired", "rollback"} /\ want[o] = info_waiting[o]
    BY <1>3, Zenon DEF AbandonedWait
<1>5. native[m] = o
    BY <1>2, <1>4 DEF OwnerIndexIsCurrent
<1>6. CallInv(o)
    BY <1>2, Zenon DEF OwnedInv
<1> QED
    BY <1>2, <1>3, <1>4, <1>5, <1>6 DEF CallInv, Blocked

WalkCall == [mutex : MaybeMutex, visited_mutexes : SUBSET Mutexes, visited_threads : SUBSET Threads]

\* the threads the walk has visited are blocked in a row that starts at t and
\* ends at the holder of the call's mutex; or the walk is at its end
Chain(t, call) ==
    /\ call \in WalkCall
    /\ call.visited_threads \subseteq Threads \ {t}
    /\ \/ call.mutex = NoMutex
       \/ /\ call.mutex \in Mutexes
          /\ \A v \in call.visited_threads : Blocked(v)
          /\ {native[want[u]] : u \in call.visited_threads \cup {t}}
                = call.visited_threads \cup {native[call.mutex]}
       \/ /\ call.mutex \in Mutexes
          /\ native[call.mutex] \in call.visited_threads
          /\ want[native[call.mutex]] = call.mutex

\* one call of a walk without abandoned waits keeps the row, and what it finds
\* is a cycle
LEMMA ChainStep ==
    ASSUME OwnedInv, OwnerIndexIsCurrent, NEW t \in Threads, WaitRefused(t) \/ WaitAllowed(t),
           \A u \in Threads \ {t} : ~AbandonedWait(u),
           NEW call, Chain(t, call)
    PROVE  Chain(t, Deeper(t, call)) /\ (FindsOwned(t, call) => ClosesCycle(t))
<1> DEFINE m == call.mutex
           V == call.visited_threads
           o == owners'[m]
           next == info_waiting'[o]
           Row == /\ \A v \in V : Blocked(v)
                  /\ {native[want[u]] : u \in V \cup {t}} = V \cup {native[m]}
           End == native[m] \in V /\ want[native[m]] = m
<1>1. /\ info_owned'[t] = Held(t) /\ NoMutex \notin info_owned'[t]
    BY WaitPublishes, Zenon
<1>2. V \subseteq Threads \ {t}
    BY Zenon DEF Chain
<1>3. m = NoMutex \/ (m \in Mutexes /\ (Row \/ End))
    BY Zenon DEF Chain
<1>4. ASSUME m \in Mutexes, o \notin {NoThread, t}, next # NoMutex
      PROVE  /\ o \in Threads \ {t} /\ native[m] = o /\ next = want[o] /\ want[o] \in Mutexes
             /\ ~Blocked(o) => native[want[o]] = o
    BY <1>4, OwnerReallyWaits
<1>5. ASSUME FindsOwned(t, call) PROVE ClosesCycle(t)
  <2>1. m \in Mutexes /\ o \notin {NoThread, t} /\ next \in Held(t)
      BY <1>1, <1>3, <1>5, Zenon DEF FindsOwned
  <2>2. next # NoMutex
      BY <1>1, <2>1, Zenon
  <2>3. /\ o \in Threads \ {t} /\ native[m] = o /\ next = want[o]
        /\ ~Blocked(o) => native[want[o]] = o
      BY <1>4, <2>1, <2>2, Zenon
  <2>4. native[want[o]] = t
      BY <2>1, <2>3, Zenon DEF Held
  <2>5. Blocked(o)
      BY <2>3, <2>4, Zenon
  <2>6. Row
      BY <1>3, <2>1, <2>3, <2>4, TrackingConstants, Zenon
  <2> DEFINE ring == (V \cup {t}) \cup {o}
  <2>7. ring \in SUBSET Threads /\ t \in ring
      BY <1>2, <2>3, Zenon
  <2>8. \A u \in ring \ {t} : Blocked(u)
      BY <2>5, <2>6, Zenon
  <2>9. {native[want[u]] : u \in ring} = {native[want[u]] : u \in V \cup {t}} \cup {native[want[o]]}
      BY Zenon
  <2>10. {native[want[u]] : u \in ring} = ring
      BY <2>3, <2>4, <2>6, <2>9, Zenon
  <2> HIDE DEF ring
  <2> QED
      BY <2>7, <2>8, <2>10, Zenon DEF ClosesCycle
<1>6. CASE Deeper(t, call) = [call EXCEPT !.mutex = NoMutex]
  <2>1. call \in WalkCall
      BY Zenon DEF Chain
  <2>2. /\ Deeper(t, call) \in WalkCall /\ Deeper(t, call).mutex = NoMutex
        /\ Deeper(t, call).visited_threads = V
      BY <1>6, <2>1 DEF WalkCall, MaybeMutex
  <2> QED
      BY <1>2, <1>5, <2>2, Zenon DEF Chain
<1>7. CASE Deeper(t, call) # [call EXCEPT !.mutex = NoMutex]
  <2>1. /\ m \notin call.visited_mutexes \cup {NoMutex} /\ o \notin {NoThread, t}
        /\ next # NoMutex /\ o \notin V
        /\ Deeper(t, call) = [mutex |-> next,
                              visited_mutexes |-> call.visited_mutexes \cup {m},
                              visited_threads |-> V \cup {o}]
      BY <1>7, Zenon DEF Deeper
  <2>2. m \in Mutexes
      BY <1>3, <2>1, Zenon
  <2>3. /\ o \in Threads \ {t} /\ native[m] = o /\ next = want[o] /\ want[o] \in Mutexes
        /\ ~Blocked(o) => native[want[o]] = o
      BY <1>4, <2>1, <2>2, Zenon
  <2>4. Row
      BY <1>3, <2>1, <2>2, <2>3, Zenon
  <2> DEFINE d == Deeper(t, call)
  <2>5. d.mutex = want[o] /\ d.visited_threads = V \cup {o}
      BY <2>1, <2>3
  <2>6. d.visited_threads \subseteq Threads \ {t} /\ d.mutex \in Mutexes
      BY <1>2, <2>3, <2>5, Zenon
  <2>9. d \in WalkCall
    <3>1. call \in WalkCall
        BY Zenon DEF Chain
    <3>2. call.visited_mutexes \subseteq Mutexes
        BY <3>1 DEF WalkCall
    <3>3. next \in MaybeMutex
        BY <2>3, Zenon DEF MaybeMutex
    <3>4. call.visited_mutexes \cup {m} \in SUBSET Mutexes /\ V \cup {o} \in SUBSET Threads
        BY <1>2, <2>2, <2>3, <3>2, Zenon
    <3> HIDE DEF m, V, o, next
    <3> QED
        BY <2>1, <3>3, <3>4 DEF WalkCall
  <2>7. CASE Blocked(o)
    <3>1. \A v \in d.visited_threads : Blocked(v)
        BY <2>4, <2>5, <2>7, Zenon
    <3>2. {native[want[u]] : u \in (V \cup {o}) \cup {t}}
             = {native[want[u]] : u \in V \cup {t}} \cup {native[want[o]]}
        BY Zenon
    <3>3. {native[want[u]] : u \in d.visited_threads \cup {t}}
             = d.visited_threads \cup {native[d.mutex]}
        BY <2>3, <2>4, <2>5, <3>2, Zenon
    <3> QED
        BY <1>5, <2>6, <2>9, <3>1, <3>3, Zenon DEF Chain
  <2>8. CASE ~Blocked(o)
    <3>1. native[d.mutex] = o /\ o \in d.visited_threads /\ want[o] = d.mutex
        BY <2>3, <2>5, <2>8, Zenon
    <3> QED
        BY <1>5, <2>6, <2>9, <3>1, Zenon DEF Chain
  <2> QED
      BY <2>7, <2>8
<1> QED
    BY <1>5, <1>6, <1>7

\* a refusal without abandoned waits is a cycle
LEMMA RefusalsAreCycles ==
    ASSUME OwnedInv, OwnerIndexIsCurrent, NEW t \in Threads, WaitRefused(t),
           \A u \in Threads \ {t} : ~AbandonedWait(u)
    PROVE  ClosesCycle(t)
<1> DEFINE N == Cardinality(Mutexes)
<1>0. N \in Nat
    BY FS_CardinalityType, TrackingConstants
<1>1. PICK f : /\ IsWalk(f, t, want[t], N)
               /\ detect_cycle(t, want[t]) <=> \E n \in 0..N : FindsOwned(t, f[n])
    BY DetectIsWalk, Zenon
<1>2. \A n \in 0..N : f[n] = IF n = 0 THEN FirstCall(want[t]) ELSE Deeper(t, f[n - 1])
    BY <1>1, Zenon DEF IsWalk
<1>3. detect_cycle(t, want[t]) /\ (WaitRefused(t) \/ WaitAllowed(t)) /\ want[t] \in Mutexes
    BY WaitPublishes, Zenon DEF WaitRefused
<1> HIDE DEF N
<1> DEFINE Bad == {n \in 0..N : ~Chain(t, f[n])}
<1>4. Bad = {}
  <2> SUFFICES ASSUME Bad # {} PROVE FALSE
      BY Zenon
  <2>1. PICK n \in Bad : \A k \in Bad : n <= k
    <3>1. Bad \in SUBSET Nat
        BY <1>0
    <3> HIDE DEF Bad
    <3> QED
        BY <3>1, LeastNatural, Zenon
  <2>2. n \in 0..N /\ ~Chain(t, f[n])
      BY Zenon
  <2>3. CASE n = 0
    <3>1. f[0] = FirstCall(want[t])
        BY <1>2, <2>2, <2>3, Zenon
    <3>2. f[0].mutex = want[t] /\ f[0].visited_threads = {} /\ f[0] \in WalkCall
        BY <1>3, <3>1 DEF FirstCall, WalkCall, MaybeMutex
    <3>3. {native[want[u]] : u \in {} \cup {t}} = {} \cup {native[want[t]]}
        BY Zenon
    <3>4. Chain(t, f[0])
        BY <1>3, <3>2, <3>3, Zenon DEF Chain
    <3> QED
        BY <2>2, <2>3, <3>4, Zenon
  <2>4. CASE n # 0
    <3>1. n - 1 \in 0..N /\ ~(n <= n - 1)
        BY <1>0, <2>2, <2>4
    <3>2. Chain(t, f[n - 1])
        BY <2>1, <3>1, Zenon
    <3>3. Chain(t, Deeper(t, f[n - 1]))
        BY <1>3, <3>2, ChainStep, Zenon
    <3> QED
        BY <1>2, <2>2, <2>4, <3>3, Zenon
  <2> QED
      BY <2>3, <2>4
<1>5. PICK n \in 0..N : FindsOwned(t, f[n])
    BY <1>1, <1>3, Zenon
<1>6. Chain(t, f[n])
    BY <1>4, Zenon
<1> QED
    BY <1>3, <1>5, <1>6, ChainStep, Zenon

\* t and the threads of the ring are each waiting for the next one
Ring(t, ring) ==
    /\ ring \in SUBSET Threads
    /\ t \in ring
    /\ \A u \in ring \ {t} : Blocked(u)
    /\ {native[want[u]] : u \in ring} = ring

\* in a ring nobody is waited for twice, and the registry shows every member's
\* mutexes and wait to t
LEMMA RingIsPublished ==
    ASSUME OwnedInv, RegistryAgrees, NEW t \in Threads, WaitAllowed(t), NEW ring, Ring(t, ring)
    PROVE  /\ \A u \in ring : want[u] \in Mutexes /\ native[want[u]] \in ring
           /\ \A u, v \in ring : native[want[u]] = native[want[v]] => u = v
           /\ \A o \in ring \ {t} : info_waiting'[o] = want[o]
           /\ \A m \in Mutexes : native[m] \in ring \ {t} => owners'[m] = native[m]
<1>1. /\ \A u \in Threads \ {t} : info_waiting'[u] = info_waiting[u]
      /\ \A m \in Mutexes : owners'[m] = IF native[m] = t THEN t ELSE owners[m]
      /\ want[t] \in Mutexes
    BY WaitPublishes, Zenon
<1>2. \A o \in ring \ {t} : Blocked(o) /\ o \in Threads
    BY Zenon DEF Ring
<1>3. \A u \in ring : want[u] \in Mutexes
  <2>1. \A u \in Threads : Blocked(u) => want[u] \in Mutexes
      BY DEF OwnedInv, CallInv, Blocked
  <2> QED
      BY <1>1, <1>2, <2>1, Zenon
<1>4. \A o \in ring \ {t} : info_waiting'[o] = want[o]
    BY <1>1, <1>2, Zenon DEF RegistryAgrees, BlockedArePublished
<1>5. \A m \in Mutexes : native[m] \in ring \ {t} => owners'[m] = native[m]
  <2> SUFFICES ASSUME NEW m \in Mutexes, native[m] \in ring \ {t} PROVE owners'[m] = native[m]
      BY Zenon
  <2>1. m \in Held(native[m])
      BY Zenon DEF Held
  <2>2. owners[m] = native[m]
      BY <1>2, <2>1, Zenon DEF RegistryAgrees
  <2> QED
      BY <1>1, <2>2, Zenon
<1>6. \A u \in ring : native[want[u]] \in ring
    BY Zenon DEF Ring
<1>7. \A u, v \in ring : native[want[u]] = native[want[v]] => u = v
  <2> DEFINE f == [u \in ring |-> native[want[u]]]
  <2>1. f \in [ring -> ring]
      BY <1>6, Zenon
  <2>2. \A v \in ring : \E u \in ring : f[u] = v
      BY Zenon DEF Ring
  <2>3. f \in Surjection(ring, ring)
      BY <2>1, <2>2, Zenon DEF Surjection
  <2>4. IsFiniteSet(ring)
      BY FS_Subset, TrackingConstants DEF Ring
  <2>5. f \in Injection(ring, ring)
    <3> HIDE DEF f
    <3> QED
        BY <2>3, <2>4, FS_Surjection, Zenon
  <2>6. \A u, v \in ring : f[u] = f[v] => u = v
    <3> HIDE DEF f
    <3> QED
        BY <2>5, Zenon DEF Injection, IsInjective
  <2> QED
      BY <2>6, Zenon
<1> QED
    BY <1>3, <1>4, <1>5, <1>6, <1>7, Zenon

\* the walk follows the ring: after n calls it has been at n mutexes, and at
\* the threads that hold them
Follows(t, ring, call, n) ==
    /\ call \in WalkCall
    /\ call.mutex \in Mutexes /\ native[call.mutex] # t
    /\ call.visited_threads \subseteq ring \ {t}
    /\ \E last \in call.visited_threads \cup {t} :
           /\ call.mutex = want[last]
           /\ \A v \in call.visited_threads :
                  \E w \in (call.visited_threads \cup {t}) \ {last} : native[want[w]] = v
    /\ IsFiniteSet(call.visited_mutexes) /\ Cardinality(call.visited_mutexes) = n
    /\ \A m \in call.visited_mutexes : native[m] \in call.visited_threads

\* a call that does not find the cycle goes on along it, to a mutex not seen yet
LEMMA FollowsStep ==
    ASSUME OwnedInv, RegistryAgrees, NEW t \in Threads, WaitAllowed(t), NEW ring, Ring(t, ring),
           NEW call, NEW n \in Nat, Follows(t, ring, call, n), ~FindsOwned(t, call)
    PROVE  /\ call.mutex \notin call.visited_mutexes
           /\ Follows(t, ring, Deeper(t, call), n + 1)
<1> DEFINE m == call.mutex
           V == call.visited_threads
           o == native[m]
           d == Deeper(t, call)
<1>1. /\ \A u \in ring : want[u] \in Mutexes /\ native[want[u]] \in ring
      /\ \A u, v \in ring : native[want[u]] = native[want[v]] => u = v
      /\ \A u \in ring \ {t} : info_waiting'[u] = want[u]
      /\ \A k \in Mutexes : native[k] \in ring \ {t} => owners'[k] = native[k]
    BY RingIsPublished, Zenon
<1>2. info_owned'[t] = Held(t)
    BY WaitPublishes, Zenon
<1>3. ring \subseteq Threads /\ t \in ring
    BY Zenon DEF Ring
<1>4. /\ call \in WalkCall /\ m \in Mutexes /\ o # t /\ V \subseteq ring \ {t}
      /\ IsFiniteSet(call.visited_mutexes) /\ Cardinality(call.visited_mutexes) = n
      /\ \A k \in call.visited_mutexes : native[k] \in V
    BY Zenon DEF Follows
<1>5. PICK last \in V \cup {t} :
          /\ m = want[last]
          /\ \A v \in V : \E w \in (V \cup {t}) \ {last} : native[want[w]] = v
    BY Zenon DEF Follows
<1>6. last \in ring /\ o \in ring \ {t}
    BY <1>1, <1>3, <1>4, <1>5, Zenon
<1>7. o \notin V
  <2> SUFFICES ASSUME o \in V PROVE FALSE
      BY Zenon
  <2>1. PICK w \in (V \cup {t}) \ {last} : native[want[w]] = o
      BY <1>5, Zenon
  <2>2. w \in ring /\ native[want[last]] = native[want[w]]
      BY <1>3, <1>4, <1>5, <2>1, Zenon
  <2> QED
      BY <1>1, <1>6, <2>1, <2>2, Zenon
<1>8. m \notin call.visited_mutexes
    BY <1>4, <1>7, Zenon
<1>9. owners'[m] = o /\ info_waiting'[o] = want[o] /\ want[o] \in Mutexes
    BY <1>1, <1>4, <1>6, Zenon
<1>10. m # NoMutex /\ want[o] # NoMutex /\ o # NoThread
    BY <1>3, <1>4, <1>6, <1>9, TrackingConstants, Zenon
<1>11. native[want[o]] # t
  <2> SUFFICES ASSUME native[want[o]] = t PROVE FindsOwned(t, call)
      BY Zenon
  <2>1. info_waiting'[owners'[m]] \in info_owned'[t]
      BY <1>2, <1>9, Zenon DEF Held
  <2> QED
      BY <1>4, <1>8, <1>9, <1>10, <2>1, Zenon DEF FindsOwned
<1>12. d = [mutex |-> want[o], visited_mutexes |-> call.visited_mutexes \cup {m},
            visited_threads |-> V \cup {o}]
    BY <1>4, <1>7, <1>8, <1>9, <1>10, Zenon DEF Deeper
<1>13. /\ d.mutex = want[o] /\ d.visited_mutexes = call.visited_mutexes \cup {m}
       /\ d.visited_threads = V \cup {o}
    BY <1>12
<1>14. d \in WalkCall
  <2>1. /\ want[o] \in MaybeMutex
        /\ call.visited_mutexes \cup {m} \subseteq Mutexes
        /\ V \cup {o} \subseteq Threads
      BY <1>3, <1>4, <1>6, <1>9, Zenon DEF WalkCall, MaybeMutex
  <2> QED
      BY <1>12, <2>1 DEF WalkCall
<1>15. /\ IsFiniteSet(d.visited_mutexes) /\ Cardinality(d.visited_mutexes) = n + 1
  <2>1. IsFiniteSet(call.visited_mutexes) /\ Cardinality(call.visited_mutexes) = n
      BY <1>4, Zenon
  <2>2. /\ IsFiniteSet(call.visited_mutexes \cup {m})
        /\ Cardinality(call.visited_mutexes \cup {m}) = Cardinality(call.visited_mutexes) + 1
      BY <1>8, <2>1, FS_AddElement
  <2> QED
      BY <1>13, <2>1, <2>2, Zenon
<1>16. \A k \in d.visited_mutexes : native[k] \in d.visited_threads
    BY <1>4, <1>13, Zenon
<1>17. \A v \in d.visited_threads :
           \E w \in (d.visited_threads \cup {t}) \ {o} : native[want[w]] = v
  <2> SUFFICES ASSUME NEW v \in V \cup {o}
               PROVE  \E w \in (V \cup {t}) \ {o} : native[want[w]] = v
      BY <1>13, Zenon
  <2>1. CASE v \in V
      BY <1>4, <1>5, <1>7, <2>1, Zenon
  <2>2. CASE v = o
      BY <1>4, <1>5, <1>7, <2>2, Zenon
  <2> QED
      BY <2>1, <2>2, Zenon
<1>18. d.visited_threads \subseteq ring \ {t} /\ o \in d.visited_threads \cup {t}
    BY <1>4, <1>6, <1>13, Zenon
<1> HIDE DEF d, o
<1> QED
    BY <1>8, <1>9, <1>11, <1>13, <1>14, <1>15, <1>16, <1>17, <1>18, Zenon DEF Follows, d

\* a cycle the registry shows is refused
LEMMA CyclesAreRefused ==
    ASSUME OwnedInv, RegistryAgrees, NEW t \in Threads, WaitAllowed(t)
    PROVE  ~ClosesCycle(t)
<1> SUFFICES ASSUME ClosesCycle(t) PROVE FALSE
    BY Zenon
<1> DEFINE N == Cardinality(Mutexes)
<1>0. N \in Nat
    BY FS_CardinalityType, TrackingConstants
<1>1. PICK f : /\ IsWalk(f, t, want[t], N)
               /\ detect_cycle(t, want[t]) <=> \E n \in 0..N : FindsOwned(t, f[n])
    BY DetectIsWalk, Zenon
<1>2. \A n \in 0..N : f[n] = IF n = 0 THEN FirstCall(want[t]) ELSE Deeper(t, f[n - 1])
    BY <1>1, Zenon DEF IsWalk
<1>3. PICK ring : Ring(t, ring)
    BY Zenon DEF ClosesCycle, Ring
<1>4. \A n \in 0..N : ~FindsOwned(t, f[n])
    BY <1>1, Zenon DEF WaitAllowed
<1>5. want[t] \in Mutexes /\ native[want[t]] # t
    BY WaitPublishes, Zenon
<1>6. \A c, n : n \in 0..N /\ c = f[n] /\ Follows(t, ring, c, n)
                => c.mutex \notin c.visited_mutexes /\ Follows(t, ring, Deeper(t, c), n + 1)
  <2>1. \A n \in 0..N : n \in Nat
      BY <1>0
  <2> QED
      BY <1>3, <1>4, <2>1, FollowsStep, Zenon
<1>7. IsFiniteSet(Mutexes)
    BY TrackingConstants
<1> DEFINE Bad == {n \in 0..N : ~Follows(t, ring, f[n], n)}
<1>8. Bad = {}
  <2> HIDE DEF N
  <2> SUFFICES ASSUME Bad # {} PROVE FALSE
      BY Zenon
  <2>1. PICK n \in Bad : \A k \in Bad : n <= k
    <3>1. Bad \in SUBSET Nat
        BY <1>0
    <3> HIDE DEF Bad
    <3> QED
        BY <3>1, LeastNatural, Zenon
  <2>2. n \in 0..N /\ ~Follows(t, ring, f[n], n)
      BY Zenon
  <2>3. CASE n = 0
    <3>1. f[0] = FirstCall(want[t])
        BY <1>2, <2>2, <2>3, Zenon
    <3>2. /\ f[0].mutex = want[t] /\ f[0].visited_threads = {} /\ f[0].visited_mutexes = {}
          /\ f[0] \in WalkCall
        BY <1>5, <3>1 DEF FirstCall, WalkCall, MaybeMutex
    <3>3. IsFiniteSet({}) /\ Cardinality({}) = 0
        BY FS_EmptySet
    <3>4. Follows(t, ring, f[0], 0)
        BY <1>5, <3>2, <3>3, Zenon DEF Follows
    <3> QED
        BY <2>2, <2>3, <3>4, Zenon
  <2>4. CASE n # 0
    <3>1. n - 1 \in 0..N /\ ~(n <= n - 1) /\ (n - 1) + 1 = n
        BY <1>0, <2>2, <2>4
    <3>2. Follows(t, ring, f[n - 1], n - 1)
        BY <2>1, <3>1, Zenon
    <3>3. Follows(t, ring, Deeper(t, f[n - 1]), n)
        BY <1>6, <3>1, <3>2
    <3> QED
        BY <1>2, <2>2, <2>4, <3>3, Zenon
  <2> QED
      BY <2>3, <2>4
<1>9. N \in 0..N
    BY <1>0
<1>10. Follows(t, ring, f[N], N)
    BY <1>8, <1>9, Zenon
<1>11. f[N].mutex \notin f[N].visited_mutexes
    BY <1>6, <1>9, <1>10, Zenon
<1>12. /\ f[N].visited_mutexes \in SUBSET Mutexes /\ Cardinality(f[N].visited_mutexes) = N
       /\ f[N].mutex \in Mutexes
    BY <1>10 DEF Follows, WalkCall
<1>13. f[N].visited_mutexes = Mutexes
    BY <1>7, <1>12, FS_Subset
<1> QED
    BY <1>11, <1>12, <1>13, Zenon

-----------------------------------------------------------------------------
(* What notify_wait answers.                                               *)

\* whenever the registry agrees with the mutexes, notify_wait refuses exactly
\* the waits that would close a cycle, of any length
THEOREM RefusesExactlyCycles == Spec => DetectorIsExact
<1>1. OwnedInv /\ [Next]_vars
      => [RegistryAgrees => \A t \in Threads : /\ WaitRefused(t) => ClosesCycle(t)
                                               /\ WaitAllowed(t) => ~ClosesCycle(t)]_vars
  <2> SUFFICES ASSUME OwnedInv, RegistryAgrees, NEW t \in Threads
               PROVE  /\ WaitRefused(t) => ClosesCycle(t)
                      /\ WaitAllowed(t) => ~ClosesCycle(t)
      BY Zenon
  <2>1. OwnerIndexIsCurrent /\ \A u \in Threads \ {t} : ~AbandonedWait(u)
      BY Zenon DEF RegistryAgrees
  <2> QED
      BY <2>1, RefusalsAreCycles, CyclesAreRefused, Zenon
<1> QED
    BY <1>1, OwnedInit, OwnedNext, PTL DEF Spec, DetectorIsExact

\* for threads the tracker only learns of when they wait, a wait is refused
\* without a cycle only over the recorded wait of a call that gave up
THEOREM FalseReportsAreAbandonedWaits ==
    ASSUME OnlyForeignThreads
    PROVE  Spec => FalseReportNeedsAbandonedWait
<1>1. OwnedInv /\ OwnerIndexIsCurrent /\ [Next]_vars
      => [\A t \in Threads : WaitRefused(t) => \/ ClosesCycle(t)
                                               \/ \E u \in Threads \ {t} : AbandonedWait(u)]_vars
    BY RefusalsAreCycles, Zenon
<1> QED
    BY <1>1, OwnedInit, OwnedNext, OwnerIndexFollowsOwners, PTL
    DEF Spec, FalseReportNeedsAbandonedWait
=============================================================================
