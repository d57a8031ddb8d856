--------------------------- MODULE LockTracking ----------------------------
(***************************************************************************)
(* pt_mutex and pt_recursive_mutex with the lock tracker behind them: each *)
(* thread keeps its own list of owned mutexes, and publishes it to a       *)
(* process-wide registry when it has to wait (or always, for threads made  *)
(* by pt_thread_create).  Before a thread blocks, detect_cycle walks the   *)
(* registry and refuses the wait if it would close a cycle.                *)
(*                                                                         *)
(* A call is several steps: the native mutex, and the notify_* calls, each *)
(* atomic under the registry mutex.  native[m] stands for the std::mutex   *)
(* and its shadows _owner and _lock, which only its holder writes.         *)
(***************************************************************************)
EXTENDS Naturals, FiniteSets

CONSTANTS
    Threads, Mutexes,
    Recursive,        \* the pt_recursive_mutex objects among Mutexes
    Tracked,          \* threads started by pt_thread_create
    Faults,           \* allocations and native calls may fail
    MaxDepth,         \* bound on the depth of a recursive mutex
    MaxRestarts,      \* how often a thread identifier is used again
    NoThread, NoMutex

ASSUME TrackingConstants ==
    /\ IsFiniteSet(Threads) /\ IsFiniteSet(Mutexes)
    /\ Recursive \subseteq Mutexes
    /\ Tracked \subseteq Threads
    /\ Faults \in BOOLEAN
    /\ MaxDepth \in Nat \ {0}
    /\ MaxRestarts \in Nat
    /\ NoThread \notin Threads
    /\ NoMutex \notin Mutexes

VARIABLES
    pc,           \* where each thread is in its call
    want,         \* the mutex of the call
    native,       \* holder of the native mutex
    depth,        \* _lock_depth
    \* g_pt_local_lock_tracking_state of each thread
    owned, waiting, published, required,
    \* the registry: each thread's record, and the mutex-to-owner index
    info_owned, info_waiting, owners,
    joinable,     \* finished threads whose join has yet to report the exit
    restarts

native_vars == <<native, depth>>
local == <<owned, waiting, published, required>>
registry == <<info_owned, info_waiting, owners>>
lifetimes == <<joinable, restarts>>
vars == <<pc, want, native_vars, local, registry, lifetimes>>

MaybeThread == Threads \cup {NoThread}
MaybeMutex == Mutexes \cup {NoMutex}

Held(t) == {m \in Mutexes : native[m] = t}

Init ==
    /\ pc = [t \in Threads |-> "idle"]
    /\ want = [t \in Threads |-> NoMutex]
    /\ native = [m \in Mutexes |-> NoThread]
    /\ depth = [m \in Mutexes |-> 0]
    /\ owned = [t \in Threads |-> {}]
    /\ waiting = [t \in Threads |-> NoMutex]
    /\ published = [t \in Threads |-> FALSE]
    /\ required = [t \in Threads |-> t \in Tracked]
    /\ info_owned = [t \in Threads |-> {}]
    /\ info_waiting = [t \in Threads |-> NoMutex]
    /\ owners = [m \in Mutexes |-> NoThread]
    /\ joinable = {}
    /\ restarts = 0

Goto(t, label) == pc' = [pc EXCEPT ![t] = label]
Return(t) == Goto(t, "idle") /\ want' = [want EXCEPT ![t] = NoMutex]

-----------------------------------------------------------------------------
(* The mutex calls.                                                        *)

TakeNative(t, m) ==
    /\ native[m] = NoThread
    /\ native' = [native EXCEPT ![m] = t]
    /\ depth' = [depth EXCEPT ![m] = 1]

\* lock or try_lock find the mutex free
LockFree(t, m) ==
    /\ pc[t] = "idle"
    /\ TakeNative(t, m)
    /\ Goto(t, "notify_acquired")
    /\ want' = [want EXCEPT ![t] = m]
    /\ UNCHANGED <<local, registry, lifetimes>>

\* lock finds it taken; try_lock returns an error and changes nothing
LockTaken(t, m) ==
    /\ pc[t] = "idle"
    /\ native[m] \notin {t, NoThread}
    /\ Goto(t, "notify_wait")
    /\ want' = [want EXCEPT ![t] = m]
    /\ UNCHANGED <<native_vars, local, registry, lifetimes>>

\* a recursive mutex is entered again; a plain one refuses and changes nothing
LockAgain(t, m) ==
    /\ pc[t] = "idle"
    /\ native[m] = t
    /\ m \in Recursive
    /\ depth[m] < MaxDepth
    /\ depth' = [depth EXCEPT ![m] = @ + 1]
    /\ UNCHANGED <<pc, want, native, local, registry, lifetimes>>

NativeLock(t) ==
    /\ pc[t] = "native_lock"
    /\ TakeNative(t, want[t])
    /\ Goto(t, "notify_acquired")
    /\ UNCHANGED <<want, local, registry, lifetimes>>

\* std::mutex::lock throws: the wait is withdrawn through notify_released
NativeLockFails(t) ==
    /\ Faults
    /\ pc[t] = "native_lock"
    /\ Goto(t, "notify_released")
    /\ UNCHANGED <<want, native_vars, local, registry, lifetimes>>

ReleaseNative(t, m) ==
    /\ native' = [native EXCEPT ![m] = NoThread]
    /\ depth' = [depth EXCEPT ![m] = 0]
    /\ Goto(t, "notify_released")

\* mutant: the last unlock is taken for an inner one
UnlockInnerOffByOne(t, m) ==
    /\ pc[t] = "idle"
    /\ native[m] = t
    /\ depth[m] >= 1
    /\ depth' = [depth EXCEPT ![m] = @ - 1]
    /\ UNCHANGED <<pc, want, native, local, registry, lifetimes>>

UnlockInner(t, m) ==
    /\ pc[t] = "idle"
    /\ native[m] = t
    /\ depth[m] > 1
    /\ depth' = [depth EXCEPT ![m] = @ - 1]
    /\ UNCHANGED <<pc, want, native, local, registry, lifetimes>>

Unlock(t, m) ==
    /\ pc[t] = "idle"
    /\ native[m] = t
    /\ depth[m] = 1
    /\ ReleaseNative(t, m)
    /\ want' = [want EXCEPT ![t] = m]
    /\ UNCHANGED <<local, registry, lifetimes>>

\* notify_acquired failed: the native mutex is given back
Rollback(t) ==
    /\ pc[t] = "rollback"
    /\ ReleaseNative(t, want[t])
    /\ UNCHANGED <<want, local, registry, lifetimes>>

-----------------------------------------------------------------------------
(* The tracker.                                                            *)

\* set_mutex_owner for every mutex of a set
SetOwners(t, ms) == [m \in Mutexes |-> IF m \in ms THEN t ELSE owners[m]]

\* mutant: the owned mutexes are not published with the wait
PublishNothing(t) == UNCHANGED info_owned

\* publish_local_state copies the thread's list to its record
PublishOwned(t) == info_owned' = [info_owned EXCEPT ![t] = owned[t]]

\* mutant: the walk stops after one owner
DetectOneHop(t, requested) ==
    LET owner == owners'[requested]
    IN  /\ owner \notin {NoThread, t}
        /\ info_waiting'[owner] # NoMutex
        /\ info_waiting'[owner] \in info_owned'[t]

\* what one call of detect_cycle answers: the owner of its mutex waits for a
\* mutex of t
FindsOwned(t, call) ==
    LET owner == owners'[call.mutex]
    IN  /\ call.mutex \notin call.visited_mutexes \cup {NoMutex}
        /\ owner \notin {NoThread, t}
        /\ info_waiting'[owner] \in info_owned'[t]

\* ... and the call it makes; one for NoMutex makes none
Deeper(t, call) ==
    LET owner == owners'[call.mutex]
        next == info_waiting'[owner]
    IN  IF \/ call.mutex \in call.visited_mutexes \cup {NoMutex}
           \/ owner \in {NoThread, t}
           \/ next = NoMutex
           \/ owner \in call.visited_threads
        THEN [call EXCEPT !.mutex = NoMutex]
        ELSE [mutex |-> next,
              visited_mutexes |-> call.visited_mutexes \cup {call.mutex},
              visited_threads |-> call.visited_threads \cup {owner}]

\* the walk requested mutex -> owner -> what the owner waits for, over the
\* registry the thread t has just published itself to; every call visits
\* another mutex
detect_cycle(t, requested) ==
    LET calls[n \in 0..Cardinality(Mutexes)] ==
            IF n = 0
            THEN [mutex |-> requested, visited_mutexes |-> {}, visited_threads |-> {}]
            ELSE Deeper(t, calls[n - 1])
    IN  \E n \in 0..Cardinality(Mutexes) : FindsOwned(t, calls[n])

\* the thread's state is published and the wait recorded, whatever detect_cycle finds
PublishWait(t) ==
    /\ PublishOwned(t)
    /\ info_waiting' = [info_waiting EXCEPT ![t] = want[t]]
    /\ owners' = SetOwners(t, owned[t])
    /\ waiting' = [waiting EXCEPT ![t] = want[t]]
    /\ published' = [published EXCEPT ![t] = TRUE]
    /\ UNCHANGED <<owned, required>>

WaitRefused(t) ==
    /\ pc[t] = "notify_wait"
    /\ PublishWait(t)
    /\ detect_cycle(t, want[t])
    /\ Return(t)
    /\ UNCHANGED <<native_vars, lifetimes>>

WaitAllowed(t) ==
    /\ pc[t] = "notify_wait"
    /\ PublishWait(t)
    /\ ~detect_cycle(t, want[t])
    /\ Goto(t, "native_lock")
    /\ UNCHANGED <<want, native_vars, lifetimes>>

\* no memory for the walk: the wait stays recorded
DetectFails(t) ==
    /\ Faults
    /\ pc[t] = "notify_wait"
    /\ PublishWait(t)
    /\ Return(t)
    /\ UNCHANGED <<native_vars, lifetimes>>

\* no memory for the record (nothing changes), or for the index of some mutex
PublishFails(t) ==
    /\ Faults
    /\ pc[t] = "notify_wait"
    /\ \/ UNCHANGED registry
       \/ \E done \in SUBSET owned[t] :
              /\ PublishOwned(t)
              /\ owners' = SetOwners(t, done)
              /\ UNCHANGED info_waiting
    /\ Return(t)
    /\ UNCHANGED <<native_vars, local, lifetimes>>

\* a thread that neither waited nor published keeps the acquisition to itself
StaysLocal(t) ==
    /\ waiting[t] = NoMutex
    /\ ~published[t]
    /\ ~required[t]

RecordAcquired(t, m) == info_owned' = [info_owned EXCEPT ![t] = @ \cup {m}]

IndexAcquired(t, m) ==
    /\ RecordAcquired(t, m)
    /\ owners' = SetOwners(t, {m})
    /\ info_waiting' = [info_waiting EXCEPT ![t] = NoMutex]

NotifyAcquired(t) ==
    /\ pc[t] = "notify_acquired"
    /\ \/ StaysLocal(t) /\ UNCHANGED registry
       \/ ~StaysLocal(t) /\ IndexAcquired(t, want[t])
    /\ owned' = [owned EXCEPT ![t] = @ \cup {want[t]}]
    /\ waiting' = [waiting EXCEPT ![t] = NoMutex]
    /\ Return(t)
    /\ UNCHANGED <<native_vars, published, required, lifetimes>>

\* no memory: for the record or the thread's own list, for the index entry
\* after the record was extended, or for the list after all of the registry
NotifyAcquiredFails(t) ==
    /\ Faults
    /\ pc[t] = "notify_acquired"
    /\ \/ UNCHANGED <<waiting, registry>>
       \/ /\ ~StaysLocal(t)
          /\ RecordAcquired(t, want[t])
          /\ UNCHANGED <<waiting, info_waiting, owners>>
       \/ /\ ~StaysLocal(t)
          /\ IndexAcquired(t, want[t])
          /\ waiting' = [waiting EXCEPT ![t] = NoMutex]
    /\ Goto(t, "rollback")
    /\ UNCHANGED <<want, native_vars, owned, published, required, lifetimes>>

\* a wait for m is over; any other stays
Withdraw(wait, m) == IF wait = m THEN NoMutex ELSE wait

\* mutant: the index entry outlives the release
KeepMutexOwner(m) == UNCHANGED owners

\* whoever the index names: the entry goes
ClearMutexOwner(m) == owners' = [owners EXCEPT ![m] = NoThread]

\* mutant: a released mutex stays on the thread's list
ForgetNothing(t, m) == UNCHANGED owned

ForgetOwned(t, m) == owned' = [owned EXCEPT ![t] = @ \ {m}]

NotifyReleased(t) ==
    LET m == want[t]
    IN  /\ pc[t] = "notify_released"
        /\ ForgetOwned(t, m)
        /\ waiting' = [waiting EXCEPT ![t] = Withdraw(@, m)]
        /\ \/ ~published[t] /\ UNCHANGED <<published, registry>>
           \/ /\ published[t]
              /\ info_owned' = [info_owned EXCEPT ![t] = @ \ {m}]
              /\ info_waiting' = [info_waiting EXCEPT ![t] = Withdraw(@, m)]
              /\ ClearMutexOwner(m)
              /\ published' = [published EXCEPT ![t] =
                                   owned'[t] # {} \/ waiting'[t] # NoMutex]
        /\ Return(t)
        /\ UNCHANGED <<native_vars, required, lifetimes>>

-----------------------------------------------------------------------------
(* Threads end, and their identifiers are used again.                      *)

\* the record and the index entries of an identifier are erased
EraseThread(t) ==
    /\ info_owned' = [info_owned EXCEPT ![t] = {}]
    /\ info_waiting' = [info_waiting EXCEPT ![t] = NoMutex]
    /\ owners' = [m \in Mutexes |-> IF owners[m] = t THEN NoThread ELSE owners[m]]

\* the trampoline's or the thread-local guard's notify_thread_exit; callers
\* do not end a thread that holds a mutex
ThreadExit(t) ==
    /\ restarts < MaxRestarts
    /\ pc[t] = "idle"
    /\ Held(t) = {}
    /\ EraseThread(t)
    /\ owned' = [owned EXCEPT ![t] = {}]
    /\ waiting' = [waiting EXCEPT ![t] = NoMutex]
    /\ published' = [published EXCEPT ![t] = FALSE]
    /\ required' = [required EXCEPT ![t] = FALSE]
    /\ Goto(t, "exited")
    /\ joinable' = joinable \cup {t}
    /\ restarts' = restarts + 1
    /\ UNCHANGED <<want, native_vars>>

\* pthread_join returned: the identifier is free for a new thread, which
\* pt_thread_join's own notify_thread_exit may find running
ThreadEnter(t) ==
    /\ pc[t] = "exited"
    /\ required' = [required EXCEPT ![t] = t \in Tracked]
    /\ Goto(t, "idle")
    /\ UNCHANGED <<want, native_vars, owned, waiting, published, registry, lifetimes>>

JoinReturns(t) ==
    /\ t \in joinable
    /\ EraseThread(t)
    /\ joinable' = joinable \ {t}
    /\ UNCHANGED <<pc, want, native_vars, local, restarts>>

Calls(t) ==
    \E m \in Mutexes :
        \/ LockFree(t, m) \/ LockTaken(t, m) \/ LockAgain(t, m)
        \/ UnlockInner(t, m) \/ Unlock(t, m)

Step(t) ==
    \/ Calls(t)
    \/ WaitAllowed(t) \/ WaitRefused(t) \/ DetectFails(t) \/ PublishFails(t)
    \/ NativeLock(t) \/ NativeLockFails(t)
    \/ NotifyAcquired(t) \/ NotifyAcquiredFails(t) \/ Rollback(t)
    \/ NotifyReleased(t)
    \/ ThreadExit(t) \/ ThreadEnter(t) \/ JoinReturns(t)

Next == \E t \in Threads : Step(t)

Spec == Init /\ [][Next]_vars

-----------------------------------------------------------------------------
(* Properties.                                                             *)

\* every variable has its type: the thread lists, records and owner index only
\* ever name threads and mutexes, and a held mutex has a depth of at least one
TypeOK ==
    /\ pc \in [Threads -> {"idle", "notify_wait", "native_lock", "notify_acquired",
                           "rollback", "notify_released", "exited"}]
    /\ want \in [Threads -> MaybeMutex]
    /\ native \in [Mutexes -> MaybeThread]
    /\ depth \in [Mutexes -> 0..MaxDepth]
    /\ owned \in [Threads -> SUBSET Mutexes]
    /\ waiting \in [Threads -> MaybeMutex]
    /\ published \in [Threads -> BOOLEAN]
    /\ required \in [Threads -> BOOLEAN]
    /\ info_owned \in [Threads -> SUBSET Mutexes]
    /\ info_waiting \in [Threads -> MaybeMutex]
    /\ owners \in [Mutexes -> MaybeThread]
    /\ joinable \in SUBSET Threads
    /\ restarts \in 0..MaxRestarts
    /\ \A m \in Mutexes : native[m] = NoThread <=> depth[m] = 0

Blocked(t) == pc[t] = "native_lock"

\* what get_owned_mutexes tells a thread about itself is what it holds: between
\* its calls, and while it waits, its own list is exactly the set of native
\* mutexes it holds, whatever failed and was rolled back before
OwnedListIsExact ==
    \A t \in Threads :
        pc[t] \in {"idle", "notify_wait", "native_lock"} => owned[t] = Held(t)

\* a thread blocked in the native lock has its wait and all its mutexes in its
\* registry record, so that other threads' detect_cycle can see both
BlockedArePublished ==
    \A t \in Threads : Blocked(t) => info_owned[t] = Held(t) /\ info_waiting[t] = want[t]

\* the owner index never names a thread that gave the mutex up, except between
\* the native unlock and the notify_released of the same call
OwnerIndexIsCurrent ==
    \A m \in Mutexes, t \in Threads :
        owners[m] = t =>
            \/ native[m] = t
            \/ pc[t] = "notify_released" /\ want[t] = m

\* blocking t now would close a cycle of threads each waiting, in the native
\* lock, for a mutex the next one holds
ClosesCycle(t) ==
    \E ring \in SUBSET Threads :
        /\ t \in ring
        /\ \A u \in ring \ {t} : Blocked(u)
        /\ {native[want[u]] : u \in ring} = ring

\* a recorded wait that no lock call in progress stands behind
AbandonedWait(t) ==
    /\ info_waiting[t] # NoMutex
    /\ ~(pc[t] \in {"native_lock", "notify_acquired", "rollback"} /\ want[t] = info_waiting[t])

\* the registry agrees with the mutexes: blocked threads are published and
\* indexed, nobody else has a wait recorded, and the index is current
RegistryAgrees ==
    /\ BlockedArePublished
    /\ \A t \in Threads : Blocked(t) => \A m \in Held(t) : owners[m] = t
    /\ \A t \in Threads : ~AbandonedWait(t)
    /\ OwnerIndexIsCurrent

\* whenever the registry agrees with the mutexes, notify_wait refuses exactly
\* the waits that would close a cycle of any length: no false report, none missed
DetectorIsExact ==
    [][RegistryAgrees =>
           \A t \in Threads : /\ WaitRefused(t) => ClosesCycle(t)
                              /\ WaitAllowed(t) => ~ClosesCycle(t)]_vars

\* no wait is refused without a cycle unless an earlier failed request of some
\* thread left its wait recorded: the only way a correct client of threads that
\* live on is told of a deadlock that is not there
FalseReportNeedsAbandonedWait ==
    [][\A t \in Threads :
           WaitRefused(t) => \/ ClosesCycle(t)
                             \/ \E u \in Threads \ {t} : AbandonedWait(u)]_vars

\* the wait recorded before a blocking native lock is cleared once the call has
\* succeeded or failed: a thread between calls waits for nothing
WaitClearedAfterCall ==
    \A t \in Threads : pc[t] = "idle" => info_waiting[t] = NoMutex

\* no set of threads is blocked for ever on mutexes held within the set: the
\* last of them was refused by detect_cycle
NoUndetectedDeadlock ==
    \A ring \in SUBSET Threads \ {{}} :
        ~ \A t \in ring : Blocked(t) /\ native[want[t]] \in ring

=============================================================================
