----------------------------- MODULE ThreadPool -----------------------------
(***************************************************************************)
(* ft_thread_pool: workers poll a task queue under _work_mutex, clients    *)
(* submit and wait, one client initialises and destroys the pool.  A       *)
(* section under _work_mutex is one step.  _thread_safe_mutex, which       *)
(* enable_thread_safety adds, is held by lock() until unlock(), and by     *)
(* wait() for as long as it waits.                                         *)
(*                                                                         *)
(* Clients keep the rules of the class: no call on a pool that is not      *)
(* initialised (the code aborts), and none that overlaps destroy(), which  *)
(* frees what the call would use.  Tasks of the pool may overlap it.       *)
(***************************************************************************)
EXTENDS Naturals, Sequences, FiniteSets

CONSTANTS
    Clients, Workers, Tasks,
    MaxTasks,         \* _max_tasks, 0 for no limit
    ThreadSafe,       \* enable_thread_safety was called
    Nested,           \* tasks may submit further tasks
    Faults,           \* mutexes, allocations and thread starts may fail
    MaxLives,         \* bound on the number of initialize() calls
    NoTask

ASSUME PoolConstants ==
    /\ IsFiniteSet(Workers)
    /\ Clients \cap Workers = {}
    /\ MaxTasks \in Nat
    /\ {ThreadSafe, Nested, Faults} \subseteq BOOLEAN
    /\ MaxLives \in Nat
    /\ NoTask \notin Tasks

VARIABLES
    pc,               \* where each client and worker is
    arg,              \* the task a submit call carries
    task,             \* the task a worker runs
    held,             \* the client has called lock()
    initialised, stop, tasks, active,
    lives,
    offered,          \* every task submit was called with
    accepted,         \* those it took, since the last initialize()
    done              \* those that have returned

pool == <<initialised, stop, tasks, active>>
history == <<lives, offered, accepted, done>>
vars == <<pc, arg, task, held, pool, history>>

Actors == Clients \cup Workers

Init ==
    /\ pc = [a \in Actors |-> IF a \in Clients THEN "idle" ELSE "gone"]
    /\ arg = [a \in Actors |-> NoTask]
    /\ task = [w \in Workers |-> NoTask]
    /\ held = [c \in Clients |-> FALSE]
    /\ initialised = FALSE
    /\ stop = FALSE
    /\ tasks = <<>>
    /\ active = 0
    /\ lives = 0
    /\ offered = {}
    /\ accepted = {}
    /\ done = {}

Goto(a, label) == pc' = [pc EXCEPT ![a] = label]

\* a client calls from outside the pool, a worker from within its task
CallerAt(a) == IF a \in Workers THEN "run" ELSE "idle"

\* a client may call: the pool is initialised and nobody destroys it
Usable == initialised /\ \A c \in Clients : pc[c] # "join"

\* lock_internal would not block: the mutex is absent, free or the caller's own
PoolFree(a) ==
    ThreadSafe => \A c \in Clients \ {a} : pc[c] # "wait" /\ ~held[c]

-----------------------------------------------------------------------------
(* initialize, lock, unlock, destroy                                       *)

\* threads that cannot be started are missing from the pool, without an error
Initialize(c) ==
    /\ pc[c] = "idle"
    /\ ~initialised
    /\ lives < MaxLives
    /\ \E started \in SUBSET Workers :
           /\ Faults \/ started = Workers
           /\ pc' = [a \in Actors |-> IF a \in started THEN "loop" ELSE pc[a]]
    /\ initialised' = TRUE
    /\ stop' = FALSE
    /\ active' = 0
    /\ lives' = lives + 1
    /\ accepted' = {}
    /\ done' = {}
    /\ UNCHANGED <<arg, task, held, tasks, offered>>

LockPool(c) ==
    /\ ThreadSafe
    /\ pc[c] = "idle" /\ Usable /\ ~held[c]
    /\ PoolFree(c)
    /\ held' = [held EXCEPT ![c] = TRUE]
    /\ UNCHANGED <<pc, arg, task, pool, history>>

UnlockPool(c) ==
    /\ pc[c] = "idle" /\ held[c]
    /\ held' = [held EXCEPT ![c] = FALSE]
    /\ UNCHANGED <<pc, arg, task, pool, history>>

\* when _work_mutex cannot be locked, the workers are joined without a stop
DestroyCall(c) ==
    /\ initialised
    /\ \A d \in Clients : pc[d] = "idle" /\ ~held[d]
    /\ stop' = TRUE \/ (Faults /\ UNCHANGED stop)
    /\ Goto(c, "join")
    /\ UNCHANGED <<arg, task, held, initialised, tasks, active, history>>

Teardown(c) ==
    /\ pc[c] = "join"
    /\ \A w \in Workers : pc[w] = "gone"
    /\ initialised' = FALSE
    /\ tasks' = <<>>
    /\ Goto(c, "idle")
    /\ UNCHANGED <<arg, task, held, stop, active, history>>

-----------------------------------------------------------------------------
(* submit                                                                  *)

SubmitCall(a, t) ==
    /\ pc[a] = CallerAt(a)
    /\ IF a \in Workers THEN Nested ELSE Usable
    /\ t \notin offered
    /\ offered' = offered \cup {t}
    /\ arg' = [arg EXCEPT ![a] = t]
    /\ Goto(a, "submit")
    /\ UNCHANGED <<task, held, pool, lives, accepted, done>>

\* mutant: the limit is tested with > for >=
FullOffByOne == MaxTasks # 0 /\ Len(tasks) > MaxTasks

Full == MaxTasks # 0 /\ Len(tasks) >= MaxTasks

SubmitReturns(a) ==
    /\ Goto(a, CallerAt(a))
    /\ arg' = [arg EXCEPT ![a] = NoTask]

Submit(a) ==
    /\ pc[a] = "submit"
    /\ PoolFree(a)
    /\ ~stop
    /\ ~Full
    /\ tasks' = Append(tasks, arg[a])
    /\ accepted' = accepted \cup {arg[a]}
    /\ SubmitReturns(a)
    /\ UNCHANGED <<task, held, initialised, stop, active, lives, offered, done>>

\* FT_ERR_INVALID_STATE, FT_ERR_FULL, or a failed lock or allocation
SubmitRefused(a) ==
    /\ pc[a] = "submit"
    /\ \/ PoolFree(a) /\ (stop \/ Full)
       \/ Faults
    /\ SubmitReturns(a)
    /\ UNCHANGED <<task, held, pool, history>>

-----------------------------------------------------------------------------
(* wait                                                                    *)

WaitCall(c) ==
    /\ pc[c] = "idle" /\ Usable
    /\ Goto(c, "wait_lock")
    /\ UNCHANGED <<arg, task, held, pool, history>>

WaitLock(c) ==
    /\ pc[c] = "wait_lock"
    /\ PoolFree(c)
    /\ Goto(c, "wait")
    /\ UNCHANGED <<arg, task, held, pool, history>>

\* mutant: only the queue is looked at
WaitDoneQueueOnly(c) ==
    /\ pc[c] = "wait"
    /\ tasks = <<>>
    /\ Goto(c, "idle")
    /\ UNCHANGED <<arg, task, held, pool, history>>

WaitDone(c) ==
    /\ pc[c] = "wait"
    /\ tasks = <<>> /\ active = 0
    /\ Goto(c, "idle")
    /\ UNCHANGED <<arg, task, held, pool, history>>

\* a mutex cannot be locked: wait returns without having waited
WaitFails(c) ==
    /\ Faults
    /\ pc[c] \in {"wait_lock", "wait"}
    /\ Goto(c, "idle")
    /\ UNCHANGED <<arg, task, held, pool, history>>

-----------------------------------------------------------------------------
(* worker                                                                  *)

\* mutant: the task counts as active only once it is over
DequeueUncounted(w) ==
    /\ pc[w] = "loop"
    /\ tasks # <<>>
    /\ task' = [task EXCEPT ![w] = Head(tasks)]
    /\ tasks' = Tail(tasks)
    /\ Goto(w, "run")
    /\ UNCHANGED <<arg, held, initialised, stop, active, history>>

\* mutant: the task stays at the head of the queue while it runs
DequeuePeek(w) ==
    /\ pc[w] = "loop"
    /\ tasks # <<>>
    /\ task' = [task EXCEPT ![w] = Head(tasks)]
    /\ active' = active + 1
    /\ Goto(w, "run")
    /\ UNCHANGED <<arg, held, initialised, stop, tasks, history>>

Dequeue(w) ==
    /\ pc[w] = "loop"
    /\ tasks # <<>>
    /\ task' = [task EXCEPT ![w] = Head(tasks)]
    /\ tasks' = Tail(tasks)
    /\ active' = active + 1
    /\ Goto(w, "run")
    /\ UNCHANGED <<arg, held, initialised, stop, history>>

TaskReturns(w) ==
    /\ pc[w] = "run"
    /\ done' = done \cup {task[w]}
    /\ task' = [task EXCEPT ![w] = NoTask]
    /\ Goto(w, "count")
    /\ UNCHANGED <<arg, held, pool, lives, offered, accepted>>

\* mutant: _active is not decremented
CountDownForgotten(w) ==
    /\ pc[w] = "count"
    /\ Goto(w, "loop")
    /\ UNCHANGED <<arg, task, held, pool, history>>

CountDown(w) ==
    /\ pc[w] = "count"
    /\ active' = active - 1
    /\ Goto(w, "loop")
    /\ UNCHANGED <<arg, task, held, initialised, stop, tasks, history>>

\* mutant: a worker leaves on _stop although tasks are queued
WorkerLeavesQueue(w) ==
    /\ pc[w] = "loop"
    /\ stop
    /\ Goto(w, "gone")
    /\ UNCHANGED <<arg, task, held, pool, history>>

\* mutant: the stop is not looked at
WorkerStays(w) == FALSE

WorkerLeaves(w) ==
    /\ pc[w] = "loop"
    /\ stop /\ tasks = <<>>
    /\ Goto(w, "gone")
    /\ UNCHANGED <<arg, task, held, pool, history>>

\* _work_mutex cannot be locked: the worker ends, and _active stays as it is
WorkerFails(w) ==
    /\ Faults
    /\ pc[w] \in {"loop", "count"}
    /\ Goto(w, "gone")
    /\ UNCHANGED <<arg, task, held, pool, history>>

WorkerStep(w) ==
    \/ Dequeue(w) \/ TaskReturns(w) \/ CountDown(w)
    \/ WorkerLeaves(w) \/ WorkerFails(w)

ClientStep(c) ==
    \/ Initialize(c) \/ LockPool(c) \/ UnlockPool(c)
    \/ DestroyCall(c) \/ Teardown(c)
    \/ WaitCall(c) \/ WaitLock(c) \/ WaitDone(c) \/ WaitFails(c)

SubmitStep(a) ==
    \/ \E t \in Tasks : SubmitCall(a, t)
    \/ Submit(a) \/ SubmitRefused(a)

Next ==
    \/ \E w \in Workers : WorkerStep(w)
    \/ \E c \in Clients : ClientStep(c)
    \/ \E a \in Actors : SubmitStep(a)

Spec == Init /\ [][Next]_vars

\* workers and callers are scheduled, a task returns, lock() is followed by
\* unlock(), and a mutex that is free again and again is got. No fault need
\* ever happen.
Fairness ==
    /\ \A w \in Workers : WF_vars(\/ Dequeue(w) \/ TaskReturns(w)
                                  \/ CountDown(w) \/ WorkerLeaves(w))
    /\ \A a \in Actors : SF_vars(Submit(a) \/ SubmitRefused(a))
    /\ \A c \in Clients :
           /\ SF_vars(UnlockPool(c))
           /\ SF_vars(WaitLock(c)) /\ WF_vars(WaitDone(c)) /\ WF_vars(Teardown(c))

FairSpec == Spec /\ Fairness

-----------------------------------------------------------------------------
(* Properties                                                              *)

Elements(queue) == {queue[i] : i \in DOMAIN queue}
NoRepeats(queue) == \A i, j \in DOMAIN queue : queue[i] = queue[j] => i = j

Queued == Elements(tasks)
Busy == {w \in Workers : pc[w] \in {"run", "submit", "count"}}
Running == {w \in Workers : pc[w] \in {"run", "submit"}}

\* every variable has its type, and the queue never exceeds _max_tasks
TypeOK ==
    /\ pc \in [Actors -> {"idle", "gone", "loop", "run", "count", "submit",
                          "wait_lock", "wait", "join"}]
    /\ arg \in [Actors -> Tasks \cup {NoTask}]
    /\ task \in [Workers -> Tasks \cup {NoTask}]
    /\ held \in [Clients -> BOOLEAN]
    /\ initialised \in BOOLEAN
    /\ stop \in BOOLEAN
    /\ tasks \in Seq(Tasks)
    /\ MaxTasks # 0 => Len(tasks) <= MaxTasks
    /\ active \in 0..Cardinality(Workers)
    /\ lives \in 0..MaxLives
    /\ offered \subseteq Tasks
    /\ accepted \subseteq offered
    /\ done \subseteq offered

\* while the pool lives, a task that submit accepted is in the queue once, or
\* run by one worker, or has returned: none is lost, run twice or run unasked
EachTaskOnce ==
    initialised =>
        /\ accepted = Queued \cup {task[w] : w \in Running} \cup done
        /\ NoRepeats(tasks)
        /\ Queued \cap ({task[w] : w \in Running} \cup done) = {}
        /\ \A w \in Running : task[w] \notin done
        /\ \A v, w \in Running : task[v] = task[w] => v = w

\* wait() returns without an error only when every task accepted so far has
\* returned, those submitted by other tasks included
WaitMeansDone ==
    [][\A c \in Clients : WaitDone(c) => accepted \subseteq done]_vars

\* destroy() frees the pool only after every accepted task has returned, and
\* with no worker left to touch it
DestroyDrains ==
    [][initialised /\ ~initialised' =>
           /\ accepted \subseteq done
           /\ \A w \in Workers : pc[w] = "gone"]_vars

\* wait() returns once the work is finished
WaitReturns == \A c \in Clients : pc[c] = "wait_lock" ~> pc[c] = "idle"

\* A worker is missing from a pool that was not told to stop: its thread was
\* not started, or it ended when _work_mutex could not be locked.
WorkerLost == initialised /\ ~stop /\ \E w \in Workers : pc[w] = "gone"

\* A task submits a task while a caller of wait() or lock() holds the mutex.
SubmitBlocked == \E w \in Workers : pc[w] = "submit" /\ ~PoolFree(w)

\* wait() returns unless a worker was lost or a task waits, in submit(), for
\* the mutex that wait() itself holds: nothing else can keep it for ever.
WaitReturnsUnlessLost ==
    \A c \in Clients :
        pc[c] = "wait_lock" ~> (pc[c] = "idle" \/ WorkerLost \/ SubmitBlocked)

\* destroy() returns unless it could not lock _work_mutex to set _stop.
DestroyReturnsUnlessUnstopped ==
    \A c \in Clients : pc[c] = "join" ~> (pc[c] = "idle" \/ ~stop)

\* destroy() returns: the workers see the stop, drain the queue and end
DestroyReturns == \A c \in Clients : pc[c] = "join" ~> pc[c] = "idle"

=============================================================================
