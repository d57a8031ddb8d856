-------------------------- MODULE ThreadPoolProofs --------------------------
(* Proofs about ThreadPool, for any clients, workers, tasks and limit.     *)
EXTENDS ThreadPool, FiniteSetTheorems, TLAPS

WorkerLabels == {"gone", "loop", "run", "count", "submit"}
ClientLabels == {"idle", "submit", "wait_lock", "wait", "join"}

\* the part of TypeOK the proofs use, with the labels split by kind of actor
PoolType ==
    /\ pc \in [Actors -> WorkerLabels \cup ClientLabels]
    /\ \A w \in Workers : pc[w] \in WorkerLabels
    /\ \A c \in Clients : pc[c] \in ClientLabels
    /\ arg \in [Actors -> Tasks \cup {NoTask}]
    /\ task \in [Workers -> Tasks \cup {NoTask}]
    /\ tasks \in Seq(Tasks)
    /\ active \in Nat
    /\ initialised \in BOOLEAN
    /\ stop \in BOOLEAN
    /\ offered \subseteq Tasks
    /\ accepted \subseteq offered

\* nothing of the pool is left, and nobody is in a call, while it is not
\* initialised; destroy() overlaps no other client's call
Lifetime ==
    /\ ~initialised => /\ tasks = <<>>
                       /\ \A w \in Workers : pc[w] = "gone"
                       /\ \A c \in Clients : pc[c] = "idle"
    /\ \A c, d \in Clients : pc[d] = "join" /\ c # d => pc[c] = "idle"

\* submit calls under way carry tasks of their own that nobody has yet
CallsCarryNewTasks ==
    /\ \A a \in Actors : pc[a] = "submit" => arg[a] \in offered \ accepted
    /\ \A a, b \in Actors :
           pc[a] = "submit" /\ pc[b] = "submit" /\ arg[a] = arg[b] => a = b
    /\ \A w \in Running : task[w] \in Tasks

\* _active counts every worker between dequeue and its own decrement; a worker
\* that fails in between leaves it too high, never too low
Counted == Cardinality(Busy) <= active

PoolInv == PoolType /\ Lifetime /\ CallsCarryNewTasks /\ EachTaskOnce /\ Counted

-----------------------------------------------------------------------------
(* Queues.                                                                 *)

\* what enqueue does to the elements of a queue
LEMMA EnqueueElements ==
    ASSUME NEW q \in Seq(Tasks), NEW t \in Tasks
    PROVE  /\ Append(q, t) \in Seq(Tasks)
           /\ Elements(Append(q, t)) = Elements(q) \cup {t}
           /\ NoRepeats(q) /\ t \notin Elements(q) => NoRepeats(Append(q, t))
<1> DEFINE r == Append(q, t)
<1>1. r \in Seq(Tasks) /\ DOMAIN r = 1..(Len(q) + 1) /\ DOMAIN q = 1..Len(q) /\ Len(q) \in Nat
  OBVIOUS
<1>2. /\ \A i \in 1..Len(q) : r[i] = q[i]
      /\ r[Len(q) + 1] = t
  OBVIOUS
<1> HIDE DEF r
<1>3. Elements(r) = Elements(q) \cup {t}
  <2>1. ASSUME NEW x \in Elements(r) PROVE x \in Elements(q) \cup {t}
    <3>1. PICK i \in 1..(Len(q) + 1) : x = r[i]
      BY <1>1 DEF Elements
    <3>2. i \in 1..Len(q) \/ i = Len(q) + 1
      BY <1>1
    <3> QED  BY <1>1, <1>2, <3>1, <3>2 DEF Elements
  <2>2. ASSUME NEW x \in Elements(q) PROVE x \in Elements(r)
    <3>1. PICK i \in 1..Len(q) : x = q[i]
      BY <1>1 DEF Elements
    <3>2. i \in 1..(Len(q) + 1)
      BY <1>1
    <3> QED  BY <1>1, <1>2, <3>1, <3>2 DEF Elements
  <2>3. t \in Elements(r)
    <3>1. Len(q) + 1 \in 1..(Len(q) + 1)
      BY <1>1
    <3> QED  BY <1>1, <1>2, <3>1 DEF Elements
  <2> QED  BY <2>1, <2>2, <2>3
<1>4. ASSUME NoRepeats(q), t \notin Elements(q) PROVE NoRepeats(r)
  <2>1. SUFFICES ASSUME NEW i \in 1..(Len(q) + 1), NEW j \in 1..(Len(q) + 1), r[i] = r[j]
                 PROVE  i = j
    BY <1>1 DEF NoRepeats
  <2>2. CASE i \in 1..Len(q) /\ j \in 1..Len(q)
    BY <1>1, <1>2, <1>4, <2>1, <2>2 DEF NoRepeats
  <2>3. CASE i = Len(q) + 1 /\ j \in 1..Len(q)
    BY <1>1, <1>2, <1>4, <2>1, <2>3 DEF Elements
  <2>4. CASE j = Len(q) + 1 /\ i \in 1..Len(q)
    BY <1>1, <1>2, <1>4, <2>1, <2>4 DEF Elements
  <2> QED  BY <1>1, <2>2, <2>3, <2>4
<1> QED  BY <1>1, <1>3, <1>4 DEF r

\* what dequeue does to the elements of a queue
LEMMA DequeueElements ==
    ASSUME NEW q \in Seq(Tasks), q # <<>>, NoRepeats(q)
    PROVE  /\ Head(q) \in Tasks /\ Head(q) \in Elements(q)
           /\ Tail(q) \in Seq(Tasks)
           /\ Elements(Tail(q)) = Elements(q) \ {Head(q)}
           /\ NoRepeats(Tail(q))
<1> DEFINE r == Tail(q)
<1>1. /\ Len(q) \in Nat \ {0} /\ DOMAIN q = 1..Len(q)
      /\ r \in Seq(Tasks) /\ DOMAIN r = 1..(Len(q) - 1)
      /\ Head(q) = q[1] /\ q[1] \in Tasks
  OBVIOUS
<1>2. \A i \in 1..(Len(q) - 1) : r[i] = q[i + 1]
  OBVIOUS
<1> HIDE DEF r
<1>3. Head(q) \in Elements(q)
  <2>1. 1 \in 1..Len(q)
    BY <1>1
  <2> QED  BY <1>1, <2>1 DEF Elements
<1>4. Elements(r) = Elements(q) \ {Head(q)}
  <2>1. ASSUME NEW x \in Elements(r) PROVE x \in Elements(q) /\ x # q[1]
    <3>1. PICK i \in 1..(Len(q) - 1) : x = r[i]
      BY <1>1 DEF Elements
    <3>2. i + 1 \in 1..Len(q) /\ 1 \in 1..Len(q) /\ i + 1 # 1
      BY <1>1
    <3>3. x = q[i + 1]
      BY <1>2, <3>1
    <3> QED  BY <1>1, <3>2, <3>3 DEF Elements, NoRepeats
  <2>2. ASSUME NEW x \in Elements(q), x # q[1] PROVE x \in Elements(r)
    <3>1. PICK i \in 1..Len(q) : x = q[i]
      BY <1>1 DEF Elements
    <3>2. i - 1 \in 1..(Len(q) - 1) /\ (i - 1) + 1 = i
      BY <1>1, <2>2, <3>1
    <3>3. x = r[i - 1]
      BY <1>2, <3>1, <3>2
    <3> QED  BY <1>1, <3>2, <3>3 DEF Elements
  <2> QED  BY <1>1, <2>1, <2>2
<1>5. NoRepeats(r)
  <2>1. SUFFICES ASSUME NEW i \in 1..(Len(q) - 1), NEW j \in 1..(Len(q) - 1), r[i] = r[j]
                 PROVE  i = j
    BY <1>1 DEF NoRepeats
  <2>2. i + 1 \in 1..Len(q) /\ j + 1 \in 1..Len(q) /\ q[i + 1] = q[j + 1]
    BY <1>1, <1>2, <2>1
  <2>3. i + 1 = j + 1
    BY <1>1, <2>2 DEF NoRepeats
  <2> QED  BY <2>3
<1> QED  BY <1>1, <1>3, <1>4, <1>5 DEF r

\* an empty queue has no elements
LEMMA EmptyQueue == Elements(<<>>) = {} /\ NoRepeats(<<>>) /\ <<>> \in Seq(Tasks)
  BY DEF Elements, NoRepeats

-----------------------------------------------------------------------------
(* Types and lifetimes.                                                    *)

\* the pool is uninitialised at first, and everything is empty
LEMMA PoolInit == Init => PoolInv
<1> SUFFICES ASSUME Init PROVE PoolInv
  OBVIOUS
<1> USE PoolConstants DEF Init, Actors
<1>1. PoolType
  BY EmptyQueue, Zenon DEF PoolType, WorkerLabels, ClientLabels
<1>2. Lifetime
  BY DEF Lifetime
<1>3. CallsCarryNewTasks
  BY DEF CallsCarryNewTasks, Running
<1>4. EachTaskOnce
  BY DEF EachTaskOnce
<1>5. Counted
  <2>1. Busy = {}
    BY DEF Busy
  <2> QED  BY <2>1, FS_EmptySet DEF Counted
<1> QED  BY <1>1, <1>2, <1>3, <1>4, <1>5 DEF PoolInv

\* the busy workers can be counted, and one of them is counted
LEMMA BusyIsFinite ==
    /\ IsFiniteSet(Busy) /\ Cardinality(Busy) \in Nat
    /\ \A w \in Busy : Cardinality(Busy) > 0
<1>1. IsFiniteSet(Busy)
  BY PoolConstants, FS_Subset DEF Busy
<1>2. Cardinality(Busy) \in Nat
  BY <1>1, FS_CardinalityType
<1>3. Busy # {} => Cardinality(Busy) # 0
  BY <1>1, FS_EmptySet
<1> QED  BY <1>1, <1>2, <1>3

\* every step of a worker, a client or a submit call keeps the types
LEMMA TypeNext ==
    ASSUME PoolInv, Next
    PROVE  PoolType'
<1> USE PoolConstants DEF PoolType, Actors, WorkerLabels, ClientLabels, Goto, CallerAt
<1>1. ASSUME NEW w \in Workers, WorkerStep(w) PROVE PoolType'
  <2>1. CASE Dequeue(w)
    <3>1. initialised /\ tasks # <<>> /\ NoRepeats(tasks)
      BY <2>1 DEF PoolInv, Dequeue, EachTaskOnce, Lifetime
    <3>2. Head(tasks) \in Tasks /\ Tail(tasks) \in Seq(Tasks)
      BY <3>1, DequeueElements DEF PoolInv
    <3> QED  BY <2>1, <3>2 DEF PoolInv, Dequeue, history
  <2>2. CASE TaskReturns(w)
    BY <2>2 DEF PoolInv, TaskReturns, pool
  <2>3. CASE CountDown(w)
    <3>1. w \in Busy
      BY <2>3 DEF CountDown, Busy
    <3>2. active > 0
      BY <3>1, BusyIsFinite DEF PoolInv, Counted
    <3> QED  BY <2>3, <3>2 DEF PoolInv, CountDown, history
  <2>4. CASE WorkerLeaves(w) \/ WorkerFails(w)
    BY <2>4 DEF PoolInv, WorkerLeaves, WorkerFails, history, pool
  <2> QED  BY <1>1, <2>1, <2>2, <2>3, <2>4 DEF WorkerStep
<1>2. ASSUME NEW c \in Clients, ClientStep(c) PROVE PoolType'
  <2>1. CASE Initialize(c)
    BY <2>1, Zenon DEF PoolInv, Initialize
  <2>2. CASE LockPool(c) \/ UnlockPool(c)
    BY <2>2 DEF PoolInv, LockPool, UnlockPool, history, pool
  <2>3. CASE DestroyCall(c)
    BY <2>3, Zenon DEF PoolInv, DestroyCall, history
  <2>4. CASE Teardown(c)
    BY <2>4, EmptyQueue, Zenon DEF PoolInv, Teardown, history
  <2>5. CASE WaitCall(c) \/ WaitLock(c) \/ WaitDone(c) \/ WaitFails(c)
    BY <2>5 DEF PoolInv, WaitCall, WaitLock, WaitDone, WaitFails, history, pool
  <2> QED  BY <1>2, <2>1, <2>2, <2>3, <2>4, <2>5 DEF ClientStep
<1>3. ASSUME NEW a \in Actors, SubmitStep(a) PROVE PoolType'
  <2>1. CASE \E t \in Tasks : SubmitCall(a, t)
    BY <2>1 DEF PoolInv, SubmitCall, pool
  <2>2. CASE Submit(a)
    <3>1. arg[a] \in Tasks /\ arg[a] \in offered
      BY <2>2 DEF PoolInv, CallsCarryNewTasks, Submit
    <3> QED  BY <2>2, <3>1, EnqueueElements DEF PoolInv, Submit, SubmitReturns
  <2>3. CASE SubmitRefused(a)
    BY <2>3 DEF PoolInv, SubmitRefused, SubmitReturns, history, pool
  <2> QED  BY <1>3, <2>1, <2>2, <2>3 DEF SubmitStep
<1> QED  BY <1>1, <1>2, <1>3, Zenon DEF Next

\* nothing runs outside a life of the pool, and destroy() is alone
LEMMA LifetimeNext ==
    ASSUME PoolInv, Next
    PROVE  Lifetime'
<1> USE PoolConstants DEF PoolInv, PoolType, Lifetime, Actors, WorkerLabels, ClientLabels,
        Goto, CallerAt, Usable
<1>1. ASSUME NEW w \in Workers, WorkerStep(w) PROVE Lifetime'
  <2>1. CASE Dequeue(w) \/ TaskReturns(w)
    BY <2>1 DEF Dequeue, TaskReturns, pool
  <2>2. CASE CountDown(w) \/ WorkerLeaves(w) \/ WorkerFails(w)
    BY <2>2 DEF CountDown, WorkerLeaves, WorkerFails, pool
  <2> QED  BY <1>1, <2>1, <2>2 DEF WorkerStep
<1>2. ASSUME NEW c \in Clients, ClientStep(c) PROVE Lifetime'
  <2>1. CASE Initialize(c)
    BY <2>1 DEF Initialize
  <2>2. CASE LockPool(c) \/ UnlockPool(c)
    BY <2>2 DEF LockPool, UnlockPool, pool
  <2>3. CASE DestroyCall(c)
    BY <2>3 DEF DestroyCall
  <2>4. CASE Teardown(c)
    BY <2>4 DEF Teardown
  <2>5. CASE WaitCall(c)
    BY <2>5 DEF WaitCall, pool
  <2>6. CASE WaitLock(c) \/ WaitDone(c) \/ WaitFails(c)
    BY <2>6 DEF WaitLock, WaitDone, WaitFails, pool
  <2> QED  BY <1>2, <2>1, <2>2, <2>3, <2>4, <2>5, <2>6 DEF ClientStep
<1>3. ASSUME NEW a \in Actors, SubmitStep(a) PROVE Lifetime'
  <2>1. CASE \E t \in Tasks : SubmitCall(a, t)
    BY <2>1 DEF SubmitCall, pool
  <2>2. CASE Submit(a)
    BY <2>2 DEF Submit, SubmitReturns
  <2>3. CASE SubmitRefused(a)
    BY <2>3 DEF SubmitRefused, SubmitReturns, pool
  <2> QED  BY <1>3, <2>1, <2>2, <2>3 DEF SubmitStep
<1> QED  BY <1>1, <1>2, <1>3 DEF Next

\* a submit call brings a task no other call, queue or worker has
LEMMA CallsNext ==
    ASSUME PoolInv, Next
    PROVE  CallsCarryNewTasks'
<1> USE PoolConstants DEF PoolInv, PoolType, CallsCarryNewTasks, Actors, WorkerLabels,
        ClientLabels, Goto, CallerAt, Running
<1>1. ASSUME NEW w \in Workers, WorkerStep(w) PROVE CallsCarryNewTasks'
  <2>1. CASE Dequeue(w)
    <3>1. initialised /\ tasks # <<>> /\ NoRepeats(tasks)
      BY <2>1 DEF Dequeue, EachTaskOnce, Lifetime
    <3>2. Head(tasks) \in Tasks
      BY <3>1, DequeueElements
    <3> QED  BY <2>1, <3>2 DEF Dequeue, history
  <2>2. CASE TaskReturns(w)
    BY <2>2 DEF TaskReturns
  <2>3. CASE CountDown(w) \/ WorkerLeaves(w) \/ WorkerFails(w)
    BY <2>3 DEF CountDown, WorkerLeaves, WorkerFails, history
  <2> QED  BY <1>1, <2>1, <2>2, <2>3 DEF WorkerStep
<1>2. ASSUME NEW c \in Clients, ClientStep(c) PROVE CallsCarryNewTasks'
  <2>1. CASE Initialize(c)
    <3>1. \A a \in Actors : pc'[a] # "submit"
      BY <2>1 DEF Initialize, Lifetime
    <3>2. \A w \in Workers : pc'[w] # "run"
      BY <2>1 DEF Initialize, Lifetime
    <3> QED  BY <3>1, <3>2
  <2>2. CASE LockPool(c) \/ UnlockPool(c)
    BY <2>2 DEF LockPool, UnlockPool, history
  <2>3. CASE DestroyCall(c) \/ Teardown(c)
    BY <2>3 DEF DestroyCall, Teardown, history
  <2>4. CASE WaitCall(c) \/ WaitLock(c) \/ WaitDone(c) \/ WaitFails(c)
    BY <2>4 DEF WaitCall, WaitLock, WaitDone, WaitFails, history
  <2> QED  BY <1>2, <2>1, <2>2, <2>3, <2>4 DEF ClientStep
<1>3. ASSUME NEW a \in Actors, SubmitStep(a) PROVE CallsCarryNewTasks'
  <2>1. CASE \E t \in Tasks : SubmitCall(a, t)
    BY <2>1 DEF SubmitCall
  <2>2. CASE Submit(a)
    BY <2>2 DEF Submit, SubmitReturns
  <2>3. CASE SubmitRefused(a)
    BY <2>3 DEF SubmitRefused, SubmitReturns, history
  <2> QED  BY <1>3, <2>1, <2>2, <2>3 DEF SubmitStep
<1> QED  BY <1>1, <1>2, <1>3 DEF Next

\* _active never falls below the number of busy workers
LEMMA CountedNext ==
    ASSUME PoolInv, Next
    PROVE  Counted'
<1> USE PoolConstants DEF PoolInv, PoolType, Actors, Goto, CallerAt, Counted
<1>1. ASSUME Busy' \subseteq Busy, active' = active PROVE Counted'
  <2>1. Cardinality(Busy') <= Cardinality(Busy)
    BY <1>1, BusyIsFinite, FS_Subset
  <2>2. IsFiniteSet(Busy')
    BY <1>1, BusyIsFinite, FS_Subset
  <2>3. Cardinality(Busy') \in Nat
    BY <2>2, FS_CardinalityType
  <2> QED  BY <1>1, <2>1, <2>3, BusyIsFinite
<1>2. ASSUME NEW w \in Workers, WorkerStep(w) PROVE Counted'
  <2>1. CASE Dequeue(w)
    <3>1. w \notin Busy /\ Busy' = Busy \cup {w} /\ active' = active + 1
      BY <2>1 DEF Dequeue, Busy
    <3>2. Cardinality(Busy') = Cardinality(Busy) + 1
      BY <3>1, BusyIsFinite, FS_AddElement, Zenon
    <3> QED  BY <3>1, <3>2, BusyIsFinite
  <2>2. CASE CountDown(w)
    <3>1. w \in Busy /\ Busy' = Busy \ {w} /\ active' = active - 1
      BY <2>2 DEF CountDown, Busy
    <3>2. Cardinality(Busy') = Cardinality(Busy) - 1
      BY <3>1, BusyIsFinite, FS_RemoveElement, Zenon
    <3> QED  BY <3>1, <3>2, BusyIsFinite
  <2>3. CASE TaskReturns(w)
    BY <1>1, <2>3 DEF TaskReturns, Busy, pool
  <2>4. CASE WorkerLeaves(w) \/ WorkerFails(w)
    BY <1>1, <2>4 DEF WorkerLeaves, WorkerFails, Busy, pool
  <2> QED  BY <1>2, <2>1, <2>2, <2>3, <2>4 DEF WorkerStep
<1>3. ASSUME NEW c \in Clients, ClientStep(c) PROVE Counted'
  <2>1. CASE Initialize(c)
    <3>1. Busy' = {} /\ active' = 0
      BY <2>1 DEF Initialize, Lifetime, Busy
    <3> QED  BY <3>1, FS_EmptySet
  <2>2. CASE LockPool(c) \/ UnlockPool(c)
    BY <1>1, <2>2 DEF LockPool, UnlockPool, Busy, pool
  <2>3. CASE DestroyCall(c) \/ Teardown(c)
    BY <1>1, <2>3 DEF DestroyCall, Teardown, Busy
  <2>4. CASE WaitCall(c) \/ WaitLock(c) \/ WaitDone(c) \/ WaitFails(c)
    BY <1>1, <2>4 DEF WaitCall, WaitLock, WaitDone, WaitFails, Busy, pool
  <2> QED  BY <1>3, <2>1, <2>2, <2>3, <2>4 DEF ClientStep
<1>4. ASSUME NEW a \in Actors, SubmitStep(a) PROVE Counted'
  <2>1. CASE \E t \in Tasks : SubmitCall(a, t)
    BY <1>1, <2>1 DEF SubmitCall, Busy, pool
  <2>2. CASE Submit(a)
    BY <1>1, <2>2 DEF Submit, SubmitReturns, Busy
  <2>3. CASE SubmitRefused(a)
    BY <1>1, <2>3 DEF SubmitRefused, SubmitReturns, Busy, pool
  <2> QED  BY <1>4, <2>1, <2>2, <2>3 DEF SubmitStep
<1> QED  BY <1>2, <1>3, <1>4 DEF Next

-----------------------------------------------------------------------------
(* Every accepted task is somewhere, once.                                 *)

\* the tasks in the workers' hands
InHand == {task[w] : w \in Running}

\* a step that moves no task between queue, workers and the finished ones
LEMMA TasksStay ==
    ASSUME PoolInv, Running' = Running, UNCHANGED <<task, tasks, accepted, done>>,
           initialised' = initialised
    PROVE  EachTaskOnce'
  BY DEF PoolInv, EachTaskOnce, Queued

\* enqueue, dequeue and return move one task and leave the others alone
LEMMA TasksNext ==
    ASSUME PoolInv, Next
    PROVE  EachTaskOnce'
<1> USE PoolConstants DEF PoolInv, PoolType, Actors, Goto, CallerAt
<1>1. ASSUME NEW w \in Workers, WorkerStep(w) PROVE EachTaskOnce'
  <2>1. CASE Dequeue(w)
    <3>1. /\ initialised /\ initialised' = initialised
          /\ w \notin Running /\ Running' = Running \cup {w}
          /\ task' = [task EXCEPT ![w] = Head(tasks)]
          /\ tasks # <<>> /\ tasks' = Tail(tasks)
          /\ accepted' = accepted /\ done' = done
      BY <2>1 DEF Dequeue, Running, Lifetime, history
    <3>2. /\ Head(tasks) \in Queued
          /\ Queued' = Queued \ {Head(tasks)}
          /\ NoRepeats(tasks')
      BY <3>1, DequeueElements DEF EachTaskOnce, Queued
    <3>3. Head(tasks) \notin InHand \cup done
      BY <3>1, <3>2 DEF EachTaskOnce, InHand
    <3>4. /\ \A v \in Running : v \in Workers /\ task'[v] = task[v]
          /\ task'[w] = Head(tasks)
      BY <3>1 DEF Running
    <3>5. InHand' = InHand \cup {Head(tasks)}
      BY <3>1, <3>4 DEF InHand
    <3>6. accepted' = Queued' \cup InHand' \cup done'
      BY <3>1, <3>2, <3>5 DEF EachTaskOnce, InHand
    <3>7. Queued' \cap (InHand' \cup done') = {}
      BY <3>1, <3>2, <3>5 DEF EachTaskOnce, InHand
    <3>8. \A v \in Running' : task'[v] \notin done'
      BY <3>1, <3>3, <3>4 DEF EachTaskOnce
    <3>9. \A u, v \in Running' : task'[u] = task'[v] => u = v
      BY <3>1, <3>3, <3>4 DEF EachTaskOnce, InHand
    <3> QED  BY <3>2, <3>6, <3>7, <3>8, <3>9 DEF EachTaskOnce, InHand
  <2>2. CASE TaskReturns(w)
    <3>1. /\ initialised /\ initialised' = initialised
          /\ w \in Running /\ Running' = Running \ {w}
          /\ task' = [task EXCEPT ![w] = NoTask]
          /\ tasks' = tasks /\ accepted' = accepted
          /\ done' = done \cup {task[w]}
      BY <2>2 DEF TaskReturns, Running, Lifetime, pool
    <3>2. \A v \in Running' : v \in Running /\ v # w /\ task'[v] = task[v]
      BY <3>1 DEF Running
    <3>3. InHand' = InHand \ {task[w]}
      BY <3>1, <3>2 DEF InHand, EachTaskOnce
    <3>4. task[w] \in InHand /\ Queued' = Queued
      BY <3>1 DEF InHand, Queued
    <3>5. accepted' = Queued' \cup InHand' \cup done'
      BY <3>1, <3>3, <3>4 DEF EachTaskOnce, InHand
    <3>6. Queued' \cap (InHand' \cup done') = {}
      BY <3>1, <3>3, <3>4 DEF EachTaskOnce, InHand
    <3>7. \A v \in Running' : task'[v] \notin done'
      BY <3>1, <3>2 DEF EachTaskOnce
    <3>8. \A u, v \in Running' : task'[u] = task'[v] => u = v
      BY <3>1, <3>2 DEF EachTaskOnce
    <3>9. NoRepeats(tasks')
      BY <3>1 DEF EachTaskOnce
    <3> QED  BY <3>5, <3>6, <3>7, <3>8, <3>9 DEF EachTaskOnce, InHand
  <2>3. CASE CountDown(w) \/ WorkerLeaves(w) \/ WorkerFails(w)
    <3>1. Running' = Running
      BY <2>3 DEF CountDown, WorkerLeaves, WorkerFails, Running
    <3> QED
      BY <2>3, <3>1, TasksStay DEF CountDown, WorkerLeaves, WorkerFails, pool, history
  <2> QED  BY <1>1, <2>1, <2>2, <2>3 DEF WorkerStep
<1>2. ASSUME NEW c \in Clients, ClientStep(c) PROVE EachTaskOnce'
  <2>1. CASE Initialize(c)
    <3>1. Running' = {} /\ tasks' = <<>> /\ accepted' = {} /\ done' = {}
      BY <2>1 DEF Initialize, Lifetime, Running
    <3> QED  BY <3>1, EmptyQueue DEF EachTaskOnce, Queued
  <2>2. CASE Teardown(c)
    BY <2>2 DEF Teardown, EachTaskOnce
  <2>3. CASE LockPool(c) \/ UnlockPool(c)
    <3>1. Running' = Running
      BY <2>3 DEF LockPool, UnlockPool, Running
    <3> QED  BY <2>3, <3>1, TasksStay DEF LockPool, UnlockPool, pool, history
  <2>4. CASE DestroyCall(c)
    <3>1. Running' = Running
      BY <2>4 DEF DestroyCall, Running
    <3> QED  BY <2>4, <3>1, TasksStay DEF DestroyCall, history
  <2>5. CASE WaitCall(c) \/ WaitLock(c) \/ WaitDone(c) \/ WaitFails(c)
    <3>1. Running' = Running
      BY <2>5 DEF WaitCall, WaitLock, WaitDone, WaitFails, Running
    <3> QED
      BY <2>5, <3>1, TasksStay DEF WaitCall, WaitLock, WaitDone, WaitFails, pool, history
  <2> QED  BY <1>2, <2>1, <2>2, <2>3, <2>4, <2>5 DEF ClientStep
<1>3. ASSUME NEW a \in Actors, SubmitStep(a) PROVE EachTaskOnce'
  <2>1. CASE \E t \in Tasks : SubmitCall(a, t)
    <3>1. Running' = Running
      BY <2>1 DEF SubmitCall, Running
    <3> QED  BY <2>1, <3>1, TasksStay DEF SubmitCall, pool
  <2>2. CASE SubmitRefused(a)
    <3>1. Running' = Running
      BY <2>2 DEF SubmitRefused, SubmitReturns, Running
    <3> QED  BY <2>2, <3>1, TasksStay DEF SubmitRefused, pool, history
  <2>3. CASE Submit(a)
    <3>1. /\ initialised /\ initialised' = initialised
          /\ Running' = Running /\ task' = task /\ done' = done
          /\ tasks' = Append(tasks, arg[a])
          /\ accepted' = accepted \cup {arg[a]}
      BY <2>3 DEF Submit, SubmitReturns, Running, Lifetime
    <3>2. arg[a] \in Tasks /\ arg[a] \notin accepted
      BY <2>3 DEF Submit, CallsCarryNewTasks
    <3>3. arg[a] \notin Elements(tasks) /\ arg[a] \notin InHand \cup done
      BY <3>1, <3>2 DEF EachTaskOnce, InHand, Queued
    <3>4. Queued' = Queued \cup {arg[a]} /\ NoRepeats(tasks')
      BY <3>1, <3>2, <3>3, EnqueueElements DEF EachTaskOnce, Queued
    <3>5. InHand' = InHand
      BY <3>1 DEF InHand
    <3>6. accepted' = Queued' \cup InHand' \cup done'
      BY <3>1, <3>4, <3>5 DEF EachTaskOnce, InHand
    <3>7. Queued' \cap (InHand' \cup done') = {}
      BY <3>1, <3>3, <3>4, <3>5 DEF EachTaskOnce, InHand
    <3> QED  BY <3>1, <3>4, <3>6, <3>7 DEF EachTaskOnce, InHand
  <2> QED  BY <1>3, <2>1, <2>2, <2>3 DEF SubmitStep
<1> QED  BY <1>1, <1>2, <1>3 DEF Next

\* PoolInv is inductive
LEMMA PoolInvNext == PoolInv /\ [Next]_vars => PoolInv'
<1> SUFFICES ASSUME PoolInv, [Next]_vars PROVE PoolInv'
  OBVIOUS
<1>1. CASE Next
  BY <1>1, TypeNext, LifetimeNext, CallsNext, TasksNext, CountedNext DEF PoolInv
<1>2. CASE UNCHANGED vars
  <2>1. PoolType' /\ Lifetime'
    BY <1>2 DEF vars, pool, history, PoolInv, PoolType, Lifetime
  <2>2. CallsCarryNewTasks' /\ Counted'
    BY <1>2 DEF vars, pool, history, PoolInv, CallsCarryNewTasks, Counted, Busy, Running
  <2>3. Queued' = Queued /\ Running' = Running
    BY <1>2 DEF vars, pool, Queued, Running
  <2>4. EachTaskOnce'
    BY <1>2, <2>3 DEF vars, pool, history, PoolInv, EachTaskOnce
  <2> QED  BY <2>1, <2>2, <2>4 DEF PoolInv
<1> QED  BY <1>1, <1>2

\* while the pool lives, an accepted task is in the queue once, run by one
\* worker, or has returned; whatever fails, for any number of workers
THEOREM TasksRunOnce == Spec => []EachTaskOnce
<1>1. PoolInv => EachTaskOnce
  BY DEF PoolInv
<1> QED  BY <1>1, PoolInit, PoolInvNext, PTL DEF Spec

\* a wait() that returns without an error has seen every accepted task return
THEOREM WaitIsComplete == Spec => WaitMeansDone
<1>1. ASSUME PoolInv, NEW c \in Clients, WaitDone(c) PROVE accepted \subseteq done
  <2>1. initialised /\ tasks = <<>> /\ active = 0
    BY <1>1 DEF WaitDone, PoolInv, Lifetime
  <2>2. Cardinality(Busy) = 0
    BY <1>1, <2>1, BusyIsFinite DEF PoolInv, Counted
  <2>3. Busy = {}
    BY <2>2, BusyIsFinite, FS_EmptySet
  <2>4. Running = {} /\ Queued = {}
    BY <2>1, <2>3, EmptyQueue DEF Running, Busy, Queued
  <2> QED  BY <1>1, <2>1, <2>4 DEF PoolInv, EachTaskOnce
<1>2. PoolInv /\ [Next]_vars => [\A c \in Clients : WaitDone(c) => accepted \subseteq done]_vars
  BY <1>1
<1> QED  BY <1>2, PoolInit, PoolInvNext, PTL DEF Spec, WaitMeansDone

-----------------------------------------------------------------------------
(* destroy() drains the queue.                                             *)

\* a pool with at least one thread, in which nothing fails
SoundPool == Workers # {} /\ Faults = FALSE

\* a worker ends only after the stop and with an empty queue, and from then on
\* submit refuses everything
LeaversSawEmptyQueue ==
    initialised => \A w \in Workers : pc[w] = "gone" => stop /\ tasks = <<>>

\* no step ends a worker early or refills the queue behind it
LEMMA LeaversNext ==
    ASSUME SoundPool, PoolInv, LeaversSawEmptyQueue, Next
    PROVE  LeaversSawEmptyQueue'
<1> USE PoolConstants DEF PoolInv, PoolType, LeaversSawEmptyQueue, Actors, Goto, CallerAt
<1>1. ASSUME NEW w \in Workers, WorkerStep(w) PROVE LeaversSawEmptyQueue'
  <2>1. CASE Dequeue(w)
    BY <2>1 DEF Dequeue
  <2>2. CASE TaskReturns(w) \/ CountDown(w)
    BY <2>2, Zenon DEF TaskReturns, CountDown, pool
  <2>3. CASE WorkerLeaves(w)
    BY <2>3 DEF WorkerLeaves, pool
  <2>4. CASE WorkerFails(w)
    BY <2>4 DEF WorkerFails, SoundPool
  <2> QED  BY <1>1, <2>1, <2>2, <2>3, <2>4 DEF WorkerStep
<1>2. ASSUME NEW c \in Clients, ClientStep(c) PROVE LeaversSawEmptyQueue'
  <2>1. CASE Initialize(c)
    BY <2>1 DEF Initialize, SoundPool
  <2>2. CASE LockPool(c) \/ UnlockPool(c)
    BY <2>2, Zenon DEF LockPool, UnlockPool, pool
  <2>3. CASE DestroyCall(c)
    BY <2>3 DEF DestroyCall, SoundPool
  <2>4. CASE Teardown(c)
    BY <2>4 DEF Teardown
  <2>5. CASE WaitCall(c) \/ WaitLock(c) \/ WaitDone(c) \/ WaitFails(c)
    BY <2>5, Zenon DEF WaitCall, WaitLock, WaitDone, WaitFails, pool
  <2> QED  BY <1>2, <2>1, <2>2, <2>3, <2>4, <2>5 DEF ClientStep
<1>3. ASSUME NEW a \in Actors, SubmitStep(a) PROVE LeaversSawEmptyQueue'
  <2>1. CASE \E t \in Tasks : SubmitCall(a, t)
    BY <2>1 DEF SubmitCall, pool
  <2>2. CASE Submit(a)
    BY <2>2 DEF Submit, SubmitReturns
  <2>3. CASE SubmitRefused(a)
    BY <2>3 DEF SubmitRefused, SubmitReturns, pool
  <2> QED  BY <1>3, <2>1, <2>2, <2>3 DEF SubmitStep
<1> QED  BY <1>1, <1>2, <1>3 DEF Next

\* only destroy() ends a life of the pool
LEMMA OnlyTeardownEnds ==
    ASSUME Next, initialised, ~initialised'
    PROVE  \E c \in Clients : Teardown(c)
<1>1. ASSUME NEW w \in Workers, WorkerStep(w) PROVE FALSE
  BY <1>1, Zenon DEF WorkerStep, Dequeue, TaskReturns, CountDown, WorkerLeaves, WorkerFails, pool
<1>2. ASSUME NEW c \in Clients, ClientStep(c), ~Teardown(c) PROVE FALSE
  BY <1>2, Zenon DEF ClientStep, Initialize, LockPool, UnlockPool, DestroyCall, WaitCall,
              WaitLock, WaitDone, WaitFails, pool
<1>3. ASSUME NEW a \in Actors, SubmitStep(a) PROVE FALSE
  BY <1>3, Zenon DEF SubmitStep, SubmitCall, Submit, SubmitRefused, pool
<1> QED  BY <1>1, <1>2, <1>3 DEF Next

\* destroy() frees the pool after every accepted task has returned and every
\* worker has ended, if the pool has a thread at all and no call fails
THEOREM DestroyIsOrderly ==
    ASSUME SoundPool
    PROVE  Spec => DestroyDrains
<1>1. Init => LeaversSawEmptyQueue
  BY DEF Init, LeaversSawEmptyQueue
<1>2. PoolInv /\ LeaversSawEmptyQueue /\ [Next]_vars => LeaversSawEmptyQueue'
  <2>1. ASSUME PoolInv, LeaversSawEmptyQueue, UNCHANGED vars PROVE LeaversSawEmptyQueue'
    BY <2>1 DEF vars, pool, LeaversSawEmptyQueue
  <2> QED  BY <2>1, LeaversNext
<1>3. ASSUME PoolInv, LeaversSawEmptyQueue, Next, initialised, ~initialised'
      PROVE  /\ accepted \subseteq done
             /\ \A w \in Workers : pc[w] = "gone"
  <2>1. \A w \in Workers : pc[w] = "gone"
    BY <1>3, OnlyTeardownEnds, Zenon DEF Teardown
  <2>2. tasks = <<>>
    BY <1>3, <2>1 DEF LeaversSawEmptyQueue, SoundPool
  <2>3. Running = {} /\ Queued = {}
    BY <2>1, <2>2, EmptyQueue DEF Running, Queued
  <2> QED  BY <1>3, <2>1, <2>3 DEF PoolInv, EachTaskOnce
<1>4. PoolInv /\ LeaversSawEmptyQueue /\ [Next]_vars =>
          [initialised /\ ~initialised' =>
               /\ accepted \subseteq done
               /\ \A w \in Workers : pc[w] = "gone"]_vars
  BY <1>3
<1> QED  BY <1>1, <1>2, <1>4, PoolInit, PoolInvNext, PTL DEF Spec, DestroyDrains

=============================================================================
