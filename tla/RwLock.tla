------------------------------- MODULE RwLock -------------------------------
(***************************************************************************)
(* The strategy read/write lock of Modules/PThread/pthread_rwlock.cpp      *)
(* (the pt_rwlock_strategy calls): a mutex, two conditions, tickets for    *)
(* queued writers and readers, bounded reader phases, and a lock-free fast *)
(* path for readers built from two atomics.                                *)
(*                                                                         *)
(* Grain.  Whatever the code does between two accesses to the atomics      *)
(* fast_active_readers and reader_fast_path_open is one step; the internal *)
(* mutex is held across steps exactly where a critical section makes two   *)
(* such accesses.  A call that changes nothing (NOT_OWNER, ALREADY_LOCKED, *)
(* BUSY from an idle thread, INVALID_STATE) is a stuttering step, so it    *)
(* shows up here as the negation of its condition in a guard.              *)
(***************************************************************************)
EXTENDS Integers, FiniteSets

CONSTANTS
    Threads,          \* threads that use the lock
    NoThread,         \* active_writer_thread = 0, or the mutex is free
    Strategy,         \* "WRITER_PRIORITY" or "READER_PRIORITY"
    MaxTicket,        \* UINT64_MAX
    Calls,            \* which lock calls each thread makes
    StoreBuffering,   \* may a release store be overtaken by a later load?
    Faults            \* failures that can happen: subset of FaultKinds

CallKinds == {"rdlock", "try_rdlock", "wrlock", "try_wrlock"}
FaultKinds == {"CONDITION_WAIT", "READER_BOOKKEEPING", "INIT"}

ASSUME RwLockAssumption ==
    /\ IsFiniteSet(Threads)
    /\ NoThread \notin Threads
    /\ Strategy \in {"WRITER_PRIORITY", "READER_PRIORITY"}
    /\ MaxTicket \in Nat \ {0}
    /\ Calls \in [Threads -> SUBSET CallKinds]
    /\ StoreBuffering \in BOOLEAN
    /\ Faults \subseteq FaultKinds

VARIABLES
    initialised_state,        \* "INITIALISED" or "DESTROYED"
    mutex,                    \* owner of the internal mutex, or NoThread
    active_readers,           \* readers admitted under the mutex
    fast_active_readers,      \* atomic: readers admitted without it
    reader_fast_path_open,    \* atomic
    close_pending,            \* a close that is still in the store buffer
    waiting_readers,
    waiting_writers,
    next_writer_ticket,
    serving_writer_ticket,
    cancelled_writer_tickets,
    next_reader_ticket,
    reader_phase_cutoff,
    reader_phase_open,
    active_writer_thread,     \* writer_active is active_writer_thread # NoThread
    active_writer_has_ticket,
    reader_condition,         \* threads blocked in pthread_cond_wait
    writer_condition,
    tls,                      \* the thread-local read-lock record for this lock
    pc,                       \* where a thread is inside a call
    call,                     \* which read-side call it is in
    ticket,                   \* its reader or writer ticket
    holds                     \* what the calls that returned have granted

fastVars   == <<fast_active_readers, reader_fast_path_open, close_pending>>
countVars  == <<active_readers, waiting_readers, waiting_writers>>
wticketVars == <<next_writer_ticket, serving_writer_ticket,
                 cancelled_writer_tickets>>
phaseVars  == <<next_reader_ticket, reader_phase_cutoff, reader_phase_open>>
writerVars == <<active_writer_thread, active_writer_has_ticket>>
condVars   == <<reader_condition, writer_condition>>
threadVars == <<tls, pc, call, ticket, holds>>
vars == <<initialised_state, mutex, fastVars, countVars, wticketVars,
          phaseVars, writerVars, condVars, threadVars>>

NoTicket == -1
Ticket == 0..MaxTicket

\* Inside the fast path, the wake-up of a writer, a blocked or queued reader,
\* and the writer side.
FastPc  == {"fast_cas", "fast_recheck", "fast_undo"}
WakePc  == {"wake_check", "wake_mutex", "wake_close"}
ReadPc  == {"rd_mutex", "rd_wait"}
QueuedPc == {"wr_check", "wr_wait", "wr_fail", "wr_take"}
WritePc == QueuedPc \cup {"try_take"}
UnlockPc == {"rd_unlock", "wr_unlock"}

TypeOK ==
    /\ initialised_state \in {"INITIALISED", "DESTROYED"}
    /\ mutex \in Threads \cup {NoThread}
    /\ active_readers \in Nat /\ fast_active_readers \in Nat
    /\ waiting_readers \in Nat /\ waiting_writers \in Nat
    /\ reader_fast_path_open \in BOOLEAN /\ close_pending \in BOOLEAN
    /\ next_writer_ticket \in Ticket /\ serving_writer_ticket \in Ticket
    /\ next_reader_ticket \in Ticket /\ reader_phase_cutoff \in Ticket
    /\ cancelled_writer_tickets \in SUBSET Ticket
    /\ reader_phase_open \in BOOLEAN
    /\ active_writer_thread \in Threads \cup {NoThread}
    /\ active_writer_has_ticket \in BOOLEAN
    /\ reader_condition \in SUBSET Threads
    /\ writer_condition \in SUBSET Threads
    /\ tls \in [Threads -> {"none", "fast", "slow"}]
    /\ pc \in [Threads -> {"idle"} \cup FastPc \cup WakePc \cup ReadPc \cup WritePc
                            \cup UnlockPc]
    /\ call \in [Threads -> {"none", "rdlock", "try_rdlock", "rdunlock"}]
    /\ ticket \in [Threads -> Ticket \cup {NoTicket}]
    /\ holds \in [Threads -> {"none", "read", "write"}]

-----------------------------------------------------------------------------
(* Predicates and ticket arithmetic of the code.                           *)

WriterPriority == Strategy = "WRITER_PRIORITY"
writer_active == active_writer_thread # NoThread
HasActiveReaders == active_readers # 0 \/ fast_active_readers # 0

\* A reader that arrives now has to queue (or, for try_rdlock, is refused).
ReaderGated ==
    writer_active \/ (WriterPriority /\ (waiting_writers # 0 \/ reader_phase_open))

\* Mutant: a phase admits readers of any ticket.
ReaderBlockedNoCutoff(k) ==
    \/ writer_active
    \/ WriterPriority /\ ~reader_phase_open /\ waiting_writers # 0

\* The predicate of the reader's wait loop, for a reader holding ticket k.
ReaderBlocked(k) ==
    \/ writer_active
    \/ /\ WriterPriority
       /\ \/ reader_phase_open /\ (k = NoTicket \/ k >= reader_phase_cutoff)
          \/ ~reader_phase_open /\ waiting_writers # 0

\* Mutants: the wait loop forgets the readers, or the ticket order.
WriterBlockedIgnoresReaders(k) ==
    writer_active \/ reader_phase_open \/ k # serving_writer_ticket

WriterBlockedAnyTicket(k) == HasActiveReaders \/ writer_active \/ reader_phase_open

\* The predicate of the writer's wait loop, for a writer holding ticket k.
WriterBlocked(k) ==
    HasActiveReaders \/ writer_active \/ reader_phase_open
        \/ k # serving_writer_ticket

\* What refresh_reader_fast_path stores, when w writers wait and the reader
\* phase is open iff phase.
RefreshedFastPath(w, phase) ==
    ~(writer_active \/ (WriterPriority /\ (w # 0 \/ phase)))

\* Mutant: cancelled tickets are not skipped.
AdvanceOverNothing(s, cancelled) == s

\* advance_cancelled: the first ticket from s on that is not cancelled.
AdvanceCancelled(s, cancelled) ==
    CHOOSE n \in s..MaxTicket : /\ n \notin cancelled
                                /\ \A m \in s..(n - 1) : m \in cancelled

\* Both ticket counters restart from zero when they are exhausted and nobody
\* is in or behind the lock.
TicketsExhausted ==
    /\ next_writer_ticket = MaxTicket /\ serving_writer_ticket = MaxTicket
    /\ waiting_writers = 0 /\ ~writer_active /\ ~HasActiveReaders

NextTicket == IF TicketsExhausted THEN 0 ELSE next_writer_ticket
ServingTicket == IF TicketsExhausted THEN 0 ELSE serving_writer_ticket

\* After a thread leaves wake_writer_after_reader_exit: a blocking rdlock goes
\* on to the slow path, try_rdlock returns BUSY and rdunlock returns.
LeaveWake(t) ==
    /\ pc' = [pc EXCEPT ![t] = IF call[t] = "rdlock" THEN "rd_mutex" ELSE "idle"]
    /\ call' = [call EXCEPT ![t] = IF @ = "rdlock" THEN @ ELSE "none"]

ReturnTo(t) ==
    /\ pc' = [pc EXCEPT ![t] = "idle"]
    /\ call' = [call EXCEPT ![t] = "none"]

-----------------------------------------------------------------------------
(* Lifecycle.                                                              *)

Init ==
    /\ initialised_state = "INITIALISED"
    /\ mutex = NoThread
    /\ active_readers = 0 /\ fast_active_readers = 0
    /\ reader_fast_path_open = TRUE /\ close_pending = FALSE
    /\ waiting_readers = 0 /\ waiting_writers = 0
    /\ next_writer_ticket = 0 /\ serving_writer_ticket = 0
    /\ cancelled_writer_tickets = {}
    /\ next_reader_ticket = 0 /\ reader_phase_cutoff = 0
    /\ reader_phase_open = FALSE
    /\ active_writer_thread = NoThread /\ active_writer_has_ticket = FALSE
    /\ reader_condition = {} /\ writer_condition = {}
    /\ tls = [t \in Threads |-> "none"]
    /\ pc = [t \in Threads |-> "idle"]
    /\ call = [t \in Threads |-> "none"]
    /\ ticket = [t \in Threads |-> NoTicket]
    /\ holds = [t \in Threads |-> "none"]

\* The owner of the lock calls destroy and init with no other call in
\* progress; the lock may still be held.
NoCallInProgress == \A t \in Threads : pc[t] = "idle"

Destroy ==
    /\ NoCallInProgress
    /\ initialised_state = "INITIALISED"
    /\ mutex = NoThread
    /\ ~HasActiveReaders /\ ~writer_active
    /\ waiting_readers = 0 /\ waiting_writers = 0
    /\ initialised_state' = "DESTROYED"
    /\ reader_fast_path_open' = FALSE
    /\ cancelled_writer_tickets' = {}
    /\ UNCHANGED <<mutex, fast_active_readers, close_pending, countVars,
                   next_writer_ticket, serving_writer_ticket, phaseVars,
                   writerVars, condVars, threadVars>>

\* pt_rwlock_strategy_init; a mutex or condition variable that cannot be
\* created leaves the lock destroyed and the fast path closed.
Initialise ==
    /\ NoCallInProgress
    /\ initialised_state = "DESTROYED"
    /\ active_readers' = 0 /\ fast_active_readers' = 0
    /\ waiting_readers' = 0 /\ waiting_writers' = 0
    /\ next_writer_ticket' = 0 /\ serving_writer_ticket' = 0
    /\ cancelled_writer_tickets' = {}
    /\ next_reader_ticket' = 0 /\ reader_phase_cutoff' = 0
    /\ reader_phase_open' = FALSE
    /\ active_writer_thread' = NoThread /\ active_writer_has_ticket' = FALSE
    /\ \/ initialised_state' = "INITIALISED" /\ reader_fast_path_open' = TRUE
       \/ /\ "INIT" \in Faults
          /\ initialised_state' = "DESTROYED" /\ reader_fast_path_open' = FALSE
    /\ UNCHANGED <<mutex, close_pending, condVars, threadVars>>

-----------------------------------------------------------------------------
(* rdlock and try_rdlock.                                                  *)

\* Entry of both calls, up to the first load of reader_fast_path_open.  The
\* record for the fast path is written before the counter is incremented.
RdLockCall(t, c) ==
    /\ c \in Calls[t]
    /\ pc[t] = "idle" /\ initialised_state = "INITIALISED"
    /\ tls[t] = "none"
    /\ call' = [call EXCEPT ![t] = c]
    /\ IF reader_fast_path_open
       THEN /\ tls' = [tls EXCEPT ![t] = "fast"]
            /\ pc' = [pc EXCEPT ![t] = "fast_cas"]
       ELSE /\ pc' = [pc EXCEPT ![t] = "rd_mutex"]
            /\ UNCHANGED tls
    /\ UNCHANGED <<initialised_state, mutex, fastVars, countVars, wticketVars,
                   phaseVars, writerVars, condVars, ticket, holds>>

RdLock(t) == RdLockCall(t, "rdlock")
TryRdLock(t) == RdLockCall(t, "try_rdlock")

\* The compare-and-swap loop that adds one fast reader.
FastIncrement(t) ==
    /\ pc[t] = "fast_cas"
    /\ fast_active_readers' = fast_active_readers + 1
    /\ pc' = [pc EXCEPT ![t] = "fast_recheck"]
    /\ UNCHANGED <<initialised_state, mutex, reader_fast_path_open,
                   close_pending, countVars, wticketVars, phaseVars,
                   writerVars, condVars, tls, call, ticket, holds>>

\* The second load of reader_fast_path_open decides.
FastRecheck(t) ==
    /\ pc[t] = "fast_recheck"
    /\ IF reader_fast_path_open
       THEN /\ ReturnTo(t)
            /\ holds' = [holds EXCEPT ![t] = "read"]
            /\ UNCHANGED tls
       ELSE /\ tls' = [tls EXCEPT ![t] = "none"]
            /\ pc' = [pc EXCEPT ![t] = "fast_undo"]
            /\ UNCHANGED <<call, holds>>
    /\ UNCHANGED <<initialised_state, mutex, fastVars, countVars, wticketVars,
                   phaseVars, writerVars, condVars, ticket>>

\* Mutant: a reader that backs out of the fast path wakes nobody.
FastUndoNoWake(t) ==
    /\ pc[t] = "fast_undo"
    /\ fast_active_readers' = fast_active_readers - 1
    /\ LeaveWake(t)
    /\ UNCHANGED <<initialised_state, mutex, reader_fast_path_open,
                   close_pending, countVars, wticketVars, phaseVars,
                   writerVars, condVars, tls, ticket, holds>>

FastUndo(t) ==
    /\ pc[t] = "fast_undo"
    /\ fast_active_readers' = fast_active_readers - 1
    /\ pc' = [pc EXCEPT ![t] = "wake_check"]
    /\ UNCHANGED <<initialised_state, mutex, reader_fast_path_open,
                   close_pending, countVars, wticketVars, phaseVars,
                   writerVars, condVars, tls, call, ticket, holds>>

\* wake_writer_after_reader_exit, first load: only the reader that sees the
\* counter at zero goes on to take the mutex.
WakeCheck(t) ==
    /\ pc[t] = "wake_check"
    /\ IF fast_active_readers # 0
       THEN LeaveWake(t)
       ELSE /\ pc' = [pc EXCEPT ![t] = "wake_mutex"]
            /\ UNCHANGED call
    /\ UNCHANGED <<initialised_state, mutex, fastVars, countVars, wticketVars,
                   phaseVars, writerVars, condVars, tls, ticket, holds>>

\* Under the mutex: the second load, and the test for waiting writers.
WakeLock(t) ==
    /\ pc[t] = "wake_mutex" /\ mutex = NoThread
    /\ IF fast_active_readers = 0 /\ waiting_writers # 0
       THEN /\ mutex' = t
            /\ pc' = [pc EXCEPT ![t] = "wake_close"]
            /\ UNCHANGED call
       ELSE /\ LeaveWake(t)
            /\ UNCHANGED mutex
    /\ UNCHANGED <<initialised_state, fastVars, countVars, wticketVars,
                   phaseVars, writerVars, condVars, tls, ticket, holds>>

WakeClose(t) ==
    /\ pc[t] = "wake_close"
    /\ reader_fast_path_open' = FALSE
    /\ writer_condition' = {}
    /\ mutex' = NoThread
    /\ LeaveWake(t)
    /\ UNCHANGED <<initialised_state, fast_active_readers, close_pending,
                   countVars, wticketVars, phaseVars, writerVars,
                   reader_condition, tls, ticket, holds>>

\* Mutant: the admitted reader stays in waiting_readers.
AdmitReaderStillWaiting(t, w) ==
    /\ tls' = [tls EXCEPT ![t] = "slow"]
    /\ active_readers' = active_readers + 1
    /\ waiting_readers' = waiting_readers
    /\ ticket' = [ticket EXCEPT ![t] = NoTicket]
    /\ holds' = [holds EXCEPT ![t] = "read"]
    /\ ReturnTo(t)
    /\ UNCHANGED <<reader_phase_open, reader_fast_path_open, writer_condition>>

\* A reader gets its record and is counted; w is the waiting_readers that the
\* critical section leaves.
AdmitReader(t, w) ==
    /\ tls' = [tls EXCEPT ![t] = "slow"]
    /\ active_readers' = active_readers + 1
    /\ waiting_readers' = w
    /\ ticket' = [ticket EXCEPT ![t] = NoTicket]
    /\ holds' = [holds EXCEPT ![t] = "read"]
    /\ ReturnTo(t)
    /\ UNCHANGED <<reader_phase_open, reader_fast_path_open, writer_condition>>

\* A reader that fails leaves the queue and runs close_empty_reader_phase;
\* w is the waiting_readers that remain.
ReaderFails(t, w) ==
    /\ waiting_readers' = w
    /\ IF reader_phase_open /\ ~HasActiveReaders /\ w = 0
       THEN /\ reader_phase_open' = FALSE
            /\ reader_fast_path_open' = RefreshedFastPath(waiting_writers, FALSE)
            /\ writer_condition' = IF waiting_writers # 0 THEN {} ELSE writer_condition
       ELSE UNCHANGED <<reader_phase_open, reader_fast_path_open, writer_condition>>
    /\ ticket' = [ticket EXCEPT ![t] = NoTicket]
    /\ ReturnTo(t)
    /\ UNCHANGED <<tls, active_readers, holds>>

\* What no step of a slow reader touches.
SlowReaderUnchanged ==
    UNCHANGED <<initialised_state, mutex, fast_active_readers, close_pending,
                waiting_writers, wticketVars, reader_phase_cutoff, writerVars>>

\* Slow path, no gate: the reader is admitted at once, or its record does not
\* fit (PT_RWLOCK_TLS_READ_LOCK_CAPACITY).
RdSlowAdmit(t) ==
    /\ pc[t] = "rd_mutex" /\ mutex = NoThread
    /\ ~ReaderGated
    /\ \/ AdmitReader(t, waiting_readers)
       \/ "READER_BOOKKEEPING" \in Faults /\ ReaderFails(t, waiting_readers)
    /\ UNCHANGED <<reader_condition, next_reader_ticket>>
    /\ SlowReaderUnchanged

\* The reader ticket a queued reader takes: exhausted tickets restart from
\* zero only while nobody reads or waits to read.
ReaderTicketsRestart ==
    waiting_readers = 0 /\ ~HasActiveReaders /\ ~reader_phase_open

ReaderTicket ==
    IF next_reader_ticket = MaxTicket /\ ReaderTicketsRestart
    THEN 0 ELSE next_reader_ticket

\* Slow path, gate closed: ALREADY_LOCKED for the active writer, BUSY for
\* try_rdlock (also when the mutex is taken), OUT_OF_RANGE without a ticket.
RdSlowReject(t) ==
    /\ pc[t] = "rd_mutex"
    /\ \/ mutex # NoThread /\ call[t] = "try_rdlock"
       \/ /\ mutex = NoThread /\ ReaderGated
          /\ \/ active_writer_thread = t
             \/ call[t] = "try_rdlock"
             \/ ReaderTicket = MaxTicket
    /\ ReturnTo(t)
    /\ UNCHANGED <<initialised_state, mutex, fastVars, countVars, wticketVars,
                   phaseVars, writerVars, condVars, tls, ticket, holds>>

\* Slow path, gate closed: take a ticket and enter pthread_cond_wait.
RdSlowQueue(t) ==
    /\ pc[t] = "rd_mutex" /\ mutex = NoThread
    /\ ReaderGated /\ active_writer_thread # t /\ call[t] = "rdlock"
    /\ ReaderTicket # MaxTicket
    /\ next_reader_ticket' = ReaderTicket + 1
    /\ \/ /\ ticket' = [ticket EXCEPT ![t] = ReaderTicket]
          /\ waiting_readers' = waiting_readers + 1
          /\ reader_condition' = reader_condition \cup {t}
          /\ pc' = [pc EXCEPT ![t] = "rd_wait"]
          /\ UNCHANGED <<tls, active_readers, holds, call, reader_phase_open,
                         reader_fast_path_open, writer_condition>>
       \/ /\ "CONDITION_WAIT" \in Faults
          /\ ReaderFails(t, waiting_readers)
          /\ UNCHANGED reader_condition
    /\ SlowReaderUnchanged

\* pthread_cond_wait returns with the mutex and the loop tests again.
RdResume(t) ==
    /\ pc[t] = "rd_wait" /\ t \notin reader_condition /\ mutex = NoThread
    /\ IF ReaderBlocked(ticket[t])
       THEN \/ /\ reader_condition' = reader_condition \cup {t}
               /\ UNCHANGED <<threadVars, active_readers, waiting_readers,
                              reader_phase_open, reader_fast_path_open,
                              writer_condition>>
            \/ /\ "CONDITION_WAIT" \in Faults
               /\ ReaderFails(t, waiting_readers - 1)
               /\ UNCHANGED reader_condition
       ELSE /\ \/ AdmitReader(t, waiting_readers - 1)
               \/ /\ "READER_BOOKKEEPING" \in Faults
                  /\ ReaderFails(t, waiting_readers - 1)
            /\ UNCHANGED reader_condition
    /\ UNCHANGED next_reader_ticket
    /\ SlowReaderUnchanged

-----------------------------------------------------------------------------
(* wrlock and try_wrlock.                                                  *)

\* Mutants: a reader may queue as a writer; exhausted tickets are not noticed.
ReaderMayUpgrade(t) ==
    /\ pc[t] = "idle" /\ initialised_state = "INITIALISED" /\ mutex = NoThread
    /\ active_writer_thread # t
    /\ NextTicket # MaxTicket

WriterMayOverflow(t) ==
    /\ pc[t] = "idle" /\ initialised_state = "INITIALISED" /\ mutex = NoThread
    /\ active_writer_thread # t /\ tls[t] = "none"

\* Entry of both calls once the mutex is held: the caller holds nothing and a
\* ticket is left.
WriterMayEnter(t) ==
    /\ pc[t] = "idle" /\ initialised_state = "INITIALISED" /\ mutex = NoThread
    /\ active_writer_thread # t /\ tls[t] = "none"
    /\ NextTicket # MaxTicket

\* wrlock up to its wait loop: writer priority closes the fast path, then the
\* writer takes its ticket.  The store that closes may linger in the store
\* buffer, because the load of the wait loop is not ordered after it.
WrLock(t) ==
    /\ "wrlock" \in Calls[t] /\ WriterMayEnter(t)
    /\ mutex' = t
    /\ reader_fast_path_open' =
           IF WriterPriority /\ ~StoreBuffering THEN FALSE ELSE reader_fast_path_open
    /\ close_pending' = (WriterPriority /\ StoreBuffering)
    /\ ticket' = [ticket EXCEPT ![t] = NextTicket]
    /\ next_writer_ticket' = NextTicket + 1
    /\ serving_writer_ticket' = ServingTicket
    /\ waiting_writers' = waiting_writers + 1
    /\ pc' = [pc EXCEPT ![t] = "wr_check"]
    /\ UNCHANGED <<initialised_state, fast_active_readers, active_readers,
                   waiting_readers, cancelled_writer_tickets, phaseVars,
                   writerVars, condVars, tls, call, holds>>

\* The store buffer drains by itself at any time; releasing the mutex drains
\* it too.
DrainStoreBuffer ==
    /\ close_pending
    /\ reader_fast_path_open' = FALSE
    /\ close_pending' = FALSE
    /\ UNCHANGED <<initialised_state, mutex, fast_active_readers, countVars,
                   wticketVars, phaseVars, writerVars, condVars, threadVars>>

\* One test of the wait loop: go on, enter pthread_cond_wait (which releases
\* the mutex), or see it fail.
WrCheck(t) ==
    /\ pc[t] = "wr_check"
    /\ \/ /\ ~WriterBlocked(ticket[t])
          /\ pc' = [pc EXCEPT ![t] = "wr_take"]
          /\ UNCHANGED <<mutex, writer_condition, reader_fast_path_open, close_pending>>
       \/ /\ WriterBlocked(ticket[t])
          /\ pc' = [pc EXCEPT ![t] = "wr_wait"]
          /\ mutex' = NoThread
          /\ writer_condition' = writer_condition \cup {t}
          /\ reader_fast_path_open' = (reader_fast_path_open /\ ~close_pending)
          /\ close_pending' = FALSE
       \/ /\ WriterBlocked(ticket[t]) /\ "CONDITION_WAIT" \in Faults
          /\ pc' = [pc EXCEPT ![t] = "wr_fail"]
          /\ UNCHANGED <<mutex, writer_condition, reader_fast_path_open, close_pending>>
    /\ UNCHANGED <<initialised_state, fast_active_readers, countVars,
                   wticketVars, phaseVars, writerVars, reader_condition,
                   tls, call, ticket, holds>>

\* pthread_cond_wait returns with the mutex.
WrResume(t) ==
    /\ pc[t] = "wr_wait" /\ t \notin writer_condition /\ mutex = NoThread
    /\ mutex' = t
    /\ pc' = [pc EXCEPT ![t] = "wr_check"]
    /\ UNCHANGED <<initialised_state, fastVars, countVars, wticketVars,
                   phaseVars, writerVars, condVars, tls, call, ticket, holds>>

\* The writer becomes the active one and releases the mutex.
WrTake(t) ==
    /\ pc[t] = "wr_take"
    /\ waiting_writers' = waiting_writers - 1
    /\ reader_fast_path_open' = FALSE /\ close_pending' = FALSE
    /\ active_writer_thread' = t /\ active_writer_has_ticket' = TRUE
    /\ mutex' = NoThread
    /\ pc' = [pc EXCEPT ![t] = "idle"]
    /\ ticket' = [ticket EXCEPT ![t] = NoTicket]
    /\ holds' = [holds EXCEPT ![t] = "write"]
    /\ UNCHANGED <<initialised_state, fast_active_readers, active_readers,
                   waiting_readers, wticketVars, phaseVars, condVars, tls, call>>

\* pthread_cond_wait failed: the writer gives its ticket up and returns.
WrFail(t) ==
    LET k == ticket[t]
        cancelled == cancelled_writer_tickets \cup {k}
        serving == IF k = serving_writer_ticket
                   THEN AdvanceCancelled(k, cancelled) ELSE serving_writer_ticket
    IN /\ pc[t] = "wr_fail"
       /\ waiting_writers' = waiting_writers - 1
       /\ reader_fast_path_open' = RefreshedFastPath(waiting_writers - 1, reader_phase_open)
       /\ close_pending' = FALSE
       /\ serving_writer_ticket' = serving
       /\ cancelled_writer_tickets' =
              IF k = serving_writer_ticket THEN cancelled \ (k..(serving - 1)) ELSE cancelled
       /\ writer_condition' = {}
       /\ mutex' = NoThread
       /\ pc' = [pc EXCEPT ![t] = "idle"]
       /\ ticket' = [ticket EXCEPT ![t] = NoTicket]
       /\ UNCHANGED <<initialised_state, fast_active_readers, active_readers,
                      waiting_readers, next_writer_ticket, phaseVars,
                      writerVars, reader_condition, tls, call, holds>>

\* try_wrlock tests the full admission predicate first ...
TryWrLock(t) ==
    /\ "try_wrlock" \in Calls[t] /\ WriterMayEnter(t)
    /\ ~writer_active /\ ~HasActiveReaders /\ ~reader_phase_open
    /\ next_writer_ticket = serving_writer_ticket
    /\ mutex' = t
    /\ next_writer_ticket' = NextTicket /\ serving_writer_ticket' = ServingTicket
    /\ pc' = [pc EXCEPT ![t] = "try_take"]
    /\ UNCHANGED <<initialised_state, fastVars, countVars,
                   cancelled_writer_tickets, phaseVars, writerVars, condVars,
                   tls, call, ticket, holds>>

\* ... and closes the fast path afterwards, with no second test.
TryWrTake(t) ==
    /\ pc[t] = "try_take"
    /\ reader_fast_path_open' = FALSE
    /\ active_writer_thread' = t /\ active_writer_has_ticket' = FALSE
    /\ mutex' = NoThread
    /\ pc' = [pc EXCEPT ![t] = "idle"]
    /\ holds' = [holds EXCEPT ![t] = "write"]
    /\ UNCHANGED <<initialised_state, fast_active_readers, close_pending,
                   countVars, wticketVars, phaseVars, condVars, tls, call, ticket>>

-----------------------------------------------------------------------------
(* Unlocking.                                                              *)

\* rdunlock of a slow reader, or wrunlock of the active writer, up to the
\* mutex: from here on the caller no longer counts on the lock.
UnlockCall(t, target) ==
    /\ pc[t] = "idle" /\ initialised_state = "INITIALISED"
    /\ pc' = [pc EXCEPT ![t] = target]
    /\ holds' = [holds EXCEPT ![t] = "none"]
    /\ UNCHANGED <<initialised_state, mutex, fastVars, countVars, wticketVars,
                   phaseVars, writerVars, condVars, tls, call, ticket>>

RdUnlockCall(t) == tls[t] = "slow" /\ UnlockCall(t, "rd_unlock")
WrUnlockCall(t) == active_writer_thread = t /\ UnlockCall(t, "wr_unlock")

\* rdunlock of a reader admitted on the fast path.
RdUnlockFast(t) ==
    /\ pc[t] = "idle" /\ initialised_state = "INITIALISED"
    /\ tls[t] = "fast"
    /\ tls' = [tls EXCEPT ![t] = "none"]
    /\ holds' = [holds EXCEPT ![t] = "none"]
    /\ IF fast_active_readers = 0
       THEN UNCHANGED <<fast_active_readers, pc, call>>
       ELSE /\ fast_active_readers' = fast_active_readers - 1
            /\ pc' = [pc EXCEPT ![t] = "wake_check"]
            /\ call' = [call EXCEPT ![t] = "rdunlock"]
    /\ UNCHANGED <<initialised_state, mutex, reader_fast_path_open,
                   close_pending, countVars, wticketVars, phaseVars,
                   writerVars, condVars, ticket>>

\* Mutant: the phase opens and nobody is told.
OpenReaderPhaseSilently ==
    /\ reader_phase_open' = TRUE
    /\ reader_phase_cutoff' = next_reader_ticket
    /\ reader_fast_path_open' = FALSE
    /\ UNCHANGED condVars

\* A reader phase for all readers that wait now.
OpenReaderPhase ==
    /\ reader_phase_open' = TRUE
    /\ reader_phase_cutoff' = next_reader_ticket
    /\ reader_fast_path_open' = FALSE
    /\ reader_condition' = {}
    /\ UNCHANGED writer_condition

\* Mutants: the phase stays open, or the writers are not woken.
HandOverPhaseOpen ==
    /\ reader_fast_path_open' = (reader_fast_path_open /\ ~WriterPriority)
    /\ writer_condition' = {}
    /\ UNCHANGED <<reader_phase_open, reader_phase_cutoff, reader_condition>>

HandOverSilently ==
    /\ reader_phase_open' = FALSE
    /\ reader_fast_path_open' = (reader_fast_path_open /\ ~WriterPriority)
    /\ UNCHANGED <<reader_phase_cutoff, condVars>>

\* The last slow reader closes the phase and wakes the writers.
HandOverToWriters ==
    /\ reader_phase_open' = FALSE
    /\ reader_fast_path_open' = (reader_fast_path_open /\ ~WriterPriority)
    /\ writer_condition' = {}
    /\ UNCHANGED <<reader_phase_cutoff, reader_condition>>

\* The end of a reader phase: the writers are next, or the readers queued
\* since, or the fast path reopens.
LastReaderLeaves ==
    \/ waiting_writers # 0 /\ HandOverToWriters
    \/ waiting_writers = 0 /\ waiting_readers # 0 /\ WriterPriority /\ OpenReaderPhase
    \/ /\ waiting_writers = 0 /\ ~(waiting_readers # 0 /\ WriterPriority)
       /\ reader_phase_open' = FALSE
       /\ reader_fast_path_open' = TRUE
       /\ UNCHANGED <<reader_phase_cutoff, condVars>>

\* rdunlock of a reader admitted under the mutex.
RdUnlockSlow(t) ==
    /\ pc[t] = "rd_unlock" /\ mutex = NoThread /\ active_readers # 0
    /\ tls' = [tls EXCEPT ![t] = "none"]
    /\ pc' = [pc EXCEPT ![t] = "idle"]
    /\ active_readers' = active_readers - 1
    /\ IF active_readers = 1
       THEN LastReaderLeaves
       ELSE UNCHANGED <<reader_phase_open, reader_phase_cutoff,
                        reader_fast_path_open, condVars>>
    /\ UNCHANGED <<initialised_state, mutex, fast_active_readers,
                   close_pending, waiting_readers, waiting_writers,
                   wticketVars, next_reader_ticket, writerVars, call, ticket, holds>>

\* finish_writer_queue, once ticket s is being served: skip cancelled tickets
\* and restart both counters when the queue is empty.
FinishWriterQueue(s) ==
    LET n == AdvanceCancelled(s, cancelled_writer_tickets)
        cancelled == cancelled_writer_tickets \ (s..(n - 1))
        empty == waiting_writers = 0 /\ next_writer_ticket = n /\ cancelled = {}
    IN IF waiting_writers = 0 /\ next_writer_ticket = s
       THEN /\ next_writer_ticket' = 0 /\ serving_writer_ticket' = 0
            /\ UNCHANGED cancelled_writer_tickets
       ELSE /\ next_writer_ticket' = IF empty THEN 0 ELSE next_writer_ticket
            /\ serving_writer_ticket' = IF empty THEN 0 ELSE n
            /\ cancelled_writer_tickets' = cancelled

\* wrunlock: serve the next ticket, then open a reader phase, or wake the
\* writers, or reopen the fast path.
WrUnlock(t) ==
    /\ pc[t] = "wr_unlock" /\ mutex = NoThread
    /\ active_writer_thread' = NoThread /\ active_writer_has_ticket' = FALSE
    /\ pc' = [pc EXCEPT ![t] = "idle"]
    /\ IF active_writer_has_ticket
       THEN FinishWriterQueue(serving_writer_ticket + 1)
       ELSE UNCHANGED wticketVars
    /\ \/ WriterPriority /\ waiting_readers # 0 /\ OpenReaderPhase
       \/ /\ ~(WriterPriority /\ waiting_readers # 0) /\ waiting_writers # 0
          /\ reader_fast_path_open' = ~WriterPriority
          /\ writer_condition' = {}
          /\ UNCHANGED <<reader_phase_open, reader_phase_cutoff, reader_condition>>
       \/ /\ ~(WriterPriority /\ waiting_readers # 0) /\ waiting_writers = 0
          /\ reader_fast_path_open' = TRUE
          /\ reader_condition' = {}
          /\ UNCHANGED <<reader_phase_open, reader_phase_cutoff, writer_condition>>
    /\ UNCHANGED <<initialised_state, mutex, fast_active_readers,
                   close_pending, countVars, next_reader_ticket, tls, call,
                   ticket, holds>>

\* unlock() finds out which of them the caller needs.
Unlock(t) == RdUnlockFast(t) \/ RdUnlockCall(t) \/ WrUnlockCall(t)

-----------------------------------------------------------------------------
\* A blocked thread may be woken without a broadcast.
SpuriousWakeup(t) ==
    /\ t \in reader_condition \cup writer_condition
    /\ reader_condition' = reader_condition \ {t}
    /\ writer_condition' = writer_condition \ {t}
    /\ UNCHANGED <<initialised_state, mutex, fastVars, countVars, wticketVars,
                   phaseVars, writerVars, threadVars>>

ReaderStep(t) ==
    \/ FastIncrement(t) \/ FastRecheck(t) \/ FastUndo(t)
    \/ WakeCheck(t) \/ WakeLock(t) \/ WakeClose(t)
    \/ RdSlowAdmit(t) \/ RdSlowReject(t) \/ RdSlowQueue(t) \/ RdResume(t)
    \/ RdUnlockSlow(t)

WriterStep(t) ==
    \/ WrCheck(t) \/ WrResume(t) \/ WrTake(t) \/ WrFail(t) \/ TryWrTake(t)
    \/ WrUnlock(t)

Call(t) == RdLock(t) \/ TryRdLock(t) \/ WrLock(t) \/ TryWrLock(t)

Next ==
    \/ \E t \in Threads : \/ Call(t) \/ ReaderStep(t) \/ WriterStep(t)
                          \/ Unlock(t) \/ SpuriousWakeup(t)
    \/ DrainStoreBuffer
    \/ Destroy
    \/ Initialise

Spec == Init /\ [][Next]_vars

\* Every thread inside a call keeps running, no thread is passed over for ever
\* by the mutex, and every holder unlocks some day.  Nothing forces a thread to
\* call, and nothing forces a spurious wake-up.
Fairness ==
    \A t \in Threads : SF_vars(ReaderStep(t) \/ WriterStep(t)) /\ SF_vars(Unlock(t))

FairSpec == Spec /\ Fairness

-----------------------------------------------------------------------------
(* Properties.                                                             *)

\* A thread told that it holds the lock for writing is alone: no other thread
\* has been told that it holds it in either mode.
MutualExclusion ==
    \A t, u \in Threads : t # u /\ holds[t] = "write" => holds[u] = "none"

SlowReaders == {t \in Threads : tls[t] = "slow"}
FastReaders == {t \in Threads : \/ tls[t] = "fast" /\ pc[t] # "fast_cas"
                                \/ pc[t] = "fast_undo"}
QueuedReaders == {t \in Threads : pc[t] = "rd_wait"}
QueuedWriters == {t \in Threads : pc[t] \in QueuedPc}

\* The counters agree with the thread-local records and with the threads in
\* the calls: active_readers counts the slow records, fast_active_readers the
\* fast readers past their increment (those that will back out included), and
\* the waiting counters the threads in the two queues.
CountersAgree ==
    /\ active_readers = Cardinality(SlowReaders)
    /\ fast_active_readers = Cardinality(FastReaders)
    /\ waiting_readers = Cardinality(QueuedReaders)
    /\ waiting_writers = Cardinality(QueuedWriters)
    /\ \A t \in Threads : holds[t] = "read" => tls[t] # "none"

\* A thread that holds the lock is never blocked on it: every recursive or
\* cross-mode acquisition returns at once.
NonRecursive ==
    \A t \in Threads : holds[t] # "none" => pc[t] \notin {"rd_wait", "wr_wait"}

\* No lost wake-up for writers: a writer asleep on writer_condition whose wait
\* predicate has become false is about to be woken by a fast reader on its way
\* out.
NoLostWriterWakeup ==
    \A t \in writer_condition :
        ~WriterBlocked(ticket[t]) => \E u \in Threads : pc[u] \in WakePc

\* No stranded reader: a reader asleep on reader_condition has a reason to wait
\* (writer priority; reader priority wakes readers only when no writer waits).
NoStrandedReader ==
    \A t \in reader_condition : ReaderBlocked(ticket[t])

\* An open reader phase has a reader in it or one still to be admitted to it;
\* otherwise nobody would ever close it.
ReaderPhaseLive ==
    reader_phase_open =>
        \/ active_readers # 0
        \/ \E t \in Threads : pc[t] = "rd_wait" /\ ticket[t] < reader_phase_cutoff

\* The ticket being served belongs to a writer that is queued or active, so
\* no cancelled ticket blocks the writers behind it.
ServingTicketLive ==
    next_writer_ticket # serving_writer_ticket =>
        \/ writer_active /\ active_writer_has_ticket
        \/ \E t \in QueuedWriters : ticket[t] = serving_writer_ticket

\* A writer that acquires the lock is the oldest one queued.
WritersInTicketOrder ==
    [][\A t \in Threads :
          pc[t] = "wr_take" /\ holds'[t] = "write" =>
              \A u \in QueuedWriters : ticket[t] <= ticket[u]]_vars

\* While a writer waits, no reader is admitted except one that belongs to the
\* open reader phase (writer priority).
OnlyPhaseReadersPass ==
    [][\A t \in Threads :
          waiting_writers # 0 /\ holds[t] = "none" /\ holds'[t] = "read" =>
              /\ pc[t] = "rd_wait" /\ reader_phase_open
              /\ ticket[t] < reader_phase_cutoff]_vars

\* A reader phase ends only after every reader below its cutoff was admitted.
PhaseAdmitsWholeBatch ==
    [][reader_phase_open /\ ~reader_phase_open' =>
          ~\E t \in Threads : /\ pc[t] = "rd_wait" /\ pc'[t] = "rd_wait"
                              /\ ticket[t] < reader_phase_cutoff]_vars

\* Every queued writer acquires the lock (without faults).
WriterProgress ==
    \A t \in Threads : pc[t] = "wr_wait" ~> holds[t] = "write"

=============================================================================
