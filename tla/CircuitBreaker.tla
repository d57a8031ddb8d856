--------------------------- MODULE CircuitBreaker ---------------------------
(***************************************************************************)
(* The circuit breaker of the API clients, for one host, and the requests  *)
(* that consult it.  api_retry_circuit_allow and the two record functions  *)
(* each run under circuit_mutex and are one step.  Requests differ in where *)
(* they ask: "string" (api_request_string) asks before it connects,        *)
(* "https" (api_request_string_tls) before every attempt, and "stream"     *)
(* (api_request_stream) at both places.  A plain connection taken from the *)
(* pool skips the first; TLS connections are never kept in the pool.       *)
(***************************************************************************)
EXTENDS Naturals, FiniteSets

CONSTANTS
    Requests,
    Kinds,                \* the kinds of request that are made
    Threshold,            \* circuit_breaker_threshold
    HalfOpenSuccesses,    \* circuit_breaker_half_open_successes
    MaxAttempts,          \* max_attempts of the retry policy
    Deadlines,            \* when set: "ahead", or "passed" for a cooldown of 0
    Unrecorded            \* attempts may fail with an error that is not retried

ASSUME CircuitConstants ==
    /\ Kinds \subseteq {"string", "stream", "https"}
    /\ Threshold \in Nat \ {0}
    /\ HalfOpenSuccesses \in Nat \ {0}
    /\ MaxAttempts \in Nat \ {0}
    /\ Deadlines \subseteq {"ahead", "passed"}
    /\ Unrecorded \in BOOLEAN

VARIABLES
    pc, kind, attempt_index,
    open_until,           \* 0, a time to come or a time gone by
    failure_count, half_open, probe_in_flight, half_open_success_count,
    idle,                 \* plain connections kept in the pool
    healthy,              \* the server answers
    streak,               \* failures recorded since the last success, up to Threshold
    admitted              \* requests allowed in the present half-open phase

request == <<pc, kind, attempt_index>>
circuit == <<open_until, failure_count, half_open, probe_in_flight,
             half_open_success_count>>
vars == <<request, circuit, idle, healthy, streak, admitted>>

Closed == open_until = "zero" /\ ~half_open

Init ==
    /\ pc = [r \in Requests |-> "idle"]
    /\ kind \in [Requests -> Kinds]
    /\ attempt_index = [r \in Requests |-> 0]
    /\ open_until = "zero"
    /\ failure_count = 0
    /\ half_open = FALSE
    /\ probe_in_flight = FALSE
    /\ half_open_success_count = 0
    /\ idle = 0
    /\ healthy = TRUE
    /\ streak = 0
    /\ admitted = {}

Goto(r, label) == pc' = [pc EXCEPT ![r] = label]

-----------------------------------------------------------------------------
(* The breaker                                                             *)

\* the half-open phase begins with the first request after the cooldown
Reopens == open_until = "passed"

\* mutant: the probe is not looked at
AllowedAnyProbe == open_until # "ahead"

Allowed ==
    /\ open_until # "ahead"
    /\ half_open /\ ~Reopens => ~probe_in_flight

\* what api_retry_circuit_allow does to the circuit when it returns FT_TRUE
AdmitRequest(r) ==
    /\ open_until' = "zero"
    /\ half_open' = (half_open \/ Reopens)
    /\ failure_count' = IF Reopens THEN 0 ELSE failure_count
    /\ half_open_success_count' = IF Reopens THEN 0 ELSE half_open_success_count
    /\ probe_in_flight' = (half_open' \/ probe_in_flight)
    /\ admitted' = IF Reopens THEN {r}
                   ELSE IF half_open THEN admitted \cup {r} ELSE admitted
    /\ UNCHANGED streak

\* mutant: one success too many is asked for
RecordSuccessLate ==
    LET last == half_open /\ half_open_success_count + 1 > HalfOpenSuccesses
    IN  /\ failure_count' = 0
        /\ open_until' = "zero"
        /\ half_open' = (half_open /\ ~last)
        /\ probe_in_flight' = (probe_in_flight /\ half_open')
        /\ half_open_success_count' =
               IF half_open' THEN half_open_success_count + 1 ELSE 0
        /\ streak' = 0
        /\ admitted' = IF half_open' THEN admitted ELSE {}

RecordSuccess ==
    LET last == half_open /\ half_open_success_count + 1 >= HalfOpenSuccesses
    IN  /\ failure_count' = 0
        /\ open_until' = "zero"
        /\ half_open' = (half_open /\ ~last)
        /\ probe_in_flight' = (probe_in_flight /\ half_open')
        /\ half_open_success_count' =
               IF half_open' THEN half_open_success_count + 1 ELSE 0
        /\ streak' = 0
        /\ admitted' = IF half_open' THEN admitted ELSE {}

\* mutant: the circuit opens one failure late
RecordFailureLate ==
    LET trips == half_open \/ failure_count >= Threshold
    IN  /\ failure_count' = IF failure_count < Threshold THEN failure_count + 1
                            ELSE Threshold
        /\ open_until' \in IF trips THEN Deadlines ELSE {open_until}
        /\ half_open' = FALSE
        /\ probe_in_flight' = FALSE
        /\ half_open_success_count' =
               IF trips THEN 0 ELSE half_open_success_count
        /\ streak' = IF streak < Threshold THEN streak + 1 ELSE streak
        /\ admitted' = {}

RecordFailure ==
    LET trips == half_open \/ failure_count + 1 >= Threshold
    IN  /\ failure_count' = IF trips THEN Threshold ELSE failure_count + 1
        /\ open_until' \in IF trips THEN Deadlines ELSE {open_until}
        /\ half_open' = FALSE
        /\ probe_in_flight' = FALSE
        /\ half_open_success_count' =
               IF trips THEN 0 ELSE half_open_success_count
        /\ streak' = IF streak < Threshold THEN streak + 1 ELSE streak
        /\ admitted' = {}

\* api_retry_circuit_reset drops the state, which the next request makes anew,
\* and flushes the pool
Reset ==
    /\ open_until' = "zero"
    /\ failure_count' = 0
    /\ half_open' = FALSE
    /\ probe_in_flight' = FALSE
    /\ half_open_success_count' = 0
    /\ streak' = 0
    /\ admitted' = {}
    /\ idle' = 0
    /\ UNCHANGED <<request, healthy>>

CoolDown ==
    /\ open_until = "ahead"
    /\ open_until' = "passed"
    /\ UNCHANGED <<request, failure_count, half_open, probe_in_flight,
                   half_open_success_count, idle, healthy, streak, admitted>>

-----------------------------------------------------------------------------
(* The requests                                                            *)

AsksToConnect(k) == k \in {"string", "stream"}
AsksPerAttempt(k) == k \in {"stream", "https"}

BeforeAttempt(k) == IF AsksPerAttempt(k) THEN "attempt_allow" ELSE "attempt"

\* api_connection_pool_acquire drops the idle connections that are dead and
\* takes the first of the `live` ones
LeftIdle(live) == IF live > 0 THEN live - 1 ELSE 0

Start(r) ==
    \E k \in Kinds, live \in 0 .. idle :
        /\ pc[r] = "idle"
        /\ kind' = [kind EXCEPT ![r] = k]
        /\ attempt_index' = [attempt_index EXCEPT ![r] = 0]
        /\ IF k = "https" THEN Goto(r, "connect") /\ idle' = idle
           ELSE /\ Goto(r, IF live > 0 THEN BeforeAttempt(k) ELSE "connect_allow")
                /\ idle' = LeftIdle(live)
        /\ UNCHANGED <<circuit, healthy, streak, admitted>>

Permit(r) ==
    /\ pc[r] \in {"connect_allow", "attempt_allow"}
    /\ Allowed
    /\ AdmitRequest(r)
    /\ Goto(r, IF pc[r] = "connect_allow" THEN "connect" ELSE "attempt")
    /\ UNCHANGED <<kind, attempt_index, idle, healthy>>

Refuse(r) ==
    /\ pc[r] \in {"connect_allow", "attempt_allow"}
    /\ ~Allowed
    /\ Goto(r, "idle")
    /\ UNCHANGED <<kind, attempt_index, circuit, idle, healthy, streak, admitted>>

Connect(r) ==
    /\ pc[r] = "connect"
    /\ healthy
    /\ Goto(r, BeforeAttempt(kind[r]))
    /\ UNCHANGED <<kind, attempt_index, circuit, idle, healthy, streak, admitted>>

\* the plain clients record the failure, the TLS client does not
ConnectFails(r) ==
    /\ pc[r] = "connect"
    /\ ~healthy
    /\ Goto(r, "idle")
    /\ IF AsksToConnect(kind[r]) THEN RecordFailure
       ELSE UNCHANGED <<circuit, streak, admitted>>
    /\ UNCHANGED <<kind, attempt_index, idle, healthy>>

\* a plain attempt after the first looks in the pool again
PoolOfAttempt(r) ==
    IF attempt_index[r] > 0 /\ kind[r] # "https"
    THEN {LeftIdle(live) : live \in 0 .. idle}
    ELSE {idle}

\* a plain connection goes back to the pool unless the server closes it
AttemptSucceeds(r) ==
    /\ pc[r] = "attempt"
    /\ healthy
    /\ RecordSuccess
    /\ Goto(r, "idle")
    /\ \E n \in PoolOfAttempt(r) :
           idle' \in IF kind[r] = "https" THEN {n} ELSE {n, n + 1}
    /\ UNCHANGED <<kind, attempt_index, healthy>>

\* an error that is retried
AttemptFails(r) ==
    /\ pc[r] = "attempt"
    /\ ~healthy
    /\ RecordFailure
    /\ attempt_index' = [attempt_index EXCEPT ![r] = @ + 1]
    /\ Goto(r, IF attempt_index[r] + 1 < MaxAttempts THEN BeforeAttempt(kind[r]) ELSE "idle")
    /\ idle' \in PoolOfAttempt(r)
    /\ UNCHANGED <<kind, healthy>>

\* an error that is not: the client returns at once and records nothing
AttemptAbandoned(r) ==
    /\ Unrecorded
    /\ pc[r] = "attempt"
    /\ ~healthy
    /\ Goto(r, "idle")
    /\ idle' \in PoolOfAttempt(r)
    /\ UNCHANGED <<kind, attempt_index, circuit, healthy, streak, admitted>>

ServerChanges ==
    /\ healthy' = ~healthy
    /\ UNCHANGED <<request, circuit, idle, streak, admitted>>

RequestStep(r) ==
    \/ Permit(r) \/ Refuse(r)
    \/ Connect(r) \/ ConnectFails(r)
    \/ AttemptSucceeds(r) \/ AttemptFails(r) \/ AttemptAbandoned(r)

Step ==
    \/ \E r \in Requests : Start(r) \/ RequestStep(r)
    \/ CoolDown \/ ServerChanges

Next == Step \/ Reset

Spec == Init /\ [][Next]_vars

\* Time passes, every socket call returns, and requests keep being made.
\* Nobody need ever call api_retry_circuit_reset: the circuit must recover
\* by itself.
LiveSpec ==
    /\ Spec
    /\ WF_vars(CoolDown)
    /\ \A r \in Requests : WF_vars(Start(r)) /\ WF_vars(RequestStep(r))

-----------------------------------------------------------------------------
(* Properties                                                              *)

\* The control state of the requests and the fields of api_circuit_state stay
\* in their ranges; the success count stays below the number that closes the
\* circuit, the counters never pass the threshold and no request makes more
\* than MaxAttempts attempts.
TypeOK ==
    /\ pc \in [Requests -> {"idle", "connect_allow", "connect",
                            "attempt_allow", "attempt"}]
    /\ kind \in [Requests -> Kinds]
    /\ attempt_index \in [Requests -> 0 .. MaxAttempts]
    /\ \A r \in Requests : pc[r] # "idle" => attempt_index[r] < MaxAttempts
    /\ open_until \in {"zero", "ahead", "passed"}
    /\ failure_count \in 0 .. Threshold
    /\ half_open \in BOOLEAN
    /\ probe_in_flight \in BOOLEAN
    /\ healthy \in BOOLEAN
    /\ half_open_success_count \in 0 .. HalfOpenSuccesses - 1
    /\ idle \in Nat
    /\ streak \in 0 .. Threshold
    /\ admitted \subseteq Requests

\* At most one request is let through in each half-open phase, whatever the
\* requests admitted before the circuit opened still record meanwhile
\* (probe_in_flight, api_retry_circuit_allow).
OneProbe == \A r, s \in admitted : r = s

\* Why OneProbe holds: the phases exclude each other, a probe is in flight
\* exactly when a request was let through in the present half-open phase, and
\* a closed circuit has counted the failures since the last success.
Phases ==
    /\ half_open => open_until = "zero"
    /\ probe_in_flight <=> admitted # {}
    /\ ~half_open => admitted = {}
    /\ Closed => failure_count = streak /\ streak < Threshold

\* A closed circuit opens exactly when Threshold failures have been recorded
\* with no success between them: not before, and never later, however the
\* records of concurrent requests interleave (api_retry_circuit_record_failure).
TripsAtThreshold == [][Closed => (Closed' <=> streak' < Threshold)]_vars

\* A request that begins while the cooldown runs is not sent at once
\* (FT_ERR_API_CIRCUIT_OPEN, the answer of api_retry_circuit_allow).
OpenBlocks ==
    [][\A r \in Requests :
          pc[r] = "idle" /\ pc'[r] = "attempt" => open_until # "ahead"]_vars

\* Once the server answers for good and requests keep being made, the circuit
\* is closed again and again: the half-open probe is always resolved.
Recovers == <>[]healthy => []<>Closed

\* The request that was let through in the half-open phase has returned and
\* has recorded neither a success nor a failure.
ProbeLost ==
    /\ probe_in_flight /\ half_open_success_count = 0
    /\ \A r \in admitted : pc[r] = "idle"

\* Whatever the kinds of request and however attempts end, only one thing
\* keeps the circuit from closing again for a server that answers: a probe
\* whose outcome is never recorded, as probe_in_flight is then never reset.
\* (With HalfOpenSuccesses = 1, the default of api_retry_get_half_open_successes.)
RecoversUnlessProbeLost == <>[]healthy => []<>(Closed \/ ProbeLost)

=============================================================================
