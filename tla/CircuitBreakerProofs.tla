------------------------ MODULE CircuitBreakerProofs ------------------------
(***************************************************************************)
(* The half-open phase of CircuitBreaker lets one request through, and a   *)
(* closed circuit opens exactly at the threshold, for any number of        *)
(* requests, any mix of clients and any retry policy.                      *)
(***************************************************************************)
EXTENDS CircuitBreaker, TLAPS

CircuitInv == TypeOK /\ Phases /\ OneProbe

\* The state of the circuit alone, which the three functions of api_retry.cpp
\* preserve whoever calls them.
CircuitOK ==
    /\ open_until \in {"zero", "ahead", "passed"}
    /\ failure_count \in 0 .. Threshold
    /\ half_open \in BOOLEAN
    /\ probe_in_flight \in BOOLEAN
    /\ half_open_success_count \in 0 .. HalfOpenSuccesses - 1
    /\ streak \in 0 .. Threshold
    /\ admitted \subseteq Requests
    /\ Phases
    /\ OneProbe

\* The state of the requests, the pool and the server.
RequestsOK ==
    /\ pc \in [Requests -> {"idle", "connect_allow", "connect",
                            "attempt_allow", "attempt"}]
    /\ kind \in [Requests -> Kinds]
    /\ attempt_index \in [Requests -> 0 .. MaxAttempts]
    /\ \A r \in Requests : pc[r] # "idle" => attempt_index[r] < MaxAttempts
    /\ idle \in Nat
    /\ healthy \in BOOLEAN

\* What a step may do to a closed circuit.
TripStep == Closed => (Closed' <=> streak' < Threshold)

\* The invariant is the two parts together.
LEMMA InvSplits == CircuitInv <=> CircuitOK /\ RequestsOK
  BY DEF CircuitInv, CircuitOK, RequestsOK, TypeOK

\* api_retry_circuit_allow admits a request only when no other was admitted in
\* the half-open phase.
LEMMA AdmitPreserves ==
  ASSUME CircuitOK, NEW r \in Requests, Allowed, AdmitRequest(r)
  PROVE  CircuitOK' /\ TripStep
  <1> USE CircuitConstants
  <1>1. CASE Reopens
    <2>1. /\ open_until' = "zero" /\ failure_count' = 0
          /\ half_open_success_count' = 0 /\ streak' = streak
          /\ admitted' = {r}
      BY <1>1 DEF AdmitRequest
    <2>2. half_open' /\ half_open' \in BOOLEAN
      BY <1>1, Zenon DEF AdmitRequest
    <2>3. probe_in_flight' /\ probe_in_flight' \in BOOLEAN
      BY <2>2, Zenon DEF AdmitRequest
    <2>4. ~Closed /\ ~Closed'
      BY <1>1, <2>2 DEF Closed, Reopens
    <2>5. OneProbe'
      BY <2>1 DEF OneProbe
    <2>6. Phases'
      BY <2>1, <2>2, <2>3, <2>4 DEF Phases
    <2> QED
      BY <2>1, <2>2, <2>3, <2>4, <2>5, <2>6 DEF CircuitOK, TripStep
  <1>2. CASE ~Reopens /\ half_open
    <2>1. admitted = {}
      BY <1>2 DEF Allowed, CircuitOK, Phases
    <2>2. /\ open_until' = "zero" /\ failure_count' = failure_count
          /\ half_open_success_count' = half_open_success_count
          /\ streak' = streak /\ admitted' = {r}
      BY <1>2, <2>1 DEF AdmitRequest
    <2>3. half_open' /\ half_open' \in BOOLEAN
      BY <1>2, Zenon DEF AdmitRequest
    <2>4. probe_in_flight' /\ probe_in_flight' \in BOOLEAN
      BY <2>3, Zenon DEF AdmitRequest
    <2>5. ~Closed /\ ~Closed'
      BY <1>2, <2>3 DEF Closed
    <2>6. OneProbe'
      BY <2>2 DEF OneProbe
    <2>7. Phases'
      BY <2>2, <2>3, <2>4, <2>5 DEF Phases
    <2> QED
      BY <2>2, <2>3, <2>4, <2>5, <2>6, <2>7 DEF CircuitOK, TripStep
  <1>3. CASE ~Reopens /\ ~half_open
    <2>1. open_until = "zero" /\ admitted = {} /\ ~probe_in_flight
      BY <1>3 DEF Reopens, Allowed, CircuitOK, Phases
    <2>2. /\ open_until' = "zero" /\ failure_count' = failure_count
          /\ half_open_success_count' = half_open_success_count
          /\ streak' = streak /\ admitted' = {}
      BY <1>3, <2>1 DEF AdmitRequest
    <2>3. ~half_open' /\ half_open' \in BOOLEAN
      BY <1>3, Zenon DEF AdmitRequest
    <2>4. ~probe_in_flight' /\ probe_in_flight' \in BOOLEAN
      BY <2>1, <2>3, Zenon DEF AdmitRequest
    <2>5. Closed /\ Closed'
      BY <1>3, <2>1, <2>2, <2>3 DEF Closed
    <2>6. failure_count = streak /\ streak < Threshold
      BY <2>5 DEF CircuitOK, Phases
    <2>7. OneProbe' /\ Phases'
      BY <2>2, <2>3, <2>4, <2>6 DEF OneProbe, Phases
    <2> QED
      BY <2>2, <2>3, <2>4, <2>5, <2>6, <2>7 DEF CircuitOK, TripStep
  <1> QED
    BY <1>1, <1>2, <1>3

\* api_retry_circuit_record_success closes the circuit or leaves the half-open
\* phase with its probe.
LEMMA SuccessPreserves ==
  ASSUME CircuitOK, RecordSuccess
  PROVE  CircuitOK' /\ TripStep
  <1> USE CircuitConstants
  <1> DEFINE last == half_open /\ half_open_success_count + 1 >= HalfOpenSuccesses
  <1>1. failure_count' = 0 /\ open_until' = "zero" /\ streak' = 0
    BY DEF RecordSuccess
  <1>2. half_open' = (half_open /\ ~last)
    BY Zenon DEF RecordSuccess
  <1>3. probe_in_flight' = (probe_in_flight /\ half_open')
    BY Zenon DEF RecordSuccess
  <1>4. half_open' \in BOOLEAN /\ probe_in_flight' \in BOOLEAN
    BY <1>2, <1>3, Zenon
  <1>5. /\ half_open_success_count' =
              IF half_open' THEN half_open_success_count + 1 ELSE 0
        /\ admitted' = IF half_open' THEN admitted ELSE {}
    BY Zenon DEF RecordSuccess
  <1>6. CASE half_open /\ ~last
    <2>1. half_open' /\ (probe_in_flight' <=> probe_in_flight)
      BY <1>2, <1>3, <1>6, Zenon
    <2>2. half_open_success_count' \in 0 .. HalfOpenSuccesses - 1
      BY <1>5, <1>6, <2>1 DEF CircuitOK
    <2>3. ~Closed /\ ~Closed'
      BY <1>6, <2>1 DEF Closed
    <2>4. OneProbe' /\ Phases'
      BY <1>1, <1>5, <2>1, <2>3 DEF CircuitOK, OneProbe, Phases
    <2> QED
      BY <1>1, <1>4, <1>5, <2>1, <2>2, <2>3, <2>4 DEF CircuitOK, TripStep
  <1>7. CASE ~half_open \/ last
    <2>1. ~half_open' /\ ~probe_in_flight'
      BY <1>2, <1>3, <1>7, Zenon
    <2>2. half_open_success_count' = 0 /\ admitted' = {}
      BY <1>5, <2>1
    <2>3. Closed'
      BY <1>1, <2>1 DEF Closed
    <2>4. OneProbe' /\ Phases'
      BY <1>1, <2>1, <2>2 DEF OneProbe, Phases
    <2> QED
      BY <1>1, <1>4, <2>2, <2>3, <2>4 DEF CircuitOK, TripStep
  <1> QED
    BY <1>6, <1>7

\* api_retry_circuit_record_failure opens a closed circuit exactly when the
\* failure it counts is the Threshold-th in a row.
LEMMA FailurePreserves ==
  ASSUME CircuitOK, RecordFailure
  PROVE  CircuitOK' /\ TripStep
  <1> USE CircuitConstants
  <1> DEFINE trips == half_open \/ failure_count + 1 >= Threshold
  <1>1. half_open' = FALSE /\ probe_in_flight' = FALSE /\ admitted' = {}
    BY Zenon DEF RecordFailure
  <1>2. streak' = IF streak < Threshold THEN streak + 1 ELSE streak
    BY Zenon DEF RecordFailure
  <1>3. streak' \in 0 .. Threshold
    BY <1>2 DEF CircuitOK
  <1>4. CASE trips
    <2>1. /\ failure_count' = Threshold /\ half_open_success_count' = 0
          /\ open_until' \in Deadlines
      BY <1>4, Zenon DEF RecordFailure
    <2>2. open_until' \in {"ahead", "passed"}
      BY <2>1
    <2>3. ~Closed'
      BY <2>2 DEF Closed
    <2>4. OneProbe' /\ Phases'
      BY <1>1, <2>3 DEF OneProbe, Phases
    <2>5. Closed => streak' = Threshold
      BY <1>2, <1>4 DEF CircuitOK, Phases, Closed
    <2>6. TripStep
      BY <2>3, <2>5 DEF TripStep
    <2>7. failure_count' \in 0 .. Threshold /\ half_open_success_count' \in 0 .. HalfOpenSuccesses - 1
      BY <2>1
    <2> QED
      BY <1>1, <1>3, <2>2, <2>4, <2>6, <2>7, Zenon DEF CircuitOK
  <1>5. CASE ~trips
    <2>1. /\ failure_count' = failure_count + 1
          /\ half_open_success_count' = half_open_success_count
          /\ open_until' = open_until
      BY <1>5, Zenon DEF RecordFailure
    <2>2. failure_count' < Threshold /\ failure_count' \in 0 .. Threshold
      BY <1>5, <2>1 DEF CircuitOK
    <2>3. Closed <=> Closed'
      BY <1>1, <1>5, <2>1 DEF Closed
    <2>4. Closed => streak' = failure_count' /\ streak' < Threshold
      BY <1>2, <2>1, <2>2 DEF CircuitOK, Phases
    <2>5. OneProbe' /\ Phases'
      BY <1>1, <2>3, <2>4 DEF OneProbe, Phases
    <2> QED
      BY <1>1, <1>3, <2>1, <2>2, <2>3, <2>4, <2>5 DEF CircuitOK, TripStep
  <1> QED
    BY <1>4, <1>5

\* A step that leaves the circuit alone keeps its state.
LEMMA UnchangedPreserves ==
  ASSUME CircuitOK, UNCHANGED <<circuit, streak, admitted>>
  PROVE  CircuitOK' /\ TripStep
  <1>1. Closed => streak < Threshold
    BY DEF CircuitOK, Phases
  <1>2. Closed' <=> Closed
    BY DEF circuit, Closed
  <1>3. Phases' /\ OneProbe'
    BY <1>2 DEF CircuitOK, Phases, OneProbe, circuit
  <1> QED
    BY <1>1, <1>2, <1>3 DEF CircuitOK, TripStep, circuit

\* The requests, the pool and the server stay typed: a failed attempt is
\* followed by another one only below MaxAttempts.
LEMMA RequestsPreserved ==
  ASSUME RequestsOK, [Next]_vars
  PROVE  RequestsOK'
  <1> USE CircuitConstants DEF RequestsOK
  <1>1. ASSUME NEW r \in Requests, Start(r)  PROVE RequestsOK'
    <2>1. PICK k \in Kinds, live \in 0 .. idle :
            /\ kind' = [kind EXCEPT ![r] = k]
            /\ attempt_index' = [attempt_index EXCEPT ![r] = 0]
            /\ \/ Goto(r, "connect") /\ idle' = idle
               \/ Goto(r, BeforeAttempt(k)) /\ idle' = LeftIdle(live)
               \/ Goto(r, "connect_allow") /\ idle' = LeftIdle(live)
            /\ healthy' = healthy
      BY <1>1 DEF Start
    <2>2. LeftIdle(live) \in Nat /\ BeforeAttempt(k) \in {"attempt", "attempt_allow"}
      BY DEF LeftIdle, BeforeAttempt
    <2> QED
      BY <2>1, <2>2 DEF Goto
  <1>2. ASSUME NEW r \in Requests  PROVE PoolOfAttempt(r) \subseteq Nat
    BY DEF PoolOfAttempt, LeftIdle
  <1>3. ASSUME NEW r \in Requests, RequestStep(r)  PROVE RequestsOK'
    <2>1. CASE Permit(r)
      BY <2>1 DEF Permit, Goto
    <2>2. CASE Refuse(r)
      BY <2>2 DEF Refuse, Goto
    <2>3. CASE Connect(r)
      BY <2>3 DEF Connect, Goto, BeforeAttempt
    <2>4. CASE ConnectFails(r)
      BY <2>4 DEF ConnectFails, Goto
    <2>5. CASE AttemptSucceeds(r)
      <3>1. idle' \in Nat
        BY <1>2, <2>5 DEF AttemptSucceeds
      <3> QED
        BY <2>5, <3>1 DEF AttemptSucceeds, Goto
    <2>6. CASE AttemptFails(r)
      <3>1. idle' \in Nat
        BY <1>2, <2>6 DEF AttemptFails
      <3> QED
        BY <2>6, <3>1 DEF AttemptFails, Goto, BeforeAttempt
    <2>7. CASE AttemptAbandoned(r)
      <3>1. idle' \in Nat
        BY <1>2, <2>7 DEF AttemptAbandoned
      <3> QED
        BY <2>7, <3>1 DEF AttemptAbandoned, Goto
    <2> QED
      BY <1>3, <2>1, <2>2, <2>3, <2>4, <2>5, <2>6, <2>7 DEF RequestStep
  <1>4. CASE CoolDown
    BY <1>4 DEF CoolDown, request
  <1>5. CASE Reset
    BY <1>5 DEF Reset, request
  <1>6. CASE ServerChanges
    BY <1>6, Zenon DEF ServerChanges, request
  <1>7. CASE UNCHANGED vars
    BY <1>7 DEF vars, request
  <1> QED
    BY <1>1, <1>3, <1>4, <1>5, <1>6, <1>7 DEF Next, Step

\* Every step of the system changes the circuit through one of the functions
\* of api_retry.cpp or not at all.
LEMMA CircuitPreserved ==
  ASSUME CircuitOK, [Next]_vars
  PROVE  CircuitOK' /\ TripStep
  <1>1. ASSUME NEW r \in Requests, Start(r) \/ RequestStep(r)
        PROVE  \/ Allowed /\ AdmitRequest(r)
               \/ RecordSuccess
               \/ RecordFailure
               \/ UNCHANGED <<circuit, streak, admitted>>
    BY <1>1, Zenon DEF Start, RequestStep, Permit, Refuse, Connect, ConnectFails,
       AttemptSucceeds, AttemptFails, AttemptAbandoned
  <1>2. ASSUME NEW r \in Requests, Start(r) \/ RequestStep(r)
        PROVE  CircuitOK' /\ TripStep
    BY <1>1, <1>2, AdmitPreserves, SuccessPreserves, FailurePreserves,
       UnchangedPreserves
  <1>3. CASE CoolDown
    <2>1. ~Closed /\ ~Closed' /\ ~half_open
      BY <1>3 DEF CoolDown, Closed, CircuitOK, Phases
    <2>2. Phases' /\ OneProbe'
      BY <1>3, <2>1 DEF CoolDown, CircuitOK, Phases, OneProbe
    <2> QED
      BY <1>3, <2>1, <2>2 DEF CoolDown, CircuitOK, TripStep
  <1>4. CASE Reset
    <2>1. /\ open_until' = "zero" /\ failure_count' = 0 /\ streak' = 0
          /\ half_open_success_count' = 0 /\ admitted' = {}
          /\ ~half_open' /\ ~probe_in_flight'
      BY <1>4 DEF Reset
    <2>2. half_open' \in BOOLEAN /\ probe_in_flight' \in BOOLEAN
      BY <1>4, Zenon DEF Reset
    <2>3. Phases' /\ OneProbe' /\ Closed'
      BY <2>1, CircuitConstants DEF Phases, OneProbe, Closed
    <2> QED
      BY <2>1, <2>2, <2>3, CircuitConstants DEF CircuitOK, TripStep
  <1>5. CASE ServerChanges
    BY <1>5, UnchangedPreserves DEF ServerChanges
  <1>6. CASE UNCHANGED vars
    BY <1>6, UnchangedPreserves DEF vars
  <1> QED
    BY <1>2, <1>3, <1>4, <1>5, <1>6 DEF Next, Step

\* The invariant is inductive, and every step respects the threshold.
LEMMA CircuitInvNext ==
  ASSUME CircuitInv, [Next]_vars
  PROVE  CircuitInv' /\ TripStep
  <1>1. CircuitOK /\ RequestsOK
    BY InvSplits
  <1>2. CircuitOK' /\ TripStep
    BY <1>1, CircuitPreserved
  <1>3. RequestsOK'
    BY <1>1, RequestsPreserved
  <1>4. CircuitInv'
    BY <1>2, <1>3, Zenon DEF CircuitOK, RequestsOK, CircuitInv, TypeOK
  <1> QED
    BY <1>2, <1>4

\* The invariant holds at first.
LEMMA CircuitInvInit == Init => CircuitInv
  <1> SUFFICES ASSUME Init  PROVE CircuitInv
    OBVIOUS
  <1>1. half_open \in BOOLEAN /\ probe_in_flight \in BOOLEAN /\ healthy \in BOOLEAN
    BY Zenon DEF Init
  <1>2. TypeOK
    BY <1>1, CircuitConstants DEF Init, TypeOK
  <1>3. ~half_open /\ ~probe_in_flight
    BY Zenon DEF Init
  <1>4. Phases /\ OneProbe
    BY <1>3, CircuitConstants DEF Init, Phases, OneProbe, Closed
  <1> QED
    BY <1>2, <1>4 DEF CircuitInv

\* One request at most is let through in each half-open phase: the probe flag
\* is raised with the first admission and lowered only when the phase ends.
THEOREM OneProbePerPhase == Spec => [](TypeOK /\ Phases /\ OneProbe)
  <1>1. CircuitInv /\ [Next]_vars => CircuitInv'
    BY CircuitInvNext
  <1>2. CircuitInv => TypeOK /\ Phases /\ OneProbe
    BY DEF CircuitInv
  <1> QED
    BY CircuitInvInit, <1>1, <1>2, PTL DEF Spec

\* A closed circuit opens exactly at the Threshold-th failure in a row,
\* whatever requests, cooldowns and resets are interleaved.
THEOREM OpensAtThreshold == Spec => TripsAtThreshold
  <1>1. CircuitInv /\ [Next]_vars => CircuitInv'
    BY CircuitInvNext
  <1>2. CircuitInv /\ [Next]_vars => [Closed => (Closed' <=> streak' < Threshold)]_vars
    BY CircuitInvNext DEF TripStep
  <1> QED
    BY CircuitInvInit, <1>1, <1>2, PTL DEF Spec, TripsAtThreshold

=============================================================================
