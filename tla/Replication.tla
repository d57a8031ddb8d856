---------------------------- MODULE Replication ----------------------------
(***************************************************************************)
(* What the replication of a key/value store promises to its sinks,        *)
(* apart from the data: batches are numbered 1..commits in the order the   *)
(* store applied them, a writer copies the list of sinks only after its    *)
(* batch is in the store, and a sink enters the list before the snapshot   *)
(* it starts from is taken.  Callbacks may run late, overtake each other,  *)
(* fail, or reach a sink that has left the list.                           *)
(***************************************************************************)
EXTENDS Integers

CONSTANT Sinks

VARIABLES commits,    \* batches the store has applied
          waiting,    \* batches whose writer has not copied the list yet
          registered, \* the list of sinks
          since,      \* commits when the sink last entered the list
          based,      \* sinks given a snapshot since they entered the list
          shipping,   \* snapshots taken for a sink and not given to it yet
          covered,    \* batches contained in some snapshot the sink was given
          left,       \* batches on their way to the sink
          seen,       \* batches the sink was called with
          lost        \* batches abandoned when a callback failed

vars == <<commits, waiting, registered, since, based, shipping, covered,
          left, seen, lost>>

TypeOK ==
    /\ commits \in Nat
    /\ waiting \in SUBSET Nat
    /\ registered \in SUBSET Sinks
    /\ since \in [Sinks -> Nat]
    /\ based \in SUBSET Sinks
    /\ shipping \in [Sinks -> SUBSET Nat]
    /\ covered \in [Sinks -> SUBSET Nat]
    /\ left \in [Sinks -> SUBSET Nat]
    /\ seen \in [Sinks -> SUBSET Nat]
    /\ lost \in [Sinks -> SUBSET Nat]

None == [s \in Sinks |-> {}]

Init ==
    /\ commits = 0 /\ waiting = {} /\ registered = {} /\ based = {}
    /\ since = [s \in Sinks |-> 0]
    /\ shipping = None /\ covered = None
    /\ left = None /\ seen = None /\ lost = None

Commit ==
    /\ commits' = commits + 1
    /\ waiting' = waiting \union {commits + 1}
    /\ UNCHANGED <<registered, since, based, shipping, covered, left, seen, lost>>

\* A writer copies the list.
CopySinks(b) ==
    /\ b \in waiting
    /\ waiting' = waiting \ {b}
    /\ left' = [s \in Sinks |-> IF s \in registered THEN left[s] \union {b}
                                                    ELSE left[s]]
    /\ UNCHANGED <<commits, registered, since, based, shipping, covered, seen, lost>>

Deliver(s, b) ==
    /\ b \in left[s]
    /\ left' = [left EXCEPT ![s] = @ \ {b}]
    /\ seen' = [seen EXCEPT ![s] = @ \union {b}]
    /\ UNCHANGED <<commits, waiting, registered, since, based, shipping, covered, lost>>

\* A callback fails: nobody further down the copied list is called.
Abandon(b) ==
    /\ \E s \in Sinks : b \in left[s]
    /\ left' = [s \in Sinks |-> left[s] \ {b}]
    /\ lost' = [s \in Sinks |-> IF b \in left[s] THEN lost[s] \union {b}
                                                 ELSE lost[s]]
    /\ UNCHANGED <<commits, waiting, registered, since, based, shipping, covered, seen>>

Register(s) ==
    /\ s \notin registered
    /\ registered' = registered \union {s}
    /\ since' = [since EXCEPT ![s] = commits]
    /\ based' = based \ {s}
    /\ UNCHANGED <<commits, waiting, shipping, covered, left, seen, lost>>

Unregister(s) ==
    /\ s \in registered
    /\ registered' = registered \ {s}
    /\ UNCHANGED <<commits, waiting, since, based, shipping, covered, left, seen, lost>>

\* A snapshot is taken for the sink: it contains batches 1..commits.
Export(s) ==
    /\ shipping' = [shipping EXCEPT ![s] = @ \union {commits}]
    /\ UNCHANGED <<commits, waiting, registered, since, based, covered, left, seen, lost>>

\* The sink is given a snapshot, or refuses it; another one with the same
\* batches may still be on its way.  Only a snapshot taken after
\* the sink entered the list makes it a replica.
GiveSnapshot(s, n) ==
    /\ n \in shipping[s]
    /\ shipping' \in {shipping, [shipping EXCEPT ![s] = @ \ {n}]}
    /\ \/ /\ covered' = [covered EXCEPT ![s] = @ \union 1..n]
          /\ \/ based' = based
             \/ n >= since[s] /\ based' = based \union {s}
       \/ UNCHANGED <<covered, based>>
    /\ UNCHANGED <<commits, waiting, registered, since, left, seen, lost>>

\* The process ends; the next one starts with no sink.
Restart ==
    /\ commits' = 0 /\ waiting' = {} /\ registered' = {} /\ based' = {}
    /\ since' = [s \in Sinks |-> 0]
    /\ shipping' = None /\ covered' = None
    /\ left' = None /\ seen' = None /\ lost' = None

Next ==
    \/ Commit \/ Restart
    \/ \E b \in waiting : CopySinks(b)
    \/ \E s \in Sinks :
        \/ \E b \in left[s] : Deliver(s, b) \/ Abandon(b)
        \/ Register(s) \/ Unregister(s) \/ Export(s)
        \/ \E n \in shipping[s] : GiveSnapshot(s, n)

Spec == Init /\ [][Next]_vars

Accounted(s) == covered[s] \union seen[s] \union waiting \union left[s]
                           \union lost[s]

\* A registered sink that was given its snapshot has every batch the store
\* ever applied: in a snapshot, by a call, still on its way, or abandoned by
\* a callback that failed.  No batch falls between the snapshot and the calls.
NoBatchMissed ==
    \A s \in registered \cap based : 1..commits \subseteq Accounted(s)

\* Inductive: batches applied after the sink entered the list do not depend
\* on its snapshot, and the snapshot covers the ones before.
Inv ==
    /\ TypeOK
    /\ \A s \in registered : \A b \in 1..commits :
            b > since[s] => b \in Accounted(s)
    /\ \A s \in registered \cap based : 1..since[s] \subseteq covered[s]
============================================================================
