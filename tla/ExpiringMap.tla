---------------------------- MODULE ExpiringMap ----------------------------
(***************************************************************************)
(* The map a key/value store with expiry promises: an entry is gone the    *)
(* moment its time comes, a batch takes effect as a whole or not at all,   *)
(* and a swap needs the value it expects.  There is no pruning here.       *)
(***************************************************************************)
EXTENDS Integers, Sequences, Functions

CONSTANTS Batches,  \* the batches writers may ask for
          Swaps     \* the swaps writers may ask for

VARIABLES map,      \* key -> [value, expires], none of them expired
          now,
          loads     \* times the whole map was replaced

mapVars == <<map, now, loads>>

Forever == -1

Live(m, time) ==
    Restrict(m, {k \in DOMAIN m : m[k].expires = Forever \/ m[k].expires > time})

Until(ttl) == IF ttl < 0 THEN Forever ELSE now + ttl

With(m, k, e) == [x \in DOMAIN m \union {k} |-> IF x = k THEN e ELSE m[x]]

Without(m, k) == Restrict(m, DOMAIN m \ {k})

\* What one operation of a batch makes of the map; a SET without a time to
\* live leaves the time of an entry it overwrites.
Effect(m, op) ==
    IF op.type = "DELETE" THEN Without(m, op.key)
    ELSE With(m, op.key,
              [value |-> op.value,
               expires |-> IF op.ttl < 0 /\ op.key \in DOMAIN m
                           THEN m[op.key].expires ELSE Until(op.ttl)])

\* What the first n operations of a batch make of the map.
After(batch) ==
    LET after[n \in 0..Len(batch)] ==
            IF n = 0 THEN map ELSE Effect(after[n - 1], batch[n])
    IN  after

\* Every key deleted is there when its turn comes, and no key is empty.
Succeeds(batch) ==
    \A i \in 1..Len(batch) :
        /\ batch[i].key # ""
        /\ batch[i].type = "DELETE" => batch[i].key \in DOMAIN After(batch)[i - 1]

Apply(batch) ==
    /\ Succeeds(batch)
    /\ map' = Live(After(batch)[Len(batch)], now)
    /\ UNCHANGED <<now, loads>>

Swap(c) ==
    /\ c.key \in DOMAIN map /\ map[c.key].value = c.expected
    /\ map' = IF c.new = "" THEN Without(map, c.key)
              ELSE Live(With(map, c.key, [value |-> c.new, expires |-> Until(c.ttl)]), now)
    /\ UNCHANGED <<now, loads>>

Tick == now' = now + 1 /\ map' = Live(map, now') /\ UNCHANGED loads

\* An import, a change of backend, the end of the process and its restart.
Replace == loads' = loads + 1 /\ map' = Live(map', now) /\ UNCHANGED now

MapInit == map = Live(map, now) /\ now = 0 /\ loads = 0

MapNext ==
    \/ Tick \/ Replace
    \/ \E b \in Batches : Apply(b)
    \/ \E c \in Swaps : Swap(c)

MapSpec == MapInit /\ [][MapNext]_mapVars
============================================================================
