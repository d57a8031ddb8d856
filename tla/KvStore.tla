------------------------------ MODULE KvStore ------------------------------
(***************************************************************************)
(* kv_store: threads calling one store, its background compaction, its     *)
(* replication sinks, the files of its backends, and the process that      *)
(* crashes and is started again on the same files.  A section under the    *)
(* store's lock is one step: nothing waits while holding it.  What is read *)
(* under the lock and used after it is kept in the thread's record.        *)
(* Values are texts that are not numbers; encryption and the counters of   *)
(* get_metrics are left out.                                               *)
(***************************************************************************)
EXTENDS Integers, Sequences, Functions

CONSTANTS Threads,
          Scripts,        \* what the threads may do: thread -> calls, in order
          Sinks,          \* replication sinks
          FailingSinks,   \* those whose callbacks may return an error
          ReservedKeys,   \* keys that start with "__ttl__"
          InitialEntries, \* what the JSON file holds at first
          WriteFails,     \* backends whose data the file system may refuse
          MaxTime, MaxCrashes, MaxWorkers

VARIABLES data,     \* _data: key -> [value, expires]
          now,      \* the clock, in seconds
          th,       \* thread -> its call in progress and the calls to come
          store,    \* [up, backend, loads, crashes, aborted]
          file,     \* backend -> the contents of its location
          durable,  \* backend -> the entries of the last flush reported done
          repl,     \* replication: _replication_sinks and what sinks received
          comp      \* background compaction

vars == <<data, now, th, store, file, durable, repl, comp>>

Backends == {"JSON", "JSON_LINES", "SQLITE", "MEMORY_MAPPED"}
Forever == -1
Nothing == [x \in {} |-> x]
Unknown == [known |-> FALSE, entries |-> Nothing]
Absent == [state |-> "absent", items |-> Nothing]
Torn == [state |-> "torn", items |-> Nothing]

AllCalls == UNION {Range(script[t]) : script \in Scripts, t \in Threads}

\* A map from keys to entries.
IsMap(m) ==
    /\ m = [k \in DOMAIN m |-> m[k]]
    /\ \A k \in DOMAIN m : /\ m[k] = [value |-> m[k].value, expires |-> m[k].expires]
                           /\ m[k].expires \in Int

ASSUME StoreAssumption ==
    /\ FailingSinks \subseteq Sinks
    /\ MaxTime \in Nat /\ MaxCrashes \in Nat /\ MaxWorkers \in Nat
    /\ WriteFails \subseteq Backends
    /\ IsMap(InitialEntries)

\* The arguments the signatures of the calls admit.
ASSUME CallsAssumption ==
    /\ Scripts \subseteq [Threads -> Seq(AllCalls)]
    /\ \A c \in AllCalls :
        /\ c.op \in {"register", "unregister", "ship"} => c.sink \in Sinks
        /\ c.op = "apply" => /\ c.batch \in Seq(Range(c.batch))
                            /\ \A i \in DOMAIN c.batch : c.batch[i].ttl \in Int
        /\ c.op = "swap" => c.ttl \in Int
        /\ c.op = "import" => IsMap(c.entries)

----------------------------------------------------------------------------
(* The map. *)

IsExpired(e) == e.expires # Forever /\ e.expires <= now

Pruned(m) == Restrict(m, {k \in DOMAIN m : ~IsExpired(m[k])})

ComputeExpiration(ttl) == IF ttl < 0 THEN Forever ELSE now + ttl

Stored(m, k, e) == [x \in DOMAIN m \union {k} |-> IF x = k THEN e ELSE m[x]]
Erased(m, k) == Restrict(m, DOMAIN m \ {k})

\* One turn of kv_apply's loop.
ApplyOne(acc, op) ==
    LET present == op.key \in DOMAIN acc.data
        expires == IF op.ttl < 0 /\ present THEN acc.data[op.key].expires
                                            ELSE ComputeExpiration(op.ttl)
    IN  IF ~acc.ok \/ op.key = "" \/ (op.type = "DELETE" /\ ~present)
        THEN [acc EXCEPT !.ok = FALSE]
        ELSE [acc EXCEPT !.data =
                IF op.type = "DELETE" THEN Erased(@, op.key)
                ELSE Stored(@, op.key, [value |-> op.value, expires |-> expires])]

\* What the first n operations make of the map.
Applied(batch) ==
    LET after[n \in 0..Len(batch)] ==
            IF n = 0 THEN [ok |-> TRUE, data |-> Pruned(data)]
            ELSE ApplyOne(after[n - 1], batch[n])
    IN  after

\* mutant: the operations before the failing one stay
ApplyBatchInPart(batch) == Applied(batch)[Len(batch)]

\* kv_apply under the lock: on an error the map saved at the start is put back.
ApplyBatch(batch) ==
    LET result == Applied(batch)[Len(batch)]
    IN  IF result.ok THEN result ELSE [ok |-> FALSE, data |-> Pruned(data)]

\* An entry becomes an item of its key, and one of "__ttl__" and its key.
ToItems(entries) ==
    [n \in {<<"value", k>> : k \in DOMAIN entries}
           \union {<<"ttl", k>> : k \in {j \in DOMAIN entries :
                                            entries[j].expires # Forever}} |->
        IF n[1] = "value" THEN entries[n[2]].value ELSE entries[n[2]].expires]

FromItems(items) ==
    [k \in {n[2] : n \in {m \in DOMAIN items : m[1] = "value"}} |->
        [value |-> items[<<"value", k>>],
         expires |-> IF <<"ttl", k>> \in DOMAIN items THEN items[<<"ttl", k>>]
                                                      ELSE Forever]]

\* initialize refuses a missing, empty or torn file, and one in which a
\* user's key reads as an expiration that is not a number.
Loads(f) == /\ f.state = "whole"
            /\ \A n \in DOMAIN f.items : n[2] \notin ReservedKeys

----------------------------------------------------------------------------
(* Threads. *)

Resting(todo) == [pc |-> "idle", todo |-> todo, entries |-> Nothing,
                  sinks |-> <<>>, n |-> 0, to |-> "", alone |-> TRUE]

Call(t) == Head(th[t].todo)
Calls(t, op) == /\ store.up /\ th[t].pc = "idle" /\ th[t].todo # <<>>
                /\ Call(t).op = op
At(t, pc) == store.up /\ th[t].pc = pc

Return(t) == th' = [th EXCEPT ![t] = Resting(Tail(@.todo))]
Goto(t, pc) == th' = [th EXCEPT ![t].pc = pc]

NoSinks == [registered |-> <<>>, commits |-> 0, since |-> [s \in Sinks |-> 0],
            based |-> {}, covered |-> [s \in Sinks |-> {}],
            seen |-> [s \in Sinks |-> {}], lost |-> [s \in Sinks |-> {}]]

\* worker: the state of every compaction thread started so far.
NoCompaction == [active |-> FALSE, stop |-> FALSE, worker |-> <<>>]

Init ==
    /\ data = Nothing /\ now = 0
    /\ \E script \in Scripts : th = [t \in Threads |-> Resting(script[t])]
    /\ store = [up |-> FALSE, backend |-> "JSON", loads |-> 0,
                crashes |-> 0, aborted |-> FALSE]
    /\ file = [b \in Backends |-> IF b = "JSON"
                   THEN [state |-> "whole", items |-> ToItems(InitialEntries)]
                   ELSE Absent]
    /\ durable = [b \in Backends |-> IF b = "JSON"
                      THEN [known |-> TRUE, entries |-> InitialEntries]
                      ELSE Unknown]
    /\ repl = NoSinks /\ comp = NoCompaction

(* kv_apply, which kv_set calls with one operation and kv_delete after it  *)
(* has found its key and left the lock.                                    *)
KvDeleteFind(t) ==
    /\ Calls(t, "delete")
    /\ IF Call(t).key \in DOMAIN data THEN Goto(t, "found") ELSE Return(t)
    /\ UNCHANGED <<data, now, store, file, durable, repl, comp>>

KvApply(t) ==
    /\ Calls(t, "apply") \/ At(t, "found")
    /\ LET batch == IF th[t].pc = "found"
                    THEN <<[type |-> "DELETE", key |-> Call(t).key, ttl |-> -1]>>
                    ELSE Call(t).batch
           result == ApplyBatch(batch)
       IN  /\ data' = result.data
           /\ IF result.ok /\ batch # <<>>
              THEN /\ repl' = [repl EXCEPT !.commits = @ + 1]
                   /\ th' = [th EXCEPT ![t].pc = "notify", ![t].n = repl.commits + 1]
              ELSE Return(t) /\ UNCHANGED repl
    /\ UNCHANGED <<now, store, file, durable, comp>>

\* notify_replication_listeners: copy the list under its lock ...
NotifyCopy(t) ==
    /\ At(t, "notify")
    /\ IF repl.registered = <<>> THEN Return(t)
       ELSE th' = [th EXCEPT ![t].pc = "call", ![t].sinks = repl.registered]
    /\ UNCHANGED <<data, now, store, file, durable, repl, comp>>

\* mutant: the index of the copy is not advanced
NotifyCallAgain(t) ==
    /\ At(t, "call")
    /\ repl' = [repl EXCEPT !.seen[Head(th[t].sinks)] = @ \union {th[t].n}]
    /\ UNCHANGED <<data, now, th, store, file, durable, comp>>

\* ... and call the sinks of the copy in turn, up to the first that fails.
NotifyCall(t) ==
    /\ At(t, "call")
    /\ LET s == Head(th[t].sinks) rest == Tail(th[t].sinks) b == th[t].n IN
        \/ /\ repl' = [repl EXCEPT !.seen[s] = @ \union {b}]
           /\ IF rest = <<>> THEN Return(t) ELSE th' = [th EXCEPT ![t].sinks = rest]
        \/ /\ s \in FailingSinks
           /\ repl' = [repl EXCEPT !.lost = [r \in Sinks |->
                            IF r \in Range(th[t].sinks) THEN @[r] \union {b} ELSE @[r]]]
           /\ Return(t)
    /\ UNCHANGED <<data, now, store, file, durable, comp>>

\* kv_compare_and_swap: not passed to the sinks.
KvCompareAndSwap(t) ==
    /\ Calls(t, "swap")
    /\ LET c == Call(t) m == Pruned(data) IN
        data' = IF c.key \notin DOMAIN m \/ m[c.key].value # c.expected THEN m
                ELSE IF c.new = "" THEN Erased(m, c.key)
                ELSE Stored(m, c.key, [value |-> c.new,
                                       expires |-> ComputeExpiration(c.ttl)])
    /\ Return(t)
    /\ UNCHANGED <<now, store, file, durable, repl, comp>>

\* kv_get, kv_contains and prune_expired.
KvGet(t) ==
    /\ Calls(t, "get")
    /\ data' = Pruned(data)
    /\ Return(t)
    /\ UNCHANGED <<now, store, file, durable, repl, comp>>

ImportSnapshot(t) ==
    /\ Calls(t, "import")
    /\ data' = Call(t).entries
    /\ store' = [store EXCEPT !.loads = @ + 1]
    /\ Return(t)
    /\ UNCHANGED <<now, file, durable, repl, comp>>

----------------------------------------------------------------------------
(* Replication sinks. *)

Export(t, pc) ==
    /\ data' = Pruned(data)
    /\ th' = [th EXCEPT ![t].pc = pc, ![t].entries = data', ![t].n = repl.commits]
    /\ UNCHANGED <<now, store, file, durable, repl, comp>>

\* mutant: the snapshot is taken before the sink enters the list
RegisterSinkLate(t) ==
    \/ Calls(t, "register") /\ Export(t, "push")
    \/ /\ At(t, "push")
       /\ repl' = [repl EXCEPT !.registered = Append(@, Call(t).sink),
                               !.since[Call(t).sink] = repl.commits]
       /\ Goto(t, "give")
       /\ UNCHANGED <<data, now, store, file, durable, comp>>

\* register_replication_sink under the replication lock.
RegisterSink(t) ==
    /\ Calls(t, "register")
    /\ LET s == Call(t).sink IN
        IF s \in Range(repl.registered)
        THEN Return(t) /\ UNCHANGED repl
        ELSE /\ repl' = [repl EXCEPT !.registered = Append(@, s),
                                     !.since[s] = repl.commits, !.based = @ \ {s}]
             /\ IF Call(t).ship THEN Goto(t, "export") ELSE Return(t)
    /\ UNCHANGED <<data, now, store, file, durable, comp>>

\* dispatch_snapshot_to_sink, from registering and from
\* ship_replication_snapshot: export_snapshot, then the callback.
ExportForSink(t) ==
    /\ At(t, "export") \/ Calls(t, "ship")
    /\ Export(t, "give")

GiveSnapshot(t) ==
    /\ At(t, "give")
    /\ LET s == Call(t).sink IN
        \/ repl' = [repl EXCEPT !.covered[s] = @ \union 1..th[t].n,
                       !.based = IF Call(t).op = "register" THEN @ \union {s} ELSE @]
        \/ s \in FailingSinks /\ UNCHANGED repl
    /\ Return(t)
    /\ UNCHANGED <<data, now, store, file, durable, comp>>

\* ft_vector::erase.
EraseAt(list, i) == SubSeq(list, 1, i - 1) \o SubSeq(list, i + 1, Len(list))

\* unregister_replication_sink finds the one place of the sink, if it has one.
UnregisterSink(t) ==
    /\ Calls(t, "unregister")
    /\ IF Call(t).sink \in Range(repl.registered)
       THEN \E i \in DOMAIN repl.registered :
                /\ repl.registered[i] = Call(t).sink
                /\ repl' = [repl EXCEPT !.registered = EraseAt(@, i)]
       ELSE UNCHANGED repl
    /\ Return(t)
    /\ UNCHANGED <<data, now, store, file, durable, comp>>

----------------------------------------------------------------------------
(* Files. *)

\* kv_flush prunes under the lock, exports under it again, and writes the
\* copy without it.
KvFlush(t) ==
    /\ Calls(t, "flush")
    /\ data' = Pruned(data)
    /\ Goto(t, "export_file")
    /\ UNCHANGED <<now, store, file, durable, repl, comp>>

ExportForFlush(t) == At(t, "export_file") /\ Export(t, "open")

Writers(b) == {t \in Threads : th[t].pc = "write" /\ th[t].to = b}

\* The file is truncated when it is opened; SQLite opens a transaction, and
\* refuses a second one.
FlushOpen(t) ==
    /\ At(t, "open")
    /\ LET b == store.backend others == Writers(b) IN
        IF b = "SQLITE" /\ others # {}
        THEN Return(t) /\ UNCHANGED <<file, durable>>
        ELSE /\ th' = [u \in Threads |->
                CASE u = t -> [th[t] EXCEPT !.pc = "write", !.to = b, !.alone = others = {}]
                  [] u \in others -> [th[u] EXCEPT !.alone = FALSE]
                  [] OTHER -> th[u]]
             /\ IF b = "SQLITE" THEN UNCHANGED <<file, durable>>
                ELSE /\ file' = [file EXCEPT ![b] = Torn]
                     /\ durable' = [durable EXCEPT ![b] = Unknown]
    /\ UNCHANGED <<data, now, store, repl, comp>>

Reported(t) == IF th[t].alone
               THEN [durable EXCEPT ![th[t].to] = [known |-> TRUE,
                                                   entries |-> th[t].entries]]
               ELSE durable

\* The data are written and the file is closed.  Flushes that overlap leave
\* the data of one of them, or a mixture.
FlushClose(t) ==
    /\ At(t, "write")
    /\ LET whole == [state |-> "whole", items |-> ToItems(th[t].entries)] IN
        \E f \in IF th[t].alone THEN {whole} ELSE {whole, Torn, file[th[t].to]} :
            file' = [file EXCEPT ![th[t].to] = f]
    /\ durable' = Reported(t)
    /\ Return(t)
    /\ UNCHANGED <<data, now, store, repl, comp>>

\* mutant: SQLite's rows are replaced outside the transaction
FlushFailsHalfway(t) ==
    /\ At(t, "write") /\ th[t].to \in WriteFails
    /\ file' = [file EXCEPT ![th[t].to] = Torn]
    /\ Return(t)
    /\ UNCHANGED <<data, now, store, durable, repl, comp>>

\* The file system refuses the data: SQLite rolls back, JSON-lines and the
\* memory-mapped file report it, the JSON writer reports success.
FlushFails(t) ==
    /\ At(t, "write") /\ th[t].to \in WriteFails
    /\ durable' = IF th[t].to = "JSON" THEN Reported(t) ELSE durable
    /\ Return(t)
    /\ UNCHANGED <<data, now, store, file, repl, comp>>

\* The process ends, by a crash or by what the threads in aborting do; the
\* calls in progress are over and only the files stay.
Ends(aborting) ==
    /\ data' = Nothing
    /\ th' = [t \in Threads |-> Resting(IF th[t].pc = "idle" /\ t \notin aborting
                                        THEN th[t].todo ELSE Tail(th[t].todo))]
    /\ store' = [store EXCEPT !.up = FALSE, !.backend = "JSON", !.loads = @ + 1,
                              !.crashes = IF aborting = {} THEN @ + 1 ELSE @,
                              !.aborted = @ \/ aborting # {}]
    /\ repl' = NoSinks /\ comp' = NoCompaction
    /\ UNCHANGED <<now, file, durable>>

\* What reading a backend's location comes to.  An entry found is appended to
\* a vector nobody initialised, which aborts; JSON asks that vector for its
\* error, and JSON-lines reads its lines into another one.
LoadJson == "abort"

LoadJsonLines == IF file["JSON_LINES"] = Absent THEN "unreadable" ELSE "abort"

LoadSqlite == IF file["SQLITE"].items # Nothing THEN "abort" ELSE "empty"

LoadMemoryMapped ==
    IF file["MEMORY_MAPPED"].state # "whole" THEN "unreadable"
    ELSE IF file["MEMORY_MAPPED"].items # Nothing THEN "abort" ELSE "empty"

LoadBackend(b) ==
    CASE b = "JSON" -> LoadJson
      [] b = "JSON_LINES" -> LoadJsonLines
      [] b = "SQLITE" -> LoadSqlite
      [] b = "MEMORY_MAPPED" -> LoadMemoryMapped

\* set_backend reads the location before it takes the lock ...
SetBackend(t) ==
    /\ Calls(t, "backend")
    /\ LET loaded == LoadBackend(Call(t).backend) IN
        \/ loaded = "abort" /\ Ends({t})
        \/ /\ loaded # "abort"
           /\ th' = [th EXCEPT ![t].pc = "switch", ![t].to = loaded]
           /\ UNCHANGED <<data, now, store, file, durable, repl, comp>>

\* ... and under it changes the backend, and the map if anything was read.
SwitchBackend(t) ==
    /\ At(t, "switch")
    /\ IF th[t].to = "empty"
       THEN /\ data' = Nothing
            /\ store' = [store EXCEPT !.backend = Call(t).backend, !.loads = @ + 1]
       ELSE /\ store' = [store EXCEPT !.backend = Call(t).backend]
            /\ UNCHANGED data
    /\ Return(t)
    /\ UNCHANGED <<now, file, durable, repl, comp>>

Crash == store.up /\ store.crashes < MaxCrashes /\ Ends({})

Initialize ==
    /\ ~store.up /\ Loads(file["JSON"])
    /\ data' = Pruned(FromItems(file["JSON"].items))
    /\ store' = [store EXCEPT !.up = TRUE, !.loads = @ + 1]
    /\ UNCHANGED <<now, th, file, durable, repl, comp>>

----------------------------------------------------------------------------
(* Background compaction.  It prunes; it never writes the file. *)

\* start_background_compaction: with one running only the interval changes.
StartCompaction(t) ==
    /\ Calls(t, "start")
    /\ comp.active \/ Len(comp.worker) < MaxWorkers
    /\ comp' = IF comp.active THEN comp
               ELSE [active |-> TRUE, stop |-> FALSE,
                     worker |-> Append(comp.worker, "check")]
    /\ Return(t)
    /\ UNCHANGED <<data, now, store, file, durable, repl>>

\* mutant: the worker is taken to be joined but not told to stop
StopCompactionQuietly(t) ==
    /\ Calls(t, "stop")
    /\ comp' = [comp EXCEPT !.active = FALSE]
    /\ th' = [th EXCEPT ![t].pc = "join", ![t].n = IF comp.active THEN Len(comp.worker)
                                                                  ELSE 0]
    /\ UNCHANGED <<data, now, store, file, durable, repl>>

\* stop_background_compaction: the flag is set and the thread taken under the
\* lock, the thread is joined without it, and the flag is cleared under it.
StopCompaction(t) ==
    /\ Calls(t, "stop")
    /\ comp' = IF comp.active THEN [comp EXCEPT !.active = FALSE, !.stop = TRUE] ELSE comp
    /\ th' = [th EXCEPT ![t].pc = "join", ![t].n = IF comp.active THEN Len(comp.worker)
                                                                  ELSE 0]
    /\ UNCHANGED <<data, now, store, file, durable, repl>>

StopJoined(t) ==
    /\ At(t, "join")
    /\ th[t].n # 0 => comp.worker[th[t].n] = "ended"
    /\ comp' = [comp EXCEPT !.stop = FALSE]
    /\ Return(t)
    /\ UNCHANGED <<data, now, store, file, durable, repl>>

WorkerCheck(w) ==
    /\ comp.worker[w] = "check"
    /\ comp' = [comp EXCEPT !.worker[w] = IF comp.stop THEN "ended" ELSE "sleep"]
    /\ UNCHANGED <<data, now, th, store, file, durable, repl>>

WorkerPrune(w) ==
    /\ comp.worker[w] = "sleep"
    /\ data' = Pruned(data)
    /\ comp' = [comp EXCEPT !.worker[w] = "check"]
    /\ UNCHANGED <<now, th, store, file, durable, repl>>

Tick == now < MaxTime /\ now' = now + 1
        /\ UNCHANGED <<data, th, store, file, durable, repl, comp>>

Step(t) ==
    \/ KvDeleteFind(t) \/ KvApply(t) \/ NotifyCopy(t) \/ NotifyCall(t)
    \/ KvCompareAndSwap(t) \/ KvGet(t) \/ ImportSnapshot(t)
    \/ RegisterSink(t) \/ ExportForSink(t) \/ GiveSnapshot(t) \/ UnregisterSink(t)
    \/ KvFlush(t) \/ ExportForFlush(t) \/ FlushOpen(t) \/ FlushClose(t) \/ FlushFails(t)
    \/ SetBackend(t) \/ SwitchBackend(t)
    \/ StartCompaction(t) \/ StopCompaction(t) \/ StopJoined(t)

Worker(w) == WorkerCheck(w) \/ WorkerPrune(w)

Next ==
    \/ \E t \in Threads : Step(t)
    \/ \E w \in DOMAIN comp.worker : Worker(w)
    \/ Tick \/ Crash \/ Initialize

Spec == Init /\ [][Next]_vars

\* A thread that can run runs, and so does a compaction thread; the clock
\* and crashes owe nothing.
FairSpec ==
    /\ Spec
    /\ \A t \in Threads : WF_vars(Step(t))
    /\ \A w \in 1..MaxWorkers :
            WF_vars(w \in DOMAIN comp.worker /\ Worker(w))

----------------------------------------------------------------------------
(* Properties. *)

\* The map as callers see it through the lazy pruning.
Unexpired == Restrict(data, {k \in DOMAIN data : data[k].expires = Forever
                                                  \/ data[k].expires > now})

Abstract == INSTANCE ExpiringMap WITH
    map <- Unexpired, loads <- store.loads,
    Batches <- {c.batch : c \in {d \in AllCalls : d.op = "apply"}}
               \union {<<[type |-> "DELETE", key |-> c.key, ttl |-> -1]>> :
                            c \in {d \in AllCalls : d.op = "delete"}},
    Swaps <- {d \in AllCalls : d.op = "swap"}

\* Through the lazy pruning, the per-section locking and the rollback of
\* kv_apply, the store is the map in which entries vanish exactly when they
\* expire, and batches and swaps happen at one moment or not at all.
ImplementsExpiringMap == Abstract!MapSpec

\* The replication of this store: batches not yet announced, batches on their
\* way to a sink, and snapshots on their way to it.
Waiting == {th[t].n : t \in {u \in Threads : th[u].pc = "notify"}}

Left == [s \in Sinks |-> {th[t].n : t \in {u \in Threads :
            th[u].pc = "call" /\ s \in Range(th[u].sinks)}}]

Shipping == [s \in Sinks |-> {th[t].n : t \in {u \in Threads :
                th[u].pc = "give" /\ Call(u).sink = s}}]

Registered == Range(repl.registered)

Sent == INSTANCE Replication WITH
    commits <- repl.commits, registered <- Registered,
    since <- repl.since, based <- repl.based, covered <- repl.covered,
    seen <- repl.seen, lost <- repl.lost,
    waiting <- Waiting, left <- Left, shipping <- Shipping

\* Sinks, writers and snapshots of the store follow the replication protocol,
\* whichever callbacks are late, fail or reach a sink that has left.
ImplementsReplication == Sent!Spec

\* A registered sink that has its snapshot has every batch kv_apply committed:
\* in the snapshot, by a call, on its way, or given up by a failing callback.
NoBatchMissed == Sent!NoBatchMissed

\* As long as no other flush has started, and whatever crashes, the location
\* of a backend holds what the last flush that reported success exported,
\* expirations included, and initialize accepts the JSON file.
FlushedIsOnFile ==
    \A b \in Backends : durable[b].known =>
        /\ file[b].state = "whole"
        /\ FromItems(file[b].items) = durable[b].entries
        /\ b = "JSON" => Loads(file[b])

\* stop_background_compaction returns: the worker it joins sees the stop flag,
\* whatever it was doing (background_compaction_worker).
StopReturns == \A t \in Threads : (th[t].pc = "join") ~> (th[t].pc # "join")

\* No call of the store ends the process (set_backend does).
NeverAborts == ~store.aborted
============================================================================
