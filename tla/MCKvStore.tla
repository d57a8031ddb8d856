----------------------------- MODULE MCKvStore -----------------------------
(***************************************************************************)
(* Calls for KvStore.  Three threads write, replicate, flush, compact or   *)
(* change the backend.                                                     *)
(***************************************************************************)
EXTENDS KvStore

Set(k, v, ttl) == [type |-> "SET", key |-> k, value |-> v, ttl |-> ttl]
Delete(k) == [type |-> "DELETE", key |-> k, ttl |-> -1]

Put(k, v, ttl) == [op |-> "apply", batch |-> <<Set(k, v, ttl)>>]
Apply(batch) == [op |-> "apply", batch |-> batch]
Do(op) == [op |-> op]
Erase(k) == [op |-> "delete", key |-> k]
Swap(k, old, new, ttl) ==
    [op |-> "swap", key |-> k, expected |-> old, new |-> new, ttl |-> ttl]
Register(s) == [op |-> "register", sink |-> s, ship |-> TRUE]
ToSink(op, s) == [op |-> op, sink |-> s]
Import(e) == [op |-> "import", entries |-> e]
Backend(b) == [op |-> "backend", backend |-> b]

OneEntry == [k \in {"a"} |-> [value |-> "x", expires |-> 1]]

\* A writer with a sink, and a sink that leaves and comes back.
Replicating ==
    [t1 |-> <<Register("s2"), Put("a", "y", -1), Put("b", "y", -1)>>,
     t2 |-> <<Register("s1"), ToSink("unregister", "s1"), Register("s1")>>,
     t3 |-> <<>>]

\* Two writers, and snapshots of one sink by two threads.
Snapshots ==
    [t1 |-> <<Put("a", "y", -1)>>,
     t2 |-> <<Register("s1"), Erase("b")>>,
     t3 |-> <<ToSink("ship", "s1"), Put("b", "y", -1)>>]

\* A batch rolled back unless "b" is there, a swap, and entries that expire.
Writing ==
    [t1 |-> <<Put("a", "y", -1), Apply(<<Set("a", "z", 2), Delete("b")>>)>>,
     t2 |-> <<Erase("a"), Swap("b", "y", "x", -1), Do("get"), Swap("b", "x", "", -1)>>,
     t3 |-> <<Put("b", "y", 1), Import(OneEntry), Put("", "y", 0)>>]

\* Two flushes that overlap, while another thread writes.
Flushing ==
    [t1 |-> <<Do("flush"), Do("flush")>>,
     t2 |-> <<Put("b", "y", 1), Do("flush")>>,
     t3 |-> <<Put("a", "y", -1)>>]

\* Changing to backend b and, after a flush to it, to backend c.
Moving(b, c) ==
    [t1 |-> <<Backend(b), Do("flush"), Backend(c)>>, t2 |-> <<Do("flush")>>, t3 |-> <<>>]

\* One controller of the compaction.
Compacting ==
    [t1 |-> <<Do("start"), Do("start"), Do("stop"), Do("stop"), Do("start"), Do("stop")>>,
     t2 |-> <<Put("b", "y", 1)>>,
     t3 |-> <<>>]

AllScripts ==
    {Replicating, Snapshots, Writing, Flushing, Compacting,
     Moving("MEMORY_MAPPED", "SQLITE"), Moving("SQLITE", "JSON_LINES"),
     Moving("JSON_LINES", "JSON_LINES")}

\* Two controllers of the compaction.
Controllers ==
    {[t1 |-> <<Do("start"), Do("stop")>>, t2 |-> <<Do("start")>>, t3 |-> <<>>]}

\* A key that starts with the prefix of the expirations.
Prefixed == {[t1 |-> <<Put("__ttl__a", "y", -1), Do("flush")>>, t2 |-> <<>>, t3 |-> <<>>]}

\* Writing to a backend and opening it again.
Reopening == {Moving("MEMORY_MAPPED", "MEMORY_MAPPED")}

\* A flush whose data the file system refuses.
Refused == {Flushing}
============================================================================
