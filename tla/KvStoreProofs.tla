--------------------------- MODULE KvStoreProofs ---------------------------
(***************************************************************************)
(* What the store does for its sinks, its callers and its files, for any   *)
(* threads, calls, sinks, backends, crashes and refused writes.            *)
(***************************************************************************)
EXTENDS KvStore, NaturalsInduction, WellFoundedInduction, TLAPS

----------------------------------------------------------------------------
(* Sequences. *)

\* A queue is its head and the rest.
LEMMA HeadAndTail ==
    ASSUME NEW S, NEW q \in Seq(S), q # <<>>
    PROVE  /\ Head(q) \in S /\ Head(q) \in Range(q)
           /\ Tail(q) \in Seq(S) /\ Range(Tail(q)) \subseteq Range(q)
           /\ \A x \in Range(q) : x = Head(q) \/ x \in Range(Tail(q))
<1>1. /\ Len(q) \in Nat /\ Len(q) >= 1 /\ DOMAIN q = 1..Len(q)
      /\ Head(q) = q[1] /\ Tail(q) \in Seq(S) /\ Len(Tail(q)) = Len(q) - 1
      /\ DOMAIN Tail(q) = 1..(Len(q) - 1)
      /\ \A i \in 1..(Len(q) - 1) : Tail(q)[i] = q[i + 1]
      /\ \A i \in 1..Len(q) : q[i] \in S
  OBVIOUS
<1>2. \A i \in 1..(Len(q) - 1) : i + 1 \in 1..Len(q)
  BY <1>1
<1>3. ASSUME NEW x \in Range(q), x # Head(q) PROVE x \in Range(Tail(q))
  <2>1. PICK i \in 1..Len(q) : q[i] = x
    BY <1>1 DEF Range
  <2>2. i - 1 \in 1..(Len(q) - 1) /\ (i - 1) + 1 = i
    BY <2>1, <1>1, <1>3
  <2> QED BY <2>1, <2>2, <1>1, Zenon DEF Range
<1> QED BY <1>1, <1>2, <1>3 DEF Range

\* In a list without repetitions the head does not come again.
LEMMA TailWithoutHead ==
    ASSUME NEW S, NEW q \in Seq(S), q # <<>>, IsInjective(q)
    PROVE  IsInjective(Tail(q)) /\ Range(Tail(q)) = Range(q) \ {Head(q)}
<1>1. /\ Len(q) \in Nat /\ Len(q) >= 1 /\ DOMAIN q = 1..Len(q) /\ Head(q) = q[1]
      /\ DOMAIN Tail(q) = 1..(Len(q) - 1)
      /\ \A i \in 1..(Len(q) - 1) : Tail(q)[i] = q[i + 1]
  OBVIOUS
<1>2. \A i \in 1..(Len(q) - 1) : i + 1 \in 1..Len(q) /\ i + 1 # 1
  BY <1>1
<1>3. ASSUME NEW i \in 1..(Len(q) - 1), NEW j \in 1..(Len(q) - 1), Tail(q)[i] = Tail(q)[j]
      PROVE  i = j
  <2>1. i + 1 = j + 1
    BY <1>1, <1>2, <1>3 DEF IsInjective
  <2> QED BY <2>1
<1>4. Head(q) \notin Range(Tail(q))
  BY <1>1, <1>2 DEF IsInjective, Range
<1>5. IsInjective(Tail(q))
  BY <1>1, <1>3 DEF IsInjective
<1> QED BY <1>4, <1>5, HeadAndTail

\* A new element at the end.
LEMMA NewAtEnd ==
    ASSUME NEW S, NEW q \in Seq(S), NEW x \in S, IsInjective(q), x \notin Range(q)
    PROVE  /\ Append(q, x) \in Seq(S) /\ IsInjective(Append(q, x))
           /\ Range(Append(q, x)) = Range(q) \union {x}
<1>1. /\ Len(q) \in Nat /\ DOMAIN q = 1..Len(q) /\ Append(q, x) \in Seq(S)
      /\ DOMAIN Append(q, x) = 1..(Len(q) + 1) /\ Append(q, x)[Len(q) + 1] = x
      /\ \A i \in 1..Len(q) : Append(q, x)[i] = q[i]
  OBVIOUS
<1>2. \A i \in 1..(Len(q) + 1) : i \in 1..Len(q) \/ i = Len(q) + 1
  BY <1>1
<1>3. 1..Len(q) \subseteq 1..(Len(q) + 1) /\ Len(q) + 1 \in 1..(Len(q) + 1)
  BY <1>1
<1>4. Range(Append(q, x)) = Range(q) \union {x}
  BY <1>1, <1>2, <1>3, Zenon DEF Range
<1>5. \A i \in 1..Len(q) : q[i] # x
  BY <1>1, Zenon DEF Range
<1>6. IsInjective(Append(q, x))
  BY <1>1, <1>2, <1>5, ZenonT(30) DEF IsInjective
<1> QED BY <1>1, <1>4, <1>6

\* Erasing one place of a list without repetitions.
LEMMA ErasedFromList ==
    ASSUME NEW S, NEW q \in Seq(S), IsInjective(q), NEW i \in DOMAIN q
    PROVE  /\ EraseAt(q, i) \in Seq(S) /\ IsInjective(EraseAt(q, i))
           /\ Range(EraseAt(q, i)) = Range(q) \ {q[i]}
<1> DEFINE e == EraseAt(q, i)
           Back(j) == IF j < i THEN j ELSE j + 1
<1>1. /\ Len(q) \in Nat /\ DOMAIN q = 1..Len(q) /\ i \in 1..Len(q)
      /\ \A j \in 1..Len(q) : q[j] \in S
  OBVIOUS
<1>2. /\ SubSeq(q, 1, i - 1) \in Seq(S) /\ Len(SubSeq(q, 1, i - 1)) = i - 1
      /\ \A j \in 1..(i - 1) : SubSeq(q, 1, i - 1)[j] = q[j]
  BY <1>1
<1>3. /\ SubSeq(q, i + 1, Len(q)) \in Seq(S) /\ Len(SubSeq(q, i + 1, Len(q))) = Len(q) - i
      /\ \A j \in 1..(Len(q) - i) : SubSeq(q, i + 1, Len(q))[j] = q[j + i]
  <2>1. ASSUME NEW k \in 2..(Len(q) + 1)
        PROVE  /\ SubSeq(q, k, Len(q)) \in Seq(S) /\ Len(SubSeq(q, k, Len(q))) = Len(q) - k + 1
               /\ \A j \in 1..(Len(q) - k + 1) : SubSeq(q, k, Len(q))[j] = q[j + k - 1]
    BY <1>1
  <2>2. i + 1 \in 2..(Len(q) + 1) /\ Len(q) - (i + 1) + 1 = Len(q) - i
    BY <1>1
  <2>3. \A j \in 1..(Len(q) - i) : j + (i + 1) - 1 = j + i
    BY <1>1
  <2> QED BY <2>1, <2>2, <2>3
<1> DEFINE a == SubSeq(q, 1, i - 1)
           b == SubSeq(q, i + 1, Len(q))
<1>e. e = a \o b
  BY DEF EraseAt
<1> HIDE DEF a, b, e
<1>f. a \in Seq(S) /\ b \in Seq(S) /\ Len(a) = i - 1 /\ Len(b) = Len(q) - i
  BY <1>2, <1>3, Zenon DEF a, b
<1>4. e \in Seq(S) /\ Len(e) = Len(q) - 1
  <2>1. e \in Seq(S) /\ Len(e) = Len(a) + Len(b)
    BY <1>e, <1>f
  <2> QED BY <2>1, <1>f, <1>1
<1>5. ASSUME NEW j \in 1..(Len(q) - 1) PROVE e[j] = q[Back(j)]
  <2>2. CASE j < i
    <3>1. j \in 1..(i - 1) /\ e[j] = a[j]
      BY <1>1, <1>f, <2>2, <1>e
    <3> QED BY <3>1, <2>2, <1>2 DEF a
  <2>3. CASE ~(j < i)
    <3>1. /\ j - (i - 1) \in 1..(Len(q) - i) /\ j - (i - 1) + i = j + 1
          /\ j \in 1..(Len(a) + Len(b)) /\ ~(j <= Len(a)) /\ j - Len(a) = j - (i - 1)
      BY <1>1, <1>f, <2>3
    <3>2. \A k \in 1..(Len(a) + Len(b)) : ~(k <= Len(a)) => (a \o b)[k] = b[k - Len(a)]
      BY <1>f
    <3>3. e[j] = b[j - (i - 1)]
      BY <3>1, <3>2, <1>e, Zenon
    <3> QED BY <3>1, <3>3, <2>3, <1>3, Zenon DEF b
  <2> QED BY <2>2, <2>3
<1>6. DOMAIN e = 1..(Len(q) - 1)
  BY <1>4
<1>7. \A j \in 1..(Len(q) - 1) : Back(j) \in 1..Len(q) \ {i}
  BY <1>1
<1>8. \A j, k \in 1..(Len(q) - 1) : Back(j) = Back(k) => j = k
  BY <1>1
<1>9. \A k \in 1..Len(q) : k # i => \E j \in 1..(Len(q) - 1) : Back(j) = k
  <2> SUFFICES ASSUME NEW k \in 1..Len(q), k # i
               PROVE  \E j \in 1..(Len(q) - 1) : Back(j) = k
    OBVIOUS
  <2>1. CASE k < i
    <3>1. k \in 1..(Len(q) - 1) /\ Back(k) = k
      BY <2>1, <1>1
    <3> QED BY <3>1
  <2>2. CASE k > i
    <3>1. k - 1 \in 1..(Len(q) - 1) /\ Back(k - 1) = k
      BY <2>2, <1>1
    <3> QED BY <3>1
  <2> QED BY <2>1, <2>2, <1>1
<1> HIDE DEF Back
<1>10. IsInjective(e)
  BY <1>1, <1>5, <1>6, <1>7, <1>8, Zenon DEF IsInjective
<1>11. ASSUME NEW x PROVE x \in Range(e) <=> x \in Range(q) \ {q[i]}
  <2>1. ASSUME x \in Range(e) PROVE x \in Range(q) \ {q[i]}
    <3>1. PICK j \in 1..(Len(q) - 1) : x = q[Back(j)]
      BY <2>1, <1>5, <1>6, Zenon DEF Range
    <3> QED BY <3>1, <1>1, <1>7, Zenon DEF IsInjective, Range
  <2>2. ASSUME x \in Range(q), x # q[i] PROVE x \in Range(e)
    <3>1. PICK k \in 1..Len(q) : x = q[k]
      BY <2>2, <1>1, Zenon DEF Range
    <3>2. PICK j \in 1..(Len(q) - 1) : Back(j) = k
      BY <3>1, <2>2, <1>9, Zenon
    <3> QED BY <3>1, <3>2, <1>5, <1>6, Zenon DEF Range
  <2> QED BY <2>1, <2>2
<1> QED BY <1>4, <1>10, <1>11, Zenon DEF e

----------------------------------------------------------------------------
(* Calls in progress and the list of sinks. *)

\* No two threads register the same sink.
OneRegistrar ==
    \A script \in Scripts : \A t, u \in Threads :
        \A c \in Range(script[t]), d \in Range(script[u]) :
            c.op = "register" /\ d.op = "register" /\ c.sink = d.sink => t = u

Announcing == {"notify", "call"}

\* What the place of thread t in its call says.
CallOk(t) ==
    /\ th[t].todo \in Seq(AllCalls)
    /\ th[t].pc # "idle" => th[t].todo # <<>>
    /\ th[t].pc = "found" => Call(t).op = "delete"
    /\ th[t].pc = "export" => Call(t).op = "register"
    /\ th[t].pc = "give" => /\ Call(t).op \in {"register", "ship"} /\ th[t].n \in Nat
                            /\ Call(t).op = "register" => th[t].n >= repl.since[Call(t).sink]
    /\ th[t].pc = "call" => /\ th[t].sinks \in Seq(Sinks) /\ th[t].sinks # <<>>
                            /\ IsInjective(th[t].sinks)
    /\ th[t].pc \in Announcing => th[t].n \in 1..repl.commits

ThreadFields == {"pc", "todo", "entries", "sinks", "n", "to", "alone"}

SinkFields == {"registered", "commits", "since", "based", "covered", "seen", "lost"}

\* The list has every sink at most once, and none registered in the future.
ListOk ==
    /\ DOMAIN repl = SinkFields
    /\ repl.commits \in Nat
    /\ repl.registered \in Seq(Sinks) /\ IsInjective(repl.registered)
    /\ repl.since \in [Sinks -> Nat] /\ \A s \in Sinks : repl.since[s] <= repl.commits

\* Each announced batch is announced by one thread, and the threads have
\* different sinks left to register.
ThreadsApart ==
    \A t, u \in Threads :
        /\ th[t].pc \in Announcing /\ th[u].pc \in Announcing /\ th[t].n = th[u].n => t = u
        /\ \A c \in Range(th[t].todo), d \in Range(th[u].todo) :
                c.op = "register" /\ d.op = "register" /\ c.sink = d.sink => t = u

CallsInv ==
    /\ DOMAIN th = Threads /\ \A t \in Threads : DOMAIN th[t] = ThreadFields
    /\ \A t \in Threads : CallOk(t)
    /\ ListOk /\ ThreadsApart

\* Thread u is where it was.
Stays(u) ==
    /\ th'[u].pc = th[u].pc /\ th'[u].todo = th[u].todo /\ th'[u].sinks = th[u].sinks
    /\ th'[u].n = th[u].n /\ th'[u].entries = th[u].entries /\ th'[u].to = th[u].to
    /\ DOMAIN th'[u] = DOMAIN th[u]

\* A step of thread t that leaves the others where they are.
OwnStep(t) ==
    /\ DOMAIN th' = Threads /\ DOMAIN th'[t] = ThreadFields
    /\ \A u \in Threads \ {t} : Stays(u)
    /\ Range(th'[t].todo) \subseteq Range(th[t].todo)

\* A step of thread t keeps what is known of the calls, if it keeps what is
\* known of its own and disturbs no other registration.
LEMMA OwnStepKeepsCalls ==
    ASSUME CallsInv, NEW t \in Threads, OwnStep(t), CallOk(t)', ListOk',
           repl'.commits >= repl.commits,
           \A s \in Sinks : repl'.since[s] = repl.since[s]
                           \/ \E c \in Range(th[t].todo) : c.op = "register" /\ c.sink = s,
           th'[t].pc \in Announcing => \/ th[t].pc \in Announcing /\ th'[t].n = th[t].n
                                      \/ th'[t].n > repl.commits
    PROVE  CallsInv'
<1>1. ASSUME NEW u \in Threads, u # t PROVE CallOk(u)'
  <2>1. Stays(u) /\ CallOk(u)
    BY <1>1, Zenon DEF OwnStep, CallsInv
  <2>2. Call(u)' = Call(u)
    BY <2>1, Zenon DEF Stays, Call
  <2>3. th[u].pc = "give" /\ Call(u).op = "register" =>
            repl'.since[Call(u).sink] = repl.since[Call(u).sink]
    <3> SUFFICES ASSUME th[u].pc = "give", Call(u).op = "register"
                 PROVE  repl'.since[Call(u).sink] = repl.since[Call(u).sink]
      OBVIOUS
    <3>1. Call(u) \in AllCalls /\ Call(u) \in Range(th[u].todo)
      BY <2>1, HeadAndTail, Zenon DEF CallOk, Call
    <3>2. Call(u).sink \in Sinks
      BY <3>1, CallsAssumption, Zenon
    <3>3. ~\E c \in Range(th[t].todo) : c.op = "register" /\ c.sink = Call(u).sink
      <4>1. \A c \in Range(th[t].todo) : c.op = "register" /\ c.sink = Call(u).sink => t = u
        BY <3>1, Zenon DEF CallsInv, ThreadsApart
      <4> QED BY <4>1, <1>1, Zenon
    <3> QED BY <3>2, <3>3, Zenon
  <2>4. th[u].pc \in Announcing => th[u].n \in 1..repl'.commits
    BY <2>1 DEF CallOk, ListOk, CallsInv
  <2> QED BY <2>1, <2>2, <2>3, <2>4 DEF CallOk, Stays
<1>2. ASSUME NEW u \in Threads PROVE CallOk(u)' /\ DOMAIN th'[u] = ThreadFields
  BY <1>1, Zenon DEF OwnStep, CallsInv, Stays
<1>3. ASSUME NEW u \in Threads, NEW v \in Threads, u # v,
             th'[u].pc \in Announcing, th'[v].pc \in Announcing
      PROVE  th'[u].n # th'[v].n
  <2>1. ASSUME NEW w \in Threads, w # t, th'[w].pc \in Announcing, th'[t].pc \in Announcing
        PROVE  th'[w].n # th'[t].n
    <3>1. Stays(w) /\ CallOk(w)
      BY <2>1, Zenon DEF OwnStep, CallsInv
    <3>2. th[w].pc \in Announcing /\ th'[w].n = th[w].n /\ th[w].n \in 1..repl.commits
      BY <3>1, <2>1, Zenon DEF Stays, CallOk
    <3>3. CASE th[t].pc \in Announcing /\ th'[t].n = th[t].n
      BY <3>2, <3>3, <2>1, Zenon DEF CallsInv, ThreadsApart
    <3>4. CASE th'[t].n > repl.commits
      <4>1. repl.commits \in Nat /\ repl'.commits \in Nat /\ th'[t].n \in 1..repl'.commits
        BY <2>1, Zenon DEF CallsInv, ListOk, CallOk
      <4> QED BY <3>2, <3>4, <4>1
    <3> QED BY <2>1, <3>3, <3>4, Zenon
  <2>2. CASE u # t /\ v # t
    <3>1. Stays(u) /\ Stays(v)
      BY <2>2, Zenon DEF OwnStep
    <3> QED BY <3>1, <1>3, Zenon DEF Stays, CallsInv, ThreadsApart
  <2>3. CASE u = t
    BY <2>1, <2>3, <1>3, Zenon
  <2>4. CASE v = t
    BY <2>1, <2>4, <1>3, Zenon
  <2> QED BY <2>2, <2>3, <2>4, Zenon
<1>4. ASSUME NEW u \in Threads PROVE Range(th'[u].todo) \subseteq Range(th[u].todo)
  BY Zenon DEF OwnStep, Stays
<1>5. ASSUME NEW u \in Threads, NEW v \in Threads,
             NEW c \in Range(th'[u].todo), NEW d \in Range(th'[v].todo),
             c.op = "register", d.op = "register", c.sink = d.sink
      PROVE  u = v
  <2>1. c \in Range(th[u].todo) /\ d \in Range(th[v].todo)
    BY <1>4, Zenon
  <2>2. ThreadsApart
    BY Zenon DEF CallsInv
  <2> QED BY <2>1, <2>2, <1>5 DEF ThreadsApart
<1>6. ThreadsApart'
  <2>1. \A u, v \in Threads :
            th'[u].pc \in Announcing /\ th'[v].pc \in Announcing /\ th'[u].n = th'[v].n => u = v
    BY <1>3, Zenon
  <2> QED BY <2>1, <1>5 DEF ThreadsApart
<1> QED BY <1>2, <1>6, Zenon DEF CallsInv, OwnStep

\* The call of a thread that is in one, or begins one.
LEMMA CallOfThread ==
    ASSUME CallsInv, NEW t \in Threads, th[t].todo # <<>>
    PROVE  /\ Call(t) \in AllCalls /\ Call(t) \in Range(th[t].todo)
           /\ Call(t).op \in {"register", "unregister", "ship"} => Call(t).sink \in Sinks
<1>1. th[t].todo \in Seq(AllCalls)
  BY Zenon DEF CallsInv, CallOk
<1>2. Call(t) \in AllCalls /\ Call(t) \in Range(th[t].todo)
  BY <1>1, HeadAndTail, Zenon DEF Call
<1> QED BY <1>2, CallsAssumption, Zenon

LEMMA CallInProgress ==
    ASSUME CallsInv, NEW t \in Threads, th[t].pc # "idle" \/ \E op : Calls(t, op)
    PROVE  th[t].todo # <<>>
BY Zenon DEF CallsInv, CallOk, Calls

Pending == {"notify", "call", "give"}

\* A call that returns.
LEMMA Returned ==
    ASSUME CallsInv, NEW t \in Threads, th[t].todo # <<>>, Return(t)
    PROVE  OwnStep(t) /\ CallOk(t)' /\ th'[t].pc = "idle"
<1> DEFINE r == Resting(Tail(th[t].todo))
<1>1. /\ th[t].todo \in Seq(AllCalls)
      /\ DOMAIN th = Threads
  BY Zenon DEF CallsInv, CallOk
<1>2. Tail(th[t].todo) \in Seq(AllCalls) /\ Range(Tail(th[t].todo)) \subseteq Range(th[t].todo)
  BY <1>1, HeadAndTail, Zenon
<1>3. r.pc = "idle" /\ r.todo = Tail(th[t].todo) /\ DOMAIN r = ThreadFields
  BY Zenon DEF Resting, ThreadFields
<1>4. th' = [th EXCEPT ![t] = r]
  BY Zenon DEF Return
<1> HIDE DEF r
<1>5. DOMAIN th' = Threads /\ th'[t] = r /\ \A u \in Threads \ {t} : th'[u] = th[u]
  BY <1>1, <1>4, Zenon
<1>6. OwnStep(t)
  BY <1>2, <1>3, <1>5, Zenon DEF OwnStep, Stays
<1>7. CallOk(t)'
  BY <1>2, <1>3, <1>5, Zenon DEF CallOk, Announcing
<1> QED BY <1>3, <1>5, <1>6, <1>7, Zenon

\* A thread that goes on in its call.
LEMMA WentOn ==
    ASSUME CallsInv, NEW t \in Threads, NEW r, th' = [th EXCEPT ![t] = r],
           DOMAIN r = DOMAIN th[t], r.todo = th[t].todo
    PROVE  OwnStep(t) /\ th'[t] = r /\ Call(t)' = Call(t)
<1>1. DOMAIN th = Threads /\ DOMAIN th[t] = ThreadFields
  BY Zenon DEF CallsInv
<1>2. DOMAIN th' = Threads /\ th'[t] = r /\ \A u \in Threads \ {t} : th'[u] = th[u]
  BY <1>1, Zenon
<1> QED BY <1>1, <1>2, Zenon DEF OwnStep, Stays, Call

\* Places in which a thread announces nothing and gives nothing.
QuietPc == {"export_file", "open", "write", "switch", "join"}

LEMMA WentQuietly ==
    ASSUME CallsInv, NEW t \in Threads, NEW r, th' = [th EXCEPT ![t] = r],
           DOMAIN r = DOMAIN th[t], r.todo = th[t].todo, th[t].todo # <<>>,
           r.pc \in QuietPc
    PROVE  OwnStep(t) /\ CallOk(t)' /\ th'[t].pc \notin Pending
<1>1. OwnStep(t) /\ th'[t] = r
  BY WentOn, Zenon
<1>2. th[t].todo \in Seq(AllCalls)
  BY Zenon DEF CallsInv, CallOk
<1>3. r.pc \notin Pending \union {"found", "export", "idle"}
  BY Zenon DEF QuietPc, Pending
<1>4. CallOk(t)'
  BY <1>1, <1>2, <1>3, Zenon DEF CallOk, Announcing, Pending
<1> QED BY <1>1, <1>3, <1>4, Zenon

\* A step in which thread t neither announces nor gives anything.
QuietStep(t) ==
    /\ OwnStep(t) /\ CallOk(t)' /\ repl' = repl
    /\ th[t].pc \notin Pending /\ th'[t].pc \notin Pending

\* What is under way is the same if every thread stays, or has nothing under way.
LEMMA SameViews ==
    ASSUME \A u \in Threads : Stays(u) \/ (th[u].pc \notin Pending /\ th'[u].pc \notin Pending)
    PROVE  Waiting' = Waiting /\ Left' = Left /\ Shipping' = Shipping
<1>1. \A u \in Threads : /\ th'[u].pc = "notify" <=> th[u].pc = "notify"
                         /\ th'[u].pc = "call" <=> th[u].pc = "call"
                         /\ th'[u].pc = "give" <=> th[u].pc = "give"
                         /\ th[u].pc \in Pending => /\ th'[u].n = th[u].n
                                                    /\ th'[u].sinks = th[u].sinks
                                                    /\ Call(u)' = Call(u)
  BY Zenon DEF Stays, Pending, Call
<1>2. Waiting' = Waiting
  BY <1>1 DEF Waiting, Pending
<1>3. ASSUME NEW s \in Sinks
      PROVE  {th'[t].n : t \in {u \in Threads : th'[u].pc = "call" /\ s \in Range(th'[u].sinks)}}
             = {th[t].n : t \in {u \in Threads : th[u].pc = "call" /\ s \in Range(th[u].sinks)}}
  BY <1>1 DEF Pending
<1>4. ASSUME NEW s \in Sinks
      PROVE  {th'[t].n : t \in {u \in Threads : th'[u].pc = "give" /\ Call(u)'.sink = s}}
             = {th[t].n : t \in {u \in Threads : th[u].pc = "give" /\ Call(u).sink = s}}
  BY <1>1 DEF Pending
<1>5. Left' = Left
  BY <1>3, Zenon DEF Left
<1>6. Shipping' = Shipping
  BY <1>4, Zenon DEF Shipping
<1> QED BY <1>2, <1>5, <1>6

\* A quiet step is none of the replication's.
LEMMA QuietStepKeeps ==
    ASSUME CallsInv, NEW t \in Threads, QuietStep(t)
    PROVE  CallsInv' /\ UNCHANGED Sent!vars
<1>1. /\ OwnStep(t) /\ CallOk(t)' /\ repl' = repl
      /\ th[t].pc \notin Pending /\ th'[t].pc \notin Pending
  BY Zenon DEF QuietStep
<1>2. ListOk' /\ repl'.commits >= repl.commits
  BY <1>1 DEF CallsInv, ListOk
<1>3. th'[t].pc \notin Announcing
  BY <1>1, Zenon DEF Announcing, Pending
<1>4. CallsInv'
  BY <1>1, <1>2, <1>3, OwnStepKeepsCalls
<1>5. Waiting' = Waiting /\ Left' = Left /\ Shipping' = Shipping
  BY <1>1, SameViews, Zenon DEF OwnStep
<1> QED BY <1>1, <1>4, <1>5, Zenon DEF Sent!vars, Registered

\* What the threads other than t have under way.
OthersWaiting(t) == {th[u].n : u \in {v \in Threads \ {t} : th[v].pc = "notify"}}

OthersLeft(t, s) ==
    {th[u].n : u \in {v \in Threads \ {t} : th[v].pc = "call" /\ s \in Range(th[v].sinks)}}

OthersShipping(t, s) ==
    {th[u].n : u \in {v \in Threads \ {t} : th[v].pc = "give" /\ Call(v).sink = s}}

\* What is under way is what thread t has and what the others have.
LEMMA WaitingSplit ==
    ASSUME NEW t \in Threads, OwnStep(t)
    PROVE  /\ th[t].pc = "notify" => Waiting = OthersWaiting(t) \union {th[t].n}
           /\ th[t].pc # "notify" => Waiting = OthersWaiting(t)
           /\ th'[t].pc = "notify" => Waiting' = OthersWaiting(t) \union {th'[t].n}
           /\ th'[t].pc # "notify" => Waiting' = OthersWaiting(t)
<1>1. \A u \in Threads \ {t} : th'[u].pc = th[u].pc /\ th'[u].n = th[u].n
  BY Zenon DEF OwnStep, Stays
<1>2. OthersWaiting(t)' = OthersWaiting(t)
  BY <1>1 DEF OthersWaiting
<1>3. /\ th[t].pc = "notify" => Waiting = OthersWaiting(t) \union {th[t].n}
      /\ th[t].pc # "notify" => Waiting = OthersWaiting(t)
  BY DEF Waiting, OthersWaiting
<1>4. /\ th'[t].pc = "notify" => Waiting' = OthersWaiting(t)' \union {th'[t].n}
      /\ th'[t].pc # "notify" => Waiting' = OthersWaiting(t)'
  BY DEF Waiting, OthersWaiting
<1> QED BY <1>2, <1>3, <1>4

Calling(t, s) == th[t].pc = "call" /\ s \in Range(th[t].sinks)

LEMMA LeftSplit ==
    ASSUME NEW t \in Threads, OwnStep(t), NEW s \in Sinks
    PROVE  /\ Calling(t, s) => Left[s] = OthersLeft(t, s) \union {th[t].n}
           /\ ~Calling(t, s) => Left[s] = OthersLeft(t, s)
           /\ Calling(t, s)' => Left'[s] = OthersLeft(t, s) \union {th'[t].n}
           /\ ~Calling(t, s)' => Left'[s] = OthersLeft(t, s)
<1>1. \A u \in Threads \ {t} : /\ th'[u].pc = th[u].pc /\ th'[u].n = th[u].n
                               /\ th'[u].sinks = th[u].sinks
  BY Zenon DEF OwnStep, Stays
<1>2. OthersLeft(t, s)' = OthersLeft(t, s)
  BY <1>1 DEF OthersLeft
<1>3. /\ Calling(t, s) => Left[s] = OthersLeft(t, s) \union {th[t].n}
      /\ ~Calling(t, s) => Left[s] = OthersLeft(t, s)
  BY DEF Left, OthersLeft, Calling
<1>4. /\ Calling(t, s)' => Left'[s] = OthersLeft(t, s)' \union {th'[t].n}
      /\ ~Calling(t, s)' => Left'[s] = OthersLeft(t, s)'
  BY DEF Left, OthersLeft, Calling
<1> QED BY <1>2, <1>3, <1>4

Giving(t, s) == th[t].pc = "give" /\ Call(t).sink = s

LEMMA ShippingSplit ==
    ASSUME NEW t \in Threads, OwnStep(t), NEW s \in Sinks
    PROVE  /\ Giving(t, s) => Shipping[s] = OthersShipping(t, s) \union {th[t].n}
           /\ ~Giving(t, s) => Shipping[s] = OthersShipping(t, s)
           /\ Giving(t, s)' => Shipping'[s] = OthersShipping(t, s) \union {th'[t].n}
           /\ ~Giving(t, s)' => Shipping'[s] = OthersShipping(t, s)
<1>1. \A u \in Threads \ {t} : /\ th'[u].pc = th[u].pc /\ th'[u].n = th[u].n
                               /\ Call(u)' = Call(u)
  BY Zenon DEF OwnStep, Stays, Call
<1>2. OthersShipping(t, s)' = OthersShipping(t, s)
  BY <1>1 DEF OthersShipping
<1>3. /\ Giving(t, s) => Shipping[s] = OthersShipping(t, s) \union {th[t].n}
      /\ ~Giving(t, s) => Shipping[s] = OthersShipping(t, s)
  BY DEF Shipping, OthersShipping, Giving
<1>4. /\ Giving(t, s)' => Shipping'[s] = OthersShipping(t, s)' \union {th'[t].n}
      /\ ~Giving(t, s)' => Shipping'[s] = OthersShipping(t, s)'
  BY DEF Shipping, OthersShipping, Giving
<1> QED BY <1>2, <1>3, <1>4

\* The batch that thread t announces is announced by no other.
LEMMA BatchIsOwn ==
    ASSUME CallsInv, NEW t \in Threads, th[t].pc \in Announcing
    PROVE  /\ th[t].n \notin OthersWaiting(t)
           /\ \A s \in Sinks : th[t].n \notin OthersLeft(t, s)
<1>1. \A u \in Threads \ {t} : th[u].pc \in Announcing => th[u].n # th[t].n
  BY Zenon DEF CallsInv, ThreadsApart
<1> QED BY <1>1, Zenon DEF OthersWaiting, OthersLeft, Announcing

LEMMA ViewsAreFunctions ==
    /\ Left = [s \in Sinks |-> Left[s]] /\ Left' = [s \in Sinks |-> Left'[s]]
    /\ Shipping = [s \in Sinks |-> Shipping[s]] /\ Shipping' = [s \in Sinks |-> Shipping'[s]]
BY Zenon DEF Left, Shipping

\* What a step of thread t changes in what is under way.
LEMMA ViewMoves ==
    ASSUME CallsInv, NEW t \in Threads, OwnStep(t)
    PROVE  /\ th[t].pc # "notify" /\ th'[t].pc # "notify" => Waiting' = Waiting
           /\ th[t].pc # "notify" /\ th'[t].pc = "notify" => Waiting' = Waiting \union {th'[t].n}
           /\ th[t].pc = "notify" /\ th'[t].pc # "notify" => Waiting' = Waiting \ {th[t].n}
           /\ th[t].pc # "call" /\ th'[t].pc # "call" => Left' = Left
           /\ th[t].pc # "give" /\ th'[t].pc # "give" => Shipping' = Shipping
<1>1. th[t].pc = "notify" => th[t].n \notin OthersWaiting(t)
  BY BatchIsOwn, Zenon DEF Announcing
<1>2. /\ th[t].pc # "notify" /\ th'[t].pc # "notify" => Waiting' = Waiting
      /\ th[t].pc # "notify" /\ th'[t].pc = "notify" => Waiting' = Waiting \union {th'[t].n}
      /\ th[t].pc = "notify" /\ th'[t].pc # "notify" => Waiting' = Waiting \ {th[t].n}
  BY <1>1, WaitingSplit
<1>3. ASSUME th[t].pc # "call", th'[t].pc # "call" PROVE Left' = Left
  <2>1. \A s \in Sinks : Left'[s] = Left[s]
    BY <1>3, LeftSplit, Zenon DEF Calling
  <2> QED BY <2>1, ViewsAreFunctions, Zenon
<1>4. ASSUME th[t].pc # "give", th'[t].pc # "give" PROVE Shipping' = Shipping
  <2>1. \A s \in Sinks : Shipping'[s] = Shipping[s]
    BY <1>4, ShippingSplit, Zenon DEF Giving
  <2> QED BY <2>1, ViewsAreFunctions, Zenon
<1> QED BY <1>2, <1>3, <1>4, Zenon

----------------------------------------------------------------------------
(* The replication of the store is that of Replication. *)

\* A call that starts and returns at once is quiet.
LEMMA QuietReturn ==
    ASSUME CallsInv, NEW t \in Threads, th[t].todo # <<>>, th[t].pc \notin Pending,
           Return(t), repl' = repl
    PROVE  QuietStep(t)
BY Returned, Zenon DEF QuietStep, Pending

\* The steps of one thread that do not concern the sinks.
LEMMA QuietSteps ==
    ASSUME CallsInv, NEW t \in Threads,
           \/ KvDeleteFind(t) \/ KvCompareAndSwap(t) \/ KvGet(t) \/ ImportSnapshot(t)
           \/ KvFlush(t) \/ ExportForFlush(t) \/ FlushOpen(t) \/ FlushClose(t) \/ FlushFails(t)
           \/ (SetBackend(t) /\ ~Ends({t})) \/ SwitchBackend(t)
           \/ StartCompaction(t) \/ StopCompaction(t) \/ StopJoined(t)
    PROVE  QuietStep(t)
<1>c. th[t].pc # "idle" \/ (\E op : Calls(t, op)) => th[t].todo # <<>>
  BY CallInProgress, Zenon
<1>f. DOMAIN th = Threads /\ DOMAIN th[t] = ThreadFields
  BY Zenon DEF CallsInv
<1>1. CASE KvDeleteFind(t)
  <2>1. Calls(t, "delete") /\ repl' = repl /\ th[t].pc = "idle" /\ Call(t).op = "delete"
        /\ th[t].todo # <<>>
    BY <1>1, <1>c, Zenon DEF KvDeleteFind, Calls
  <2>2. CASE Return(t)
    BY <2>1, <2>2, QuietReturn, Zenon DEF Pending
  <2>3. CASE Goto(t, "found")
    <3> DEFINE r == [th[t] EXCEPT !.pc = "found"]
    <3>1. th' = [th EXCEPT ![t] = r] /\ DOMAIN r = DOMAIN th[t] /\ r.todo = th[t].todo
          /\ r.pc = "found"
      BY <2>3, <1>f, Zenon DEF Goto, ThreadFields
    <3> HIDE DEF r
    <3>2. OwnStep(t) /\ th'[t] = r /\ Call(t)' = Call(t)
      BY <3>1, WentOn, Zenon
    <3>3. CallOk(t)'
      BY <2>1, <3>1, <3>2, Zenon DEF CallOk, CallsInv, Announcing
    <3> QED BY <2>1, <3>1, <3>2, <3>3, Zenon DEF QuietStep, Pending
  <2> QED BY <1>1, <2>2, <2>3, Zenon DEF KvDeleteFind
<1>2. CASE KvCompareAndSwap(t) \/ KvGet(t) \/ ImportSnapshot(t) \/ StartCompaction(t)
  <2>1. Return(t) /\ repl' = repl /\ th[t].pc = "idle" /\ th[t].todo # <<>>
    BY <1>2, Zenon DEF KvCompareAndSwap, KvGet, ImportSnapshot, StartCompaction, Calls
  <2> QED BY <2>1, QuietReturn, Zenon DEF Pending
<1>3. CASE FlushClose(t) \/ FlushFails(t) \/ SwitchBackend(t) \/ StopJoined(t)
  <2>1. Return(t) /\ repl' = repl /\ th[t].pc \in QuietPc
    BY <1>3, Zenon DEF FlushClose, FlushFails, SwitchBackend, StopJoined, At, QuietPc
  <2>2. th[t].pc \notin Pending /\ th[t].pc # "idle"
    BY <2>1, Zenon DEF QuietPc, Pending
  <2> QED BY <2>1, <2>2, <1>c, QuietReturn, Zenon
<1>4. ASSUME NEW r, th' = [th EXCEPT ![t] = r], DOMAIN r = DOMAIN th[t], r.todo = th[t].todo,
             r.pc \in QuietPc, th[t].pc \in {"idle", "export_file", "open"}, th[t].todo # <<>>,
             repl' = repl
      PROVE  QuietStep(t)
  BY <1>4, WentQuietly, Zenon DEF QuietStep, Pending
<1>5. CASE KvFlush(t)
  <2> DEFINE r == [th[t] EXCEPT !.pc = "export_file"]
  <2>1. /\ th' = [th EXCEPT ![t] = r] /\ DOMAIN r = DOMAIN th[t] /\ r.todo = th[t].todo
        /\ r.pc \in QuietPc /\ th[t].pc = "idle" /\ repl' = repl /\ th[t].todo # <<>>
    BY <1>5, <1>f, Zenon DEF KvFlush, Goto, Calls, ThreadFields, QuietPc
  <2> HIDE DEF r
  <2> QED BY <2>1, <1>4, Zenon
<1>6. CASE ExportForFlush(t)
  <2> DEFINE r == [th[t] EXCEPT !.pc = "open", !.entries = data', !.n = repl.commits]
  <2>1. /\ th' = [th EXCEPT ![t] = r] /\ DOMAIN r = DOMAIN th[t] /\ r.todo = th[t].todo
        /\ r.pc \in QuietPc /\ th[t].pc = "export_file" /\ repl' = repl
    BY <1>6, <1>f, Zenon DEF ExportForFlush, Export, At, ThreadFields, QuietPc
  <2> HIDE DEF r
  <2>2. th[t].todo # <<>>
    BY <2>1, <1>c, Zenon
  <2> QED BY <2>1, <2>2, <1>4, Zenon
<1>7. CASE StopCompaction(t)
  <2> DEFINE r == [th[t] EXCEPT !.pc = "join",
                                !.n = IF comp.active THEN Len(comp.worker) ELSE 0]
  <2>1. /\ th' = [th EXCEPT ![t] = r] /\ DOMAIN r = DOMAIN th[t] /\ r.todo = th[t].todo
        /\ r.pc \in QuietPc /\ th[t].pc = "idle" /\ repl' = repl /\ th[t].todo # <<>>
    BY <1>7, <1>f, Zenon DEF StopCompaction, Calls, ThreadFields, QuietPc
  <2> HIDE DEF r
  <2> QED BY <2>1, <1>4, Zenon
<1>8. CASE SetBackend(t) /\ ~Ends({t})
  <2> DEFINE r == [th[t] EXCEPT !.pc = "switch", !.to = LoadBackend(Call(t).backend)]
  <2>1. /\ th' = [th EXCEPT ![t] = r] /\ DOMAIN r = DOMAIN th[t] /\ r.todo = th[t].todo
        /\ r.pc \in QuietPc /\ th[t].pc = "idle" /\ repl' = repl /\ th[t].todo # <<>>
    BY <1>8, <1>f, Zenon DEF SetBackend, Calls, ThreadFields, QuietPc
  <2> HIDE DEF r
  <2> QED BY <2>1, <1>4, Zenon
<1>9. CASE FlushOpen(t)
  <2>1. th[t].pc = "open" /\ th[t].todo # <<>> /\ repl' = repl
    BY <1>9, <1>c, Zenon DEF FlushOpen, At
  <2>2. CASE Return(t)
    BY <2>1, <2>2, QuietReturn, Zenon DEF Pending
  <2>3. CASE ~Return(t)
    <3> DEFINE r == [th[t] EXCEPT !.pc = "write", !.to = store.backend,
                                  !.alone = Writers(store.backend) = {}]
    <3>1. th' = [u \in Threads |->
                CASE u = t -> r
                  [] u \in Writers(store.backend) -> [th[u] EXCEPT !.alone = FALSE]
                  [] OTHER -> th[u]]
      BY <1>9, <2>3, Zenon DEF FlushOpen
    <3>2. /\ r.pc = "write" /\ r.todo = th[t].todo /\ DOMAIN r = ThreadFields
      BY <1>f, Zenon DEF ThreadFields
    <3> HIDE DEF r
    <3>w. t \notin Writers(store.backend)
      BY <2>1, Zenon DEF Writers
    <3>3. th'[t] = r /\ DOMAIN th' = Threads
      BY <3>1, <3>w
    <3>4. ASSUME NEW u \in Threads, u # t
          PROVE  th'[u] = [th[u] EXCEPT !.alone = FALSE] \/ th'[u] = th[u]
      BY <3>1, <3>4
    <3>5. ASSUME NEW u \in Threads, u # t PROVE Stays(u)
      <4>1. DOMAIN th[u] = ThreadFields
        BY Zenon DEF CallsInv
      <4> QED BY <3>4, <3>5, <4>1, Zenon DEF Stays, ThreadFields
    <3>6. OwnStep(t)
      BY <3>2, <3>3, <3>5, Zenon DEF OwnStep
    <3>7. CallOk(t)'
      BY <2>1, <3>2, <3>3, Zenon DEF CallOk, CallsInv, Announcing
    <3> QED BY <2>1, <3>2, <3>3, <3>6, <3>7, Zenon DEF QuietStep, Pending
  <2> QED BY <2>2, <2>3
<1> QED BY <1>1, <1>2, <1>3, <1>5, <1>6, <1>7, <1>8, <1>9, Zenon

\* kv_apply commits a batch and will announce it, or does nothing for the sinks.
LEMMA ApplyCommits ==
    ASSUME CallsInv, NEW t \in Threads, KvApply(t)
    PROVE  CallsInv' /\ (Sent!Commit \/ UNCHANGED Sent!vars)
<1>1. th[t].pc \in {"idle", "found"} /\ th[t].todo # <<>>
  BY CallInProgress, Zenon DEF KvApply, Calls, At
<1>2. CASE Return(t) /\ repl' = repl
  BY <1>1, <1>2, QuietReturn, QuietStepKeeps, Zenon DEF Pending
<1>3. CASE /\ repl' = [repl EXCEPT !.commits = @ + 1]
           /\ th' = [th EXCEPT ![t].pc = "notify", ![t].n = repl.commits + 1]
  <2> DEFINE r == [th[t] EXCEPT !.pc = "notify", !.n = repl.commits + 1]
  <2>1. /\ th' = [th EXCEPT ![t] = r] /\ DOMAIN r = DOMAIN th[t] /\ r.todo = th[t].todo
        /\ r.pc = "notify" /\ r.n = repl.commits + 1
    BY <1>3, Zenon DEF CallsInv, ThreadFields
  <2> HIDE DEF r
  <2>2. OwnStep(t) /\ th'[t] = r
    BY <2>1, WentOn, Zenon
  <2>3. /\ repl'.commits = repl.commits + 1 /\ repl'.registered = repl.registered
        /\ repl'.since = repl.since /\ repl'.based = repl.based /\ repl'.covered = repl.covered
        /\ repl'.seen = repl.seen /\ repl'.lost = repl.lost /\ DOMAIN repl' = SinkFields
    BY <1>3, Zenon DEF CallsInv, ListOk, SinkFields
  <2>4. repl.commits \in Nat
    BY Zenon DEF CallsInv, ListOk
  <2>5. ListOk'
    BY <2>3, <2>4 DEF CallsInv, ListOk
  <2>6. repl.commits + 1 \in 1..repl'.commits /\ repl'.commits >= repl.commits
        /\ repl.commits + 1 > repl.commits
    BY <2>3, <2>4
  <2>7. CallOk(t)'
    BY <1>1, <2>1, <2>2, <2>6, Zenon DEF CallOk, CallsInv, Announcing
  <2>8. CallsInv'
    BY <2>1, <2>2, <2>3, <2>5, <2>6, <2>7, OwnStepKeepsCalls, Zenon
  <2>9. /\ Waiting' = Waiting \union {repl.commits + 1}
        /\ Left' = Left /\ Shipping' = Shipping
    BY <1>1, <2>1, <2>2, ViewMoves, Zenon
  <2> QED BY <2>3, <2>8, <2>9, Zenon DEF Sent!Commit, Registered
<1> QED BY <1>2, <1>3, Zenon DEF KvApply

\* notify_replication_listeners copies the list.
LEMMA CopyAnnounces ==
    ASSUME CallsInv, NEW t \in Threads, NotifyCopy(t)
    PROVE  CallsInv' /\ \E b \in Waiting : Sent!CopySinks(b)
<1> DEFINE b == th[t].n
<1>1. th[t].pc = "notify" /\ th[t].todo # <<>> /\ repl' = repl
  BY CallInProgress, Zenon DEF NotifyCopy, At
<1>2. /\ repl.registered \in Seq(Sinks) /\ IsInjective(repl.registered) /\ repl.commits \in Nat
      /\ b \in 1..repl.commits /\ DOMAIN th[t] = ThreadFields
  BY <1>1, Zenon DEF CallsInv, ListOk, CallOk, Announcing
<1>3. ListOk' /\ repl'.commits >= repl.commits
  BY <1>1, <1>2 DEF CallsInv, ListOk
<1>5. b \in Waiting
  BY <1>1, Zenon DEF Waiting
<1>6. CASE repl.registered = <<>>
  <2>1. OwnStep(t) /\ CallOk(t)' /\ th'[t].pc = "idle"
    BY <1>1, <1>6, Returned, Zenon DEF NotifyCopy
  <2>2. CallsInv'
    BY <1>1, <1>3, <2>1, OwnStepKeepsCalls, Zenon DEF Announcing
  <2>3. /\ Waiting' = Waiting \ {b} /\ Shipping' = Shipping /\ Left' = Left
    BY <1>1, <2>1, ViewMoves, Zenon
  <2>4. Registered = {}
    BY <1>6 DEF Registered, Range
  <2>5. Left' = [s \in Sinks |-> IF s \in Registered THEN Left[s] \union {b} ELSE Left[s]]
    BY <2>3, <2>4, ViewsAreFunctions
  <2>6. Sent!CopySinks(b)
    BY <1>1, <1>5, <2>3, <2>5, Zenon DEF Sent!CopySinks, Registered
  <2> QED BY <1>5, <2>2, <2>6, Zenon
<1>7. CASE repl.registered # <<>>
  <2> DEFINE r == [th[t] EXCEPT !.pc = "call", !.sinks = repl.registered]
  <2>1. /\ th' = [th EXCEPT ![t] = r] /\ DOMAIN r = DOMAIN th[t] /\ r.todo = th[t].todo
        /\ r.pc = "call" /\ r.n = th[t].n /\ r.sinks = repl.registered
    BY <1>2, <1>7, Zenon DEF NotifyCopy, ThreadFields
  <2> HIDE DEF r
  <2>2. OwnStep(t) /\ th'[t] = r
    BY <2>1, WentOn, Zenon
  <2>3. CallOk(t)'
    BY <1>1, <1>2, <1>7, <2>1, <2>2, Zenon DEF CallOk, CallsInv, Announcing
  <2>4. CallsInv'
    BY <1>1, <1>3, <2>1, <2>2, <2>3, OwnStepKeepsCalls, Zenon DEF Announcing
  <2>5. Waiting' = Waiting \ {b} /\ Shipping' = Shipping
    BY <1>1, <2>1, <2>2, ViewMoves, Zenon
  <2>6. Left' = [s \in Sinks |-> IF s \in Registered THEN Left[s] \union {b} ELSE Left[s]]
    <3>1. ASSUME NEW s \in Sinks
          PROVE  Left'[s] = IF s \in Registered THEN Left[s] \union {b} ELSE Left[s]
      <4>1. ~Calling(t, s) /\ (Calling(t, s)' <=> s \in Registered) /\ th'[t].n = b
        BY <1>1, <2>1, <2>2, Zenon DEF Registered, Calling
      <4>2. /\ Left[s] = OthersLeft(t, s)
            /\ s \in Registered => Left'[s] = OthersLeft(t, s) \union {b}
            /\ s \notin Registered => Left'[s] = OthersLeft(t, s)
        BY <2>2, <4>1, LeftSplit, Zenon
      <4> QED BY <4>2
    <3> QED BY <3>1, ViewsAreFunctions
  <2>7. Sent!CopySinks(b)
    BY <1>1, <1>5, <2>5, <2>6, Zenon DEF Sent!CopySinks, Registered
  <2> QED BY <1>5, <2>4, <2>7, Zenon
<1> QED BY <1>6, <1>7

\* A callback that is called, or that fails.
LEMMA CallDelivers ==
    ASSUME CallsInv, NEW t \in Threads, NotifyCall(t)
    PROVE  /\ CallsInv'
           /\ \E s \in Sinks : \E b \in Left[s] : Sent!Deliver(s, b) \/ Sent!Abandon(b)
<1> DEFINE b == th[t].n
           s == Head(th[t].sinks)
           rest == Tail(th[t].sinks)
<1>1. th[t].pc = "call" /\ th[t].todo # <<>> /\ DOMAIN th[t] = ThreadFields
  BY CallInProgress, Zenon DEF NotifyCall, At, CallsInv
<1>2. /\ th[t].sinks \in Seq(Sinks) /\ th[t].sinks # <<>> /\ IsInjective(th[t].sinks)
      /\ b \in 1..repl.commits /\ repl.commits \in Nat
  BY <1>1, Zenon DEF CallsInv, CallOk, ListOk, Announcing
<1>3. /\ s \in Sinks /\ s \in Range(th[t].sinks) /\ rest \in Seq(Sinks) /\ IsInjective(rest)
      /\ Range(rest) = Range(th[t].sinks) \ {s}
  BY <1>2, HeadAndTail, TailWithoutHead, Zenon
<1>4. \A r \in Sinks : b \notin OthersLeft(t, r)
  BY <1>1, BatchIsOwn, Zenon DEF Announcing
<1>5. \A r \in Sinks : Calling(t, r) <=> r \in Range(th[t].sinks)
  BY <1>1, Zenon DEF Calling
<1>6. b \in Left[s]
  BY <1>1, <1>3, Zenon DEF Left
<1> HIDE DEF b, s, rest
<1>7. CASE /\ repl' = [repl EXCEPT !.seen[s] = @ \union {b}]
           /\ IF rest = <<>> THEN Return(t) ELSE th' = [th EXCEPT ![t].sinks = rest]
  <2>1. /\ repl'.seen = [repl.seen EXCEPT ![s] = @ \union {b}]
        /\ repl'.commits = repl.commits /\ repl'.registered = repl.registered
        /\ repl'.since = repl.since /\ repl'.based = repl.based /\ repl'.covered = repl.covered
        /\ repl'.lost = repl.lost /\ DOMAIN repl' = SinkFields
    BY <1>7, Zenon DEF CallsInv, ListOk, SinkFields
  <2>2. ListOk' /\ repl'.commits >= repl.commits
    BY <2>1, <1>2 DEF CallsInv, ListOk
  <2>3. /\ OwnStep(t) /\ CallOk(t)'
        /\ th'[t].pc \in Announcing => th'[t].n = th[t].n
        /\ th'[t].pc # "notify" /\ th'[t].pc # "give"
        /\ \A r \in Sinks : Calling(t, r)' <=> r \in Range(rest)
        /\ rest # <<>> => th'[t].n = b
    <3>1. CASE rest = <<>>
      <4>1. OwnStep(t) /\ CallOk(t)' /\ th'[t].pc = "idle"
        BY <1>1, <1>7, <3>1, Returned, Zenon
      <4>2. Range(rest) = {}
        BY <3>1 DEF Range
      <4> QED BY <3>1, <4>1, <4>2, Zenon DEF Announcing, Calling
    <3>2. CASE rest # <<>>
      <4> DEFINE x == [th[t] EXCEPT !.sinks = rest]
      <4>1. /\ th' = [th EXCEPT ![t] = x] /\ DOMAIN x = DOMAIN th[t] /\ x.todo = th[t].todo
            /\ x.pc = "call" /\ x.n = th[t].n /\ x.sinks = rest
        BY <1>1, <1>7, <3>2, Zenon DEF ThreadFields
      <4> HIDE DEF x
      <4>2. OwnStep(t) /\ th'[t] = x
        BY <4>1, WentOn, Zenon
      <4>3. CallOk(t)'
        BY <1>1, <1>2, <1>3, <2>1, <3>2, <4>1, <4>2, Zenon DEF CallOk, CallsInv, Announcing, b
      <4> QED BY <4>1, <4>2, <4>3, Zenon DEF Calling, b
    <3> QED BY <3>1, <3>2
  <2>4. CallsInv'
    BY <1>1, <2>1, <2>2, <2>3, OwnStepKeepsCalls, Zenon DEF Announcing
  <2>5. Waiting' = Waiting /\ Shipping' = Shipping
    BY <1>1, <2>3, ViewMoves, Zenon
  <2>6. ASSUME NEW r \in Sinks PROVE Left'[r] = IF r = s THEN Left[r] \ {b} ELSE Left[r]
    <3>1. /\ r \in Range(th[t].sinks) => Left[r] = OthersLeft(t, r) \union {b}
          /\ r \notin Range(th[t].sinks) => Left[r] = OthersLeft(t, r)
      BY <1>5, <2>3, LeftSplit, Zenon DEF b
    <3>2. /\ r \in Range(rest) => Left'[r] = OthersLeft(t, r) \union {b}
          /\ r \notin Range(rest) => Left'[r] = OthersLeft(t, r)
      <4>1. Range(<<>>) = {}
        BY DEF Range
      <4> QED BY <2>3, <4>1, LeftSplit, Zenon
    <3> QED BY <3>1, <3>2, <1>3, <1>4, Zenon
  <2>7. Left' = [Left EXCEPT ![s] = @ \ {b}]
    BY <2>6, <1>3, ViewsAreFunctions
  <2>8. Sent!Deliver(s, b)
    BY <1>6, <2>1, <2>5, <2>7, Zenon DEF Sent!Deliver, Registered
  <2> QED BY <1>3, <1>6, <2>4, <2>8, Zenon
<1>8. CASE /\ Return(t)
           /\ repl' = [repl EXCEPT !.lost = [r \in Sinks |->
                    IF r \in Range(th[t].sinks) THEN @[r] \union {b} ELSE @[r]]]
  <2>1. /\ repl'.lost = [r \in Sinks |-> IF r \in Range(th[t].sinks)
                                        THEN repl.lost[r] \union {b} ELSE repl.lost[r]]
        /\ repl'.commits = repl.commits /\ repl'.registered = repl.registered
        /\ repl'.since = repl.since /\ repl'.based = repl.based /\ repl'.covered = repl.covered
        /\ repl'.seen = repl.seen /\ DOMAIN repl' = SinkFields
    BY <1>8, Zenon DEF CallsInv, ListOk, SinkFields
  <2>2. ListOk' /\ repl'.commits >= repl.commits
    BY <2>1, <1>2 DEF CallsInv, ListOk
  <2>3. OwnStep(t) /\ CallOk(t)' /\ th'[t].pc = "idle"
    BY <1>1, <1>8, Returned, Zenon
  <2>4. CallsInv'
    BY <2>1, <2>2, <2>3, OwnStepKeepsCalls, Zenon DEF Announcing
  <2>5. Waiting' = Waiting /\ Shipping' = Shipping
    BY <1>1, <2>3, ViewMoves, Zenon
  <2>6. ASSUME NEW r \in Sinks
        PROVE  Left'[r] = Left[r] \ {b} /\ (b \in Left[r] <=> r \in Range(th[t].sinks))
    <3>1. /\ r \in Range(th[t].sinks) => Left[r] = OthersLeft(t, r) \union {b}
          /\ r \notin Range(th[t].sinks) => Left[r] = OthersLeft(t, r)
      BY <1>5, <2>3, LeftSplit, Zenon DEF b
    <3>2. Left'[r] = OthersLeft(t, r)
      BY <2>3, LeftSplit, Zenon DEF Calling
    <3> QED BY <3>1, <3>2, <1>4
  <2>7. /\ Left' = [r \in Sinks |-> Left[r] \ {b}]
        /\ repl'.lost = [r \in Sinks |-> IF b \in Left[r] THEN repl.lost[r] \union {b}
                                                         ELSE repl.lost[r]]
    BY <2>1, <2>6, ViewsAreFunctions
  <2>8. Sent!Abandon(b)
    BY <1>3, <1>6, <2>1, <2>5, <2>7, Zenon DEF Sent!Abandon, Registered
  <2> QED BY <1>3, <1>6, <2>4, <2>8, Zenon
<1> QED BY <1>7, <1>8 DEF NotifyCall, b, s, rest

\* register_replication_sink puts a new sink at the end of the list.
LEMMA RegisterEnters ==
    ASSUME CallsInv, NEW t \in Threads, RegisterSink(t)
    PROVE  CallsInv' /\ ((\E s \in Sinks : Sent!Register(s)) \/ UNCHANGED Sent!vars)
<1> DEFINE s == Call(t).sink
<1>1. /\ th[t].pc = "idle" /\ th[t].todo # <<>> /\ Call(t).op = "register"
      /\ DOMAIN th[t] = ThreadFields /\ DOMAIN repl = SinkFields
  BY Zenon DEF RegisterSink, Calls, CallsInv, ListOk
<1>2. s \in Sinks /\ Call(t) \in Range(th[t].todo)
  BY <1>1, CallOfThread, Zenon
<1>3. CASE s \in Range(repl.registered)
  <2>1. Return(t) /\ repl' = repl
    BY <1>3, Zenon DEF RegisterSink
  <2> QED BY <1>1, <2>1, QuietReturn, QuietStepKeeps, Zenon DEF Pending
<1>4. CASE s \notin Range(repl.registered)
  <2>1. /\ repl' = [repl EXCEPT !.registered = Append(@, s), !.since[s] = repl.commits,
                                !.based = @ \ {s}]
        /\ Goto(t, "export") \/ Return(t)
    BY <1>4, Zenon DEF RegisterSink
  <2> HIDE DEF s
  <2>2. /\ repl'.registered = Append(repl.registered, s)
        /\ repl'.since = [repl.since EXCEPT ![s] = repl.commits]
        /\ repl'.based = repl.based \ {s}
        /\ repl'.commits = repl.commits /\ repl'.covered = repl.covered
        /\ repl'.seen = repl.seen /\ repl'.lost = repl.lost /\ DOMAIN repl' = SinkFields
    BY <2>1, <1>1, Zenon DEF SinkFields
  <2>3. /\ repl.registered \in Seq(Sinks) /\ IsInjective(repl.registered)
        /\ repl.commits \in Nat /\ repl.since \in [Sinks -> Nat]
        /\ \A r \in Sinks : repl.since[r] <= repl.commits
    BY Zenon DEF CallsInv, ListOk
  <2>4. /\ repl'.registered \in Seq(Sinks) /\ IsInjective(repl'.registered)
        /\ Range(repl'.registered) = Range(repl.registered) \union {s}
    <3>1. s \in Sinks /\ s \notin Range(repl.registered)
      BY <1>2, <1>4 DEF s
    <3> QED BY <2>2, <2>3, <3>1, NewAtEnd
  <2>5. /\ repl'.since \in [Sinks -> Nat] /\ \A r \in Sinks : repl'.since[r] <= repl'.commits
        /\ \A r \in Sinks : r # s => repl'.since[r] = repl.since[r]
        /\ repl'.commits >= repl.commits
    BY <1>2, <2>2, <2>3
  <2>6. ListOk'
    BY <2>2, <2>3, <2>4, <2>5, Zenon DEF ListOk
  <2>7. /\ OwnStep(t) /\ CallOk(t)' /\ th'[t].pc \in {"idle", "export"}
    <3>1. CASE Return(t)
      BY <1>1, <3>1, Returned, Zenon
    <3>2. CASE Goto(t, "export")
      <4> DEFINE x == [th[t] EXCEPT !.pc = "export"]
      <4>1. /\ th' = [th EXCEPT ![t] = x] /\ DOMAIN x = DOMAIN th[t] /\ x.todo = th[t].todo
            /\ x.pc = "export"
        BY <1>1, <3>2, Zenon DEF Goto, ThreadFields
      <4> HIDE DEF x
      <4>2. OwnStep(t) /\ th'[t] = x /\ Call(t)' = Call(t)
        BY <4>1, WentOn, Zenon
      <4>3. CallOk(t)'
        BY <1>1, <4>1, <4>2, Zenon DEF CallOk, CallsInv, Announcing
      <4> QED BY <4>1, <4>2, <4>3, Zenon
    <3> QED BY <2>1, <3>1, <3>2
  <2>8. /\ th'[t].pc \notin Announcing
        /\ th'[t].pc \notin Pending /\ th[t].pc \notin Pending
    BY <1>1, <2>7, Zenon DEF Announcing, Pending
  <2>9. \A r \in Sinks : repl'.since[r] = repl.since[r]
                         \/ \E c \in Range(th[t].todo) : c.op = "register" /\ c.sink = r
    BY <1>1, <1>2, <2>5, Zenon DEF s
  <2>10. CallsInv'
    BY <2>5, <2>6, <2>7, <2>8, <2>9, OwnStepKeepsCalls, Zenon
  <2>11. Waiting' = Waiting /\ Left' = Left /\ Shipping' = Shipping
    BY <2>7, <2>8, SameViews, Zenon DEF OwnStep
  <2>12. Sent!Register(s)
    BY <1>4, <2>2, <2>4, <2>11, Zenon DEF Sent!Register, Registered, s
  <2> QED BY <1>2, <2>10, <2>12, Zenon
<1> QED BY <1>3, <1>4

\* unregister_replication_sink takes the sink out of its one place.
LEMMA UnregisterLeaves ==
    ASSUME CallsInv, NEW t \in Threads, UnregisterSink(t)
    PROVE  CallsInv' /\ ((\E s \in Sinks : Sent!Unregister(s)) \/ UNCHANGED Sent!vars)
<1> DEFINE s == Call(t).sink
<1>1. /\ th[t].pc = "idle" /\ th[t].todo # <<>> /\ Call(t).op = "unregister"
      /\ Return(t) /\ DOMAIN repl = SinkFields
  BY Zenon DEF UnregisterSink, Calls, CallsInv, ListOk
<1>2. s \in Sinks
  BY <1>1, CallOfThread, Zenon
<1>3. CASE s \notin Range(repl.registered)
  <2>1. repl' = repl
    BY <1>3, Zenon DEF UnregisterSink
  <2> QED BY <1>1, <2>1, QuietReturn, QuietStepKeeps, Zenon DEF Pending
<1>4. CASE s \in Range(repl.registered)
  <2>1. PICK i \in DOMAIN repl.registered :
            /\ repl.registered[i] = s
            /\ repl' = [repl EXCEPT !.registered = EraseAt(@, i)]
    BY <1>4, Zenon DEF UnregisterSink
  <2> HIDE DEF s
  <2>2. /\ repl'.registered = EraseAt(repl.registered, i) /\ repl'.since = repl.since
        /\ repl'.based = repl.based /\ repl'.commits = repl.commits
        /\ repl'.covered = repl.covered /\ repl'.seen = repl.seen /\ repl'.lost = repl.lost
        /\ DOMAIN repl' = SinkFields
    BY <2>1, <1>1, Zenon DEF SinkFields
  <2>3. /\ repl.registered \in Seq(Sinks) /\ IsInjective(repl.registered)
        /\ repl.commits \in Nat /\ repl.since \in [Sinks -> Nat]
        /\ \A r \in Sinks : repl.since[r] <= repl.commits
    BY Zenon DEF CallsInv, ListOk
  <2>4. /\ repl'.registered \in Seq(Sinks) /\ IsInjective(repl'.registered)
        /\ Range(repl'.registered) = Range(repl.registered) \ {s}
    BY <2>1, <2>2, <2>3, ErasedFromList
  <2>5. ListOk' /\ repl'.commits >= repl.commits
    BY <2>2, <2>3, <2>4 DEF ListOk
  <2>6. OwnStep(t) /\ CallOk(t)' /\ th'[t].pc = "idle"
    BY <1>1, Returned, Zenon
  <2>7. CallsInv'
    BY <2>2, <2>5, <2>6, OwnStepKeepsCalls, Zenon DEF Announcing
  <2>8. Waiting' = Waiting /\ Left' = Left /\ Shipping' = Shipping
    BY <1>1, <2>6, SameViews, Zenon DEF OwnStep, Pending
  <2>9. Sent!Unregister(s)
    BY <1>4, <2>2, <2>4, <2>8, Zenon DEF Sent!Unregister, Registered
  <2> QED BY <1>2, <2>7, <2>9, Zenon DEF s
<1> QED BY <1>3, <1>4

\* A snapshot is taken for a sink, by registering it or for
\* ship_replication_snapshot.
LEMMA ExportShips ==
    ASSUME CallsInv, NEW t \in Threads, ExportForSink(t)
    PROVE  CallsInv' /\ \E s \in Sinks : Sent!Export(s)
<1> DEFINE s == Call(t).sink
<1>1. /\ th[t].pc \in {"idle", "export"} /\ th[t].todo # <<>> /\ repl' = repl
      /\ Call(t).op \in {"register", "ship"} /\ DOMAIN th[t] = ThreadFields
  BY CallInProgress, Zenon DEF ExportForSink, Export, Calls, At, CallsInv, CallOk
<1>2. s \in Sinks
  BY <1>1, CallOfThread, Zenon
<1>3. /\ repl.commits \in Nat /\ repl.since[s] <= repl.commits /\ ListOk
      /\ repl.since[s] \in Nat
  BY <1>2, Zenon DEF CallsInv, ListOk
<1> DEFINE x == [th[t] EXCEPT !.pc = "give", !.entries = data', !.n = repl.commits]
<1>4. /\ th' = [th EXCEPT ![t] = x] /\ DOMAIN x = DOMAIN th[t] /\ x.todo = th[t].todo
      /\ x.pc = "give" /\ x.n = repl.commits
  BY <1>1, Zenon DEF ExportForSink, Export, ThreadFields
<1> HIDE DEF x
<1>5. OwnStep(t) /\ th'[t] = x /\ Call(t)' = Call(t)
  BY <1>4, WentOn, Zenon
<1>6. repl.commits >= repl.since[s] /\ repl'.commits >= repl.commits /\ ListOk'
  BY <1>1, <1>3 DEF ListOk
<1>7. CallOk(t)'
  BY <1>1, <1>3, <1>4, <1>5, <1>6, Zenon DEF CallOk, CallsInv, Announcing
<1>8. CallsInv'
  BY <1>1, <1>4, <1>5, <1>6, <1>7, OwnStepKeepsCalls, Zenon DEF Announcing
<1>9. Waiting' = Waiting /\ Left' = Left
  BY <1>1, <1>4, <1>5, ViewMoves, Zenon
<1>10. ASSUME NEW r \in Sinks
       PROVE  Shipping'[r] = IF r = s THEN Shipping[r] \union {repl.commits} ELSE Shipping[r]
  <2>1. ~Giving(t, r) /\ (Giving(t, r)' <=> r = s) /\ th'[t].n = repl.commits
    BY <1>1, <1>4, <1>5, Zenon DEF Giving
  <2>2. /\ Shipping[r] = OthersShipping(t, r)
        /\ r = s => Shipping'[r] = OthersShipping(t, r) \union {repl.commits}
        /\ r # s => Shipping'[r] = OthersShipping(t, r)
    BY <1>5, <2>1, ShippingSplit, Zenon
  <2> QED BY <2>2
<1>11. Shipping' = [Shipping EXCEPT ![s] = @ \union {repl.commits}]
  <2> HIDE DEF s
  <2> QED BY <1>2, <1>10, ViewsAreFunctions
<1>12. Sent!Export(s)
  BY <1>1, <1>9, <1>11, Zenon DEF Sent!Export, Registered
<1> QED BY <1>2, <1>8, <1>12, Zenon

\* The snapshot reaches the sink, or its callback fails.
LEMMA SnapshotArrives ==
    ASSUME CallsInv, NEW t \in Threads, GiveSnapshot(t)
    PROVE  /\ CallsInv'
           /\ \E s \in Sinks : \E n \in Shipping[s] : Sent!GiveSnapshot(s, n)
<1> DEFINE s == Call(t).sink
           n == th[t].n
<1>1. /\ th[t].pc = "give" /\ th[t].todo # <<>> /\ Return(t) /\ DOMAIN repl = SinkFields
      /\ Call(t).op \in {"register", "ship"}
      /\ Call(t).op = "register" => n >= repl.since[s]
  BY CallInProgress, Zenon DEF GiveSnapshot, At, CallsInv, CallOk, ListOk
<1>2. s \in Sinks
  BY <1>1, CallOfThread, Zenon
<1>3. n \in Shipping[s]
  BY <1>1, <1>2, Zenon DEF Shipping
<1>4. OwnStep(t) /\ CallOk(t)' /\ th'[t].pc = "idle"
  BY <1>1, Returned, Zenon
<1>5. /\ \/ repl' = [repl EXCEPT !.covered[s] = @ \union 1..n,
                       !.based = IF Call(t).op = "register" THEN @ \union {s} ELSE @]
         \/ repl' = repl
  BY Zenon DEF GiveSnapshot
<1>r. \A r \in Sinks : Giving(t, r) <=> r = s
  BY <1>1, Zenon DEF Giving
<1> HIDE DEF s, n
<1>6. /\ repl'.registered = repl.registered /\ repl'.since = repl.since
      /\ repl'.commits = repl.commits /\ repl'.seen = repl.seen /\ repl'.lost = repl.lost
      /\ DOMAIN repl' = SinkFields
  BY <1>1, <1>5, Zenon DEF SinkFields
<1>7. \/ /\ repl'.covered = [repl.covered EXCEPT ![s] = @ \union 1..n]
         /\ \/ repl'.based = repl.based
            \/ n >= repl.since[s] /\ repl'.based = repl.based \union {s}
      \/ repl'.covered = repl.covered /\ repl'.based = repl.based
  <2>1. CASE repl' = repl
    BY <2>1
  <2>2. CASE repl' # repl
    <3>1. /\ repl'.covered = [repl.covered EXCEPT ![s] = @ \union 1..n]
          /\ repl'.based = IF Call(t).op = "register" THEN repl.based \union {s} ELSE repl.based
      BY <1>1, <1>5, <2>2, Zenon DEF SinkFields
    <3>2. CASE Call(t).op = "register"
      BY <1>1, <3>1, <3>2, Zenon
    <3>3. CASE Call(t).op # "register"
      BY <3>1, <3>3
    <3> QED BY <3>2, <3>3
  <2> QED BY <2>1, <2>2
<1>8. ListOk' /\ repl'.commits >= repl.commits
  BY <1>6 DEF CallsInv, ListOk
<1>9. CallsInv'
  BY <1>4, <1>6, <1>8, OwnStepKeepsCalls, Zenon DEF Announcing
<1>10. Waiting' = Waiting /\ Left' = Left
  BY <1>1, <1>4, ViewMoves, Zenon
<1>11. ASSUME NEW r \in Sinks
       PROVE  /\ r # s => Shipping'[r] = Shipping[r]
              /\ r = s => Shipping'[r] = Shipping[r] \/ Shipping'[r] = Shipping[r] \ {n}
  <2>1. /\ r = s => Shipping[r] = OthersShipping(t, r) \union {n}
        /\ r # s => Shipping[r] = OthersShipping(t, r)
        /\ Shipping'[r] = OthersShipping(t, r)
    BY <1>4, <1>r, ShippingSplit, Zenon DEF Giving, n
  <2> QED BY <2>1
<1>12. Shipping' \in {Shipping, [Shipping EXCEPT ![s] = @ \ {n}]}
  BY <1>2, <1>11, ViewsAreFunctions
<1>13. Sent!GiveSnapshot(s, n)
  BY <1>3, <1>6, <1>7, <1>10, <1>12, Zenon DEF Sent!GiveSnapshot, Registered
<1> QED BY <1>2, <1>3, <1>9, <1>13, Zenon

\* The process ends, and every call with it.
LEMMA EndRestarts ==
    ASSUME CallsInv, NEW aborting, Ends(aborting),
           \A t \in aborting \cap Threads : th[t].todo # <<>>
    PROVE  CallsInv' /\ Sent!Restart
<1>1. repl' = NoSinks
  BY Zenon DEF Ends
<1>2. ASSUME NEW t \in Threads
      PROVE  /\ DOMAIN th'[t] = ThreadFields /\ th'[t].pc = "idle"
             /\ th'[t].todo \in Seq(AllCalls) /\ Range(th'[t].todo) \subseteq Range(th[t].todo)
  <2>1. th[t].todo \in Seq(AllCalls) /\ (th[t].pc # "idle" => th[t].todo # <<>>)
    BY Zenon DEF CallsInv, CallOk
  <2>r. \A todo : /\ DOMAIN Resting(todo) = ThreadFields
                 /\ Resting(todo).pc = "idle" /\ Resting(todo).todo = todo
    BY Zenon DEF Resting, ThreadFields
  <2>2. CASE th'[t] = Resting(th[t].todo)
    BY <2>1, <2>r, <2>2, Zenon
  <2>3. CASE th'[t] = Resting(Tail(th[t].todo)) /\ th[t].todo # <<>>
    <3>1. /\ Tail(th[t].todo) \in Seq(AllCalls)
          /\ Range(Tail(th[t].todo)) \subseteq Range(th[t].todo)
      BY <2>1, <2>3, HeadAndTail, Zenon
    <3>2. DOMAIN th'[t] = ThreadFields /\ th'[t].pc = "idle" /\ th'[t].todo = Tail(th[t].todo)
      BY <2>3, <2>r, Zenon
    <3> QED BY <3>1, <3>2, Zenon
  <2>4. \/ th'[t] = Resting(th[t].todo)
        \/ th'[t] = Resting(Tail(th[t].todo)) /\ th[t].todo # <<>>
    BY <2>1, Zenon DEF Ends
  <2> QED BY <2>2, <2>3, <2>4
<1>3. DOMAIN th' = Threads
  BY Zenon DEF Ends
<1>4. \A t \in Threads : CallOk(t)'
  BY <1>2, Zenon DEF CallOk, Announcing
<1>5. ThreadsApart'
  <2>1. ThreadsApart
    BY Zenon DEF CallsInv
  <2> QED BY <1>2, <2>1 DEF ThreadsApart, Announcing
<1>6. /\ repl'.registered = <<>> /\ repl'.commits = 0 /\ repl'.since = [s \in Sinks |-> 0]
      /\ repl'.based = {} /\ repl'.covered = [s \in Sinks |-> {}]
      /\ repl'.seen = [s \in Sinks |-> {}] /\ repl'.lost = [s \in Sinks |-> {}]
      /\ DOMAIN repl' = SinkFields
  BY <1>1, Zenon DEF NoSinks, SinkFields
<1>7. Range(<<>>) = {} /\ IsInjective(<<>>)
  BY DEF Range, IsInjective
<1>8. ListOk'
  BY <1>6, <1>7 DEF ListOk
<1>9. Waiting' = {} /\ Left' = [s \in Sinks |-> {}] /\ Shipping' = [s \in Sinks |-> {}]
  BY <1>2 DEF Waiting, Left, Shipping
<1> QED BY <1>2, <1>3, <1>4, <1>5, <1>6, <1>7, <1>8, <1>9, Zenon
        DEF CallsInv, Sent!Restart, Sent!None, Registered

\* A step of the worker, of the clock or of initialize concerns no sink.
LEMMA OtherSteps ==
    ASSUME CallsInv, th' = th, repl' = repl
    PROVE  CallsInv' /\ UNCHANGED Sent!vars
<1>1. \A t \in Threads : CallOk(t)'
  BY Zenon DEF CallsInv, CallOk, Call
<1>2. ListOk' /\ ThreadsApart'
  <2>1. ListOk /\ ThreadsApart
    BY Zenon DEF CallsInv
  <2> QED BY <2>1 DEF ListOk, ThreadsApart
<1>3. CallsInv'
  BY <1>1, <1>2, Zenon DEF CallsInv
<1> QED BY <1>3, Zenon DEF Sent!vars, Registered, Waiting, Left, Shipping, Call

\* A step of one thread is a step of the replication, or none.
LEMMA ThreadReplicates ==
    ASSUME CallsInv, NEW t \in Threads, Step(t)
    PROVE  CallsInv' /\ [Sent!Next]_(Sent!vars)
<1>1. CASE KvApply(t)
  BY <1>1, ApplyCommits, Zenon DEF Sent!Next
<1>2. CASE NotifyCopy(t)
  BY <1>2, CopyAnnounces, Zenon DEF Sent!Next
<1>3. CASE NotifyCall(t)
  BY <1>3, CallDelivers, Zenon DEF Sent!Next
<1>4. CASE RegisterSink(t)
  BY <1>4, RegisterEnters, Zenon DEF Sent!Next
<1>5. CASE UnregisterSink(t)
  BY <1>5, UnregisterLeaves, Zenon DEF Sent!Next
<1>6. CASE ExportForSink(t)
  BY <1>6, ExportShips, Zenon DEF Sent!Next
<1>7. CASE GiveSnapshot(t)
  BY <1>7, SnapshotArrives, Zenon DEF Sent!Next
<1>8. CASE SetBackend(t) /\ Ends({t})
  <2>1. \A u \in {t} \cap Threads : th[u].todo # <<>>
    BY <1>8, Zenon DEF SetBackend, Calls
  <2> QED BY <1>8, <2>1, EndRestarts, Zenon DEF Sent!Next
<1>9. CASE \/ KvDeleteFind(t) \/ KvCompareAndSwap(t) \/ KvGet(t) \/ ImportSnapshot(t)
           \/ KvFlush(t) \/ ExportForFlush(t) \/ FlushOpen(t) \/ FlushClose(t)
           \/ FlushFails(t) \/ (SetBackend(t) /\ ~Ends({t})) \/ SwitchBackend(t)
           \/ StartCompaction(t) \/ StopCompaction(t) \/ StopJoined(t)
  BY <1>9, QuietSteps, QuietStepKeeps, Zenon
<1> QED BY <1>1, <1>2, <1>3, <1>4, <1>5, <1>6, <1>7, <1>8, <1>9 DEF Step

LEMMA NextReplicates == CallsInv /\ [Next]_vars => CallsInv' /\ [Sent!Next]_(Sent!vars)
<1> SUFFICES ASSUME CallsInv, [Next]_vars PROVE CallsInv' /\ [Sent!Next]_(Sent!vars)
  OBVIOUS
<1>1. ASSUME NEW t \in Threads, Step(t) PROVE CallsInv' /\ [Sent!Next]_(Sent!vars)
  BY <1>1, ThreadReplicates, Zenon
<1>2. CASE Crash
  BY <1>2, EndRestarts, Zenon DEF Crash, Sent!Next
<1>3. CASE \/ \E w \in DOMAIN comp.worker : Worker(w)
           \/ Tick \/ Initialize \/ UNCHANGED vars
  <2>1. th' = th /\ repl' = repl
    BY <1>3, Zenon DEF Worker, WorkerCheck, WorkerPrune, Tick, Initialize, vars
  <2> QED BY <2>1, OtherSteps, Zenon
<1> QED BY <1>1, <1>2, <1>3, Zenon DEF Next

\* At first nobody calls and there are no sinks.
LEMMA InitReplicates == OneRegistrar /\ Init => CallsInv /\ Sent!Init
<1> SUFFICES ASSUME OneRegistrar, Init PROVE CallsInv /\ Sent!Init
  OBVIOUS
<1>1. PICK script \in Scripts : th = [t \in Threads |-> Resting(script[t])]
  BY Zenon DEF Init
<1>2. \A t \in Threads : script[t] \in Seq(AllCalls)
  BY CallsAssumption
<1>3. \A todo : /\ DOMAIN Resting(todo) = ThreadFields
               /\ Resting(todo).pc = "idle" /\ Resting(todo).todo = todo
  BY Zenon DEF Resting, ThreadFields
<1>4. /\ DOMAIN th = Threads
      /\ \A t \in Threads : /\ DOMAIN th[t] = ThreadFields /\ th[t].pc = "idle"
                             /\ th[t].todo = script[t]
  BY <1>1, <1>3
<1>5. \A t \in Threads : CallOk(t)
  BY <1>2, <1>4, Zenon DEF CallOk, Announcing
<1>6. ThreadsApart
  BY <1>4 DEF ThreadsApart, Announcing, OneRegistrar
<1>7. /\ repl.registered = <<>> /\ repl.commits = 0 /\ repl.since = [s \in Sinks |-> 0]
      /\ repl.based = {} /\ repl.covered = [s \in Sinks |-> {}]
      /\ repl.seen = [s \in Sinks |-> {}] /\ repl.lost = [s \in Sinks |-> {}]
      /\ DOMAIN repl = SinkFields
  BY Zenon DEF Init, NoSinks, SinkFields
<1>8. Range(<<>>) = {} /\ IsInjective(<<>>)
  BY DEF Range, IsInjective
<1>9. ListOk
  BY <1>7, <1>8 DEF ListOk
<1>10. Waiting = {} /\ Left = [s \in Sinks |-> {}] /\ Shipping = [s \in Sinks |-> {}]
  BY <1>4 DEF Waiting, Left, Shipping
<1> QED BY <1>4, <1>5, <1>6, <1>7, <1>8, <1>9, <1>10, Zenon
        DEF CallsInv, Sent!Init, Sent!None, Registered

\* Registering, unregistering, kv_apply with its announcements, snapshots and
\* crashes of the store, in every interleaving of any number of threads, are
\* the steps of the replication protocol, provided no two threads register
\* the same sink: the snapshot of the first registration could then reach the
\* sink after the second one and count for it.
THEOREM StoreReplicates == OneRegistrar /\ Spec => ImplementsReplication
<1> SUFFICES ASSUME OneRegistrar PROVE Spec => Sent!Spec
  BY DEF ImplementsReplication
<1>1. Init => CallsInv /\ Sent!Init
  BY InitReplicates, Zenon
<1>2. CallsInv /\ [Next]_vars => CallsInv' /\ [Sent!Next]_(Sent!vars)
  BY NextReplicates, Zenon
<1> QED BY <1>1, <1>2, PTL DEF Spec, Sent!Spec

----------------------------------------------------------------------------
(* No sink misses a batch. *)

\* The empty store has no sinks.
LEMMA InitHasInv == Sent!Init => Sent!Inv
BY DEF Sent!Init, Sent!Inv, Sent!TypeOK, Sent!None

\* A batch is waiting from the moment it is applied.
LEMMA CommitKeepsInv == Sent!Inv /\ Sent!Commit => Sent!Inv'
<1> SUFFICES ASSUME Sent!Inv, Sent!Commit PROVE Sent!Inv'
  OBVIOUS
<1>1. Sent!TypeOK'
  <2>1. /\ repl.commits \in Nat /\ repl'.commits = repl.commits + 1
        /\ Waiting \in SUBSET Nat /\ Waiting' = Waiting \union {repl'.commits}
    BY Zenon DEF Sent!Inv, Sent!TypeOK, Sent!Commit
  <2>2. repl'.commits \in Nat
    BY <2>1
  <2>3. Waiting' \in SUBSET Nat
    BY <2>1, <2>2, Zenon
  <2> QED BY <2>2, <2>3, Zenon DEF Sent!Inv, Sent!TypeOK, Sent!Commit
<1>2. ASSUME NEW s \in Registered', NEW b \in 1..repl'.commits, b > repl'.since[s]
      PROVE  b \in Sent!Accounted(s)'
  <2>1. b \in 1..repl.commits \/ b = repl.commits + 1
    BY DEF Sent!Inv, Sent!TypeOK, Sent!Commit
  <2> QED
    BY <1>2, <2>1 DEF Sent!Inv, Sent!TypeOK, Sent!Commit, Sent!Accounted
<1>3. \A s \in (Registered \cap repl.based)' : (1..repl.since[s] \subseteq repl.covered[s])'
  BY DEF Sent!Inv, Sent!Commit
<1> QED
  BY <1>1, <1>2, <1>3 DEF Sent!Inv

\* The writer passes its batch to every sink then in the list.
LEMMA CopyKeepsInv == ASSUME Sent!Inv, NEW b \in Waiting, Sent!CopySinks(b) PROVE Sent!Inv'
<1>1. Sent!TypeOK'
  BY DEF Sent!Inv, Sent!TypeOK, Sent!CopySinks
<1>2. ASSUME NEW s \in Registered', NEW c \in 1..repl'.commits, c > repl'.since[s]
      PROVE  c \in Sent!Accounted(s)'
  <2>1. s \in Registered /\ s \in Sinks /\ c \in Sent!Accounted(s)
    BY <1>2 DEF Sent!Inv, Sent!TypeOK, Sent!CopySinks
  <2>2. Left'[s] = Left[s] \union {b} /\ Waiting' = Waiting \ {b}
    BY <2>1 DEF Sent!CopySinks, Sent!Inv, Sent!TypeOK
  <2> QED
    BY <2>1, <2>2 DEF Sent!Accounted, Sent!CopySinks
<1>3. \A s \in (Registered \cap repl.based)' : (1..repl.since[s] \subseteq repl.covered[s])'
  BY DEF Sent!Inv, Sent!CopySinks
<1> QED
  BY <1>1, <1>2, <1>3 DEF Sent!Inv

\* A batch that arrives is seen.
LEMMA DeliverKeepsInv ==
    ASSUME Sent!Inv, NEW s \in Sinks, NEW b \in Left[s], Sent!Deliver(s, b) PROVE Sent!Inv'
<1>1. Sent!TypeOK'
  BY DEF Sent!Inv, Sent!TypeOK, Sent!Deliver
<1>2. ASSUME NEW r \in Registered', NEW c \in 1..repl'.commits, c > repl'.since[r]
      PROVE  c \in Sent!Accounted(r)'
  <2>1. r \in Registered /\ r \in Sinks /\ c \in Sent!Accounted(r)
    BY <1>2 DEF Sent!Inv, Sent!TypeOK, Sent!Deliver
  <2>2. /\ Left[r] \subseteq Left'[r] \union repl'.seen[r]
        /\ repl.seen[r] \subseteq repl'.seen[r]
    BY <2>1 DEF Sent!Deliver, Sent!Inv, Sent!TypeOK
  <2> QED
    BY <2>1, <2>2 DEF Sent!Accounted, Sent!Deliver
<1>3. \A r \in (Registered \cap repl.based)' : (1..repl.since[r] \subseteq repl.covered[r])'
  BY DEF Sent!Inv, Sent!Deliver
<1> QED
  BY <1>1, <1>2, <1>3 DEF Sent!Inv

\* An abandoned batch is known to be lost.
LEMMA AbandonKeepsInv == ASSUME Sent!Inv, NEW b, Sent!Abandon(b) PROVE Sent!Inv'
<1>0. b \in Nat
  BY DEF Sent!Inv, Sent!TypeOK, Sent!Abandon
<1>1. Sent!TypeOK'
  BY <1>0 DEF Sent!Inv, Sent!TypeOK, Sent!Abandon
<1>2. ASSUME NEW r \in Registered', NEW c \in 1..repl'.commits, c > repl'.since[r]
      PROVE  c \in Sent!Accounted(r)'
  <2>1. r \in Registered /\ r \in Sinks /\ c \in Sent!Accounted(r)
    BY <1>2 DEF Sent!Inv, Sent!TypeOK, Sent!Abandon
  <2>2. /\ Left[r] \subseteq Left'[r] \union repl'.lost[r]
        /\ repl.lost[r] \subseteq repl'.lost[r]
    BY <2>1 DEF Sent!Abandon, Sent!Inv, Sent!TypeOK
  <2> QED
    BY <2>1, <2>2 DEF Sent!Accounted, Sent!Abandon
<1>3. \A r \in (Registered \cap repl.based)' : (1..repl.since[r] \subseteq repl.covered[r])'
  BY DEF Sent!Inv, Sent!Abandon
<1> QED
  BY <1>1, <1>2, <1>3 DEF Sent!Inv

\* No batch is newer than the registration that just happened.
LEMMA RegisterKeepsInv == ASSUME Sent!Inv, NEW s \in Sinks, Sent!Register(s) PROVE Sent!Inv'
<1>1. Sent!TypeOK'
  BY DEF Sent!Inv, Sent!TypeOK, Sent!Register
<1>2. ASSUME NEW r \in Registered', NEW c \in 1..repl'.commits, c > repl'.since[r]
      PROVE  c \in Sent!Accounted(r)'
  <2>1. CASE r = s
    BY <1>2, <2>1 DEF Sent!Inv, Sent!TypeOK, Sent!Register
  <2>2. CASE r # s
    BY <1>2, <2>2 DEF Sent!Inv, Sent!TypeOK, Sent!Register, Sent!Accounted
  <2> QED
    BY <2>1, <2>2
<1>3. \A r \in (Registered \cap repl.based)' : (1..repl.since[r] \subseteq repl.covered[r])'
  BY DEF Sent!Inv, Sent!TypeOK, Sent!Register
<1> QED
  BY <1>1, <1>2, <1>3 DEF Sent!Inv

\* Leaving the list takes only promises away.
LEMMA UnregisterKeepsInv ==
    ASSUME Sent!Inv, NEW s \in Sinks, Sent!Unregister(s) PROVE Sent!Inv'
BY DEF Sent!Inv, Sent!TypeOK, Sent!Unregister, Sent!Accounted

\* Taking a snapshot promises nothing.
LEMMA ExportKeepsInv == ASSUME Sent!Inv, NEW s \in Sinks, Sent!Export(s) PROVE Sent!Inv'
BY DEF Sent!Inv, Sent!TypeOK, Sent!Export, Sent!Accounted

\* A snapshot taken after the registration covers every batch before it.
LEMMA GiveKeepsInv ==
    ASSUME Sent!Inv, NEW s \in Sinks, NEW n \in Shipping[s], Sent!GiveSnapshot(s, n)
    PROVE  Sent!Inv'
<1>0. n \in Nat
  BY DEF Sent!Inv, Sent!TypeOK
<1>1. Sent!TypeOK'
  <2>1. 1..n \in SUBSET Nat
    BY <1>0
  <2> QED
    BY <2>1 DEF Sent!Inv, Sent!TypeOK, Sent!GiveSnapshot
<1>2. \A r \in Sinks : repl.covered[r] \subseteq repl'.covered[r]
  BY DEF Sent!Inv, Sent!TypeOK, Sent!GiveSnapshot
<1>3. ASSUME NEW r \in Registered', NEW c \in 1..repl'.commits, c > repl'.since[r]
      PROVE  c \in Sent!Accounted(r)'
  <2>1. r \in Registered /\ r \in Sinks /\ c \in Sent!Accounted(r)
    BY <1>3 DEF Sent!Inv, Sent!TypeOK, Sent!GiveSnapshot
  <2> QED
    BY <2>1, <1>2 DEF Sent!Accounted, Sent!GiveSnapshot
<1>4. ASSUME NEW r \in (Registered \cap repl.based)'
      PROVE  (1..repl.since[r] \subseteq repl.covered[r])'
  <2>1. r \in Registered /\ r \in Sinks /\ repl'.since = repl.since /\ repl.since[r] \in Nat
    BY <1>4 DEF Sent!Inv, Sent!TypeOK, Sent!GiveSnapshot
  <2>2. CASE r \in repl.based
    BY <2>1, <2>2, <1>2 DEF Sent!Inv
  <2>3. CASE r \notin repl.based
    <3>1. r = s /\ n >= repl.since[s] /\ 1..n \subseteq repl'.covered[s]
      BY <1>4, <2>3 DEF Sent!GiveSnapshot, Sent!Inv, Sent!TypeOK
    <3>2. 1..repl.since[s] \subseteq 1..n
      BY <3>1, <2>1, <1>0
    <3> QED
      BY <3>1, <3>2, <2>1
  <2> QED
    BY <2>2, <2>3
<1> QED
  BY <1>1, <1>3, <1>4 DEF Sent!Inv

\* Every step of the store keeps the inductive invariant.
LEMMA NextKeepsInv == Sent!Inv /\ [Sent!Next]_(Sent!vars) => Sent!Inv'
<1> SUFFICES ASSUME Sent!Inv, [Sent!Next]_(Sent!vars) PROVE Sent!Inv'
  OBVIOUS
<1>1. CASE Sent!Commit
  BY <1>1, CommitKeepsInv
<1>2. CASE Sent!Restart
  BY <1>2 DEF Sent!Restart, Sent!Inv, Sent!TypeOK, Sent!None
<1>3. CASE \E b \in Waiting : Sent!CopySinks(b)
  BY <1>3, CopyKeepsInv
<1>4. ASSUME NEW s \in Sinks, \E b \in Left[s] : Sent!Deliver(s, b) \/ Sent!Abandon(b)
      PROVE  Sent!Inv'
  BY <1>4, DeliverKeepsInv, AbandonKeepsInv
<1>5. ASSUME NEW s \in Sinks, Sent!Register(s) \/ Sent!Unregister(s) \/ Sent!Export(s)
      PROVE  Sent!Inv'
  BY <1>5, RegisterKeepsInv, UnregisterKeepsInv, ExportKeepsInv
<1>6. ASSUME NEW s \in Sinks, \E n \in Shipping[s] : Sent!GiveSnapshot(s, n)
      PROVE  Sent!Inv'
  BY <1>6, GiveKeepsInv
<1>7. CASE UNCHANGED Sent!vars
  BY <1>7 DEF Sent!vars, Sent!Inv, Sent!TypeOK, Sent!Accounted
<1> QED
  BY <1>1, <1>2, <1>3, <1>4, <1>5, <1>6, <1>7, Zenon DEF Sent!Next

\* The inductive invariant says what the sinks are promised.
LEMMA InvImpliesNoBatchMissed == Sent!Inv => Sent!NoBatchMissed
<1> SUFFICES ASSUME Sent!Inv, NEW s \in Registered \cap repl.based, NEW b \in 1..repl.commits
             PROVE  b \in Sent!Accounted(s)
  BY DEF Sent!NoBatchMissed
<1>1. repl.since[s] \in Nat /\ b \in Nat /\ b >= 1
  BY DEF Sent!Inv, Sent!TypeOK
<1>2. CASE b > repl.since[s]
  BY <1>2 DEF Sent!Inv
<1>3. CASE ~(b > repl.since[s])
  <2>1. b \in 1..repl.since[s]
    BY <1>1, <1>3
  <2> QED
    BY <2>1 DEF Sent!Inv, Sent!Accounted
<1> QED
  BY <1>2, <1>3

\* register_replication_sink puts the sink in the list before it takes the
\* snapshot, and kv_apply copies the list after it has applied its batch: for
\* any threads, calls, sinks and crashes, a registered sink that has its
\* snapshot misses no batch, provided no two threads register the same sink.
THEOREM NoSinkMissesABatch == OneRegistrar /\ Spec => []NoBatchMissed
<1> SUFFICES ASSUME OneRegistrar PROVE Spec => []NoBatchMissed
  OBVIOUS
<1>1. Init => CallsInv /\ Sent!Inv
  BY InitReplicates, InitHasInv, Zenon
<1>2. CallsInv /\ Sent!Inv /\ [Next]_vars => CallsInv' /\ Sent!Inv'
  <2>1. CallsInv /\ [Next]_vars => CallsInv' /\ [Sent!Next]_(Sent!vars)
    BY NextReplicates
  <2>2. Sent!Inv /\ [Sent!Next]_(Sent!vars) => Sent!Inv'
    BY NextKeepsInv
  <2> QED BY <2>1, <2>2, Zenon
<1>3. Sent!Inv => NoBatchMissed
  BY InvImpliesNoBatchMissed, Zenon DEF NoBatchMissed
<1> QED BY <1>1, <1>2, <1>3, PTL DEF Spec

----------------------------------------------------------------------------
(* Maps. *)

\* Restricting to the entries that are not expired, as _data is pruned, is
\* what the map promises.
LEMMA PrunedIsLive ==
    ASSUME NEW m, IsMap(m), now \in Nat
    PROVE  Pruned(m) = Abstract!Live(m, now)
<1>1. \A k \in DOMAIN m : m[k].expires \in Int
  BY Zenon DEF IsMap
<1>2. {k \in DOMAIN m : ~IsExpired(m[k])}
      = {k \in DOMAIN m : m[k].expires = Abstract!Forever \/ m[k].expires > now}
  BY <1>1 DEF IsExpired, Forever, Abstract!Forever
<1> QED BY <1>2, Zenon DEF Pruned, Abstract!Live, Restrict, Abstract!Restrict

LEMMA UnexpiredIsLive == Unexpired = Abstract!Live(data, now)
BY Zenon DEF Unexpired, Abstract!Live, Forever, Abstract!Forever, Restrict, Abstract!Restrict

LEMMA UnexpiredIsLiveNext == Unexpired' = Abstract!Live(data', now')
BY Zenon DEF Unexpired, Abstract!Live, Forever, Abstract!Forever, Restrict, Abstract!Restrict

\* What is live later is live now, and live when only the live are kept.
LEMMA LiveAgain ==
    ASSUME NEW m, IsMap(m), NEW i \in Nat, NEW j \in Nat, i <= j
    PROVE  Abstract!Live(Abstract!Live(m, i), j) = Abstract!Live(m, j)
<1> DEFINE L(n) == {k \in DOMAIN m : m[k].expires = Abstract!Forever \/ m[k].expires > n}
<1>1. \A k \in DOMAIN m : m[k].expires \in Int
  BY Zenon DEF IsMap
<1>2. Abstract!Live(m, i) = [k \in L(i) |-> m[k]] /\ Abstract!Live(m, j) = [k \in L(j) |-> m[k]]
  BY Zenon DEF Abstract!Live, Abstract!Restrict
<1>3. L(j) \subseteq L(i)
  BY <1>1
<1>4. ASSUME NEW f, DOMAIN f = L(i), \A k \in L(i) : f[k] = m[k]
      PROVE  {k \in DOMAIN f : f[k].expires = Abstract!Forever \/ f[k].expires > j} = L(j)
  BY <1>4, <1>3
<1> DEFINE l == Abstract!Live(m, i)
<1>5. DOMAIN l = L(i) /\ \A k \in L(i) : l[k] = m[k]
  BY <1>2, Zenon
<1> HIDE DEF l, L
<1>6. {k \in DOMAIN l : l[k].expires = Abstract!Forever \/ l[k].expires > j} = L(j)
  BY <1>4, <1>5, Zenon
<1>7. Abstract!Live(l, j) = [k \in L(j) |-> l[k]]
  BY <1>6, Zenon DEF Abstract!Live, Abstract!Restrict
<1>8. [k \in L(j) |-> l[k]] = [k \in L(j) |-> m[k]]
  BY <1>3, <1>5, Zenon
<1> QED BY <1>2, <1>7, <1>8, Zenon DEF l

\* Keys that some call, or the first file, may put into the map.
StoredKeys ==
    DOMAIN InitialEntries
    \union (UNION {DOMAIN c.entries : c \in {d \in AllCalls : d.op = "import"}})
    \union (UNION {{c.batch[i].key : i \in DOMAIN c.batch} :
                        c \in {d \in AllCalls : d.op = "apply"}})

\* A map the store may have.
Holds(m) == IsMap(m) /\ DOMAIN m \subseteq StoredKeys

LEMMA RestrictedHolds ==
    ASSUME NEW m, Holds(m), NEW S \in SUBSET (DOMAIN m)
    PROVE  Holds(Restrict(m, S)) /\ DOMAIN Restrict(m, S) = S
<1>1. DOMAIN Restrict(m, S) = S /\ \A k \in S : Restrict(m, S)[k] = m[k]
  BY Zenon DEF Restrict
<1>2. Restrict(m, S) = [k \in S |-> Restrict(m, S)[k]]
  BY Zenon DEF Restrict
<1> QED BY <1>1, <1>2, Zenon DEF Holds, IsMap

LEMMA PrunedHolds ==
    ASSUME NEW m, Holds(m)
    PROVE  Holds(Pruned(m)) /\ DOMAIN Pruned(m) \subseteq DOMAIN m
<1> DEFINE S == {k \in DOMAIN m : ~IsExpired(m[k])}
<1>1. S \in SUBSET (DOMAIN m) /\ Pruned(m) = Restrict(m, S)
  BY Zenon DEF Pruned
<1> HIDE DEF S
<1> QED BY <1>1, RestrictedHolds

LEMMA NothingHolds == Holds(Nothing)
BY Zenon DEF Holds, IsMap, Nothing

LEMMA ErasedHolds == ASSUME NEW m, Holds(m), NEW k PROVE Holds(Erased(m, k))
<1>1. DOMAIN m \ {k} \in SUBSET (DOMAIN m)
  BY Zenon
<1> QED BY <1>1, RestrictedHolds, Zenon DEF Erased

LEMMA StoredHolds ==
    ASSUME NEW m, Holds(m), NEW k \in StoredKeys, NEW v, NEW x \in Int
    PROVE  Holds(Stored(m, k, [value |-> v, expires |-> x]))
<1> DEFINE e == [value |-> v, expires |-> x]
           s == Stored(m, k, e)
<1>1. e.value = v /\ e.expires = x /\ e = [value |-> e.value, expires |-> e.expires]
  BY Zenon
<1> HIDE DEF e
<1>2. /\ DOMAIN s = DOMAIN m \union {k} /\ s = [y \in DOMAIN s |-> s[y]]
      /\ s[k] = e /\ \A y \in DOMAIN m : y # k => s[y] = m[y]
  BY Zenon DEF Stored
<1> HIDE DEF s
<1>3. ASSUME NEW y \in DOMAIN s
      PROVE  s[y] = [value |-> s[y].value, expires |-> s[y].expires] /\ s[y].expires \in Int
  <2>1. CASE y = k
    BY <1>1, <1>2, <2>1, Zenon
  <2>2. CASE y # k
    BY <1>2, <2>2, Zenon DEF Holds, IsMap
  <2> QED BY <2>1, <2>2
<1>4. Holds(s)
  BY <1>2, <1>3, Zenon DEF Holds, IsMap
<1> QED BY <1>4 DEF s, e

----------------------------------------------------------------------------
(* Batches. *)

\* Every nonempty set of naturals has a least element.
LEMMA LeastNatural ==
    ASSUME NEW S \in SUBSET Nat, S # {}
    PROVE  \E x \in S : \A y \in S : x <= y
<1>1. \E x \in S : \A y \in S : ~(<<y, x>> \in OpToRel(<, Nat))
  BY NatLessThanWellFounded, WFMin, Zenon
<1>2. \A x, y \in Nat : y < x => <<y, x>> \in OpToRel(<, Nat)
  BY Zenon DEF OpToRel
<1>3. \E x \in S : \A y \in S : ~(y < x)
  BY <1>1, <1>2, Zenon
<1> QED BY <1>3

\* f is kv_apply's loop over the first n operations.
IsLoop(f, batch, n) ==
    f = [i \in 0..n |-> IF i = 0 THEN [ok |-> TRUE, data |-> Pruned(data)]
                       ELSE ApplyOne(f[i - 1], batch[i])]

LEMMA LoopExists == ASSUME NEW batch, NEW n \in Nat PROVE \E f : IsLoop(f, batch, n)
<1> DEFINE Bad == {k \in Nat : ~\E f : IsLoop(f, batch, k)}
           base == [ok |-> TRUE, data |-> Pruned(data)]
<1> SUFFICES ASSUME Bad # {} PROVE FALSE
  BY Zenon
<1>1. PICK k \in Bad : \A j \in Bad : k <= j
  <2>1. Bad \in SUBSET Nat
    BY Zenon
  <2> HIDE DEF Bad
  <2> QED BY <2>1, LeastNatural, Zenon
<1>2. k \in Nat /\ \A f : ~IsLoop(f, batch, k)
  BY Zenon
<1>3. CASE k = 0
  <2>1. \A i \in 0..0 : i = 0
    OBVIOUS
  <2> DEFINE f == [i \in 0..0 |-> base]
  <2>2. IsLoop(f, batch, 0)
    BY <2>1, Zenon DEF IsLoop
  <2> QED BY <1>2, <1>3, <2>2, Zenon
<1>4. CASE k # 0
  <2>1. /\ k - 1 \in Nat /\ ~(k <= k - 1) /\ \A i \in 0..k : i \in Nat
        /\ \A i \in 0..k : i # 0 => i - 1 \in 0..(k - 1) /\ i - 1 \in 0..k
        /\ \A i \in 0..(k - 1) : i \in 0..k
    BY <1>2, <1>4
  <2>2. PICK g : IsLoop(g, batch, k - 1)
    BY <1>1, <2>1, Zenon
  <2> DEFINE f == [i \in 0..k |-> IF i = 0 THEN base ELSE ApplyOne(g[i - 1], batch[i])]
  <2>3. \A i \in 0..(k - 1) : g[i] = IF i = 0 THEN base ELSE ApplyOne(g[i - 1], batch[i])
    BY <2>2, Zenon DEF IsLoop
  <2>4. \A i \in 0..(k - 1) : f[i] = g[i]
    BY <2>1, <2>3, Zenon
  <2>5. \A i \in 0..k : i # 0 => f[i - 1] = g[i - 1]
    BY <2>1, <2>4, Zenon
  <2>6. f = [i \in 0..k |-> IF i = 0 THEN base ELSE ApplyOne(f[i - 1], batch[i])]
    <3>1. \A i \in 0..k : (IF i = 0 THEN base ELSE ApplyOne(g[i - 1], batch[i]))
                         = (IF i = 0 THEN base ELSE ApplyOne(f[i - 1], batch[i]))
      BY <2>5, Zenon
    <3> QED BY <3>1, Zenon
  <2>7. IsLoop(f, batch, k)
    BY <2>6, Zenon DEF IsLoop
  <2> QED BY <1>2, <2>7, Zenon
<1> QED BY <1>3, <1>4

LEMMA AppliedIsLoop ==
    ASSUME NEW batch, Len(batch) \in Nat
    PROVE  IsLoop(Applied(batch), batch, Len(batch))
<1>1. \E f : IsLoop(f, batch, Len(batch))
  BY LoopExists, Zenon
<1> QED BY <1>1, Zenon DEF IsLoop, Applied

\* f is what the map promises for the first n operations.
IsAfter(f, batch, n) ==
    f = [i \in 0..n |-> IF i = 0 THEN Unexpired ELSE Abstract!Effect(f[i - 1], batch[i])]

LEMMA AfterExists == ASSUME NEW batch, NEW n \in Nat PROVE \E f : IsAfter(f, batch, n)
<1> DEFINE Bad == {k \in Nat : ~\E f : IsAfter(f, batch, k)}
<1> SUFFICES ASSUME Bad # {} PROVE FALSE
  BY Zenon
<1>1. PICK k \in Bad : \A j \in Bad : k <= j
  <2>1. Bad \in SUBSET Nat
    BY Zenon
  <2> HIDE DEF Bad
  <2> QED BY <2>1, LeastNatural, Zenon
<1>2. k \in Nat /\ \A f : ~IsAfter(f, batch, k)
  BY Zenon
<1>3. CASE k = 0
  <2>1. \A i \in 0..0 : i = 0
    OBVIOUS
  <2> DEFINE f == [i \in 0..0 |-> Unexpired]
  <2>2. IsAfter(f, batch, 0)
    BY <2>1, Zenon DEF IsAfter
  <2> QED BY <1>2, <1>3, <2>2, Zenon
<1>4. CASE k # 0
  <2>1. /\ k - 1 \in Nat /\ ~(k <= k - 1) /\ \A i \in 0..k : i \in Nat
        /\ \A i \in 0..k : i # 0 => i - 1 \in 0..(k - 1) /\ i - 1 \in 0..k
        /\ \A i \in 0..(k - 1) : i \in 0..k
    BY <1>2, <1>4
  <2>2. PICK g : IsAfter(g, batch, k - 1)
    BY <1>1, <2>1, Zenon
  <2> DEFINE f == [i \in 0..k |-> IF i = 0 THEN Unexpired ELSE Abstract!Effect(g[i - 1], batch[i])]
  <2>3. \A i \in 0..(k - 1) : g[i] = IF i = 0 THEN Unexpired ELSE Abstract!Effect(g[i - 1], batch[i])
    BY <2>2, Zenon DEF IsAfter
  <2>4. \A i \in 0..(k - 1) : f[i] = g[i]
    BY <2>1, <2>3, Zenon
  <2>5. \A i \in 0..k : i # 0 => f[i - 1] = g[i - 1]
    BY <2>1, <2>4, Zenon
  <2>6. f = [i \in 0..k |-> IF i = 0 THEN Unexpired ELSE Abstract!Effect(f[i - 1], batch[i])]
    <3>1. \A i \in 0..k : (IF i = 0 THEN Unexpired ELSE Abstract!Effect(g[i - 1], batch[i]))
                         = (IF i = 0 THEN Unexpired ELSE Abstract!Effect(f[i - 1], batch[i]))
      BY <2>5, Zenon
    <3> QED BY <3>1, Zenon
  <2>7. IsAfter(f, batch, k)
    BY <2>6, Zenon DEF IsAfter
  <2> QED BY <1>2, <2>7, Zenon
<1> QED BY <1>3, <1>4

LEMMA AfterIsAfter ==
    ASSUME NEW batch, Len(batch) \in Nat
    PROVE  IsAfter(Abstract!After(batch), batch, Len(batch))
<1>1. \E f : IsAfter(f, batch, Len(batch))
  BY AfterExists, Zenon
<1> QED BY <1>1, Zenon DEF IsAfter, Abstract!After

\* A batch whose keys and times are in order.
IsBatch(batch) ==
    /\ Len(batch) \in Nat
    /\ \A i \in 1..Len(batch) :
        batch[i].ttl \in Int /\ (batch[i].type # "DELETE" => batch[i].key \in StoredKeys)

\* The operation finds what it needs.
Finds(m, op) == op.key # "" /\ (op.type = "DELETE" => op.key \in DOMAIN m)

\* A record of the loop, and what the map promises for it.
InLoop(acc) == DOMAIN acc = {"ok", "data"} /\ Holds(acc.data)

\* One turn of the loop does to the map what the operation promises.
LEMMA TurnHasEffect ==
    ASSUME NEW acc, InLoop(acc), NEW op, now \in Nat, op.ttl \in Int,
           op.type # "DELETE" => op.key \in StoredKeys
    PROVE  /\ InLoop(ApplyOne(acc, op))
           /\ ApplyOne(acc, op).ok => /\ acc.ok /\ Finds(acc.data, op)
                                      /\ ApplyOne(acc, op).data = Abstract!Effect(acc.data, op)
<1> DEFINE present == op.key \in DOMAIN acc.data
           expires == IF op.ttl < 0 /\ present THEN acc.data[op.key].expires
                                                ELSE ComputeExpiration(op.ttl)
           e == [value |-> op.value, expires |-> expires]
           r == ApplyOne(acc, op)
<1>1. expires \in Int
  <2>1. ComputeExpiration(op.ttl) \in Int
    BY DEF ComputeExpiration, Forever
  <2>2. present => acc.data[op.key].expires \in Int
    BY Zenon DEF InLoop, Holds, IsMap
  <2> QED BY <2>1, <2>2, Zenon
<1>2. ComputeExpiration(op.ttl) = Abstract!Until(op.ttl)
  BY Zenon DEF ComputeExpiration, Forever, Abstract!Until, Abstract!Forever
<1>3. CASE ~acc.ok \/ op.key = "" \/ (op.type = "DELETE" /\ ~present)
  <2>1. r = [acc EXCEPT !.ok = FALSE]
    BY <1>3, Zenon DEF ApplyOne
  <2>2. DOMAIN r = {"ok", "data"} /\ r.data = acc.data /\ r.ok = FALSE
    BY <2>1, Zenon DEF InLoop
  <2> QED BY <2>2, Zenon DEF InLoop
<1>4. CASE acc.ok /\ op.key # "" /\ op.type = "DELETE" /\ present
  <2>1. r = [acc EXCEPT !.data = Erased(acc.data, op.key)]
    BY <1>4, Zenon DEF ApplyOne
  <2>2. DOMAIN r = {"ok", "data"} /\ r.data = Erased(acc.data, op.key) /\ r.ok = acc.ok
    BY <2>1, Zenon DEF InLoop
  <2>3. r.data = Abstract!Effect(acc.data, op)
    BY <1>4, <2>2, Zenon DEF Abstract!Effect, Abstract!Without, Erased, Restrict, Abstract!Restrict
  <2> QED BY <1>4, <2>2, <2>3, ErasedHolds, Zenon DEF InLoop, Finds
<1>5. CASE acc.ok /\ op.key # "" /\ op.type # "DELETE"
  <2>1. r = [acc EXCEPT !.data = Stored(acc.data, op.key, e)]
    BY <1>5, Zenon DEF ApplyOne
  <2>2. DOMAIN r = {"ok", "data"} /\ r.data = Stored(acc.data, op.key, e) /\ r.ok = acc.ok
    BY <2>1, Zenon DEF InLoop
  <2>3. r.data = Abstract!Effect(acc.data, op)
    BY <1>2, <1>5, <2>2, Zenon DEF Abstract!Effect, Abstract!With, Stored
  <2>4. Holds(r.data)
    BY <1>1, <1>5, <2>2, StoredHolds, Zenon DEF InLoop
  <2> QED BY <1>5, <2>2, <2>3, <2>4, Zenon DEF InLoop, Finds
<1> QED BY <1>3, <1>4, <1>5, Zenon

\* After n turns the loop has what the map promises, or has failed.
Agrees(batch, n) ==
    /\ InLoop(Applied(batch)[n])
    /\ Applied(batch)[n].ok =>
        /\ Applied(batch)[n].data = Abstract!After(batch)[n]
        /\ \A i \in 1..n : Finds(Abstract!After(batch)[i - 1], batch[i])

LEMMA LoopAgrees ==
    ASSUME NEW batch, IsBatch(batch), Holds(data), now \in Nat
    PROVE  \A n \in 0..Len(batch) : Agrees(batch, n)
<1> DEFINE A == Applied(batch)
           E == Abstract!After(batch)
           base == [ok |-> TRUE, data |-> Pruned(data)]
           Bad == {n \in 0..Len(batch) : ~Agrees(batch, n)}
<1>l. Len(batch) \in Nat
  BY Zenon DEF IsBatch
<1>a. \A n \in 0..Len(batch) : A[n] = IF n = 0 THEN base ELSE ApplyOne(A[n - 1], batch[n])
  BY <1>l, AppliedIsLoop, Zenon DEF IsLoop
<1>e. \A n \in 0..Len(batch) : E[n] = IF n = 0 THEN Unexpired
                                      ELSE Abstract!Effect(E[n - 1], batch[n])
  BY <1>l, AfterIsAfter, Zenon DEF IsAfter
<1> SUFFICES ASSUME Bad # {} PROVE FALSE
  BY Zenon
<1>1. PICK k \in Bad : \A j \in Bad : k <= j
  <2>1. Bad \in SUBSET Nat
    BY <1>l
  <2> HIDE DEF Bad
  <2> QED BY <2>1, LeastNatural, Zenon
<1>2. k \in 0..Len(batch) /\ ~Agrees(batch, k)
  BY Zenon
<1>3. CASE k = 0
  <2>1. A[0] = base /\ E[0] = Unexpired
    BY <1>a, <1>e, <1>2, <1>3, Zenon
  <2>2. base.data = Pruned(data) /\ DOMAIN base = {"ok", "data"} /\ Holds(Pruned(data))
    BY PrunedHolds, Zenon
  <2>3. Pruned(data) = Unexpired
    BY PrunedIsLive, UnexpiredIsLive, Zenon DEF Holds
  <2>4. \A i \in 1..0 : FALSE
    OBVIOUS
  <2>5. Agrees(batch, 0)
    BY <2>1, <2>2, <2>3, <2>4, Zenon DEF Agrees, InLoop
  <2> QED BY <1>2, <1>3, <2>5, Zenon
<1>4. CASE k # 0
  <2>1. /\ k - 1 \in 0..Len(batch) /\ ~(k <= k - 1) /\ k \in 1..Len(batch)
        /\ \A i \in 1..k : i \in 1..(k - 1) \/ i = k
    BY <1>2, <1>4, <1>l
  <2>2. Agrees(batch, k - 1)
    BY <1>1, <2>1, Zenon
  <2>3. /\ A[k] = ApplyOne(A[k - 1], batch[k]) /\ E[k] = Abstract!Effect(E[k - 1], batch[k])
    BY <1>a, <1>e, <1>2, <1>4, Zenon
  <2>4. batch[k].ttl \in Int /\ (batch[k].type # "DELETE" => batch[k].key \in StoredKeys)
    BY <2>1, Zenon DEF IsBatch
  <2>5. /\ InLoop(A[k])
        /\ A[k].ok => /\ A[k - 1].ok /\ Finds(A[k - 1].data, batch[k])
                      /\ A[k].data = Abstract!Effect(A[k - 1].data, batch[k])
    <3>1. InLoop(A[k - 1])
      BY <2>2, Zenon DEF Agrees
    <3> HIDE DEF A
    <3> QED BY <2>3, <2>4, <3>1, TurnHasEffect
  <2>6. Agrees(batch, k)
    BY <2>1, <2>2, <2>3, <2>5, Zenon DEF Agrees
  <2> QED BY <1>2, <2>6, Zenon
<1> QED BY <1>3, <1>4

\* A batch that succeeds is applied as promised; one that fails leaves the
\* pruned map.
LEMMA BatchAsPromised ==
    ASSUME NEW batch, IsBatch(batch), Holds(data), now \in Nat
    PROVE  /\ Holds(ApplyBatch(batch).data)
           /\ ApplyBatch(batch).ok =>
                /\ Abstract!Succeeds(batch)
                /\ ApplyBatch(batch).data = Abstract!After(batch)[Len(batch)]
           /\ ~ApplyBatch(batch).ok \/ Len(batch) = 0 => ApplyBatch(batch).data = Pruned(data)
<1> DEFINE A == Applied(batch)
           last == A[Len(batch)]
           r == ApplyBatch(batch)
           failed == [ok |-> FALSE, data |-> Pruned(data)]
<1>1. Len(batch) \in Nat /\ Len(batch) \in 0..Len(batch)
  BY DEF IsBatch
<1>2. Agrees(batch, Len(batch))
  BY <1>1, LoopAgrees, Zenon
<1>3. failed.ok = FALSE /\ failed.data = Pruned(data) /\ Holds(failed.data)
  BY PrunedHolds, Zenon
<1>4. CASE last.ok
  <2>1. r = last
    BY <1>4, Zenon DEF ApplyBatch
  <2>2. Abstract!Succeeds(batch)
    BY <1>2, <1>4, Zenon DEF Agrees, Finds, Abstract!Succeeds
  <2>3. Len(batch) = 0 => last.data = Pruned(data)
    <3>1. Len(batch) = 0 => last = [ok |-> TRUE, data |-> Pruned(data)]
      BY <1>1, AppliedIsLoop, Zenon DEF IsLoop
    <3>2. [ok |-> TRUE, data |-> Pruned(data)].data = Pruned(data)
      BY Zenon
    <3> QED BY <3>1, <3>2
  <2> QED BY <1>2, <1>4, <2>1, <2>2, <2>3, Zenon DEF Agrees, InLoop
<1>5. CASE ~last.ok
  <2>1. r = failed
    BY <1>5, Zenon DEF ApplyBatch
  <2> QED BY <1>3, <2>1, Zenon
<1> QED BY <1>4, <1>5

----------------------------------------------------------------------------
(* The map, what the threads hold of it, and the files. *)

\* The calls to come of thread t, and the entries it has to write.
TodoOk(t) ==
    /\ DOMAIN th[t] = ThreadFields
    /\ th[t].todo \in Seq(AllCalls)
    /\ th[t].pc # "idle" => th[t].todo # <<>>
    /\ th[t].pc = "found" => Call(t).op = "delete"
    /\ th[t].pc \in {"open", "write"} => Holds(th[t].entries)

TodoInv == DOMAIN th = Threads /\ \A t \in Threads : TodoOk(t)

\* Only the entries of maps the store had are on file.
FilesHold ==
    /\ DOMAIN file = Backends
    /\ \A b \in Backends : file[b].state = "whole" =>
            \E m : Holds(m) /\ file[b].items = ToItems(m)

StoreFields == {"up", "backend", "loads", "crashes", "aborted"}

DataInv == /\ Holds(data) /\ now \in Nat /\ DOMAIN store = StoreFields
           /\ TodoInv /\ FilesHold

\* No thread begins to write, and those that write go on with the same.
WritersStay ==
    \A u \in Threads : th'[u].pc = "write" =>
        /\ th[u].pc = "write" /\ th'[u].to = th[u].to
        /\ th'[u].alone = th[u].alone /\ th'[u].entries = th[u].entries

LEMMA RestingFields ==
    \A todo : /\ DOMAIN Resting(todo) = ThreadFields
             /\ Resting(todo).pc = "idle" /\ Resting(todo).todo = todo
BY Zenon DEF Resting, ThreadFields

LEMMA TodoReturned ==
    ASSUME TodoInv, NEW t \in Threads, th[t].todo # <<>>, Return(t)
    PROVE  TodoInv' /\ WritersStay
<1> DEFINE r == Resting(Tail(th[t].todo))
<1>1. DOMAIN th = Threads /\ th[t].todo \in Seq(AllCalls)
  BY Zenon DEF TodoInv, TodoOk
<1>2. Tail(th[t].todo) \in Seq(AllCalls)
  BY <1>1
<1>3. r.pc = "idle" /\ r.todo = Tail(th[t].todo) /\ DOMAIN r = ThreadFields
  BY RestingFields, Zenon
<1>4. th' = [th EXCEPT ![t] = r]
  BY Zenon DEF Return
<1> HIDE DEF r
<1>5. DOMAIN th' = Threads /\ th'[t] = r /\ \A u \in Threads \ {t} : th'[u] = th[u]
  BY <1>1, <1>4, Zenon
<1>6. TodoOk(t)'
  BY <1>2, <1>3, <1>5, Zenon DEF TodoOk
<1>7. ASSUME NEW u \in Threads, u # t PROVE TodoOk(u)'
  BY <1>5, <1>7, Zenon DEF TodoInv, TodoOk, Call
<1>8. TodoInv'
  BY <1>5, <1>6, <1>7, Zenon DEF TodoInv
<1> QED BY <1>3, <1>5, <1>8, Zenon DEF WritersStay

LEMMA TodoWentOn ==
    ASSUME TodoInv, NEW t \in Threads, th[t].todo # <<>>,
           NEW r, th' = [th EXCEPT ![t] = r], DOMAIN r = ThreadFields, r.todo = th[t].todo,
           r.pc # "write", r.pc = "found" => Call(t).op = "delete",
           r.pc = "open" => Holds(r.entries)
    PROVE  TodoInv' /\ WritersStay
<1>1. DOMAIN th = Threads /\ th[t].todo \in Seq(AllCalls)
  BY Zenon DEF TodoInv, TodoOk
<1>2. DOMAIN th' = Threads /\ th'[t] = r /\ \A u \in Threads \ {t} : th'[u] = th[u]
  BY <1>1, Zenon
<1>3. TodoOk(t)'
  BY <1>1, <1>2, Zenon DEF TodoOk, Call
<1>4. ASSUME NEW u \in Threads, u # t PROVE TodoOk(u)'
  BY <1>2, <1>4, Zenon DEF TodoInv, TodoOk, Call
<1>5. TodoInv'
  BY <1>2, <1>3, <1>4, Zenon DEF TodoInv
<1> QED BY <1>2, <1>5, Zenon DEF WritersStay

LEMMA TodoSame == ASSUME TodoInv, th' = th PROVE TodoInv' /\ WritersStay
<1>1. \A t \in Threads : TodoOk(t)'
  BY Zenon DEF TodoInv, TodoOk, Call
<1> QED BY <1>1, Zenon DEF TodoInv, WritersStay

LEMMA TodoEnds ==
    ASSUME TodoInv, NEW aborting, Ends(aborting),
           \A t \in aborting \cap Threads : th[t].todo # <<>>
    PROVE  TodoInv' /\ WritersStay
<1>1. ASSUME NEW t \in Threads PROVE TodoOk(t)' /\ th'[t].pc = "idle"
  <2>1. th[t].todo \in Seq(AllCalls) /\ (th[t].pc # "idle" => th[t].todo # <<>>)
    BY Zenon DEF TodoInv, TodoOk
  <2>2. \/ th'[t] = Resting(th[t].todo)
        \/ th'[t] = Resting(Tail(th[t].todo)) /\ th[t].todo # <<>>
    BY <2>1, Zenon DEF Ends
  <2>3. th[t].todo # <<>> => Tail(th[t].todo) \in Seq(AllCalls)
    BY <2>1
  <2>4. \E todo \in Seq(AllCalls) : th'[t] = Resting(todo)
    BY <2>1, <2>2, <2>3, Zenon
  <2> QED BY <2>4, RestingFields, Zenon DEF TodoOk
<1>2. DOMAIN th' = Threads
  BY Zenon DEF Ends
<1> QED BY <1>1, <1>2, Zenon DEF TodoInv, WritersStay

\* Entries come back from their items.
LEMMA ItemsComeBack ==
    ASSUME NEW m, IsMap(m)
    PROVE  /\ FromItems(ToItems(m)) = m
           /\ \A n \in DOMAIN ToItems(m) : n[2] \in DOMAIN m
<1> DEFINE timed == {k \in DOMAIN m : m[k].expires # Forever}
           D == {<<"value", k>> : k \in DOMAIN m} \union {<<"ttl", k>> : k \in timed}
           I == ToItems(m)
<1>1. /\ DOMAIN I = D
      /\ \A n \in D : I[n] = IF n[1] = "value" THEN m[n[2]].value ELSE m[n[2]].expires
  BY Zenon DEF ToItems
<1>2. \A k : <<"value", k>>[1] = "value" /\ <<"value", k>>[2] = k
             /\ <<"ttl", k>>[1] = "ttl" /\ <<"ttl", k>>[2] = k
  OBVIOUS
<1>3. \A k : <<"value", k>> \in D <=> k \in DOMAIN m
  BY <1>2, Zenon
<1>4. \A k : <<"ttl", k>> \in D <=> k \in timed
  BY <1>2, Zenon
<1>5. \A n \in D : n[2] \in DOMAIN m
  <2> SUFFICES ASSUME NEW n \in D PROVE n[2] \in DOMAIN m
    OBVIOUS
  <2>1. PICK k \in DOMAIN m : n = <<"value", k>> \/ n = <<"ttl", k>>
    BY Zenon
  <2> QED BY <2>1
<1>6. \A k \in DOMAIN m : I[<<"value", k>>] = m[k].value
  BY <1>1, <1>2, <1>3, Zenon
<1>7. \A k \in timed : I[<<"ttl", k>>] = m[k].expires
  <2>1. "ttl" # "value"
    OBVIOUS
  <2> QED BY <1>1, <1>2, <1>4, <2>1, Zenon
<1> HIDE DEF D, I
<1>8. {n[2] : n \in {x \in D : x[1] = "value"}} = DOMAIN m
  <2>1. \A k \in DOMAIN m : <<"value", k>> \in {x \in D : x[1] = "value"}
    BY <1>2, <1>3, Zenon
  <2>2. \A k \in DOMAIN m : k \in {n[2] : n \in {x \in D : x[1] = "value"}}
    BY <1>2, <2>1, ZenonT(30)
  <2>3. \A k \in {n[2] : n \in {x \in D : x[1] = "value"}} : k \in DOMAIN m
    BY <1>5, Zenon
  <2> QED BY <2>2, <2>3, Zenon
<1>9. \A k \in DOMAIN m : m[k] = [value |-> I[<<"value", k>>],
            expires |-> IF <<"ttl", k>> \in D THEN I[<<"ttl", k>>] ELSE Forever]
  <2> SUFFICES ASSUME NEW k \in DOMAIN m
               PROVE  m[k] = [value |-> I[<<"value", k>>],
                    expires |-> IF <<"ttl", k>> \in D THEN I[<<"ttl", k>>] ELSE Forever]
    OBVIOUS
  <2>1. m[k].expires = IF <<"ttl", k>> \in D THEN I[<<"ttl", k>>] ELSE Forever
    BY <1>4, <1>7, Zenon
  <2>2. m[k] = [value |-> m[k].value, expires |-> m[k].expires]
    BY Zenon DEF IsMap
  <2> QED BY <1>6, <2>1, <2>2, Zenon
<1>10. m = [k \in DOMAIN m |-> m[k]]
  BY Zenon DEF IsMap
<1>11. FromItems(I) = [k \in DOMAIN m |-> m[k]]
  BY <1>1, <1>8, <1>9, Zenon DEF FromItems
<1> QED BY <1>1, <1>5, <1>10, <1>11, Zenon DEF I

MapStep == [Abstract!MapNext]_(Abstract!mapVars)

\* A step that leaves the map, prunes it, or puts another in its place.
LEMMA MapStays ==
    ASSUME data' = data, now' = now, store'.loads = store.loads PROVE MapStep
<1>1. Unexpired' = Unexpired
  BY Zenon DEF Unexpired
<1> QED BY <1>1, Zenon DEF MapStep, Abstract!mapVars

LEMMA MapPruned ==
    ASSUME Holds(data), now \in Nat, data' = Pruned(data), now' = now,
           store'.loads = store.loads
    PROVE  Holds(data') /\ MapStep
<1>1. Pruned(data) = Abstract!Live(data, now)
  BY PrunedIsLive, Zenon DEF Holds
<1>2. Abstract!Live(Abstract!Live(data, now), now) = Abstract!Live(data, now)
  <2>1. now <= now
    OBVIOUS
  <2> QED BY <2>1, LiveAgain DEF Holds
<1>3. Unexpired' = Unexpired
  BY <1>1, <1>2, UnexpiredIsLive, UnexpiredIsLiveNext
<1> QED BY <1>3, PrunedHolds, Zenon DEF MapStep, Abstract!mapVars

LEMMA MapReplaced ==
    ASSUME Holds(data)', now \in Nat, now' = now, store'.loads = store.loads + 1
    PROVE  MapStep
<1>1. now <= now
  OBVIOUS
<1>2. Abstract!Live(Abstract!Live(data', now), now) = Abstract!Live(data', now)
  <2>1. IsMap(data')
    BY Zenon DEF Holds, IsMap
  <2> QED BY <1>1, <2>1, LiveAgain
<1>3. Unexpired' = Abstract!Live(Unexpired', now)
  BY <1>2, UnexpiredIsLiveNext
<1> QED BY <1>3, Zenon DEF MapStep, Abstract!MapNext, Abstract!Replace

\* A thread goes on, in a call it is in or begins.
LEMMA InCall ==
    ASSUME TodoInv, NEW t \in Threads, th[t].pc # "idle" \/ \E op : Calls(t, op)
    PROVE  th[t].todo # <<>> /\ Call(t) \in AllCalls
<1>1. th[t].todo # <<>> /\ th[t].todo \in Seq(AllCalls)
  BY Zenon DEF TodoInv, TodoOk, Calls
<1>2. Head(th[t].todo) \in AllCalls
  BY <1>1
<1> QED BY <1>1, <1>2 DEF Call

\* The steps of thread t that open no file and do not end the process.
LEMMA TodoGoesOn ==
    ASSUME DataInv, NEW t \in Threads,
           \/ KvDeleteFind(t) \/ KvApply(t) \/ NotifyCopy(t) \/ NotifyCall(t)
           \/ KvCompareAndSwap(t) \/ KvGet(t) \/ ImportSnapshot(t)
           \/ RegisterSink(t) \/ ExportForSink(t) \/ GiveSnapshot(t) \/ UnregisterSink(t)
           \/ KvFlush(t) \/ ExportForFlush(t) \/ FlushClose(t) \/ FlushFails(t)
           \/ (SetBackend(t) /\ ~Ends({t})) \/ SwitchBackend(t)
           \/ StartCompaction(t) \/ StopCompaction(t) \/ StopJoined(t)
    PROVE  TodoInv' /\ WritersStay
<1> DEFINE Goal == TodoInv' /\ WritersStay
<1>i. TodoInv /\ Holds(data) /\ DOMAIN th[t] = ThreadFields
  BY Zenon DEF DataInv, TodoInv, TodoOk
<1>c. th[t].pc # "idle" \/ (\E op : Calls(t, op)) => th[t].todo # <<>>
  BY <1>i, InCall, Zenon
<1>r. Return(t) /\ th[t].todo # <<>> => Goal
  BY <1>i, TodoReturned, Zenon
<1>g. ASSUME NEW r, th' = [th EXCEPT ![t] = r], DOMAIN r = ThreadFields, r.todo = th[t].todo,
             th[t].todo # <<>>, r.pc # "write", r.pc = "found" => Call(t).op = "delete",
             r.pc = "open" => Holds(r.entries)
      PROVE  Goal
  BY <1>g, <1>i, TodoWentOn, Zenon
<1> HIDE DEF Goal
<1>1. CASE KvDeleteFind(t)
  <2>1. th[t].todo # <<>> /\ Call(t).op = "delete" /\ (Return(t) \/ Goto(t, "found"))
    BY <1>1, <1>c, Zenon DEF KvDeleteFind, Calls
  <2> DEFINE r == [th[t] EXCEPT !.pc = "found"]
  <2>2. Goto(t, "found") => /\ th' = [th EXCEPT ![t] = r] /\ DOMAIN r = ThreadFields
                            /\ r.todo = th[t].todo /\ r.pc = "found"
    BY <1>i, Zenon DEF Goto, ThreadFields
  <2> HIDE DEF r
  <2> QED BY <1>r, <1>g, <2>1, <2>2, Zenon DEF Goal
<1>2. CASE KvApply(t)
  <2>1. th[t].todo # <<>>
    BY <1>2, <1>c, Zenon DEF KvApply, At
  <2> DEFINE r == [th[t] EXCEPT !.pc = "notify", !.n = repl.commits + 1]
  <2>2. Return(t) \/ th' = [th EXCEPT ![t] = r]
    BY <1>2, Zenon DEF KvApply
  <2>3. DOMAIN r = ThreadFields /\ r.todo = th[t].todo /\ r.pc = "notify"
    BY <1>i, Zenon DEF ThreadFields
  <2> HIDE DEF r
  <2> QED BY <1>r, <1>g, <2>1, <2>2, <2>3, Zenon DEF Goal
<1>3. CASE NotifyCopy(t)
  <2>1. th[t].todo # <<>>
    BY <1>3, <1>c, Zenon DEF NotifyCopy, At
  <2> DEFINE r == [th[t] EXCEPT !.pc = "call", !.sinks = repl.registered]
  <2>2. Return(t) \/ th' = [th EXCEPT ![t] = r]
    BY <1>3, Zenon DEF NotifyCopy
  <2>3. DOMAIN r = ThreadFields /\ r.todo = th[t].todo /\ r.pc = "call"
    BY <1>i, Zenon DEF ThreadFields
  <2> HIDE DEF r
  <2> QED BY <1>r, <1>g, <2>1, <2>2, <2>3, Zenon DEF Goal
<1>4. CASE NotifyCall(t)
  <2>1. th[t].todo # <<>> /\ th[t].pc = "call"
    BY <1>4, <1>c, Zenon DEF NotifyCall, At
  <2> DEFINE r == [th[t] EXCEPT !.sinks = Tail(th[t].sinks)]
  <2>2. Return(t) \/ th' = [th EXCEPT ![t] = r]
    BY <1>4, Zenon DEF NotifyCall
  <2>3. DOMAIN r = ThreadFields /\ r.todo = th[t].todo /\ r.pc = "call"
    BY <1>i, <2>1, Zenon DEF ThreadFields
  <2> HIDE DEF r
  <2> QED BY <1>r, <1>g, <2>1, <2>2, <2>3, Zenon DEF Goal
<1>5. CASE \/ KvCompareAndSwap(t) \/ KvGet(t) \/ ImportSnapshot(t) \/ GiveSnapshot(t)
           \/ UnregisterSink(t) \/ FlushClose(t) \/ FlushFails(t) \/ SwitchBackend(t)
           \/ StartCompaction(t) \/ StopJoined(t)
  <2>1. Return(t) /\ (th[t].pc # "idle" \/ \E op : Calls(t, op))
    BY <1>5, Zenon DEF KvCompareAndSwap, KvGet, ImportSnapshot, GiveSnapshot, UnregisterSink,
       FlushClose, FlushFails, SwitchBackend, StartCompaction, StopJoined, At
  <2> QED BY <1>c, <1>r, <2>1, Zenon DEF Goal
<1>6. CASE RegisterSink(t)
  <2>1. th[t].todo # <<>> /\ (Return(t) \/ Goto(t, "export"))
    BY <1>6, <1>c, Zenon DEF RegisterSink
  <2> DEFINE r == [th[t] EXCEPT !.pc = "export"]
  <2>2. Goto(t, "export") => /\ th' = [th EXCEPT ![t] = r] /\ DOMAIN r = ThreadFields
                             /\ r.todo = th[t].todo /\ r.pc = "export"
    BY <1>i, Zenon DEF Goto, ThreadFields
  <2> HIDE DEF r
  <2> QED BY <1>r, <1>g, <2>1, <2>2, Zenon DEF Goal
<1>7. ASSUME NEW pc \in {"give", "open"}, Export(t, pc), th[t].todo # <<>> PROVE Goal
  <2> DEFINE r == [th[t] EXCEPT !.pc = pc, !.entries = data', !.n = repl.commits]
  <2>1. th' = [th EXCEPT ![t] = r] /\ DOMAIN r = ThreadFields /\ r.todo = th[t].todo
        /\ r.pc = pc /\ r.entries = data'
    BY <1>i, <1>7, Zenon DEF Export, ThreadFields
  <2>2. Holds(data')
    BY <1>i, <1>7, PrunedHolds, Zenon DEF Export
  <2>3. pc # "write" /\ pc # "found"
    BY <1>7, Zenon
  <2> HIDE DEF r
  <2> QED BY <1>g, <1>7, <2>1, <2>2, <2>3, Zenon
<1>8. CASE ExportForSink(t) \/ ExportForFlush(t)
  <2>1. th[t].todo # <<>> /\ (Export(t, "give") \/ Export(t, "open"))
    BY <1>8, <1>c, Zenon DEF ExportForSink, ExportForFlush, At
  <2> QED BY <1>7, <2>1, Zenon DEF Goal
<1>9. CASE KvFlush(t)
  <2> DEFINE r == [th[t] EXCEPT !.pc = "export_file"]
  <2>1. /\ th' = [th EXCEPT ![t] = r] /\ DOMAIN r = ThreadFields /\ r.todo = th[t].todo
        /\ r.pc = "export_file" /\ th[t].todo # <<>>
    BY <1>9, <1>i, <1>c, Zenon DEF KvFlush, Goto, ThreadFields
  <2> HIDE DEF r
  <2> QED BY <1>g, <2>1, Zenon DEF Goal
<1>10. CASE StopCompaction(t)
  <2> DEFINE r == [th[t] EXCEPT !.pc = "join",
                                !.n = IF comp.active THEN Len(comp.worker) ELSE 0]
  <2>1. /\ th' = [th EXCEPT ![t] = r] /\ DOMAIN r = ThreadFields /\ r.todo = th[t].todo
        /\ r.pc = "join" /\ th[t].todo # <<>>
    BY <1>10, <1>i, <1>c, Zenon DEF StopCompaction, ThreadFields
  <2> HIDE DEF r
  <2> QED BY <1>g, <2>1, Zenon DEF Goal
<1>11. CASE SetBackend(t) /\ ~Ends({t})
  <2> DEFINE r == [th[t] EXCEPT !.pc = "switch", !.to = LoadBackend(Call(t).backend)]
  <2>1. /\ th' = [th EXCEPT ![t] = r] /\ DOMAIN r = ThreadFields /\ r.todo = th[t].todo
        /\ r.pc = "switch" /\ th[t].todo # <<>>
    BY <1>11, <1>i, <1>c, Zenon DEF SetBackend, ThreadFields
  <2> HIDE DEF r
  <2> QED BY <1>g, <2>1, Zenon DEF Goal
<1> QED BY <1>1, <1>2, <1>3, <1>4, <1>5, <1>6, <1>8, <1>9, <1>10, <1>11, Zenon DEF Goal

\* Thread t opens the location of the backend, and nobody is alone with it.
Opens(t) ==
    /\ ~(store.backend = "SQLITE" /\ Writers(store.backend) # {})
    /\ th[t].pc = "open"
    /\ th'[t].pc = "write" /\ th'[t].to = store.backend /\ th'[t].entries = th[t].entries
    /\ th'[t].alone = (Writers(store.backend) = {})
    /\ \A u \in Threads \ {t} :
        /\ th'[u].pc = th[u].pc /\ th'[u].to = th[u].to /\ th'[u].entries = th[u].entries
        /\ u \in Writers(store.backend) => th'[u].alone = FALSE
        /\ u \notin Writers(store.backend) => th'[u].alone = th[u].alone

LEMMA TodoOpens ==
    ASSUME TodoInv, NEW t \in Threads, FlushOpen(t)
    PROVE  /\ TodoInv'
           /\ \/ WritersStay /\ UNCHANGED <<file, durable>>
              \/ /\ Opens(t)
                 /\ IF store.backend = "SQLITE" THEN UNCHANGED <<file, durable>>
                    ELSE /\ file' = [file EXCEPT ![store.backend] = Torn]
                         /\ durable' = [durable EXCEPT ![store.backend] = Unknown]
<1> DEFINE b == store.backend
           others == Writers(store.backend)
           r == [th[t] EXCEPT !.pc = "write", !.to = b, !.alone = others = {}]
<1>1. /\ th[t].pc = "open" /\ th[t].todo # <<>> /\ DOMAIN th = Threads
      /\ \A u \in Threads : DOMAIN th[u] = ThreadFields
  BY Zenon DEF TodoInv, TodoOk, FlushOpen, At
<1>2. CASE b = "SQLITE" /\ others # {}
  BY <1>1, <1>2, TodoReturned, Zenon DEF FlushOpen
<1>3. CASE ~(b = "SQLITE" /\ others # {})
  <2>1. /\ th' = [u \in Threads |-> CASE u = t -> r
                                     [] u \in others -> [th[u] EXCEPT !.alone = FALSE]
                                     [] OTHER -> th[u]]
        /\ IF b = "SQLITE" THEN UNCHANGED <<file, durable>>
           ELSE /\ file' = [file EXCEPT ![b] = Torn]
                /\ durable' = [durable EXCEPT ![b] = Unknown]
    BY <1>3, Zenon DEF FlushOpen
  <2>2. /\ r.pc = "write" /\ r.todo = th[t].todo /\ DOMAIN r = ThreadFields
        /\ r.to = b /\ r.alone = (others = {}) /\ r.entries = th[t].entries
    BY <1>1, Zenon DEF ThreadFields
  <2>3. t \notin others
    BY <1>1, Zenon DEF Writers
  <2> HIDE DEF r, others, b
  <2>4. th'[t] = r /\ DOMAIN th' = Threads
    BY <2>1, <2>3
  <2>5. ASSUME NEW u \in Threads, u # t
        PROVE  /\ u \in others => th'[u] = [th[u] EXCEPT !.alone = FALSE]
               /\ u \notin others => th'[u] = th[u]
    BY <2>1, <2>5
  <2>6. ASSUME NEW u \in Threads, u # t
        PROVE  /\ DOMAIN th'[u] = ThreadFields /\ th'[u].pc = th[u].pc
               /\ th'[u].todo = th[u].todo /\ th'[u].to = th[u].to
               /\ th'[u].entries = th[u].entries
               /\ u \in others => th'[u].alone = FALSE
               /\ u \notin others => th'[u].alone = th[u].alone
    <3>1. DOMAIN th[u] = ThreadFields
      BY <1>1, Zenon
    <3>2. CASE u \in others
      BY <2>5, <2>6, <3>1, <3>2, Zenon DEF ThreadFields
    <3>3. CASE u \notin others
      BY <2>5, <2>6, <3>1, <3>3, Zenon
    <3> QED BY <3>2, <3>3, Zenon
  <2>7. TodoOk(t)'
    BY <1>1, <2>2, <2>4, Zenon DEF TodoInv, TodoOk
  <2>8. ASSUME NEW u \in Threads, u # t PROVE TodoOk(u)'
    BY <2>6, <2>8, ZenonT(30) DEF TodoInv, TodoOk, Call
  <2>9. TodoInv'
    BY <2>4, <2>7, <2>8, Zenon DEF TodoInv
  <2>10. Opens(t)
    BY <1>1, <1>3, <2>2, <2>4, <2>6, Zenon DEF Opens, b, others
  <2> QED BY <2>1, <2>9, <2>10, Zenon DEF b
<1> QED BY <1>2, <1>3

LEMMA QuietData ==
    ASSUME DataInv, TodoInv', data' = data \/ data' = Pruned(data), now' = now,
           store' = store, file' = file
    PROVE  DataInv' /\ MapStep
<1>1. Holds(data') /\ MapStep
  BY MapStays, MapPruned, Zenon DEF DataInv
<1> QED BY <1>1, Zenon DEF DataInv, FilesHold

LEMMA ReplacedData ==
    ASSUME DataInv, TodoInv', Holds(data'), now' = now, DOMAIN store' = StoreFields,
           store'.loads = store.loads + 1, file' = file
    PROVE  DataInv' /\ MapStep
<1>1. Holds(data)'
  BY Zenon DEF Holds, IsMap
<1>2. MapStep
  BY <1>1, MapReplaced, Zenon DEF DataInv
<1> QED BY <1>2, Zenon DEF DataInv, FilesHold

\* kv_apply does to the map what the batch promises, or nothing.
LEMMA ApplyData ==
    ASSUME DataInv, NEW t \in Threads, KvApply(t) PROVE DataInv' /\ MapStep
<1> DEFINE batch == IF th[t].pc = "found"
                    THEN <<[type |-> "DELETE", key |-> Call(t).key, ttl |-> -1]>>
                    ELSE Call(t).batch
           Batches == {c.batch : c \in {d \in AllCalls : d.op = "apply"}}
                      \union {<<[type |-> "DELETE", key |-> c.key, ttl |-> -1]>> :
                                    c \in {d \in AllCalls : d.op = "delete"}}
           r == ApplyBatch(batch)
<1>1. TodoInv /\ TodoInv' /\ Holds(data) /\ now \in Nat
  BY TodoGoesOn, Zenon DEF DataInv
<1>2. data' = r.data /\ now' = now /\ store' = store /\ file' = file
  BY Zenon DEF KvApply
<1>3. Call(t) \in AllCalls
  BY <1>1, InCall, Zenon DEF KvApply, At
<1>4. IsBatch(batch) /\ batch \in Batches
  <2>1. CASE th[t].pc = "found"
    <3>1. Call(t).op = "delete"
      BY <1>1, <2>1, Zenon DEF TodoInv, TodoOk
    <3> DEFINE d == [type |-> "DELETE", key |-> Call(t).key, ttl |-> -1]
    <3>2. d.type = "DELETE" /\ d.ttl \in Int /\ batch = <<d>>
      BY <2>1
    <3> HIDE DEF d
    <3>3. Len(<<d>>) = 1 /\ <<d>>[1] = d /\ \A i \in 1..1 : i = 1
      OBVIOUS
    <3>4. IsBatch(<<d>>)
      BY <3>2, <3>3 DEF IsBatch
    <3> QED BY <1>3, <3>1, <3>2, <3>4, Zenon DEF d
  <2>2. CASE th[t].pc # "found"
    <3>1. Call(t).op = "apply" /\ batch = Call(t).batch
      BY <2>2, Zenon DEF KvApply, Calls, At
    <3> DEFINE c == Call(t)
    <3>2. c.batch \in Seq(Range(c.batch)) /\ \A i \in DOMAIN c.batch : c.batch[i].ttl \in Int
      BY <1>3, <3>1, CallsAssumption, Zenon
    <3>3. Len(c.batch) \in Nat /\ DOMAIN c.batch = 1..Len(c.batch)
      BY <3>2
    <3>4. \A i \in DOMAIN c.batch : c.batch[i].key \in StoredKeys
      <4> DEFINE Keys(d) == {d.batch[i].key : i \in DOMAIN d.batch}
      <4>1. Keys(c) \in {Keys(d) : d \in {x \in AllCalls : x.op = "apply"}}
        BY <1>3, <3>1, Zenon
      <4>2. UNION {Keys(d) : d \in {x \in AllCalls : x.op = "apply"}} \subseteq StoredKeys
        BY Zenon DEF StoredKeys
      <4>3. \A i \in DOMAIN c.batch : c.batch[i].key \in Keys(c)
        BY Zenon
      <4> HIDE DEF Keys, c
      <4> QED BY <4>1, <4>2, <4>3, Zenon
    <3>5. IsBatch(c.batch)
      BY <3>2, <3>3, <3>4, Zenon DEF IsBatch
    <3> QED BY <1>3, <3>1, <3>5, Zenon
  <2> QED BY <2>1, <2>2
<1> HIDE DEF batch, Batches
<1>5. /\ Holds(r.data)
      /\ r.ok => Abstract!Succeeds(batch) /\ r.data = Abstract!After(batch)[Len(batch)]
      /\ ~r.ok => r.data = Pruned(data)
  BY <1>1, <1>4, BatchAsPromised, Zenon
<1>6. CASE r.ok
  <2>1. Unexpired' = Abstract!Live(Abstract!After(batch)[Len(batch)], now)
    BY <1>2, <1>5, <1>6, UnexpiredIsLiveNext
  <2>2. Abstract!Apply(batch)
    BY <1>2, <1>5, <1>6, <2>1, Zenon DEF Abstract!Apply
  <2>3. Abstract!MapNext
    BY <1>4, <2>2, Zenon DEF Abstract!MapNext, Batches
  <2> QED BY <1>1, <1>2, <1>5, <2>3, Zenon DEF DataInv, FilesHold, MapStep
<1>7. CASE ~r.ok
  BY <1>1, <1>2, <1>5, <1>7, QuietData, Zenon
<1> QED BY <1>6, <1>7

\* The entries of an erased or stored key apart, a swap leaves the map pruned.
LEMMA SwapData ==
    ASSUME DataInv, NEW t \in Threads, KvCompareAndSwap(t) PROVE DataInv' /\ MapStep
<1> DEFINE c == Call(t)
           m == Pruned(data)
           e == [value |-> c.new, expires |-> ComputeExpiration(c.ttl)]
<1>1. TodoInv /\ TodoInv' /\ Holds(data) /\ now \in Nat
  BY TodoGoesOn, Zenon DEF DataInv
<1>2. /\ data' = IF c.key \notin DOMAIN m \/ m[c.key].value # c.expected THEN m
                 ELSE IF c.new = "" THEN Erased(m, c.key)
                 ELSE Stored(m, c.key, e)
      /\ now' = now /\ store' = store /\ file' = file /\ c.op = "swap"
  BY Zenon DEF KvCompareAndSwap, Calls
<1>3. c \in AllCalls
  BY <1>1, InCall, Zenon DEF KvCompareAndSwap
<1>4. c.ttl \in Int
  BY <1>2, <1>3, CallsAssumption, Zenon
<1>5. m = Unexpired /\ Holds(m)
  BY <1>1, PrunedIsLive, PrunedHolds, UnexpiredIsLive, Zenon DEF Holds
<1>6. ComputeExpiration(c.ttl) \in Int /\ ComputeExpiration(c.ttl) = Abstract!Until(c.ttl)
  BY <1>1, <1>4 DEF ComputeExpiration, Forever, Abstract!Until, Abstract!Forever
<1>7. CASE c.key \notin DOMAIN m \/ m[c.key].value # c.expected
  BY <1>1, <1>2, <1>7, QuietData, Zenon
<1>8. CASE ~(c.key \notin DOMAIN m \/ m[c.key].value # c.expected)
  <2>0. c.key \in StoredKeys
    BY <1>5, <1>8, Zenon DEF Holds
  <2>1. CASE c.new = ""
    <3>1. data' = Erased(m, c.key)
      BY <1>2, <1>8, <2>1, Zenon
    <3>2. Holds(data')
      BY <1>5, <3>1, ErasedHolds, Zenon
    <3>3. Unexpired' = Abstract!Without(Unexpired, c.key)
      <4> DEFINE w == Erased(m, c.key)
      <4>1. w = Abstract!Without(Unexpired, c.key)
        BY <1>5, Zenon DEF Erased, Abstract!Without, Restrict, Abstract!Restrict
      <4>2. /\ DOMAIN w = DOMAIN m \ {c.key} /\ w = [k \in DOMAIN w |-> w[k]]
            /\ \A k \in DOMAIN w : w[k] = m[k]
        BY Zenon DEF Erased, Restrict
      <4>3. \A k \in DOMAIN m : m[k].expires = Abstract!Forever \/ m[k].expires > now
        BY <1>5, UnexpiredIsLive, Zenon DEF Abstract!Live, Abstract!Restrict
      <4> HIDE DEF w, m
      <4>4. {k \in DOMAIN w : w[k].expires = Abstract!Forever \/ w[k].expires > now} = DOMAIN w
        BY <4>2, <4>3
      <4>5. Abstract!Live(w, now) = w
        <5> DEFINE S == {k \in DOMAIN w : w[k].expires = Abstract!Forever \/ w[k].expires > now}
        <5>1. Abstract!Live(w, now) = [k \in S |-> w[k]]
          BY Zenon DEF Abstract!Live, Abstract!Restrict
        <5> HIDE DEF S
        <5>2. S = DOMAIN w
          BY <4>4 DEF S
        <5> QED BY <4>2, <5>1, <5>2
      <4>6. data' = w
        BY <3>1 DEF w
      <4> QED BY <1>2, <4>1, <4>5, <4>6, UnexpiredIsLiveNext
    <3>4. Abstract!Swap(c)
      BY <1>2, <1>5, <1>8, <2>1, <3>3, Zenon DEF Abstract!Swap
    <3>5. Abstract!MapNext
      BY <1>2, <1>3, <3>4, Zenon DEF Abstract!MapNext
    <3> QED BY <1>1, <1>2, <3>2, <3>5, Zenon DEF DataInv, FilesHold, MapStep
  <2>2. CASE c.new # ""
    <3>1. data' = Stored(m, c.key, e)
      BY <1>2, <1>8, <2>2, Zenon
    <3>2. Holds(data')
      BY <1>5, <1>6, <2>0, <3>1, StoredHolds, Zenon
    <3>3. Stored(m, c.key, e) = Abstract!With(Unexpired, c.key,
                                    [value |-> c.new, expires |-> Abstract!Until(c.ttl)])
      BY <1>5, <1>6, Zenon DEF Stored, Abstract!With
    <3>4. Unexpired' = Abstract!Live(Abstract!With(Unexpired, c.key,
                                    [value |-> c.new, expires |-> Abstract!Until(c.ttl)]), now)
      BY <1>2, <3>1, <3>3, UnexpiredIsLiveNext
    <3>5. Abstract!Swap(c)
      BY <1>2, <1>5, <1>8, <2>2, <3>4, Zenon DEF Abstract!Swap
    <3>6. Abstract!MapNext
      BY <1>2, <1>3, <3>5, Zenon DEF Abstract!MapNext
    <3> QED BY <1>1, <1>2, <3>2, <3>6, Zenon DEF DataInv, FilesHold, MapStep
  <2> QED BY <2>1, <2>2
<1> QED BY <1>7, <1>8

\* What the other steps of a thread do to the map and the files.
LEMMA ThreadData ==
    ASSUME DataInv, NEW t \in Threads, Step(t) PROVE DataInv' /\ MapStep
<1>1. CASE KvApply(t)
  BY <1>1, ApplyData, Zenon
<1>2. CASE KvCompareAndSwap(t)
  BY <1>2, SwapData, Zenon
<1>3. CASE ImportSnapshot(t)
  <2>1. TodoInv' /\ TodoInv
    BY <1>3, TodoGoesOn, Zenon DEF DataInv
  <2>2. /\ data' = Call(t).entries /\ store' = [store EXCEPT !.loads = @ + 1]
        /\ now' = now /\ file' = file /\ Call(t).op = "import"
    BY <1>3, Zenon DEF ImportSnapshot, Calls
  <2>3. Call(t) \in AllCalls
    BY <1>3, <2>1, InCall, Zenon DEF ImportSnapshot
  <2>4. Holds(Call(t).entries)
    <3> DEFINE c == Call(t)
    <3>1. IsMap(c.entries)
      BY <2>2, <2>3, CallsAssumption, Zenon
    <3>2. DOMAIN c.entries \in {DOMAIN d.entries : d \in {x \in AllCalls : x.op = "import"}}
      BY <2>2, <2>3, Zenon
    <3>3. DOMAIN c.entries \subseteq StoredKeys
      BY <3>2, Zenon DEF StoredKeys
    <3> QED BY <3>1, <3>3, Zenon DEF Holds
  <2>5. DOMAIN store' = StoreFields /\ store'.loads = store.loads + 1
    BY <2>2, Zenon DEF DataInv, StoreFields
  <2> QED BY <2>1, <2>2, <2>4, <2>5, ReplacedData, Zenon
<1>4. CASE \/ KvDeleteFind(t) \/ NotifyCopy(t) \/ NotifyCall(t) \/ KvGet(t)
           \/ RegisterSink(t) \/ ExportForSink(t) \/ GiveSnapshot(t) \/ UnregisterSink(t)
           \/ KvFlush(t) \/ ExportForFlush(t) \/ FlushFails(t)
           \/ (SetBackend(t) /\ ~Ends({t}))
           \/ StartCompaction(t) \/ StopCompaction(t) \/ StopJoined(t)
  <2>1. TodoInv'
    BY <1>4, TodoGoesOn, Zenon
  <2>2. /\ data' = data \/ data' = Pruned(data)
        /\ now' = now /\ store' = store /\ file' = file
    BY <1>4, Zenon DEF KvDeleteFind, NotifyCopy, NotifyCall, KvGet, RegisterSink,
       ExportForSink, GiveSnapshot, UnregisterSink, KvFlush, ExportForFlush, FlushFails,
       SetBackend, StartCompaction, StopCompaction, StopJoined, Export
  <2> QED BY <2>1, <2>2, QuietData, Zenon
<1>5. CASE SwitchBackend(t)
  <2>1. TodoInv'
    BY <1>5, TodoGoesOn, Zenon
  <2>2. now' = now /\ file' = file
    BY <1>5, Zenon DEF SwitchBackend
  <2>3. CASE th[t].to = "empty"
    <3>1. /\ data' = Nothing
          /\ store' = [store EXCEPT !.backend = Call(t).backend, !.loads = @ + 1]
      BY <1>5, <2>3, Zenon DEF SwitchBackend
    <3>2. DOMAIN store' = StoreFields /\ store'.loads = store.loads + 1
      BY <3>1, Zenon DEF DataInv, StoreFields
    <3> QED BY <2>1, <2>2, <3>1, <3>2, NothingHolds, ReplacedData, Zenon
  <2>4. CASE th[t].to # "empty"
    <3>1. data' = data /\ store' = [store EXCEPT !.backend = Call(t).backend]
      BY <1>5, <2>4, Zenon DEF SwitchBackend
    <3>2. DOMAIN store' = StoreFields /\ store'.loads = store.loads
      BY <3>1, Zenon DEF DataInv, StoreFields
    <3> QED BY <2>1, <2>2, <3>1, <3>2, MapStays, Zenon DEF DataInv, FilesHold
  <2> QED BY <2>3, <2>4
<1>6. CASE SetBackend(t) /\ Ends({t})
  <2>1. \A u \in {t} \cap Threads : th[u].todo # <<>>
    BY <1>6, Zenon DEF SetBackend, Calls
  <2>2. TodoInv'
    BY <1>6, <2>1, TodoEnds, Zenon DEF DataInv
  <2>3. /\ data' = Nothing /\ now' = now /\ file' = file
        /\ DOMAIN store' = StoreFields /\ store'.loads = store.loads + 1
    BY <1>6, Zenon DEF Ends, DataInv, StoreFields
  <2> QED BY <2>2, <2>3, NothingHolds, ReplacedData, Zenon
<1>7. CASE FlushOpen(t)
  <2>1. /\ TodoInv' /\ data' = data /\ now' = now /\ store' = store
        /\ file' = file \/ file' = [file EXCEPT ![store.backend] = Torn]
    BY <1>7, TodoOpens, Zenon DEF FlushOpen, DataInv
  <2>2. CASE file' = file
    BY <2>1, <2>2, QuietData, Zenon
  <2>3. CASE file' = [file EXCEPT ![store.backend] = Torn]
    <3>1. DOMAIN file' = Backends /\ \A b \in Backends : file'[b] = file[b] \/ file'[b] = Torn
      BY <2>3, Zenon DEF DataInv, FilesHold
    <3>2. Torn.state # "whole"
      BY Zenon DEF Torn
    <3>3. FilesHold'
      BY <3>1, <3>2, Zenon DEF DataInv, FilesHold
    <3> QED BY <2>1, <3>3, MapStays, Zenon DEF DataInv
  <2> QED BY <2>1, <2>2, <2>3
<1>8. CASE FlushClose(t)
  <2> DEFINE e == th[t].entries
             whole == [state |-> "whole", items |-> ToItems(e)]
  <2>1. TodoInv' /\ Holds(e)
    BY <1>8, TodoGoesOn, Zenon DEF DataInv, TodoInv, TodoOk, FlushClose, At
  <2>2. data' = data /\ now' = now /\ store' = store
    BY <1>8, Zenon DEF FlushClose
  <2>3. PICK f \in {whole, Torn, file[th[t].to]} : file' = [file EXCEPT ![th[t].to] = f]
    BY <1>8, Zenon DEF FlushClose
  <2>4. Torn.state # "whole" /\ whole.items = ToItems(e)
    BY Zenon DEF Torn
  <2> HIDE DEF whole, e
  <2>5. /\ DOMAIN file' = Backends
        /\ \A b \in Backends : file'[b] = file[b] \/ file'[b] = Torn \/ file'[b] = whole
    BY <2>3, Zenon DEF DataInv, FilesHold
  <2>6. FilesHold'
    BY <2>1, <2>4, <2>5, Zenon DEF DataInv, FilesHold
  <2> QED BY <2>1, <2>2, <2>6, MapStays, Zenon DEF DataInv
<1> QED BY <1>1, <1>2, <1>3, <1>4, <1>5, <1>6, <1>7, <1>8, Zenon DEF Step

LEMMA NextData == DataInv /\ [Next]_vars => DataInv' /\ MapStep
<1> SUFFICES ASSUME DataInv, [Next]_vars PROVE DataInv' /\ MapStep
  OBVIOUS
<1>1. ASSUME NEW t \in Threads, Step(t) PROVE DataInv' /\ MapStep
  BY <1>1, ThreadData, Zenon
<1>2. CASE Crash
  <2>1. \A u \in {} \cap Threads : th[u].todo # <<>>
    BY Zenon
  <2>2. TodoInv'
    BY <1>2, <2>1, TodoEnds, Zenon DEF DataInv, Crash
  <2>3. /\ data' = Nothing /\ now' = now /\ file' = file
        /\ DOMAIN store' = StoreFields /\ store'.loads = store.loads + 1
    BY <1>2, Zenon DEF Crash, Ends, DataInv, StoreFields
  <2> QED BY <2>2, <2>3, NothingHolds, ReplacedData, Zenon
<1>3. CASE Initialize
  <2>1. /\ file["JSON"].state = "whole" /\ data' = Pruned(FromItems(file["JSON"].items))
        /\ store' = [store EXCEPT !.up = TRUE, !.loads = @ + 1]
        /\ now' = now /\ th' = th /\ file' = file
    BY <1>3, Zenon DEF Initialize, Loads
  <2>2. PICK m : Holds(m) /\ file["JSON"].items = ToItems(m)
    BY <2>1, Zenon DEF DataInv, FilesHold, Backends
  <2>3. data' = Pruned(m)
    BY <2>1, <2>2, ItemsComeBack, Zenon DEF Holds
  <2>4. Holds(data')
    BY <2>2, <2>3, PrunedHolds, Zenon
  <2>5. DOMAIN store' = StoreFields /\ store'.loads = store.loads + 1
    BY <2>1, Zenon DEF DataInv, StoreFields
  <2>6. TodoInv'
    BY <2>1, TodoSame, Zenon DEF DataInv
  <2> QED BY <2>1, <2>4, <2>5, <2>6, ReplacedData, Zenon
<1>4. CASE Tick
  <2>1. now' = now + 1 /\ data' = data /\ th' = th /\ store' = store /\ file' = file
    BY <1>4, Zenon DEF Tick
  <2>2. now \in Nat /\ now' \in Nat /\ now <= now'
    BY <2>1 DEF DataInv
  <2>3. Unexpired' = Abstract!Live(Unexpired, now')
    BY <2>1, <2>2, LiveAgain, UnexpiredIsLive, UnexpiredIsLiveNext DEF DataInv, Holds
  <2>4. MapStep
    BY <2>1, <2>3, Zenon DEF MapStep, Abstract!MapNext, Abstract!Tick
  <2>5. TodoInv'
    BY <2>1, TodoSame, Zenon DEF DataInv
  <2> QED BY <2>1, <2>2, <2>4, <2>5, Zenon DEF DataInv, FilesHold
<1>5. CASE (\E w \in DOMAIN comp.worker : Worker(w)) \/ UNCHANGED vars
  <2>1. /\ data' = data \/ data' = Pruned(data)
        /\ now' = now /\ th' = th /\ store' = store /\ file' = file
    BY <1>5, Zenon DEF Worker, WorkerCheck, WorkerPrune, vars
  <2>2. TodoInv'
    BY <2>1, TodoSame, Zenon DEF DataInv
  <2> QED BY <2>1, <2>2, QuietData, Zenon
<1> QED BY <1>1, <1>2, <1>3, <1>4, <1>5, Zenon DEF Next

LEMMA InitData == Init => DataInv /\ Abstract!MapInit
<1> SUFFICES ASSUME Init PROVE DataInv /\ Abstract!MapInit
  OBVIOUS
<1>1. data = Nothing /\ now = 0 /\ now \in Nat /\ Holds(data)
  BY NothingHolds DEF Init
<1>2. TodoInv
  <2>1. PICK script \in Scripts : th = [t \in Threads |-> Resting(script[t])]
    BY Zenon DEF Init
  <2>2. \A t \in Threads : script[t] \in Seq(AllCalls)
    BY CallsAssumption
  <2>3. DOMAIN th = Threads /\ \A t \in Threads : th[t] = Resting(script[t])
    BY <2>1, Zenon
  <2>4. \A t \in Threads : /\ DOMAIN th[t] = ThreadFields /\ th[t].pc = "idle"
                           /\ th[t].todo \in Seq(AllCalls)
    BY <2>2, <2>3, RestingFields, ZenonT(30)
  <2> QED BY <2>3, <2>4, Zenon DEF TodoInv, TodoOk
<1>3. DOMAIN store = StoreFields /\ store.loads = 0
  BY Zenon DEF Init, StoreFields
<1>4. FilesHold
  <2> DEFINE whole == [state |-> "whole", items |-> ToItems(InitialEntries)]
  <2>1. Holds(InitialEntries)
    BY StoreAssumption, Zenon DEF Holds, StoredKeys
  <2>2. DOMAIN file = Backends /\ \A b \in Backends : file[b] = whole \/ file[b] = Absent
    BY Zenon DEF Init
  <2>3. whole.items = ToItems(InitialEntries) /\ Absent.state # "whole"
    BY Zenon DEF Absent
  <2> HIDE DEF whole
  <2> QED BY <2>1, <2>2, <2>3, Zenon DEF FilesHold
<1>5. Unexpired = Abstract!Live(Unexpired, now)
  <2>1. now <= now
    BY <1>1
  <2> QED BY <1>1, <2>1, LiveAgain, UnexpiredIsLive DEF Holds
<1> QED BY <1>1, <1>2, <1>3, <1>4, <1>5, Zenon DEF DataInv, Abstract!MapInit

\* Through the lazy pruning of kv_get, kv_flush, the snapshots and the
\* compaction, the sections under the lock, the rollback of kv_apply, imports,
\* changes of backend, crashes and restarts, for any threads, calls and
\* batches, callers see the map in which an entry is gone the moment it
\* expires and a batch or swap takes effect as a whole or not at all.
THEOREM StoreIsExpiringMap == Spec => ImplementsExpiringMap
<1>1. Init => DataInv /\ Abstract!MapInit
  BY InitData
<1>2. DataInv /\ [Next]_vars => DataInv' /\ [Abstract!MapNext]_(Abstract!mapVars)
  BY NextData, Zenon DEF MapStep
<1> QED BY <1>1, <1>2, PTL DEF Spec, ImplementsExpiringMap, Abstract!MapSpec

----------------------------------------------------------------------------
(* Flushed entries are on file. *)

\* No key that a call may store starts like the key of an expiration.
NoReservedKey == StoredKeys \cap ReservedKeys = {}

\* A location whose last flush reported success holds what it exported.
OnFile(b) ==
    durable[b].known => /\ Holds(durable[b].entries)
                        /\ file[b] = [state |-> "whole", items |-> ToItems(durable[b].entries)]

\* Nothing is known of a location while it is written, unless it is SQLite's,
\* which one thread writes at a time; and who writes alone is alone.
WriterOk(t) ==
    th[t].pc = "write" =>
        /\ th[t].to = "SQLITE" => th[t].alone
        /\ th[t].to \in Backends \ {"SQLITE"} => ~durable[th[t].to].known
        /\ th[t].alone => \A u \in Threads : th[u].pc = "write" /\ th[u].to = th[t].to => u = t

FileInv == /\ DOMAIN durable = Backends
           /\ \A b \in Backends : OnFile(b)
           /\ \A t \in Threads : WriterOk(t)

\* A step that writes no file.
LEMMA FilesStay ==
    ASSUME FileInv, WritersStay, file' = file, durable' = durable PROVE FileInv'
<1>1. \A b \in Backends : OnFile(b)'
  BY Zenon DEF FileInv, OnFile
<1>2. ASSUME NEW t \in Threads PROVE WriterOk(t)'
  <2>1. th'[t].pc = "write" => WriterOk(t) /\ th[t].pc = "write" /\ th'[t].to = th[t].to
                               /\ th'[t].alone = th[t].alone
    BY Zenon DEF FileInv, WritersStay
  <2>2. \A u \in Threads : th'[u].pc = "write" => th[u].pc = "write" /\ th'[u].to = th[u].to
    BY Zenon DEF WritersStay
  <2> QED BY <2>1, <2>2, Zenon DEF WriterOk
<1> QED BY <1>1, <1>2, Zenon DEF FileInv

\* A flush that opens its location.
LEMMA OpenKeepsFiles ==
    ASSUME DataInv, FileInv, NEW t \in Threads, FlushOpen(t) PROVE FileInv'
<1> DEFINE b == store.backend
<1>1. \/ WritersStay /\ UNCHANGED <<file, durable>>
      \/ /\ Opens(t)
         /\ IF b = "SQLITE" THEN UNCHANGED <<file, durable>>
            ELSE /\ file' = [file EXCEPT ![b] = Torn]
                 /\ durable' = [durable EXCEPT ![b] = Unknown]
  BY TodoOpens, Zenon DEF DataInv
<1>2. CASE WritersStay /\ UNCHANGED <<file, durable>>
  BY <1>2, FilesStay, Zenon
<1>3. CASE /\ Opens(t)
           /\ IF b = "SQLITE" THEN UNCHANGED <<file, durable>>
              ELSE /\ file' = [file EXCEPT ![b] = Torn]
                   /\ durable' = [durable EXCEPT ![b] = Unknown]
  <2>u. Unknown.known = FALSE
    BY Zenon DEF Unknown
  <2>1. /\ DOMAIN durable' = Backends
        /\ \A c \in Backends : \/ durable'[c] = durable[c] /\ file'[c] = file[c]
                               \/ ~durable'[c].known
        /\ \A c \in Backends : ~durable[c].known => ~durable'[c].known
        /\ b \in Backends \ {"SQLITE"} => ~durable'[b].known
    <3>1. CASE b = "SQLITE"
      BY <1>3, <3>1, Zenon DEF FileInv
    <3>2. CASE b # "SQLITE"
      <4>1. file' = [file EXCEPT ![b] = Torn] /\ durable' = [durable EXCEPT ![b] = Unknown]
        BY <1>3, <3>2, Zenon
      <4>2. DOMAIN durable = Backends /\ DOMAIN file = Backends
        BY Zenon DEF FileInv, DataInv, FilesHold
      <4> HIDE DEF b
      <4> QED BY <2>u, <4>1, <4>2, Zenon
    <3> QED BY <3>1, <3>2
  <2>2. ASSUME NEW c \in Backends PROVE OnFile(c)'
    BY <2>1, Zenon DEF FileInv, OnFile
  <2>3. \A u \in Threads : WriterOk(u)
    BY Zenon DEF FileInv
  <2>4. /\ ~(b = "SQLITE" /\ Writers(b) # {}) /\ th[t].pc = "open"
        /\ th'[t].pc = "write" /\ th'[t].to = b /\ th'[t].alone = (Writers(b) = {})
        /\ \A u \in Threads \ {t} :
            /\ th'[u].pc = th[u].pc /\ th'[u].to = th[u].to
            /\ u \in Writers(b) => th'[u].alone = FALSE
            /\ u \notin Writers(b) => th'[u].alone = th[u].alone
    BY <1>3, Zenon DEF Opens
  <2>5. \A u \in Threads : u \in Writers(b) <=> th[u].pc = "write" /\ th[u].to = b
    BY Zenon DEF Writers
  <2>6. \A u \in Writers(b) : u \in Threads
    BY Zenon DEF Writers
  <2> HIDE DEF b
  <2>7. WriterOk(t)'
    <3>1. b = "SQLITE" => th'[t].alone
      BY <2>4, Zenon
    <3>2. th'[t].alone => \A u \in Threads : th'[u].pc = "write" /\ th'[u].to = b => u = t
      BY <2>4, <2>5, Zenon
    <3> QED BY <2>1, <2>4, <3>1, <3>2, Zenon DEF WriterOk
  <2>8. ASSUME NEW u \in Threads, u # t PROVE WriterOk(u)'
    <3>1. CASE u \in Writers(b)
      <4>1. b # "SQLITE" /\ th'[u].alone = FALSE /\ th'[u].to = b /\ th'[u].pc = "write"
        BY <2>4, <2>5, <2>8, <3>1, Zenon
      <4> QED BY <2>1, <4>1, Zenon DEF WriterOk
    <3>2. CASE u \notin Writers(b) /\ th[u].pc = "write"
      <4>1. /\ th'[u].pc = "write" /\ th'[u].to = th[u].to /\ th'[u].alone = th[u].alone
            /\ th[u].to # b
        BY <2>4, <2>5, <2>8, <3>2, Zenon
      <4>2. th[u].alone => \A v \in Threads : th'[v].pc = "write" /\ th'[v].to = th[u].to => v = u
        <5> SUFFICES ASSUME th[u].alone, NEW v \in Threads, th'[v].pc = "write",
                            th'[v].to = th[u].to
                     PROVE  v = u
          BY Zenon
        <5>1. v # t
          BY <2>4, <4>1, Zenon
        <5>2. th[v].pc = "write" /\ th[v].to = th[u].to
          BY <2>4, <5>1, Zenon
        <5> QED BY <2>3, <3>2, <5>2, Zenon DEF WriterOk
      <4> QED BY <2>1, <2>3, <3>2, <4>1, <4>2, Zenon DEF WriterOk
    <3>3. CASE th[u].pc # "write"
      BY <2>4, <2>8, <3>3, Zenon DEF WriterOk
    <3> QED BY <3>1, <3>2, <3>3
  <2> QED BY <2>1, <2>2, <2>7, <2>8, Zenon DEF FileInv
<1> QED BY <1>1, <1>2, <1>3

\* A flush that ends, and leaves the whole location to whoever wrote it alone.
LEMMA CloseKeepsFiles ==
    ASSUME DataInv, FileInv, NEW t \in Threads, FlushClose(t) PROVE FileInv'
<1> DEFINE b == th[t].to
           e == th[t].entries
           whole == [state |-> "whole", items |-> ToItems(e)]
           report == [known |-> TRUE, entries |-> e]
<1>1. /\ th[t].pc = "write" /\ durable' = Reported(t) /\ Return(t)
      /\ Holds(e) /\ WritersStay /\ WriterOk(t) /\ DOMAIN th = Threads
  BY TodoGoesOn, Zenon DEF FlushClose, At, DataInv, TodoInv, TodoOk, FileInv
<1>2. th'[t].pc = "idle"
  BY <1>1, RestingFields, Zenon DEF Return
<1>3. report.known = TRUE /\ report.entries = e /\ DOMAIN durable = Backends
      /\ DOMAIN file = Backends
  BY Zenon DEF FileInv, DataInv, FilesHold
<1>4. \A u \in Threads : th'[u].pc = "write" =>
            /\ u # t /\ WriterOk(u) /\ th[u].pc = "write" /\ th'[u].to = th[u].to
            /\ th'[u].alone = th[u].alone
  BY <1>1, <1>2, Zenon DEF WritersStay, FileInv
<1>5. PICK f \in IF th[t].alone THEN {whole} ELSE {whole, Torn, file[b]} :
            file' = [file EXCEPT ![b] = f]
  BY Zenon DEF FlushClose
<1>6. \A c \in Backends : c # b => file'[c] = file[c] /\ durable'[c] = durable[c]
  BY <1>1, <1>3, <1>5, Zenon DEF Reported
<1>7. CASE th[t].alone
  <2>1. /\ file' = [file EXCEPT ![b] = whole] /\ durable' = [durable EXCEPT ![b] = report]
    BY <1>1, <1>5, <1>7, Zenon DEF Reported
  <2> HIDE DEF b, whole, report
  <2>2. b \in Backends => file'[b] = whole /\ durable'[b] = report
    BY <1>3, <2>1, Zenon
  <2>3. ASSUME NEW c \in Backends PROVE OnFile(c)'
    <3>1. CASE c = b
      BY <1>1, <1>3, <2>2, <3>1, Zenon DEF OnFile, whole
    <3>2. CASE c # b
      BY <1>6, <3>2, Zenon DEF FileInv, OnFile
    <3> QED BY <3>1, <3>2
  <2>4. ASSUME NEW u \in Threads PROVE WriterOk(u)'
    <3> SUFFICES ASSUME th'[u].pc = "write" PROVE WriterOk(u)'
      BY Zenon DEF WriterOk
    <3>1. th[u].to # b
      BY <1>1, <1>4, <1>7, Zenon DEF WriterOk, b
    <3>2. \A v \in Threads : th'[v].pc = "write" => th[v].pc = "write" /\ th'[v].to = th[v].to
      BY <1>4, Zenon
    <3>3. /\ WriterOk(u) /\ th[u].pc = "write" /\ th'[u].to = th[u].to
          /\ th'[u].alone = th[u].alone
          /\ th[u].to \in Backends => durable'[th[u].to] = durable[th[u].to]
      BY <1>4, <1>6, <3>1, Zenon
    <3> QED BY <3>2, <3>3, Zenon DEF WriterOk
  <2>5. DOMAIN durable' = Backends
    BY <1>3, <2>1, Zenon
  <2> QED BY <2>3, <2>4, <2>5, Zenon DEF FileInv
<1>8. CASE ~th[t].alone
  <2>1. durable' = durable
    BY <1>1, <1>8, Zenon DEF Reported
  <2>2. b \in Backends => ~durable[b].known
    BY <1>1, <1>8, Zenon DEF WriterOk
  <2>3. ASSUME NEW c \in Backends PROVE OnFile(c)'
    <3>1. CASE c = b
      BY <2>1, <2>2, <3>1, Zenon DEF OnFile
    <3>2. CASE c # b
      BY <1>6, <3>2, Zenon DEF FileInv, OnFile
    <3> QED BY <3>1, <3>2
  <2>4. ASSUME NEW u \in Threads PROVE WriterOk(u)'
    <3>1. \A v \in Threads : th'[v].pc = "write" => th[v].pc = "write" /\ th'[v].to = th[v].to
      BY <1>4, Zenon
    <3>2. th'[u].pc = "write" => /\ WriterOk(u) /\ th[u].pc = "write"
                                 /\ th'[u].to = th[u].to /\ th'[u].alone = th[u].alone
      BY <1>4, Zenon
    <3> QED BY <2>1, <3>1, <3>2, Zenon DEF WriterOk
  <2> QED BY <1>3, <2>1, <2>3, <2>4, Zenon DEF FileInv
<1> QED BY <1>7, <1>8

LEMMA ThreadKeepsFiles ==
    ASSUME "JSON" \notin WriteFails, DataInv, FileInv, NEW t \in Threads, Step(t)
    PROVE  FileInv'
<1>1. CASE FlushOpen(t)
  BY <1>1, OpenKeepsFiles, Zenon
<1>2. CASE FlushClose(t)
  BY <1>2, CloseKeepsFiles, Zenon
<1>3. CASE \/ KvDeleteFind(t) \/ KvApply(t) \/ NotifyCopy(t) \/ NotifyCall(t)
           \/ KvCompareAndSwap(t) \/ KvGet(t) \/ ImportSnapshot(t)
           \/ RegisterSink(t) \/ ExportForSink(t) \/ GiveSnapshot(t) \/ UnregisterSink(t)
           \/ KvFlush(t) \/ ExportForFlush(t) \/ FlushFails(t)
           \/ (SetBackend(t) /\ ~Ends({t})) \/ SwitchBackend(t)
           \/ StartCompaction(t) \/ StopCompaction(t) \/ StopJoined(t)
  <2>1. WritersStay
    BY <1>3, TodoGoesOn, Zenon
  <2>2. file' = file /\ durable' = durable
    BY <1>3, Zenon DEF KvDeleteFind, KvApply, NotifyCopy, NotifyCall, KvCompareAndSwap,
       KvGet, ImportSnapshot, RegisterSink, ExportForSink, GiveSnapshot, UnregisterSink,
       KvFlush, ExportForFlush, FlushFails, SetBackend, SwitchBackend, StartCompaction,
       StopCompaction, StopJoined, Export
  <2> QED BY <2>1, <2>2, FilesStay, Zenon
<1>4. CASE SetBackend(t) /\ Ends({t})
  <2>1. \A u \in {t} \cap Threads : th[u].todo # <<>>
    BY <1>4, Zenon DEF SetBackend, Calls
  <2>2. WritersStay /\ file' = file /\ durable' = durable
    BY <1>4, <2>1, TodoEnds, Zenon DEF DataInv, Ends
  <2> QED BY <2>2, FilesStay, Zenon
<1> QED BY <1>1, <1>2, <1>3, <1>4, Zenon DEF Step

LEMMA NextKeepsFiles ==
    ASSUME "JSON" \notin WriteFails, DataInv, FileInv, [Next]_vars PROVE FileInv'
<1>1. ASSUME NEW t \in Threads, Step(t) PROVE FileInv'
  BY <1>1, ThreadKeepsFiles, Zenon
<1>2. CASE Crash
  <2>1. \A u \in {} \cap Threads : th[u].todo # <<>>
    BY Zenon
  <2>2. WritersStay /\ file' = file /\ durable' = durable
    BY <1>2, <2>1, TodoEnds, Zenon DEF DataInv, Crash, Ends
  <2> QED BY <2>2, FilesStay, Zenon
<1>3. CASE \/ Initialize \/ Tick \/ (\E w \in DOMAIN comp.worker : Worker(w))
           \/ UNCHANGED vars
  <2>1. th' = th /\ file' = file /\ durable' = durable
    BY <1>3, Zenon DEF Initialize, Tick, Worker, WorkerCheck, WorkerPrune, vars
  <2>2. WritersStay
    BY <2>1, TodoSame, Zenon DEF DataInv
  <2> QED BY <2>1, <2>2, FilesStay, Zenon
<1> QED BY <1>1, <1>2, <1>3, Zenon DEF Next

LEMMA InitHasFiles == Init => FileInv
<1> SUFFICES ASSUME Init PROVE FileInv
  OBVIOUS
<1> DEFINE whole == [state |-> "whole", items |-> ToItems(InitialEntries)]
           report == [known |-> TRUE, entries |-> InitialEntries]
<1>1. \A t \in Threads : th[t].pc # "write"
  <2>1. PICK script \in Scripts : th = [t \in Threads |-> Resting(script[t])]
    BY Zenon DEF Init
  <2>2. \A t \in Threads : th[t] = Resting(script[t])
    BY <2>1, Zenon
  <2>3. \A t \in Threads : th[t].pc = "idle"
    BY <2>2, RestingFields, ZenonT(30)
  <2> QED BY <2>3, Zenon
<1>2. /\ DOMAIN durable = Backends
      /\ \A b \in Backends : b = "JSON" => file[b] = whole /\ durable[b] = report
      /\ \A b \in Backends : b # "JSON" => durable[b] = Unknown
  BY Zenon DEF Init
<1>3. report.entries = InitialEntries /\ ~Unknown.known
  BY Zenon DEF Unknown
<1>4. Holds(InitialEntries)
  BY StoreAssumption, Zenon DEF Holds, StoredKeys
<1> HIDE DEF report
<1>5. ASSUME NEW b \in Backends PROVE OnFile(b)
  <2>1. CASE b = "JSON"
    <3>1. durable[b].entries = InitialEntries /\ file[b] = whole
      BY <1>2, <1>3, <2>1, Zenon
    <3> QED BY <1>4, <3>1, Zenon DEF OnFile
  <2>2. CASE b # "JSON"
    BY <1>2, <1>3, <2>2, Zenon DEF OnFile
  <2> QED BY <2>1, <2>2
<1> QED BY <1>1, <1>2, <1>5, Zenon DEF FileInv, WriterOk

LEMMA OnFileImpliesFlushed == NoReservedKey /\ FileInv => FlushedIsOnFile
<1> SUFFICES ASSUME NoReservedKey, FileInv, NEW b \in Backends, durable[b].known
             PROVE  /\ file[b].state = "whole"
                    /\ FromItems(file[b].items) = durable[b].entries
                    /\ Loads(file[b])
  BY Zenon DEF FlushedIsOnFile
<1> DEFINE e == durable[b].entries
<1>1. Holds(e) /\ file[b] = [state |-> "whole", items |-> ToItems(e)]
  BY Zenon DEF FileInv, OnFile
<1> HIDE DEF e
<1>2. file[b].state = "whole" /\ file[b].items = ToItems(e)
  BY <1>1
<1>3. FromItems(ToItems(e)) = e /\ \A n \in DOMAIN ToItems(e) : n[2] \in StoredKeys
  BY <1>1, ItemsComeBack, Zenon DEF Holds
<1>4. \A k \in StoredKeys : k \notin ReservedKeys
  BY Zenon DEF NoReservedKey
<1> QED BY <1>2, <1>3, <1>4, Zenon DEF e, Loads

\* Unless the file system refuses the JSON file's data, whose writer does not
\* notice, or a user's key reads as an expiration: through overlapping
\* kv_flush calls, failed writes, changes of backend, crashes and restarts,
\* as long as no later flush has started, a backend's location holds what the
\* last kv_flush that reported success exported, for any threads and calls.
THEOREM FlushedStaysOnFile ==
    ASSUME "JSON" \notin WriteFails, NoReservedKey
    PROVE  Spec => []FlushedIsOnFile
<1>1. Init => DataInv /\ FileInv
  BY InitData, InitHasFiles
<1>2. DataInv /\ FileInv /\ [Next]_vars => (DataInv /\ FileInv)'
  BY NextData, NextKeepsFiles
<1>3. FileInv => FlushedIsOnFile
  BY OnFileImpliesFlushed
<1> QED BY <1>1, <1>2, <1>3, PTL DEF Spec
============================================================================
