------------------------- MODULE SecureSessionProofs -------------------------
(* Theorems about SecureSession.  A handler is a function from a connection     *)
(* record to a connection record, so the proofs first say what each one does to *)
(* a record: that it keeps the record Good, and what it does to the key epochs. *)
(* Only the last lemmas speak of the two sides and the network between them.    *)
EXTENDS SecureSession, TLAPS

Fields ==
    {"state", "incoming_pending", "attempts", "age", "cookie", "keys", "finished_sent",
     "send", "receive", "previous", "expiry", "number_used", "update", "update_due",
     "events", "out", "stop", "polled"}

Kinds == {"HELLO", "RETRY", "FINISHED", "KEY_UPDATE", "KEY_UPDATE_ACK", "CLOSE"}

KeyKinds == {"KEY_UPDATE", "KEY_UPDATE_ACK"}

IsSeq(s) == s \in Seq(Range(s))

HasConnected(c) == "CONNECTED" \in Range(c.events)

\* The finished value of side p vouches for this: its key exchange is complete,
\* and a client has told its application so.
Vouches(p, c) == c.finished_sent /\ (p = "client" => HasConnected(c))

\* What is true of the record of side p between and within the steps of a poll.
Good(p, c) ==
    /\ DOMAIN c = Fields /\ IsSeq(c.out) /\ IsSeq(c.events)
    /\ c.state = "NONE" => ~c.finished_sent /\ c.send = 0 /\ c.receive = 0 /\ c.update = 0
    /\ p = "client" => ~c.incoming_pending
    /\ c.finished_sent => ~c.incoming_pending
    /\ p = "client" /\ c.state = "CONNECTED" => HasConnected(c)
    /\ \A m \in Range(c.out) :
        /\ m.kind \in Kinds
        /\ m.kind = "FINISHED" => Vouches(p, c)

\* What a handler leaves behind is never taken back.
Grows(c, d) ==
    /\ c.finished_sent => d.finished_sent
    /\ Range(c.events) \subseteq Range(d.events)

\* The step leaves the key update alone ...
SameEpochs(c, d) == d.send = c.send /\ d.receive = c.receive /\ d.update = c.update

\* ... and puts out none of its packets.
NoKeyPacket(c, d) == \A m \in Range(d.out) : m \in Range(c.out) \/ m.kind \notin KeyKinds

Connects(c, d) == d.state = "CONNECTED" /\ c.state # "CONNECTED"

\* What every handler of the handshake does to a record, and chains of them.
Plain(p, c, d) == Good(p, d) /\ Grows(c, d) /\ SameEpochs(c, d) /\ NoKeyPacket(c, d)

-----------------------------------------------------------------------------
(* Records *)

\* Appending adds one element to those of a sequence.
LEMMA AppendRange ==
    ASSUME NEW s, IsSeq(s), NEW e
    PROVE  IsSeq(Append(s, e)) /\ Range(Append(s, e)) = Range(s) \union {e}
  <1>1. /\ Append(s, e) \in Seq(Range(s) \union {e})
        /\ Len(Append(s, e)) = Len(s) + 1
        /\ DOMAIN Append(s, e) = 1 .. Len(s) + 1 /\ DOMAIN s = 1 .. Len(s) /\ Len(s) \in Nat
        /\ \A i \in 1 .. Len(s) : Append(s, e)[i] = s[i]
        /\ Append(s, e)[Len(s) + 1] = e
    BY DEF IsSeq
  <1>2. Range(Append(s, e)) = Range(s) \union {e}
    BY <1>1 DEF Range
  <1> QED
    BY <1>1, <1>2, Zenon DEF IsSeq

LEMMA EmptyRange == IsSeq(<<>>) /\ Range(<<>>) = {}
  BY DEF IsSeq, Range

\* The fields that Good, Grows and the key update do not look at.
Relevant(c, d) ==
    /\ DOMAIN d = Fields
    /\ d.state = c.state /\ d.incoming_pending = c.incoming_pending
    /\ d.finished_sent = c.finished_sent /\ d.events = c.events /\ d.out = c.out
    /\ SameEpochs(c, d)

\* A step that touches none of the fields that matter keeps everything.
LEMMA RelevantIsPlain ==
    ASSUME NEW p, NEW c, NEW d, Good(p, c), Relevant(c, d)
    PROVE  Plain(p, c, d)
  BY Zenon DEF Relevant, Good, Vouches, HasConnected, Plain, Grows, SameEpochs, NoKeyPacket

LEMMA PlainTrans ==
    ASSUME NEW p, NEW c, NEW d, NEW e, Plain(p, c, d), Plain(p, d, e)
    PROVE  Plain(p, c, e)
  BY Zenon DEF Plain, Grows, SameEpochs, NoKeyPacket

LEMMA PlainRefl ==
    ASSUME NEW p, NEW c, Good(p, c)
    PROVE  Plain(p, c, c)
  BY Zenon DEF Plain, Grows, SameEpochs, NoKeyPacket

-----------------------------------------------------------------------------
(* Events and sends *)

\* queue_connection_event appends to the events of the connection.
LEMMA EventPlain ==
    ASSUME NEW p, NEW c, Good(p, c), NEW e
    PROVE  /\ Plain(p, c, Event(c, e)) /\ Event(c, e).state = c.state
           /\ e \in Range(Event(c, e).events)
  BY AppendRange DEF Event, Fields, Good, Vouches, HasConnected, Plain, Grows, SameEpochs, NoKeyPacket

LEMMA FailPlain ==
    ASSUME NEW p, NEW c, Good(p, c)
    PROVE  Plain(p, c, Fail(c)) /\ Fail(c).state = "FAILED"
  <1> DEFINE d == [c EXCEPT !.state = "FAILED"]
  <1>1. Plain(p, c, d) /\ d.state = "FAILED"
    BY Zenon DEF Fields, Good, Vouches, HasConnected, Plain, Grows, SameEpochs, NoKeyPacket
  <1>2. Plain(p, d, Event(d, "FAILED")) /\ Event(d, "FAILED").state = "FAILED"
    <2> HIDE DEF d
    <2> QED
      BY <1>1, EventPlain, Zenon DEF Plain
  <1> QED
    BY <1>1, <1>2, PlainTrans, ZenonT(30) DEF Fail

\* A hello changes nothing that matters, sent or refused.
LEMMA SendHelloPlain ==
    ASSUME NEW p, NEW c, Good(p, c), NEW fail
    PROVE  /\ Plain(p, c, SendHello(c, fail))
           /\ SendHello(c, fail).state = c.state
           /\ SendHello(c, fail).incoming_pending = c.incoming_pending
           /\ SendHello(c, fail).events = c.events
  <1> DEFINE hello == [kind |-> "HELLO", cookie |-> c.cookie]
             d == [c EXCEPT !.out = Append(@, hello), !.age = 0]
  <1>1. hello.kind = "HELLO"
    OBVIOUS
  <1>2. /\ DOMAIN d = Fields /\ d.out = Append(c.out, hello)
        /\ d.state = c.state /\ d.incoming_pending = c.incoming_pending
        /\ d.finished_sent = c.finished_sent /\ d.events = c.events
        /\ d.send = c.send /\ d.receive = c.receive /\ d.update = c.update
    BY Zenon DEF Good, Fields
  <1>3. Plain(p, c, d)
    <2> HIDE DEF d, hello
    <2>1. IsSeq(d.out) /\ Range(d.out) = Range(c.out) \union {hello}
      BY <1>2, AppendRange, Zenon DEF Good
    <2> QED
      BY <1>1, <1>2, <2>1, Zenon
      DEF Good, Kinds, KeyKinds, Vouches, HasConnected, Plain, Grows, SameEpochs, NoKeyPacket
  <1>4. ASSUME fail = "hello" PROVE Relevant(c, SendHello(c, fail))
    BY <1>4, Zenon DEF SendHello, Good, Fields, Relevant, SameEpochs
  <1> QED
    BY <1>2, <1>3, <1>4, RelevantIsPlain, ZenonT(30) DEF SendHello, Relevant

\* The finished value may be sent by whoever has what it vouches for.
LEMMA SendFinishedPlain ==
    ASSUME NEW p, NEW c, Good(p, c), NEW fail, c.state # "NONE", ~c.incoming_pending,
           p = "client" => HasConnected(c)
    PROVE  /\ Plain(p, c, SendFinished(c, fail))
           /\ SendFinished(c, fail).state = c.state
  <1> DEFINE finished == [kind |-> "FINISHED"]
             d == [c EXCEPT !.out = Append(@, finished), !.age = 0, !.finished_sent = TRUE]
  <1>1. finished.kind = "FINISHED"
    OBVIOUS
  <1>2. /\ DOMAIN d = Fields /\ d.out = Append(c.out, finished)
        /\ d.state = c.state /\ d.incoming_pending = c.incoming_pending
        /\ d.finished_sent = TRUE /\ d.events = c.events
        /\ d.send = c.send /\ d.receive = c.receive /\ d.update = c.update
    BY Zenon DEF Good, Fields
  <1>3. Plain(p, c, d)
    <2> HIDE DEF d, finished
    <2>1. IsSeq(d.out) /\ Range(d.out) = Range(c.out) \union {finished}
      BY <1>2, AppendRange DEF Good
    <2> QED
      BY <1>1, <1>2, <2>1, ZenonT(30)
      DEF Good, Kinds, KeyKinds, Vouches, HasConnected, Plain, Grows, SameEpochs, NoKeyPacket
  <1>4. ASSUME c.stop \/ fail = "finished" PROVE Relevant(c, SendFinished(c, fail))
    BY <1>4, Zenon DEF SendFinished, Good, Fields, Relevant, SameEpochs
  <1> QED
    BY <1>2, <1>3, <1>4, RelevantIsPlain, ZenonT(30) DEF SendFinished, Relevant

-----------------------------------------------------------------------------
(* The handshake *)

\* A retry is answered with another hello.
LEMMA ProcessRetryPlain ==
    ASSUME NEW p, NEW c, Good(p, c), NEW fail
    PROVE  Plain(p, c, ProcessRetry(c, p, fail)) /\ ~Connects(c, ProcessRetry(c, p, fail))
  <1> DEFINE d == [c EXCEPT !.cookie = TRUE]
             hello == SendHello(d, fail)
             counted == [hello EXCEPT !.attempts = @ + 1]
  <1>1. Relevant(c, d) /\ d.state = c.state
    BY Zenon DEF Good, Fields, Relevant, SameEpochs
  <1>2. Plain(p, c, d)
    BY <1>1, RelevantIsPlain, Zenon
  <1>3. Plain(p, d, hello) /\ hello.state = c.state
    <2> HIDE DEF d
    <2> QED
      BY <1>1, <1>2, SendHelloPlain, Zenon DEF Plain
  <1>4. Plain(p, hello, counted) /\ counted.state = c.state
    <2> HIDE DEF hello
    <2>1. Relevant(hello, counted)
      BY <1>3, Zenon DEF Plain, Good, Fields, Relevant, SameEpochs
    <2> QED
      BY <1>3, <2>1, RelevantIsPlain, Zenon DEF Plain, Relevant
  <1>5. ProcessRetry(c, p, fail) \in {c, hello, counted}
    BY Zenon DEF ProcessRetry
  <1> HIDE DEF d, hello, counted
  <1>6. Plain(p, c, c) /\ Plain(p, c, hello) /\ Plain(p, c, counted)
    BY <1>2, <1>3, <1>4, PlainTrans, PlainRefl, ZenonT(30)
  <1> QED
    BY <1>3, <1>4, <1>5, <1>6, ZenonT(30) DEF Connects

\* A server takes a first hello as a pending connection, or answers with a cookie.
LEMMA ProcessFirstHelloPlain ==
    ASSUME NEW p, NEW c, Good(p, c), c.state = "NONE", NEW m
    PROVE  Plain(p, c, ProcessFirstHello(c, m, p)) /\ ~Connects(c, ProcessFirstHello(c, m, p))
  <1> DEFINE retry == [kind |-> "RETRY"]
             asked == [c EXCEPT !.out = Append(@, retry)]
             pending == [c EXCEPT !.state = "HANDSHAKING", !.incoming_pending = TRUE,
                                  !.keys = TRUE, !.age = 0]
  <1>1. Plain(p, c, asked) /\ asked.state = c.state
    <2>1. /\ DOMAIN asked = Fields /\ asked.out = Append(c.out, retry)
          /\ asked.state = c.state /\ asked.incoming_pending = c.incoming_pending
          /\ asked.finished_sent = c.finished_sent /\ asked.events = c.events
          /\ SameEpochs(c, asked)
      BY Zenon DEF Good, Fields, SameEpochs
    <2>2. retry.kind = "RETRY"
      OBVIOUS
    <2> HIDE DEF asked, retry
    <2>3. IsSeq(asked.out) /\ Range(asked.out) = Range(c.out) \union {retry}
      BY <2>1, AppendRange, ZenonT(30) DEF Good
    <2> QED
      BY <2>1, <2>2, <2>3, ZenonT(30)
      DEF Good, Kinds, KeyKinds, Vouches, HasConnected, Plain, Grows, SameEpochs, NoKeyPacket
  <1>2. ASSUME p = "server" PROVE Plain(p, c, pending) /\ pending.state = "HANDSHAKING"
    <2>1. /\ DOMAIN pending = Fields /\ pending.out = c.out /\ pending.events = c.events
          /\ pending.finished_sent = c.finished_sent /\ pending.state = "HANDSHAKING"
          /\ SameEpochs(c, pending)
      BY Zenon DEF Good, Fields, SameEpochs
    <2> HIDE DEF pending
    <2> QED
      BY <2>1, <1>2, ZenonT(30) DEF Good, Vouches, HasConnected, Plain, Grows, NoKeyPacket
  <1>3. ASSUME p = "server"
        PROVE  /\ Plain(p, c, Event(pending, "CONNECTION_REQUESTED"))
               /\ Event(pending, "CONNECTION_REQUESTED").state = "HANDSHAKING"
    <2> HIDE DEF pending
    <2> QED
      BY <1>2, <1>3, EventPlain, PlainTrans, ZenonT(30) DEF Plain
  <1> QED
    BY <1>1, <1>3, PlainRefl, ZenonT(30) DEF ProcessFirstHello, Connects

\* A flight of hello and finished, by a side that may vouch for itself.
LEMMA FlightPlain ==
    ASSUME NEW p, NEW c, Good(p, c), NEW fail, c.state # "NONE", ~c.incoming_pending,
           p = "client" => HasConnected(c)
    PROVE  /\ Plain(p, c, SendFinished(SendHello(c, fail), fail))
           /\ SendFinished(SendHello(c, fail), fail).state = c.state
  <1> DEFINE hello == SendHello(c, fail)
  <1>1. /\ Plain(p, c, hello) /\ hello.state = c.state
        /\ hello.incoming_pending = c.incoming_pending /\ hello.events = c.events
    BY SendHelloPlain, Zenon
  <1> HIDE DEF hello
  <1>2. Plain(p, hello, SendFinished(hello, fail)) /\ SendFinished(hello, fail).state = c.state
    BY <1>1, SendFinishedPlain DEF Plain, HasConnected
  <1> QED
    BY <1>1, <1>2, PlainTrans, ZenonT(30) DEF hello

\* Every record a handler returns may have its attempts counted.
LEMMA AttemptsPlain ==
    ASSUME NEW p, NEW c, Good(p, c), NEW n
    PROVE  /\ Plain(p, c, [c EXCEPT !.attempts = n])
           /\ [c EXCEPT !.attempts = n].state = c.state
  <1>1. Relevant(c, [c EXCEPT !.attempts = n])
    BY Zenon DEF Good, Fields, Relevant, SameEpochs
  <1> QED
    BY <1>1, RelevantIsPlain, ZenonT(30) DEF Relevant

\* A hello gives its keys to a client; a server that was accepted answers it.
LEMMA ProcessHelloPlain ==
    ASSUME NEW p \in Sides, NEW c, Good(p, c), NEW fail, NEW m
    PROVE  Plain(p, c, ProcessHello(c, m, p, fail)) /\ ~Connects(c, ProcessHello(c, m, p, fail))
  <1> DEFINE keyed == [c EXCEPT !.keys = TRUE]
             answer == SendFinished(SendHello(keyed, fail), fail)
             counted == [answer EXCEPT !.attempts = 1]
  <1>1. Relevant(c, keyed)
    BY Zenon DEF Good, Fields, Relevant, SameEpochs
  <1>2. Plain(p, c, keyed) /\ keyed.state = c.state /\ keyed.incoming_pending = c.incoming_pending
    BY <1>1, RelevantIsPlain, Zenon DEF Relevant
  <1>3. ASSUME c.state # "NONE", p # "client", ~c.incoming_pending
        PROVE  /\ Plain(p, c, Fail(answer)) /\ Fail(answer).state = "FAILED"
               /\ Plain(p, c, counted) /\ counted.state = c.state
    <2> HIDE DEF keyed
    <2>1. Plain(p, c, answer) /\ answer.state = c.state
      BY <1>2, <1>3, FlightPlain, PlainTrans DEF Plain
    <2> HIDE DEF answer
    <2>2. Plain(p, answer, Fail(answer)) /\ Fail(answer).state = "FAILED"
      BY <2>1, FailPlain, Zenon DEF Plain
    <2>3. Plain(p, answer, counted) /\ counted.state = c.state
      BY <2>1, AttemptsPlain, Zenon DEF Plain
    <2> QED
      BY <2>1, <2>2, <2>3, PlainTrans, ZenonT(30)
  <1>4. CASE c.state = "NONE"
    <2>1. ProcessHello(c, m, p, fail) = ProcessFirstHello(c, m, p)
      BY <1>4, Zenon DEF ProcessHello
    <2> QED
      BY <1>4, <2>1, ProcessFirstHelloPlain, Zenon
  <1>5. CASE c.state \notin {"NONE", "HANDSHAKING", "CONNECTED"}
    <2>1. ProcessHello(c, m, p, fail) = c
      BY <1>5, Zenon DEF ProcessHello
    <2> QED
      BY <2>1, PlainRefl, ZenonT(30) DEF Connects
  <1>6. CASE c.state \in {"HANDSHAKING", "CONNECTED"}
    <2>1. ProcessHello(c, m, p, fail) =
            IF p = "client" \/ c.incoming_pending THEN keyed
            ELSE IF answer.stop THEN Fail(answer) ELSE counted
      BY <1>6, Zenon DEF ProcessHello
    <2> HIDE DEF keyed, answer, counted
    <2> QED
      BY <2>1, <1>2, <1>3, <1>6, ZenonT(30) DEF Connects
  <1> QED
    BY <1>4, <1>5, <1>6, Zenon

\* Whatever the side, ProcessFinished alone connects, and what the client sends
\* with it vouches for the event it reports.
LEMMA ProcessFinishedPlain ==
    ASSUME NEW p \in Sides, NEW c, Good(p, c), NEW fail
    PROVE  Plain(p, c, ProcessFinished(c, p, fail))
  <1> DEFINE finished == [kind |-> "FINISHED"]
             answer == IF p = "client" /\ ~c.finished_sent THEN SendFinished(c, fail) ELSE c
             told == IF c.state = "CONNECTED" THEN answer ELSE Event(answer, "CONNECTED")
             d == [told EXCEPT !.state = "CONNECTED"]
  <1>1. CASE c.state \notin {"HANDSHAKING", "CONNECTED"}
    BY <1>1, PlainRefl, Zenon DEF ProcessFinished
  <1>2. CASE c.state \in {"HANDSHAKING", "CONNECTED"} /\ ~c.keys
    <2>1. ProcessFinished(c, p, fail) = Fail(c)
      BY <1>2, Zenon DEF ProcessFinished
    <2> QED
      BY <2>1, FailPlain, Zenon
  <1>3. CASE c.state \in {"HANDSHAKING", "CONNECTED"} /\ c.keys
    <2>1. ProcessFinished(c, p, fail) = IF answer.stop THEN Fail(answer) ELSE d
      BY <1>3, Zenon DEF ProcessFinished
    <2>2. /\ DOMAIN answer = Fields /\ answer.state = c.state /\ answer.events = c.events
          /\ answer.incoming_pending = c.incoming_pending /\ SameEpochs(c, answer)
          /\ \/ answer.out = c.out /\ answer.finished_sent = c.finished_sent
             \/ /\ answer.out = Append(c.out, finished) /\ answer.finished_sent = TRUE
                /\ answer.stop = c.stop /\ ~c.stop /\ p = "client"
      BY Zenon DEF SendFinished, Good, Fields, SameEpochs
    <2>3. ASSUME answer.stop PROVE Plain(p, c, Fail(answer))
      <3>1. Relevant(c, answer)
        BY <2>2, <2>3, ZenonT(30) DEF Relevant
      <3> HIDE DEF answer
      <3>2. Plain(p, c, answer)
        BY <3>1, RelevantIsPlain, ZenonT(30)
      <3> QED
        BY <3>2, FailPlain, PlainTrans, ZenonT(30) DEF Plain
    <2>4. Plain(p, c, d)
      <3> HIDE DEF answer
      <3>1. /\ DOMAIN told = Fields /\ told.out = answer.out /\ SameEpochs(answer, told)
            /\ told.incoming_pending = answer.incoming_pending
            /\ told.finished_sent = answer.finished_sent
            /\ told.events = IF c.state = "CONNECTED" THEN answer.events
                             ELSE Append(answer.events, "CONNECTED")
        BY <2>2, Zenon DEF Event, Fields, SameEpochs
      <3> HIDE DEF told
      <3>2. /\ DOMAIN d = Fields /\ d.out = told.out /\ SameEpochs(told, d)
            /\ d.incoming_pending = told.incoming_pending
            /\ d.finished_sent = told.finished_sent
            /\ d.events = told.events /\ d.state = "CONNECTED"
        BY <3>1, Zenon DEF Fields, SameEpochs
      <3> HIDE DEF d
      <3>3. /\ IsSeq(d.events) /\ Range(c.events) \subseteq Range(d.events)
            /\ p = "client" => HasConnected(d)
        BY <2>2, <3>1, <3>2, AppendRange DEF Good, HasConnected
      <3>4. finished.kind = "FINISHED"
        OBVIOUS
      <3> HIDE DEF finished
      <3>5. /\ IsSeq(d.out)
            /\ \/ d.out = c.out /\ d.finished_sent = c.finished_sent
               \/ /\ Range(d.out) = Range(c.out) \union {finished} /\ d.finished_sent = TRUE
                  /\ p = "client"
        <4>1. /\ IsSeq(c.out) /\ IsSeq(Append(c.out, finished))
              /\ Range(Append(c.out, finished)) = Range(c.out) \union {finished}
          BY AppendRange, Zenon DEF Good
        <4> QED
          BY <2>2, <3>1, <3>2, <4>1, Zenon
      <3>6. d.incoming_pending = c.incoming_pending /\ SameEpochs(c, d)
        BY <2>2, <3>1, <3>2, ZenonT(30) DEF SameEpochs
      <3> QED
        BY <3>2, <3>3, <3>4, <3>5, <3>6, ZenonT(30)
        DEF Good, Kinds, KeyKinds, Vouches, Plain, Grows, NoKeyPacket, HasConnected
    <2> HIDE DEF answer, d
    <2> QED
      BY <2>1, <2>3, <2>4, ZenonT(30)
  <1> QED
    BY <1>1, <1>2, <1>3, ZenonT(30)

\* A handshake that is late is repeated or given up; it connects nobody.
LEMMA RetryHandshakePlain ==
    ASSUME NEW p \in Sides, NEW c, Good(p, c), c.state = "HANDSHAKING", NEW fail
    PROVE  Plain(p, c, RetryHandshake(c, p, fail)) /\ ~Connects(c, RetryHandshake(c, p, fail))
  <1> DEFINE hello == SendHello(c, fail)
             flight == IF p = "client" THEN hello ELSE SendFinished(hello, fail)
  <1>1. ASSUME NEW d, Good(p, d), d.state # "NONE"
        PROVE  Plain(p, d, [d EXCEPT !.state = "FAILED"]) /\ [d EXCEPT !.state = "FAILED"].state = "FAILED"
    BY <1>1, Zenon DEF Fields, Good, Vouches, HasConnected, Plain, Grows, SameEpochs, NoKeyPacket
  <1>2. ASSUME ~c.incoming_pending PROVE Plain(p, c, flight) /\ flight.state = c.state
    BY <1>2, SendHelloPlain, FlightPlain DEF Sides
  <1>3. RetryHandshake(c, p, fail) =
            IF c.incoming_pending \/ c.age < RetryTicks(c) THEN c
            ELSE IF c.attempts >= MaxAttempts THEN [c EXCEPT !.state = "FAILED"]
            ELSE IF flight.stop THEN [flight EXCEPT !.state = "FAILED"]
            ELSE [flight EXCEPT !.attempts = flight.attempts + 1]
    BY Zenon DEF RetryHandshake
  <1> HIDE DEF flight, hello
  <1>4. ASSUME ~c.incoming_pending
        PROVE  /\ Plain(p, c, [flight EXCEPT !.state = "FAILED"])
               /\ [flight EXCEPT !.state = "FAILED"].state = "FAILED"
               /\ Plain(p, c, [flight EXCEPT !.attempts = flight.attempts + 1])
               /\ [flight EXCEPT !.attempts = flight.attempts + 1].state = c.state
    BY <1>1, <1>2, <1>4, AttemptsPlain, PlainTrans DEF Plain
  <1>5. Plain(p, c, c) /\ Plain(p, c, [c EXCEPT !.state = "FAILED"])
            /\ [c EXCEPT !.state = "FAILED"].state = "FAILED"
    BY <1>1, PlainRefl, Zenon
  <1> QED
    BY <1>3, <1>4, <1>5, ZenonT(30) DEF Connects

-----------------------------------------------------------------------------
(* The key update *)

Sealed(c, kind, value) == [kind |-> kind, epoch |-> c.send, value |-> value]

\* A sealed packet leaves, or the caller sees by stop that it does not.
LEMMA SendSealedEffect ==
    ASSUME NEW p, NEW c, Good(p, c), NEW kind \in Kinds \ {"FINISHED"}, NEW value, NEW failed
    PROVE  LET d == SendSealed(c, kind, value, failed)
           IN  /\ Good(p, d) /\ Grows(c, d) /\ SameEpochs(c, d) /\ d.state = c.state
               /\ \/ Range(d.out) = Range(c.out) /\ d.stop
                  \/ Range(d.out) = Range(c.out) \union {Sealed(c, kind, value)} /\ d.stop = c.stop
  <1> DEFINE m == Sealed(c, kind, value)
             stopped == [c EXCEPT !.stop = TRUE]
             used == [c EXCEPT !.number_used = TRUE, !.stop = TRUE]
             sent == [c EXCEPT !.out = Append(@, m)]
  <1>1. /\ Relevant(c, stopped) /\ stopped.stop = TRUE
        /\ Relevant(c, used) /\ used.stop = TRUE
    BY Zenon DEF Good, Fields, Relevant, SameEpochs
  <1>2. /\ DOMAIN sent = Fields /\ sent.out = Append(c.out, m) /\ sent.stop = c.stop
        /\ sent.state = c.state /\ sent.incoming_pending = c.incoming_pending
        /\ sent.finished_sent = c.finished_sent /\ sent.events = c.events /\ SameEpochs(c, sent)
    BY Zenon DEF Good, Fields, SameEpochs
  <1>3. m.kind \in Kinds \ {"FINISHED"}
    BY Zenon DEF Sealed
  <1>4. SendSealed(c, kind, value, failed) \in {stopped, used, sent}
    BY Zenon DEF SendSealed, Sealed
  <1> HIDE DEF stopped, used, sent, m
  <1>5. IsSeq(sent.out) /\ Range(sent.out) = Range(c.out) \union {m}
    BY <1>2, AppendRange DEF Good
  <1>6. Good(p, sent) /\ Grows(c, sent)
    BY <1>2, <1>3, <1>5, Zenon DEF Good, Vouches, HasConnected, Grows, SameEpochs
  <1>7. /\ Good(p, stopped) /\ Grows(c, stopped) /\ SameEpochs(c, stopped) /\ stopped.state = c.state
        /\ Good(p, used) /\ Grows(c, used) /\ SameEpochs(c, used) /\ used.state = c.state
        /\ Range(stopped.out) = Range(c.out) /\ Range(used.out) = Range(c.out)
    BY <1>1, RelevantIsPlain, Zenon DEF Plain, Relevant
  <1> QED
    BY <1>1, <1>2, <1>4, <1>5, <1>6, <1>7, ZenonT(30) DEF m

\* The receiver of a request has acknowledged it and is at the epoch it names.
Answered(c, m, d) ==
    /\ m.kind = "KEY_UPDATE"
    /\ \/ m.epoch = c.receive /\ m.value > c.receive /\ d.receive = m.value
       \/ m.epoch # c.receive /\ m.value = c.receive /\ d.receive = c.receive
    /\ d.send = c.send /\ d.update = c.update
    /\ Range(d.out) = Range(c.out) \union {Sealed(c, "KEY_UPDATE_ACK", m.value)}

\* The sender of the request takes its epoch over.
Completed(c, m, d) ==
    /\ m.kind = "KEY_UPDATE_ACK"
    /\ m.epoch = c.receive
    /\ c.update # 0 /\ m.value = c.update
    /\ d.send = m.value /\ d.update = 0 /\ d.receive = c.receive
    /\ Range(d.out) = Range(c.out)

\* A request moves the receive epoch only when its acknowledgement was sent.
LEMMA ProcessKeyUpdateEffect ==
    ASSUME NEW p, NEW c, Good(p, c), ~c.stop, c.state = "CONNECTED",
           NEW m, m.kind = "KEY_UPDATE", NEW fail
    PROVE  LET d == ProcessKeyUpdate(c, m, fail)
           IN  /\ Good(p, d) /\ Grows(c, d) /\ d.state = c.state
               /\ (SameEpochs(c, d) /\ NoKeyPacket(c, d)) \/ Answered(c, m, d)
  <1> DEFINE acked == SendKeyUpdateAck(c, m.value, fail)
             ack == Sealed(c, "KEY_UPDATE_ACK", m.value)
             rotates == m.epoch = c.receive /\ m.value > c.receive
             repeated == m.epoch # c.receive /\ m.value = c.receive
             rotated == [UpdateReceiveKeyEpoch(acked, m.value) EXCEPT !.expiry = KeepTicks + 1]
             kept == [acked EXCEPT !.expiry = KeepTicks + 1]
  <1>1. /\ Good(p, acked) /\ Grows(c, acked) /\ SameEpochs(c, acked) /\ acked.state = c.state
        /\ \/ Range(acked.out) = Range(c.out) /\ acked.stop
           \/ Range(acked.out) = Range(c.out) \union {ack} /\ acked.stop = c.stop
    <2>1. "KEY_UPDATE_ACK" \in Kinds \ {"FINISHED"}
      BY Zenon DEF Kinds
    <2> QED
      BY <2>1, SendSealedEffect DEF SendKeyUpdateAck
  <1>2. ProcessKeyUpdate(c, m, fail) =
            IF ~rotates /\ ~repeated THEN c
            ELSE IF acked.stop THEN acked
            ELSE IF rotates THEN rotated ELSE kept
    BY Zenon DEF ProcessKeyUpdate
  <1> HIDE DEF acked, ack
  <1>3. /\ DOMAIN rotated = Fields /\ rotated.out = acked.out /\ rotated.events = acked.events
        /\ rotated.state = acked.state /\ rotated.incoming_pending = acked.incoming_pending
        /\ rotated.finished_sent = acked.finished_sent
        /\ rotated.receive = m.value /\ rotated.send = acked.send /\ rotated.update = acked.update
    BY <1>1, Zenon DEF UpdateReceiveKeyEpoch, Good, Fields
  <1>4. Relevant(acked, kept)
    BY <1>1, Zenon DEF Good, Fields, Relevant, SameEpochs
  <1> HIDE DEF rotated, kept
  <1>5. Good(p, rotated) /\ Grows(c, rotated) /\ rotated.state = c.state
    BY <1>1, <1>3, Zenon DEF Good, Vouches, HasConnected, Grows
  <1>6. Good(p, kept) /\ Grows(c, kept) /\ kept.state = c.state /\ SameEpochs(c, kept)
    BY <1>1, <1>4, RelevantIsPlain, ZenonT(30) DEF Plain, Relevant, Grows, SameEpochs
  <1>7. CASE ~rotates /\ ~repeated
    BY <1>2, <1>7, ZenonT(30) DEF Grows, SameEpochs, NoKeyPacket
  <1>8. CASE (rotates \/ repeated) /\ acked.stop
    BY <1>1, <1>2, <1>8, ZenonT(30) DEF NoKeyPacket
  <1>9. CASE (rotates \/ repeated) /\ ~acked.stop
    <2>1. Range(acked.out) = Range(c.out) \union {ack}
      BY <1>1, <1>9, Zenon
    <2>2. CASE rotates
      <3>1. ProcessKeyUpdate(c, m, fail) = rotated
        BY <1>2, <1>9, <2>2, ZenonT(30)
      <3>2. Answered(c, m, rotated)
        BY <1>1, <1>3, <2>1, <2>2, ZenonT(30) DEF Answered, SameEpochs, ack
      <3> QED
        BY <3>1, <3>2, <1>5, ZenonT(30)
    <2>3. CASE ~rotates /\ repeated
      <3>1. ProcessKeyUpdate(c, m, fail) = kept
        BY <1>2, <1>9, <2>3, ZenonT(30)
      <3>2. Answered(c, m, kept)
        BY <1>1, <1>4, <2>1, <2>3, ZenonT(30) DEF Answered, SameEpochs, Relevant, ack
      <3> QED
        BY <3>1, <3>2, <1>6, ZenonT(30)
    <2> QED
      BY <1>9, <2>2, <2>3, ZenonT(30)
  <1> QED
    BY <1>7, <1>8, <1>9, ZenonT(30)

\* What process_datagram does with one datagram.
Handled(p, c, m, d) ==
    /\ Good(p, d) /\ Grows(c, d)
    /\ Connects(c, d) => m.kind = "FINISHED"
    /\ \/ SameEpochs(c, d) /\ NoKeyPacket(c, d)
       \/ Answered(c, m, d)
       \/ Completed(c, m, d)

\* An acknowledgement moves the send epoch only when it answers the pending update.
LEMMA ProcessKeyUpdateAckEffect ==
    ASSUME NEW p, NEW c, Good(p, c), c.state = "CONNECTED", NEW m, m.kind = "KEY_UPDATE_ACK",
           m.epoch = c.receive
    PROVE  Handled(p, c, m, ProcessKeyUpdateAck(c, m))
  <1> DEFINE d == [c EXCEPT !.send = m.value, !.number_used = FALSE, !.update = 0, !.update_due = FALSE]
  <1>1. /\ DOMAIN d = Fields /\ d.out = c.out /\ d.events = c.events
        /\ d.state = c.state /\ d.incoming_pending = c.incoming_pending
        /\ d.finished_sent = c.finished_sent
        /\ d.send = m.value /\ d.receive = c.receive /\ d.update = 0
    BY Zenon DEF Good, Fields
  <1>2. ProcessKeyUpdateAck(c, m) = IF c.update = 0 \/ m.value # c.update THEN c ELSE d
    BY Zenon DEF ProcessKeyUpdateAck
  <1> HIDE DEF d
  <1>3. Good(p, d) /\ Grows(c, d) /\ ~Connects(c, d)
    BY <1>1, Zenon DEF Good, Vouches, HasConnected, Grows, Connects
  <1>4. CASE c.update = 0 \/ m.value # c.update
    BY <1>2, <1>4, PlainRefl, ZenonT(30) DEF Handled, Plain, Connects
  <1>5. CASE ~(c.update = 0 \/ m.value # c.update)
    BY <1>1, <1>2, <1>3, <1>5, ZenonT(30) DEF Handled, Completed
  <1> QED
    BY <1>4, <1>5, ZenonT(30)

\* A sealed packet is handled by its kind, or dropped.
LEMMA ProcessSealedEffect ==
    ASSUME NEW p, NEW c, Good(p, c), ~c.stop, NEW m, m.kind \in KeyKinds \union {"CLOSE"}, NEW fail
    PROVE  Handled(p, c, m, ProcessSealed(c, m, fail))
  <1> DEFINE closed == [c EXCEPT !.state = "CLOSED"]
             told == Event(closed, "CLOSED")
  <1>1. CASE c.state # "CONNECTED" \/ ~Opens(c, m)
    <2>1. ProcessSealed(c, m, fail) = c
      BY <1>1, Zenon DEF ProcessSealed
    <2> QED
      BY <2>1, PlainRefl, Zenon DEF Handled, Plain, Connects
  <1>2. CASE c.state = "CONNECTED" /\ Opens(c, m) /\ m.kind = "KEY_UPDATE"
    <2>1. ProcessSealed(c, m, fail) = ProcessKeyUpdate(c, m, fail)
      BY <1>2, Zenon DEF ProcessSealed
    <2> QED
      BY <1>2, <2>1, ProcessKeyUpdateEffect DEF Handled, Connects
  <1>3. CASE c.state = "CONNECTED" /\ Opens(c, m) /\ m.kind = "KEY_UPDATE_ACK"
    <2>1. ProcessSealed(c, m, fail) = ProcessKeyUpdateAck(c, m) /\ m.epoch = c.receive
      BY <1>3, Zenon DEF ProcessSealed, Opens
    <2> QED
      BY <1>3, <2>1, ProcessKeyUpdateAckEffect, Zenon
  <1>4. CASE c.state = "CONNECTED" /\ Opens(c, m) /\ m.kind = "CLOSE"
    <2>1. ProcessSealed(c, m, fail) = told
      BY <1>4, Zenon DEF ProcessSealed
    <2>2. Plain(p, c, closed) /\ closed.state = "CLOSED"
      BY <1>4, Zenon DEF Fields, Good, Vouches, HasConnected, Plain, Grows, SameEpochs, NoKeyPacket
    <2> HIDE DEF closed
    <2>3. Plain(p, c, told) /\ told.state = "CLOSED"
      BY <2>2, EventPlain, PlainTrans DEF Plain
    <2> QED
      BY <2>1, <2>3, Zenon DEF Plain, Handled, Connects
  <1> QED
    BY <1>1, <1>2, <1>3, <1>4, ZenonT(30) DEF KeyKinds

\* Only a finished value connects a side.
LEMMA ProcessDatagramEffect ==
    ASSUME NEW p \in Sides, NEW c, Good(p, c), ~c.stop, NEW m, m.kind \in Kinds, NEW fail
    PROVE  Handled(p, c, m, ProcessDatagram(c, m, p, fail))
  <1>1. CASE m.kind = "RETRY"
    BY <1>1, ProcessRetryPlain, Zenon DEF ProcessDatagram, Handled, Plain
  <1>2. CASE m.kind = "HELLO"
    BY <1>2, ProcessHelloPlain, Zenon DEF ProcessDatagram, Handled, Plain
  <1>3. CASE m.kind = "FINISHED"
    BY <1>3, ProcessFinishedPlain, Zenon DEF ProcessDatagram, Handled, Plain
  <1>4. CASE m.kind \in KeyKinds \union {"CLOSE"}
    <2>1. ProcessDatagram(c, m, p, fail) = ProcessSealed(c, m, fail)
      BY <1>4, Zenon DEF ProcessDatagram, KeyKinds
    <2> QED
      BY <1>4, <2>1, ProcessSealedEffect, ZenonT(30)
  <1> QED
    BY <1>1, <1>2, <1>3, <1>4, ZenonT(30) DEF Kinds, KeyKinds

-----------------------------------------------------------------------------
(* The timers *)

\* At most the pending request is sent again.
Advanced(p, c, d) ==
    /\ Good(p, d) /\ Grows(c, d) /\ SameEpochs(c, d) /\ ~Connects(c, d)
    /\ \A m \in Range(d.out) :
        \/ m \in Range(c.out)
        \/ m.kind \notin KeyKinds
        \/ c.update # 0 /\ m = Sealed(c, "KEY_UPDATE", c.update)

LEMMA PlainIsAdvanced ==
    ASSUME NEW p, NEW c, NEW d, Plain(p, c, d), ~Connects(c, d)
    PROVE  Advanced(p, c, d)
  BY Zenon DEF Plain, Advanced, NoKeyPacket

\* A change of the fields that do not matter, before or after.
LEMMA RelevantAdvanced ==
    ASSUME NEW p, NEW c, NEW d, NEW e, Good(p, c),
           \/ Relevant(c, d) /\ Advanced(p, d, e)
           \/ Advanced(p, c, d) /\ Relevant(d, e)
    PROVE  Advanced(p, c, e)
  <1>1. CASE Relevant(c, d) /\ Advanced(p, d, e)
    BY <1>1, Zenon DEF Relevant, Advanced, Grows, SameEpochs, Connects, Sealed
  <1>2. CASE Advanced(p, c, d) /\ Relevant(d, e)
    <2>1. Plain(p, d, e)
      BY <1>2, RelevantIsPlain, Zenon DEF Advanced
    <2> QED
      BY <1>2, <2>1, Zenon DEF Plain, Relevant, Advanced, Grows, SameEpochs, Connects
  <1> QED
    BY <1>1, <1>2, Zenon

\* At most the pending request is sent again.
LEMMA RetryKeyUpdateEffect ==
    ASSUME NEW p, NEW c, Good(p, c), NEW fail
    PROVE  Advanced(p, c, RetryKeyUpdate(c, fail))
  <1> DEFINE sent == SendKeyUpdate(c, c.update, fail)
             done == [sent EXCEPT !.update_due = FALSE]
             request == Sealed(c, "KEY_UPDATE", c.update)
  <1>1. /\ Good(p, sent) /\ Grows(c, sent) /\ SameEpochs(c, sent) /\ sent.state = c.state
        /\ Range(sent.out) \subseteq Range(c.out) \union {request}
    <2>1. "KEY_UPDATE" \in Kinds \ {"FINISHED"}
      BY Zenon DEF Kinds
    <2> QED
      BY <2>1, SendSealedEffect DEF SendKeyUpdate
  <1>2. RetryKeyUpdate(c, fail) = IF c.update = 0 \/ ~c.update_due THEN c
                                  ELSE IF sent.stop THEN sent ELSE done
    BY Zenon DEF RetryKeyUpdate
  <1> HIDE DEF sent
  <1>3. Relevant(sent, done)
    BY <1>1, Zenon DEF Good, Fields, Relevant, SameEpochs
  <1> HIDE DEF done
  <1>4. CASE c.update = 0 \/ ~c.update_due
    BY <1>2, <1>4, PlainRefl, PlainIsAdvanced, Zenon DEF Connects
  <1>5. CASE ~(c.update = 0 \/ ~c.update_due)
    <2>1. Advanced(p, c, sent)
      BY <1>1, <1>5, Zenon DEF Advanced, Connects
    <2> QED
      BY <1>2, <1>3, <1>5, <2>1, RelevantAdvanced, Zenon
  <1> QED
    BY <1>4, <1>5, Zenon

\* The timers repeat what is pending and connect nobody.
LEMMA AdvanceConnectionEffect ==
    ASSUME NEW p \in Sides, NEW c, Good(p, c), NEW fail
    PROVE  Advanced(p, c, AdvanceConnection(c, p, fail))
  <1> DEFINE kept == IF c.expiry = 1 THEN ClearPreviousReceiveKey(c) ELSE c
  <1>1. Relevant(c, kept)
    BY Zenon DEF ClearPreviousReceiveKey, Good, Fields, Relevant, SameEpochs
  <1>2. Good(p, kept) /\ kept.state = c.state
    BY <1>1, RelevantIsPlain, Zenon DEF Plain, Relevant
  <1>3. AdvanceConnection(c, p, fail) =
            CASE c.state = "HANDSHAKING" -> RetryHandshake(kept, p, fail)
              [] c.state = "CONNECTED" -> RetryKeyUpdate(kept, fail)
              [] OTHER -> c
    BY Zenon DEF AdvanceConnection
  <1> HIDE DEF kept
  <1>4. CASE c.state = "HANDSHAKING"
    BY <1>1, <1>2, <1>3, <1>4, RetryHandshakePlain, PlainIsAdvanced, RelevantAdvanced, ZenonT(30)
  <1>5. CASE c.state = "CONNECTED"
    BY <1>1, <1>2, <1>3, <1>5, RetryKeyUpdateEffect, RelevantAdvanced, ZenonT(30)
  <1>6. CASE c.state \notin {"HANDSHAKING", "CONNECTED"}
    BY <1>3, <1>6, PlainRefl, PlainIsAdvanced, ZenonT(30) DEF Connects
  <1> QED
    BY <1>4, <1>5, <1>6, ZenonT(30)

-----------------------------------------------------------------------------
(* One poll *)

\* What is put out besides the handshake and the end of the connection.
Repeats(c, d) ==
    \A m \in Range(d.out) : m.kind \in KeyKinds => c.update # 0 /\ m = Sealed(c, "KEY_UPDATE", c.update)

\* The datagram m, or none, and then the timers, seen from a record c that has
\* nothing put out.
PolledTo(c, m, d) ==
    \/ SameEpochs(c, d) /\ Repeats(c, d)
    \/ /\ m.kind = "KEY_UPDATE"
       /\ \/ m.epoch = c.receive /\ m.value > c.receive /\ d.receive = m.value
          \/ m.epoch # c.receive /\ m.value = c.receive /\ d.receive = c.receive
       /\ d.send = c.send /\ d.update = c.update
       /\ \A x \in Range(d.out) : x.kind \in KeyKinds =>
            \/ x = Sealed(c, "KEY_UPDATE_ACK", m.value)
            \/ c.update # 0 /\ x = Sealed(c, "KEY_UPDATE", c.update)
    \/ /\ m.kind = "KEY_UPDATE_ACK" /\ m.epoch = c.receive
       /\ c.update # 0 /\ m.value = c.update
       /\ d.send = m.value /\ d.update = 0 /\ d.receive = c.receive
       /\ \A x \in Range(d.out) : x.kind \notin KeyKinds

LEMMA HandledThenAdvanced ==
    ASSUME NEW p, NEW c, c.out = <<>>, NEW m, NEW r, NEW d, Handled(p, c, m, r), Advanced(p, r, d)
    PROVE  /\ Good(p, d) /\ Grows(c, d) /\ PolledTo(c, m, d)
           /\ Connects(c, d) => m.kind = "FINISHED"
  <1>1. Range(c.out) = {}
    BY EmptyRange, Zenon
  <1>2. Good(p, d) /\ Grows(c, d)
    BY Zenon DEF Handled, Advanced, Grows
  <1>3. Connects(c, d) => m.kind = "FINISHED"
    BY Zenon DEF Handled, Advanced, Connects
  <1>4. CASE SameEpochs(c, r) /\ NoKeyPacket(c, r)
    <2>1. SameEpochs(c, d) /\ Sealed(r, "KEY_UPDATE", r.update) = Sealed(c, "KEY_UPDATE", c.update)
      BY <1>4, Zenon DEF Advanced, SameEpochs, Sealed
    <2>2. Repeats(c, d)
      BY <1>1, <1>4, <2>1, ZenonT(30) DEF Advanced, SameEpochs, NoKeyPacket, Repeats
    <2> QED
      BY <1>2, <1>3, <2>1, <2>2, ZenonT(30) DEF PolledTo
  <1>5. CASE Answered(c, m, r)
    <2>1. /\ r.send = c.send /\ r.update = c.update /\ d.send = r.send /\ d.update = r.update
          /\ d.receive = r.receive
      BY <1>5, Zenon DEF Answered, Advanced, SameEpochs
    <2>2. Range(r.out) = {Sealed(c, "KEY_UPDATE_ACK", m.value)}
      BY <1>1, <1>5, Zenon DEF Answered
    <2>3. Sealed(r, "KEY_UPDATE", r.update) = Sealed(c, "KEY_UPDATE", c.update)
      BY <2>1, Zenon DEF Sealed
    <2>4. \A x \in Range(d.out) : x.kind \in KeyKinds =>
            \/ x = Sealed(c, "KEY_UPDATE_ACK", m.value)
            \/ c.update # 0 /\ x = Sealed(c, "KEY_UPDATE", c.update)
      BY <2>1, <2>2, <2>3, ZenonT(30) DEF Advanced
    <2> QED
      BY <1>2, <1>3, <1>5, <2>1, <2>4, ZenonT(30) DEF Answered, PolledTo
  <1>6. CASE Completed(c, m, r)
    <2>1. \A x \in Range(d.out) : x.kind \notin KeyKinds
      BY <1>1, <1>6, Zenon DEF Completed, Advanced
    <2> QED
      BY <1>2, <1>3, <1>6, <2>1, ZenonT(30) DEF Completed, Advanced, SameEpochs, PolledTo
  <1> QED
    BY <1>2, <1>3, <1>4, <1>5, <1>6, ZenonT(30) DEF Handled

\* One poll handles at most one datagram, and then the timers.
LEMMA PolledEffect ==
    ASSUME NEW p \in Sides, Good(p, conn[p]), conn[p].out = <<>>, ~conn[p].stop,
           NEW fail, NEW e, e.data.kind \in Kinds, NEW arrived, arrived \in {{}, {e}}
    PROVE  LET d == Polled(p, arrived, fail)
           IN  /\ Good(p, d) /\ Grows(conn[p], d)
               /\ arrived = {e} => PolledTo(conn[p], e.data, d)
               /\ arrived = {} => SameEpochs(conn[p], d) /\ Repeats(conn[p], d)
               /\ Connects(conn[p], d) => arrived = {e} /\ e.data.kind = "FINISHED"
  <1> DEFINE c == conn[p]
             r == IF arrived = {} THEN c
                  ELSE ProcessDatagram(c, (CHOOSE x \in arrived : TRUE).data, p, fail)
             s == [r EXCEPT !.stop = FALSE]
             a == AdvanceConnection(s, p, fail)
             d == [a EXCEPT !.polled = TRUE]
  <1>1. Polled(p, arrived, fail) = d
    BY Zenon DEF Polled
  <1>2. ASSUME arrived = {e} PROVE Handled(p, c, e.data, r)
    <2>1. (CHOOSE x \in arrived : TRUE) = e /\ arrived # {}
      BY <1>2, Zenon
    <2> QED
      BY <2>1, ProcessDatagramEffect, Zenon
  <1>3. Good(p, r)
    BY <1>2, Zenon DEF Handled
  <1>4. arrived = {} => r = c
    OBVIOUS
  <1> HIDE DEF r
  <1>5. Relevant(r, s)
    BY <1>3, Zenon DEF Good, Fields, Relevant, SameEpochs
  <1> HIDE DEF s
  <1>6. Good(p, s)
    BY <1>3, <1>5, RelevantIsPlain, ZenonT(30) DEF Plain
  <1>7. Advanced(p, s, a)
    BY <1>6, AdvanceConnectionEffect, Zenon
  <1> HIDE DEF a
  <1>8. Relevant(a, d)
    BY <1>7, Zenon DEF Advanced, Good, Fields, Relevant, SameEpochs
  <1> HIDE DEF d
  <1>9. Advanced(p, r, d)
    <2>1. Advanced(p, s, d)
      BY <1>6, <1>7, <1>8, RelevantAdvanced, ZenonT(30)
    <2> QED
      BY <1>3, <1>5, <2>1, RelevantAdvanced, ZenonT(30)
  <1>10. CASE arrived = {e}
    BY <1>1, <1>2, <1>9, <1>10, HandledThenAdvanced, ZenonT(30)
  <1>11. CASE arrived = {}
    <2>1. Advanced(p, c, d) /\ Range(c.out) = {}
      BY <1>4, <1>9, <1>11, EmptyRange, ZenonT(30)
    <2> QED
      BY <1>1, <1>11, <2>1, ZenonT(30) DEF Advanced, Repeats
  <1> QED
    BY <1>10, <1>11, Zenon

-----------------------------------------------------------------------------
(* The handshake of both sides *)

\* A finished value in flight is as good as its sender, and nobody is connected
\* to a side that has not sent one.
HandshakeInv ==
    /\ conn = [p \in Sides |-> conn[p]]
    /\ \A p \in Sides :
        /\ Good(p, conn[p]) /\ conn[p].out = <<>> /\ ~conn[p].stop
        /\ conn[p].state = "CONNECTED" => Vouches(Other(p), conn[Other(p)])
    /\ \A e \in net :
        /\ DOMAIN e = {"to", "data", "copy"} /\ e.to \in Sides /\ e.data.kind \in Kinds
        /\ e.data.kind = "FINISHED" => Vouches(Other(e.to), conn[Other(e.to)])

LEMMA OtherSide ==
    \A p \in Sides : Other(p) \in Sides /\ Other(p) # p /\ Other(Other(p)) = p
  BY Zenon DEF Sides, Other

\* What Install leaves in the record.
LEMMA Installed ==
    ASSUME HandshakeInv, NEW p \in Sides, NEW d, Good(p, d), NEW arrived, Install(p, d, arrived)
    PROVE  /\ conn' = [q \in Sides |-> conn'[q]]
           /\ Good(p, conn'[p]) /\ conn'[p].out = <<>> /\ ~conn'[p].stop
           /\ conn'[p].state = d.state /\ SameEpochs(d, conn'[p])
           /\ conn'[p].finished_sent = d.finished_sent /\ conn'[p].events = d.events
           /\ conn'[Other(p)] = conn[Other(p)]
           /\ net' = (net \ arrived)
                \union {[to |-> Other(p), data |-> d.out[i], copy |-> 0] : i \in DOMAIN d.out}
  <1> DEFINE c == [d EXCEPT !.out = <<>>, !.stop = FALSE]
  <1>1. /\ DOMAIN c = Fields /\ c.out = <<>> /\ c.stop = FALSE /\ c.state = d.state
        /\ c.finished_sent = d.finished_sent /\ c.events = d.events
        /\ c.incoming_pending = d.incoming_pending /\ SameEpochs(d, c)
    BY Zenon DEF Good, Fields, SameEpochs
  <1>2. conn' = [conn EXCEPT ![p] = c]
    BY Zenon DEF Install
  <1> HIDE DEF c
  <1>3. Good(p, c)
    BY <1>1, EmptyRange, ZenonT(30) DEF Good, HasConnected, SameEpochs
  <1>4. conn'[p] = c /\ conn'[Other(p)] = conn[Other(p)] /\ conn' = [q \in Sides |-> conn'[q]]
    BY <1>2, OtherSide, Zenon DEF HandshakeInv
  <1> QED
    BY <1>1, <1>3, <1>4, ZenonT(30) DEF Install

\* A record that is Good may be installed if it still vouches for what its side
\* sent, and if the other side vouches for a connection.
LEMMA InstallKeepsHandshake ==
    ASSUME HandshakeInv, NEW p \in Sides, NEW d, Good(p, d), NEW arrived, Install(p, d, arrived),
           Vouches(p, conn[p]) => Vouches(p, d),
           Connects(conn[p], d) => Vouches(Other(p), conn[Other(p)])
    PROVE  HandshakeInv'
  <1> DEFINE o == Other(p)
  <1>1. /\ conn' = [q \in Sides |-> conn'[q]]
        /\ Good(p, conn'[p]) /\ conn'[p].out = <<>> /\ ~conn'[p].stop
        /\ conn'[p].state = d.state
        /\ conn'[p].finished_sent = d.finished_sent /\ conn'[p].events = d.events
        /\ conn'[o] = conn[o]
        /\ net' = (net \ arrived)
                \union {[to |-> o, data |-> d.out[i], copy |-> 0] : i \in DOMAIN d.out}
    BY Installed, Zenon
  <1>2. o \in Sides /\ o # p /\ Other(o) = p /\ \A q \in Sides : q = p \/ q = o
    BY Zenon DEF Sides, Other
  <1> HIDE DEF o
  <1>3. /\ Vouches(p, d) => Vouches(p, conn'[p])
        /\ Vouches(o, conn[o]) => Vouches(o, conn'[o])
        /\ Vouches(p, conn[p]) => Vouches(p, conn'[p])
    BY <1>1, Zenon DEF Vouches, HasConnected
  <1>4. \A q \in Sides :
            /\ Good(q, conn'[q]) /\ conn'[q].out = <<>> /\ ~conn'[q].stop
            /\ conn'[q].state = "CONNECTED" => Vouches(Other(q), conn'[Other(q)])
    <2>1. /\ Good(o, conn'[o]) /\ conn'[o].out = <<>> /\ ~conn'[o].stop
          /\ conn'[o].state = "CONNECTED" => Vouches(p, conn'[p])
      BY <1>1, <1>2, <1>3, Zenon DEF HandshakeInv
    <2>2. conn'[p].state = "CONNECTED" => Vouches(o, conn'[o])
      BY <1>1, <1>2, <1>3, ZenonT(30) DEF HandshakeInv, Connects, o
    <2> QED
      BY <1>1, <1>2, <2>1, <2>2, ZenonT(30) DEF o
  <1>5. ASSUME NEW e \in net'
        PROVE  /\ DOMAIN e = {"to", "data", "copy"} /\ e.to \in Sides /\ e.data.kind \in Kinds
               /\ e.data.kind = "FINISHED" => Vouches(Other(e.to), conn'[Other(e.to)])
    <2>1. CASE e \in net
      BY <2>1, <1>2, <1>3, OtherSide DEF HandshakeInv
    <2>2. ASSUME NEW i \in DOMAIN d.out, e = [to |-> o, data |-> d.out[i], copy |-> 0]
          PROVE  /\ DOMAIN e = {"to", "data", "copy"} /\ e.to \in Sides /\ e.data.kind \in Kinds
                 /\ e.data.kind = "FINISHED" => Vouches(Other(e.to), conn'[Other(e.to)])
      <3>1. e.to = o /\ e.data = d.out[i] /\ DOMAIN e = {"to", "data", "copy"}
        BY <2>2, Zenon
      <3>2. d.out[i] \in Range(d.out)
        BY Zenon DEF Range
      <3> QED
        BY <3>1, <3>2, <1>2, <1>3, Zenon DEF Good
    <2> QED
      BY <1>1, <2>1, <2>2, ZenonT(30)
  <1> QED
    BY <1>1, <1>4, <1>5, Zenon DEF HandshakeInv

\* What a side vouched for stays true.
LEMMA GrowsVouches ==
    ASSUME NEW p, NEW c, NEW d, Grows(c, d), Vouches(p, c)
    PROVE  Vouches(p, d)
  BY Zenon DEF Grows, Vouches, HasConnected

-----------------------------------------------------------------------------
(* The actions *)

\* request_connection_key_update has put its request out, or the network lost it.
Asked(c, d) ==
    /\ c.update = 0 /\ d.update \in Nat /\ d.update > c.send
    /\ d.send = c.send /\ d.receive = c.receive
    /\ \A x \in Range(d.out) : x.kind \in KeyKinds => x = Sealed(c, "KEY_UPDATE", d.update)

\* Every action of one side installs a record d of this kind.
SideStep(p, d, arrived) ==
    /\ Install(p, d, arrived)
    /\ Good(p, d)
    /\ Vouches(p, conn[p]) => Vouches(p, d)
    /\ Connects(conn[p], d) => Vouches(Other(p), conn[Other(p)])
    /\ \/ SameEpochs(conn[p], d) /\ Repeats(conn[p], d)
       \/ Asked(conn[p], d)
       \/ \E e \in net : e.to = p /\ PolledTo(conn[p], e.data, d)

LEMMA PlainSideStep ==
    ASSUME HandshakeInv, NEW p \in Sides, NEW d, Plain(p, conn[p], d), ~Connects(conn[p], d),
           NEW arrived, Install(p, d, arrived)
    PROVE  SideStep(p, d, arrived)
  <1>1. conn[p].out = <<>>
    BY Zenon DEF HandshakeInv
  <1>2. Repeats(conn[p], d)
    BY <1>1, EmptyRange, Zenon DEF Plain, NoKeyPacket, Repeats
  <1> QED
    BY <1>2, GrowsVouches, Zenon DEF Plain, SideStep

LEMMA OpenStep ==
    ASSUME HandshakeInv, Open
    PROVE  \E d, arrived : SideStep("client", d, arrived)
  <1> DEFINE c == conn["client"]
             opened == [NewConnection EXCEPT !.state = "HANDSHAKING", !.attempts = 1]
             told == Event(opened, "CONNECTING")
             d == SendHello(told, "none")
  <1>1. Install("client", d, {}) /\ c.state = "NONE"
    BY Zenon DEF Open
  <1>2. /\ DOMAIN opened = Fields /\ opened.state = "HANDSHAKING" /\ opened.incoming_pending = FALSE
        /\ opened.finished_sent = FALSE /\ opened.events = <<>> /\ opened.out = <<>>
        /\ opened.send = 0 /\ opened.receive = 0 /\ opened.update = 0
    BY Zenon DEF NewConnection, Fields
  <1> HIDE DEF opened
  <1>3. Good("client", opened)
    BY <1>2, EmptyRange, ZenonT(30) DEF Good, Vouches
  <1>4. Plain("client", opened, told) /\ told.state = "HANDSHAKING"
    BY <1>2, <1>3, EventPlain, ZenonT(30)
  <1> HIDE DEF told
  <1>5. Plain("client", opened, d) /\ d.state = "HANDSHAKING"
    BY <1>4, SendHelloPlain, PlainTrans, ZenonT(30) DEF Plain
  <1> HIDE DEF d
  <1>6. "client" \in Sides /\ Good("client", c)
    BY Zenon DEF HandshakeInv, Sides
  <1>7. ~Vouches("client", c) /\ c.send = 0 /\ c.receive = 0 /\ c.update = 0
    BY <1>1, <1>6, ZenonT(30) DEF Good, Vouches
  <1>8. SameEpochs(c, d) /\ Repeats(c, d)
    BY <1>2, <1>5, <1>7, EmptyRange, ZenonT(30) DEF Plain, SameEpochs, NoKeyPacket, Repeats
  <1>9. SideStep("client", d, {})
    BY <1>1, <1>5, <1>7, <1>8, ZenonT(30) DEF Plain, SideStep, Connects
  <1> QED
    BY <1>9, Zenon

LEMMA AcceptStep ==
    ASSUME HandshakeInv, NEW fail, Accept(fail)
    PROVE  \E d, arrived : SideStep("server", d, arrived)
  <1> DEFINE c == conn["server"]
             accepted == [c EXCEPT !.incoming_pending = FALSE]
             answer == SendFinished(SendHello(accepted, fail), fail)
             d == IF answer.stop THEN Fail(answer) ELSE [answer EXCEPT !.attempts = 1]
  <1>1. Install("server", d, {}) /\ c.state = "HANDSHAKING"
    BY Zenon DEF Accept, IsRequest
  <1>2. "server" \in Sides /\ Good("server", c)
    BY Zenon DEF HandshakeInv, Sides
  <1>3. /\ Plain("server", c, accepted) /\ accepted.state = "HANDSHAKING"
        /\ accepted.incoming_pending = FALSE
    BY <1>1, <1>2, Zenon DEF Good, Fields, Vouches, HasConnected, Plain, Grows, SameEpochs, NoKeyPacket
  <1> HIDE DEF accepted
  <1>4. Plain("server", c, answer) /\ answer.state = "HANDSHAKING"
    BY <1>3, FlightPlain, PlainTrans DEF Plain
  <1> HIDE DEF answer
  <1>5. Plain("server", c, d) /\ d.state # "CONNECTED"
    BY <1>4, FailPlain, AttemptsPlain, PlainTrans DEF Plain
  <1> HIDE DEF d
  <1>6. SideStep("server", d, {})
    BY <1>1, <1>2, <1>5, PlainSideStep, Zenon DEF Connects
  <1> QED
    BY <1>6, Zenon

LEMMA RejectStep ==
    ASSUME HandshakeInv, Reject
    PROVE  \E d, arrived : SideStep("server", d, arrived)
  <1> DEFINE c == conn["server"]
             refused == [c EXCEPT !.incoming_pending = FALSE]
             d == Fail(refused)
  <1>1. Install("server", d, {}) /\ c.state = "HANDSHAKING"
    BY Zenon DEF Reject, IsRequest
  <1>2. "server" \in Sides /\ Good("server", c)
    BY Zenon DEF HandshakeInv, Sides
  <1>3. Plain("server", c, refused)
    BY <1>1, <1>2, ZenonT(30) DEF Good, Fields, Vouches, HasConnected, Plain, Grows, SameEpochs, NoKeyPacket
  <1> HIDE DEF refused
  <1>4. Plain("server", c, d) /\ d.state = "FAILED"
    BY <1>3, FailPlain, PlainTrans, ZenonT(30) DEF Plain
  <1> HIDE DEF d
  <1>5. SideStep("server", d, {})
    BY <1>1, <1>2, <1>4, PlainSideStep, ZenonT(30) DEF Connects
  <1> QED
    BY <1>5, Zenon

LEMMA RequestKeyUpdateStep ==
    ASSUME HandshakeInv, NEW p \in Sides, NEW next \in Nat, NEW fail, RequestKeyUpdate(p, next, fail)
    PROVE  \E d, arrived : SideStep(p, d, arrived)
  <1> DEFINE c == conn[p]
             sent == SendKeyUpdate(c, next, fail)
             pending == [sent EXCEPT !.update = next, !.update_due = FALSE]
             d == IF sent.stop THEN sent ELSE pending
  <1>1. /\ Install(p, d, {}) /\ c.state = "CONNECTED" /\ c.update = 0 /\ next > c.send
    BY Zenon DEF RequestKeyUpdate
  <1>2. Good(p, c) /\ ~c.stop /\ Range(c.out) = {}
    BY EmptyRange, Zenon DEF HandshakeInv
  <1>3. /\ Good(p, sent) /\ Grows(c, sent) /\ SameEpochs(c, sent) /\ sent.state = c.state
        /\ \/ Range(sent.out) = {} /\ sent.stop
           \/ Range(sent.out) = {Sealed(c, "KEY_UPDATE", next)} /\ ~sent.stop
    <2>1. "KEY_UPDATE" \in Kinds \ {"FINISHED"}
      BY Zenon DEF Kinds
    <2>2. LET x == SendSealed(c, "KEY_UPDATE", next, fail = "update")
          IN  /\ Good(p, x) /\ Grows(c, x) /\ SameEpochs(c, x) /\ x.state = c.state
              /\ \/ Range(x.out) = Range(c.out) /\ x.stop
                 \/ Range(x.out) = Range(c.out) \union {Sealed(c, "KEY_UPDATE", next)} /\ x.stop = c.stop
      BY <1>2, <2>1, SendSealedEffect
    <2> QED
      BY <1>2, <2>2, Zenon DEF SendKeyUpdate
  <1> HIDE DEF sent
  <1>4. CASE sent.stop
    <2>1. Plain(p, c, sent) /\ ~Connects(c, sent)
      BY <1>3, <1>4, Zenon DEF Plain, NoKeyPacket, Connects
    <2>2. SideStep(p, sent, {})
      BY <1>1, <1>4, <2>1, PlainSideStep, Zenon
    <2> QED
      BY <2>2, Zenon
  <1>5. CASE ~sent.stop
    <2>1. /\ DOMAIN pending = Fields /\ pending.out = sent.out /\ pending.events = sent.events
          /\ pending.state = sent.state /\ pending.incoming_pending = sent.incoming_pending
          /\ pending.finished_sent = sent.finished_sent
          /\ pending.send = sent.send /\ pending.receive = sent.receive /\ pending.update = next
      BY <1>3, Zenon DEF Good, Fields
    <2> HIDE DEF pending
    <2>2. Good(p, pending) /\ Grows(c, pending)
      BY <1>1, <1>3, <2>1, Zenon DEF Good, Vouches, HasConnected, Grows
    <2>3. Asked(c, pending)
      BY <1>1, <1>3, <1>5, <2>1, ZenonT(30) DEF Asked, SameEpochs
    <2>4. SideStep(p, pending, {})
      BY <1>1, <1>3, <1>5, <2>1, <2>2, <2>3, GrowsVouches, ZenonT(30) DEF SideStep, Connects
    <2> QED
      BY <2>4, Zenon
  <1> QED
    BY <1>4, <1>5, Zenon

LEMMA CloseStep ==
    ASSUME HandshakeInv, NEW p \in Sides, NEW fail, Close(p, fail)
    PROVE  \E d, arrived : SideStep(p, d, arrived)
  <1> DEFINE c == conn[p]
             sent == SendClose(c, fail)
             closed == [sent EXCEPT !.state = "CLOSED"]
             d == Event(closed, "CLOSED")
  <1>1. Install(p, d, {}) /\ c.state # "NONE"
    BY Zenon DEF Close
  <1>2. Good(p, c)
    BY Zenon DEF HandshakeInv
  <1>3. Plain(p, c, sent)
    <2>1. "CLOSE" \in Kinds \ {"FINISHED"} /\ "CLOSE" \notin KeyKinds
      BY Zenon DEF Kinds, KeyKinds
    <2>2. Good(p, sent) /\ Grows(c, sent) /\ SameEpochs(c, sent)
          /\ Range(sent.out) \subseteq Range(c.out) \union {Sealed(c, "CLOSE", 0)}
      BY <1>2, <2>1, SendSealedEffect DEF SendClose
    <2>3. Sealed(c, "CLOSE", 0).kind = "CLOSE"
      BY Zenon DEF Sealed
    <2> HIDE DEF sent
    <2> QED
      BY <2>1, <2>2, <2>3, ZenonT(30) DEF Plain, NoKeyPacket
  <1> HIDE DEF sent
  <1>4. Plain(p, sent, closed) /\ closed.state = "CLOSED"
    BY <1>3, Zenon DEF Fields, Good, Vouches, HasConnected, Plain, Grows, SameEpochs, NoKeyPacket
  <1> HIDE DEF closed
  <1>5. Plain(p, c, d) /\ d.state = "CLOSED"
    BY <1>3, <1>4, EventPlain, PlainTrans, Zenon DEF Plain
  <1> HIDE DEF d
  <1>6. SideStep(p, d, {})
    BY <1>1, <1>5, PlainSideStep, Zenon DEF Connects
  <1> QED
    BY <1>6, Zenon

LEMMA PollStep ==
    ASSUME HandshakeInv, NEW p \in Sides, NEW arrived, NEW fail, Poll(p, arrived, fail),
           arrived = {} \/ \E e \in net : e.to = p /\ arrived = {e}
    PROVE  \E d, taken : SideStep(p, d, taken)
  <1> DEFINE c == conn[p]
             d == Polled(p, arrived, fail)
  <1>1. Install(p, d, arrived)
    BY Zenon DEF Poll
  <1>2. Good(p, c) /\ c.out = <<>> /\ ~c.stop
    BY Zenon DEF HandshakeInv
  <1>3. CASE arrived = {}
    <2>1. PICK e : e.data.kind \in Kinds
      <3>1. [data |-> [kind |-> "CLOSE"]].data.kind \in Kinds
        BY Zenon DEF Kinds
      <3> QED
        BY <3>1, Zenon
    <2>2. /\ Good(p, d) /\ Grows(c, d) /\ SameEpochs(c, d) /\ Repeats(c, d)
          /\ ~Connects(c, d)
      BY <1>2, <1>3, <2>1, PolledEffect, ZenonT(30)
    <2> HIDE DEF d
    <2>3. SideStep(p, d, arrived)
      BY <1>1, <2>2, GrowsVouches, ZenonT(30) DEF SideStep
    <2> QED
      BY <2>3, Zenon
  <1>4. ASSUME NEW e \in net, e.to = p, arrived = {e}
        PROVE  SideStep(p, d, arrived)
    <2>1. /\ Good(p, d) /\ Grows(c, d) /\ PolledTo(c, e.data, d)
          /\ Connects(c, d) => e.data.kind = "FINISHED"
      BY <1>2, <1>4, PolledEffect, ZenonT(30) DEF HandshakeInv
    <2>2. Connects(c, d) => Vouches(Other(p), conn[Other(p)])
      BY <1>4, <2>1, Zenon DEF HandshakeInv
    <2> HIDE DEF d
    <2> QED
      BY <1>1, <1>4, <2>1, <2>2, GrowsVouches, ZenonT(30) DEF SideStep
  <1> QED
    BY <1>3, <1>4, Zenon

\* Every step is one of a side, of the clock or of the network.
LEMMA StepKinds ==
    ASSUME HandshakeInv, Next
    PROVE  \/ \E p \in Sides : \E d, arrived : SideStep(p, d, arrived)
           \/ Tick \/ Lose \/ Duplicate
  <1>1. "client" \in Sides /\ "server" \in Sides
    BY Zenon DEF Sides
  <1>2. CASE Open
    BY <1>1, <1>2, OpenStep, Zenon
  <1>3. ASSUME NEW fail, Accept(fail) PROVE \E p \in Sides : \E d, arrived : SideStep(p, d, arrived)
    BY <1>1, <1>3, AcceptStep, Zenon
  <1>4. CASE Reject
    BY <1>1, <1>4, RejectStep, Zenon
  <1>5. ASSUME NEW p \in Sides, NEW next \in 1 .. MaxEpoch, NEW fail, RequestKeyUpdate(p, next, fail)
        PROVE  \E d, arrived : SideStep(p, d, arrived)
    <2>1. next \in Nat
      BY SessionAssumption
    <2> QED
      BY <1>5, <2>1, RequestKeyUpdateStep, Zenon
  <1>6. ASSUME NEW p \in Sides, NEW fail, Close(p, fail)
        PROVE  \E d, arrived : SideStep(p, d, arrived)
    BY <1>6, CloseStep, Zenon
  <1>7. ASSUME NEW p \in Sides, PollQuiet(p) \/ PollReceive(p) \/ PollFails(p)
        PROVE  \E d, arrived : SideStep(p, d, arrived)
    <2>1. CASE PollQuiet(p)
      BY <2>1, PollStep, Zenon DEF PollQuiet
    <2>2. CASE PollReceive(p)
      BY <2>2, PollStep, Zenon DEF PollReceive
    <2>3. CASE PollFails(p)
      BY <2>3, PollStep, Zenon DEF PollFails
    <2> QED
      BY <1>7, <2>1, <2>2, <2>3, Zenon
  <1> QED
    BY <1>2, <1>3, <1>4, <1>5, <1>6, <1>7, ZenonT(30) DEF Next

-----------------------------------------------------------------------------
(* The theorems *)

LEMMA AgedRelevant ==
    ASSUME NEW p, NEW c, Good(p, c)
    PROVE  Relevant(c, Aged(c)) /\ Aged(c).stop = c.stop
  BY Zenon DEF Aged, Good, Fields, Relevant, SameEpochs

LEMMA HandshakeInit == Init => HandshakeInv
  <1> SUFFICES ASSUME Init PROVE HandshakeInv
    OBVIOUS
  <1>1. /\ DOMAIN NewConnection = Fields /\ NewConnection.state = "NONE"
        /\ NewConnection.incoming_pending = FALSE /\ NewConnection.finished_sent = FALSE
        /\ NewConnection.events = <<>> /\ NewConnection.out = <<>> /\ NewConnection.stop = FALSE
        /\ NewConnection.send = 0 /\ NewConnection.receive = 0 /\ NewConnection.update = 0
    BY Zenon DEF NewConnection, Fields
  <1>2. \A p \in Sides : Good(p, NewConnection)
    BY <1>1, EmptyRange, Zenon DEF Good
  <1> QED
    BY <1>1, <1>2, Zenon DEF Init, HandshakeInv

\* The invariant is inductive.
LEMMA HandshakeNext == HandshakeInv /\ [Next]_vars => HandshakeInv'
  <1> SUFFICES ASSUME HandshakeInv, [Next]_vars PROVE HandshakeInv'
    OBVIOUS
  <1>1. ASSUME NEW p \in Sides, NEW d, NEW arrived, SideStep(p, d, arrived) PROVE HandshakeInv'
    BY <1>1, InstallKeepsHandshake, Zenon DEF SideStep
  <1>2. CASE Tick
    <2>1. conn' = [p \in Sides |-> Aged(conn[p])] /\ net' = net
      BY <1>2, Zenon DEF Tick
    <2>2. ASSUME NEW p \in Sides
          PROVE  /\ Good(p, conn'[p]) /\ conn'[p].out = <<>> /\ ~conn'[p].stop
                 /\ conn'[p].state = conn[p].state
                 /\ Vouches(p, conn[p]) => Vouches(p, conn'[p])
      <3>1. Good(p, conn[p]) /\ conn'[p] = Aged(conn[p]) /\ conn[p].out = <<>> /\ ~conn[p].stop
        BY <2>1, Zenon DEF HandshakeInv
      <3>2. Relevant(conn[p], conn'[p]) /\ conn'[p].stop = conn[p].stop
        BY <3>1, AgedRelevant, Zenon
      <3>3. Plain(p, conn[p], conn'[p])
        BY <3>1, <3>2, RelevantIsPlain, Zenon
      <3> QED
        BY <3>1, <3>2, <3>3, GrowsVouches, ZenonT(30) DEF Relevant, Plain
    <2> QED
      BY <2>1, <2>2, OtherSide, Zenon DEF HandshakeInv
  <1>3. CASE Lose
    BY <1>3, Zenon DEF Lose, HandshakeInv
  <1>4. CASE Duplicate
    <2>1. PICK e \in net : net' = net \union {[e EXCEPT !.copy = 1]}
      BY <1>4, Zenon DEF Duplicate
    <2>2. DOMAIN e = {"to", "data", "copy"}
      BY Zenon DEF HandshakeInv
    <2> DEFINE f == [e EXCEPT !.copy = 1]
    <2>3. f.to = e.to /\ f.data = e.data /\ DOMAIN f = {"to", "data", "copy"}
      BY <2>2, Zenon
    <2> HIDE DEF f
    <2>4. net' = net \union {f} /\ conn' = conn
      BY <1>4, <2>1, Zenon DEF Duplicate, f
    <2>5. \A x \in net' :
            /\ DOMAIN x = {"to", "data", "copy"} /\ x.to \in Sides /\ x.data.kind \in Kinds
            /\ x.data.kind = "FINISHED" => Vouches(Other(x.to), conn'[Other(x.to)])
      <3>1. \A x \in net :
            /\ DOMAIN x = {"to", "data", "copy"} /\ x.to \in Sides /\ x.data.kind \in Kinds
            /\ x.data.kind = "FINISHED" => Vouches(Other(x.to), conn[Other(x.to)])
        BY Zenon DEF HandshakeInv
      <3> QED
        BY <2>3, <2>4, <3>1, Zenon
    <2> QED
      BY <2>4, <2>5, Zenon DEF HandshakeInv
  <1>5. CASE UNCHANGED vars
    BY <1>5, Zenon DEF vars, HandshakeInv
  <1> QED
    BY <1>1, <1>2, <1>3, <1>4, <1>5, StepKinds, ZenonT(30)

LEMMA HandshakeIsInvariant == Spec => []HandshakeInv
  BY HandshakeInit, HandshakeNext, PTL DEF Spec

\* Neither side is ever connected to one that has not done its part: the client
\* only to a server whose application accepted, the server only to a client that
\* has verified the server and told its application so, for any number of losses,
\* copies, late timers and failed sends (process_handshake_datagram, accept).
THEOREM ConnectedSidesWereAccepted == Spec => []ConnectedMeansAccepted
  <1>1. HandshakeInv => ConnectedMeansAccepted
    <2>1. /\ "client" \in Sides /\ Other("client") = "server"
          /\ "server" \in Sides /\ Other("server") = "client"
      BY Zenon DEF Sides, Other
    <2> QED
      BY <2>1, Zenon DEF HandshakeInv, Good, Vouches, HasConnected, ConnectedMeansAccepted
  <1> QED
    BY <1>1, HandshakeIsInvariant, PTL

-----------------------------------------------------------------------------
(* The key update is that of KeyUpdate *)

Packet(m, to) == [kind |-> m.kind, to |-> to, epoch |-> m.epoch, value |-> m.value]

KeyNet == {Packet(e.data, e.to) : e \in KeyPackets}

SendEpochs == [p \in Sides |-> conn[p].send]

ReceiveEpochs == [p \in Sides |-> conn[p].receive]

Updates == [p \in Sides |-> conn[p].update]

\* Installing a record is seen by KeyUpdate as a change of its epochs and packets.
LEMMA InstalledKeys ==
    ASSUME HandshakeInv, NEW p \in Sides, NEW d, Good(p, d), NEW arrived, Install(p, d, arrived)
    PROVE  /\ SendEpochs' = [SendEpochs EXCEPT ![p] = d.send]
           /\ ReceiveEpochs' = [ReceiveEpochs EXCEPT ![p] = d.receive]
           /\ Updates' = [Updates EXCEPT ![p] = d.update]
           /\ KeyNet' \subseteq KeyNet \union
                {Packet(m, Other(p)) : m \in {x \in Range(d.out) : x.kind \in KeyKinds}}
  <1>1. /\ SameEpochs(d, conn'[p]) /\ conn'[Other(p)] = conn[Other(p)]
        /\ net' = (net \ arrived)
                \union {[to |-> Other(p), data |-> d.out[i], copy |-> 0] : i \in DOMAIN d.out}
    BY Installed, Zenon
  <1>2. \A q \in Sides : q = p \/ q = Other(p)
    BY DEF Sides, Other
  <1>3. Other(p) # p
    BY OtherSide, Zenon
  <1>4. SendEpochs' = [SendEpochs EXCEPT ![p] = d.send]
    BY <1>1, <1>2, <1>3, Zenon DEF SendEpochs, SameEpochs
  <1>5. ReceiveEpochs' = [ReceiveEpochs EXCEPT ![p] = d.receive]
    BY <1>1, <1>2, <1>3, Zenon DEF ReceiveEpochs, SameEpochs
  <1>6. Updates' = [Updates EXCEPT ![p] = d.update]
    BY <1>1, <1>2, <1>3, Zenon DEF Updates, SameEpochs
  <1>7. ASSUME NEW k \in KeyNet'
        PROVE  k \in KeyNet \union
                {Packet(m, Other(p)) : m \in {x \in Range(d.out) : x.kind \in KeyKinds}}
    <2>1. PICK e \in net' : e.data.kind \in KeyKinds /\ k = Packet(e.data, e.to)
      BY Zenon DEF KeyNet, KeyPackets, KeyKinds
    <2>2. CASE e \in net
      BY <2>1, <2>2, Zenon DEF KeyNet, KeyPackets, KeyKinds
    <2>3. ASSUME NEW i \in DOMAIN d.out, e = [to |-> Other(p), data |-> d.out[i], copy |-> 0]
          PROVE  k \in {Packet(m, Other(p)) : m \in {x \in Range(d.out) : x.kind \in KeyKinds}}
      <3>1. e.to = Other(p) /\ e.data = d.out[i]
        BY <2>3, Zenon
      <3>2. d.out[i] \in Range(d.out)
        BY Zenon DEF Range
      <3> QED
        BY <2>1, <3>1, <3>2, Zenon
    <2> QED
      BY <1>1, <2>2, <2>3, Zenon
  <1> QED
    BY <1>4, <1>5, <1>6, <1>7, ZenonT(30)

\* The packets of KeyUpdate are those of SecureSession.
LEMMA SamePackets ==
    ASSUME NEW p \in Sides, NEW n
    PROVE  /\ Packet(Sealed(conn[p], "KEY_UPDATE", n), Other(p)) = Keys!Request(p, n)
           /\ Packet(Sealed(conn[p], "KEY_UPDATE_ACK", n), Other(p)) = Keys!Acknowledgement(p, n)
           /\ conn[p].update # 0 => Keys!Request(p, conn[p].update) \in Keys!Outstanding
  <1>1. p \in Keys!Sides /\ Keys!Other(p) = Other(p)
    BY Zenon DEF Sides, Keys!Sides, Keys!Other, Other
  <1>2. /\ Packet(Sealed(conn[p], "KEY_UPDATE", n), Other(p)) = Keys!Request(p, n)
        /\ Packet(Sealed(conn[p], "KEY_UPDATE_ACK", n), Other(p)) = Keys!Acknowledgement(p, n)
    BY <1>1, Zenon DEF Packet, Sealed, Keys!Request, Keys!Acknowledgement
  <1>3. conn[p].update # 0 => Keys!Request(p, conn[p].update) \in Keys!Outstanding
    BY <1>1, Zenon DEF Keys!Outstanding
  <1> QED
    BY <1>2, <1>3, Zenon

\* The actions of KeyUpdate, in the terms of the mapping.
LEMMA MappedNet ==
    KeyNet = {[kind |-> e.data.kind, to |-> e.to, epoch |-> e.data.epoch,
               value |-> e.data.value] : e \in KeyPackets}
  BY Zenon DEF KeyNet, Packet

\* The steps of KeyUpdate, in the variables of the session.
LEMMA AskMapped ==
    ASSUME NEW p, NEW n,
           Updates[p] = 0, n > SendEpochs[p],
           Updates' = [Updates EXCEPT ![p] = n],
           KeyNet' \subseteq KeyNet \union {Keys!Request(p, n)},
           SendEpochs' = SendEpochs, ReceiveEpochs' = ReceiveEpochs
    PROVE  Keys!Ask(p, n)
  BY MappedNet, Zenon DEF Keys!Ask, SendEpochs, ReceiveEpochs, Updates, KeyNet, Packet

LEMMA AnswerMapped ==
    ASSUME NEW p, NEW m,
           m.kind = "KEY_UPDATE", m.to = p,
           \/ /\ m.epoch = ReceiveEpochs[p] /\ m.value > ReceiveEpochs[p]
              /\ ReceiveEpochs' = [ReceiveEpochs EXCEPT ![p] = m.value]
           \/ /\ m.epoch # ReceiveEpochs[p] /\ m.value = ReceiveEpochs[p]
              /\ ReceiveEpochs' = ReceiveEpochs,
           KeyNet' \subseteq KeyNet \union Keys!Outstanding \union {Keys!Acknowledgement(p, m.value)},
           SendEpochs' = SendEpochs, Updates' = Updates
    PROVE  Keys!Answer(p, m)
  BY MappedNet, Zenon DEF Keys!Answer, SendEpochs, ReceiveEpochs, Updates, KeyNet, Packet

LEMMA CompleteMapped ==
    ASSUME NEW p, NEW m,
           m.kind = "KEY_UPDATE_ACK", m.to = p,
           m.epoch = ReceiveEpochs[p], Updates[p] # 0, m.value = Updates[p],
           SendEpochs' = [SendEpochs EXCEPT ![p] = m.value],
           Updates' = [Updates EXCEPT ![p] = 0],
           KeyNet' \subseteq KeyNet, ReceiveEpochs' = ReceiveEpochs
    PROVE  Keys!Complete(p, m)
  BY MappedNet, Zenon DEF Keys!Complete, SendEpochs, ReceiveEpochs, Updates, KeyNet, Packet

LEMMA NetworkMapped ==
    ASSUME KeyNet' \subseteq KeyNet \union Keys!Outstanding,
           SendEpochs' = SendEpochs, ReceiveEpochs' = ReceiveEpochs, Updates' = Updates
    PROVE  Keys!Network
  BY MappedNet, Zenon DEF Keys!Network, SendEpochs, ReceiveEpochs, Updates, KeyNet, Packet

LEMMA KeysNext ==
    Keys!Next <=>
        \/ \E p \in Sides : Updates'[p] \in Nat /\ Keys!Ask(p, Updates'[p])
        \/ \E p \in Sides, m \in KeyNet : Keys!Answer(p, m) \/ Keys!Complete(p, m)
        \/ Keys!Network
  BY Zenon DEF Keys!Next, Keys!Sides, Sides, Updates, KeyNet, Packet

\* Every step of one side is a step of KeyUpdate.
LEMMA SideStepRefines ==
    ASSUME HandshakeInv, NEW p \in Sides, NEW d, NEW arrived, SideStep(p, d, arrived)
    PROVE  Keys!Next
  <1> DEFINE c == conn[p]
             Out == {Packet(m, Other(p)) : m \in {x \in Range(d.out) : x.kind \in KeyKinds}}
  <1>1. /\ SendEpochs' = [SendEpochs EXCEPT ![p] = d.send]
        /\ ReceiveEpochs' = [ReceiveEpochs EXCEPT ![p] = d.receive]
        /\ Updates' = [Updates EXCEPT ![p] = d.update]
        /\ KeyNet' \subseteq KeyNet \union Out
    BY InstalledKeys, Zenon DEF SideStep
  <1>2. /\ SendEpochs[p] = c.send /\ ReceiveEpochs[p] = c.receive /\ Updates[p] = c.update
        /\ [SendEpochs EXCEPT ![p] = c.send] = SendEpochs
        /\ [ReceiveEpochs EXCEPT ![p] = c.receive] = ReceiveEpochs
        /\ [Updates EXCEPT ![p] = c.update] = Updates
        /\ [Updates EXCEPT ![p] = d.update][p] = d.update
    BY Zenon DEF SendEpochs, ReceiveEpochs, Updates
  <1>3. CASE SameEpochs(c, d) /\ Repeats(c, d)
    <2>1. Out \subseteq Keys!Outstanding
      BY <1>3, SamePackets, Zenon DEF Repeats
    <2>2. Keys!Network
      BY <1>1, <1>2, <1>3, <2>1, NetworkMapped, ZenonT(30) DEF SameEpochs
    <2> QED
      BY <2>2, KeysNext, Zenon
  <1>4. CASE Asked(c, d)
    <2>1. Out \subseteq {Keys!Request(p, d.update)}
      BY <1>4, SamePackets, Zenon DEF Asked
    <2>2. /\ Updates[p] = 0 /\ d.update > SendEpochs[p]
          /\ SendEpochs' = SendEpochs /\ ReceiveEpochs' = ReceiveEpochs
          /\ Updates'[p] = d.update /\ d.update \in Nat
      BY <1>1, <1>2, <1>4, ZenonT(30) DEF Asked
    <2>3. Keys!Ask(p, d.update)
      <3>1. KeyNet' \subseteq KeyNet \union {Keys!Request(p, d.update)}
        BY <1>1, <2>1, ZenonT(30)
      <3> QED
        BY <1>1, <2>2, <3>1, AskMapped, ZenonT(30)
    <2>4. Keys!Ask(p, Updates'[p])
      BY <2>2, <2>3, ZenonT(30) DEF Keys!Ask, Keys!Request
    <2> QED
      BY <2>2, <2>4, KeysNext, Zenon
  <1>5. ASSUME NEW e \in net, e.to = p, PolledTo(c, e.data, d) PROVE Keys!Next
    <2> DEFINE m == Packet(e.data, p)
    <2>1. /\ m.kind = e.data.kind /\ m.to = p /\ m.epoch = e.data.epoch /\ m.value = e.data.value
          /\ e.data.kind \in KeyKinds => m \in KeyNet
      BY <1>5, Zenon DEF Packet, KeyNet, KeyPackets, KeyKinds
    <2> HIDE DEF m
    <2>2. CASE SameEpochs(c, d) /\ Repeats(c, d)
      BY <1>3, <2>2, ZenonT(30)
    <2>3. CASE /\ e.data.kind = "KEY_UPDATE"
               /\ \/ e.data.epoch = c.receive /\ e.data.value > c.receive /\ d.receive = e.data.value
                  \/ e.data.epoch # c.receive /\ e.data.value = c.receive /\ d.receive = c.receive
               /\ d.send = c.send /\ d.update = c.update
               /\ \A x \in Range(d.out) : x.kind \in KeyKinds =>
                    \/ x = Sealed(c, "KEY_UPDATE_ACK", e.data.value)
                    \/ c.update # 0 /\ x = Sealed(c, "KEY_UPDATE", c.update)
      <3>1. Out \subseteq Keys!Outstanding \union {Keys!Acknowledgement(p, m.value)}
        BY <2>1, <2>3, SamePackets
      <3>2. /\ SendEpochs' = SendEpochs /\ Updates' = Updates
            /\ \/ /\ m.epoch = ReceiveEpochs[p] /\ m.value > ReceiveEpochs[p]
                  /\ ReceiveEpochs' = [ReceiveEpochs EXCEPT ![p] = m.value]
               \/ /\ m.epoch # ReceiveEpochs[p] /\ m.value = ReceiveEpochs[p]
                  /\ ReceiveEpochs' = ReceiveEpochs
        BY <1>1, <1>2, <2>1, <2>3, Zenon
      <3>3. KeyNet' \subseteq KeyNet \union Keys!Outstanding \union {Keys!Acknowledgement(p, m.value)}
        BY <1>1, <3>1, Zenon
      <3>4. m \in KeyNet /\ m.kind = "KEY_UPDATE" /\ m.to = p
        BY <2>1, <2>3, ZenonT(30) DEF KeyKinds
      <3>5. Keys!Answer(p, m)
        BY <3>2, <3>3, <3>4, AnswerMapped, ZenonT(30)
      <3> QED
        BY <3>4, <3>5, KeysNext, ZenonT(30)
    <2>4. CASE /\ e.data.kind = "KEY_UPDATE_ACK" /\ e.data.epoch = c.receive
               /\ c.update # 0 /\ e.data.value = c.update
               /\ d.send = e.data.value /\ d.update = 0 /\ d.receive = c.receive
               /\ \A x \in Range(d.out) : x.kind \notin KeyKinds
      <3>1. Out = {}
        BY <2>4, Zenon
      <3>2. /\ m.epoch = ReceiveEpochs[p] /\ Updates[p] # 0 /\ m.value = Updates[p]
            /\ SendEpochs' = [SendEpochs EXCEPT ![p] = m.value]
            /\ Updates' = [Updates EXCEPT ![p] = 0] /\ ReceiveEpochs' = ReceiveEpochs
        BY <1>1, <1>2, <2>1, <2>4, ZenonT(30)
      <3>3. KeyNet' \subseteq KeyNet
        BY <1>1, <3>1, Zenon
      <3>4. m \in KeyNet /\ m.kind = "KEY_UPDATE_ACK" /\ m.to = p
        BY <2>1, <2>4, Zenon DEF KeyKinds
      <3>5. Keys!Complete(p, m)
        BY <3>2, <3>3, <3>4, CompleteMapped, ZenonT(30)
      <3> QED
        BY <3>4, <3>5, KeysNext, ZenonT(30)
    <2> QED
      BY <1>5, <2>2, <2>3, <2>4, ZenonT(30) DEF PolledTo
  <1> QED
    BY <1>3, <1>4, <1>5, Zenon DEF SideStep

LEMMA StepRefines == HandshakeInv /\ [Next]_vars => [Keys!Next]_Keys!vars
  <1> SUFFICES ASSUME HandshakeInv, [Next]_vars PROVE [Keys!Next]_Keys!vars
    OBVIOUS
  <1>1. ASSUME NEW p \in Sides, NEW d, NEW arrived, SideStep(p, d, arrived) PROVE Keys!Next
    BY <1>1, SideStepRefines, Zenon
  <1>2. CASE Tick
    <2>1. conn' = [p \in Sides |-> Aged(conn[p])] /\ net' = net
      BY <1>2, Zenon DEF Tick
    <2>2. \A p \in Sides : SameEpochs(conn[p], Aged(conn[p]))
      BY AgedRelevant, Zenon DEF HandshakeInv, Relevant
    <2>3. SendEpochs' = SendEpochs /\ ReceiveEpochs' = ReceiveEpochs /\ Updates' = Updates
      BY <2>1, <2>2, Zenon DEF SendEpochs, ReceiveEpochs, Updates, SameEpochs
    <2>4. KeyNet' = KeyNet
      BY <2>1, Zenon DEF KeyNet, KeyPackets
    <2> QED
      BY <2>3, <2>4, NetworkMapped, KeysNext, ZenonT(30)
  <1>3. CASE Lose \/ Duplicate
    <2>1. conn' = conn
      BY <1>3, Zenon DEF Lose, Duplicate
    <2>2. SendEpochs' = SendEpochs /\ ReceiveEpochs' = ReceiveEpochs /\ Updates' = Updates
      BY <2>1, Zenon DEF SendEpochs, ReceiveEpochs, Updates
    <2>3. KeyPackets' \subseteq KeyPackets
      <3>1. CASE Lose
        BY <3>1, Zenon DEF Lose, KeyPackets
      <3>2. CASE Duplicate
        <4>1. PICK e \in net : /\ e.data.kind \in {"HELLO", "RETRY", "FINISHED"}
                               /\ net' = net \union {[e EXCEPT !.copy = 1]}
          BY <3>2, Zenon DEF Duplicate
        <4>2. [e EXCEPT !.copy = 1].data = e.data
          BY Zenon DEF HandshakeInv
        <4> QED
          BY <4>1, <4>2, Zenon DEF KeyPackets
      <3> QED
        BY <1>3, <3>1, <3>2, ZenonT(30)
    <2>4. KeyNet' \subseteq KeyNet
      BY <2>3, ZenonT(30) DEF KeyNet
    <2> QED
      BY <2>2, <2>4, NetworkMapped, KeysNext, ZenonT(30)
  <1>4. CASE UNCHANGED vars
    BY <1>4, Zenon DEF vars, Keys!vars, KeyPackets
  <1> QED
    BY <1>1, <1>2, <1>3, <1>4, StepKinds, ZenonT(30)

\* The control plane of a secure connection, with its handshake, timers, previous
\* keys, failed sends and packets lost, late or refused, carries out the key update
\* of KeyUpdate (process_datagram, advance_connection and
\* request_connection_key_update on the key epochs).
THEOREM SessionImplementsKeyUpdate == Spec => ImplementsKeyUpdate
  <1>1. Init => Keys!Init
    <2> SUFFICES ASSUME Init PROVE Keys!Init
      OBVIOUS
    <2>1. NewConnection.send = 0 /\ NewConnection.receive = 0 /\ NewConnection.update = 0
      BY Zenon DEF NewConnection
    <2>2. \A p \in Sides : conn[p] = NewConnection
      BY Zenon DEF Init
    <2> QED
      BY <2>1, <2>2, Zenon DEF Init, Keys!Init, Keys!Sides, Sides, KeyPackets
  <1> QED
    BY <1>1, StepRefines, HandshakeIsInvariant, PTL DEF Spec, Keys!Spec, ImplementsKeyUpdate

\* The theorems about KeyUpdate, for the epochs of this session.
Abstract == INSTANCE KeyUpdateProofs WITH
    send <- [p \in Sides |-> conn[p].send],
    receive <- [p \in Sides |-> conn[p].receive],
    update <- [p \in Sides |-> conn[p].update],
    net <- {[kind |-> e.data.kind, to |-> e.to, epoch |-> e.data.epoch, value |-> e.data.value]
                : e \in KeyPackets}

\* Each side of a connection sends under a key its peer receives under, or waits for
\* its own update, in every behaviour of the session: by the refinement, and by the
\* theorem about KeyUpdate.
THEOREM SessionEpochsAgree == Spec => []EpochsAgree
  <1>1. Keys!Spec => []Keys!EpochsAgree
    BY Abstract!EpochsStayTogether, PTL
    DEF Keys!Spec, Abstract!Spec, Keys!Init, Abstract!Init,
        Keys!Next, Abstract!Next, Keys!vars, Abstract!vars,
        Keys!EpochsAgree, Abstract!EpochsAgree, Keys!Ask, Abstract!Ask,
        Keys!Answer, Abstract!Answer, Keys!Complete, Abstract!Complete,
        Keys!Network, Abstract!Network, Keys!Sides, Abstract!Sides,
        Keys!Other, Abstract!Other, Keys!Request, Abstract!Request,
        Keys!Acknowledgement, Abstract!Acknowledgement, Keys!Outstanding, Abstract!Outstanding
  <1> QED
    BY <1>1, SessionImplementsKeyUpdate, PTL DEF ImplementsKeyUpdate, EpochsAgree
=============================================================================
