---------------------------- MODULE SecureSession ----------------------------
(* The control plane of one secure connection of networking_message_transport: *)
(* the authenticated handshake between a client and a listening server, the    *)
(* update of the traffic keys while connected, and the end of the connection.  *)
(* Application data is the subject of MessageTransport; here the connection    *)
(* carries none, and neither idle timeout nor path migration is configured.    *)
EXTENDS Naturals, Sequences, FiniteSets, Functions

CONSTANTS
    RetryCookies,   \* configuration.enable_retry_cookies
    MaxAttempts,    \* handshake_attempts at which a side gives up, 6 in the code
    KeepTicks,      \* timeouts for which the previous receive key is kept, 4 in the code
    Updaters,       \* the sides whose application asks for key updates
    Closers,        \* the sides whose application closes the connection
    MaxEpoch,       \* bound on the epochs the applications ask for
    MaxFaults       \* bound on losses, duplicates, late timeouts and failed sends

ASSUME SessionAssumption ==
    /\ RetryCookies \in BOOLEAN
    /\ {MaxAttempts, KeepTicks} \subseteq Nat \ {0}
    /\ {MaxEpoch, MaxFaults} \subseteq Nat
    /\ Updaters \union Closers \subseteq {"client", "server"}

VARIABLES
    conn,       \* the connection_record of each side
    net,        \* the datagrams in flight
    faults      \* the faults so far
vars == <<conn, net, faults>>

Sides == {"client", "server"}

Other(p) == IF p = "client" THEN "server" ELSE "client"

-----------------------------------------------------------------------------
(* Sending.  fail names the send that fails in the socket. *)

Event(c, e) == [c EXCEPT !.events = Append(@, e)]

Fail(c) == Event([c EXCEPT !.state = "FAILED"], "FAILED")

\* send_handshake_hello and send_handshake_finished; the caller sees that a
\* send failed by stop.
SendHello(c, fail) ==
    IF fail = "hello" THEN [c EXCEPT !.stop = TRUE]
    ELSE [c EXCEPT !.out = Append(@, [kind |-> "HELLO", cookie |-> c.cookie]), !.age = 0]

SendFinished(c, fail) ==
    IF c.stop \/ fail = "finished" THEN [c EXCEPT !.stop = TRUE]
    ELSE [c EXCEPT !.out = Append(@, [kind |-> "FINISHED"]), !.age = 0, !.finished_sent = TRUE]

\* networking_message_protect_packet and networking_secure_channel::seal: a
\* packet number is sealed once per key.  What then fails in the socket has used
\* its number up, but next_packet has not moved on: the next one is refused.
CanSeal(c) == c.keys /\ ~c.number_used

SendSealed(c, kind, value, failed) ==
    IF ~CanSeal(c) THEN [c EXCEPT !.stop = TRUE]
    ELSE IF failed THEN [c EXCEPT !.number_used = TRUE, !.stop = TRUE]
    ELSE [c EXCEPT !.out = Append(@, [kind |-> kind, epoch |-> c.send, value |-> value])]

\* send_key_update_request, send_key_update_ack and send_close.
SendKeyUpdate(c, next, fail) == SendSealed(c, "KEY_UPDATE", next, fail = "update")

SendKeyUpdateAck(c, next, fail) == SendSealed(c, "KEY_UPDATE_ACK", next, fail = "ack")

SendClose(c, fail) == SendSealed(c, "CLOSE", 0, fail = "close")

-----------------------------------------------------------------------------
(* process_handshake_datagram *)

\* A client that has no keys yet repeats its hello with the cookie.
ProcessRetry(c, p, fail) ==
    IF c.state # "HANDSHAKING" \/ p # "client" \/ c.keys THEN c
    ELSE LET hello == SendHello([c EXCEPT !.cookie = TRUE], fail)
         IN  IF hello.stop THEN hello ELSE [hello EXCEPT !.attempts = @ + 1]

\* A hello to a listening server that has no record of the connection.
ProcessFirstHello(c, m, p) ==
    IF p # "server" THEN c
    ELSE IF RetryCookies /\ ~m.cookie
    THEN [c EXCEPT !.out = Append(@, [kind |-> "RETRY"])]
    ELSE Event([c EXCEPT !.state = "HANDSHAKING", !.incoming_pending = TRUE,
                         !.keys = TRUE, !.age = 0], "CONNECTION_REQUESTED")

\* mutant: a hello is answered before the application has accepted it.
ProcessHelloUnaccepted(c, m, p, fail) ==
    LET keyed == [c EXCEPT !.keys = TRUE]
    IN  CASE c.state = "NONE" -> ProcessFirstHello(c, m, p)
          [] c.state \notin {"NONE", "HANDSHAKING", "CONNECTED"} -> c
          [] OTHER -> IF p = "client" THEN keyed
                      ELSE [SendFinished(SendHello(keyed, fail), fail) EXCEPT !.attempts = 1]

\* A repeated hello is answered again once the application has accepted.
ProcessHello(c, m, p, fail) ==
    LET keyed == [c EXCEPT !.keys = TRUE]
        answer == SendFinished(SendHello(keyed, fail), fail)
    IN  CASE c.state = "NONE" -> ProcessFirstHello(c, m, p)
          [] c.state \notin {"NONE", "HANDSHAKING", "CONNECTED"} -> c
          [] OTHER -> IF p = "client" \/ c.incoming_pending THEN keyed
                      ELSE IF answer.stop THEN Fail(answer)
                      ELSE [answer EXCEPT !.attempts = 1]

\* mutants: every finished value reports the connection, or is taken in any state.
ProcessFinishedAgain(c, p, fail) ==
    IF c.state \notin {"HANDSHAKING", "CONNECTED"} \/ ~c.keys THEN c
    ELSE Event([SendFinished(c, fail) EXCEPT !.state = "CONNECTED"], "CONNECTED")

ProcessFinishedAlways(c, p, fail) ==
    IF ~c.keys THEN c ELSE [SendFinished(c, fail) EXCEPT !.state = "CONNECTED"]

\* Finished proves the keys, which have to be there; the client answers once.
ProcessFinished(c, p, fail) ==
    LET answer == IF p = "client" /\ ~c.finished_sent THEN SendFinished(c, fail) ELSE c
        told == IF c.state = "CONNECTED" THEN answer ELSE Event(answer, "CONNECTED")
    IN  CASE c.state \notin {"HANDSHAKING", "CONNECTED"} -> c
          [] c.state \in {"HANDSHAKING", "CONNECTED"} /\ ~c.keys -> Fail(c)
          [] OTHER -> IF answer.stop THEN Fail(answer)
                      ELSE [told EXCEPT !.state = "CONNECTED"]

-----------------------------------------------------------------------------
(* process_datagram, for the sealed packets of the control plane *)

\* networking_secure_channel::has_receive_epoch, and open_at_epoch, whose replay
\* windows refuse the second copy of a packet (see Duplicate).
HasReceiveEpoch(c, e) == e = c.receive \/ e \in c.previous

Opens(c, m) ==
    m.epoch = c.receive \/ (m.kind = "KEY_UPDATE" /\ HasReceiveEpoch(c, m.epoch))

\* mutant: every previous key is kept.
UpdateReceiveKeyEpochKeeping(c, next) ==
    [c EXCEPT !.receive = next, !.previous = @ \union {c.receive}]

\* update_receive_key_epoch: one previous key is kept.
UpdateReceiveKeyEpoch(c, next) == [c EXCEPT !.receive = next, !.previous = {c.receive}]

\* clear_previous_receive_key.
ClearPreviousReceiveKey(c) == [c EXCEPT !.previous = {}, !.expiry = 0]

\* The request is acknowledged, under the old send key of this side, before the
\* receive key changes; a repeated request is acknowledged again.
ProcessKeyUpdate(c, m, fail) ==
    LET acked == SendKeyUpdateAck(c, m.value, fail)
        rotates == m.epoch = c.receive /\ m.value > c.receive
        repeated == m.epoch # c.receive /\ m.value = c.receive
    IN  IF ~rotates /\ ~repeated THEN c
        ELSE IF acked.stop THEN acked
        ELSE [IF rotates THEN UpdateReceiveKeyEpoch(acked, m.value) ELSE acked
                EXCEPT !.expiry = KeepTicks + 1]

\* mutant: any acknowledgement ends the pending update.
ProcessAnyKeyUpdateAck(c, m) ==
    IF c.update = 0 THEN c
    ELSE [c EXCEPT !.send = c.update, !.number_used = FALSE, !.update = 0, !.update_due = FALSE]

\* update_send_key_epoch starts a fresh sequence of sealed numbers.
ProcessKeyUpdateAck(c, m) ==
    IF c.update = 0 \/ m.value # c.update THEN c
    ELSE [c EXCEPT !.send = m.value, !.number_used = FALSE, !.update = 0, !.update_due = FALSE]

ProcessSealed(c, m, fail) ==
    IF c.state # "CONNECTED" \/ ~Opens(c, m) THEN c
    ELSE CASE m.kind = "KEY_UPDATE" -> ProcessKeyUpdate(c, m, fail)
           [] m.kind = "KEY_UPDATE_ACK" -> ProcessKeyUpdateAck(c, m)
           [] m.kind = "CLOSE" -> Event([c EXCEPT !.state = "CLOSED"], "CLOSED")

ProcessDatagram(c, m, p, fail) ==
    CASE m.kind = "RETRY" -> ProcessRetry(c, p, fail)
      [] m.kind = "HELLO" -> ProcessHello(c, m, p, fail)
      [] m.kind = "FINISHED" -> ProcessFinished(c, p, fail)
      [] OTHER -> ProcessSealed(c, m, fail)

-----------------------------------------------------------------------------
(* advance_connection *)

\* The retry timeout doubles with every attempt, up to eight times the first.
RetryTicks(c) ==
    LET shift == IF c.attempts > 0 THEN c.attempts - 1 ELSE 0
    IN  2 ^ (IF shift > 3 THEN 3 ELSE shift)

\* mutants: the attempts are not counted, and the key update is sent once.
RetryHandshakeUncounted(c, p, fail) ==
    LET hello == SendHello(c, fail)
    IN  IF c.incoming_pending \/ c.age < RetryTicks(c) THEN c
        ELSE IF p = "client" THEN hello ELSE SendFinished(hello, fail)

RetryKeyUpdateNever(c, fail) == c

\* The end of the attempts is not announced by an event.
RetryHandshake(c, p, fail) ==
    LET hello == SendHello(c, fail)
        flight == IF p = "client" THEN hello ELSE SendFinished(hello, fail)
    IN  CASE c.incoming_pending \/ c.age < RetryTicks(c) -> c
          [] OTHER -> IF c.attempts >= MaxAttempts THEN [c EXCEPT !.state = "FAILED"]
                      ELSE IF flight.stop THEN [flight EXCEPT !.state = "FAILED"]
                      ELSE [flight EXCEPT !.attempts = @ + 1]

RetryKeyUpdate(c, fail) ==
    LET sent == SendKeyUpdate(c, c.update, fail)
    IN  IF c.update = 0 \/ ~c.update_due THEN c
        ELSE IF sent.stop THEN sent
        ELSE [sent EXCEPT !.update_due = FALSE]

AdvanceConnection(c, p, fail) ==
    LET kept == IF c.expiry = 1 THEN ClearPreviousReceiveKey(c) ELSE c
    IN  CASE c.state = "HANDSHAKING" -> RetryHandshake(kept, p, fail)
          [] c.state = "CONNECTED" -> RetryKeyUpdate(kept, fail)
          [] OTHER -> c

-----------------------------------------------------------------------------
(* The system *)

NewConnection ==
    [state |-> "NONE", incoming_pending |-> FALSE, attempts |-> 0, age |-> 0,
     cookie |-> FALSE, keys |-> FALSE, finished_sent |-> FALSE,
     send |-> 0, receive |-> 0, previous |-> {}, expiry |-> 0,
     number_used |-> FALSE, update |-> 0, update_due |-> FALSE,
     events |-> <<>>, out |-> <<>>, stop |-> FALSE, polled |-> TRUE]

Init ==
    /\ conn = [p \in Sides |-> NewConnection]
    /\ net = {}
    /\ faults = 0

\* c is the new record of p, and the datagrams it has put out are on their way.
Install(p, c, arrived) ==
    /\ conn' = [conn EXCEPT ![p] = [c EXCEPT !.out = <<>>, !.stop = FALSE]]
    /\ net' = (net \ arrived)
                \union {[to |-> Other(p), data |-> c.out[i], copy |-> 0] : i \in DOMAIN c.out}

Fails(fail) ==
    /\ fail # "none" => faults < MaxFaults
    /\ faults' = IF fail = "none" THEN faults ELSE faults + 1

\* open_connection.  If the first hello does not leave, the record goes again.
Open ==
    LET opened == [NewConnection EXCEPT !.state = "HANDSHAKING", !.attempts = 1]
    IN  /\ conn["client"].state = "NONE"
        /\ Install("client", SendHello(Event(opened, "CONNECTING"), "none"), {})
        /\ Fails("none")

\* accept and reject, by the application of the server.
IsRequest(c) == c.state = "HANDSHAKING" /\ c.incoming_pending

Accept(fail) ==
    LET c == conn["server"]
        answer == SendFinished(SendHello([c EXCEPT !.incoming_pending = FALSE], fail), fail)
    IN  /\ IsRequest(c)
        /\ Install("server", IF answer.stop THEN Fail(answer)
                             ELSE [answer EXCEPT !.attempts = 1], {})
        /\ Fails(fail)

Reject ==
    /\ IsRequest(conn["server"])
    /\ Install("server", Fail([conn["server"] EXCEPT !.incoming_pending = FALSE]), {})
    /\ Fails("none")

\* mutant: an update is asked for while another one is pending.
RequestKeyUpdateTwice(p, next, fail) ==
    LET c == conn[p]
        sent == SendKeyUpdate(c, next, fail)
    IN  /\ c.state = "CONNECTED"
        /\ next > c.send
        /\ CanSeal(c)
        /\ Install(p, [sent EXCEPT !.update = next, !.update_due = FALSE], {})
        /\ Fails(fail)

\* request_connection_key_update: nothing is queued or in flight here.
RequestKeyUpdate(p, next, fail) ==
    LET c == conn[p]
        sent == SendKeyUpdate(c, next, fail)
    IN  /\ c.state = "CONNECTED"
        /\ c.update = 0
        /\ next > c.send
        /\ CanSeal(c)
        /\ Install(p, IF sent.stop THEN sent
                      ELSE [sent EXCEPT !.update = next, !.update_due = FALSE], {})
        /\ Fails(fail)

\* close_connection.  There is nothing to drain, so close and abort agree.
Close(p, fail) ==
    LET c == conn[p]
    IN  /\ p \in Closers
        /\ c.state \notin {"NONE", "CLOSED"}
        /\ fail = "close" => CanSeal(c)
        /\ Install(p, Event([SendClose(c, fail) EXCEPT !.state = "CLOSED"], "CLOSED"), {})
        /\ Fails(fail)

\* poll, with what arrived in the socket: nothing, or one datagram.
Polled(p, arrived, fail) ==
    LET read == IF arrived = {} THEN conn[p]
                ELSE ProcessDatagram(conn[p], (CHOOSE e \in arrived : TRUE).data, p, fail)
    IN  [AdvanceConnection([read EXCEPT !.stop = FALSE], p, fail) EXCEPT !.polled = TRUE]

Poll(p, arrived, fail) ==
    /\ fail # "none" => Polled(p, arrived, fail) # Polled(p, arrived, "none")
    /\ Install(p, Polled(p, arrived, fail), arrived)
    /\ Fails(fail)

PollQuiet(p) == Poll(p, {}, "none")

PollReceive(p) == \E e \in net : e.to = p /\ Poll(p, {e}, "none")

PollFails(p) ==
    \E fail \in {"hello", "finished", "update", "ack"} :
        \/ Poll(p, {}, fail)
        \/ \E e \in net : e.to = p /\ Poll(p, {e}, fail)

\* One retransmission timeout passes.
Aged(c) ==
    [c EXCEPT !.age = IF @ < 8 /\ c.state = "HANDSHAKING" THEN @ + 1 ELSE @,
              !.update_due = c.update # 0,
              !.expiry = IF @ > 1 THEN @ - 1 ELSE @,
              !.polled = c.state \notin {"HANDSHAKING", "CONNECTED"}]

\* While anybody waits for the clock, and it may not pass unseen for free.
Tick ==
    LET late == net # {} \/ \E p \in Sides : ~conn[p].polled \/ IsRequest(conn[p])
    IN  /\ \E p \in Sides : conn[p].state = "HANDSHAKING" \/ conn[p].update # 0 \/ conn[p].expiry > 1
        /\ late => faults < MaxFaults
        /\ conn' = [p \in Sides |-> Aged(conn[p])]
        /\ faults' = IF late THEN faults + 1 ELSE faults
        /\ UNCHANGED net

Lose ==
    /\ faults < MaxFaults
    /\ \E e \in net : net' = net \ {e}
    /\ faults' = faults + 1
    /\ UNCHANGED conn

\* Only the handshake has no packet numbers: the second copy of a sealed packet,
\* whichever it is, is refused.
Duplicate ==
    /\ faults < MaxFaults
    /\ \E e \in net :
        /\ e.data.kind \in {"HELLO", "RETRY", "FINISHED"}
        /\ e.copy = 0
        /\ net' = net \union {[e EXCEPT !.copy = 1]}
    /\ faults' = faults + 1
    /\ UNCHANGED conn

Next ==
    \/ Open
    \/ \E fail \in {"none", "hello", "finished"} : Accept(fail)
    \/ Reject
    \/ \E p \in Sides :
        \/ /\ p \in Updaters
           /\ \E next \in 1..MaxEpoch, fail \in {"none", "update"} : RequestKeyUpdate(p, next, fail)
        \/ \E fail \in {"none", "close"} : Close(p, fail)
        \/ PollQuiet(p)
        \/ PollReceive(p)
        \/ PollFails(p)
    \/ Tick
    \/ Lose
    \/ Duplicate

Spec == Init /\ [][Next]_vars

\* What is not lost arrives, both applications poll once per timeout, and the
\* server's application decides.
FairSpec ==
    /\ Spec
    /\ WF_vars(Tick)
    /\ []<>~IsRequest(conn["server"])
    /\ \A p \in Sides :
        /\ []<><<PollReceive(p)>>_vars \/ []<>(\A e \in net : e.to # p)
        /\ []<><<PollQuiet(p)>>_vars \/ []<>conn[p].polled

-----------------------------------------------------------------------------
(* The key update of this connection *)

KeyPackets == {e \in net : e.data.kind \in {"KEY_UPDATE", "KEY_UPDATE_ACK"}}

Keys == INSTANCE KeyUpdate WITH
    send <- [p \in Sides |-> conn[p].send],
    receive <- [p \in Sides |-> conn[p].receive],
    update <- [p \in Sides |-> conn[p].update],
    net <- {[kind |-> e.data.kind, to |-> e.to, epoch |-> e.data.epoch, value |-> e.data.value]
                : e \in KeyPackets}

-----------------------------------------------------------------------------
(* Properties *)

IsWedged(c) == c.keys /\ ~CanSeal(c)

States == {"NONE", "HANDSHAKING", "CONNECTED", "CLOSED", "FAILED"}

\* The records of both sides keep their types, and no state outside the code's
\* enumeration is reached.
TypeOK ==
    /\ \A p \in Sides :
        LET c == conn[p]
        IN  /\ c.state \in States
            /\ c.attempts \in Nat /\ c.age \in 0..8
            /\ {c.send, c.receive, c.update} \union c.previous \subseteq 0..MaxEpoch
            /\ c.expiry \in 0..KeepTicks + 1
            /\ Cardinality(c.previous) <= 1
    /\ faults \in 0..MaxFaults

\* The client is connected only to a server whose application accepted, and the
\* server only to a client that has verified the server's finished value: whatever
\* arrives late, twice or in the wrong order (process_handshake_datagram, accept).
ConnectedMeansAccepted ==
    /\ conn["client"].state = "CONNECTED" =>
            ~conn["server"].incoming_pending /\ conn["server"].finished_sent
    /\ conn["server"].state = "CONNECTED" =>
            conn["client"].finished_sent /\ "CONNECTED" \in Range(conn["client"].events)

\* A side sends under a key its peer receives under, except while its own update
\* is pending, when the peer may already be at the epoch it asked for
\* (ProcessKeyUpdate, update_send_key_epoch, update_receive_key_epoch).
EpochsAgree == Keys!EpochsAgree

\* Every step of the key update, with its timers, its previous key and its packets
\* lost, late or refused, is a step of KeyUpdate or leaves it alone.
ImplementsKeyUpdate == Keys!Spec

\* Each side reports each event once: no datagram, however late, connects, fails
\* or closes a connection a second time.
EventsAreOnce == \A p \in Sides : IsInjective(conn[p].events)

\* Nothing revives a connection that has failed or closed; the application may
\* still close a failed one.
TerminalIsFinal ==
    [][\A p \in Sides :
        /\ conn[p].state = "CLOSED" => conn'[p].state = "CLOSED"
        /\ conn[p].state = "FAILED" => conn'[p].state \in {"FAILED", "CLOSED"}]_vars

\* Neither side stays in the handshake for ever: it connects, fails or is closed.
HandshakeEnds == \A p \in Sides : conn[p].state = "HANDSHAKING" ~> conn[p].state # "HANDSHAKING"

\* A key update that one side asked for completes while both stay connected and
\* can send (advance_connection repeats the request, and the previous receive key
\* is kept long enough to answer it).
UpdateCompletes ==
    \A p \in Sides :
        conn[p].update # 0 ~>
            \/ conn[p].update = 0
            \/ \E q \in Sides : conn[q].state # "CONNECTED" \/ IsWedged(conn[q])
=============================================================================
