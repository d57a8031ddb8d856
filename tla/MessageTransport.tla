-------------------------- MODULE MessageTransport --------------------------
(***************************************************************************)
(* The data path of Networking/networking_message_transport.cpp: two peers *)
(* with one CONNECTED connection between them over UDP.  A connection is a *)
(* record with the fields of connection_record; the functions of the file  *)
(* that change a connection are operators from record to record.           *)
(*                                                                         *)
(* Sizes are counted in datagrams: a message is one or more fragments of   *)
(* size 1.  Time is counted in retransmission timeouts: a packet is due    *)
(* when the clock has ticked since it was sent.                            *)
(*                                                                         *)
(* A field "out" collects the datagrams of the step in progress.  inbox    *)
(* is every message put into _received_messages so far, failed the ids of  *)
(* the messages for which DELIVERY_FAILED was emitted.                     *)
(***************************************************************************)
EXTENDS Naturals, Sequences, FiniteSets, SequencesExt

CONSTANTS
    Peers,              \* the two ends of the connection
    Channels,
    Script,             \* [Peers -> Seq(send options)], what each application sends
    Encrypted,          \* enable_encryption
    Pacing,             \* round trips are long enough for smoothed_rtt # 0
    MinWindow, InitialWindow, MaxWindow,    \* of the congestion window
    Credit,             \* maximum_reassembly_bytes
    MaxReassembly,      \* maximum_reassembly_messages
    MaxQueued,          \* maximum_queued_bytes
    RangeLimit,         \* NETWORKING_MESSAGE_ACK_RANGE_LIMIT
    IdleTicks,          \* idle_timeout_milliseconds, 0 disables
    Closers,            \* peers whose application may close the connection
    MaxBurst,           \* datagrams that one poll finds in the socket
    MaxFaults           \* datagrams lost, repeated or late, and sends that fail

ASSUME TransportAssumption ==
    /\ Cardinality(Peers) = 2
    /\ {MinWindow, InitialWindow, MaxWindow, Credit, MaxReassembly, MaxQueued,
        RangeLimit, MaxBurst} \subseteq Nat \ {0}
    /\ {IdleTicks, MaxFaults} \subseteq Nat
    /\ Closers \subseteq Peers

VARIABLES
    conn,       \* [Peers -> connection_record]
    accepted,   \* [Peers -> [Channels -> Seq(message id)]], reliable sends that succeeded
    net,        \* datagrams in flight, with their destination
    faults      \* how many faults have happened

vars == <<conn, accepted, net, faults>>

Other(p) == CHOOSE q \in Peers : q # p

Minus(a, b) == IF a > b THEN a - b ELSE 0

-----------------------------------------------------------------------------
(* Acknowledgements *)

\* Position of the first range that holds n or that n extends, 0 if none.
Touched(ranges, n) ==
    SelectInSeq(ranges, LAMBDA r : n + 1 >= r.start /\ n <= r.end + 1)

\* mutant: two ranges that have grown together are not merged
RecordPacketApart(ranges, n) ==
    LET i == Touched(ranges, n)
        newer == Cardinality({j \in DOMAIN ranges : ranges[j].start > n})
        added == InsertAt(ranges, newer + 1, [start |-> n, end |-> n])
    IN  IF i = 0
        THEN SubSeq(added, 1, IF Len(added) > RangeLimit THEN RangeLimit ELSE Len(added))
        ELSE [ranges EXCEPT ![i].start = IF n < @ THEN n ELSE @,
                            ![i].end = IF n > @ THEN n ELSE @]

\* networking_message_record_packet, the ranges: newest first, disjoint.
RecordPacket(ranges, n) ==
    LET i == Touched(ranges, n)
        closesGap == n < ranges[i].start /\ i < Len(ranges) /\ ranges[i + 1].end + 1 = n
        wider == [start |-> IF closesGap THEN ranges[i + 1].start
                            ELSE IF n < ranges[i].start THEN n ELSE ranges[i].start,
                  end |-> IF n > ranges[i].end THEN n ELSE ranges[i].end]
        newer == Cardinality({j \in DOMAIN ranges : ranges[j].start > n})
        added == InsertAt(ranges, newer + 1, [start |-> n, end |-> n])
    IN  IF i = 0
        THEN SubSeq(added, 1, IF Len(added) > RangeLimit THEN RangeLimit ELSE Len(added))
        ELSE SubSeq(ranges, 1, i - 1) \o <<wider>>
                \o SubSeq(ranges, IF closesGap THEN i + 2 ELSE i + 1, Len(ranges))

\* ... and its result: FALSE for a packet that is in a range already.
IsRecorded(ranges, n) == \E i \in DOMAIN ranges : ranges[i].start <= n /\ n <= ranges[i].end

\* The deltas of networking_message_encode_frame and _encode_ack.
AckRanges(c) ==
    [i \in DOMAIN c.ranges |-> [start |-> c.largest_received - c.ranges[i].start,
                                end |-> c.largest_received - c.ranges[i].end]]

\* mutant: everything up to the largest packet counts as received
IsAcknowledgedBelow(n, largest, ranges) == n <= largest

\* The test of networking_message_apply_ack for one sent packet.
IsAcknowledged(n, largest, ranges) ==
    \/ n = largest
    \/ /\ n < largest
       /\ \E i \in DOMAIN ranges : largest - n >= ranges[i].start /\ largest - n <= ranges[i].end

\* networking_message_apply_ack.
ApplyAck(c, d) ==
    LET kept == SelectSeq(c.sent, LAMBDA s : ~IsAcknowledged(s.number, d.largest, d.ranges))
        gone == Len(c.sent) - Len(kept)
        timed == \E i \in DOMAIN c.sent : /\ IsAcknowledged(c.sent[i].number, d.largest, d.ranges)
                                          /\ ~c.sent[i].retransmitted
        open == {k \in 0..gone : k = gone \/ c.window + k >= c.threshold}
        room == c.window + (CHOOSE k \in open : \A j \in open : k <= j)
    IN  [c EXCEPT !.sent = kept,
                  !.window = IF room > MaxWindow THEN MaxWindow ELSE room,
                  !.in_flight = Minus(@, gone),
                  !.queue_bytes = Minus(@, gone),
                  !.reserved = Minus(@, gone),
                  !.rtt = @ \/ (Pacing /\ timed)]

-----------------------------------------------------------------------------
(* Delivery *)

\* Position in ordered_pending of a message of the channel, 0 if none.
HeldAt(held, ch, n) ==
    SelectInSeq(held, LAMBDA m : m.channel = ch /\ m.sequence = n)

\* The loop of networking_message_deliver releases the messages n + 1 .. n + RunLength.
RunLength(held, ch, n) ==
    CHOOSE k \in 0..Len(held) :
        /\ \A j \in 1..k : HeldAt(held, ch, n + j) # 0
        /\ HeldAt(held, ch, n + k + 1) = 0

\* mutant: a message is handed over when it arrives
DeliverAtOnce(c, m) ==
    LET ch == m.channel
    IN  IF m.sequence < c.next_reliable[ch] THEN c
        ELSE [c EXCEPT !.inbox = Append(@, m), !.next_reliable[ch] = m.sequence + 1]

\* networking_message_deliver.
Deliver(c, m) ==
    LET ch == m.channel
        k == RunLength(c.ordered_pending, ch, m.sequence)
        Released(j) == HeldAt(c.ordered_pending, ch, m.sequence + j)
        taken == {Released(j) : j \in 1..k}
        left == SetToSortSeq(DOMAIN c.ordered_pending \ taken, <)
    IN  CASE m.delivery = "UNRELIABLE" -> [c EXCEPT !.inbox = Append(@, m)]
          [] m.delivery = "UNRELIABLE_SEQUENCED" ->
                IF m.sequence <= c.latest_unreliable[ch] THEN c
                ELSE [c EXCEPT !.latest_unreliable[ch] = m.sequence, !.inbox = Append(@, m)]
          [] m.delivery = "RELIABLE_ORDERED" ->
                IF m.sequence < c.next_reliable[ch] THEN c
                ELSE IF m.sequence > c.next_reliable[ch]
                THEN [c EXCEPT !.ordered_pending = Append(@, m)]
                ELSE [c EXCEPT
                        !.inbox = @ \o <<m>> \o [j \in 1..k |-> c.ordered_pending[Released(j)]],
                        !.next_reliable[ch] = @ + 1 + k,
                        !.ordered_pending = [j \in DOMAIN left |-> @[left[j]]]]

-----------------------------------------------------------------------------
(* Datagrams *)

\* networking_secure_channel::seal refuses a number that it has sealed before.
CanSeal(c) == Encrypted => c.next_packet > c.sealed

Seal(c) == [c EXCEPT !.sealed = IF Encrypted THEN c.next_packet ELSE @]

\* networking_message_send_datagram succeeds.
Emit(c, d) == [Seal(c) EXCEPT !.next_packet = @ + 1, !.out = Append(@, d)]

\* networking_message_encode_frame and _encode_ack, what the receiver reads.
FrameDatagram(c, f) ==
    [kind |-> "FRAME", number |-> c.next_packet, frame |-> f,
     largest |-> c.largest_received, ranges |-> AckRanges(c)]

AckDatagram(c) ==
    [kind |-> "ACK", number |-> c.next_packet,
     largest |-> c.largest_received, ranges |-> AckRanges(c)]

FlowDatagram(c) ==
    [kind |-> "FLOW_CONTROL", number |-> c.next_packet, credit |-> c.receive_credit]

CloseDatagram(c) == [kind |-> "CLOSE", number |-> c.next_packet]

\* networking_message_transport::send_close.
SendClose(c, fail) ==
    IF ~CanSeal(c) THEN c
    ELSE IF fail = "close" THEN Seal(c)
    ELSE [Emit(c, CloseDatagram(c)) EXCEPT !.idle = 0]

\* mutant: frames that are in flight are not waited for
IsDrainedPending(c) == c.pending = <<>>

IsDrained(c) == c.sent = <<>> /\ c.pending = <<>>

\* close_connection with abort_connection FALSE, and TRUE.
CloseGracefully(c, fail) ==
    IF c.state \in {"CLOSED", "DRAINING"} THEN c
    ELSE IF IsDrained(c) THEN [SendClose(c, fail) EXCEPT !.state = "CLOSED"]
    ELSE [c EXCEPT !.state = "DRAINING"]

Abort(c, fail) ==
    IF c.state = "CLOSED" THEN c
    ELSE [SendClose(c, fail) EXCEPT
            !.state = "CLOSED", !.pending = <<>>, !.sent = <<>>, !.in_flight = 0,
            !.queue_bytes = 0, !.reserved = 0, !.reassembly = <<>>, !.ordered_pending = <<>>]

-----------------------------------------------------------------------------
(* process_datagram *)

Message(f) == [id |-> f.id, channel |-> f.channel, delivery |-> f.delivery,
               sequence |-> f.sequence]

ReassemblyBytes(c) == FoldLeft(LAMBDA n, r : n + r.parts, 0, c.reassembly)

\* A fragment of a message of several: the end of process_datagram.
Reassemble(c, f) ==
    LET known == SelectInSeq(c.reassembly, LAMBDA r : r.id = f.id)
        at == IF known # 0 THEN known ELSE Len(c.reassembly) + 1
        record == IF known # 0 THEN c.reassembly[known]
                  ELSE [id |-> f.id, parts |-> f.parts, got |-> {}, age |-> 0]
        full == \/ Len(c.reassembly) >= MaxReassembly
                \/ ReassemblyBytes(c) + f.parts > c.receive_credit
        stored == [record EXCEPT !.got = @ \union {f.part}]
        records == SubSeq(c.reassembly, 1, at - 1) \o <<stored>>
                        \o SubSeq(c.reassembly, at + 1, Len(c.reassembly))
    IN  IF known = 0 /\ full THEN c
        ELSE IF Cardinality(stored.got) < f.parts
        THEN [c EXCEPT !.reassembly = records]
        ELSE [Deliver(c, Message(f)) EXCEPT !.reassembly = RemoveAt(records, at),
                                            !.receive_credit = @ + f.parts]

\* The FRAME branch: the packet is recorded, and so acknowledged, first.
ProcessFrame(c, d) ==
    LET dup == IsRecorded(c.ranges, d.number)
        recorded == [c EXCEPT
            !.idle = 0,
            !.ranges = RecordPacket(@, d.number),
            !.largest_received = IF ~dup /\ d.number > @ THEN d.number ELSE @,
            !.last_acknowledged_sent = IF dup THEN 0 ELSE @]
        acked == ApplyAck(recorded, d)
    IN  CASE c.state # "CONNECTED" -> c
          [] d.frame.parts = 1 -> Deliver(acked, Message(d.frame))
          [] OTHER -> Reassemble(acked, d.frame)

ProcessFlowControl(c, d) ==
    IF c.flow_received /\ d.credit < c.remote_credit THEN c
    ELSE [c EXCEPT !.remote_credit = d.credit, !.flow_received = TRUE, !.idle = 0]

\* process_datagram.  opened is the replay window of the secure channel.
ProcessDatagram(c, d) ==
    LET o == [c EXCEPT !.opened = IF Encrypted THEN @ \union {d.number} ELSE @]
    IN  CASE c.state \notin {"CONNECTED", "DRAINING"} -> c
          [] Encrypted /\ d.number \in c.opened -> c
          [] d.kind = "FLOW_CONTROL" -> ProcessFlowControl(o, d)
          [] d.kind = "CLOSE" -> [o EXCEPT !.state = "CLOSED", !.idle = 0]
          [] d.kind = "ACK" -> ApplyAck(o, d)
          [] d.kind = "FRAME" -> ProcessFrame(o, d)

-----------------------------------------------------------------------------
(* advance_connection, one operator per paragraph.  A paragraph that returns *)
(* sets stop, and the ones after it do nothing.  fail names the first send   *)
(* that fails in the socket.                                                 *)

\* A sealed datagram that does not leave: its number is used up all the same.
FailedSend(c) == [Seal(c) EXCEPT !.stop = TRUE]

CloseDrained(c, fail) ==
    IF c.state = "DRAINING" /\ IsDrained(c)
    THEN [SendClose(c, fail) EXCEPT !.state = "CLOSED", !.stop = TRUE]
    ELSE c

AdvertiseCredit(c, fail) ==
    CASE c.stop \/ c.receive_credit <= c.advertised_credit -> c
      [] ~CanSeal(c) -> [c EXCEPT !.stop = TRUE]
      [] fail = "flow" -> FailedSend(c)
      [] OTHER -> [Emit(c, FlowDatagram(c)) EXCEPT !.advertised_credit = c.receive_credit,
                                                   !.idle = 0]

IdleTimeout(c, fail) ==
    IF ~c.stop /\ IdleTicks # 0 /\ c.idle >= IdleTicks
    THEN [Abort(c, fail) EXCEPT !.stop = TRUE]
    ELSE c

ExpireReassembly(c) ==
    LET old == SelectSeq(c.reassembly, LAMBDA r : r.age >= IdleTicks)
    IN  IF c.stop THEN c
        ELSE [c EXCEPT !.reassembly = SelectSeq(@, LAMBDA r : r.age < IdleTicks),
                       !.receive_credit = @ + FoldLeft(LAMBDA n, r : n + r.parts, 0, old)]

IsExpired(f) == f.ttl = 1

\* candidate_index of the retransmission loop, counted from 1.
Candidate(c, i) ==
    IF c.cursor + i >= Len(c.sent) THEN c.cursor + i - Len(c.sent) + 1 ELSE c.cursor + i + 1

\* A sent packet whose message has expired is given up.
DropExpired(c, at) ==
    [c EXCEPT !.failed = @ \union {c.sent[at].frame.id},
              !.queue_bytes = Minus(@, 1),
              !.reserved = Minus(@, 1),
              !.sent = RemoveAt(@, at),
              !.cursor = IF @ >= Len(c.sent) - 1 THEN 0 ELSE @]

\* mutants: a packet is never sent again; one that is sent again is counted again
ResendNever(c, at, fail) == c

ResendCounted(c, at, fail) ==
    IF ~CanSeal(c) THEN [c EXCEPT !.stop = TRUE]
    ELSE [Emit(c, FrameDatagram(c, c.sent[at].frame)) EXCEPT
            !.sent[at].number = c.next_packet,
            !.sent[at].due = FALSE,
            !.in_flight = @ + 1,
            !.cursor = IF at >= Len(c.sent) THEN 0 ELSE at]

Resend(c, at, fail) ==
    LET half == IF c.window \div 2 < MinWindow THEN MinWindow ELSE c.window \div 2
        shrunk == [c EXCEPT !.threshold = half, !.window = half]
    IN  CASE ~CanSeal(c) -> [shrunk EXCEPT !.stop = TRUE]
          [] fail = "retransmit" -> FailedSend(shrunk)
          [] OTHER -> [Emit(shrunk, FrameDatagram(c, c.sent[at].frame)) EXCEPT
                        !.sent[at].number = c.next_packet,
                        !.sent[at].due = FALSE,
                        !.sent[at].retransmitted = TRUE,
                        !.cursor = IF at >= Len(c.sent) THEN 0 ELSE at]

\* The retransmission loop.  A candidate outside sent is a null pointer.
RECURSIVE Retransmit(_, _, _)
Retransmit(c, i, fail) ==
    LET at == Candidate(c, i)
    IN  CASE c.stop \/ i >= Len(c.sent) -> c
          [] at > Len(c.sent) -> [c EXCEPT !.state = "CRASHED", !.stop = TRUE]
          [] ~c.sent[at].due -> Retransmit(c, i + 1, fail)
          [] IsExpired(c.sent[at].frame) -> Retransmit(DropExpired(c, at), i, fail)
          [] OTHER -> Resend(c, at, fail)

SendAck(c, fail) ==
    CASE c.stop \/ c.pending # <<>> \/ c.largest_received = 0
            \/ c.last_acknowledged_sent = c.largest_received -> c
      [] ~CanSeal(c) -> [c EXCEPT !.stop = TRUE]
      [] fail = "ack" -> FailedSend(c)
      [] OTHER -> [Emit(c, AckDatagram(c)) EXCEPT !.last_acknowledged_sent = c.largest_received,
                                                  !.idle = 0]

IsReliable(f) == f.delivery = "RELIABLE_ORDERED"

\* The head of the selected lane.  It is sealed before pacing and the
\* congestion window decide whether it leaves.
SendFrame(c, fail) ==
    LET f == Head(c.pending)
        sent == [number |-> c.next_packet, frame |-> f, due |-> FALSE, retransmitted |-> FALSE]
    IN  CASE c.stop \/ c.pending = <<>> -> c
          [] IsExpired(f) ->
                [c EXCEPT !.pending = Tail(@),
                          !.reserved = IF IsReliable(f) THEN Minus(@, 1) ELSE @]
          [] ~CanSeal(c) -> c
          [] c.paced \/ c.in_flight >= c.window \/ fail = "frame" -> Seal(c)
          [] OTHER ->
                [Emit(c, FrameDatagram(c, f)) EXCEPT
                    !.pending = Tail(@),
                    !.idle = 0,
                    !.paced = c.rtt,
                    !.sent = IF IsReliable(f) THEN Append(@, sent) ELSE @,
                    !.in_flight = IF IsReliable(f) THEN @ + 1 ELSE @,
                    !.queue_bytes = IF IsReliable(f) THEN @ ELSE Minus(@, 1)]

AdvanceConnection(c, fail) ==
    IF c.state \notin {"CONNECTED", "DRAINING"} THEN c
    ELSE LET ready == IdleTimeout(AdvertiseCredit(CloseDrained(c, fail), fail), fail)
             resent == Retransmit(ExpireReassembly(ready), 0, fail)
         IN  [SendFrame(SendAck(resent, fail), fail) EXCEPT !.stop = FALSE]

-----------------------------------------------------------------------------
(* The system *)

\* A connection after open_connection and the first exchange of flow control.
NewConnection ==
    [state |-> "CONNECTED", pending |-> <<>>, sent |-> <<>>, cursor |-> 0,
     next_packet |-> 2, next_message |-> 1, sealed |-> IF Encrypted THEN 1 ELSE 0,
     opened |-> IF Encrypted THEN {1} ELSE {}, ranges |-> <<>>, largest_received |-> 0,
     last_acknowledged_sent |-> 0, next_reliable |-> [ch \in Channels |-> 1],
     latest_unreliable |-> [ch \in Channels |-> 0], ordered_pending |-> <<>>,
     reassembly |-> <<>>, queue_bytes |-> 0, reserved |-> 0, in_flight |-> 0,
     window |-> InitialWindow, threshold |-> MaxWindow, rtt |-> FALSE, paced |-> FALSE,
     remote_credit |-> Credit, receive_credit |-> Credit, advertised_credit |-> Credit,
     flow_received |-> TRUE, idle |-> 0, polled |-> FALSE, stop |-> FALSE, out |-> <<>>,
     inbox |-> <<>>, failed |-> {}]

Init ==
    /\ conn = [p \in Peers |-> NewConnection]
    /\ accepted = [p \in Peers |-> [ch \in Channels |-> <<>>]]
    /\ net = {}
    /\ faults = 0

\* The datagrams that c has put out leave for peer p.
Outgoing(c, p) == {[to |-> p, data |-> c.out[i], copy |-> 0] : i \in DOMAIN c.out}

Install(p, c) == conn' = [conn EXCEPT ![p] = [c EXCEPT !.out = <<>>]]

\* The fragments that send_connection_message puts into the lane.
Fragments(c, o) ==
    [part \in 1..o.parts |->
        [id |-> c.next_message, channel |-> o.channel, delivery |-> o.delivery,
         sequence |-> IF IsReliable(o) THEN c.next_reliable[o.channel]
                      ELSE c.latest_unreliable[o.channel] + 1,
         part |-> part, parts |-> o.parts,
         ttl |-> IF o.expires = 0 THEN 0 ELSE o.expires + 1]]

\* send_connection_message, when it neither refuses nor rolls back.
CanSend(p) ==
    LET c == conn[p]
        o == Script[p][c.next_message]
    IN  /\ c.next_message <= Len(Script[p])
        /\ c.state = "CONNECTED"
        /\ IsReliable(o) => c.reserved + o.parts <= c.remote_credit
        /\ c.queue_bytes + o.parts <= MaxQueued

SendMessage(p) ==
    LET c == conn[p]
        o == Script[p][c.next_message]
    IN  /\ CanSend(p)
        /\ Install(p, [c EXCEPT
                !.pending = @ \o Fragments(c, o),
                !.next_message = @ + 1,
                !.next_reliable[o.channel] = IF IsReliable(o) THEN @ + 1 ELSE @,
                !.latest_unreliable[o.channel] = IF IsReliable(o) THEN @ ELSE @ + 1,
                !.queue_bytes = @ + o.parts,
                !.reserved = IF IsReliable(o) THEN @ + o.parts ELSE @])
        /\ accepted' = IF IsReliable(o)
                       THEN [accepted EXCEPT ![p][o.channel] = Append(@, c.next_message)]
                       ELSE accepted
        /\ UNCHANGED <<net, faults>>

\* close_connection, called by the application.
Close(p) ==
    LET c == CloseGracefully(conn[p], "none")
    IN  /\ p \in Closers
        /\ conn[p].state = "CONNECTED"
        /\ Install(p, c)
        /\ net' = net \union Outgoing(c, Other(p))
        /\ UNCHANGED <<accepted, faults>>

\* poll: the datagrams of s are in the socket, in this order.
Poll(p, s, fail) ==
    LET read == FoldLeft(ProcessDatagram, conn[p], [i \in DOMAIN s |-> s[i].data])
        c == AdvanceConnection(read, fail)
    IN  /\ conn[p].state # "CRASHED"
        /\ Install(p, [c EXCEPT !.polled = TRUE])
        /\ net' = (net \ Range(s)) \union Outgoing(c, Other(p))
        /\ faults' = IF fail = "none" THEN faults ELSE faults + 1
        /\ UNCHANGED accepted

\* The orders in which a poll can find what is in flight to p.
Arrivals(p) ==
    UNION {SetToSeqs(S) : S \in {T \in SUBSET {e \in net : e.to = p} : Cardinality(T) <= MaxBurst}}

PollQuiet(p) == Poll(p, <<>>, "none")

PollReceive(p) == \E s \in Arrivals(p) \ {<<>>} : Poll(p, s, "none")

PollFails(p) ==
    /\ faults < MaxFaults
    /\ \E fail \in {"close", "flow", "retransmit", "ack", "frame"} : Poll(p, <<>>, fail)

\* The time of one retransmission timeout passes.
Older(f) == [f EXCEPT !.ttl = IF @ > 1 THEN @ - 1 ELSE @]

Aged(c) ==
    [c EXCEPT
        !.pending = [i \in DOMAIN @ |-> Older(@[i])],
        !.sent = [i \in DOMAIN @ |-> [@[i] EXCEPT !.due = TRUE, !.frame = Older(@)]],
        !.reassembly = [i \in DOMAIN @ |-> [@[i] EXCEPT !.age = IF @ < IdleTicks THEN @ + 1 ELSE @]],
        !.idle = IF @ < IdleTicks THEN @ + 1 ELSE @,
        !.paced = FALSE,
        !.polled = FALSE]

\* A timeout that passes while somebody has something to do is a fault.
Tick ==
    LET late == net # {} \/ \E p \in Peers : ~conn[p].polled \/ CanSend(p)
    IN  /\ late => faults < MaxFaults
        /\ \E p \in Peers : conn[p].state \in {"CONNECTED", "DRAINING"}
        /\ conn' = [p \in Peers |-> Aged(conn[p])]
        /\ faults' = IF late THEN faults + 1 ELSE faults
        /\ UNCHANGED <<accepted, net>>

\* now passes pacing_next_send.
PacingElapses(p) ==
    /\ conn[p].paced
    /\ Install(p, [conn[p] EXCEPT !.paced = FALSE])
    /\ UNCHANGED <<accepted, net, faults>>

Lose ==
    /\ faults < MaxFaults
    /\ \E e \in net : net' = net \ {e}
    /\ faults' = faults + 1
    /\ UNCHANGED <<conn, accepted>>

Duplicate ==
    /\ faults < MaxFaults
    /\ \E e \in net : e.copy = 0 /\ net' = net \union {[e EXCEPT !.copy = 1]}
    /\ faults' = faults + 1
    /\ UNCHANGED <<conn, accepted>>

Next ==
    \/ \E p \in Peers :
        \/ SendMessage(p)
        \/ Close(p)
        \/ PollQuiet(p)
        \/ PollReceive(p)
        \/ PollFails(p)
        \/ PacingElapses(p)
    \/ Tick
    \/ Lose
    \/ Duplicate

Spec == Init /\ [][Next]_vars

\* Weak fairness of a poll that changes something, with what enables it spelt out:
\* what is not lost arrives, and both applications poll at least once per timeout.
PollsAreFair(p) ==
    /\ \/ []<><<PollReceive(p)>>_vars
       \/ []<>(conn[p].state = "CRASHED" \/ \A e \in net : e.to # p)
    /\ \/ []<><<PollQuiet(p)>>_vars
       \/ []<>(conn[p].state = "CRASHED" \/ conn[p].polled)

FairSpec ==
    /\ Spec
    /\ WF_vars(Tick)
    /\ \A p \in Peers :
        /\ PollsAreFair(p)
        /\ WF_vars(SendMessage(p))
        /\ WF_vars(PacingElapses(p))

-----------------------------------------------------------------------------
(* Properties *)

Delivered(p, ch) ==
    LET got == SelectSeq(conn[Other(p)].inbox, LAMBDA m : m.channel = ch /\ IsReliable(m))
    IN  [i \in DOMAIN got |-> got[i].id]

Held(p, ch) ==
    LET c == conn[Other(p)]
    IN  {m.sequence : m \in {h \in Range(c.ordered_pending) :
                                h.channel = ch /\ h.sequence > c.next_reliable[ch]}}

Frames(c) == Range(c.pending) \union {s.frame : s \in Range(c.sent)}

\* Part k of message id is somewhere with the receiver.
HasPart(c, id, k) ==
    \/ \E m \in Range(c.inbox) \union Range(c.ordered_pending) : m.id = id
    \/ \E r \in Range(c.reassembly) : r.id = id /\ k \in r.got

\* While the connection is open and the receiver has room to reassemble, the sender
\* forgets a fragment of a reliable message only when the receiver has it, however
\* late, repeated or short of ranges an acknowledgement is (apply_ack, record_packet).
\* At the limit of the reassembly process_datagram has recorded the packet before it
\* refuses the fragment, and this fails.
AcknowledgedIsKept ==
    \A p \in Peers, ch \in Channels : \A id \in Range(accepted[p][ch]) :
        Script[p][id].expires = 0 /\ (\A q \in Peers : conn[q].state # "CLOSED") =>
            \A k \in 1..Script[p][id].parts :
                \/ \E f \in Frames(conn[p]) : f.id = id /\ f.part = k
                \/ HasPart(conn[Other(p)], id, k)

\* What is reserved against the peer's credit, counted in flight and counted in the
\* queue is what is really outstanding, so that a full queue or window opens again.
BudgetsAreExact ==
    \A p \in Peers :
        LET c == conn[p]
        IN  /\ c.reserved = Len(SelectSeq(c.pending, IsReliable)) + Len(c.sent)
            /\ c.in_flight = Len(c.sent)
            /\ c.queue_bytes = Len(c.pending) + Len(c.sent)

\* record_packet keeps the ranges newest first, apart from each other and no more
\* than fit into a datagram, with the largest packet received in the first.
AckRangesAreCanonical ==
    \A p \in Peers :
        LET r == conn[p].ranges
        IN  /\ Len(r) <= RangeLimit
            /\ \A i \in DOMAIN r : r[i].start <= r[i].end
            /\ \A i \in 1..(Len(r) - 1) : r[i + 1].end + 1 < r[i].start
            /\ r # <<>> => conn[p].largest_received = r[1].end

\* A graceful close that the peer has not cut short ends only when every reliable
\* message has been handed over.
DrainsBeforeClose ==
    [][\A p \in Peers :
        (conn[p].state = "DRAINING" /\ conn'[p].state = "CLOSED")
            => \/ conn[Other(p)].state = "CLOSED"
               \/ \A ch \in Channels : Delivered(p, ch) = accepted[p][ch]]_vars

\* Docs/networking_api.md:31 "data is retransmitted and delivered in sequence per
\* channel", whichever peers write to the channel.
DeliveredInSequence ==
    \A p \in Peers, ch \in Channels : IsPrefix(Delivered(p, ch), accepted[p][ch])

\* Docs/networking_error_catalogue.md:3 "peer-controlled packet data never becomes
\* an exception or process abort".
NeverCrashes == \A p \in Peers : conn[p].state # "CRASHED"

\* Docs/networking_api.md:37 "A nonzero expiry is relative to the transport clock and
\* produces a DELIVERY_FAILED event when the message expires."
ExpiryIsReported ==
    \A p \in Peers, ch \in Channels : \A id \in Range(accepted[p][ch]) :
        \/ \E f \in Frames(conn[p]) : f.id = id
        \/ \A k \in 1..Script[p][id].parts : HasPart(conn[Other(p)], id, k)
        \/ id \in conn[p].failed

\* Docs/networking_operations.md:27 "reassembly, ACK, event, candidate, and queue
\* collections are bounded": by the configured maximum_reassembly_bytes.
ReassemblyIsBounded == \A p \in Peers : ReassemblyBytes(conn[p]) <= Credit
=============================================================================
