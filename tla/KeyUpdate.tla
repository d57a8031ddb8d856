------------------------------ MODULE KeyUpdate ------------------------------
(* What the key update of a secure connection promises, whatever the network    *)
(* does: the key epochs of the two directions of one connection, and the        *)
(* KEY_UPDATE and KEY_UPDATE_ACK packets that change them.  Packets are lost,   *)
(* kept for later and sent again at will; packet numbers, timers, the lifetime  *)
(* of the previous key and the end of the connection are SecureSession's.       *)
EXTENDS Naturals

VARIABLES
    send,       \* _send_key_epoch of each side
    receive,    \* _receive_key_epoch of each side
    update,     \* key_update_epoch of each side, 0 when none is pending
    net         \* the packets that may still arrive
vars == <<send, receive, update, net>>

Sides == {"client", "server"}

Other(p) == IF p = "client" THEN "server" ELSE "client"

\* send_key_update_request and send_key_update_ack, sealed under the send key.
Request(p, next) == [kind |-> "KEY_UPDATE", to |-> Other(p), epoch |-> send[p], value |-> next]

Acknowledgement(p, next) ==
    [kind |-> "KEY_UPDATE_ACK", to |-> Other(p), epoch |-> send[p], value |-> next]

\* What advance_connection sends again.
Outstanding == {Request(p, update[p]) : p \in {q \in Sides : update[q] # 0}}

Packets == [kind : {"KEY_UPDATE", "KEY_UPDATE_ACK"}, to : Sides, epoch : Nat, value : Nat]

TypeOK ==
    /\ send \in [Sides -> Nat]
    /\ receive \in [Sides -> Nat]
    /\ update \in [Sides -> Nat]
    /\ net \subseteq Packets

Init ==
    /\ send = [p \in Sides |-> 0]
    /\ receive = [p \in Sides |-> 0]
    /\ update = [p \in Sides |-> 0]
    /\ net = {}

\* request_connection_key_update.
Ask(p, next) ==
    /\ update[p] = 0
    /\ next > send[p]
    /\ update' = [update EXCEPT ![p] = next]
    /\ net' \subseteq net \union {Request(p, next)}
    /\ UNCHANGED <<send, receive>>

\* process_datagram on a KEY_UPDATE: a new epoch is acknowledged and taken over,
\* the one taken over last is acknowledged again.
Answer(p, m) ==
    /\ m.kind = "KEY_UPDATE"
    /\ m.to = p
    /\ \/ /\ m.epoch = receive[p]
          /\ m.value > receive[p]
          /\ receive' = [receive EXCEPT ![p] = m.value]
       \/ /\ m.epoch # receive[p]
          /\ m.value = receive[p]
          /\ UNCHANGED receive
    /\ net' \subseteq net \union Outstanding \union {Acknowledgement(p, m.value)}
    /\ UNCHANGED <<send, update>>

\* process_datagram on a KEY_UPDATE_ACK.
Complete(p, m) ==
    /\ m.kind = "KEY_UPDATE_ACK"
    /\ m.to = p
    /\ m.epoch = receive[p]
    /\ update[p] # 0
    /\ m.value = update[p]
    /\ send' = [send EXCEPT ![p] = m.value]
    /\ update' = [update EXCEPT ![p] = 0]
    /\ net' \subseteq net
    /\ UNCHANGED receive

\* Packets are lost, and advance_connection repeats a request.
Network ==
    /\ net' \subseteq net \union Outstanding
    /\ UNCHANGED <<send, receive, update>>

\* Any later epoch can be asked for.
Next ==
    \/ \E p \in Sides : update'[p] \in Nat /\ Ask(p, update'[p])
    \/ \E p \in Sides, m \in net : Answer(p, m) \/ Complete(p, m)
    \/ Network

Spec == Init /\ [][Next]_vars

\* A side sends under a key its peer receives under, except while its own update
\* is pending, when the peer may already be at the epoch it asked for: no packet
\* that is lost, late or repeated sets the two directions apart.
EpochsAgree ==
    \A p \in Sides :
        \/ receive[Other(p)] = send[p]
        \/ update[p] # 0 /\ receive[Other(p)] = update[p]
=============================================================================
