--------------------------- MODULE KeyUpdateProofs ---------------------------
(* EpochsAgree for every number of updates, on both sides at once, and for every *)
(* behaviour of the network.                                                     *)
EXTENDS KeyUpdate, TLAPS

\* What a packet still in flight can say: a request names an epoch its sender is
\* at or past, or the one it waits for; an acknowledgement names an epoch its
\* sender receives under or has left behind.
Requests ==
    \A m \in net : m.kind = "KEY_UPDATE" =>
        \/ m.value <= send[Other(m.to)]
        \/ update[Other(m.to)] # 0 /\ m.value = update[Other(m.to)]

Acknowledgements ==
    \A m \in net : m.kind = "KEY_UPDATE_ACK" => m.value <= receive[Other(m.to)]

Forward == \A p \in Sides : update[p] # 0 => update[p] > send[p]

Inv == TypeOK /\ EpochsAgree /\ Requests /\ Acknowledgements /\ Forward

\* There are two sides, each the other's other.
LEMMA OtherSide ==
    \A p \in Sides : Other(p) \in Sides /\ Other(p) # p /\ Other(Other(p)) = p
  BY DEF Sides, Other

\* A request is a packet that Requests allows.
LEMMA RequestIsPacket ==
    ASSUME TypeOK, NEW p \in Sides, NEW next \in Nat
    PROVE  /\ Request(p, next) \in Packets
           /\ Request(p, next).kind = "KEY_UPDATE"
           /\ Other(Request(p, next).to) = p
           /\ Request(p, next).value = next
  BY OtherSide DEF TypeOK, Request, Packets

\* What is sent again is what is pending.
LEMMA OutstandingIsPending ==
    ASSUME TypeOK, NEW m \in Outstanding
    PROVE  /\ m \in Packets
           /\ m.kind = "KEY_UPDATE"
           /\ update[Other(m.to)] # 0
           /\ m.value = update[Other(m.to)]
  <1>1. PICK p \in Sides : update[p] # 0 /\ m = Request(p, update[p])
    BY DEF Outstanding
  <1>2. update[p] \in Nat
    BY DEF TypeOK
  <1> QED
    BY <1>1, <1>2, RequestIsPacket

\* request_connection_key_update keeps the invariant.
LEMMA AskKeepsInv ==
    ASSUME Inv, NEW p \in Sides, NEW next \in Nat, Ask(p, next)
    PROVE  Inv'
  <1> USE DEF Inv
  <1>1. TypeOK'
    BY RequestIsPacket DEF Ask, TypeOK
  <1>2. next # 0 /\ receive[Other(p)] = send[p]
    BY DEF Ask, TypeOK, EpochsAgree
  <1>3. EpochsAgree'
    BY <1>2, OtherSide DEF Ask, TypeOK, EpochsAgree
  <1>4. Requests'
    <2> SUFFICES ASSUME NEW m \in net', m.kind = "KEY_UPDATE"
                 PROVE  \/ m.value <= send[Other(m.to)]
                        \/ update'[Other(m.to)] # 0 /\ m.value = update'[Other(m.to)]
      BY DEF Ask, Requests
    <2>1. CASE m \in net
      BY <2>1, OtherSide DEF Ask, Requests, TypeOK
    <2>2. CASE m = Request(p, next)
      BY <2>2, <1>2, RequestIsPacket DEF Ask, TypeOK
    <2> QED
      BY <2>1, <2>2 DEF Ask
  <1>5. Acknowledgements'
    BY RequestIsPacket DEF Ask, Acknowledgements
  <1>6. Forward'
    BY DEF Ask, TypeOK, Forward
  <1> QED
    BY <1>1, <1>3, <1>4, <1>5, <1>6

\* The receiver's answer keeps the invariant: the epoch it takes over is the one
\* the sender waits for.
LEMMA AnswerKeepsInv ==
    ASSUME Inv, NEW p \in Sides, NEW m \in net, Answer(p, m)
    PROVE  Inv'
  <1> USE DEF Inv
  <1> DEFINE q == Other(p)
             ack == Acknowledgement(p, m.value)
  <1>1. /\ q \in Sides /\ q # p /\ Other(q) = p
        /\ m.value \in Nat /\ m.epoch \in Nat
        /\ \A r \in Sides : r = p \/ r = q
        /\ \A r \in Sides : send[r] \in Nat /\ receive[r] \in Nat /\ update[r] \in Nat
    BY OtherSide DEF TypeOK, Packets, Sides, Other
  <1>2. ack \in Packets /\ ack.kind = "KEY_UPDATE_ACK" /\ Other(ack.to) = p /\ ack.value = m.value
    BY <1>1 DEF Acknowledgement, Packets
  <1>3. receive'[p] = m.value /\ receive'[p] >= receive[p] /\ receive'[q] = receive[q]
    BY <1>1 DEF Answer, TypeOK
  <1>4. receive'[p] # receive[p] => update[q] # 0 /\ m.value = update[q]
    <2> SUFFICES ASSUME receive'[p] # receive[p]
                 PROVE  update[q] # 0 /\ m.value = update[q]
      OBVIOUS
    <2>1. m.value > receive[p]
      BY <1>1, <1>3
    <2>2. m.value <= send[q] \/ (update[q] # 0 /\ m.value = update[q])
      BY DEF Answer, Requests
    <2>3. receive[p] = send[q] \/ (update[q] # 0 /\ receive[p] = update[q])
      BY <1>1 DEF EpochsAgree
    <2>4. update[q] # 0 => update[q] > send[q]
      BY <1>1 DEF Forward
    <2> QED
      BY <2>1, <2>2, <2>3, <2>4, <1>1
  <1>5. TypeOK'
    <2>1. net' \subseteq Packets
      BY <1>2, OutstandingIsPending DEF Answer, TypeOK
    <2>2. receive' \in [Sides -> Nat]
      BY <1>1 DEF Answer, TypeOK
    <2> QED
      BY <2>1, <2>2 DEF Answer, TypeOK
  <1>6. EpochsAgree'
    BY <1>1, <1>3, <1>4 DEF Answer, EpochsAgree
  <1>7. Requests'
    BY <1>2, OutstandingIsPending DEF Answer, Requests
  <1>8. Acknowledgements'
    <2> SUFFICES ASSUME NEW k \in net', k.kind = "KEY_UPDATE_ACK"
                 PROVE  k.value <= receive'[Other(k.to)]
      BY DEF Acknowledgements
    <2>1. CASE k \in net
      <3>1. k.value \in Nat /\ Other(k.to) \in Sides /\ k.value <= receive[Other(k.to)]
        BY <2>1, OtherSide DEF TypeOK, Packets, Acknowledgements
      <3>2. receive'[Other(k.to)] \in Nat /\ receive[Other(k.to)] \in Nat
        BY <3>1, <1>5 DEF TypeOK
      <3>3. receive[Other(k.to)] <= receive'[Other(k.to)]
        BY <3>1, <3>2, <1>1, <1>3
      <3> QED
        BY <3>1, <3>2, <3>3
    <2>2. CASE k \in Outstanding
      BY <2>2, OutstandingIsPending
    <2>3. CASE k = ack
      BY <2>3, <1>1, <1>2, <1>3
    <2> QED
      BY <2>1, <2>2, <2>3 DEF Answer
  <1>9. Forward'
    BY DEF Answer, Forward
  <1> QED
    BY <1>5, <1>6, <1>7, <1>8, <1>9

\* The end of an update keeps the invariant: the peer is at the new epoch already.
LEMMA CompleteKeepsInv ==
    ASSUME Inv, NEW p \in Sides, NEW m \in net, Complete(p, m)
    PROVE  Inv'
  <1> USE DEF Inv
  <1> DEFINE q == Other(p)
  <1>1. /\ q \in Sides /\ q # p /\ Other(q) = p
        /\ \A r \in Sides : r = p \/ r = q
        /\ \A r \in Sides : send[r] \in Nat /\ receive[r] \in Nat /\ update[r] \in Nat
    BY OtherSide DEF TypeOK, Sides, Other
  <1>2. update[p] <= receive[q] /\ update[p] > send[p]
    BY DEF Complete, Acknowledgements, Forward
  <1>3. receive[q] = update[p]
    BY <1>1, <1>2 DEF EpochsAgree
  <1>4. /\ send'[p] = update[p] /\ send'[q] = send[q] /\ update'[p] = 0 /\ update'[q] = update[q]
        /\ send' \in [Sides -> Nat] /\ update' \in [Sides -> Nat]
    BY <1>1 DEF Complete, TypeOK
  <1>5. TypeOK'
    BY <1>4 DEF Complete, TypeOK
  <1>6. EpochsAgree'
    BY <1>1, <1>3, <1>4 DEF Complete, EpochsAgree
  <1>7. Requests'
    <2> SUFFICES ASSUME NEW k \in net', k.kind = "KEY_UPDATE"
                 PROVE  \/ k.value <= send'[Other(k.to)]
                        \/ update'[Other(k.to)] # 0 /\ k.value = update'[Other(k.to)]
      BY DEF Requests
    <2>1. k \in net /\ k.value \in Nat /\ Other(k.to) \in Sides
      BY OtherSide DEF Complete, TypeOK, Packets
    <2>2. \/ k.value <= send[Other(k.to)]
          \/ update[Other(k.to)] # 0 /\ k.value = update[Other(k.to)]
      BY <2>1 DEF Requests
    <2>3. CASE Other(k.to) = p
      BY <2>1, <2>2, <2>3, <1>1, <1>2, <1>4
    <2>4. CASE Other(k.to) = q
      BY <2>2, <2>4, <1>4
    <2> QED
      BY <2>1, <2>3, <2>4, <1>1
  <1>8. Acknowledgements'
    BY DEF Complete, Acknowledgements
  <1>9. Forward'
    BY <1>1, <1>4 DEF Forward
  <1> QED
    BY <1>5, <1>6, <1>7, <1>8, <1>9

\* Loss and retransmission keep the invariant.
LEMMA NetworkKeepsInv ==
    ASSUME Inv, Network
    PROVE  Inv'
  <1> USE DEF Inv
  <1>1. net' \subseteq Packets
    BY OutstandingIsPending DEF Network, TypeOK
  <1>2. Requests' /\ Acknowledgements'
    BY OutstandingIsPending DEF Network, Requests, Acknowledgements
  <1> QED
    BY <1>1, <1>2 DEF Network, TypeOK, EpochsAgree, Forward

\* The epochs of the two directions never come apart: each side's packets are
\* sealed under a key its peer has, or the side waits for its own update
\* (process_datagram's KEY_UPDATE and KEY_UPDATE_ACK branches).
THEOREM EpochsStayTogether == Spec => []EpochsAgree
  <1>1. Init => Inv
    BY OtherSide DEF Init, Inv, TypeOK, EpochsAgree, Requests, Acknowledgements, Forward
  <1>2. Inv /\ [Next]_vars => Inv'
    <2> SUFFICES ASSUME Inv, [Next]_vars PROVE Inv'
      OBVIOUS
    <2>1. ASSUME NEW p \in Sides, update'[p] \in Nat, Ask(p, update'[p]) PROVE Inv'
      BY <2>1, AskKeepsInv
    <2>2. ASSUME NEW p \in Sides, NEW m \in net, Answer(p, m) PROVE Inv'
      BY <2>2, AnswerKeepsInv
    <2>3. ASSUME NEW p \in Sides, NEW m \in net, Complete(p, m) PROVE Inv'
      BY <2>3, CompleteKeepsInv
    <2>4. CASE Network
      BY <2>4, NetworkKeepsInv
    <2>5. CASE UNCHANGED vars
      BY <2>5 DEF vars, Inv, TypeOK, EpochsAgree, Requests, Acknowledgements, Forward
    <2> QED
      BY <2>1, <2>2, <2>3, <2>4, <2>5 DEF Next
  <1>3. Inv => EpochsAgree
    BY DEF Inv
  <1> QED
    BY <1>1, <1>2, <1>3, PTL DEF Spec
=============================================================================
