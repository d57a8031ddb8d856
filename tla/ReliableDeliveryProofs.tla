----------------------- MODULE ReliableDeliveryProofs -----------------------
EXTENDS ReliableDelivery, TLAPS

Inv == TypeOK /\ DeliveredIsPrefix

\* Accepting a message leaves the prefix that was delivered as it is.
LEMMA PrefixOfAppend ==
    ASSUME NEW S, NEW s \in Seq(S), NEW m \in S, NEW n \in 0..Len(s)
    PROVE  SubSeq(Append(s, m), 1, n) = SubSeq(s, 1, n)
  OBVIOUS

\* A prefix and the piece after it make up a longer prefix.
LEMMA PrefixAndPiece ==
    ASSUME NEW S, NEW s \in Seq(S), NEW k \in Nat, NEW n \in Nat, k <= n, n <= Len(s)
    PROVE  SubSeq(s, 1, k) \o SubSeq(s, k + 1, n) = SubSeq(s, 1, n)
  OBVIOUS

\* What a prefix is: a sequence of the same messages, of the length asked for.
LEMMA PrefixIsSeq ==
    ASSUME NEW S, NEW s \in Seq(S), NEW n \in 0..Len(s)
    PROVE  SubSeq(s, 1, n) \in Seq(S) /\ Len(SubSeq(s, 1, n)) = n
  OBVIOUS

\* Accept appends to accepted only.
LEMMA AcceptKeepsPrefix ==
    ASSUME Inv, Accept
    PROVE  Inv'
  <1>1. PICK m \in Messages : accepted' = Append(accepted, m)
    BY DEF Accept
  <1>2. /\ accepted' \in Seq(Messages)
        /\ Len(accepted') = Len(accepted) + 1
    BY <1>1 DEF Inv, TypeOK
  <1>3. next' = next /\ held' = held /\ delivered' = delivered
    BY DEF Accept
  <1>4. next - 1 \in 0..Len(accepted)
    BY DEF Inv, TypeOK, DeliveredIsPrefix
  <1>5. delivered' = SubSeq(accepted', 1, next' - 1)
    BY <1>1, <1>3, <1>4, PrefixOfAppend DEF Inv, TypeOK, DeliveredIsPrefix
  <1>6. held' \subseteq (next' + 1)..Len(accepted')
    BY <1>2, <1>3 DEF Inv, TypeOK, DeliveredIsPrefix
  <1> QED
    BY <1>2, <1>3, <1>5, <1>6 DEF Inv, TypeOK, DeliveredIsPrefix

\* The arrivals of a poll extend what was delivered up to the next gap.
LEMMA ArriveExtendsPrefix ==
    ASSUME Inv, Arrive
    PROVE  /\ Inv'
           /\ next' \in next..(Len(accepted) + 1)
  <1>1. PICK arrived \in SUBSET (1..Len(accepted)), n \in next..(Len(accepted) + 1) :
            /\ next' = n
            /\ held' = {i \in held \union arrived : i > n}
            /\ delivered' = delivered \o SubSeq(accepted, next, n - 1)
    BY DEF Arrive
  <1>2. accepted' = accepted
    BY DEF Arrive
  <1>3. n \in Nat \ {0} /\ next - 1 \in Nat /\ n - 1 \in Nat
        /\ next - 1 <= n - 1 /\ n - 1 <= Len(accepted) /\ (next - 1) + 1 = next
    BY DEF Inv, TypeOK, DeliveredIsPrefix
  <1>4. SubSeq(accepted, 1, next - 1) \o SubSeq(accepted, (next - 1) + 1, n - 1)
            = SubSeq(accepted, 1, n - 1)
    BY <1>3, PrefixAndPiece DEF Inv, TypeOK
  <1>5. delivered' = SubSeq(accepted', 1, next' - 1)
    BY <1>1, <1>2, <1>3, <1>4 DEF Inv, DeliveredIsPrefix
  <1>6. delivered' \in Seq(Messages)
    <2>1. n - 1 \in 0..Len(accepted)
      BY <1>3 DEF Inv, TypeOK
    <2> QED
      BY <2>1, <1>1, <1>2, <1>5, PrefixIsSeq DEF Inv, TypeOK
  <1>7. held' \subseteq (next' + 1)..Len(accepted')
    <2> SUFFICES ASSUME NEW i \in held'
                 PROVE  i \in (n + 1)..Len(accepted)
      BY <1>1, <1>2
    <2>1. i \in held \union arrived /\ i > n
      BY <1>1
    <2>2. i \in 1..Len(accepted)
      BY <2>1, <1>3 DEF Inv, TypeOK, DeliveredIsPrefix
    <2>3. Len(accepted) \in Nat
      BY DEF Inv, TypeOK
    <2> QED
      BY <2>1, <2>2, <2>3, <1>3
  <1> QED
    BY <1>1, <1>2, <1>3, <1>5, <1>6, <1>7 DEF Inv, TypeOK, DeliveredIsPrefix

\* Every step of the channel keeps the prefix.
LEMMA InvHolds == Spec => []Inv
  <1>1. Init => Inv
    BY DEF Init, Inv, TypeOK, DeliveredIsPrefix
  <1>2. Inv /\ [Next]_vars => Inv'
    <2> SUFFICES ASSUME Inv, [Next]_vars
                 PROVE  Inv'
      OBVIOUS
    <2>1. CASE Accept
      BY <2>1, AcceptKeepsPrefix
    <2>2. CASE Arrive
      BY <2>2, ArriveExtendsPrefix
    <2>3. CASE Abort
      BY <2>3 DEF Abort, Inv, TypeOK, DeliveredIsPrefix
    <2>4. CASE UNCHANGED vars
      BY <2>4 DEF vars, Inv, TypeOK, DeliveredIsPrefix
    <2> QED
      BY <2>1, <2>2, <2>3, <2>4 DEF Next
  <1> QED
    BY <1>1, <1>2, PTL DEF Spec

\* Whatever the network loses, repeats or reorders, networking_message_deliver
\* has handed over a prefix of what send_connection_message accepted.
THEOREM DeliveryIsInOrder == Spec => []DeliveredIsPrefix
  <1>1. Inv => DeliveredIsPrefix
    BY DEF Inv
  <1> QED
    BY InvHolds, <1>1, PTL

\* Sequence numbers, ordered_pending and next_reliable_sequence together
\* implement the first-in first-out channel.
THEOREM DeliveryIsFifo == Spec => Fifo!Spec
  <1>1. Init => Fifo!Init
    BY DEF Init, Fifo!Init
  <1>2. Inv /\ Inv' /\ [Next]_vars => [Fifo!Next]_Fifo!vars
    <2> SUFFICES ASSUME Inv, Inv', [Next]_vars
                 PROVE  [Fifo!Next]_Fifo!vars
      OBVIOUS
    <2>1. CASE Accept
      BY <2>1 DEF Accept, Fifo!Next, Fifo!Accept
    <2>2. CASE Arrive
      <3>1. accepted' = accepted
        BY <2>2 DEF Arrive
      <3>2. next' \in next..(Len(accepted) + 1)
        BY <2>2, ArriveExtendsPrefix
      <3>3. delivered' = SubSeq(accepted, 1, next' - 1) /\ Len(delivered) = next - 1
        <4>1. next - 1 \in 0..Len(accepted)
          BY DEF Inv, TypeOK, DeliveredIsPrefix
        <4> QED
          BY <3>1, <4>1, PrefixIsSeq DEF Inv, TypeOK, DeliveredIsPrefix
      <3>4. CASE next' = next
        BY <3>1, <3>3, <3>4 DEF Inv, DeliveredIsPrefix, Fifo!vars
      <3>5. CASE next' # next
        <4>1. next' - 1 \in (Len(delivered) + 1)..Len(accepted)
          <5>1. Len(accepted) \in Nat /\ next \in Nat \ {0}
            BY DEF Inv, TypeOK
          <5>2. next' \in Nat /\ next' > next /\ next' - 1 <= Len(accepted)
            BY <5>1, <3>2, <3>5
          <5>3. Len(delivered) + 1 = next
            BY <5>1, <3>3
          <5> QED
            BY <5>1, <5>2, <5>3
        <4> QED
          BY <4>1, <3>1, <3>3 DEF Fifo!Next, Fifo!Deliver
      <3> QED
        BY <3>4, <3>5
    <2>3. CASE Abort
      BY <2>3 DEF Abort, Fifo!vars
    <2>4. CASE UNCHANGED vars
      BY <2>4 DEF vars, Fifo!vars
    <2> QED
      BY <2>1, <2>2, <2>3, <2>4 DEF Next
  <1> QED
    BY InvHolds, <1>1, <1>2, PTL DEF Spec, Fifo!Spec
=============================================================================
