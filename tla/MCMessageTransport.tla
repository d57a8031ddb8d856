------------------------- MODULE MCMessageTransport -------------------------
(* Instances of MessageTransport: who sends what. *)
EXTENDS MessageTransport

CONSTANTS a, b

Reliable(ch, parts) ==
    [channel |-> ch, delivery |-> "RELIABLE_ORDERED", parts |-> parts, expires |-> 0]

\* One peer writes channel 1, the other channel 2.
OneWriterEach ==
    (a :> <<Reliable(1, 2), Reliable(1, 1)>>) @@ (b :> <<Reliable(2, 1)>>)

OneWriter == (a :> <<Reliable(1, 2), Reliable(1, 1)>>) @@ (b :> <<>>)

TwoMessages == (a :> <<Reliable(1, 1), Reliable(1, 1)>>) @@ (b :> <<>>)

ThreeMessages == (a :> <<Reliable(1, 1), Reliable(1, 1), Reliable(1, 1)>>) @@ (b :> <<>>)

OneExpires == (a :> <<Reliable(1, 1), [Reliable(1, 1) EXCEPT !.expires = 1]>>) @@ (b :> <<>>)

Fragmented == (a :> <<Reliable(1, 2), Reliable(1, 2), Reliable(1, 2)>>) @@ (b :> <<>>)

\* Both write channel 1.
TwoWriters == [p \in Peers |-> <<Reliable(1, 1), Reliable(1, 1)>>]

\* Channel 1 from a to b, and channel 2 from b to a.
FromA == INSTANCE ReliableDelivery WITH
    Messages <- DOMAIN Script[a],
    accepted <- accepted[a][1],
    next <- conn[b].next_reliable[1],
    held <- Held(a, 1),
    delivered <- Delivered(a, 1)

FromB == INSTANCE ReliableDelivery WITH
    Messages <- DOMAIN Script[b],
    accepted <- accepted[b][2],
    next <- conn[a].next_reliable[2],
    held <- Held(b, 2),
    delivered <- Delivered(b, 2)

\* Fragments, packet numbers, acknowledgements, retransmissions and reassembly over a
\* network that loses, repeats and reorders amount to ReliableDelivery in each
\* direction: send_connection_message accepts, networking_message_deliver hands over
\* in sequence, and every other step leaves both alone.
ImplementsDelivery == FromA!Spec /\ FromB!Spec

\* Every message send_connection_message accepted from a is received by b at last:
\* advance_connection repeats what is lost, and window, credit and pacing open again.
EventuallyDelivered == FromA!Fifo!EventuallyDelivered
=============================================================================
