-------------------------- MODULE ReliableDelivery --------------------------
(***************************************************************************)
(* One reliable ordered channel in one direction, as the two functions of  *)
(* Networking/networking_message_transport.cpp that number and order its   *)
(* messages see it: send_connection_message gives message i the sequence   *)
(* number i, the network and the retransmissions present any message that  *)
(* was sent any number of times in any order, and                          *)
(* networking_message_deliver puts the arrivals back in order.             *)
(***************************************************************************)
EXTENDS Naturals, Sequences

CONSTANT Messages

VARIABLES
    accepted,   \* the messages send_connection_message accepted
    next,       \* next_reliable_sequence of the receiver
    held,       \* sequence numbers in ordered_pending that next has not passed
    delivered   \* the messages put into _received_messages

vars == <<accepted, next, held, delivered>>

TypeOK ==
    /\ accepted \in Seq(Messages)
    /\ next \in Nat \ {0}
    /\ held \in SUBSET Nat
    /\ delivered \in Seq(Messages)

Init ==
    /\ accepted = <<>>
    /\ next = 1
    /\ held = {}
    /\ delivered = <<>>

Accept ==
    /\ \E m \in Messages : accepted' = Append(accepted, m)
    /\ UNCHANGED <<next, held, delivered>>

\* The messages of one poll arrive: what closes the gap after next is handed
\* over together with what was held behind it, the rest is held.
Arrive ==
    /\ \E arrived \in SUBSET (1..Len(accepted)), n \in next..(Len(accepted) + 1) :
            /\ next..(n - 1) \subseteq held \union arrived
            /\ n \notin held \union arrived
            /\ next' = n
            /\ held' = {i \in held \union arrived : i > n}
            /\ delivered' = delivered \o SubSeq(accepted, next, n - 1)
    /\ UNCHANGED accepted

\* close_connection with abort_connection TRUE.
Abort ==
    /\ held' = {}
    /\ UNCHANGED <<accepted, next, delivered>>

Next == Accept \/ Arrive \/ Abort

Spec == Init /\ [][Next]_vars

\* What the receiver has handed over is a prefix of what the sender accepted,
\* cut at next, and nothing is held that next has passed or that was not sent.
DeliveredIsPrefix ==
    /\ next <= Len(accepted) + 1
    /\ delivered = SubSeq(accepted, 1, next - 1)
    /\ held \subseteq (next + 1)..Len(accepted)

Fifo == INSTANCE FifoChannel
=============================================================================
