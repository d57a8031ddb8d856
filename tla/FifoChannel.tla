---------------------------- MODULE FifoChannel ----------------------------
(***************************************************************************)
(* What a reliable ordered channel of the message transport promises in    *)
(* one direction: the messages that send accepted are received once each,  *)
(* in the order of the sends, and none is left out.                        *)
(***************************************************************************)
EXTENDS Naturals, Sequences, FiniteSets

CONSTANT Messages

VARIABLES accepted, delivered

vars == <<accepted, delivered>>

Init ==
    /\ accepted = <<>>
    /\ delivered = <<>>

Accept ==
    /\ \E m \in Messages : accepted' = Append(accepted, m)
    /\ UNCHANGED delivered

\* One poll may hand over several messages.
Deliver ==
    /\ \E n \in (Len(delivered) + 1)..Len(accepted) : delivered' = SubSeq(accepted, 1, n)
    /\ UNCHANGED accepted

Next == Accept \/ Deliver

Spec == Init /\ [][Next]_vars

\* Every message that was accepted is received at last.
EventuallyDelivered ==
    \A n \in 1..Cardinality(Messages) : Len(accepted) >= n ~> Len(delivered) >= n
=============================================================================
