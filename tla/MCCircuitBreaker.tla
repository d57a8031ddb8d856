-------------------------- MODULE MCCircuitBreaker --------------------------
(* Instances of CircuitBreaker for TLC. *)
EXTENDS CircuitBreaker, TLC

CONSTANTS r1, r2, r3

TwoRequests == {r1, r2}
ThreeRequests == {r1, r2, r3}
RequestSymmetry == Permutations(ThreeRequests)

AllKinds == {"string", "stream", "https"}
StringOrTls == {"string", "https"}
StringOnly == {"string"}
StreamOnly == {"stream"}
TlsOnly == {"https"}
OneCooldown == {"ahead"}
AnyCooldown == {"ahead", "passed"}
=============================================================================
