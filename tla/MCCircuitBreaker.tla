-------------------------- MODULE MCCircuitBreaker --------------------------
(* Instance of CircuitBreaker for TLC: a service that may answer anything.   *)
EXTENDS CircuitBreaker

CONSTANTS r1, r2, r3

AnyOutcome == AllOutcomes
=============================================================================
