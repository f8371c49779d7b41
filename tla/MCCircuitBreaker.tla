-------------------------- MODULE MCCircuitBreaker --------------------------
(* Small instances of CircuitBreaker.                                      *)
EXTENDS CircuitBreaker, TLC

CONSTANTS c1, c2, c3, s1

OneScope == [c \in Calls |-> s1]

SameScopeCalls == Permutations(Calls)
=============================================================================
