-------------------------- MODULE MCProviderRunner --------------------------
(* Small instances of ProviderRunner.                                      *)
EXTENDS ProviderRunner

CONSTANTS r1, r2, r3, p1, p2, p3, quote

\* Requests that share their second provider and each have one of their own.
SharedPlans == [r \in Requests |-> IF r = r1 THEN <<p3, p1>> ELSE <<p2, p1>>]
\* Requests that try the same two providers in opposite orders.
CrossedPlans == [r \in Requests |-> IF r = r1 THEN <<p1, p2>> ELSE <<p2, p1>>]

AllQuotes == [r \in Requests |-> quote]

AllSupported == [r \in Requests |-> {}]
OneUnsupported == [r \in Requests |-> IF r = r3 THEN {p2} ELSE {}]

\* An answer that closes a scope and one that opens it.
Varied == { C!Result("ok", "none", 0), C!Result("error", "RATE_LIMITED", 1) }
=============================================================================
