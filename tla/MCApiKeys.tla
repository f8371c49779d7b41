----------------------------- MODULE MCApiKeys ------------------------------
(* Small instances of ApiKeys.                                             *)
EXTENDS ApiKeys

CONSTANTS r1, r2, s1, s2, c1, k1, o1

\* One request in each of two server processes, both from the same client.
OneEach == [r \in Requests |-> IF r = r1 THEN s1 ELSE s2]
\* The settings of the second process do without the anonymous limiter.
FirstOnly == [s \in Servers |-> s = s1]
OneClient == [r \in Requests |-> c1]
=============================================================================
