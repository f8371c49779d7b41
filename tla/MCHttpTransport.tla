-------------------------- MODULE MCHttpTransport ---------------------------
(* Small instances of HttpTransport.                                       *)
EXTENDS HttpTransport

CONSTANTS price, quote

\* A price ends within the grace, a quote may outlast it.
Budgets == [r \in Requests |-> IF r = price THEN Grace ELSE Grace + 1]
=============================================================================
