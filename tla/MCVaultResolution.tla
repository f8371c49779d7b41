------------------------- MODULE MCVaultResolution -------------------------
(* Small instances of VaultResolution.                                     *)
EXTENDS VaultResolution, TLC

CONSTANTS r1, r2, a, b

Always(kind) == [s \in 0..MaxTime |-> kind]
From(moment, kind) == [s \in 0..MaxTime |-> IF s < moment THEN "plain" ELSE kind]
Until(moment, kind) == [s \in 0..MaxTime |-> IF s < moment THEN kind ELSE "plain"]

\* One token that never is a vault, and one that becomes or ceases to be one.
Changing ==
    {[t \in Tokens |-> IF t = a THEN h ELSE Always("plain")] :
        h \in {From(1, "erc4626"), From(2, "yearn_v2"), Until(2, "erc4626"), Until(1, "yearn_v2")}}

Fixed == {[t \in Tokens |-> IF t = a THEN Always("erc4626") ELSE Always("plain")]}

Prices == {<<a>>, <<b>>}
PricesAndQuotes == {<<a>>, <<b, a>>}
Interchangeable == Permutations(Requests)
=============================================================================
