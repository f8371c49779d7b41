--------------------------- MODULE MCTokenRequests ---------------------------
(* Small instances of TokenRequests.                                       *)
EXTENDS TokenRequests, TLC

CONSTANTS r1, r2, coin, vault, other, old, gas

\* A share of the vault is worth one and a half coin, a share of the other half a coin.
TwoVaults ==
    (vault :> [asset |-> coin, rate |-> 15, shareUnit |-> 10, assetUnit |-> 10])
    @@ (other :> [asset |-> coin, rate |-> 5, shareUnit |-> 10, assetUnit |-> 10])

OldCoin == old :> coin

\* Nothing is to be learnt of the others on the chain.
Facts ==
    [t \in Tokens |-> IF t = coin THEN [symbol |-> "COIN", decimals |-> 1] ELSE NoMeta]

Priorities == [op \in Operations |-> IF op = "price" THEN <<"lifi">> ELSE <<>>]

Ask(operation, tokens, amount, providers, useUnderlying) ==
    [operation |-> operation, tokens |-> tokens, amount |-> amount,
     providers |-> providers, useUnderlying |-> useUnderlying]

\* One slot for prices and quotes, one for metadata.
SomeAsks ==
    r1 :> {Ask("quote", <<vault, other>>, 20, <<"lifi", "enso", "curve">>, TRUE),
           Ask("quote", <<other, vault>>, 20, <<>>, TRUE),
           Ask("quote", <<vault, coin>>, 30, <<>>, TRUE),
           Ask("quote", <<old, gas>>, 10, <<"lifi", "defillama">>, FALSE),
           Ask("price", <<vault>>, 1, <<>>, TRUE)}
    @@ r2 :> {Ask("token", <<old>>, 1, <<>>, FALSE)}

Call(end, code, body) ==
    [end |-> end, code |-> code, retryAfter |-> [form |-> "seconds", value |-> 0], body |-> body]

Body(main, fallback, min, meta) ==
    [json |-> "object", entry |-> TRUE, main |-> main, fallback |-> fallback, min |-> min, meta |-> meta]

Sparse == [symbol |-> "", decimals |-> 2]
NoBody == [Body(Absent, Absent, Absent, <<NoMeta>>) EXCEPT !.json = "other", !.entry = FALSE]
Answers(body) == Call("response", 200, body)

SomeEnds ==
    [op \in Operations |->
        IF op = "price"
        THEN {Answers(Body(Whole(1), Absent, Absent, <<Sparse>>)),
              Answers(Body(Malformed, AndAHalf(0), Absent, <<NoMeta>>)),
              Call("response", 429, NoBody)}
        ELSE {Answers(Body(Whole(1), Absent, Absent, <<NoMeta, NoMeta>>)),
              Answers(Body(AndAHalf(1), Whole(9), Whole(10), <<NoMeta, Sparse>>)),
              Answers(Body(Whole(40), Absent, Whole(1), <<NoMeta, NoMeta>>)),
              Call("deadline", 0, NoBody)}]
=============================================================================
