--------------------------- MODULE ProviderReplies ---------------------------
(***************************************************************************)
(* What a provider plugin makes of the end of its HTTP call: timed_get and  *)
(* json_transport_outcome (providers/http_helpers.py), the four plugins and *)
(* the parsing they share, and the results the runner makes of a provider   *)
(* that was not called or did not end in time.  Operators without state.    *)
(*                                                                          *)
(* A payload is what the plugin takes from it: "main" is the value at the   *)
(* place it looks first, "fallback" the one at the place it looks next,     *)
(* "min" the smallest amount out and "meta" the metadata of each token.     *)
(* Latencies, times, gas, price impact, routes and messages are left out.   *)
(***************************************************************************)
EXTENDS Integers, Sequences

CONSTANTS
    Symbols,    \* what a token may be called, "" for what has no name
    MaxUint,    \* MAX_UINT256
    PriceScale  \* a multiple of the unit of every vault's asset, which keeps prices whole

ASSUME ReplyAssumption ==
    /\ {"", "native"} \subseteq Symbols
    /\ MaxUint \in Nat \ {0}
    /\ PriceScale \in Nat \ {0}

NoValue == -1

\* What is known of a token: parse_token_metadata_fields and decode_uint8 both
\* take no more than 255 for its decimals.
Metadata == [symbol: Symbols, decimals: NoValue..255]
NoMeta == [symbol |-> "", decimals |-> NoValue]

(***************************************************************************)
(* Numbers in a payload: whole, or whole and a half, which needs the        *)
(* decimals of its token to become an amount.  What is not a number at all  *)
(* reads like a negative one; a key that is not there is told from it.      *)
(***************************************************************************)
Whole(n) == [whole |-> n, half |-> FALSE]
AndAHalf(n) == [whole |-> n, half |-> TRUE]
Absent == Whole(-2)
Malformed == Whole(-1)

Numbers == [whole: Int, half: BOOLEAN]
Bodies ==
    [json: {"object", "empty_list", "other"}, entry: BOOLEAN, main: Numbers,
     fallback: Numbers, min: Numbers, meta: Seq(Metadata)]

\* A price in quarters of a dollar times PriceScale: the median of two is whole.
PositiveDecimal(raw) ==
    IF raw.whole < 0 \/ raw = Whole(0) THEN NoValue
    ELSE PriceScale * (4 * raw.whole + IF raw.half THEN 2 ELSE 0)

Bounded(n) == IF n \in 0..MaxUint THEN n ELSE NoValue

BaseUnits(raw, decimals) ==
    IF raw.whole < 0 \/ (raw.half /\ decimals = NoValue) THEN NoValue
    ELSE Bounded(IF raw.half THEN ((2 * raw.whole + 1) * 10 ^ decimals) \div 2 ELSE raw.whole)

\* Curve reports base units only; of a list it is the first that is positive.
CurveAmount(raw) ==
    IF raw.half \/ raw.whole \notin 1..MaxUint THEN NoValue ELSE raw.whole

(***************************************************************************)
(* Results.                                                                 *)
(***************************************************************************)
Result(status, error, amount, min, meta) ==
    [status |-> status, error |-> error, retryAfter |-> NoValue,
     amount |-> amount, min |-> min, meta |-> meta]

Failure(status, error) == Result(status, error, NoValue, NoValue, <<>>)
NoRoute == Failure("no_route", "NO_ROUTE")

Priced(price, meta) == Result("ok", "none", price, NoValue, meta)

\* Mutant: the order of the two amounts is not validated.
QuotedUnchecked(amount, min, meta) == Result("ok", "none", amount, min, meta)

\* The validator of QuoteResult raises; the runner makes a result of that.
Quoted(amount, min, meta) ==
    IF min > amount THEN Failure("error", "INTERNAL") ELSE Result("ok", "none", amount, min, meta)

\* Why the runner did not call a provider, or has no answer of it in time.
Skipped(reason) ==
    CASE reason \in {"UNSUPPORTED_CHAIN", "UNSUPPORTED_OPERATION", "UNAVAILABLE"} ->
            Failure("bad_request", IF reason = "UNAVAILABLE" THEN "PROVIDER_UNAVAILABLE" ELSE reason)
      [] reason = "deadline" -> Failure("error", "DEADLINE_EXCEEDED")
      [] OTHER -> Failure("error", "PROVIDER_UNAVAILABLE")

(***************************************************************************)
(* The call: [end, code, retryAfter, body].                                 *)
(***************************************************************************)
\* Seconds: a date that has passed counts for nothing, zero seconds count.
RetryAfter(header) ==
    IF \/ header.form = "seconds" /\ header.value >= 0
       \/ header.form = "date" /\ header.value > 0
    THEN header.value ELSE NoValue

StatusFromHttpCode(code) ==
    CASE code = 429 -> Failure("error", "RATE_LIMITED")
      [] code \in {400, 422} -> Failure("bad_request", "UPSTREAM_HTTP")
      [] code = 404 -> Failure("no_route", "NO_ROUTE")
      [] OTHER -> Failure("error", "UPSTREAM_HTTP")

\* No failure is a result whose status is ok.
Passed == Failure("ok", "none")

CallFailure(call) ==
    CASE call.end = "pool_timeout" -> Failure("error", "INTERNAL_TRANSPORT_TIMEOUT")
      [] call.end = "timeout" -> Failure("error", "TIMEOUT")
      [] call.end = "http_error" -> Failure("error", "UPSTREAM_HTTP")
      [] call.end = "response" /\ call.code # 200 ->
            [StatusFromHttpCode(call.code) EXCEPT !.retryAfter = RetryAfter(call.retryAfter)]
      [] OTHER -> Passed

JsonFailure(call) ==
    IF CallFailure(call) = Passed /\ call.body.json # "object"
    THEN Failure("error", "UPSTREAM_PARSE") ELSE CallFailure(call)

(***************************************************************************)
(* The plugins.                                                             *)
(***************************************************************************)
PriceOr(price, failure, meta) == IF price = NoValue THEN failure ELSE Priced(price, meta)

EnsoPrice(body) == PriceOr(PositiveDecimal(body.main), NoRoute, body.meta)

\* Zero at the first place sends LI.FI to the second one, but not Curve.
LifiPrice(body) ==
    LET first == PositiveDecimal(body.main)
    IN PriceOr(IF first = NoValue THEN PositiveDecimal(body.fallback) ELSE first, NoRoute, body.meta)

CurvePrice(body) ==
    PriceOr(PositiveDecimal(IF body.main = Absent THEN body.fallback ELSE body.main), NoRoute, <<>>)

\* DefiLlama answers with an entry for each coin it knows.
DefillamaPrice(body) ==
    IF ~body.entry THEN NoRoute
    ELSE PriceOr(PositiveDecimal(body.main), Failure("error", "UPSTREAM_PARSE"), body.meta)

EnsoQuote(body) ==
    LET decimals == body.meta[2].decimals
        first == BaseUnits(body.main, decimals)
        amount == IF first > 0 THEN first ELSE BaseUnits(body.fallback, decimals)
    IN IF amount <= 0 THEN NoRoute ELSE Quoted(amount, BaseUnits(body.min, decimals), body.meta)

\* LI.FI: other names for the same two places.
LifiQuote(body) == EnsoQuote(body)

CurveQuote(body) ==
    LET amount == IF body.json = "empty_list" THEN NoValue
                  ELSE CurveAmount(IF body.main = Absent THEN body.fallback ELSE body.main)
    IN IF body.json = "other" THEN Failure("error", "UPSTREAM_PARSE")
       ELSE IF amount = NoValue THEN NoRoute ELSE Quoted(amount, CurveAmount(body.min), <<>>)

Supports(provider, operation) == operation = "price" \/ provider # "defillama"

PluginResult(provider, operation, call) ==
    LET failure == IF provider = "curve" /\ operation = "quote"
                   THEN CallFailure(call) ELSE JsonFailure(call)
    IN IF failure # Passed THEN failure
       ELSE CASE operation = "price" /\ provider = "enso" -> EnsoPrice(call.body)
              [] operation = "price" /\ provider = "lifi" -> LifiPrice(call.body)
              [] operation = "price" /\ provider = "curve" -> CurvePrice(call.body)
              [] operation = "price" /\ provider = "defillama" -> DefillamaPrice(call.body)
              [] operation = "quote" /\ provider = "enso" -> EnsoQuote(call.body)
              [] operation = "quote" /\ provider = "lifi" -> LifiQuote(call.body)
              [] operation = "quote" /\ provider = "curve" -> CurveQuote(call.body)

=============================================================================
