------------------------- MODULE TokenRequestsProofs -------------------------
(* Proofs about TokenRequests, for every value of its constants.           *)
EXTENDS TokenRequests, FiniteSetTheorems, FunctionTheorems, SequenceTheorems, WellFoundedInduction, TLAPS

-----------------------------------------------------------------------------
(* Numbers.                                                                *)

\* Of finite sets of natural numbers one has no other one within it.
LEMMA Smallest ==
    ASSUME NEW T \in SUBSET (SUBSET Nat), T # {}, \A x \in T : IsFiniteSet(x)
    PROVE  \E x \in T : \A y \in T : ~(y \subseteq x /\ y # x)
    <1>1. IsWellFoundedOn(StrictSubsetOrdering(Nat), FiniteSubsetsOf(Nat))
        BY FS_StrictSubsetOrderingWellFounded
    <1>2. T \subseteq FiniteSubsetsOf(Nat)
        BY DEF FiniteSubsetsOf
    <1>3. \E x \in T : \A y \in T : ~(<<y, x>> \in StrictSubsetOrdering(Nat))
        BY <1>1, <1>2, WFMin
    <1>4. QED
        BY <1>3, <1>2 DEF StrictSubsetOrdering, FiniteSubsetsOf

\* Natural numbers have a least one.
LEMMA Least ==
    ASSUME NEW N \in SUBSET Nat, N # {}
    PROVE  \E m \in N : \A n \in N : m <= n
    <1> DEFINE T == {0..n : n \in N}
    <1>1. T \in SUBSET (SUBSET Nat) /\ T # {} /\ \A x \in T : IsFiniteSet(x)
        <2>1. \A n \in N : 0..n \subseteq Nat /\ IsFiniteSet(0..n)
            BY FS_Interval
        <2>2. PICK n : n \in N
            OBVIOUS
        <2>3. (0..n) \in T
            BY <2>2
        <2>4. QED
            BY <2>1, <2>3
    <1>2. PICK x \in T : \A y \in T : ~(y \subseteq x /\ y # x)
        <2> HIDE DEF T
        <2>1. QED
            BY <1>1, Smallest
    <1>3. PICK m \in N : x = 0..m
        OBVIOUS
    <1>4. ASSUME NEW n \in N, n < m PROVE FALSE
        <2>1. ~((0..n) \subseteq (0..m) /\ (0..n) # (0..m))
            BY <1>2, <1>3
        <2>2. (0..n) \subseteq (0..m)
            BY <1>4
        <2>3. m \in 0..m /\ m \notin 0..n
            BY <1>4
        <2>4. QED
            BY <2>1, <2>2, <2>3
    <1>5. QED
        BY <1>4

\* Division rounds down.
LEMMA Division ==
    ASSUME NEW a \in Nat, NEW u \in Nat \ {0}
    PROVE  a \div u \in Nat /\ u * (a \div u) <= a /\ a < u * (a \div u + 1)
    OBVIOUS

\* There is one number that division may give.
LEMMA QuotientUnique ==
    ASSUME NEW a \in Nat, NEW u \in Nat \ {0}, NEW q \in Nat, u * q <= a, a < u * (q + 1)
    PROVE  a \div u = q
    OBVIOUS

\* The quotients of larger numbers are no smaller.
LEMMA DivisionMonotone ==
    ASSUME NEW a \in Nat, NEW b \in Nat, NEW u \in Nat \ {0}, a <= b
    PROVE  a \div u <= b \div u
    OBVIOUS

\* A multiple of a multiple is divided without a remainder.
LEMMA DivisionExact ==
    ASSUME NEW a \in Nat, NEW u \in Nat \ {0}, a % u = 0, NEW k \in Nat
    PROVE  (a * k) \div u \in Nat /\ u * ((a * k) \div u) = a * k
    <1>1. a = u * (a \div u) /\ a \div u \in Nat
        OBVIOUS
    <1> DEFINE q == a \div u
    <1>2. q \in Nat /\ a = u * q
        BY <1>1
    <1> HIDE DEF q
    <1>3. a * k \in Nat /\ q * k \in Nat /\ u * (q * k) = a * k /\ a * k < u * (q * k + 1)
        BY <1>2
    <1>4. (a * k) \div u = q * k
        BY <1>3, QuotientUnique
    <1>5. QED
        BY <1>3, <1>4

-----------------------------------------------------------------------------
(* What the providers' calls come to.                                      *)

\* The numbers among the constants.
LEMMA Constants ==
    /\ MaxUint \in Nat /\ MaxUint > 0 /\ PriceScale \in Nat /\ PriceScale > 0
    /\ NoValue \in Int /\ NoValue = -1
    <1>1. NoValue \in Int /\ NoValue = -1
        BY DEF NoValue
    <1>2. MaxUint \in Nat \ {0} /\ PriceScale \in Nat \ {0}
        BY Zenon, ReplyAssumption DEF ReplyAssumption
    <1>3. QED
        BY <1>1, <1>2

Statuses == {"ok", "error", "no_route", "bad_request"}
Errors ==
    {"none", "NO_ROUTE", "INTERNAL", "PROVIDER_UNAVAILABLE", "UNSUPPORTED_CHAIN", "UNSUPPORTED_OPERATION",
     "DEADLINE_EXCEEDED", "RATE_LIMITED", "UPSTREAM_HTTP", "INTERNAL_TRANSPORT_TIMEOUT", "TIMEOUT",
     "UPSTREAM_PARSE", "INVALID_VAULT_CONVERSION", "VAULT_RESOLUTION_FAILED"}
Results ==
    [status: Statuses, error: Errors, retryAfter: Int, amount: Int, min: Int, meta: Seq(Metadata)]

\* The amounts of a success: a price, or a quote whose amounts are in order.
Sound(operation, result) ==
    result.status = "ok" =>
        IF operation = "price" THEN \E k \in Nat : result.amount = PriceScale * k
        ELSE result.amount \in 1..MaxUint /\ result.min \in NoValue..result.amount

\* A failure is a result, and no success.
LEMMA FailureTyped ==
    ASSUME NEW status \in Statuses, NEW error \in Errors
    PROVE  /\ Failure(status, error) \in Results
           /\ Failure(status, error).status = status
    <1>1. <<>> \in Seq(Metadata)
        OBVIOUS
    <1>2. QED
        BY <1>1 DEF Failure, Result, Results, NoValue

\* What a failure is: a result that is no success.
Failed(result) == result \in Results /\ result.status # "ok"

\* A failure made of a status and an error that is none of "ok".
LEMMA Failures ==
    \A status \in Statuses \ {"ok"}, error \in Errors : Failed(Failure(status, error))
    BY FailureTyped DEF Failed

\* What a provider that was not called, or was not waited for, is given.
LEMMA SkippedFailed ==
    ASSUME NEW reason
    PROVE  Failed(Skipped(reason))
    <1>1. \/ Skipped(reason) = Failure("bad_request", "PROVIDER_UNAVAILABLE")
          \/ Skipped(reason) = Failure("bad_request", "UNSUPPORTED_CHAIN")
          \/ Skipped(reason) = Failure("bad_request", "UNSUPPORTED_OPERATION")
          \/ Skipped(reason) = Failure("error", "DEADLINE_EXCEEDED")
          \/ Skipped(reason) = Failure("error", "PROVIDER_UNAVAILABLE")
        BY Zenon DEF Skipped
    <1>2. QED
        BY <1>1, Failures DEF Statuses, Errors

\* A call has not failed, or its failure is the result.
LEMMA CallFailures ==
    ASSUME NEW operation \in Operations, NEW call \in Ends[operation]
    PROVE  /\ CallFailure(call) = Passed \/ Failed(CallFailure(call))
           /\ JsonFailure(call) = Passed \/ Failed(JsonFailure(call))
    <1>1. ASSUME NEW code PROVE Failed(StatusFromHttpCode(code))
        <2>1. \/ StatusFromHttpCode(code) = Failure("error", "RATE_LIMITED")
              \/ StatusFromHttpCode(code) = Failure("bad_request", "UPSTREAM_HTTP")
              \/ StatusFromHttpCode(code) = Failure("no_route", "NO_ROUTE")
              \/ StatusFromHttpCode(code) = Failure("error", "UPSTREAM_HTTP")
            BY DEF StatusFromHttpCode
        <2>2. QED
            BY <2>1, Failures DEF Statuses, Errors
    <1>2. RetryAfter(call.retryAfter) \in Int
        BY EndAssumption, Constants DEF EndAssumption, RetryAfter
    <1>3. ASSUME NEW result, Failed(result), NEW n \in Int PROVE Failed([result EXCEPT !.retryAfter = n])
        BY <1>3 DEF Failed, Results
    <1>4. CallFailure(call) = Passed \/ Failed(CallFailure(call))
        <2>1. \/ CallFailure(call) = Failure("error", "INTERNAL_TRANSPORT_TIMEOUT")
              \/ CallFailure(call) = Failure("error", "TIMEOUT")
              \/ CallFailure(call) = Failure("error", "UPSTREAM_HTTP")
              \/ CallFailure(call) =
                    [StatusFromHttpCode(call.code) EXCEPT !.retryAfter = RetryAfter(call.retryAfter)]
              \/ CallFailure(call) = Passed
            BY Zenon DEF CallFailure
        <2>2. Failed([StatusFromHttpCode(call.code) EXCEPT !.retryAfter = RetryAfter(call.retryAfter)])
            BY <1>1, <1>2, <1>3
        <2>3. QED
            BY <2>1, <2>2, Failures DEF Statuses, Errors
    <1>5. JsonFailure(call) = Failure("error", "UPSTREAM_PARSE") \/ JsonFailure(call) = CallFailure(call)
        BY DEF JsonFailure
    <1>6. QED
        BY <1>4, <1>5, Failures DEF Statuses, Errors

\* A result of an operation: a failure, or a success with its amounts.
Answer(operation, result) == result \in Results /\ Sound(operation, result)

\* A failure is an answer to whatever was asked.
LEMMA FailedIsAnswer ==
    ASSUME NEW result, Failed(result), NEW operation
    PROVE  Answer(operation, result)
    BY DEF Failed, Answer, Sound

\* A price of a reply is a multiple of the scale.
LEMMA PriceTyped ==
    ASSUME NEW raw \in Numbers, NEW failure, Failed(failure), NEW meta \in Seq(Metadata)
    PROVE  Answer("price", PriceOr(PositiveDecimal(raw), failure, meta))
    <1> DEFINE price == PositiveDecimal(raw)
    <1>1. CASE price = NoValue
        BY <1>1, FailedIsAnswer DEF PriceOr
    <1>2. CASE price # NoValue
        <2>1. PriceOr(price, failure, meta) = Priced(price, meta)
            BY <1>2 DEF PriceOr
        <2>2. \E k \in Nat : price = PriceScale * k
            <3>1. raw.whole \in Nat /\ price = PriceScale * (4 * raw.whole + IF raw.half THEN 2 ELSE 0)
                BY <1>2, Constants DEF PositiveDecimal, Numbers
            <3>2. (4 * raw.whole + IF raw.half THEN 2 ELSE 0) \in Nat
                BY <3>1
            <3>3. QED
                BY <3>1, <3>2
        <2>3. price \in Int
            BY <2>2, Constants
        <2>4. Priced(price, meta) \in Results /\ Priced(price, meta).amount = price
            BY <2>3 DEF Priced, Result, Results, NoValue, Statuses, Errors
        <2>5. QED
            BY <2>1, <2>2, <2>4 DEF Answer, Sound
    <1>3. QED
        BY <1>1, <1>2

\* The amounts of a quote are put in a result only in their order.
LEMMA QuoteTyped ==
    ASSUME NEW amount \in 1..MaxUint, NEW min \in NoValue..MaxUint, NEW meta \in Seq(Metadata)
    PROVE  Answer("quote", Quoted(amount, min, meta))
    <1>1. CASE min > amount
        <2>1. Quoted(amount, min, meta) = Failure("error", "INTERNAL")
            BY <1>1 DEF Quoted
        <2>2. QED
            BY <2>1, Failures, FailedIsAnswer DEF Statuses, Errors
    <1>2. CASE ~(min > amount)
        BY <1>2, Constants DEF Quoted, Result, Results, Answer, Sound, Statuses, Errors
    <1>3. QED
        BY <1>1, <1>2

\* An amount of a reply fits uint256, or is none.
LEMMA AmountTyped ==
    ASSUME NEW raw \in Numbers, NEW decimals
    PROVE  BaseUnits(raw, decimals) \in NoValue..MaxUint /\ CurveAmount(raw) \in NoValue..MaxUint
    <1>1. ASSUME NEW n PROVE Bounded(n) \in NoValue..MaxUint
        BY Constants DEF Bounded
    <1>2. NoValue \in NoValue..MaxUint
        BY Constants
    <1>3. \/ BaseUnits(raw, decimals) = NoValue
          \/ \E n : BaseUnits(raw, decimals) = Bounded(n)
        BY DEF BaseUnits
    <1>4. CurveAmount(raw) \in NoValue..MaxUint
        BY <1>2, Constants DEF CurveAmount, Numbers
    <1>5. QED
        BY <1>1, <1>2, <1>3, <1>4

\* Every plugin answers with a price for a price.
LEMMA PricePlugins ==
    ASSUME NEW body \in Bodies
    PROVE  /\ Answer("price", EnsoPrice(body)) /\ Answer("price", LifiPrice(body))
           /\ Answer("price", CurvePrice(body)) /\ Answer("price", DefillamaPrice(body))
    <1>1. /\ body.main \in Numbers /\ body.fallback \in Numbers
          /\ body.meta \in Seq(Metadata) /\ <<>> \in Seq(Metadata)
        BY DEF Bodies
    <1>2. Failed(NoRoute) /\ Failed(Failure("error", "UPSTREAM_PARSE"))
        BY Failures DEF NoRoute, Statuses, Errors
    <1>3. Answer("price", EnsoPrice(body))
        BY <1>1, <1>2, PriceTyped DEF EnsoPrice
    <1>4. Answer("price", LifiPrice(body))
        <2>1. \E raw \in Numbers : LifiPrice(body) = PriceOr(PositiveDecimal(raw), NoRoute, body.meta)
            BY <1>1 DEF LifiPrice
        <2>2. QED
            BY <1>1, <1>2, <2>1, PriceTyped
    <1>5. Answer("price", CurvePrice(body))
        <2>1. \E raw \in Numbers : CurvePrice(body) = PriceOr(PositiveDecimal(raw), NoRoute, <<>>)
            BY <1>1 DEF CurvePrice
        <2>2. QED
            BY <1>1, <1>2, <2>1, PriceTyped
    <1>6. Answer("price", DefillamaPrice(body))
        BY <1>1, <1>2, PriceTyped, FailedIsAnswer DEF DefillamaPrice
    <1>7. QED
        BY <1>3, <1>4, <1>5, <1>6

\* Every plugin that quotes answers with a quote for a quote.
LEMMA QuotePlugins ==
    ASSUME NEW body \in Bodies
    PROVE  /\ Answer("quote", EnsoQuote(body)) /\ Answer("quote", LifiQuote(body))
           /\ Answer("quote", CurveQuote(body))
    <1>1. /\ body.main \in Numbers /\ body.fallback \in Numbers /\ body.min \in Numbers
          /\ body.meta \in Seq(Metadata) /\ <<>> \in Seq(Metadata)
        BY DEF Bodies
    <1>2. Answer("quote", NoRoute) /\ Answer("quote", Failure("error", "UPSTREAM_PARSE"))
        BY Failures, FailedIsAnswer DEF NoRoute, Statuses, Errors
    <1>3. Answer("quote", EnsoQuote(body))
        <2> DEFINE decimals == body.meta[2].decimals
                   first == BaseUnits(body.main, decimals)
                   amount == IF first > 0 THEN first ELSE BaseUnits(body.fallback, decimals)
                   min == BaseUnits(body.min, decimals)
        <2>1. EnsoQuote(body) = IF amount <= 0 THEN NoRoute ELSE Quoted(amount, min, body.meta)
            BY DEF EnsoQuote
        <2>2. amount \in NoValue..MaxUint /\ min \in NoValue..MaxUint
            BY <1>1, AmountTyped
        <2> HIDE DEF amount, min
        <2>3. amount <= 0 \/ amount \in 1..MaxUint
            BY <2>2, Constants
        <2>4. QED
            BY <1>1, <1>2, <2>1, <2>2, <2>3, QuoteTyped
    <1>4. Answer("quote", CurveQuote(body))
        <2> DEFINE raw == IF body.main = Absent THEN body.fallback ELSE body.main
                   amount == IF body.json = "empty_list" THEN NoValue ELSE CurveAmount(raw)
                   min == CurveAmount(body.min)
        <2>1. \/ CurveQuote(body) = Failure("error", "UPSTREAM_PARSE")
              \/ CurveQuote(body) = NoRoute
              \/ amount # NoValue /\ CurveQuote(body) = Quoted(amount, min, <<>>)
            BY DEF CurveQuote
        <2>2. min \in NoValue..MaxUint
            BY <1>1, AmountTyped
        <2>3. amount # NoValue => amount \in 1..MaxUint
            BY Constants DEF CurveAmount
        <2> HIDE DEF amount, min
        <2>4. QED
            BY <1>1, <1>2, <2>1, <2>2, <2>3, QuoteTyped
    <1>5. QED
        BY <1>3, <1>4 DEF LifiQuote

\* The end of a call that was made gives an answer to what was asked.
LEMMA PluginsAnswer ==
    ASSUME NEW operation \in Operations, NEW call \in Ends[operation],
           NEW p \in AllProviders, Supports(p, operation)
    PROVE  Answer(operation, PluginResult(p, operation, call))
    <1> DEFINE failure == IF p = "curve" /\ operation = "quote" THEN CallFailure(call) ELSE JsonFailure(call)
    <1>1. failure = Passed \/ Failed(failure)
        BY CallFailures
    <1>2. call.body \in Bodies
        BY EndAssumption DEF EndAssumption
    <1>3. p \in {"curve", "defillama", "enso", "lifi"}
        BY DEF AllProviders, Alphabetical, ToSet
    <1>4. CASE failure # Passed
        <2>1. PluginResult(p, operation, call) = failure
            BY <1>4 DEF PluginResult
        <2>2. QED
            BY <1>1, <1>4, <2>1, FailedIsAnswer
    <1>5. CASE failure = Passed /\ operation = "price"
        <2>1. \/ PluginResult(p, operation, call) = EnsoPrice(call.body)
              \/ PluginResult(p, operation, call) = LifiPrice(call.body)
              \/ PluginResult(p, operation, call) = CurvePrice(call.body)
              \/ PluginResult(p, operation, call) = DefillamaPrice(call.body)
            BY <1>3, <1>5 DEF PluginResult
        <2>2. QED
            BY <1>2, <1>5, <2>1, PricePlugins
    <1>6. CASE failure = Passed /\ operation = "quote"
        <2>1. p # "defillama"
            BY <1>6 DEF Supports
        <2>2. \/ PluginResult(p, operation, call) = EnsoQuote(call.body)
              \/ PluginResult(p, operation, call) = LifiQuote(call.body)
              \/ PluginResult(p, operation, call) = CurveQuote(call.body)
            BY <1>3, <1>6, <2>1 DEF PluginResult
        <2>3. QED
            BY <1>2, <1>6, <2>2, QuotePlugins
    <1>7. QED
        BY <1>4, <1>5, <1>6 DEF Operations

-----------------------------------------------------------------------------
(* The inductive invariant.                                                *)

Phases ==
    {"idle", "resolving", "calling", "reading", "fetching", "persisting", "enrolling", "enrolling originals"}
Resolved == {"fetching", "persisting", "enrolling", "enrolling originals"}
AskRecords ==
    [operation: Operations \cup {"token", "none"}, tokens: Seq(Tokens), amount: Nat,
     providers: Seq(AllProviders), useUnderlying: BOOLEAN]
Reports == UNION {[D -> Results] : D \in SUBSET AllProviders}
Rows == UNION {[D -> Metadata \cup {NoRow}] : D \in SUBSET Tokens}
Slots ==
    [pc: Phases, ask: AskRecords, tokens: Seq(Tokens), amount: Nat,
     vaults: Seq(DOMAIN Vaults \cup {NoToken}), reported: Reports, results: Reports,
     read: Rows, merged: Rows]

\* What a request was asked, which of its tokens are vaults, and the assets of
\* the shares it was given; providers are asked only by one that selects some.
AskInv(s) ==
    /\ s.ask.operation # "none"
    /\ Len(s.ask.tokens) = IF s.ask.operation = "quote" THEN 2 ELSE 1
    /\ Len(s.tokens) = Len(s.ask.tokens) /\ Len(s.vaults) = Len(s.ask.tokens)
    /\ \A i \in DOMAIN s.tokens :
        IF s.vaults[i] = NoToken THEN s.tokens[i] = Canonical(s.ask.tokens[i])
        ELSE s.tokens[i] = Vaults[s.vaults[i]].asset
    /\ s.ask.operation # "token" => Resolve(s.ask) # {} /\ Resolve(s.ask) \subseteq Enabled
    /\ s.pc \in {"resolving", "calling"} => s.ask.operation # "token"
    /\ s.pc = "resolving" => s.amount = s.ask.amount /\ \A i \in DOMAIN s.vaults : s.vaults[i] = NoToken
    /\ s.ask.operation = "quote" /\ s.vaults[1] # NoToken =>
        s.amount * Vaults[s.vaults[1]].shareUnit <= s.ask.amount * Vaults[s.vaults[1]].rate

\* The results are what the providers reported, converted; or no provider was
\* asked, because the resolution of the vaults failed.
ResultsInv(s) ==
    \/ /\ s.reported = <<>>
       /\ DOMAIN s.results = Resolve(s.ask)
       /\ \A p \in DOMAIN s.results : s.results[p].status # "ok"
    \/ /\ DOMAIN s.reported = Resolve(s.ask)
       /\ \A p \in DOMAIN s.reported : Sound(s.ask.operation, s.reported[p])
       /\ s.results = Converted(s.ask.operation, OutVault(s), s.reported)

\* What was known is known, and the same.
Keeps(before, after) ==
    /\ before.symbol # "" => after.symbol = before.symbol
    /\ before.decimals >= 0 => after.decimals = before.decimals

\* A request that read the table keeps what it read; the results are there
\* from the last provider's answer until then.
TableInv(s) ==
    /\ IF s.pc = "reading" /\ s.ask.operation # "token" THEN ResultsInv(s)
       ELSE s.reported = <<>> /\ s.results = <<>>
    /\ IF s.pc \in Resolved
       THEN /\ DOMAIN s.read = Involved(s)
            /\ s.merged \in [Involved(s) -> Metadata]
            /\ \A t \in Involved(s) : Keeps(s.read[t], s.merged[t])
       ELSE s.read = <<>> /\ s.merged = <<>>

SlotInv(s) == IF s.pc = "idle" THEN s = Idle ELSE AskInv(s) /\ TableInv(s)

IInv ==
    /\ stored \in [Tokens -> Metadata \cup {NoRow}]
    /\ enrolled \subseteq Tokens
    /\ slot \in [Requests -> Slots]
    /\ \A r \in Requests : SlotInv(slot[r])

\* The properties of a vault that conversions need.
LEMMA VaultFacts ==
    ASSUME NEW v \in DOMAIN Vaults
    PROVE  /\ v \in Tokens /\ v # NoToken /\ Vaults[v].asset \in Tokens
           /\ Vaults[v].rate \in Nat \ {0} /\ Vaults[v].shareUnit \in Nat \ {0}
           /\ Vaults[v].assetUnit \in Nat \ {0} /\ PriceScale % Vaults[v].assetUnit = 0
    BY RequestAssumption DEF RequestAssumption

\* What a token stands for is a token, and stands for itself.
LEMMA CanonicalTyped ==
    ASSUME NEW t \in Tokens
    PROVE  Canonical(t) \in Tokens /\ Canonical(t) \notin DOMAIN Remap
    BY RequestAssumption DEF RequestAssumption, Canonical

\* A request selects providers that exist.
LEMMA ResolveTyped ==
    ASSUME NEW ask \in AskRecords
    PROVE  Resolve(ask) \subseteq AllProviders
    <1>1. ask.providers \in Seq(AllProviders)
        BY DEF AskRecords
    <1>2. ToSet(ask.providers) \subseteq AllProviders
        BY <1>1, LenProperties, ElementOfSeq DEF ToSet
    <1>3. Enabled \subseteq AllProviders
        BY RequestAssumption DEF RequestAssumption
    <1>4. QED
        BY <1>2, <1>3 DEF Resolve

\* There are four providers.
LEMMA FiniteProviders == IsFiniteSet(AllProviders)
    <1>1. AllProviders = {"curve", "defillama", "enso", "lifi"}
        BY DEF AllProviders, Alphabetical, ToSet
    <1>2. AllProviders = ({"curve"} \cup {"defillama"}) \cup ({"enso"} \cup {"lifi"})
        BY <1>1
    <1>3. QED
        BY <1>2, FS_Singleton, FS_Union

\* The tokens of a request, and those it stands for, are tokens.
LEMMA InvolvedTyped ==
    ASSUME NEW s \in Slots
    PROVE  Involved(s) \subseteq Tokens
    <1>1. s.tokens \in Seq(Tokens) /\ s.ask.tokens \in Seq(Tokens)
        BY DEF Slots, AskRecords
    <1>2. ToSet(s.tokens) \subseteq Tokens
        BY <1>1, LenProperties, ElementOfSeq DEF ToSet
    <1>3. \A i \in DOMAIN s.ask.tokens : Canonical(s.ask.tokens[i]) \in Tokens
        BY <1>1, LenProperties, ElementOfSeq, CanonicalTyped
    <1>4. QED
        BY <1>2, <1>3 DEF Involved

\* Functions of the right ranges are reports and rows, the empty one among them.
LEMMA FunctionsTyped ==
    /\ \A D \in SUBSET AllProviders : \A f \in [D -> Results] : f \in Reports
    /\ \A D \in SUBSET Tokens : \A f \in [D -> Metadata \cup {NoRow}] : f \in Rows
    /\ <<>> \in Reports /\ <<>> \in Rows
    <1>1. \A D \in SUBSET AllProviders : \A f \in [D -> Results] : f \in Reports
        BY DEF Reports
    <1>2. \A D \in SUBSET Tokens : \A f \in [D -> Metadata \cup {NoRow}] : f \in Rows
        BY DEF Rows
    <1>3. <<>> \in [{} -> Results] /\ <<>> \in [{} -> Metadata \cup {NoRow}]
        OBVIOUS
    <1>4. QED
        BY <1>1, <1>2, <1>3

\* A report has a result for each of some providers.
LEMMA ReportRange ==
    ASSUME NEW f \in Reports
    PROVE  DOMAIN f \subseteq AllProviders /\ f \in [DOMAIN f -> Results]
    BY DEF Reports

\* Converting results gives results, of the same providers.
LEMMA ConvertedTyped ==
    ASSUME NEW operation \in Operations, NEW v \in DOMAIN Vaults \cup {NoToken}, NEW reported \in Reports
    PROVE  Converted(operation, v, reported) \in [DOMAIN reported -> Results]
    <1>1. ASSUME NEW p \in DOMAIN reported, v # NoToken
          PROVE  ApplyPriceContext(v, reported[p]) \in Results
        <2>1. reported[p] \in Results /\ v \in DOMAIN Vaults
            BY <1>1, ReportRange
        <2>2. (reported[p].amount \div Vaults[v].assetUnit) * Vaults[v].rate \in Int
            BY <2>1, VaultFacts DEF Results
        <2>3. QED
            BY <2>1, <2>2 DEF ApplyPriceContext, Results
    <1>2. ASSUME NEW p \in DOMAIN reported, v # NoToken
          PROVE  ApplyQuoteResolution(v, reported[p]) \in Results
        <2> DEFINE result == reported[p]
                   amount == ToShares(v, result.amount)
                   min == IF result.min = NoValue THEN NoValue ELSE ToShares(v, result.min)
        <2>1. result \in Results /\ v \in DOMAIN Vaults
            BY <1>2, ReportRange
        <2>2. amount \in Int /\ min \in Int
            BY <2>1, VaultFacts, Constants DEF Results, ToShares
        <2>3. ConversionFailure(result) \in Results
            <3>1. Failure("error", "INVALID_VAULT_CONVERSION") \in Results
                BY FailureTyped DEF Statuses, Errors
            <3>2. QED
                BY <2>1, <3>1 DEF ConversionFailure, Results
        <2>4. [result EXCEPT !.amount = amount, !.min = min] \in Results
            <3> HIDE DEF amount, min, result
            <3>1. QED
                BY <2>1, <2>2 DEF Results
        <2>5. \/ ApplyQuoteResolution(v, result) = result
              \/ ApplyQuoteResolution(v, result) = ConversionFailure(result)
              \/ ApplyQuoteResolution(v, result) = [result EXCEPT !.amount = amount, !.min = min]
            BY DEF ApplyQuoteResolution
        <2>6. QED
            BY <2>1, <2>3, <2>4, <2>5
    <1>3. \A p \in DOMAIN reported : reported[p] \in Results
        BY ReportRange
    <1>4. QED
        BY <1>1, <1>2, <1>3 DEF Converted

-----------------------------------------------------------------------------
(* Metadata.                                                               *)

\* What is known of a native token, and of no token, is metadata.
LEMMA MetaTyped ==
    /\ NoMeta \in Metadata /\ NoRow.symbol = "" /\ NoRow.decimals = -2
    /\ \A t : NativeMeta(t) \in Metadata
    <1>1. "" \in Symbols /\ "native" \in Symbols
        BY ReplyAssumption DEF ReplyAssumption
    <1>1a. NoValue \in NoValue..255 /\ 18 \in NoValue..255
        BY Constants
    <1>2. NoMeta \in Metadata
        BY <1>1, <1>1a DEF NoMeta, Metadata
    <1>3. [symbol |-> "native", decimals |-> 18] \in Metadata
        BY <1>1, <1>1a DEF Metadata
    <1>4. QED
        BY <1>2, <1>3 DEF NoRow, NativeMeta

\* Merging gives metadata, and keeps what was known before.
LEMMA MergeKeeps ==
    ASSUME NEW token, NEW cached \in Metadata \cup {NoRow}, NEW hint \in Metadata
    PROVE  /\ MergeMetadata(token, cached, hint) \in Metadata
           /\ Keeps(cached, MergeMetadata(token, cached, hint))
    <1> DEFINE native == NativeMeta(token)
               symbol == PickFirst(cached.symbol, hint.symbol, "")
               decimals == IF cached.decimals >= 0 THEN cached.decimals ELSE hint.decimals
               merged == [symbol |-> PickFirst(symbol, native.symbol, ""),
                          decimals |-> IF decimals >= 0 THEN decimals ELSE native.decimals]
    <1>1. MergeMetadata(token, cached, hint) = merged
        BY DEF MergeMetadata
    <1>2. native \in Metadata /\ "" \in Symbols
        BY MetaTyped, ReplyAssumption DEF ReplyAssumption
    <1>3. native.symbol \in Symbols /\ native.decimals \in NoValue..255
        BY <1>2 DEF Metadata
    <1>4. hint.symbol \in Symbols /\ hint.decimals \in NoValue..255
        BY DEF Metadata
    <1>5. cached.symbol \in Symbols /\ (cached.decimals \in NoValue..255 \/ cached.decimals = -2)
        BY <1>2, MetaTyped DEF Metadata
    <1> HIDE DEF native
    <1>6. /\ merged.symbol \in Symbols
          /\ cached.symbol # "" => merged.symbol = cached.symbol
        BY <1>3, <1>4, <1>5 DEF PickFirst
    <1>7. /\ merged.decimals \in NoValue..255
          /\ cached.decimals >= 0 => merged.decimals = cached.decimals
        BY <1>3, <1>4, <1>5, Constants
    <1>8. merged \in Metadata
        BY <1>6, <1>7 DEF Metadata
    <1> HIDE DEF merged
    <1>9. QED
        BY <1>1, <1>6, <1>7, <1>8 DEF Keeps

\* Keeping what was known is transitive.
LEMMA KeepsOn ==
    ASSUME NEW a \in Metadata \cup {NoRow}, NEW b \in Metadata, NEW c \in Metadata, Keeps(a, b), Keeps(b, c)
    PROVE  Keeps(a, c)
    <1>1. /\ a.decimals \in Int /\ b.decimals \in Int /\ c.decimals \in Int
        <2>1. \A meta \in Metadata : meta.decimals \in Int
            BY Constants DEF Metadata
        <2>2. NoRow.decimals \in Int
            <3>1. -2 \in Int
                OBVIOUS
            <3>2. QED
                BY <3>1, MetaTyped
        <2>3. a \in Metadata \/ a = NoRow
            OBVIOUS
        <2>4. QED
            BY <2>1, <2>2, <2>3
    <1>2. QED
        BY <1>1 DEF Keeps

\* The place of a provider in the order of the results.
LEMMA RankTyped ==
    ASSUME NEW results, NEW p \in AllProviders
    PROVE  Rank(results, p) \in Nat
    <1>1. DOMAIN Alphabetical = 1..4 /\ Len(Alphabetical) = 4
        BY DEF Alphabetical
    <1>2. \E i \in DOMAIN Alphabetical : Alphabetical[i] = p
        BY DEF AllProviders, ToSet
    <1> DEFINE place == CHOOSE i \in DOMAIN Alphabetical : Alphabetical[i] = p
    <1>3. place \in 1..4
        BY <1>1, <1>2
    <1> HIDE DEF place
    <1>4. Rank(results, p) = place + IF results[p].status = "ok" THEN 0 ELSE Len(Alphabetical)
        BY DEF Rank, place
    <1>5. QED
        BY <1>1, <1>3, <1>4

\* What the results tell of a token is metadata.
LEMMA HintsTyped ==
    ASSUME NEW s \in Slots, NEW token
    PROVE  HintsFromRefs(s, token) \in Metadata
    <1> DEFINE Meta(t) == s.results[t[1]].meta
               Tellers(field, none) == {t \in (DOMAIN s.results) \X (DOMAIN s.tokens) :
                    s.tokens[t[2]] = token /\ t[2] \in DOMAIN Meta(t) /\ Meta(t)[t[2]][field] # none}
               Turn(t) == 2 * Rank(s.results, t[1]) + t[2]
               First(field, none) ==
                    CHOOSE t \in Tellers(field, none) : \A u \in Tellers(field, none) : Turn(t) <= Turn(u)
               Told(field, none) ==
                    IF Tellers(field, none) = {} THEN none
                    ELSE Meta(First(field, none))[First(field, none)[2]][field]
    <1>1. HintsFromRefs(s, token) =
            IF token \in Natives THEN NativeMeta(token)
            ELSE [symbol |-> Told("symbol", ""), decimals |-> Told("decimals", NoValue)]
        BY Zenon DEF HintsFromRefs
    <1>2. s.results \in Reports /\ s.tokens \in Seq(Tokens)
        BY DEF Slots
    <1>3. ASSUME NEW t \in (DOMAIN s.results) \X (DOMAIN s.tokens)
          PROVE  Turn(t) \in Nat /\ Meta(t) \in Seq(Metadata)
        <2>1. t[1] \in DOMAIN s.results /\ t[1] \in AllProviders /\ s.results[t[1]] \in Results
            BY <1>2, ReportRange
        <2>2. t[2] \in Nat
            BY <1>2, LenProperties
        <2>3. Rank(s.results, t[1]) \in Nat
            BY <2>1, RankTyped
        <2>4. QED
            BY <2>1, <2>2, <2>3 DEF Results
    <1> HIDE DEF Turn, Meta
    <1>4. ASSUME NEW field, NEW none, Tellers(field, none) # {}
          PROVE  First(field, none) \in Tellers(field, none)
        <2> DEFINE N == {Turn(t) : t \in Tellers(field, none)}
        <2>1. N \subseteq Nat /\ N # {}
            BY <1>3, <1>4
        <2> HIDE DEF N
        <2>2. PICK m \in N : \A n \in N : m <= n
            BY <2>1, Least
        <2>3. \E t \in Tellers(field, none) : \A u \in Tellers(field, none) : Turn(t) <= Turn(u)
            BY <2>2 DEF N
        <2>4. QED
            BY <2>3
    <1> HIDE DEF First
    <1>5. ASSUME NEW field, NEW none
          PROVE  Told(field, none) = none \/ \E meta \in Metadata : Told(field, none) = meta[field]
        <2>1. CASE Tellers(field, none) = {}
            BY <2>1
        <2>2. CASE Tellers(field, none) # {}
            <3> DEFINE f == First(field, none)
            <3>1. f \in Tellers(field, none)
                BY <1>4, <2>2
            <3>2. Told(field, none) = Meta(f)[f[2]][field]
                BY <2>2
            <3> HIDE DEF f
            <3>3. Meta(f) \in Seq(Metadata) /\ f[2] \in DOMAIN Meta(f)
                BY <1>3, <3>1
            <3>4. Meta(f)[f[2]] \in Metadata
                BY <3>3, LenProperties, ElementOfSeq
            <3>5. QED
                BY <3>2, <3>4
        <2>3. QED
            BY <2>1, <2>2
    <1> HIDE DEF Told
    <1>6. Told("symbol", "") \in Symbols
        <2>1. \A meta \in Metadata : meta["symbol"] \in Symbols
            BY DEF Metadata
        <2>2. "" \in Symbols
            BY ReplyAssumption DEF ReplyAssumption
        <2>3. QED
            BY <1>5, <2>1, <2>2
    <1>7. Told("decimals", NoValue) \in NoValue..255
        <2>1. \A meta \in Metadata : meta["decimals"] \in NoValue..255
            BY DEF Metadata
        <2>2. NoValue \in NoValue..255
            BY Constants
        <2>3. QED
            BY <1>5, <2>1, <2>2
    <1>8. QED
        <2>1. [symbol |-> Told("symbol", ""), decimals |-> Told("decimals", NoValue)] \in Metadata
            BY <1>6, <1>7 DEF Metadata
        <2>2. QED
            BY <1>1, <2>1, MetaTyped

-----------------------------------------------------------------------------
(* Every step keeps the invariant.                                         *)

\* A slot that is not in use.
LEMMA IdleTyped == Idle \in Slots /\ Idle.pc = "idle" /\ SlotInv(Idle)
    <1>1. NoAsk \in AskRecords
        BY DEF NoAsk, AskRecords
    <1>2. Idle \in Slots /\ Idle.pc = "idle"
        BY <1>1, FunctionsTyped DEF Idle, Slots, Phases
    <1>3. QED
        BY <1>2 DEF SlotInv

\* A slot that the invariant speaks of.
LEMMA SlotFacts ==
    ASSUME IInv, NEW r \in Requests
    PROVE  /\ slot[r] \in Slots /\ SlotInv(slot[r])
           /\ slot[r].pc # "idle" => AskInv(slot[r]) /\ TableInv(slot[r])
    BY DEF IInv, SlotInv

\* It is enough to look at the slot that a step changes.
LEMMA OneSlot ==
    ASSUME IInv, NEW r \in Requests, NEW next \in Slots, SlotInv(next), slot' = [slot EXCEPT ![r] = next],
           stored' \in [Tokens -> Metadata \cup {NoRow}], enrolled' \subseteq Tokens
    PROVE  IInv'
    <1>1. slot \in [Requests -> Slots]
        BY DEF IInv
    <1>2. slot' \in [Requests -> Slots]
        BY <1>1
    <1>3. ASSUME NEW q \in Requests PROVE SlotInv(slot'[q])
        <2>1. slot'[q] = IF q = r THEN next ELSE slot[q]
            BY <1>1
        <2>2. QED
            BY <2>1, SlotFacts
    <1>4. QED
        BY <1>2, <1>3 DEF IInv

\* A request that ends leaves its slot free.
LEMMA SlotFreed ==
    ASSUME IInv, NEW r \in Requests, slot' = [slot EXCEPT ![r] = Idle],
           stored' \in [Tokens -> Metadata \cup {NoRow}], enrolled' \subseteq Tokens
    PROVE  IInv'
    BY IdleTyped, OneSlot

\* A request comes.
LEMMA ArriveStep ==
    ASSUME IInv, NEW r \in Requests, Arrive(r)
    PROVE  IInv'
    <1>1. PICK ask \in Asks[r] :
            /\ ask.operation # "token" => Resolve(ask) # {} /\ Resolve(ask) \subseteq Enabled
            /\ slot' = [slot EXCEPT ![r] =
                [Idle EXCEPT !.ask = ask, !.tokens = [i \in DOMAIN ask.tokens |-> Canonical(ask.tokens[i])],
                    !.amount = ask.amount,
                    !.vaults = [i \in DOMAIN [i \in DOMAIN ask.tokens |-> Canonical(ask.tokens[i])] |-> NoToken],
                    !.pc = CASE ask.operation = "token" -> "reading"
                             [] ask.operation # "token" /\ ask.useUnderlying -> "resolving"
                             [] OTHER -> "calling"]]
        BY Zenon DEF Arrive
    <1> DEFINE tokens == [i \in DOMAIN ask.tokens |-> Canonical(ask.tokens[i])]
               vaults == [i \in DOMAIN tokens |-> NoToken]
               pc == CASE ask.operation = "token" -> "reading"
                       [] ask.operation # "token" /\ ask.useUnderlying -> "resolving"
                       [] OTHER -> "calling"
               next == [Idle EXCEPT !.ask = ask, !.tokens = tokens, !.amount = ask.amount,
                            !.vaults = vaults, !.pc = pc]
    <1>2. /\ ask \in AskRecords /\ ask.operation \in Operations \cup {"token"}
          /\ Len(ask.tokens) = IF ask.operation = "quote" THEN 2 ELSE 1
          /\ ask.tokens \in Seq(Tokens)
        BY AskAssumption, Constants DEF AskAssumption, AskRecords
    <1>3. Len(ask.tokens) \in Nat /\ DOMAIN ask.tokens = 1..Len(ask.tokens) /\ 1 \in DOMAIN ask.tokens
        BY <1>2, LenProperties
    <1>4. /\ tokens \in Seq(Tokens) /\ Len(tokens) = Len(ask.tokens) /\ DOMAIN tokens = DOMAIN ask.tokens
          /\ \A i \in DOMAIN tokens : tokens[i] = Canonical(ask.tokens[i])
        <2>1. \A i \in 1..Len(ask.tokens) : Canonical(ask.tokens[i]) \in Tokens
            BY <1>2, <1>3, ElementOfSeq, CanonicalTyped
        <2>2. tokens \in [1..Len(ask.tokens) -> Tokens]
            BY <1>3, <2>1
        <2>3. QED
            BY <1>3, <2>2, LenProperties
    <1>5. /\ vaults \in Seq(DOMAIN Vaults \cup {NoToken}) /\ Len(vaults) = Len(ask.tokens)
          /\ \A i \in DOMAIN vaults : vaults[i] = NoToken
          /\ DOMAIN vaults = DOMAIN ask.tokens
        <2> HIDE DEF tokens
        <2>1. vaults \in [1..Len(ask.tokens) -> DOMAIN Vaults \cup {NoToken}]
            BY <1>3, <1>4
        <2>2. QED
            BY <1>3, <1>4, <2>1, LenProperties
    <1>6. pc \in {"reading", "resolving", "calling"} /\ (pc # "reading" => ask.operation # "token")
          /\ (pc = "reading" => ask.operation = "token")
        OBVIOUS
    <1>7. slot' = [slot EXCEPT ![r] = next]
        BY <1>1
    <1> HIDE DEF tokens, vaults, pc
    <1>8. /\ next.pc = pc /\ next.ask = ask /\ next.tokens = tokens /\ next.vaults = vaults
          /\ next.amount = ask.amount /\ next.reported = <<>> /\ next.results = <<>>
          /\ next.read = <<>> /\ next.merged = <<>>
        BY DEF Idle
    <1>9. next \in Slots
        <2>1. ask.amount \in Nat
            BY <1>2 DEF AskRecords
        <2>2. QED
            BY <1>2, <1>4, <1>5, <1>6, <2>1, FunctionsTyped DEF Idle, Slots, Phases
    <1> HIDE DEF next
    <1>10. AskInv(next)
        <2>1. ask.operation # "none" /\ vaults[1] = NoToken
            BY <1>2, <1>3, <1>5 DEF Operations
        <2>2. QED
            BY <1>1, <1>2, <1>3, <1>4, <1>5, <1>6, <1>8, <2>1 DEF AskInv
    <1>11. TableInv(next)
        BY <1>6, <1>8 DEF TableInv, Resolved
    <1>12. SlotInv(next)
        BY <1>6, <1>8, <1>10, <1>11 DEF SlotInv
    <1>13. QED
        BY <1>7, <1>9, <1>12, OneSlot DEF Arrive, IInv

\* The vaults of a request are found.
LEMMA ResolveVaultsStep ==
    ASSUME IInv, NEW r \in Requests, ResolveVaults(r)
    PROVE  IInv'
    <1> DEFINE s == slot[r]
               VaultOf(t) == IF t \in DOMAIN Vaults THEN t ELSE NoToken
               AssetOf(t) == IF t \in DOMAIN Vaults THEN Vaults[t].asset ELSE t
               tokens == [i \in DOMAIN s.tokens |-> AssetOf(s.tokens[i])]
               vaults == [i \in DOMAIN s.vaults |-> VaultOf(s.tokens[i])]
               amount == IF s.ask.operation = "quote" /\ s.tokens[1] \in DOMAIN Vaults
                         THEN ToAssets(s.tokens[1], s.amount) ELSE s.amount
               next == [s EXCEPT !.pc = "calling", !.tokens = tokens, !.vaults = vaults, !.amount = amount]
    <1>1. s.pc = "resolving" /\ slot' = [slot EXCEPT ![r] = next] /\ UNCHANGED <<stored, enrolled>>
        BY DEF ResolveVaults
    <1>2. s \in Slots /\ AskInv(s) /\ TableInv(s)
        BY <1>1, SlotFacts
    <1>3. /\ s.tokens \in Seq(Tokens) /\ s.amount \in Nat /\ s.vaults \in Seq(DOMAIN Vaults \cup {NoToken})
          /\ s.ask \in AskRecords
        BY <1>2 DEF Slots
    <1>4. /\ s.ask.operation \in Operations /\ s.amount = s.ask.amount
          /\ Len(s.tokens) = Len(s.ask.tokens) /\ Len(s.vaults) = Len(s.ask.tokens)
          /\ Len(s.ask.tokens) = IF s.ask.operation = "quote" THEN 2 ELSE 1
          /\ \A i \in DOMAIN s.vaults : s.vaults[i] = NoToken
          /\ \A i \in DOMAIN s.tokens : s.vaults[i] = NoToken => s.tokens[i] = Canonical(s.ask.tokens[i])
        BY <1>1, <1>2, <1>3 DEF AskInv, AskRecords
    <1>5. /\ Len(s.tokens) \in Nat /\ DOMAIN s.tokens = 1..Len(s.tokens) /\ DOMAIN s.vaults = DOMAIN s.tokens
          /\ 1 \in DOMAIN s.tokens /\ \A i \in DOMAIN s.tokens : s.tokens[i] \in Tokens
        BY <1>3, <1>4, LenProperties, ElementOfSeq
    <1> HIDE DEF s
    <1>6. /\ tokens \in Seq(Tokens) /\ Len(tokens) = Len(s.tokens) /\ DOMAIN tokens = DOMAIN s.tokens
          /\ \A i \in DOMAIN tokens : tokens[i] = AssetOf(s.tokens[i])
        <2>1. tokens \in [1..Len(s.tokens) -> Tokens]
            BY <1>5, VaultFacts
        <2>2. QED
            BY <1>5, <2>1, LenProperties
    <1>7. /\ vaults \in Seq(DOMAIN Vaults \cup {NoToken}) /\ Len(vaults) = Len(s.tokens)
          /\ DOMAIN vaults = DOMAIN s.tokens /\ \A i \in DOMAIN vaults : vaults[i] = VaultOf(s.tokens[i])
        <2>1. vaults \in [1..Len(s.tokens) -> DOMAIN Vaults \cup {NoToken}]
            BY <1>5
        <2>2. QED
            BY <1>5, <2>1, LenProperties
    <1>8. /\ amount \in Nat
          /\ s.ask.operation = "quote" /\ vaults[1] # NoToken =>
                amount * Vaults[vaults[1]].shareUnit <= s.ask.amount * Vaults[vaults[1]].rate
        <2>1. CASE s.ask.operation = "quote" /\ s.tokens[1] \in DOMAIN Vaults
            <3> DEFINE v == s.tokens[1]
            <3>1. v \in DOMAIN Vaults /\ vaults[1] = v /\ amount = (s.amount * Vaults[v].rate) \div Vaults[v].shareUnit
                BY <1>5, <1>7, <2>1 DEF ToAssets
            <3>2. Vaults[v].rate \in Nat /\ Vaults[v].shareUnit \in Nat \ {0}
                BY <3>1, VaultFacts
            <3> HIDE DEF v, amount, vaults
            <3> DEFINE u == Vaults[v].shareUnit
                       a == s.amount * Vaults[v].rate
            <3>3. a \in Nat /\ u \in Nat \ {0} /\ amount = a \div u
                BY <1>3, <3>1, <3>2
            <3>4. a = s.ask.amount * Vaults[v].rate
                BY <1>4
            <3> HIDE DEF a, u
            <3>5. amount \in Nat /\ u * amount <= a
                BY <3>3, Division
            <3>6. amount * u <= a
                BY <3>3, <3>5
            <3>7. QED
                BY <3>1, <3>4, <3>5, <3>6 DEF u
        <2>2. CASE ~(s.ask.operation = "quote" /\ s.tokens[1] \in DOMAIN Vaults)
            BY <1>3, <1>5, <1>7, <2>2
        <2>3. QED
            BY <2>1, <2>2
    <1> HIDE DEF tokens, vaults, amount
    <1>9. /\ next.pc = "calling" /\ next.ask = s.ask /\ next.tokens = tokens /\ next.vaults = vaults
          /\ next.amount = amount /\ next.reported = s.reported /\ next.results = s.results
          /\ next.read = s.read /\ next.merged = s.merged /\ next \in Slots
        BY <1>2, <1>6, <1>7, <1>8 DEF Slots, Phases
    <1> HIDE DEF next
    <1>10. AskInv(next)
        <2>1. \A i \in DOMAIN tokens :
                IF vaults[i] = NoToken THEN tokens[i] = Canonical(s.ask.tokens[i])
                ELSE tokens[i] = Vaults[vaults[i]].asset
            BY <1>4, <1>5, <1>6, <1>7, VaultFacts
        <2>2. s.ask.operation # "none" /\ Resolve(s.ask) # {} /\ Resolve(s.ask) \subseteq Enabled
            BY <1>2, <1>4 DEF AskInv, Operations
        <2>3. s.ask.operation # "token"
            BY <1>4 DEF Operations
        <2>4. QED
            BY <1>4, <1>6, <1>7, <1>8, <1>9, <2>1, <2>2, <2>3 DEF AskInv
    <1>11. TableInv(next)
        BY <1>1, <1>2, <1>9 DEF TableInv, Resolved
    <1>12. SlotInv(next)
        BY <1>9, <1>10, <1>11 DEF SlotInv
    <1>13. QED
        BY <1>1, <1>9, <1>12, OneSlot DEF IInv

\* The resolution fails, and the request has failures without asking anybody.
LEMMA ResolutionFailsStep ==
    ASSUME IInv, NEW r \in Requests, ResolutionFails(r)
    PROVE  IInv'
    <1> DEFINE s == slot[r]
               results == [p \in Resolve(s.ask) |-> Failure("error", "VAULT_RESOLUTION_FAILED")]
               next == [s EXCEPT !.pc = "reading", !.results = results]
    <1>1. s \in Slots
        BY SlotFacts
    <1>2. s.pc = "resolving" /\ slot' = [slot EXCEPT ![r] = next] /\ UNCHANGED <<stored, enrolled>>
        BY <1>1 DEF ResolutionFails, IInv
    <1>3. AskInv(s) /\ TableInv(s)
        BY <1>2, SlotFacts
    <1>4. results \in Reports /\ DOMAIN results = Resolve(s.ask) /\ \A p \in DOMAIN results : results[p].status # "ok"
        <2>1. Failed(Failure("error", "VAULT_RESOLUTION_FAILED"))
            BY Failures DEF Statuses, Errors
        <2>2. Resolve(s.ask) \subseteq AllProviders
            BY <1>1, ResolveTyped DEF Slots
        <2>3. results \in [Resolve(s.ask) -> Results]
            BY <2>1 DEF Failed
        <2>4. QED
            BY <2>1, <2>2, <2>3, FunctionsTyped DEF Failed
    <1> HIDE DEF results, s
    <1>5. /\ next.pc = "reading" /\ next.ask = s.ask /\ next.tokens = s.tokens /\ next.vaults = s.vaults
          /\ next.amount = s.amount /\ next.reported = s.reported /\ next.results = results
          /\ next.read = s.read /\ next.merged = s.merged /\ next \in Slots
        BY <1>1, <1>4 DEF Slots, Phases
    <1> HIDE DEF next
    <1>6. AskInv(next)
        BY <1>3, <1>5 DEF AskInv
    <1>7. TableInv(next)
        BY <1>2, <1>3, <1>4, <1>5 DEF AskInv, TableInv, ResultsInv, Resolved
    <1>8. SlotInv(next)
        BY <1>5, <1>6, <1>7 DEF SlotInv
    <1>9. QED
        BY <1>2, <1>5, <1>8, OneSlot DEF IInv

\* Every provider has answered, and its result is converted.
LEMMA CollectStep ==
    ASSUME IInv, NEW r \in Requests, Collect(r)
    PROVE  IInv'
    <1> DEFINE s == slot[r]
               operation == s.ask.operation
               runnable == {p \in Resolve(s.ask) : StaticRejection(p, operation) = "none"}
               Reported(ends) == [p \in Resolve(s.ask) |->
                    CASE p \notin runnable -> Skipped(StaticRejection(p, operation))
                      [] p \in runnable /\ ends[p].end \in {"deadline", "not admitted"} -> Skipped(ends[p].end)
                      [] OTHER -> PluginResult(p, operation, ends[p])]
    <1>1. PICK ends \in [runnable -> Ends[operation]] :
            slot' = [slot EXCEPT ![r] = [s EXCEPT !.pc = "reading", !.reported = Reported(ends),
                        !.results = Converted(operation, OutVault(s), Reported(ends))]]
        BY Zenon DEF Collect
    <1>2. s.pc = "calling" /\ UNCHANGED <<stored, enrolled>>
        BY DEF Collect
    <1>3. s \in Slots /\ AskInv(s) /\ TableInv(s)
        BY <1>2, SlotFacts
    <1> DEFINE reported == Reported(ends)
               results == Converted(operation, OutVault(s), reported)
               next == [s EXCEPT !.pc = "reading", !.reported = reported, !.results = results]
    <1>4. slot' = [slot EXCEPT ![r] = next]
        BY <1>1
    <1>5. operation \in Operations /\ s.ask \in AskRecords
        BY <1>2, <1>3 DEF AskInv, Slots, AskRecords
    <1>6. Resolve(s.ask) \subseteq AllProviders
        BY <1>5, ResolveTyped
    <1>7. ASSUME NEW p \in Resolve(s.ask) PROVE Answer(operation, reported[p])
        <2>1. reported[p] =
                CASE p \notin runnable -> Skipped(StaticRejection(p, operation))
                  [] p \in runnable /\ ends[p].end \in {"deadline", "not admitted"} -> Skipped(ends[p].end)
                  [] OTHER -> PluginResult(p, operation, ends[p])
            OBVIOUS
        <2>2. \/ \E reason : reported[p] = Skipped(reason)
              \/ p \in runnable /\ reported[p] = PluginResult(p, operation, ends[p])
            <3> HIDE DEF runnable, reported
            <3>1. QED
                BY <2>1
        <2>3. p \in runnable => Supports(p, operation) /\ ends[p] \in Ends[operation]
            <3>1. p \in runnable => StaticRejection(p, operation) = "none"
                OBVIOUS
            <3>2. StaticRejection(p, operation) = "none" => Supports(p, operation)
                BY DEF StaticRejection
            <3>3. QED
                BY <3>1, <3>2
        <2> HIDE DEF runnable, reported, operation
        <2>4. QED
            BY <1>5, <1>6, <2>2, <2>3, SkippedFailed, FailedIsAnswer, PluginsAnswer
    <1>8. DOMAIN reported = Resolve(s.ask) /\ reported = [p \in Resolve(s.ask) |-> reported[p]]
        OBVIOUS
    <1> HIDE DEF reported, Reported
    <1>9. reported \in Reports
        <2>1. reported \in [Resolve(s.ask) -> Results]
            <3>1. \A p \in Resolve(s.ask) : reported[p] \in Results
                BY <1>7 DEF Answer
            <3>2. QED
                BY <1>8, <3>1
        <2>2. QED
            BY <1>6, <2>1, FunctionsTyped
    <1>10. OutVault(s) \in DOMAIN Vaults \cup {NoToken}
        <2>1. s.vaults \in Seq(DOMAIN Vaults \cup {NoToken}) /\ Len(s.vaults) \in {1, 2}
            BY <1>3 DEF Slots, AskInv
        <2>2. QED
            BY <2>1, ElementOfSeq DEF OutVault
    <1>11. results \in Reports
        BY <1>5, <1>6, <1>8, <1>9, <1>10, ConvertedTyped, FunctionsTyped
    <1> HIDE DEF results, s
    <1>12. /\ next.pc = "reading" /\ next.ask = s.ask /\ next.tokens = s.tokens /\ next.vaults = s.vaults
           /\ next.amount = s.amount /\ next.reported = reported /\ next.results = results
           /\ next.read = s.read /\ next.merged = s.merged /\ next \in Slots
        BY <1>3, <1>9, <1>11 DEF Slots, Phases
    <1>13. OutVault(next) = OutVault(s)
        BY <1>12 DEF OutVault
    <1> HIDE DEF next
    <1>14. AskInv(next)
        BY <1>3, <1>12 DEF AskInv
    <1>15. ResultsInv(next)
        <2>1. \A p \in DOMAIN reported : Sound(operation, reported[p])
            BY <1>7, <1>8 DEF Answer
        <2>2. QED
            BY <1>8, <1>12, <1>13, <2>1 DEF ResultsInv, results
    <1>16. TableInv(next)
        BY <1>2, <1>3, <1>5, <1>12, <1>15 DEF TableInv, Resolved, Operations
    <1>17. SlotInv(next)
        BY <1>12, <1>14, <1>16 DEF SlotInv
    <1>18. QED
        BY <1>2, <1>4, <1>12, <1>17, OneSlot DEF IInv

\* The table is read, and merged with what the results tell.
LEMMA ReadCacheStep ==
    ASSUME IInv, NEW r \in Requests, ReadCache(r)
    PROVE  IInv'
    <1> DEFINE s == slot[r]
               read == [t \in Involved(s) |-> stored[t]]
               merged == [t \in Involved(s) |-> MergeMetadata(t, stored[t], HintsFromRefs(s, t))]
               next == [s EXCEPT !.read = read, !.merged = merged, !.reported = <<>>, !.results = <<>>]
    <1>1. \E pc \in Resolved : slot' = [slot EXCEPT ![r] = [next EXCEPT !.pc = pc]]
        BY DEF ReadCache, AfterMerge, Resolved
    <1>2. PICK pc \in Resolved : slot' = [slot EXCEPT ![r] = [next EXCEPT !.pc = pc]]
        BY <1>1
    <1>3. s.pc = "reading" /\ UNCHANGED <<stored, enrolled>>
        BY DEF ReadCache
    <1>4. s \in Slots /\ AskInv(s) /\ TableInv(s)
        BY <1>3, SlotFacts
    <1>5. Involved(s) \subseteq Tokens /\ stored \in [Tokens -> Metadata \cup {NoRow}]
        BY <1>4, InvolvedTyped DEF IInv
    <1>6. \A t \in Involved(s) :
            /\ read[t] = stored[t] /\ merged[t] \in Metadata /\ Keeps(read[t], merged[t])
        BY <1>4, <1>5, HintsTyped, MergeKeeps
    <1>7. /\ read \in [Involved(s) -> Metadata \cup {NoRow}]
          /\ merged \in [Involved(s) -> Metadata]
        BY <1>5, <1>6
    <1>8. read \in Rows /\ merged \in Rows
        <2>1. merged \in [Involved(s) -> Metadata \cup {NoRow}]
            BY <1>7
        <2>2. QED
            BY <1>5, <1>7, <2>1, FunctionsTyped
    <1> HIDE DEF read, merged, s
    <1> DEFINE new == [next EXCEPT !.pc = pc]
    <1>9. /\ new.pc = pc /\ new.ask = s.ask /\ new.tokens = s.tokens /\ new.vaults = s.vaults
          /\ new.amount = s.amount /\ new.reported = <<>> /\ new.results = <<>>
          /\ new.read = read /\ new.merged = merged /\ new \in Slots
        BY <1>4, <1>8, FunctionsTyped DEF Slots, Phases, Resolved
    <1>10. slot' = [slot EXCEPT ![r] = new]
        BY <1>2
    <1> HIDE DEF new
    <1>11. AskInv(new)
        BY <1>3, <1>4, <1>9 DEF AskInv, Resolved
    <1>12. Involved(new) = Involved(s)
        BY <1>9 DEF Involved
    <1>13. TableInv(new)
        BY <1>6, <1>7, <1>9, <1>12 DEF TableInv, Resolved
    <1>14. SlotInv(new)
        BY <1>9, <1>11, <1>13 DEF SlotInv, Resolved
    <1>15. QED
        BY <1>3, <1>9, <1>10, <1>14, OneSlot DEF IInv

\* The chain tells what is still unknown, or does not.
LEMMA FetchOnchainStep ==
    ASSUME IInv, NEW r \in Requests, FetchOnchain(r)
    PROVE  IInv'
    <1> DEFINE s == slot[r]
               Found(known, t) ==
                    [symbol |-> IF "symbol" \in known[t] THEN Truth[t].symbol ELSE "",
                     decimals |-> IF "decimals" \in known[t] THEN Truth[t].decimals ELSE NoValue]
               Merged(known) == [t \in Involved(s) |->
                    IF t \in Unresolved(s) THEN MergeMetadata(t, s.merged[t], Found(known, t)) ELSE s.merged[t]]
    <1>1. PICK known \in [Unresolved(s) -> SUBSET {"symbol", "decimals"}] :
            slot' = [slot EXCEPT ![r] = AfterMerge([s EXCEPT !.merged = Merged(known)])]
        BY Zenon DEF FetchOnchain
    <1>2. s.pc = "fetching" /\ UNCHANGED <<stored, enrolled>>
        BY DEF FetchOnchain
    <1>3. s \in Slots /\ AskInv(s) /\ TableInv(s)
        BY <1>2, SlotFacts
    <1>4. /\ Involved(s) \subseteq Tokens /\ s.merged \in [Involved(s) -> Metadata]
          /\ DOMAIN s.read = Involved(s) /\ \A t \in Involved(s) : Keeps(s.read[t], s.merged[t])
          /\ s.reported = <<>> /\ s.results = <<>>
        BY <1>2, <1>3, InvolvedTyped DEF TableInv, Resolved
    <1>5. \A t \in Involved(s) : s.read[t] \in Metadata \cup {NoRow}
        <2>1. s.read \in Rows
            BY <1>3 DEF Slots
        <2>2. QED
            BY <1>4, <2>1 DEF Rows
    <1> DEFINE merged == Merged(known)
               next == [s EXCEPT !.merged = merged]
    <1>6. ASSUME NEW t \in Involved(s) PROVE merged[t] \in Metadata /\ Keeps(s.read[t], merged[t])
        <2>1. Found(known, t) \in Metadata
            <3>1. Truth[t] \in Metadata
                BY <1>4, RequestAssumption DEF RequestAssumption
            <3>2. Truth[t].symbol \in Symbols /\ Truth[t].decimals \in NoValue..255
                BY <3>1 DEF Metadata
            <3>3. "" \in Symbols
                BY ReplyAssumption DEF ReplyAssumption
            <3>4. NoValue \in NoValue..255
                BY Constants
            <3>5. QED
                BY <3>2, <3>3, <3>4 DEF Metadata
        <2>2. merged[t] = IF t \in Unresolved(s) THEN MergeMetadata(t, s.merged[t], Found(known, t)) ELSE s.merged[t]
            OBVIOUS
        <2>3. s.merged[t] \in Metadata /\ s.read[t] \in Metadata \cup {NoRow} /\ Keeps(s.read[t], s.merged[t])
            BY <1>4, <1>5
        <2> HIDE DEF Found, merged, s
        <2>4. CASE t \in Unresolved(s)
            <3>1. /\ MergeMetadata(t, s.merged[t], Found(known, t)) \in Metadata
                  /\ Keeps(s.merged[t], MergeMetadata(t, s.merged[t], Found(known, t)))
                BY <2>1, <2>3, MergeKeeps
            <3>2. QED
                BY <2>2, <2>3, <2>4, <3>1, KeepsOn
        <2>5. CASE t \notin Unresolved(s)
            BY <2>2, <2>3, <2>5
        <2>6. QED
            BY <2>4, <2>5
    <1>7. merged \in [Involved(s) -> Metadata] /\ merged \in Rows
        <2>1. merged = [t \in Involved(s) |-> merged[t]]
            OBVIOUS
        <2> HIDE DEF merged
        <2>2. merged \in [Involved(s) -> Metadata] /\ merged \in [Involved(s) -> Metadata \cup {NoRow}]
            BY <1>6, <2>1
        <2>3. QED
            BY <1>4, <2>2, FunctionsTyped
    <1>8. \E pc \in {"persisting", "enrolling"} : slot' = [slot EXCEPT ![r] = [next EXCEPT !.pc = pc]]
        BY <1>1 DEF AfterMerge
    <1>9. PICK pc \in {"persisting", "enrolling"} : slot' = [slot EXCEPT ![r] = [next EXCEPT !.pc = pc]]
        BY <1>8
    <1> HIDE DEF merged, s
    <1> DEFINE new == [next EXCEPT !.pc = pc]
    <1>10. /\ new.pc = pc /\ new.ask = s.ask /\ new.tokens = s.tokens /\ new.vaults = s.vaults
           /\ new.amount = s.amount /\ new.reported = s.reported /\ new.results = s.results
           /\ new.read = s.read /\ new.merged = merged /\ new \in Slots
        BY <1>3, <1>7 DEF Slots, Phases
    <1>11. slot' = [slot EXCEPT ![r] = new]
        BY <1>9
    <1> HIDE DEF new
    <1>12. AskInv(new)
        BY <1>2, <1>3, <1>10 DEF AskInv
    <1>13. Involved(new) = Involved(s)
        BY <1>10 DEF Involved
    <1>14. TableInv(new)
        BY <1>4, <1>6, <1>7, <1>10, <1>13 DEF TableInv, Resolved
    <1>15. SlotInv(new)
        BY <1>10, <1>12, <1>14 DEF SlotInv
    <1>16. QED
        BY <1>2, <1>10, <1>11, <1>15, OneSlot DEF IInv

\* A request that goes on after it read the table keeps what it read.
LEMMA GotoStep ==
    ASSUME IInv, NEW r \in Requests, NEW pc \in Resolved, slot[r].pc \in Resolved, Goto(r, pc),
           stored' \in [Tokens -> Metadata \cup {NoRow}], enrolled' \subseteq Tokens
    PROVE  IInv'
    <1> DEFINE s == slot[r]
               next == [s EXCEPT !.pc = pc]
    <1>1. s \in Slots /\ AskInv(s) /\ TableInv(s)
        BY SlotFacts DEF Resolved
    <1>2. slot' = [slot EXCEPT ![r] = next]
        BY DEF Goto, IInv
    <1>3. s.pc \in Resolved
        OBVIOUS
    <1> HIDE DEF s
    <1>4. /\ next.pc = pc /\ next.ask = s.ask /\ next.tokens = s.tokens /\ next.vaults = s.vaults
          /\ next.amount = s.amount /\ next.reported = s.reported /\ next.results = s.results
          /\ next.read = s.read /\ next.merged = s.merged /\ next \in Slots
        BY <1>1 DEF Slots, Phases, Resolved
    <1> HIDE DEF next
    <1>5. AskInv(next)
        BY <1>1, <1>3, <1>4 DEF AskInv, Resolved
    <1>6. TableInv(next)
        <2>1. Involved(next) = Involved(s)
            BY <1>4 DEF Involved
        <2>2. QED
            BY <1>1, <1>3, <1>4, <2>1 DEF TableInv, Resolved
    <1>7. SlotInv(next)
        BY <1>4, <1>5, <1>6 DEF SlotInv, Resolved
    <1>8. QED
        BY <1>2, <1>4, <1>7, OneSlot

\* The rows that changed are written.
LEMMA PersistStep ==
    ASSUME IInv, NEW r \in Requests, Persist(r)
    PROVE  IInv'
    <1> DEFINE s == slot[r]
    <1>1. /\ s.pc = "persisting" /\ Goto(r, "enrolling") /\ UNCHANGED enrolled
          /\ stored' = [t \in Tokens |-> IF t \in ToPersist(s) THEN s.merged[t] ELSE stored[t]]
        BY DEF Persist
    <1>2. s.merged \in [Involved(s) -> Metadata]
        BY <1>1, SlotFacts DEF TableInv, Resolved
    <1>3. stored' \in [Tokens -> Metadata \cup {NoRow}]
        BY <1>1, <1>2 DEF ToPersist, IInv
    <1>4. QED
        BY <1>1, <1>3, GotoStep DEF Resolved, IInv

\* The tokens of a request are enrolled.
LEMMA EnrollSteps ==
    ASSUME IInv, NEW r \in Requests, Enroll(r) \/ EnrollOriginals(r)
    PROVE  IInv'
    <1> DEFINE s == slot[r]
    <1>1. s \in Slots /\ enrolled \subseteq Tokens /\ stored \in [Tokens -> Metadata \cup {NoRow}]
        BY SlotFacts DEF IInv
    <1>2. Involved(s) \subseteq Tokens /\ Originals(s.ask) \subseteq Tokens
        BY <1>1, InvolvedTyped, RequestAssumption DEF Originals, RequestAssumption
    <1>3. enrolled' \subseteq Tokens /\ stored' = stored
        BY <1>1, <1>2 DEF Enroll, EnrollOriginals
    <1>4. \/ slot' = [slot EXCEPT ![r] = Idle]
          \/ s.pc = "enrolling" /\ slot' = [slot EXCEPT ![r] = [s EXCEPT !.pc = "enrolling originals"]]
        BY DEF Enroll, EnrollOriginals
    <1>5. CASE slot' = [slot EXCEPT ![r] = Idle]
        BY <1>1, <1>3, <1>5, SlotFreed
    <1>6. CASE s.pc = "enrolling" /\ slot' = [slot EXCEPT ![r] = [s EXCEPT !.pc = "enrolling originals"]]
        <2>1. Goto(r, "enrolling originals")
            BY <1>6 DEF Goto, IInv
        <2>2. QED
            BY <1>1, <1>3, <1>6, <2>1, GotoStep DEF Resolved
    <1>7. QED
        BY <1>4, <1>5, <1>6

\* Every step keeps the invariant.
LEMMA IInvStep == IInv /\ [Next]_vars => IInv'
    <1>1. ASSUME IInv, Next PROVE IInv'
        <2>1. PICK r \in Requests :
                \/ Arrive(r)
                \/ ResolveVaults(r) \/ ResolutionFails(r)
                \/ Collect(r) \/ CallsFail(r)
                \/ ReadCache(r) \/ FetchOnchain(r) \/ Persist(r)
                \/ Enroll(r) \/ EnrollOriginals(r) \/ StoreFails(r)
            BY <1>1 DEF Next
        <2>2. CASE CallsFail(r) \/ StoreFails(r)
            BY <1>1, <2>2, SlotFreed DEF CallsFail, StoreFails, Ends500, IInv
        <2>3. QED
            BY <1>1, <2>1, <2>2, ArriveStep, ResolveVaultsStep, ResolutionFailsStep, CollectStep,
               ReadCacheStep, FetchOnchainStep, PersistStep, EnrollSteps
    <1>2. ASSUME IInv, UNCHANGED vars PROVE IInv'
        BY <1>2 DEF IInv, vars
    <1>3. QED
        BY <1>1, <1>2

\* The invariant holds of every state.
LEMMA Invariance == Spec => []IInv
    <1>1. Init => IInv
        BY IdleTyped DEF Init, IInv
    <1>2. QED
        BY <1>1, IInvStep, PTL DEF Spec

-----------------------------------------------------------------------------
(* The theorems.                                                           *)

\* The variables have their types: the table holds metadata of tokens, and a
\* request carries results or what it merged, of canonical tokens and assets.
THEOREM TypeCorrect == Spec => []TypeOK
    <1>1. ASSUME IInv, NEW r \in Requests
          PROVE  LET s == slot[r] IN
                 /\ s.pc \in Phases
                 /\ (s.pc = "idle") = (s.ask = NoAsk)
                 /\ s.tokens \in Seq(Tokens) /\ DOMAIN s.vaults = DOMAIN s.tokens
                 /\ \A i \in DOMAIN s.tokens :
                     IF s.vaults[i] = NoToken THEN s.tokens[i] \notin DOMAIN Remap
                     ELSE s.tokens[i] = Vaults[s.vaults[i]].asset
                 /\ (s.results # <<>>) = (s.pc = "reading" /\ s.ask.operation # "token")
                 /\ (s.merged # <<>>) = (s.pc \in Resolved)
                 /\ s.merged # <<>> => s.merged \in [Involved(s) -> Metadata] /\ DOMAIN s.read = Involved(s)
        <2> DEFINE s == slot[r]
        <2>1. s \in Slots /\ SlotInv(s)
            BY <1>1, SlotFacts
        <2> HIDE DEF s
        <2>2. CASE s.pc = "idle"
            <3>1. s = Idle
                BY <2>1, <2>2 DEF SlotInv
            <3>2. QED
                BY <2>1, <3>1 DEF Idle, Slots, Resolved, s
        <2>3. CASE s.pc # "idle"
            <3>1. AskInv(s) /\ TableInv(s) /\ s.ask \in AskRecords
                BY <2>1, <2>3 DEF SlotInv, Slots
            <3>2. /\ s.tokens \in Seq(Tokens) /\ s.ask.tokens \in Seq(Tokens)
                  /\ s.vaults \in Seq(DOMAIN Vaults \cup {NoToken})
                BY <2>1, <3>1 DEF Slots, AskRecords
            <3>3. DOMAIN s.vaults = DOMAIN s.tokens /\ DOMAIN s.ask.tokens = DOMAIN s.tokens
                  /\ 1 \in DOMAIN s.ask.tokens
                BY <3>1, <3>2, LenProperties DEF AskInv
            <3>4. \A i \in DOMAIN s.tokens : Canonical(s.ask.tokens[i]) \notin DOMAIN Remap
                BY <3>2, <3>3, LenProperties, ElementOfSeq, CanonicalTyped
            <3>5. \A i \in DOMAIN s.tokens :
                     IF s.vaults[i] = NoToken THEN s.tokens[i] \notin DOMAIN Remap
                     ELSE s.tokens[i] = Vaults[s.vaults[i]].asset
                BY <3>1, <3>4 DEF AskInv
            <3>6. s.ask # NoAsk
                BY <3>1 DEF AskInv, NoAsk
            <3>7. Involved(s) # {}
                BY <3>3 DEF Involved
            <3>8. (s.merged # <<>>) = (s.pc \in Resolved)
                <4>1. s.pc \in Resolved => DOMAIN s.merged # DOMAIN <<>>
                    BY <3>1, <3>7 DEF TableInv
                <4>2. QED
                    BY <3>1, <4>1 DEF TableInv
            <3>9. (s.results # <<>>) = (s.pc = "reading" /\ s.ask.operation # "token")
                <4>1. ASSUME s.pc = "reading" /\ s.ask.operation # "token" PROVE s.results # <<>>
                    <5>1. ResultsInv(s) /\ Resolve(s.ask) # {}
                        BY <3>1, <4>1 DEF TableInv, AskInv
                    <5>2. DOMAIN s.results = Resolve(s.ask)
                        BY <5>1 DEF ResultsInv, Converted
                    <5>3. DOMAIN s.results # DOMAIN <<>>
                        BY <5>1, <5>2
                    <5>4. QED
                        BY <5>3
                <4>2. QED
                    BY <3>1, <4>1 DEF TableInv
            <3>10. QED
                BY <2>1, <2>3, <3>1, <3>2, <3>3, <3>5, <3>6, <3>8, <3>9 DEF TableInv, Slots, s
        <2>4. QED
            BY <2>2, <2>3
    <1>2. IInv => TypeOK
        BY <1>1 DEF IInv, TypeOK, Phases, Resolved
    <1>3. QED
        BY <1>2, Invariance, PTL

\* What the table knows of a token is changed or lost only by a request that
\* read something else there: of what it read, it writes back what it knew.
THEOREM KnownIsKept == Spec => KnownStaysKnown
    <1> DEFINE Known(row, field) == row[field] \notin {NoRow[field], NoMeta[field]}
    <1>1. ASSUME IInv, Next, NEW t \in Tokens, NEW field \in {"symbol", "decimals"},
                 Known(stored[t], field), stored'[t][field] # stored[t][field]
          PROVE  \E r \in Requests :
                    /\ slot[r].pc = "persisting" /\ slot'[r].pc = "enrolling"
                    /\ t \in DOMAIN slot[r].read
                    /\ slot[r].read[t][field] # stored[t][field]
        <2>1. PICK r \in Requests : Persist(r)
            <3>1. PICK r \in Requests :
                    \/ Arrive(r)
                    \/ ResolveVaults(r) \/ ResolutionFails(r)
                    \/ Collect(r) \/ CallsFail(r)
                    \/ ReadCache(r) \/ FetchOnchain(r) \/ Persist(r)
                    \/ Enroll(r) \/ EnrollOriginals(r) \/ StoreFails(r)
                BY <1>1 DEF Next
            <3>2. \/ Persist(r)
                  \/ UNCHANGED stored
                BY <3>1 DEF Arrive, ResolveVaults, ResolutionFails, Collect, CallsFail, ReadCache,
                    FetchOnchain, Enroll, EnrollOriginals, StoreFails
            <3>3. QED
                BY <1>1, <3>2
        <2> DEFINE s == slot[r]
        <2>2. /\ s.pc = "persisting" /\ slot'[r].pc = "enrolling"
              /\ stored' = [u \in Tokens |-> IF u \in ToPersist(s) THEN s.merged[u] ELSE stored[u]]
            BY <1>1, <2>1, SlotFacts DEF Persist, Goto, IInv, Slots
        <2>3. t \in ToPersist(s) /\ stored'[t] = s.merged[t]
            BY <1>1, <2>2
        <2>4. t \in Involved(s) /\ DOMAIN s.read = Involved(s) /\ Keeps(s.read[t], s.merged[t])
              /\ s.read \in Rows
            BY <1>1, <2>2, <2>3, SlotFacts DEF ToPersist, TableInv, Resolved, Slots
        <2>5. ASSUME s.read[t][field] = stored[t][field] PROVE FALSE
            <3>1. stored[t] \in Metadata \cup {NoRow}
                BY <1>1 DEF IInv
            <3> HIDE DEF s
            <3>2. CASE field = "symbol"
                BY <1>1, <2>3, <2>4, <2>5, <3>2, MetaTyped DEF Keeps, NoMeta
            <3>3. CASE field = "decimals"
                <4>1. stored[t].decimals \in NoValue..255 \/ stored[t].decimals = -2
                    BY <3>1, MetaTyped DEF Metadata
                <4>2. stored[t].decimals >= 0
                    <5>1. stored[t].decimals # NoRow.decimals /\ stored[t].decimals # NoMeta.decimals
                        BY <1>1, <3>3
                    <5>2. NoRow.decimals = -2 /\ NoMeta.decimals = NoValue
                        BY MetaTyped DEF NoMeta
                    <5>3. QED
                        BY <4>1, <5>1, <5>2, Constants
                <4>3. QED
                    BY <1>1, <2>3, <2>4, <2>5, <3>3, <4>2 DEF Keeps
            <3>4. QED
                BY <3>2, <3>3
        <2>6. QED
            BY <2>2, <2>4, <2>5
    <1>2. IInv /\ [Next]_vars =>
            [\A t \in Tokens : \A field \in {"symbol", "decimals"} :
                stored[t][field] \notin {NoRow[field], NoMeta[field]} /\ stored'[t][field] # stored[t][field] =>
                    \E r \in Requests :
                        /\ slot[r].pc = "persisting" /\ slot'[r].pc = "enrolling"
                        /\ t \in DOMAIN slot[r].read
                        /\ slot[r].read[t][field] # stored[t][field]]_vars
        BY <1>1
    <1>3. QED
        BY <1>2, Invariance, PTL DEF Spec, KnownStaysKnown

-----------------------------------------------------------------------------
(* The answer.                                                             *)

\* The shares that assets are worth, and no other number is.
LEMMA SharesWorth ==
    ASSUME NEW v \in DOMAIN Vaults, NEW assets \in Nat
    PROVE  /\ ToShares(v, assets) \in Nat /\ WorthAtMost(v, ToShares(v, assets), assets)
           /\ \A n \in Nat : WorthAtMost(v, n, assets) => n = ToShares(v, assets)
    <1> DEFINE u == Vaults[v].rate
               a == assets * Vaults[v].shareUnit
    <1>1. u \in Nat \ {0} /\ a \in Nat
        BY VaultFacts
    <1>2. ToShares(v, assets) = a \div u
        BY DEF ToShares
    <1>3. \A n \in Nat : WorthAtMost(v, n, assets) <=> n * u <= a /\ a < (n + 1) * u
        BY DEF WorthAtMost
    <1> HIDE DEF u, a
    <1>4. a \div u \in Nat /\ u * (a \div u) <= a /\ a < u * (a \div u + 1)
        BY <1>1, Division
    <1>5. (a \div u) * u <= a /\ a < (a \div u + 1) * u
        BY <1>1, <1>4
    <1>6. ASSUME NEW n \in Nat, n * u <= a, a < (n + 1) * u PROVE n = a \div u
        <2>1. u * n <= a /\ a < u * (n + 1)
            BY <1>1, <1>6
        <2>2. QED
            BY <1>1, <2>1, QuotientUnique
    <1>7. QED
        BY <1>2, <1>3, <1>4, <1>5, <1>6

\* More assets are worth no less.
LEMMA SharesMonotone ==
    ASSUME NEW v \in DOMAIN Vaults, NEW a \in Nat, NEW b \in Nat, a <= b
    PROVE  ToShares(v, a) <= ToShares(v, b)
    <1> DEFINE u == Vaults[v].rate
               k == Vaults[v].shareUnit
    <1>1. u \in Nat \ {0} /\ k \in Nat
        BY VaultFacts
    <1> HIDE DEF u, k
    <1>2. a * k \in Nat /\ b * k \in Nat /\ a * k <= b * k
        BY <1>1
    <1>3. (a * k) \div u <= (b * k) \div u
        BY <1>1, <1>2, DivisionMonotone
    <1>4. QED
        BY <1>3 DEF ToShares, u, k

\* A quote through a vault is a success if the provider's was, and its amount
\* is worth some shares that fit uint256.
LEMMA QuoteConverted ==
    ASSUME NEW v \in DOMAIN Vaults, NEW said, Answer("quote", said)
    PROVE  LET answer == ApplyQuoteResolution(v, said) IN
           /\ answer.status = "ok" <=>
                said.status = "ok" /\ \E n \in 1..MaxUint : WorthAtMost(v, n, said.amount)
           /\ answer.status = "ok" =>
                /\ answer.amount \in 1..MaxUint /\ answer.min \in NoValue..answer.amount
                /\ (answer.min = NoValue) = (said.min = NoValue)
                /\ WorthAtMost(v, answer.amount, said.amount)
                /\ said.min # NoValue => WorthAtMost(v, answer.min, said.min)
    <1> DEFINE amount == ToShares(v, said.amount)
               min == IF said.min = NoValue THEN NoValue ELSE ToShares(v, said.min)
               answer == ApplyQuoteResolution(v, said)
    <1>1. said \in Results
        BY DEF Answer
    <1>2. CASE said.status # "ok"
        <2>1. answer = said
            BY <1>2 DEF ApplyQuoteResolution
        <2> HIDE DEF answer
        <2>2. QED
            BY <1>2, <2>1 DEF answer
    <1>3. CASE said.status = "ok"
        <2>1. said.amount \in 1..MaxUint /\ said.min \in NoValue..said.amount
            BY <1>3 DEF Answer, Sound
        <2>2. said.amount \in Nat /\ (said.min # NoValue => said.min \in Nat /\ said.min <= said.amount)
            BY <2>1, Constants
        <2>3. /\ amount \in Nat /\ WorthAtMost(v, amount, said.amount)
              /\ \A n \in Nat : WorthAtMost(v, n, said.amount) => n = amount
            BY <2>2, SharesWorth
        <2>4. /\ min \in NoValue..amount /\ (min = NoValue) = (said.min = NoValue)
              /\ said.min # NoValue => WorthAtMost(v, min, said.min)
            <3>1. CASE said.min = NoValue
                BY <2>3, <3>1, Constants
            <3>2. CASE said.min # NoValue
                <4>1. min = ToShares(v, said.min)
                    BY <3>2
                <4>2. min \in Nat /\ WorthAtMost(v, min, said.min) /\ min <= amount
                    BY <2>2, <3>2, <4>1, SharesWorth, SharesMonotone
                <4> HIDE DEF min
                <4>3. QED
                    BY <2>3, <3>2, <4>2, Constants
            <3>3. QED
                BY <3>1, <3>2
        <2>5. ~(min > amount)
            <3> HIDE DEF min, amount
            <3>1. QED
                BY <2>3, <2>4, Constants
        <2>6. (\E n \in 1..MaxUint : WorthAtMost(v, n, said.amount)) <=> amount \in 1..MaxUint
            BY <2>3, Constants
        <2>7. CASE amount \in 1..MaxUint
            <3>1. answer = [said EXCEPT !.amount = amount, !.min = min]
                BY <1>3, <2>5, <2>7 DEF ApplyQuoteResolution
            <3> HIDE DEF answer, amount, min
            <3>2. answer.status = "ok" /\ answer.amount = amount /\ answer.min = min
                BY <1>1, <1>3, <3>1 DEF Results
            <3>3. QED
                BY <1>3, <2>3, <2>4, <2>6, <2>7, <3>2 DEF answer
        <2>8. CASE amount \notin 1..MaxUint
            <3>1. answer = ConversionFailure(said)
                BY <1>3, <2>8 DEF ApplyQuoteResolution
            <3>2. ConversionFailure(said).status = "error"
                BY DEF ConversionFailure, Failure, Result
            <3> HIDE DEF answer, amount, min
            <3>3. QED
                BY <2>6, <2>8, <3>1, <3>2 DEF answer
        <2>9. QED
            BY <2>7, <2>8
    <1>4. QED
        BY <1>2, <1>3

\* A price through a vault is a success if the provider's was, times the rate.
LEMMA PriceConverted ==
    ASSUME NEW v \in DOMAIN Vaults, NEW said, Answer("price", said)
    PROVE  LET answer == ApplyPriceContext(v, said) IN
           /\ answer.status = said.status
           /\ said.status = "ok" =>
                answer.amount \in Nat /\ answer.amount * Vaults[v].assetUnit = said.amount * Vaults[v].rate
    <1> DEFINE answer == ApplyPriceContext(v, said)
               u == Vaults[v].assetUnit
               rate == Vaults[v].rate
    <1>1. said \in Results
        BY DEF Answer
    <1>2. CASE said.status # "ok"
        <2>1. answer = said
            BY <1>2 DEF ApplyPriceContext
        <2>2. QED
            BY <1>2, <2>1
    <1>3. CASE said.status = "ok"
        <2>1. PICK k \in Nat : said.amount = PriceScale * k
            BY <1>3 DEF Answer, Sound
        <2>2. u \in Nat \ {0} /\ rate \in Nat /\ PriceScale % u = 0 /\ PriceScale \in Nat
            BY VaultFacts, Constants
        <2>3. answer = [said EXCEPT !.amount = (said.amount \div u) * rate]
            BY <1>3 DEF ApplyPriceContext
        <2> HIDE DEF answer, u, rate
        <2>4. said.amount \div u \in Nat /\ u * (said.amount \div u) = said.amount
            <3>1. (PriceScale * k) \div u \in Nat /\ u * ((PriceScale * k) \div u) = PriceScale * k
                BY <2>2, DivisionExact
            <3>2. QED
                BY <2>1, <3>1
        <2>5. answer.status = "ok" /\ answer.amount = (said.amount \div u) * rate
            BY <1>1, <1>3, <2>3 DEF Results
        <2> DEFINE q == said.amount \div u
        <2>6. q \in Nat /\ u * q = said.amount /\ answer.amount = q * rate
            BY <2>4, <2>5
        <2> HIDE DEF q
        <2>7. q * rate \in Nat /\ (q * rate) * u = (u * q) * rate
            BY <2>2, <2>6
        <2>8. QED
            BY <1>3, <2>5, <2>6, <2>7 DEF answer, u, rate
    <1>4. QED
        BY <1>2, <1>3

\* How many of some things count less than a, and how many no more.
Below(S, f, a) == Cardinality({p \in S : f[p] < a})
UpTo(S, f, a) == Cardinality({p \in S : f[p] <= a})

\* The amount at a place of the sorted ones.
AtPlace(S, f, k, a) == a \in {f[p] : p \in S} /\ Below(S, f, a) < k /\ k <= UpTo(S, f, a)

\* Counting the things on one side, and those on the other.
LEMMA Counted ==
    ASSUME NEW S, IsFiniteSet(S), NEW f, \A p \in S : f[p] \in Nat, NEW a \in Nat
    PROVE  /\ Cardinality(S) \in Nat /\ Below(S, f, a) \in Nat /\ UpTo(S, f, a) \in Nat
           /\ Below(S, f, a) <= UpTo(S, f, a) /\ UpTo(S, f, a) <= Cardinality(S)
           /\ UpTo(S, f, a) = Cardinality(S) => \A p \in S : f[p] <= a
           /\ \A p \in S : f[p] = a => Below(S, f, a) < UpTo(S, f, a)
           /\ Cardinality({p \in S : f[p] >= a}) = Cardinality(S) - Below(S, f, a)
    <1> DEFINE less == {p \in S : f[p] < a}
               upto == {p \in S : f[p] <= a}
               more == {p \in S : f[p] >= a}
    <1>1. less \subseteq upto /\ upto \subseteq S /\ more \subseteq S /\ more = S \ less /\ S \cap less = less
        OBVIOUS
    <1>2. less # upto \/ \A p \in S : f[p] # a
        OBVIOUS
    <1>3. upto = S => \A p \in S : f[p] <= a
        OBVIOUS
    <1>4. Below(S, f, a) = Cardinality(less) /\ UpTo(S, f, a) = Cardinality(upto)
        BY DEF Below, UpTo
    <1> HIDE DEF less, upto, more
    <1>5. /\ IsFiniteSet(upto) /\ Cardinality(upto) <= Cardinality(S)
          /\ Cardinality(upto) = Cardinality(S) => upto = S
        BY <1>1, FS_Subset
    <1>6. /\ IsFiniteSet(less) /\ Cardinality(less) <= Cardinality(upto)
          /\ Cardinality(less) = Cardinality(upto) => less = upto
        BY <1>1, <1>5, FS_Subset
    <1>7. Cardinality(S) \in Nat /\ Cardinality(less) \in Nat /\ Cardinality(upto) \in Nat
        BY <1>5, <1>6, FS_CardinalityType
    <1>8. Cardinality(more) = Cardinality(S) - Cardinality(less)
        <2>1. Cardinality(S \ less) = Cardinality(S) - Cardinality(S \cap less)
            BY <1>6, FS_Difference, Zenon
        <2>2. QED
            BY <1>1, <2>1
    <1>9. QED
        BY <1>2, <1>3, <1>4, <1>5, <1>6, <1>7, <1>8 DEF more

\* Of two amounts, more is below the larger one, at least as much as is up to
\* the smaller one; and nothing else is, if there is nothing between the two.
LEMMA Between ==
    ASSUME NEW S, IsFiniteSet(S), NEW f, \A p \in S : f[p] \in Nat, NEW a \in Nat, NEW b \in Nat, a < b
    PROVE  /\ UpTo(S, f, a) <= Below(S, f, b)
           /\ (\A p \in S : f[p] > a => f[p] >= b) => UpTo(S, f, a) = Below(S, f, b)
    <1> DEFINE upto == {p \in S : f[p] <= a}
               less == {p \in S : f[p] < b}
    <1>1. upto \subseteq less /\ less \subseteq S
        OBVIOUS
    <1>2. (\A p \in S : f[p] > a => f[p] >= b) => upto = less
        OBVIOUS
    <1>3. Below(S, f, b) = Cardinality(less) /\ UpTo(S, f, a) = Cardinality(upto)
        BY DEF Below, UpTo
    <1> HIDE DEF less, upto
    <1>4. IsFiniteSet(less)
        BY <1>1, FS_Subset
    <1>5. Cardinality(upto) <= Cardinality(less)
        BY <1>1, <1>4, FS_Subset
    <1>6. QED
        BY <1>2, <1>3, <1>5

\* There is an amount at every place.
LEMMA EveryPlace ==
    ASSUME NEW S, IsFiniteSet(S), NEW f, \A p \in S : f[p] \in Nat, NEW k \in 1..Cardinality(S)
    PROVE  \E a : AtPlace(S, f, k, a)
    <1> DEFINE n == Cardinality(S)
               amounts == {f[p] : p \in S}
               low == {a \in amounts : Below(S, f, a) < k}
               ranks == {n - Below(S, f, a) : a \in low}
    <1>1. n \in Nat /\ k \in Nat /\ 1 <= k /\ k <= n
        BY FS_CardinalityType
    <1>2. amounts \subseteq Nat
        OBVIOUS
    <1>3. S # {}
        BY <1>1, FS_EmptySet
    <1>4. low # {}
        <2>1. amounts # {}
            BY <1>3
        <2>2. PICK a \in amounts : \A b \in amounts : a <= b
            <3> HIDE DEF amounts
            <3>1. QED
                BY <1>2, <2>1, Least
        <2>3. {p \in S : f[p] < a} = {}
            BY <2>2
        <2>4. Below(S, f, a) = 0
            BY <2>3, FS_EmptySet DEF Below
        <2>5. a \in low
            BY <1>1, <2>4
        <2>6. QED
            BY <2>5
    <1>5. \A a \in amounts : n - Below(S, f, a) \in Nat
        <2>1. \A a \in Nat : /\ Below(S, f, a) \in Nat /\ UpTo(S, f, a) \in Nat
                             /\ Below(S, f, a) <= UpTo(S, f, a) /\ UpTo(S, f, a) <= n
            BY Counted
        <2> HIDE DEF amounts, n
        <2>2. QED
            BY <1>1, <1>2, <2>1
    <1>6. PICK a \in low : \A b \in low : n - Below(S, f, a) <= n - Below(S, f, b)
        <2>1. ranks \subseteq Nat /\ ranks # {}
            BY <1>4, <1>5
        <2>2. PICK m \in ranks : \A rank \in ranks : m <= rank
            <3> HIDE DEF ranks
            <3>1. QED
                BY <2>1, Least
        <2>3. QED
            BY <2>2
    <1>7. a \in amounts /\ a \in Nat /\ Below(S, f, a) < k
        BY <1>2, <1>6
    <1>8. ASSUME UpTo(S, f, a) < k PROVE FALSE
        <2> DEFINE above == {b \in amounts : b > a}
        <2>1. /\ UpTo(S, f, a) \in Nat /\ Below(S, f, a) \in Nat /\ Below(S, f, a) < UpTo(S, f, a)
            BY <1>7, Counted
        <2>2. above # {}
            <3>1. ~(\A p \in S : f[p] <= a)
                <4>1. (\A p \in S : f[p] <= a) => {p \in S : f[p] <= a} = S
                    OBVIOUS
                <4>2. QED
                    BY <1>1, <1>8, <2>1, <4>1 DEF UpTo
            <3>2. PICK p \in S : ~(f[p] <= a)
                BY <3>1
            <3>3. f[p] \in above
                BY <1>7, <3>2
            <3>4. QED
                BY <3>3
        <2>3. PICK b \in above : \A c \in above : b <= c
            <3>1. above \subseteq Nat
                BY <1>2
            <3> HIDE DEF above
            <3>2. QED
                BY <2>2, <3>1, Least
        <2>4. b \in Nat /\ a < b /\ b \in amounts
            BY <1>2, <2>3
        <2>5. \A p \in S : f[p] > a => f[p] >= b
            BY <2>3, <2>4
        <2>6. UpTo(S, f, a) = Below(S, f, b)
            BY <1>7, <2>4, <2>5, Between
        <2>7. b \in low
            BY <1>8, <2>4, <2>6
        <2>8. n - Below(S, f, a) <= n - Below(S, f, b)
            BY <1>6, <2>7
        <2>9. QED
            BY <1>1, <2>1, <2>6, <2>8
    <1>9. k <= UpTo(S, f, a)
        <2>1. UpTo(S, f, a) \in Nat
            BY <1>7, Counted
        <2>2. QED
            BY <1>1, <1>8, <2>1
    <1>10. QED
        BY <1>7, <1>9 DEF AtPlace

\* The amounts at later places are no smaller.
LEMMA PlacesOrdered ==
    ASSUME NEW S, IsFiniteSet(S), NEW f, \A p \in S : f[p] \in Nat,
           NEW k \in Nat, NEW l \in Nat, k <= l,
           NEW a, AtPlace(S, f, k, a), NEW b, AtPlace(S, f, l, b)
    PROVE  a <= b
    <1>1. a \in Nat /\ b \in Nat /\ Below(S, f, a) < k /\ l <= UpTo(S, f, b)
        BY DEF AtPlace
    <1>2. Below(S, f, a) \in Nat /\ UpTo(S, f, b) \in Nat
        BY <1>1, Counted
    <1>3. b < a => UpTo(S, f, b) <= Below(S, f, a)
        BY <1>1, Between
    <1>4. QED
        BY <1>1, <1>2, <1>3

\* Where a list names a provider first.
Mention(list, p) == Min({i \in DOMAIN list : list[i] = p})

\* A sequence that names a provider names it somewhere first.
LEMMA FirstMention ==
    ASSUME NEW list \in Seq(AllProviders), NEW p, NEW k \in DOMAIN list, list[k] = p
    PROVE  /\ Mention(list, p) \in DOMAIN list /\ Mention(list, p) \in Nat /\ list[Mention(list, p)] = p
           /\ \A i \in DOMAIN list : list[i] = p => Mention(list, p) <= i
    <1> DEFINE N == {i \in DOMAIN list : list[i] = p}
    <1>1. N \subseteq Nat /\ N # {}
        BY LenProperties
    <1>2. \A i : i \in N <=> i \in DOMAIN list /\ list[i] = p
        OBVIOUS
    <1> HIDE DEF N
    <1>3. \E m \in N : \A n \in N : m <= n
        BY <1>1, Least
    <1>4. Min(N) \in N /\ \A n \in N : Min(N) <= n
        BY <1>3 DEF Min
    <1>5. Min(N) \in DOMAIN list /\ Min(N) \in Nat /\ list[Min(N)] = p /\ \A i \in DOMAIN list : list[i] = p => Min(N) <= i
        BY <1>1, <1>2, <1>4
    <1>6. QED
        BY <1>5 DEF N, Mention

\* The order has every provider with a result, those named earlier earlier.
LEMMA OrderRanks ==
    ASSUME NEW available \in SUBSET AllProviders, IsFiniteSet(available), NEW list \in Seq(AllProviders),
           \A p \in available : \E i \in DOMAIN list : list[i] = p,
           NEW order, order = ByFirstMention(available, list)
    PROVE  /\ order \in Seq(AllProviders)
           /\ \A k \in DOMAIN order : order[k] \in available
           /\ \A p \in available : \E k \in DOMAIN order : order[k] = p
           /\ \A j, k \in DOMAIN order : j <= k => Mention(list, order[j]) <= Mention(list, order[k])
    <1> DEFINE S == available
               f == [p \in S |-> Mention(list, p)]
               n == Cardinality(S)
               ranked == [k \in 1..n |-> CHOOSE p \in S : Below(S, f, f[p]) = k - 1]
    <1>1. \A p \in S : Mention(list, p) \in Nat /\ list[Mention(list, p)] = p
        BY FirstMention
    <1>2. \A p \in S : f[p] = Mention(list, p) /\ f[p] \in Nat /\ list[f[p]] = p
        BY <1>1
    <1>3. n \in Nat
        BY FS_CardinalityType
    <1>4. order = ranked
        <2>1. \A p \in S : {q \in S : Mention(list, q) < Mention(list, p)} = {q \in S : f[q] < f[p]}
            BY <1>2
        <2>2. \A p \in S : Below(S, f, f[p]) = Cardinality({q \in S : Mention(list, q) < Mention(list, p)})
            BY <2>1 DEF Below
        <2> DEFINE Named(k) == CHOOSE p \in S : Cardinality({q \in S : Mention(list, q) < Mention(list, p)}) = k - 1
                   Ranked(k) == CHOOSE p \in S : Below(S, f, f[p]) = k - 1
        <2>3. order = [k \in 1..n |-> Named(k)]
            BY DEF ByFirstMention, Mention
        <2>4. ranked = [k \in 1..n |-> Ranked(k)]
            OBVIOUS
        <2> HIDE DEF f, n, ranked
        <2>5. \A k : Named(k) = Ranked(k)
            BY <2>2
        <2> HIDE DEF Named, Ranked
        <2>6. QED
            BY <2>3, <2>4, <2>5
    <1> HIDE DEF f, n
    <1>5. ASSUME NEW p \in S
          PROVE  /\ Below(S, f, f[p]) \in Nat /\ UpTo(S, f, f[p]) = Below(S, f, f[p]) + 1
                 /\ Below(S, f, f[p]) + 1 <= n
        <2> DEFINE less == {q \in S : f[q] < f[p]}
        <2>1. IsFiniteSet(less) /\ p \notin less
            BY <1>2, FS_Subset
        <2>2. {q \in S : f[q] <= f[p]} = less \cup {p}
            BY <1>2
        <2>3. Below(S, f, f[p]) = Cardinality(less) /\ UpTo(S, f, f[p]) = Cardinality(less \cup {p})
            BY <2>2 DEF Below, UpTo
        <2> HIDE DEF less
        <2>4. UpTo(S, f, f[p]) = Below(S, f, f[p]) + 1
            BY <2>1, <2>3, FS_AddElement
        <2>5. Below(S, f, f[p]) \in Nat /\ UpTo(S, f, f[p]) <= Cardinality(S)
            BY <1>2, Counted
        <2>6. QED
            BY <2>4, <2>5 DEF n
    <1>6. ASSUME NEW k \in 1..n PROVE order[k] \in S /\ Below(S, f, f[order[k]]) = k - 1
        <2>1. PICK a : AtPlace(S, f, k, a)
            BY <1>2, EveryPlace DEF n
        <2>2. PICK p \in S : f[p] = a
            BY <2>1 DEF AtPlace
        <2>3. Below(S, f, f[p]) < k /\ k <= UpTo(S, f, f[p])
            BY <2>1, <2>2 DEF AtPlace
        <2>4. Below(S, f, f[p]) = k - 1
            BY <1>5, <2>3
        <2>5. QED
            BY <1>4, <2>4
    <1>7. DOMAIN order = 1..n
        BY <1>4
    <1> HIDE DEF ranked
    <1>8. ASSUME NEW p \in S, NEW q \in S, Below(S, f, f[p]) <= Below(S, f, f[q]) PROVE f[p] <= f[q]
        <2>1. f[q] < f[p] => UpTo(S, f, f[q]) <= Below(S, f, f[p])
            BY <1>2, Between
        <2>2. QED
            BY <1>2, <1>5, <1>8, <2>1
    <1>9. order \in Seq(AllProviders)
        <2>1. order \in [1..n -> AllProviders]
            BY <1>4, <1>6, <1>7 DEF ranked
        <2>2. QED
            BY <1>3, <2>1, IsASeq
    <1>10. ASSUME NEW p \in S PROVE \E k \in 1..n : order[k] = p
        <2> DEFINE k == Below(S, f, f[p]) + 1
        <2>1. k \in 1..n /\ Below(S, f, f[p]) = k - 1
            BY <1>3, <1>5
        <2> HIDE DEF k
        <2>2. order[k] \in S /\ Below(S, f, f[order[k]]) = Below(S, f, f[p]) /\ Below(S, f, f[p]) \in Nat
            BY <1>5, <1>6, <2>1
        <2>3. f[order[k]] <= f[p] /\ f[p] <= f[order[k]]
            BY <1>8, <2>2
        <2>4. f[order[k]] = f[p]
            BY <1>2, <2>2, <2>3
        <2>5. QED
            BY <1>2, <2>1, <2>2, <2>4
    <1>11. ASSUME NEW j \in 1..n, NEW k \in 1..n, j <= k PROVE Mention(list, order[j]) <= Mention(list, order[k])
        <2>1. Below(S, f, f[order[j]]) <= Below(S, f, f[order[k]])
            BY <1>3, <1>6, <1>11
        <2>2. f[order[j]] <= f[order[k]]
            BY <1>6, <1>8, <2>1
        <2>3. QED
            BY <1>2, <1>6, <2>2
    <1>12. QED
        <2>1. /\ order \in Seq(AllProviders)
              /\ \A k \in DOMAIN order : order[k] \in available
              /\ \A p \in available : \E k \in DOMAIN order : order[k] = p
            BY <1>6, <1>7, <1>9, <1>10
        <2>2. \A j, k \in DOMAIN order : j <= k => Mention(list, order[j]) <= Mention(list, order[k])
            BY <1>7, <1>11
        <2>3. QED
            BY <2>1, <2>2

\* The result of which the answer is chosen: the first successful one that the
\* list names, and none only if there is no success.
LEMMA SelectsFirst ==
    ASSUME NEW list \in Seq(AllProviders), NEW results, DOMAIN results \subseteq AllProviders,
           IsFiniteSet(DOMAIN results), \A p \in DOMAIN results : \E i \in DOMAIN list : list[i] = p
    PROVE  LET good == {i \in DOMAIN list : list[i] \in Successful(results)}
               chosen == Select(ByFirstMention(DOMAIN results, list), results)
           IN IF good = {} THEN chosen = NoProvider
              ELSE \E i \in good : chosen = list[i] /\ \A j \in good : i <= j
    <1> DEFINE good == {i \in DOMAIN list : list[i] \in Successful(results)}
               order == ByFirstMention(DOMAIN results, list)
               N == {i \in DOMAIN order : order[i] \in DOMAIN results /\ results[order[i]].status = "ok"}
    <1>1. /\ order \in Seq(AllProviders)
          /\ \A k \in DOMAIN order : order[k] \in DOMAIN results
          /\ \A p \in DOMAIN results : \E k \in DOMAIN order : order[k] = p
          /\ \A j, k \in DOMAIN order : j <= k => Mention(list, order[j]) <= Mention(list, order[k])
        <2>1. order = ByFirstMention(DOMAIN results, list)
            OBVIOUS
        <2> HIDE DEF order
        <2>2. QED
            BY <2>1, OrderRanks
    <1>2. Select(order, results) = IF N = {} THEN NoProvider ELSE order[Min(N)]
        BY DEF Select
    <1>3. \A p \in DOMAIN results :
            /\ Mention(list, p) \in DOMAIN list /\ Mention(list, p) \in Nat /\ list[Mention(list, p)] = p
            /\ \A i \in DOMAIN list : list[i] = p => Mention(list, p) <= i
        BY FirstMention
    <1>4. \A p : p \in Successful(results) <=> p \in DOMAIN results /\ results[p].status = "ok"
        BY DEF Successful
    <1> HIDE DEF order
    <1>5. N \subseteq Nat
        BY <1>1, LenProperties
    <1>6. \A k : k \in N <=> k \in DOMAIN order /\ order[k] \in Successful(results)
        BY <1>1, <1>4
    <1>7. DOMAIN list \subseteq Nat
        BY LenProperties
    <1> HIDE DEF N
    <1>8. CASE N # {}
        <2>1. \E m \in N : \A k \in N : m <= k
            BY <1>5, <1>8, Least
        <2>2. Min(N) \in N /\ \A k \in N : Min(N) <= k
            BY <2>1 DEF Min
        <2> DEFINE chosen == order[Min(N)]
        <2>3. chosen \in Successful(results) /\ chosen \in DOMAIN results /\ Select(order, results) = chosen
            BY <1>2, <1>4, <1>6, <1>8, <2>2
        <2>4. Mention(list, chosen) \in good /\ chosen = list[Mention(list, chosen)]
            BY <1>3, <2>3
        <2>5. ASSUME NEW j \in good PROVE Mention(list, chosen) <= j
            <3>1. list[j] \in Successful(results) /\ list[j] \in DOMAIN results /\ j \in DOMAIN list
                BY <1>4
            <3>2. PICK k \in DOMAIN order : order[k] = list[j]
                BY <1>1, <3>1
            <3>3. k \in N /\ Min(N) \in DOMAIN order
                BY <1>6, <2>2, <3>1, <3>2
            <3>4. Min(N) <= k
                BY <2>2, <3>3
            <3>5. Mention(list, chosen) <= Mention(list, list[j]) /\ Mention(list, list[j]) <= j
                BY <1>1, <1>3, <3>1, <3>2, <3>3, <3>4
            <3> HIDE DEF chosen
            <3>6. Mention(list, chosen) \in Nat /\ Mention(list, list[j]) \in Nat /\ j \in Nat
                BY <1>3, <1>7, <2>3, <3>1
            <3>7. QED
                BY <3>5, <3>6
        <2> HIDE DEF chosen
        <2>6. QED
            BY <2>3, <2>4, <2>5 DEF order
    <1>9. CASE N = {}
        <2>1. good = {}
            <3>1. ASSUME NEW j \in good PROVE FALSE
                <4>1. PICK k \in DOMAIN order : order[k] = list[j]
                    BY <1>1, <1>4
                <4>2. QED
                    BY <1>6, <1>9, <4>1
            <3>2. QED
                BY <3>1
        <2>2. QED
            BY <1>2, <1>9, <2>1 DEF order
    <1>10. QED
        BY <1>8, <1>9

\* One of the successful providers answers, if there is any, and none that the
\* request, or else the configuration, names before it.
LEMMA PreferredServed ==
    ASSUME NEW named \in Seq(AllProviders), NEW results, DOMAIN results \subseteq AllProviders,
           IsFiniteSet(DOMAIN results)
    PROVE  LET chosen == Select(ByFirstMention(DOMAIN results, named \o Alphabetical), results)
               Before(seq, p) == \E i \in DOMAIN seq : seq[i] = p /\ \A j \in DOMAIN seq : seq[j] = chosen => i < j
           IN IF chosen = NoProvider THEN Successful(results) = {}
              ELSE /\ chosen \in Successful(results)
                   /\ \A p \in Successful(results) :
                        /\ ~Before(named, p)
                        /\ ~({p, chosen} \cap ToSet(named) = {} /\ Before(Alphabetical, p))
    <1> DEFINE list == named \o Alphabetical
               chosen == Select(ByFirstMention(DOMAIN results, list), results)
               good == {i \in DOMAIN list : list[i] \in Successful(results)}
               Before(seq, p) == \E i \in DOMAIN seq : seq[i] = p /\ \A j \in DOMAIN seq : seq[j] = chosen => i < j
               m == Len(named)
    <1>1. /\ Alphabetical \in Seq(AllProviders) /\ Len(Alphabetical) = 4
          /\ AllProviders = {"curve", "defillama", "enso", "lifi"}
        BY DEF Alphabetical, AllProviders, ToSet
    <1>2. NoProvider \notin AllProviders
        BY <1>1 DEF NoProvider
    <1>3. /\ list \in Seq(AllProviders) /\ m \in Nat /\ Len(list) = m + 4
          /\ DOMAIN named = 1..m /\ DOMAIN list = 1..(m + 4) /\ DOMAIN Alphabetical = 1..4
          /\ \A i \in 1..m : list[i] = named[i] /\ named[i] \in AllProviders
          /\ \A i \in 1..4 : list[m + i] = Alphabetical[i] /\ Alphabetical[i] \in AllProviders
        <2>1. /\ list \in Seq(AllProviders) /\ Len(list) = m + 4 /\ m \in Nat
              /\ \A i \in 1..m + 4 : list[i] = IF i <= m THEN named[i] ELSE Alphabetical[i - m]
            <3>1. /\ list \in Seq(AllProviders) /\ Len(list) = m + Len(Alphabetical)
                  /\ \A i \in 1..m + Len(Alphabetical) : list[i] = IF i <= m THEN named[i] ELSE Alphabetical[i - m]
                BY <1>1, ConcatProperties, Zenon
            <3>2. m \in Nat
                BY LenProperties
            <3> HIDE DEF list, m
            <3>3. QED
                BY <1>1, <3>1, <3>2
        <2>2. DOMAIN named = 1..m /\ DOMAIN list = 1..(m + 4) /\ DOMAIN Alphabetical = 1..4
            BY <1>1, <2>1, LenProperties
        <2>3. \A i \in 1..m : i \in 1..m + 4 /\ i <= m
            BY <2>1
        <2>4. \A i \in 1..4 : m + i \in 1..m + 4 /\ ~(m + i <= m) /\ (m + i) - m = i
            BY <2>1
        <2>5. (\A i \in 1..m : named[i] \in AllProviders) /\ (\A i \in 1..4 : Alphabetical[i] \in AllProviders)
            BY <1>1, <2>2, ElementOfSeq
        <2> HIDE DEF list, m
        <2>6. QED
            BY <2>1, <2>2, <2>3, <2>4, <2>5
    <1>4. \A p \in AllProviders : \E i \in 1..4 : Alphabetical[i] = p
        BY <1>1 DEF Alphabetical
    <1>5. ToSet(named) = {named[i] : i \in 1..m}
        BY <1>3 DEF ToSet
    <1>6. IF good = {} THEN chosen = NoProvider
          ELSE \E i \in good : chosen = list[i] /\ \A j \in good : i <= j
        <2>1. list \in Seq(AllProviders)
            BY <1>3
        <2>2. \A p \in DOMAIN results : \E i \in DOMAIN list : list[i] = p
            <3> TAKE p \in DOMAIN results
            <3>1. PICK i \in 1..4 : Alphabetical[i] = p
                BY <1>4
            <3>2. m + i \in DOMAIN list /\ list[m + i] = p
                BY <1>3, <3>1
            <3>3. QED
                BY <3>2
        <2> HIDE DEF list
        <2>3. QED
            BY <2>1, <2>2, SelectsFirst
    <1>7. \A p : p \in Successful(results) <=> p \in DOMAIN results /\ results[p].status = "ok"
        BY DEF Successful
    <1>8. \A i : i \in good <=> i \in 1..(m + 4) /\ list[i] \in Successful(results)
        BY <1>3, <1>7
    <1> HIDE DEF list, chosen, good, m, Alphabetical, AllProviders
    <1>9. ASSUME NEW p \in Successful(results) PROVE \E i \in 1..4 : m + i \in good /\ Alphabetical[i] = p
        <2>1. PICK i \in 1..4 : Alphabetical[i] = p
            BY <1>4, <1>7
        <2>2. m + i \in good
            <3>1. list[m + i] = p /\ m + i \in 1..(m + 4)
                BY <1>3, <2>1
            <3>2. QED
                BY <1>8, <3>1
        <2>3. QED
            BY <2>1, <2>2
    <1>10. CASE good = {}
        BY <1>6, <1>9, <1>10 DEF chosen, list
    <1>11. CASE good # {}
        <2>1. PICK first \in good : chosen = list[first] /\ \A j \in good : first <= j
            BY <1>6, <1>11
        <2>2. chosen \in Successful(results) /\ first \in 1..(m + 4)
            BY <1>8, <2>1
        <2>3. chosen # NoProvider
            BY <1>2, <1>7, <2>2
        <2>4. ASSUME NEW p \in Successful(results), Before(named, p) PROVE FALSE
            <3>1. PICK i \in 1..m : named[i] = p /\ \A j \in 1..m : named[j] = chosen => i < j
                BY <1>3, <2>4
            <3>2. i \in good
                BY <1>3, <1>8, <3>1
            <3>3. first <= i
                BY <2>1, <3>2
            <3>4. first \in 1..m /\ named[first] = chosen
                BY <1>3, <2>1, <2>2, <3>3
            <3>5. QED
                BY <1>3, <3>1, <3>3, <3>4
        <2>5. ASSUME NEW p \in Successful(results), chosen \notin ToSet(named), Before(Alphabetical, p) PROVE FALSE
            <3>1. PICK i \in 1..4 : Alphabetical[i] = p /\ \A j \in 1..4 : Alphabetical[j] = chosen => i < j
                BY <1>3, <2>5
            <3>2. m + i \in good
                <4>1. list[m + i] = p /\ m + i \in 1..(m + 4)
                    BY <1>3, <3>1
                <4>2. QED
                    BY <1>8, <4>1
            <3>3. first <= m + i
                BY <2>1, <3>2
            <3>4. first \notin 1..m
                BY <1>3, <1>5, <2>1, <2>5
            <3>5. PICK k \in 1..4 : first = m + k
                <4>1. first - m \in 1..4 /\ first = m + (first - m)
                    BY <1>3, <2>2, <3>4
                <4>2. QED
                    BY <4>1
            <3>6. Alphabetical[k] = chosen
                BY <1>3, <2>1, <3>5
            <3>7. i < k
                BY <3>1, <3>6
            <3>8. QED
                BY <1>3, <3>3, <3>5, <3>7
        <2>6. QED
            BY <2>2, <2>3, <2>4, <2>5 DEF chosen, list
    <1>12. QED
        BY <1>10, <1>11

\* The summary of results whose successful amounts are natural numbers.
LEMMA SummaryHalves ==
    ASSUME NEW results, IsFiniteSet(DOMAIN results), \A p \in Successful(results) : results[p].amount \in Nat,
           Successful(results) # {}
    PROVE  LET summary == BuildSummary(results)
               good == Successful(results)
           IN /\ summary.low <= summary.median /\ summary.median <= summary.high
              /\ 2 * Cardinality({p \in good : results[p].amount <= summary.median}) >= Cardinality(good)
              /\ 2 * Cardinality({p \in good : results[p].amount >= summary.median}) >= Cardinality(good)
    <1> DEFINE S == Successful(results)
               f == [p \in S |-> results[p].amount]
               n == Cardinality(S)
               At(k) == AmountAt(results, k)
               h == n \div 2
               median == IF n % 2 = 1 THEN At(h + 1) ELSE (At(h) + At(h + 1)) \div 2
               NoMore(a) == Cardinality({p \in S : f[p] <= a})
               NoLess(a) == Cardinality({p \in S : f[p] >= a})
    <1>1. IsFiniteSet(S)
        <2>1. S \subseteq DOMAIN results
            BY DEF Successful
        <2>2. QED
            BY <2>1, FS_Subset
    <1>2. n \in Nat /\ n # 0
        BY <1>1, FS_CardinalityType, FS_EmptySet
    <1>3. \A p \in S : f[p] = results[p].amount /\ f[p] \in Nat
        OBVIOUS
    <1>4. \A a : /\ {p \in S : results[p].amount < a} = {p \in S : f[p] < a}
                 /\ {p \in S : results[p].amount <= a} = {p \in S : f[p] <= a}
                 /\ {p \in S : results[p].amount >= a} = {p \in S : f[p] >= a}
        BY <1>3
    <1>5. {results[p].amount : p \in S} = {f[p] : p \in S}
        BY <1>3
    <1>6. \A k : At(k) = CHOOSE a \in {f[p] : p \in S} : Below(S, f, a) < k /\ k <= UpTo(S, f, a)
        BY <1>4, <1>5 DEF AmountAt, Below, UpTo
    <1>7. /\ BuildSummary(results).low = At(1) /\ BuildSummary(results).high = At(n)
          /\ BuildSummary(results).median = median
        BY <1>2 DEF BuildSummary
    <1> HIDE DEF S, f, n, At
    <1>8. ASSUME NEW k \in 1..n PROVE AtPlace(S, f, k, At(k))
        <2>1. \E a : AtPlace(S, f, k, a)
            BY <1>1, <1>3, EveryPlace DEF n
        <2>2. \E a \in {f[p] : p \in S} : Below(S, f, a) < k /\ k <= UpTo(S, f, a)
            BY <2>1 DEF AtPlace
        <2>3. At(k) \in {f[p] : p \in S} /\ Below(S, f, At(k)) < k /\ k <= UpTo(S, f, At(k))
            BY <1>6, <2>2, Zenon
        <2>4. QED
            BY <2>3 DEF AtPlace
    <1>9. \A k \in 1..n : At(k) \in Nat
        BY <1>3, <1>8 DEF AtPlace
    <1>10. ASSUME NEW k \in 1..n, NEW l \in 1..n, k <= l PROVE At(k) <= At(l)
        <2>1. AtPlace(S, f, k, At(k)) /\ AtPlace(S, f, l, At(l)) /\ k \in Nat /\ l \in Nat
            BY <1>8
        <2>2. QED
            BY <1>1, <1>3, <1>10, <2>1, PlacesOrdered
    <1>11. ASSUME NEW k \in 1..n
           PROVE  /\ NoMore(At(k)) >= k /\ NoMore(At(k)) \in Nat
                  /\ NoLess(At(k)) >= n + 1 - k /\ NoLess(At(k)) \in Nat
        <2>1. Below(S, f, At(k)) < k /\ k <= UpTo(S, f, At(k))
            BY <1>8 DEF AtPlace
        <2>2. /\ UpTo(S, f, At(k)) \in Nat /\ Below(S, f, At(k)) \in Nat
              /\ NoLess(At(k)) = n - Below(S, f, At(k))
            BY <1>1, <1>3, <1>9, Counted DEF n
        <2>3. NoMore(At(k)) = UpTo(S, f, At(k))
            BY DEF UpTo
        <2>4. NoMore(At(k)) >= k /\ NoMore(At(k)) \in Nat
            BY <2>1, <2>2, <2>3
        <2>5. NoLess(At(k)) >= n + 1 - k /\ NoLess(At(k)) \in Nat
            <3>1. Below(S, f, At(k)) <= UpTo(S, f, At(k)) /\ UpTo(S, f, At(k)) <= Cardinality(S)
                BY <1>1, <1>3, <1>9, Counted
            <3>2. Below(S, f, At(k)) <= n
                BY <1>2, <2>2, <3>1 DEF n
            <3> HIDE DEF NoLess
            <3>3. QED
                BY <1>2, <2>1, <2>2, <3>2
        <2>6. QED
            BY <2>4, <2>5
    <1>12. ASSUME NEW a \in Nat, NEW b \in Nat, a <= b
           PROVE  /\ NoMore(a) <= NoMore(b) /\ NoLess(b) <= NoLess(a)
                  /\ NoMore(b) \in Nat /\ NoLess(a) \in Nat
        <2>1. /\ {p \in S : f[p] <= a} \subseteq {p \in S : f[p] <= b}
              /\ {p \in S : f[p] >= b} \subseteq {p \in S : f[p] >= a}
            BY <1>3, <1>12
        <2>2. IsFiniteSet({p \in S : f[p] <= b}) /\ IsFiniteSet({p \in S : f[p] >= a})
            BY <1>1, FS_Subset
        <2>3. QED
            BY <2>1, <2>2, FS_Subset, FS_CardinalityType
    <1> HIDE DEF NoMore, NoLess
    <1>13. /\ At(1) <= median /\ median <= At(n)
           /\ 2 * NoMore(median) >= n /\ 2 * NoLess(median) >= n
        <2>1. CASE n % 2 = 1
            <3>1. h + 1 \in 1..n /\ n = 2 * h + 1 /\ h \in Nat /\ 1 \in 1..n /\ n \in 1..n
                BY <1>2, <2>1
            <3>2. median = At(h + 1)
                BY <2>1
            <3> HIDE DEF h, median
            <3>3. /\ NoMore(median) >= h + 1 /\ NoMore(median) \in Nat
                  /\ NoLess(median) >= n + 1 - (h + 1) /\ NoLess(median) \in Nat
                BY <1>11, <3>1, <3>2
            <3>4. At(1) <= median /\ median <= At(n)
                BY <1>2, <1>10, <3>1, <3>2
            <3>5. QED
                BY <1>2, <3>1, <3>3, <3>4
        <2>2. CASE n % 2 # 1
            <3>1. /\ h \in 1..n /\ h + 1 \in 1..n /\ n = 2 * h /\ h \in Nat
                  /\ 1 \in 1..n /\ n \in 1..n
                BY <1>2, <2>2
            <3> DEFINE x == At(h)
                       y == At(h + 1)
            <3>2. median = (x + y) \div 2
                BY <2>2
            <3> HIDE DEF h, median
            <3>3. x \in Nat /\ y \in Nat /\ x <= y /\ At(1) <= x /\ y <= At(n) /\ At(1) \in Nat /\ At(n) \in Nat
                BY <1>2, <1>9, <1>10, <3>1
            <3>4. NoMore(x) >= h /\ NoLess(y) >= n + 1 - (h + 1) /\ NoMore(x) \in Nat /\ NoLess(y) \in Nat
                BY <1>11, <3>1
            <3> HIDE DEF x, y
            <3>5. median \in Nat /\ x <= median /\ median <= y
                BY <3>2, <3>3
            <3>6. /\ NoMore(x) <= NoMore(median) /\ NoLess(y) <= NoLess(median)
                  /\ NoMore(median) \in Nat /\ NoLess(median) \in Nat
                BY <1>12, <3>3, <3>5
            <3>7. QED
                BY <1>2, <3>1, <3>3, <3>4, <3>5, <3>6
        <2>3. QED
            BY <2>1, <2>2
    <1> HIDE DEF median
    <1>14. QED
        BY <1>4, <1>7, <1>13 DEF NoMore, NoLess, n, S

\* What each provider's report is turned into: a success just where its answer
\* can be used, with its amounts in the units of the caller.
LEMMA AnswersConverted ==
    ASSUME NEW s \in Slots, AskInv(s), s.ask.operation # "token", s.results = Converted(s.ask.operation, OutVault(s), s.reported),
           \A p \in DOMAIN s.reported : Sound(s.ask.operation, s.reported[p]),
           NEW p \in DOMAIN s.reported
    PROVE  LET v == OutVault(s)
               answer == s.results[p]
               said == s.reported[p]
           IN /\ (answer.status = "ok") <=> Usable(s, p)
              /\ answer.status = "ok" =>
                    /\ answer.amount \in Nat
                    /\ IF s.ask.operation = "price"
                       THEN v # NoToken => answer.amount * Vaults[v].assetUnit = said.amount * Vaults[v].rate
                       ELSE /\ answer.amount \in 1..MaxUint /\ answer.min \in NoValue..answer.amount
                            /\ (answer.min = NoValue) = (said.min = NoValue)
                            /\ v # NoToken =>
                                /\ WorthAtMost(v, answer.amount, said.amount)
                                /\ said.min # NoValue => WorthAtMost(v, answer.min, said.min)
    <1> DEFINE v == OutVault(s)
               operation == s.ask.operation
               answer == s.results[p]
               said == s.reported[p]
    <1>1. operation \in Operations /\ s.reported \in Reports
        BY DEF Slots, AskRecords, AskInv, Operations
    <1>2. said \in Results /\ Answer(operation, said)
        BY <1>1, ReportRange DEF Answer
    <1>3. v \in DOMAIN Vaults \cup {NoToken}
        <2>1. s.vaults \in Seq(DOMAIN Vaults \cup {NoToken}) /\ Len(s.vaults) \in {1, 2}
            BY DEF Slots, AskInv
        <2> DEFINE n == Len(s.vaults)
        <2>2. n \in 1..n
            <3> HIDE DEF n
            <3>1. n = 1 \/ n = 2
                BY <2>1 DEF n
            <3>2. QED
                BY <3>1
        <2>3. QED
            BY <2>1, <2>2, ElementOfSeq DEF OutVault
    <1>4. answer = CASE v = NoToken -> said
                     [] v # NoToken /\ operation = "price" -> ApplyPriceContext(v, said)
                     [] OTHER -> ApplyQuoteResolution(v, said)
        BY DEF Converted
    <1>5. Usable(s, p) <=>
            /\ said.status = "ok"
            /\ operation = "quote" /\ v # NoToken => \E n \in 1..MaxUint : WorthAtMost(v, n, said.amount)
        BY DEF Usable
    <1> HIDE DEF v, operation, answer, said
    <1>6. CASE v = NoToken
        <2>1. answer = said
            BY <1>4, <1>6
        <2>2. said.status = "ok" =>
                IF operation = "price" THEN \E k \in Nat : said.amount = PriceScale * k
                ELSE said.amount \in 1..MaxUint /\ said.min \in NoValue..said.amount
            BY <1>2 DEF Answer, Sound
        <2>3. said.status = "ok" => said.amount \in Nat
            BY <2>2, Constants
        <2>4. QED
            BY <1>5, <1>6, <2>1, <2>2, <2>3 DEF v, operation, answer, said
    <1>7. CASE v # NoToken /\ operation = "price"
        <2>1. v \in DOMAIN Vaults /\ Answer("price", said)
            BY <1>2, <1>3, <1>7
        <2>2. answer = ApplyPriceContext(v, said)
            BY <1>4, <1>7
        <2>3. /\ answer.status = said.status
              /\ said.status = "ok" =>
                    answer.amount \in Nat /\ answer.amount * Vaults[v].assetUnit = said.amount * Vaults[v].rate
            BY <2>1, <2>2, PriceConverted
        <2>4. QED
            BY <1>5, <1>7, <2>3 DEF v, operation, answer, said
    <1>8. CASE v # NoToken /\ operation = "quote"
        <2>1. v \in DOMAIN Vaults /\ Answer("quote", said)
            BY <1>2, <1>3, <1>8
        <2>2. answer = ApplyQuoteResolution(v, said)
            BY <1>4, <1>8
        <2>3. /\ answer.status = "ok" <=>
                    said.status = "ok" /\ \E n \in 1..MaxUint : WorthAtMost(v, n, said.amount)
              /\ answer.status = "ok" =>
                    /\ answer.amount \in 1..MaxUint /\ answer.min \in NoValue..answer.amount
                    /\ (answer.min = NoValue) = (said.min = NoValue)
                    /\ WorthAtMost(v, answer.amount, said.amount)
                    /\ said.min # NoValue => WorthAtMost(v, answer.min, said.min)
            BY <2>1, <2>2, QuoteConverted
        <2>4. answer.status = "ok" => answer.amount \in Nat
            BY <2>3, Constants
        <2>5. QED
            BY <1>5, <1>8, <2>3, <2>4 DEF v, operation, answer, said
    <1>9. QED
        BY <1>1, <1>6, <1>7, <1>8 DEF Operations

\* The answer to a price or a quote: the preferred usable one, in the caller's
\* units, with a fair summary, however many of the providers fail.
THEOREM AnswersRight == Spec => []AnswerRight
    <1>1. ASSUME IInv, NEW r \in Requests, slot[r].results # <<>>
          PROVE  CallersFirstServed(slot[r]) /\ InCallersUnits(slot[r]) /\ SummaryFair(slot[r])
        <2> DEFINE s == slot[r]
                   good == Successful(s.results)
                   named == IF s.ask.providers # <<>> THEN s.ask.providers ELSE Priority[s.ask.operation]
        <2>1. s \in Slots /\ SlotInv(s) /\ s.results # <<>>
            BY <1>1, SlotFacts
        <2> HIDE DEF s
        <2>2. s.pc # "idle"
            BY <2>1 DEF SlotInv, Idle
        <2>3. AskInv(s) /\ TableInv(s)
            BY <2>1, <2>2 DEF SlotInv
        <2>4. s.ask.operation # "token" /\ ResultsInv(s)
            BY <2>1, <2>3 DEF TableInv
        <2>5. s.ask \in AskRecords /\ s.ask.operation \in Operations
            BY <2>1, <2>3, <2>4 DEF Slots, AskRecords, AskInv, Operations
        <2>6. /\ DOMAIN s.results = Resolve(s.ask) /\ Resolve(s.ask) \subseteq AllProviders
              /\ IsFiniteSet(DOMAIN s.results)
            <3>1. DOMAIN s.results = Resolve(s.ask) /\ Resolve(s.ask) \subseteq AllProviders
                BY <2>4, <2>5, ResolveTyped DEF ResultsInv, Converted
            <3>2. QED
                BY <3>1, FiniteProviders, FS_Subset
        <2>7. /\ \A p : p \in good <=> Usable(s, p)
              /\ \A p \in good : s.results[p].amount \in Nat
              /\ InCallersUnits(s)
            <3>1. \A p : p \in good <=> p \in DOMAIN s.results /\ s.results[p].status = "ok"
                BY DEF Successful
            <3>2. s.ask.operation = "quote" /\ s.vaults[1] # NoToken =>
                    s.amount * Vaults[s.vaults[1]].shareUnit <= s.ask.amount * Vaults[s.vaults[1]].rate
                BY <2>3 DEF AskInv
            <3> HIDE DEF good
            <3>3. CASE s.reported = <<>> /\ \A p \in DOMAIN s.results : s.results[p].status # "ok"
                <4>1. \A p : ~Usable(s, p)
                    BY <3>3 DEF Usable
                <4>2. QED
                    BY <3>1, <3>2, <3>3, <4>1 DEF InCallersUnits
            <3>4. CASE /\ \A p \in DOMAIN s.reported : Sound(s.ask.operation, s.reported[p])
                       /\ s.results = Converted(s.ask.operation, OutVault(s), s.reported)
                <4>1. DOMAIN s.results = DOMAIN s.reported
                    BY <3>4 DEF Converted
                <4>2. ASSUME NEW p \in DOMAIN s.reported
                      PROVE  /\ (s.results[p].status = "ok") <=> Usable(s, p)
                             /\ s.results[p].status = "ok" => s.results[p].amount \in Nat
                    BY <2>1, <2>3, <2>4, <3>4, AnswersConverted
                <4>3. \A p : Usable(s, p) => p \in DOMAIN s.reported
                    BY DEF Usable
                <4>4. InCallersUnits(s)
                    BY <2>1, <2>3, <2>4, <3>2, <3>4, <4>1, AnswersConverted DEF InCallersUnits
                <4>5. QED
                    BY <3>1, <4>1, <4>2, <4>3, <4>4
            <3>5. QED
                BY <2>4, <3>3, <3>4 DEF ResultsInv
        <2>8. CallersFirstServed(s)
            <3> DEFINE order == ByFirstMention(DOMAIN s.results, named \o Alphabetical)
                       chosen == Select(order, s.results)
                       Before(seq, p) == \E i \in DOMAIN seq : seq[i] = p /\ \A j \in DOMAIN seq : seq[j] = chosen => i < j
            <3>1. named \in Seq(AllProviders)
                BY <2>5, RequestAssumption DEF RequestAssumption, AskRecords
            <3>2. BuildProviderOrder(DOMAIN s.results, s.ask.providers, Priority[s.ask.operation]) = order
                BY DEF BuildProviderOrder
            <3>3. IF chosen = NoProvider THEN good = {}
                  ELSE /\ chosen \in good
                       /\ \A p \in good :
                            /\ ~Before(named, p)
                            /\ ~({p, chosen} \cap ToSet(named) = {} /\ Before(Alphabetical, p))
                <4> HIDE DEF named
                <4>1. QED
                    BY <2>6, <3>1, PreferredServed
            <3>4. \A p : Prefers(s.ask, p, chosen) <=>
                    Before(named, p) \/ ({p, chosen} \cap ToSet(named) = {} /\ Before(Alphabetical, p))
                BY DEF Prefers
            <3> HIDE DEF chosen, Before, good, named
            <3>5. QED
                BY <2>7, <3>2, <3>3, <3>4 DEF CallersFirstServed, chosen
        <2>9. SummaryFair(s)
            <3>1. /\ BuildSummary(s.results).requested = Cardinality(Resolve(s.ask))
                  /\ BuildSummary(s.results).successful = Cardinality(good)
                  /\ BuildSummary(s.results).failed
                        = BuildSummary(s.results).requested - BuildSummary(s.results).successful
                BY <2>6 DEF BuildSummary
            <3>2. good # {} =>
                    /\ BuildSummary(s.results).low <= BuildSummary(s.results).median
                    /\ BuildSummary(s.results).median <= BuildSummary(s.results).high
                    /\ 2 * Cardinality({p \in good : s.results[p].amount <= BuildSummary(s.results).median})
                            >= Cardinality(good)
                    /\ 2 * Cardinality({p \in good : s.results[p].amount >= BuildSummary(s.results).median})
                            >= Cardinality(good)
                BY <2>6, <2>7, SummaryHalves
            <3>3. QED
                BY <3>1, <3>2 DEF SummaryFair
        <2>10. QED
            BY <2>7, <2>8, <2>9 DEF s
    <1>2. IInv => AnswerRight
        BY <1>1 DEF AnswerRight
    <1>3. QED
        BY <1>2, Invariance, PTL

=============================================================================
