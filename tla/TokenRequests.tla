---------------------------- MODULE TokenRequests ----------------------------
(***************************************************************************)
(* /v1/price, /v1/quote and /v1/token from the arrival of a request to its  *)
(* answer: the routes, AggregatorService over the registry, the runner's    *)
(* results and the conversion through a vault, the selection of the answer  *)
(* and its summary, and the resolution of token metadata over the table     *)
(* that all requests share.                                                 *)
(*                                                                          *)
(* A request works alone until it comes to the table: how the runner and    *)
(* the vault resolver get at their results is in ProviderRunner and         *)
(* VaultResolution, and any outcome of theirs may happen here.  What an     *)
(* answer says about the providers is settled when they have all ended; the *)
(* results are kept until the table is read.  Requests are for a chain that *)
(* is enabled.                                                              *)
(***************************************************************************)
EXTENDS ProviderReplies, FiniteSets, SequencesExt

CONSTANTS
    Requests,    \* slots for requests that run at the same time
    Tokens,
    Natives,     \* the aliases of the native token
    Remap,       \* _REMAP_TABLE: the tokens that stand for another one
    Enabled,     \* providers_enabled
    Unavailable, \* those without their API key
    Elsewhere,   \* those that do not support the chain
    Priority,    \* price_provider_priority and quote_provider_priority
    Vaults,      \* the vaults: asset, rate, shareUnit and assetUnit
    Truth,       \* the metadata on the chain
    Asks,        \* what each slot may be asked for
    Ends         \* how the call of a provider may end, for each operation

Alphabetical == <<"curve", "defillama", "enso", "lifi">>
AllProviders == ToSet(Alphabetical)
Operations == {"price", "quote"}
NoToken == "no token"
NoProvider == "no provider"

ASSUME RequestAssumption ==
    /\ IsFiniteSet(Requests)
    /\ NoToken \notin Tokens
    /\ Natives \subseteq Tokens
    /\ DOMAIN Remap \subseteq Tokens
    /\ \A t \in DOMAIN Remap : Remap[t] \in Tokens \ DOMAIN Remap
    /\ Enabled \subseteq AllProviders
    /\ \A op \in Operations : Priority[op] \in Seq(AllProviders)
    /\ Truth \in [Tokens -> Metadata]
    /\ DOMAIN Vaults \subseteq Tokens
    /\ \A v \in DOMAIN Vaults :
        /\ Vaults[v].asset \in Tokens \ Natives \* a contract, it told its decimals
        /\ {Vaults[v].rate, Vaults[v].shareUnit, Vaults[v].assetUnit} \subseteq Nat \ {0}
        /\ PriceScale % Vaults[v].assetUnit = 0

\* A request names no provider (<<>>), or some of them in its own order.
ASSUME AskAssumption ==
    \A r \in Requests : \A ask \in Asks[r] :
        /\ ask \in [operation: Operations \cup {"token"}, tokens: Seq(Tokens), amount: 1..MaxUint,
                    providers: Seq(AllProviders), useUnderlying: BOOLEAN]
        /\ Len(ask.tokens) = IF ask.operation = "quote" THEN 2 ELSE 1

ASSUME EndAssumption ==
    \A op \in Operations : \A call \in Ends[op] :
        call.body \in Bodies /\ call.retryAfter.value \in Int

VARIABLES
    stored,   \* the table token_metadata
    enrolled, \* the tokens with a row in token_logos
    slot      \* what each request has come to

vars == <<stored, enrolled, slot>>

NoRow == [symbol |-> "", decimals |-> -2]
NoAsk == [operation |-> "none", tokens |-> <<>>, amount |-> 0, providers |-> <<>>, useUnderlying |-> FALSE]
Idle ==
    [pc |-> "idle", ask |-> NoAsk, tokens |-> <<>>, amount |-> 0, vaults |-> <<>>,
     reported |-> <<>>, results |-> <<>>, read |-> <<>>, merged |-> <<>>]

Init ==
    /\ stored = [t \in Tokens |-> NoRow]
    /\ enrolled = {}
    /\ slot = [r \in Requests |-> Idle]

Goto(r, pc) == slot' = [slot EXCEPT ![r].pc = pc]
Ends500(r) == slot' = [slot EXCEPT ![r] = Idle]

(***************************************************************************)
(* Which providers are asked, and in which order their answers count.       *)
(***************************************************************************)
\* Mutant: the token of the request, whatever it stands for.
AsNamed(token) == token

Canonical(token) == IF token \in DOMAIN Remap THEN Remap[token] ELSE token

Resolve(ask) ==
    IF ask.providers # <<>> THEN ToSet(ask.providers)
    ELSE {p \in Enabled \ (Unavailable \cup Elsewhere) : Supports(p, ask.operation)}

StaticRejection(p, operation) ==
    CASE p \in Elsewhere -> "UNSUPPORTED_CHAIN"
      [] p \notin Elsewhere /\ ~Supports(p, operation) -> "UNSUPPORTED_OPERATION"
      [] p \notin Elsewhere /\ Supports(p, operation) /\ p \in Unavailable -> "UNAVAILABLE"
      [] OTHER -> "none"

\* Those with a result, each at the place where the list names it first.
ByFirstMention(available, list) ==
    LET First(p) == Min({i \in DOMAIN list : list[i] = p})
        Before(p) == {q \in available : First(q) < First(p)}
    IN [k \in 1..Cardinality(available) |-> CHOOSE p \in available : Cardinality(Before(p)) = k - 1]

\* Mutant: the configured priority comes before the request's own order.
ConfiguredOrder(available, requested, priority) == ByFirstMention(available, priority \o Alphabetical)

BuildProviderOrder(available, requested, priority) ==
    ByFirstMention(available, (IF requested # <<>> THEN requested ELSE priority) \o Alphabetical)

\* Mutant: whoever has a result, successful or not.
SelectFirstOf(order, results) ==
    LET good == {i \in DOMAIN order : order[i] \in DOMAIN results}
    IN IF good = {} THEN NoProvider ELSE order[Min(good)]

Select(order, results) ==
    LET good == {i \in DOMAIN order : order[i] \in DOMAIN results /\ results[order[i]].status = "ok"}
    IN IF good = {} THEN NoProvider ELSE order[Min(good)]

\* sort_price_results and sort_quote_results: successes first, then by name.
Rank(results, p) ==
    (CHOOSE i \in DOMAIN Alphabetical : Alphabetical[i] = p)
        + IF results[p].status = "ok" THEN 0 ELSE Len(Alphabetical)

Successful(results) == {p \in DOMAIN results : results[p].status = "ok"}

\* The one at place k of the sorted amounts.
AmountAt(results, k) ==
    CHOOSE a \in {results[p].amount : p \in Successful(results)} :
        /\ Cardinality({p \in Successful(results) : results[p].amount < a}) < k
        /\ k <= Cardinality({p \in Successful(results) : results[p].amount <= a})

\* Mutant: the median is halfway between the lowest and the highest.
SummaryByRange(results) ==
    LET n == Cardinality(Successful(results))
        low == IF n = 0 THEN NoValue ELSE AmountAt(results, 1)
        high == IF n = 0 THEN NoValue ELSE AmountAt(results, n)
    IN [requested |-> Cardinality(DOMAIN results), successful |-> n,
        failed |-> Cardinality(DOMAIN results) - n,
        low |-> low, high |-> high, median |-> (low + high) \div 2]

BuildSummary(results) ==
    LET n == Cardinality(Successful(results))
        Place(k) == AmountAt(results, k)
    IN [requested |-> Cardinality(DOMAIN results), successful |-> n,
        failed |-> Cardinality(DOMAIN results) - n,
        low |-> IF n = 0 THEN NoValue ELSE Place(1),
        high |-> IF n = 0 THEN NoValue ELSE Place(n),
        median |-> IF n = 0 THEN NoValue
                   ELSE IF n % 2 = 1 THEN Place(n \div 2 + 1)
                   ELSE (Place(n \div 2) + Place(n \div 2 + 1)) \div 2]

(***************************************************************************)
(* Through a vault and back.                                                *)
(***************************************************************************)
ToAssets(v, shares) == (shares * Vaults[v].rate) \div Vaults[v].shareUnit
ToShares(v, assets) == (assets * Vaults[v].shareUnit) \div Vaults[v].rate

ApplyPriceContext(v, result) ==
    IF result.status = "ok"
    THEN [result EXCEPT !.amount = (@ \div Vaults[v].assetUnit) * Vaults[v].rate] ELSE result

\* The metadata of the tokens is kept.
ConversionFailure(result) == [Failure("error", "INVALID_VAULT_CONVERSION") EXCEPT !.meta = result.meta]

\* Mutant: a minimum that was reported is left as it is.
ConvertAmountOnly(v, result) ==
    LET amount == ToShares(v, result.amount)
    IN IF result.status # "ok" THEN result
       ELSE IF amount \notin 1..MaxUint THEN ConversionFailure(result)
       ELSE [result EXCEPT !.amount = amount]

\* Mutant: an amount that rounds down to nothing is let through.
ConvertToZero(v, result) ==
    LET amount == ToShares(v, result.amount)
        min == IF result.min = NoValue THEN NoValue ELSE ToShares(v, result.min)
    IN CASE result.status # "ok" -> result
         [] result.status = "ok" /\ (amount \notin 0..MaxUint \/ min > amount) -> ConversionFailure(result)
         [] OTHER -> [result EXCEPT !.amount = amount, !.min = min]

ApplyQuoteResolution(v, result) ==
    LET amount == ToShares(v, result.amount)
        min == IF result.min = NoValue THEN NoValue ELSE ToShares(v, result.min)
    IN CASE result.status # "ok" -> result
         [] result.status = "ok" /\ (amount \notin 1..MaxUint \/ min > amount) -> ConversionFailure(result)
         [] OTHER -> [result EXCEPT !.amount = amount, !.min = min]

\* What the results of the providers become; v is the vault of the price's
\* token or of the quote's output token.
Converted(operation, v, results) ==
    [p \in DOMAIN results |->
        CASE v = NoToken -> results[p]
          [] v # NoToken /\ operation = "price" -> ApplyPriceContext(v, results[p])
          [] OTHER -> ApplyQuoteResolution(v, results[p])]

OutVault(s) == s.vaults[Len(s.vaults)]

(***************************************************************************)
(* A request comes.  One that is refused with 400, because it names a       *)
(* provider that is not enabled or none is left, leaves nothing behind.     *)
(***************************************************************************)
Arrive(r) ==
    /\ slot[r].pc = "idle"
    /\ \E ask \in Asks[r] :
        LET tokens == [i \in DOMAIN ask.tokens |-> Canonical(ask.tokens[i])] IN
        /\ ask.operation # "token" => Resolve(ask) # {} /\ Resolve(ask) \subseteq Enabled
        /\ slot' = [slot EXCEPT ![r] =
            [Idle EXCEPT !.ask = ask, !.tokens = tokens, !.amount = ask.amount,
                !.vaults = [i \in DOMAIN tokens |-> NoToken],
                !.pc = CASE ask.operation = "token" -> "reading"
                         [] ask.operation # "token" /\ ask.useUnderlying -> "resolving"
                         [] OTHER -> "calling"]]
    /\ UNCHANGED <<stored, enrolled>>

\* VaultUnderlyingService: the request goes on with the assets of its vaults,
\* or unchanged when it has none.
ResolveVaults(r) ==
    LET s == slot[r]
        VaultOf(t) == IF t \in DOMAIN Vaults THEN t ELSE NoToken
    IN
    /\ s.pc = "resolving"
    /\ slot' = [slot EXCEPT ![r] = [s EXCEPT
            !.pc = "calling",
            !.tokens = [i \in DOMAIN @ |-> IF @[i] \in DOMAIN Vaults THEN Vaults[@[i]].asset ELSE @[i]],
            !.vaults = [i \in DOMAIN @ |-> VaultOf(s.tokens[i])],
            !.amount = IF s.ask.operation = "quote" /\ s.tokens[1] \in DOMAIN Vaults
                       THEN ToAssets(s.tokens[1], @) ELSE @]]
    /\ UNCHANGED <<stored, enrolled>>

\* No provider is called when the resolution fails, for whatever reason.
ResolutionFails(r) ==
    LET results == [p \in Resolve(slot[r].ask) |-> Failure("error", "VAULT_RESOLUTION_FAILED")] IN
    /\ slot[r].pc = "resolving"
    /\ slot' = [slot EXCEPT ![r].pc = "reading", ![r].results = results]
    /\ UNCHANGED <<stored, enrolled>>

\* Every selected provider has a result, and the results are converted.
Collect(r) ==
    LET s == slot[r]
        operation == s.ask.operation
        runnable == {p \in Resolve(s.ask) : StaticRejection(p, operation) = "none"}
    IN
    /\ s.pc = "calling"
    /\ operation = "quote" => s.amount <= MaxUint
    /\ \E ends \in [runnable -> Ends[operation]] :
        LET reported == [p \in Resolve(s.ask) |->
                CASE p \notin runnable -> Skipped(StaticRejection(p, operation))
                  [] p \in runnable /\ ends[p].end \in {"deadline", "not admitted"} -> Skipped(ends[p].end)
                  [] OTHER -> PluginResult(p, operation, ends[p])]
        IN slot' = [slot EXCEPT ![r] = [s EXCEPT !.pc = "reading", !.reported = reported,
                        !.results = Converted(operation, OutVault(s), reported)]]
    /\ UNCHANGED <<stored, enrolled>>

\* The service is at its limit; or the assets of the shares asked for do not
\* fit the validated amount_in of any result and the request ends with 500.
CallsFail(r) ==
    /\ slot[r].pc = "calling"
    /\ Ends500(r)
    /\ UNCHANGED <<stored, enrolled>>

(***************************************************************************)
(* Token metadata.                                                          *)
(***************************************************************************)
PickFirst(a, b, none) == IF a # none THEN a ELSE b

NativeMeta(token) == IF token \in Natives THEN [symbol |-> "native", decimals |-> 18] ELSE NoMeta

\* Mutant: what was just learnt goes before what was known.
MergeLatest(token, cached, hint) ==
    LET either == [symbol |-> PickFirst(hint.symbol, cached.symbol, ""),
                   decimals |-> IF hint.decimals >= 0 THEN hint.decimals ELSE cached.decimals]
        native == NativeMeta(token)
    IN [symbol |-> PickFirst(either.symbol, native.symbol, ""),
        decimals |-> IF either.decimals >= 0 THEN either.decimals ELSE native.decimals]

MergeMetadata(token, cached, hint) ==
    LET either == [symbol |-> PickFirst(cached.symbol, hint.symbol, ""),
                   decimals |-> IF cached.decimals >= 0 THEN cached.decimals ELSE hint.decimals]
        native == NativeMeta(token)
    IN [symbol |-> PickFirst(either.symbol, native.symbol, ""),
        decimals |-> IF either.decimals >= 0 THEN either.decimals ELSE native.decimals]

\* The first result that knows a field of the token tells it.  Of a native
\* token nothing is left to tell: the request names it first, and has no metadata.
HintsFromRefs(s, token) ==
    LET Told(field, none) ==
            LET Meta(t) == s.results[t[1]].meta
                tellers == {t \in (DOMAIN s.results) \X (DOMAIN s.tokens) :
                    s.tokens[t[2]] = token /\ t[2] \in DOMAIN Meta(t) /\ Meta(t)[t[2]][field] # none}
                Turn(t) == 2 * Rank(s.results, t[1]) + t[2]
                first == CHOOSE t \in tellers : \A u \in tellers : Turn(t) <= Turn(u)
            IN IF tellers = {} THEN none ELSE Meta(first)[first[2]][field]
    IN IF token \in Natives THEN NativeMeta(token)
       ELSE [symbol |-> Told("symbol", ""), decimals |-> Told("decimals", NoValue)]

Involved(s) ==
    ToSet(s.tokens) \cup {Canonical(s.ask.tokens[i]) : i \in DOMAIN s.ask.tokens}

Unresolved(s) ==
    {t \in Involved(s) \ Natives : s.merged[t].symbol = "" \/ s.merged[t].decimals < 0}

ToPersist(s) == {t \in Involved(s) : s.merged[t] # s.read[t]}

AfterMerge(s) == [s EXCEPT !.pc = IF ToPersist(s) # {} THEN "persisting" ELSE "enrolling"]

\* get_many, and the merge with what the providers said.
ReadCache(r) ==
    LET s == slot[r]
        merged == [t \in Involved(s) |-> MergeMetadata(t, stored[t], HintsFromRefs(s, t))]
        next == [s EXCEPT !.read = [t \in Involved(s) |-> stored[t]], !.merged = merged,
                    !.reported = <<>>, !.results = <<>>]
    IN
    /\ s.pc = "reading"
    /\ slot' = [slot EXCEPT ![r] =
            IF Unresolved(next) # {} THEN [next EXCEPT !.pc = "fetching"] ELSE AfterMerge(next)]
    /\ UNCHANGED <<stored, enrolled>>

\* One multicall; any of its calls may fail, and so may the whole of it.
FetchOnchain(r) ==
    LET s == slot[r] IN
    /\ s.pc = "fetching"
    /\ \E known \in [Unresolved(s) -> SUBSET {"symbol", "decimals"}] :
        LET Found(t) ==
                [symbol |-> IF "symbol" \in known[t] THEN Truth[t].symbol ELSE "",
                 decimals |-> IF "decimals" \in known[t] THEN Truth[t].decimals ELSE NoValue]
            merged == [t \in Involved(s) |->
                IF t \in Unresolved(s) THEN MergeMetadata(t, s.merged[t], Found(t)) ELSE s.merged[t]]
        IN slot' = [slot EXCEPT ![r] = AfterMerge([s EXCEPT !.merged = merged])]
    /\ UNCHANGED <<stored, enrolled>>

\* upsert_many: the whole row, whatever is in the table by now.
Persist(r) ==
    LET s == slot[r] IN
    /\ s.pc = "persisting"
    /\ stored' = [t \in Tokens |-> IF t \in ToPersist(s) THEN s.merged[t] ELSE stored[t]]
    /\ Goto(r, "enrolling")
    /\ UNCHANGED enrolled

Originals(ask) == ToSet(ask.tokens) \cap DOMAIN Remap

\* observe_identities; a request that was not remapped is answered after it.
Enroll(r) ==
    LET s == slot[r] IN
    /\ s.pc = "enrolling"
    /\ enrolled' = enrolled \cup Involved(s)
    /\ slot' = [slot EXCEPT ![r] =
            IF Originals(s.ask) = {} THEN Idle ELSE [s EXCEPT !.pc = "enrolling originals"]]
    /\ UNCHANGED stored

EnrollOriginals(r) ==
    /\ slot[r].pc = "enrolling originals"
    /\ enrolled' = enrolled \cup Originals(slot[r].ask)
    /\ slot' = [slot EXCEPT ![r] = Idle]
    /\ UNCHANGED stored

\* The database is locked for longer than its timeout.
StoreFails(r) ==
    /\ slot[r].pc \in {"reading", "persisting", "enrolling", "enrolling originals"}
    /\ Ends500(r)
    /\ UNCHANGED <<stored, enrolled>>

Next ==
    \E r \in Requests :
        \/ Arrive(r)
        \/ ResolveVaults(r) \/ ResolutionFails(r)
        \/ Collect(r) \/ CallsFail(r)
        \/ ReadCache(r) \/ FetchOnchain(r) \/ Persist(r)
        \/ Enroll(r) \/ EnrollOriginals(r) \/ StoreFails(r)

Spec == Init /\ [][Next]_vars

(***************************************************************************)
(* Properties.                                                              *)
(***************************************************************************)
\* A row of the table holds what was merged, and only the tokens of a request
\* have one.  A request carries results, or what it merged of the table, and
\* never both; the tokens it goes on with are canonical, or the assets of a vault.
TypeOK ==
    /\ stored \in [Tokens -> Metadata \cup {NoRow}]
    /\ enrolled \subseteq Tokens
    /\ DOMAIN slot = Requests
    /\ \A r \in Requests : LET s == slot[r] IN
        /\ s.pc \in {"idle", "resolving", "calling", "reading", "fetching", "persisting",
                     "enrolling", "enrolling originals"}
        /\ (s.pc = "idle") = (s.ask = NoAsk)
        /\ s.tokens \in Seq(Tokens) /\ DOMAIN s.vaults = DOMAIN s.tokens
        /\ \A i \in DOMAIN s.tokens :
            IF s.vaults[i] = NoToken THEN s.tokens[i] \notin DOMAIN Remap
            ELSE s.tokens[i] = Vaults[s.vaults[i]].asset
        /\ (s.results # <<>>) = (s.pc = "reading" /\ s.ask.operation # "token")
        /\ (s.merged # <<>>) = (s.pc \in {"fetching", "persisting", "enrolling", "enrolling originals"})
        /\ s.merged # <<>> => s.merged \in [Involved(s) -> Metadata] /\ DOMAIN s.read = Involved(s)

\* The shares are worth no more than the assets, and one more share would be.
WorthAtMost(v, shares, assets) ==
    shares * Vaults[v].rate <= assets * Vaults[v].shareUnit /\ assets * Vaults[v].shareUnit < (shares + 1) * Vaults[v].rate

\* A provider whose answer the caller can be given in the units asked for.
Usable(s, p) ==
    /\ p \in DOMAIN s.reported
    /\ s.reported[p].status = "ok"
    /\ s.ask.operation = "quote" /\ OutVault(s) # NoToken =>
        \E shares \in 1..MaxUint : WorthAtMost(OutVault(s), shares, s.reported[p].amount)

\* What the caller prefers: the order of the request, else the configured one;
\* those it does not name come after it, by the alphabet.
Prefers(ask, p, q) ==
    LET named == IF ask.providers # <<>> THEN ask.providers ELSE Priority[ask.operation]
        Before(seq) == \E i \in DOMAIN seq : seq[i] = p /\ \A j \in DOMAIN seq : seq[j] = q => i < j
    IN Before(named) \/ ({p, q} \cap ToSet(named) = {} /\ Before(Alphabetical))

\* The answer is that of a provider whose answer can be used, and of the one
\* that the caller prefers of them; there is none only if nobody's can be used.
CallersFirstServed(s) ==
    LET order == BuildProviderOrder(DOMAIN s.results, s.ask.providers, Priority[s.ask.operation])
        chosen == Select(order, s.results)
    IN IF chosen = NoProvider THEN \A p \in AllProviders : ~Usable(s, p)
       ELSE Usable(s, chosen) /\ \A p \in AllProviders : Usable(s, p) => ~Prefers(s.ask, p, chosen)

\* Amounts are in base units of the tokens the caller named, neither rounded
\* to nothing nor up nor past uint256, and the smallest amount is not larger;
\* providers are asked with the assets that the caller's shares are worth.
InCallersUnits(s) ==
    LET v == OutVault(s)
        Right(p) ==
            LET answer == s.results[p]  said == s.reported[p] IN
            IF s.ask.operation = "price"
            THEN v # NoToken => answer.amount * Vaults[v].assetUnit = said.amount * Vaults[v].rate
            ELSE /\ answer.amount \in 1..MaxUint
                 /\ answer.min \in NoValue..answer.amount
                 /\ (answer.min = NoValue) = (said.min = NoValue)
                 /\ v # NoToken =>
                        /\ WorthAtMost(v, answer.amount, said.amount)
                        /\ said.min # NoValue => WorthAtMost(v, answer.min, said.min)
    IN /\ \A p \in DOMAIN s.results : s.results[p].status = "ok" => Right(p)
       /\ s.ask.operation = "quote" /\ s.vaults[1] # NoToken =>
            s.amount * Vaults[s.vaults[1]].shareUnit <= s.ask.amount * Vaults[s.vaults[1]].rate

\* The summary counts every provider once, and half of the successful amounts
\* are on either side of its median.
SummaryFair(s) ==
    LET summary == BuildSummary(s.results)
        good == Successful(s.results)
        Half(side) == 2 * Cardinality(side) >= Cardinality(good)
    IN /\ summary.requested = Cardinality(Resolve(s.ask))
       /\ summary.successful = Cardinality(good)
       /\ summary.failed = summary.requested - summary.successful
       /\ good # {} =>
            /\ summary.low <= summary.median /\ summary.median <= summary.high
            /\ Half({p \in good : s.results[p].amount <= summary.median})
            /\ Half({p \in good : s.results[p].amount >= summary.median})

\* The answer to a price or a quote, over whatever the providers reported, any
\* part of them failing, through no vault, one or two of them.
AnswerRight ==
    \A r \in Requests : slot[r].results # <<>> =>
        CallersFirstServed(slot[r]) /\ InCallersUnits(slot[r]) /\ SummaryFair(slot[r])

\* What the table knows of a token is only changed or lost by a request that
\* read the table before another one wrote it there.
KnownStaysKnown ==
    [][\A t \in Tokens : \A field \in {"symbol", "decimals"} :
        stored[t][field] \notin {NoRow[field], NoMeta[field]} /\ stored'[t][field] # stored[t][field] =>
            \E r \in Requests :
                /\ slot[r].pc = "persisting" /\ slot'[r].pc = "enrolling"
                /\ t \in DOMAIN slot[r].read
                /\ slot[r].read[t][field] # stored[t][field]]_vars
=============================================================================
