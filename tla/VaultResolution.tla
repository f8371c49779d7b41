-------------------------- MODULE VaultResolution --------------------------
(***************************************************************************)
(* use_underlying=true: VaultUnderlyingService (core/vault_underlying.py)   *)
(* over VaultResolver (vault/resolver.py) and its two adapters, with every  *)
(* request that resolves at the same time, the caches and the semaphore     *)
(* they share, and the chain they read through RPC calls that take time.    *)
(*                                                                          *)
(* The service's limiter is CapacityGate, which CapacityLimiters is proved  *)
(* to implement.  The clock counts blocks too: reading a vault's rate at    *)
(* moment s gives the rate of block s, so that s stands for the rate.       *)
(***************************************************************************)
EXTENDS Integers, Sequences, FiniteSets

CONSTANTS
    Requests,      \* slots for requests that run at the same time
    Tokens,
    Asks,          \* the tokens of a request: <<t>> for a price, <<in, out>> for a quote
    Histories,     \* what each token may be at each moment
    VaultUnits,    \* vault_global_units
    Web3Limit,     \* web3_limit
    PositiveTtl,   \* vault_positive_cache_ttl_s
    NegativeTtl,   \* vault_negative_cache_ttl_s
    CacheMax,      \* vault_cache_max_entries
    PruneInterval, \* _CACHE_PRUNE_INTERVAL_S
    CallLife,      \* rpc_request_timeout_ms
    MaxTime        \* bound on the clock

Kinds == {"erc4626", "yearn_v2"}

ASSUME VaultAssumption ==
    /\ IsFiniteSet(Requests)
    /\ Asks \subseteq Seq(Tokens)
    /\ \A a \in Asks : Len(a) \in 1..2
    /\ Histories \subseteq [Tokens -> [0..MaxTime -> Kinds \cup {"plain"}]]
    /\ VaultUnits \in Nat \ {0}
    /\ Web3Limit \in Nat \ {0}
    /\ PositiveTtl \in Nat \ {0}
    /\ NegativeTtl \in Nat \ {0}
    /\ CacheMax \in Nat \ {0}
    /\ PruneInterval \in Nat
    /\ CallLife \in Nat
    /\ MaxTime \in Nat

\* A token is of one kind when it is a vault at all.
ASSUME OneKindEach ==
    \A h \in Histories, t \in Tokens : Cardinality({h[t][s] : s \in 0..MaxTime} \cap Kinds) <= 1

VARIABLES
    now,
    chain,    \* what each token is at each moment: one of Histories
    task,     \* each request's place in resolve_price or resolve_quote
    inside,   \* requests that hold a permit of _semaphore
    line,     \* requests queued for one
    positive, \* _positive_cache: entries, the least recently used first
    negative, \* _negative_cache
    pruneAt,  \* _next_cache_prune_at
    load, held  \* of CapacityGate

caches == <<positive, negative, pruneAt>>
permits == <<inside, line>>
units == <<load, held>>
vars == <<now, chain, task, permits, caches, units>>

Gate == INSTANCE CapacityGate WITH
    Limiters <- {"vault"}, Capacity <- [l \in {"vault"} |-> VaultUnits],
    Tasks <- Requests, Units <- 1..2

\* A fresh slot; "kind" is the adapter at work, "since" when its current call was
\* sent, "rate" and "block" what was read, "answers" a verdict per token so far.
Idle == [pc |-> "idle", legs |-> <<>>, kind |-> "erc4626", since |-> 0, rate |-> 0,
         block |-> 0, answers |-> <<>>]

Calls == {"multicall", "conversion", "interface", "decimals", "rate", "preview", "block"}
Outcomes == {"RESOLVED", "NOT_VAULT", "FAILED", "cancelled"}
Pc(r) == task[r].pc
Suspended(r) == Pc(r) # "detect"
LoopFree == \A r \in Requests : Suspended(r)
Turn(r) == \A q \in Requests \ {r} : Suspended(q)

Token(r) == task[r].legs[Len(task[r].answers) + 1]
Undecided(r) == Len(task[r].answers) < Len(task[r].legs)

\* The moments at which the call under way can have been served.
Served(r) == task[r].since..now
IsVault(r, s) == chain[Token(r)][s] = task[r].kind

-----------------------------------------------------------------------------
(* The caches: OrderedDicts as sequences, the oldest entry first.          *)

\* What is left of a sequence when the elements at places other than I are taken out.
Only(seq, I) ==
    [j \in 1..Cardinality(I) |-> seq[CHOOSE i \in I : Cardinality({k \in I : k <= i}) = j]]

Fresh(e) == now < e.expires
Without(cache, t) == Only(cache, {i \in DOMAIN cache : cache[i].key # t})
Entries(cache, t) == {cache[i] : i \in {j \in DOMAIN cache : cache[j].key = t}}
Hit(cache, t) == \E e \in Entries(cache, t) : Fresh(e)

\* Mutant: one entry too many is kept.
TrimLate(cache) ==
    SubSeq(cache, IF Len(cache) <= CacheMax + 1 THEN 1 ELSE Len(cache) - CacheMax, Len(cache))

\* _trim_cache
Trim(cache) ==
    SubSeq(cache, IF Len(cache) <= CacheMax THEN 1 ELSE Len(cache) - CacheMax + 1, Len(cache))

\* d[key] = entry; d.move_to_end(key); _trim_cache(d)
Store(cache, e) == Trim(Append(Without(cache, e.key), e))

\* A hit moves to the end, an expired entry is popped.
Touch(cache, t) ==
    LET e == CHOOSE x \in Entries(cache, t) : TRUE IN
    IF Hit(cache, t) THEN Append(Without(cache, t), e) ELSE Without(cache, t)

\* _prune_expired_if_due
Pruned(cache) ==
    IF now < pruneAt THEN cache ELSE Only(cache, {i \in DOMAIN cache : Fresh(cache[i])})

\* Mutant: a hit gives the entry its whole TTL again.
LookupExtends(t) ==
    LET renewed == [i \in DOMAIN positive |->
            IF positive[i].key = t /\ Fresh(positive[i])
            THEN [positive[i] EXCEPT !.expires = now + PositiveTtl] ELSE positive[i]] IN
    /\ pruneAt' = IF now < pruneAt THEN pruneAt ELSE now + PruneInterval
    /\ positive' = Touch(Pruned(renewed), t)
    /\ negative' = IF Hit(positive, t) THEN Pruned(negative) ELSE Touch(Pruned(negative), t)

\* What _cached_vault does to the caches; the negative one counts only when
\* the positive one has nothing.
Lookup(t) ==
    /\ pruneAt' = IF now < pruneAt THEN pruneAt ELSE now + PruneInterval
    /\ positive' = Touch(Pruned(positive), t)
    /\ negative' = IF Hit(positive, t) THEN Pruned(negative) ELSE Touch(Pruned(negative), t)

\* What it returns.
Cached(t) == Hit(positive, t) \/ Hit(negative, t)
NotVault == [kind |-> "plain", rate |-> 0]
CachedVerdict(t) ==
    IF Hit(positive, t)
    THEN LET e == CHOOSE x \in Entries(positive, t) : TRUE IN [kind |-> e.kind, rate |-> e.rate]
    ELSE NotVault

\* Mutant: the negative entry is left in place.
KeepVerdictBoth(t, verdict) ==
    /\ IF verdict = NotVault
       THEN /\ negative' = Store(negative, [key |-> t, expires |-> now + NegativeTtl])
            /\ UNCHANGED positive
       ELSE /\ positive' = Store(positive, [key |-> t, kind |-> verdict.kind,
                                  rate |-> verdict.rate, expires |-> now + PositiveTtl])
            /\ UNCHANGED negative
    /\ UNCHANGED pruneAt

\* A detection's verdict is cached; a vault's replaces both kinds of entry.
KeepVerdict(t, verdict) ==
    /\ IF verdict = NotVault
       THEN /\ negative' = Store(negative, [key |-> t, expires |-> now + NegativeTtl])
            /\ UNCHANGED positive
       ELSE /\ positive' = Store(positive, [key |-> t, kind |-> verdict.kind,
                                  rate |-> verdict.rate, expires |-> now + PositiveTtl])
            /\ negative' = Without(negative, t)
    /\ UNCHANGED pruneAt

-----------------------------------------------------------------------------
(* VaultUnderlyingService: units on the way in, units back on every way out. *)

\* Units that fit are taken at once; else the request waits for them.
Arrive(r, legs) ==
    /\ LoopFree
    /\ Pc(r) = "idle"
    /\ \/ /\ Gate!Grant(r, "vault", Len(legs))
          /\ task' = [task EXCEPT ![r].pc = "detect", ![r].legs = legs]
       \/ /\ load["vault"] + Len(legs) > VaultUnits
          /\ task' = [task EXCEPT ![r].pc = "waiting", ![r].legs = legs]
          /\ UNCHANGED units
    /\ UNCHANGED <<now, chain, permits, caches>>

Admit(r) ==
    /\ LoopFree
    /\ Pc(r) = "waiting"
    /\ Gate!Grant(r, "vault", Len(task[r].legs))
    /\ task' = [task EXCEPT ![r].pc = "detect"]
    /\ UNCHANGED <<now, chain, permits, caches>>

\* No units at all, or none in time: VAULT_CAPACITY.
Refuse(r) ==
    /\ LoopFree
    /\ Pc(r) = "waiting"
    /\ task' = [task EXCEPT ![r].pc = "FAILED"]
    /\ UNCHANGED <<now, chain, permits, caches, units>>

\* Mutant: only the paths of the try block give the units back.
FinishKeeping(r, outcome) ==
    /\ task' = [task EXCEPT ![r].pc = outcome, ![r].since = 0, ![r].kind = "erc4626"]
    /\ IF outcome \in {"FAILED", "cancelled"} THEN UNCHANGED units ELSE Gate!Return(r, "vault")

\* finally: reservation.release()
Finish(r, outcome) ==
    /\ task' = [task EXCEPT ![r].pc = outcome, ![r].since = 0, ![r].kind = "erc4626"]
    /\ Gate!Return(r, "vault")

\* The request goes on to its providers and leaves its slot.
End(r) ==
    /\ LoopFree
    /\ Pc(r) \in Outcomes
    /\ task' = [task EXCEPT ![r] = Idle]
    /\ UNCHANGED <<now, chain, permits, caches, units>>

-----------------------------------------------------------------------------
(* _detect_vault, up to the adapters.                                      *)

\* The verdict on the current token; the request goes on without a switch.
Answer(r, verdict) ==
    task' = [task EXCEPT ![r].answers = Append(@, [kind |-> verdict.kind, rate |-> verdict.rate,
                                                   at |-> now]),
                         ![r].pc = "detect", ![r].kind = "erc4626", ![r].since = 0,
                         ![r].rate = 0]

\* A call is sent; pc names what it asks for.
Send(r, pc) == task' = [task EXCEPT ![r].pc = pc, ![r].since = now]

Free == Cardinality(inside) < Web3Limit

AnswerCached(r) ==
    /\ Turn(r)
    /\ Pc(r) = "detect"
    /\ Undecided(r)
    /\ Cached(Token(r))
    /\ Answer(r, CachedVerdict(Token(r)))
    /\ Lookup(Token(r))
    /\ UNCHANGED <<now, chain, permits, units>>

\* A free permit is taken at once; the second look at the caches is no step.
EnterDetection(r) ==
    /\ Turn(r)
    /\ Pc(r) = "detect"
    /\ Undecided(r)
    /\ ~Cached(Token(r))
    /\ Free
    /\ line = <<>>
    /\ Send(r, "multicall")
    /\ inside' = inside \cup {r}
    /\ Lookup(Token(r))
    /\ UNCHANGED <<now, chain, line, units>>

QueueUp(r) ==
    /\ Turn(r)
    /\ Pc(r) = "detect"
    /\ Undecided(r)
    /\ ~Cached(Token(r))
    /\ ~Free \/ line # <<>>
    /\ task' = [task EXCEPT ![r].pc = "queued"]
    /\ line' = Append(line, r)
    /\ Lookup(Token(r))
    /\ UNCHANGED <<now, chain, inside, units>>

\* The first of the line gets a permit and looks again: a detection that ended
\* meanwhile may have answered.
Dequeue(r) ==
    /\ LoopFree
    /\ line # <<>>
    /\ r = Head(line)
    /\ Free
    /\ line' = Tail(line)
    /\ Lookup(Token(r))
    /\ IF Cached(Token(r))
       THEN Answer(r, CachedVerdict(Token(r))) /\ UNCHANGED inside
       ELSE Send(r, "multicall") /\ inside' = inside \cup {r}
    /\ UNCHANGED <<now, chain, units>>

-----------------------------------------------------------------------------
(* The adapters: a multicall asks for the interface, a second one for the   *)
(* rest; if one of them cannot be made, single calls do, one after another. *)

Reaches(r, pc) ==
    /\ LoopFree
    /\ Pc(r) = pc

\* The detection is over: verdict cached and given, permit returned.
Conclude(r, verdict) ==
    /\ Answer(r, verdict)
    /\ KeepVerdict(Token(r), verdict)
    /\ inside' = inside \ {r}
    /\ UNCHANGED <<now, chain, line, units>>

\* The token has the adapter's interface.  Yearn's rate comes with it.
InterfaceFound(r) ==
    /\ Reaches(r, "multicall")
    /\ \E s \in Served(r) :
          /\ IsVault(r, s)
          /\ task' = [task EXCEPT ![r].pc = "conversion", ![r].since = now,
                                  ![r].rate = IF task[r].kind = "yearn_v2" THEN s ELSE 0]
    /\ UNCHANGED <<now, chain, permits, caches, units>>

\* It has not: ERC-4626 leaves it to Yearn, and then it is no vault.
InterfaceMissing(r) ==
    /\ Reaches(r, "multicall")
    /\ \E s \in Served(r) : ~IsVault(r, s)
    /\ \/ /\ task[r].kind = "erc4626"
          /\ task' = [task EXCEPT ![r].kind = "yearn_v2", ![r].since = now]
          /\ UNCHANGED <<now, chain, permits, caches, units>>
       \/ /\ task[r].kind = "yearn_v2"
          /\ Conclude(r, NotVault)

\* The second multicall: the rate for ERC-4626, decimals for Yearn.
ConversionRead(r) ==
    /\ Reaches(r, "conversion")
    /\ \/ /\ task[r].kind = "erc4626"
          /\ \E s \in Served(r) :
                /\ IsVault(r, s)
                /\ Conclude(r, [kind |-> "erc4626", rate |-> s])
       \/ /\ task[r].kind = "yearn_v2"
          /\ Conclude(r, [kind |-> "yearn_v2", rate |-> task[r].rate])

\* Mutant: a call that fails means that the interface is not there.
MulticallFailsAsMissing(r) ==
    /\ Reaches(r, "multicall")
    /\ task[r].kind = "yearn_v2"
    /\ Conclude(r, NotVault)

\* aggregate3 raised: asset() or token() is called by itself.
MulticallFails(r) ==
    /\ Pc(r) \in {"multicall", "conversion"}
    /\ LoopFree
    /\ task' = [task EXCEPT ![r].pc = "interface", ![r].since = now, ![r].rate = 0]
    /\ UNCHANGED <<now, chain, permits, caches, units>>

\* It answers; then the decimals of both tokens.
InterfaceRead(r) ==
    /\ Reaches(r, "interface")
    /\ \E s \in Served(r) : IsVault(r, s)
    /\ Send(r, "decimals")
    /\ UNCHANGED <<now, chain, permits, caches, units>>

DecimalsRead(r) ==
    /\ Reaches(r, "decimals")
    /\ Send(r, "rate")
    /\ UNCHANGED <<now, chain, permits, caches, units>>

\* convertToAssets failed, previewRedeem is tried.
RateUnread(r) ==
    /\ Reaches(r, "rate")
    /\ task[r].kind = "erc4626"
    /\ Send(r, "preview")
    /\ UNCHANGED <<now, chain, permits, caches, units>>

RateRead(r) ==
    /\ Pc(r) \in {"rate", "preview"}
    /\ LoopFree
    /\ \E s \in Served(r) :
          /\ IsVault(r, s)
          /\ Conclude(r, [kind |-> task[r].kind, rate |-> s])

\* Mutant: the permit is returned by detections that succeed only.
DetectionFailsInside(r) ==
    /\ LoopFree
    /\ Pc(r) \in Calls
    /\ Finish(r, "FAILED")
    /\ UNCHANGED <<now, chain, permits, caches>>

\* Malformed data anywhere, a single call that failed or found no interface.
DetectionFails(r) ==
    /\ LoopFree
    /\ Pc(r) \in Calls
    /\ Finish(r, "FAILED")
    /\ inside' = inside \ {r}
    /\ UNCHANGED <<now, chain, line, caches>>

-----------------------------------------------------------------------------
(* The end of resolve_price_request and resolve_quote_request.             *)

Vaults(r) == {a \in {task[r].answers[i] : i \in DOMAIN task[r].answers} : a.kind \in Kinds}

\* INVALID_VAULT: no token is a vault, the request goes on as it came.
NoVaults(r) ==
    /\ Turn(r)
    /\ Pc(r) = "detect"
    /\ ~Undecided(r)
    /\ Vaults(r) = {}
    /\ Finish(r, "NOT_VAULT")
    /\ UNCHANGED <<now, chain, permits, caches>>

AskBlock(r) ==
    /\ Turn(r)
    /\ Pc(r) = "detect"
    /\ ~Undecided(r)
    /\ Vaults(r) # {}
    /\ Send(r, "block")
    /\ UNCHANGED <<now, chain, permits, caches, units>>

BlockRead(r) ==
    /\ Reaches(r, "block")
    /\ \E s \in Served(r) :
          task' = [task EXCEPT ![r].pc = "RESOLVED", ![r].block = s, ![r].since = 0]
    /\ Gate!Return(r, "vault")
    /\ UNCHANGED <<now, chain, permits, caches>>

\* The request is cancelled where it waits.
Cancel(r) ==
    /\ LoopFree
    /\ \/ /\ Pc(r) = "waiting"
          /\ task' = [task EXCEPT ![r].pc = "cancelled"]
          /\ UNCHANGED units
       \/ Pc(r) \in Calls \cup {"queued"} /\ Finish(r, "cancelled")
    /\ inside' = inside \ {r}
    /\ line' = Only(line, {i \in DOMAIN line : line[i] # r})
    /\ UNCHANGED <<now, chain, caches>>

-----------------------------------------------------------------------------
\* No RPC call outlives its timeout.
Tick ==
    /\ LoopFree
    /\ now < MaxTime
    /\ \A r \in Requests : Pc(r) \in Calls => now < task[r].since + CallLife
    /\ now' = now + 1
    /\ UNCHANGED <<chain, task, permits, caches, units>>

Init ==
    /\ Gate!Init
    /\ now = 0
    /\ chain \in Histories
    /\ task = [r \in Requests |-> Idle]
    /\ inside = {}
    /\ line = <<>>
    /\ positive = <<>>
    /\ negative = <<>>
    /\ pruneAt = 0

Detect(r) == AnswerCached(r) \/ EnterDetection(r) \/ QueueUp(r) \/ NoVaults(r) \/ AskBlock(r)

CallEnds(r) ==
    \/ InterfaceFound(r) \/ InterfaceMissing(r) \/ ConversionRead(r) \/ MulticallFails(r)
    \/ InterfaceRead(r) \/ DecimalsRead(r) \/ RateUnread(r) \/ RateRead(r)
    \/ DetectionFails(r) \/ BlockRead(r)

Proceed(r) == Admit(r) \/ Refuse(r) \/ Detect(r) \/ Dequeue(r) \/ CallEnds(r) \/ End(r)

Next ==
    \/ Tick
    \/ \E r \in Requests :
           \/ Proceed(r)
           \/ Cancel(r)
           \/ \E legs \in Asks : Arrive(r, legs)

Spec == Init /\ [][Next]_vars

\* The loop runs what is ready in turn, timers fire and RPC calls end.
FairSpec == Spec /\ \A r \in Requests : SF_vars(Proceed(r))

-----------------------------------------------------------------------------
(* Properties *)

Verdicts == [kind : Kinds \cup {"plain"}, rate : 0..MaxTime, at : 0..MaxTime]

Slots == [pc : Calls \cup Outcomes \cup {"idle", "waiting", "detect", "queued"},
          legs : Asks \cup {<<>>}, kind : Kinds, since : 0..MaxTime, rate : 0..MaxTime,
          block : 0..MaxTime, answers : Seq(Verdicts)]
PositiveEntries == [key : Tokens, kind : Kinds, rate : 0..MaxTime, expires : Nat]
NegativeEntries == [key : Tokens, expires : Nat]

\* Requests are where the code can suspend; a key is in a cache once, and a
\* cache is never over its limit.
TypeOK ==
    /\ now \in 0..MaxTime
    /\ chain \in Histories
    /\ task \in [Requests -> Slots]
    /\ \A r \in Requests :
          /\ task[r].since <= now
          /\ Len(task[r].answers) <= Len(task[r].legs)
    /\ inside \subseteq Requests
    /\ line \in Seq(Requests)
    /\ positive \in Seq(PositiveEntries) /\ negative \in Seq(NegativeEntries) /\ pruneAt \in Nat
    /\ \A cache \in {positive, negative} :
          /\ Len(cache) <= CacheMax
          /\ \A i, j \in DOMAIN cache : cache[i].key = cache[j].key => i = j

\* How old a verdict's evidence may be when it is cached: two calls.
Reading == 2 * CallLife

\* A verdict on token t given at moment a.at was true recently: a vault's kind
\* and rate were read on chain within the positive TTL and the time of reading,
\* a token was not a vault within the negative one.
WasTrue(t, a) ==
    IF a.kind \in Kinds
    THEN /\ chain[t][a.rate] = a.kind
         /\ a.at < a.rate + PositiveTtl + Reading
    ELSE \E s \in 0..a.at : chain[t][s] = "plain" /\ a.at < s + NegativeTtl + Reading

\* Every answer a request goes on with was true recently, whatever failed,
\* however detections of one token overlap and whoever cached it: a failed read
\* is never taken for "not a vault", and no use of an entry makes it last.
AnswersFresh ==
    \A r \in Requests : \A i \in DOMAIN task[r].answers :
        WasTrue(task[r].legs[i], task[r].answers[i])

\* After a request was told that a token is a vault, none is told otherwise on
\* evidence more than two calls older than that vault's rate: no miss that was
\* cached before, or read before and cached late, comes back when the vault's
\* entry lapses or is evicted.
NoOlderMiss ==
    \A r, q \in Requests : \A i \in DOMAIN task[r].answers, j \in DOMAIN task[q].answers :
        LET vault == task[r].answers[i]
            miss == task[q].answers[j]
            t == task[q].legs[j] IN
        task[r].legs[i] = t /\ vault.kind \in Kinds /\ miss.kind = "plain" /\ vault.at < miss.at
            => \E s \in 0..miss.at : /\ chain[t][s] = "plain"
                                     /\ miss.at < s + NegativeTtl + Reading
                                     /\ vault.rate <= s + Reading

\* A request that is over, or was never admitted, holds no unit, permit or
\* place in the line, and one that detects holds what it asked for.
NothingKept ==
    \A r \in Requests :
        /\ held[r]["vault"] = IF Pc(r) \in Outcomes \cup {"idle", "waiting"}
                              THEN 0 ELSE Len(task[r].legs)
        /\ r \in inside <=> Pc(r) \in Calls \ {"block"}
        /\ (\E i \in DOMAIN line : line[i] = r) <=> Pc(r) = "queued"

\* The block number reported with a vault's rate is the block of that rate.
BlockOfRate ==
    \A r \in Requests : Pc(r) = "RESOLVED" => \A a \in Vaults(r) : a.rate = task[r].block

\* Every request gets an outcome, also behind a semaphore of one permit.
ResolutionsEnd == \A r \in Requests : Pc(r) # "idle" ~> Pc(r) = "idle"

=============================================================================
