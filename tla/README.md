# TLA+ models of token-price-agg

`price_api` is an asyncio service that asks several providers (DeFiLlama, Curve,
Enso, LiFi) for the price of a token or a swap quote and aggregates the answers.
This directory holds TLA+ models of the parts of it where concurrency, time and
failure meet, TLC configurations that check them on small instances, and proofs
of the main results for every instance.

Paths below are relative to `price_api/`.

## 1. Inventory

| component | state it keeps | operations | hard behaviour | what makes it correct |
|---|---|---|---|---|
| circuit breaker, `core/circuit.py` | per (provider, chain, operation): deque of failures, end of the opening, end of the rate-limit cooldown, probes in flight, state | `allow`, `record_result`, `release_probe` | calls admitted in one state end in another; slots counted in four places | probe slots neither leak nor multiply; cooldowns last; no scope stays shut |
| capacity limiters, `core/limits.py` | units in use, waiters on a condition | `try_acquire`, `release` | notification, timeout and cancellation race for one waiter | units add up, capacity holds, no wake-up is lost, waits end |
| provider runner, `core/provider_runner.py` | per request: admitted plugins, reservations, tasks, results; the shared breaker and limiters | `run_prices`, `run_quotes` | admission in several steps with waits between, a deadline, cancellation at every await, results that cannot be built | what was taken is given back (but for a clean-up that is itself cut short, section 6), calls stay within capacity, one result per plugin |
| aggregator and selection, `core/aggregator.py`, `core/selection.py`, `core/normalizer.py` | none | remap, provider order, conversion, choice, summary | any part of the providers fails, in any way, at any stage | the answer is the one the caller prefers of those that can be used, in the caller's units |
| vault resolution, `core/vault_underlying.py`, `vault/` | positive and negative TTL cache, a semaphore, a limiter | resolve a price or a quote, detect a vault | concurrent detections of one address; expiry of one cache uncovering the other | no entry outlives its TTL; a miss may answer again after a vault's rate, but only on evidence at most two calls older than the rate; units come back |
| provider transport, `providers/clients/http.py` | current client, its age and request count, pool timeouts, clients being retired | `get`, `post`, `recycle`, `record_pool_timeout`, `close` | recycling beside requests in flight | a client is not closed under a request; pool timeouts replace a client when there are enough of them; readiness follows and recovers |
| registry and plugins, `providers/` | enabled plugins, the credit poller | listing, start, close; a call and what becomes of its reply | replies that are absent, malformed, late, or no number at all | every reply becomes one well-formed result |
| API keys and quotas, `security/`, `app/main.py` | SQLite rows of keys and windows, in-memory windows of anonymous clients | authenticate, consume, revoke, set limit | separate transactions, several processes | nobody is served who was not entitled; no quota is exceeded, whatever processes, threads and clocks do |
| logo maintenance, `token_metadata/logo_service.py` and neighbours | rows with schedule, outcome and failure count; the loop task | iterate, acquire, persist, start, close | overlapping batches, shutdown, the prewarm tool beside the service | a stored logo stays, none is forgotten, a due row is tried as long as rows that cannot be stored do not fill a batch |
| token metadata, `token_metadata/resolver.py`, `token_metadata/cache.py` | rows of the metadata cache | resolve, observe | read, await, write back | a known field is not forgotten |
| HTTP routes, readiness, configuration, observability | none that is read back | | | - |

How they interact: a route calls the aggregator; the aggregator resolves vaults
(through the vault limiter), then asks the runner for the plugins of the
provider order; the runner asks the breaker, one limiter per provider and the
global limiter for admission, and calls the plugins in tasks; plugins use their
HTTP transport and translate what happens there into results; the results go to
the breaker, and back to the aggregator for selection. Readiness reads the
breaker and the transports. Key checks come before all of it, logo and metadata
work runs beside it. Everything but SQLite writes (in threads) runs on one
event loop, so interleaving happens at `await` only.

## 2. Modules

| module | models | kind |
|---|---|---|
| `CircuitBreaker` | `core/circuit.py` with the calls that use it | component |
| `CapacityGate` | what callers rely on of a limiter | abstract specification |
| `CapacityLimiters` | `core/limits.py` with the tasks that queue there | component, implements `CapacityGate` |
| `ProviderRunner` | `core/provider_runner.py`: concurrent requests | composition of the two components |
| `VaultResolution` | `core/vault_underlying.py`, `vault/`: concurrent resolutions over `CapacityGate` | component |
| `HttpTransport` | `providers/clients/http.py` with the callers of `http_helpers.py` and readiness | component |
| `ApiKeys` | the middleware of `app/main.py`, `security/`, the key commands: several processes over one SQLite store | component |
| `TokenLogos` | `token_metadata/logo_*.py`, the rows of `cache.py`, the prewarm command | component |
| `ProviderReplies` | plugins, parsing, transport outcomes, results: no state | operators |
| `TokenRequests` | routes, aggregator, selection, conversion through vaults, metadata resolution over the shared table | component over `ProviderReplies` |
| `CircuitBreakerProofs`, `CapacityLimitersProofs` | theorems about the two components | proofs |
| `ProviderRunnerProofs` | theorems about the composition, over the proofs of the two | proofs |
| `VaultResolutionProofs`, `HttpTransportProofs`, `ApiKeysProofs`, `TokenLogosProofs`, `TokenRequestsProofs` | theorems about those components | proofs |
| `MC...` | constants of the small instance of each component | model checking |

Operators introduced by a comment `Mutant:` are not part of a specification.
Each is a plausible wrong version of the definition that follows it, kept to
show that some run fails when it takes that definition's place.

### CircuitBreaker

The dictionaries of the class are functions on `Scopes`; a missing entry is 0 or
the empty sequence, as `.get` with a default reads it. The clock starts at 1, so
0 is free for "absent". `allow` is `AllowClosed`, `RefuseOpen`, `AllowProbe` and
`RefuseProbe`; `record_result` is `RecordResult`, one disjunct per path through
the method; `release_probe` is `ReleaseProbe`. Each is atomic, since none awaits.
A call ends once: the runner records a result or releases, never both (`Record`
discards the scope that `finally` would release). `since` is the call's own
record of being in flight; `probes`, `promised` and `evidence` are history that
only properties read. `Results` has one result for each path the breaker takes:
a neutral result may stand for any other error type of `core/errors.py`.

`CallLife` is how long a call may last: a request has a deadline, and its
results are recorded right after it. Bounds: `MaxTime` on the clock, and the
number of calls. Scopes share nothing in the code (every access is by scope), so
one scope and three overlapping calls show what an instance with more would.

### CapacityLimiters

`try_acquire` runs without a switch up to `Condition.wait()`, and from there on
when its future is done. Hence `AcquireNow` and `Sleep` on entry, and
`WakeGranted`, `WakeRefused`, `WakeAgain` when a notified waiter runs,
`TimeoutFires` and `Cancel` when it is thrown out of the wait. The condition's
lock is never held across another await, so it is not a variable. `Leave`
includes what `Condition.wait()` does for a waiter that is thrown out: it may
pass a notification on. `expired` is the set of waiting tasks whose deadline,
fixed on entry, has passed. Refusals that change nothing are not steps.
`CapacityGate` knows units and holders only; the refinement maps its `load` to
the counter `used`.

### ProviderRunner

`pc` follows a request through `_run_operation`: `admit` (the loop over the plugins), `lane` and
`global` (the two `try_acquire`), `calls` (`asyncio.wait`), `reap` (`gather` of cancelled
tasks), `record`, and of `finally` `drain` (its own `gather`) and `unwind` (what comes after
it). A request that is not suspended keeps the loop: `Turn` and `LoopFree` say that no other
task moves meanwhile, which is how asyncio works and what keeps, for instance, admission by the
breaker and taking a free lane together. A provider task is `queued` behind the fan-out
semaphore, `running`, `done`, or `stopping` after its cancellation. A request may be cancelled
while it waits for a limiter, while its tasks run, while it reaps them and while `finally`
gathers them; the rest has no suspension (an uncontended lock does not suspend). `oversize` has
the quotes whose assets pass uint256 (`Convertible` those that may go through an input vault):
the request to a provider takes any amount, a `QuoteResult` does not, so `Reject`, the end of a
call, `AllDone` and `DeadlinePasses` raise for them. At the deadline there are tasks left then,
which `finally` cancels and awaits. A request cancelled during that wait is `lost`: it ends with
its tasks, the rest of `finally` is skipped, and its lanes, units and probe slots stay taken for
as long as the process runs. `DeadlinePasses` and `WaitExpires` may happen whenever a timer
could be late, so no order of timers is assumed. After `End` the slot is used for another
request, so runs are unbounded in length; a lost slot is not.

The breaker's calls are pairs (request, provider), its scopes pairs (provider,
group), a group being a chain with an operation. Metrics, log lines and the text
of results are left out.

### VaultResolution

A slot's `pc` follows one request: `waiting` for units, `detect` (running, no
switch possible), `queued` on the semaphore, the RPC call it waits for, its
outcome. The calls are `multicall` (is the interface there), `conversion` (the
second multicall), and after one of them could not be made `interface`,
`decimals` (both decimals calls), `rate` and `preview`; then `block`. The token
under detection is the first without a verdict, so a quote resolves its input
before its output, and `kind` is the adapter at work. The limiter is used
through `CapacityGate`: a wait ends in a grant or, at any moment, in a refusal.
Cancellation may come at every suspension.

The chain is a history, what each token is at each moment, picked at the start
and never changed by a step. A call is served at some moment between its sending
and its answer, so a late answer tells of an earlier chain. The clock counts
blocks and seconds alike: a rate is represented by the moment it was read. A call
ends within `CallLife`, the RPC timeout (the one-time check of the endpoint's
chain id counts as part of the first call). The three ways a call can go wrong
are kept apart where the code does: an exception in a multicall (`MulticallFails`),
one in `convertToAssets` (`RateUnread`), and all that ends the resolution
(`DetectionFails`: malformed data, a single call that fails or finds nothing, the
block number). The branch for chains without Multicall3 is left out: every chain
of `chains.py` has one. The caches are sequences with the oldest entry first, as
the `OrderedDict`s are, pruning and trimming included; `Only` is what is left of one
when some of its entries are popped. `OneKindEach` assumes that
a token does not turn from one kind of vault into the other.

### HttpTransport

A request keeps the client it found when it began (`using`), over all its
attempts; `Begin`, `Retry`, `Finish` and `PoolTimeout` are its steps in
`_retryable_request` and `timed_get`. `ReplaceClient` is `_replace_client_locked`
with the task that closes the old client after the grace; that task may be late,
never early. Pool timeouts count for the wrapper, so those of requests in a
retired client's pool count against the fresh one, as in the code. `Budget` is
the deadline at which the caller cancels a request. The unit of time is such that
the deadline of a price with the default timeout equals the grace, which it does
in the code (2000 + 100 ms both). A quote has 200 ms more, and `timeout_ms` of a
request may be up to 10 s: such calls may lose their client, and the property
leaves them out. A recycle for another reason overwrites the reason of the last one, so
readiness may overlook a recycle for pool timeouts; `ReadinessTracksTimeouts`
says exactly when. `evidence` and `lastTimeout` are history. `Pruned` is
the loop that pops the head of the deque while it is older than the window, `Recent` the
count of `recent_pool_timeout_count`, which prunes nothing; that the two agree when a
timeout is noted is not assumed but proved.

### ApiKeys

Each slot of `Requests` is one request at a time in its server process, each slot
of `Operators` a command in a process of its own. A thread's store call is a step
for each transaction in it: `Authenticate` reads the row and takes the store's lock,
`Touch` writes and gives it back; the lock excludes the threads of one process,
not other processes. `Consume` counts, cleans up if that is due, and decides.
Clean-up by a process that is late removes what others have counted, which is why
`MaxStall` (lock and SQLite timeouts) and `MaxStep` (clock corrections) are assumed to be
within the retention (120 windows in the code). `granted` is history of requests let
through, not of the count the code compares; `entitled` remembers what was true
when the request came. Paths outside `/v1`, and a service with authentication
switched off, do not enter the middleware's branch and are left out.

### TokenLogos

Nothing in the table marks a row as taken. A batch (`Select`) starts an attempt per row (`job`,
by generation of the batch); `gather` passes on the first exception while the other attempts go
on, so rows may be taken again by the next batch. An attempt raises when its result cannot be
stored: `_create_schema` checks that an HTTP status is between 100 and 599, and httpx accepts
others. Times are differences to the clock in units of the polling interval, so the state space
is finite without bounding the clock; rows overdue for longer than `MaxOverdue` are alike.
`failure_count` is left out: it only moves the upper end of a draw that starts at 0 for every
count. The draw itself, `Retry-After` and the cap are in `TransientDelays`. `Observe` is what a
request does, `CheckService` and `Enroll` the command, which looks for the service first and
writes later. SQLite is assumed to answer within its timeout, and the refresh of sources not to
raise.

### ProviderReplies and TokenRequests

`ProviderReplies` translates the end of an HTTP call into a result: every failure of
`json_transport_outcome`, every path of the four plugins, the parsing of amounts
(base units, or human units scaled by the decimals the reply tells) and prices,
and the results the runner makes itself. A payload is what a plugin takes from it:
the value at the first place it looks, the one at the next, the minimum, the
metadata (`Metadata`: a name out of `Symbols`, decimals of at most 255). Numbers are whole
or whole and a half; prices are in quarters times `PriceScale`, so a median and a
conversion stay whole.

`TokenRequests` follows a request from `Arrive` to its answer: `ResolveVaults` (the result of a
resolution, whose inner steps are in `VaultResolution`), `Collect` (any combination of ends of
the calls, whose inner steps are in `ProviderRunner`, with the conversion back to the caller's
tokens), then the steps of `TokenMetadataResolver._resolve`: `ReadCache`, `FetchOnchain`,
`Persist`, `Enroll`. Only these touch what requests share, so only these interleave in an
interesting way. The order of the providers, the choice of the answer and the summary are
operators, evaluated in the state in which results are complete: `ByFirstMention` is the list
the loops of `build_provider_order` append to, `AmountAt` the amount at a place of the sorted
ones, and `Rank` the place of a provider in the sorted results. `HintsFromRefs` has the request
name a native token before any provider does, as the resolver's `refs` have it. `CallsFail` is
admission refused, or the assets of an amount of shares past uint256 (any result raises then,
and the request ends with 500). Left out: chains that are not enabled, the deviation in basis
points, logo URLs, the `source` column, times, gas, routes, price impact, and the cancellation
of a request.

## 3. What is checked

| run | instance | shows |
|---|---|---|
| `circuit_calls` | one scope, 3 calls of up to 2, threshold and window 2, opening 3, 2 probes, cap 4, Retry-After 0, 3, 5, 6, clock to 12 | `NoSlotLeak`, `NeverWedged`: every slot taken is a probe in flight and an idle lapsed scope admits; `CooldownHonoured`, `LockoutBounded`: a cooldown is neither cut short nor longer than the cap; `OpensOnEvidence`: a closed scope opens exactly when failures inside the window reach the threshold, or on a rate limit; `ProbesBounded`, `OnlyProbesInFlight`: in a half-open period the calls in flight are its probes, and there are at most `half_open_probe_count` |
| `circuit_short_cooldown` | Retry-After 1, calls of up to 2 | `ProbesBounded` fails: see section 6 |
| `limiters_waiting` | 3 tasks, limiters of capacity 3 and 1, requests of 1, 2 and 4 units | `Accounting`, `CapacityRespected`, `NoLostWakeup`, the refinement `GateSpec`, and `WaitsEnd` |
| `runner_safety` | 2 requests, plans `<<p3, p1>>`, `<<p2, p1>>`, lanes of 1, 2 global units, fan-out 1, threshold 1, answers ok and rate limited, one quote that may pass uint256 | `UpstreamBounded`, `NothingLeaks`, `IdleScopesFree`, `OneResultEach`, through openings, cooldowns, half-open periods, refusals of a lane and of global units, results that raise |
| `runner_liveness` | 3 requests in crossed order, lanes and global limit of 1, providers that never answer, one unsupported plugin, one quote that may pass uint256 | `RequestsEnd` |
| `vault_caches` | 2 slots used again and again, price of `a` and quote of `b` in, `a` out, `a` becoming or ceasing to be a vault of either kind, TTLs 2 and 6, caches of one entry, 3 units, clock to 5 | `AnswersFresh`, `NoOlderMiss`, `NothingKept` |
| `vault_liveness` | the same requests with one permit and 2 units | `ResolutionsEnd` |
| `vault_block` | a price, an unchanging vault | `BlockOfRate` fails: see section 6 |
| `transport_recycling` | a price and a quote, 2 attempts, 4 clients, grace, window and threshold 2, TTL 3, clock to 6 | `CallsKeepClient`, `RecycledOnEvidence`, `ReadinessTracksTimeouts` |
| `keys_processes` | a request in each of two servers, one key that may expire, be revoked and get another limit, one client address, windows of 1, for anonymous clients of 3, clock to 3, set back by 1 | `ServedRightly`, `QuotaHolds`, `AnonymousOncePerWindow` |
| `logos_maintenance` | 3 tokens in batches of 2, one attempt at a time, a reply that cannot be stored, restarts, refreshes, the command | `NeverForgotten`, `SuccessTerminal`, `DueTried` |
| `requests_answered` | a slot for prices and quotes through no vault, one and two, a slot for `/v1/token`; 4 ends of a quote's call, 3 of a price's; uint256 is 40 | `AnswerRight`, `KnownStaysKnown` |

The instances are the smallest where the interesting case occurs: capacity 3 with weights 1 and
2 lets a waiter be notified in vain; 4 units exceed both capacities; three calls are enough for
a probe, a call from before the opening and a further one to be refused; two crossed plans close
the hold-and-wait circle and the third request contends from outside. Two detections of one
token and a third after them (a slot used again) are what it takes to store verdicts in the
wrong order and to read them back; the negative TTL, three times the positive one, outlasts a
vault's entry long enough for a miss of before it to be too old; one cache entry makes the
quote's tokens evict each other. With lanes of 1 and a plugin of its own before the shared one,
a request is refused a lane while it holds another, with the probe slots of both. The clean-up
of anonymous clients never forgets a window still running, because its retention is at least
three intervals; a shorter one, which the mutant has, does within these bounds. The slots of
`vault_caches` are symmetric: nothing distinguishes them. Four clients are a current one, two
that wait for their grace and one more replacement; two servers are what it takes to count and
clean up behind each other's back; batches of 2 of 3 tokens leave one out, and two generations
let attempts of a batch that was given up run beside the next. One row's reply cannot be stored,
so a batch always has room for another (section 6). With the vaults' rates of 1.5 and 0.5 and 40
for uint256, amounts round down to nothing, fit, and overflow, on the way in and on the way out.
Deadlock is checked except where the system, or the model at its bound, may stop:
`transport_recycling` ends with shutdown.

Fairness. `CapacityLimiters`: the loop runs a ready waiter and timers fire, weak
fairness per task. `ProviderRunner`: timers fire (weak fairness of
`WaitExpires`), and the loop runs ready callbacks first in, first out, so a
request that is ready again and again gets its turn: strong fairness, since other
requests that run in between disable its steps for a moment. Of the steps past an
expired wait, `RefuseLane` and `Overloaded` have strong fairness of their own: a
timer that fired throws the waiter out at its next turn. Cancelled plugins are assumed to finish
their clean-up; a provider's answer is never assumed, nor is a request's arrival
or cancellation. `VaultResolution`: strong fairness of each request's own steps, for
the same reason; that its RPC calls end is the client's timeout, and which way they
end is left open. `TokenLogos`: weak fairness of the maintenance task, whose steps no other
task disables, and of each attempt: every candidate answers or times out.

## 4. What is proved

The theorems hold for every value of the constants that meets the assumptions of the
modules: any finite number of calls, requests, tasks or tokens, and numbers that are
positive where the settings must be. Bounds such as `MaxTime`, `MaxCount` and `MaxClients`
are constants like the others, so they stand for any length of a run. Every safety
invariant the runs check is proved; so are the four action properties
`OpensOnEvidence`, `RecycledOnEvidence`, `SuccessTerminal` and `KnownStaysKnown`. Each inductive
invariant was checked by TLC on the instance of its run before it was proved.

| module | theorem | property |
|---|---|---|
| `CircuitBreakerProofs` | `TypeCorrect`, `SlotsNeverLeak`, `ScopesRecover`, `CooldownsHold`, `LockoutsEnd`, `OpensRightly` | `TypeOK`, `NoSlotLeak`, `NeverWedged`, `CooldownHonoured`, `LockoutBounded`, `OpensOnEvidence` |
| | `ProbesStayBounded`, `ProbesDecide`, both under `ShortCalls` | `ProbesBounded`, `OnlyProbesInFlight` |
| `CapacityLimitersProofs` | `TypeCorrect`, `UnitsAccounted`, `CapacityHolds`, `WakeupsArrive`, `LimitersImplementGate` | `TypeOK`, `Accounting`, `CapacityRespected`, `NoLostWakeup`, `GateSpec` |
| `ProviderRunnerProofs` | `TypeCorrect`, `ResultsComplete`, `NothingIsLeaked`, `ProbeSlotsReturn`, `CallsBounded` | `TypeOK`, `OneResultEach`, `NothingLeaks`, `IdleScopesFree`, `UpstreamBounded` |
| | `RunnerUsesLimiters`, `RunnerUsesBreaker` | the specifications of the two components |
| `VaultResolutionProofs` | `TypeCorrect`, `AnswersWereTrue`, `MissesNotOlder`, `NothingIsKept` | `TypeOK`, `AnswersFresh`, `NoOlderMiss`, `NothingKept` |
| | `UsesGate` | the specification of `CapacityGate` |
| `HttpTransportProofs` | `TypeCorrect`, `ClientsOutliveCalls`, `RecyclesOnEvidence`, `ReadinessFollows` | `TypeOK`, `CallsKeepClient`, `RecycledOnEvidence`, `ReadinessTracksTimeouts` |
| `ApiKeysProofs` | `TypeCorrect`, `ServesRightly`, `QuotasHold`, `AnonymousOnce` | `TypeOK`, `ServedRightly`, `QuotaHolds`, `AnonymousOncePerWindow` |
| `TokenLogosProofs` | `TypeCorrect`, `NothingForgotten`, `SuccessIsTerminal` | `TypeOK`, `NeverForgotten`, `SuccessTerminal` |
| `TokenRequestsProofs` | `TypeCorrect`, `AnswersRight`, `KnownIsKept` | `TypeOK`, `AnswerRight`, `KnownStaysKnown` |

How the arguments go, and why the properties need strengthening:

- Circuit breaker. Types first (`TypeCorrect`). `NoSlotLeak` is not inductive alone: it needs
  that probes are in flight and that a scope that is not half open counts none, since slots are
  handed out when a period starts. With `SlotsNeverLeak`, `ScopesRecover` (`NeverWedged`)
  follows by counting. `CooldownsHold` strengthens the property by the relation of `promised` to
  the two dictionaries, which says that inside a cooldown `record_result` is shielded or reopens
  with a later end; `LockoutsEnd` bounds every path through `_open`. `ProbesStayBounded` and
  `ProbesDecide` assume `ShortCalls`: from it follows that a call in flight on a lapsed scope
  was admitted after the opening, so it is a probe, so the counter is exactly the number of
  probes. `OpensRightly` needs that the deque of a closed scope is the end of the evidence, in
  order, and that what was pruned from it is older than the window (`FailuresEndEvidence`); its
  length is then a count of evidence.
- Limiters. `UnitsAccounted` counts tokens, one per unit held, which turns the
  sum over tasks into a cardinality: taking or returning units adds or removes a
  set of tokens that is disjoint from, or part of, the rest. `CapacityHolds`
  follows, `WakeupsArrive` needs that waiters ask for units within capacity and
  that only `Release`, which notifies all, lowers a counter.
  `LimitersImplementGate` is the refinement: the clamp at zero never acts,
  because of the accounting, and all steps of waiting are stutters.
- Runner. `ProviderRunnerProofs` instantiates the two proof modules above with the runner's
  calls, scopes and limiters, and its invariant contains theirs: what is left to show is that
  each step of the runner is a step of each component or leaves it alone. To that end the
  runner's own books are related to the components': the scopes a request has yet to record are
  its calls in flight at the breaker, its reservations what it holds, and what has become of
  each plugin fits the phase of the request (`FatesIn`, `LoopInv`, `OwnedInv`). A lost request
  is one of the quotes past uint256 and waits for no limiter; it keeps what it was admitted for,
  so `ProbeSlotsReturn` counts: the probes in flight on an idle scope are calls of lost
  requests, one each. `CallsBounded` maps the calls under way one to one to units held, whose
  number the limiters' accounting and capacity bound.
- Vault resolution. `AnswersFresh` speaks of requests, but a request may have its
  answer from a cache, and an entry comes from a detection that was two calls long:
  so `CacheInv` dates every entry back to a moment when it was true, and `StageInv`
  keeps, between the two calls of a detection, that the first told the truth. The
  assumption `OneKindEach` is about the chain: a contract does not turn from one kind of vault
  into the other. `NoOlderMiss` relates what two requests were told, between which the entry of
  the first may be gone. `OrderInv` adds what holds beside that invariant: an entry that says a
  token is no vault was stored no earlier than any rate that was told of it. Storing a vault clears
  the misses before it, and a detection under way is at most two calls old, hence the two calls
  of the property. `NothingKept` needs that nobody is in the line twice.
- Transport. `CallsKeepClient` needs that a request uses a client up to the current one,
  and that a retired one closes no earlier than a grace after the start of each request that
  uses it (`Clientele`). For the pool timeouts the deque is related to the history as in the breaker
  (`DequeEndsEvidence`), so that pruning by age and clearing on recycling count the same.
- API keys. `ServedRightly` follows a request from the row it read, through the touch, to what
  it is let through with. For `QuotaHolds`, what was let through in a window is at most what the
  table has counted, until a clean-up may remove the row (`Accounts`); by then, says `Recency`,
  nobody is left who read the clock in that window and may still count. That is where `MaxStall`
  and `MaxStep` have to be within the retention. For anonymous clients the slot of the limiter
  is related to the grants of its window (`AnonymousKnown`).
- Logos. A token without an image keeps its time while an attempt runs, so it is due again
  whatever ends the process (`Remembered`, for tokens that are not enrolled yet as well). For
  `SuccessTerminal`, no attempt is under way on a row that is done, unless a batch was given
  up (`DoneIsIdle`, `OneBatch`).
- Requests. First, that every reply of every provider becomes a result whose amounts are in
  order (`PluginsAnswer`), whatever numbers it holds. The invariant then says what a request was
  asked (`AskInv`), that its results are what the providers reported, converted
  (`ResultsInv`), and that what it merged keeps what it read (`TableInv`).
  `KnownIsKept` follows, since only `Persist` writes rows, and it writes what was merged.
  For `AnswersRight`, dividing by the rate gives the one number of shares that the assets
  are worth (`SharesWorth`), so the results that are successful are those whose answer can
  be used (`AnswersConverted`); the order has each of them at the place its
  list names it first (`OrderRanks`), so the first successful one is the preferred one
  (`PreferredServed`). For the summary there is an amount at every place of the sorted ones
  (`EveryPlace`), and as many on either side of it as its place says.

Where a proof failed for a good reason the model was wrong, and was put right: the
parsing of a quote and the bounds of an amount had alternatives that
overlapped, the hints of a native token came from the providers, and `TypeOK` called the tokens of
every request canonical, which the asset of a vault need not be.

Only model-checked: liveness (`WaitsEnd`, `RequestsEnd`, `ResolutionsEnd`, `DueTried`),
which is out of the prover's reach; and the two violations of section 6, which are
counterexamples.

## 5. Plan

Done: all modules of section 2, and the theorems of section 4.

What is left: the proofs may be carried further along the seams between modules, such
as that the results `Collect` picks from contain those the runner of `ProviderRunner` can
end with, and that `ResolveVaults` agrees with the answers of `VaultResolution`. Of the
code, the monitor of Enso's credits and the serving of logos are not modelled
(section 7).

## 6. Disagreement with the repository's own statements

`circuit_short_cooldown`. `tests/unit/test_circuit.py:50-51` asserts that with
one probe out the next call is refused. The run shows an order of calls where it
is not: a call is admitted while the scope is closed; another is answered 429
with `Retry-After: 1`; a second later a probe is admitted; the first call ends
and `release_probe` or `record_result`, seeing the scope half open, gives back a
slot that is the probe's; a second probe is admitted. It needs an opening shorter
than a request. With the shipped numbers (15 s open, requests of about 2 s) only
a provider's short `Retry-After` gets there, and the effect is one extra call.

`vault_block`. `SPEC.md:364` lists the "block number used" among the fields of
`vault_context`, next to `price_per_share`. The run shows a response whose rate
was read at one block and whose number is a later one: the number comes from a
separate call after detection (`vault/resolver.py:81` and `:151`), and the rate
may moreover come from the cache, up to 30 seconds old. Whoever repeats the read
at the reported block may find another rate.

Beside these runs, two limits of the code that no document speaks of. A quote whose assets pass
uint256, cancelled while `finally` waits for the calls it has just cancelled
(`core/provider_runner.py:223`), skips the lines after, and never gives back its lanes, global
units and probe slots; the tests cancel a request during its calls
(`tests/unit/test_provider_runner.py:20`) and during admission (`:61`). `NothingLeaks` and
`IdleScopesFree` except such a request. And a miss that was read before a token became a vault
may be cached after the vault was found, and answer again for up to the negative TTL when the
vault's entry has lapsed: `NoOlderMiss` and `AnswersFresh` say how old it can be.

Four more statements of the documents hold only with a reservation, which the properties
spell out or leave room for:

- `README.md:402` calls successful images terminal. While attempts of a batch that
  was given up overlap with the next batch, one may fail after another one has
  succeeded and give the token a new time; the image itself stays. `SuccessTerminal`
  excepts this with `givenUp`. A row whose result can never be stored is moreover
  tried at every poll, without backoff, and comes first in every batch: `DueTried` is checked with
  fewer such rows than a batch holds; a whole batch of them keeps all other rows out.
- `README.md:391` puts an existing cache entry first. Requests that overlap write
  back whole rows they merged from an earlier read, so what one has learnt
  meanwhile may be lost or replaced; `KnownStaysKnown` says that nothing else loses it.
- `README.md:205` and `docs/src/operations.md:52` speak of once per interval. The
  windows are aligned to the clock, so two requests may be let through in
  quick succession on either side of a boundary; `AnonymousOncePerWindow` is about windows.
- `docs/src/api.md:424` says that `amount_in` mirrors the request. For a provider that
  failed, a quote through an input vault shows the assets instead, because only
  successful results get the caller's amount back (`core/vault_underlying.py:312`).

## 7. Not modelled

Configuration (read once, its numbers are the constants of the modules) and
observability (counters and log lines that nothing reads back). Of the registry
and the plugins: how URLs and queries are built, the monitor of Enso's credits,
start and close. Of the routes: the serving of logo bytes with its ETags, the
listing of providers, health and metrics, which change nothing. Of the commands:
those that only list. `circuit_open_providers` and `provider_used_units` only read.

## 8. Running

    tlc -workers 2 -config CircuitBreaker_calls.cfg MCCircuitBreaker
    tlapm CircuitBreakerProofs.tla

Each proof module is checked in one to three minutes.

`PROJECT.json` lists all runs with their configuration, the source lines each
definition stands for, and the hazards the properties are meant for. The longest
run, `keys_processes`, takes two to three minutes with two workers.
