--------------------------- MODULE CircuitBreaker ---------------------------
(***************************************************************************)
(* The provider circuit breaker of core/circuit.py together with the calls *)
(* that use it.  A scope is one (provider, chain, operation); a call is    *)
(* one provider invocation of one request: it asks the breaker for         *)
(* admission, stays in flight while others run, and ends exactly once, by  *)
(* handing its result to record_result or by giving its slot back with     *)
(* release_probe.                                                          *)
(*                                                                         *)
(* Conventions.  The monotonic clock is a natural number that starts at 1, *)
(* so that 0 stands for an absent dictionary entry of openUntil and        *)
(* rateLimitUntil; an absent deque is the empty sequence and an absent     *)
(* in-flight counter is 0, which is how the code reads both.               *)
(***************************************************************************)
EXTENDS Integers, Sequences, FiniteSets

CONSTANTS
    Scopes,              \* the CircuitScope values in use
    Calls,               \* identities of provider invocations
    ScopeOf,             \* the scope each call is made on
    FailureWindow,       \* failure_window_s
    FailureThreshold,    \* failure_threshold
    OpenDuration,        \* open_duration_s
    ProbeCount,          \* half_open_probe_count
    MaxRateLimitBackoff, \* _MAX_RATE_LIMIT_BACKOFF_S
    RetryAfters,         \* Retry-After values a provider answers, 0: absent
    CallLife,            \* no call stays in flight longer than this
    MaxTime              \* bound on the clock

ASSUME CircuitAssumption ==
    /\ ScopeOf \in [Calls -> Scopes]
    /\ IsFiniteSet(Calls)
    /\ FailureWindow \in Nat \ {0}
    /\ FailureThreshold \in Nat \ {0}
    /\ OpenDuration \in Nat \ {0}
    /\ ProbeCount \in Nat \ {0}
    /\ MaxRateLimitBackoff \in Nat \ {0}
    /\ RetryAfters \subseteq Nat
    /\ CallLife \in Nat
    /\ MaxTime \in Nat

VARIABLES
    now,              \* time.monotonic()
    failures,         \* _failures
    openUntil,        \* _open_until
    rateLimitUntil,   \* _rate_limit_until
    halfOpenInflight, \* _half_open_inflight
    state,            \* _state
    since             \* when each call in flight was admitted, 0: not in flight

\* History, read by the properties only.
VARIABLES
    probes,   \* the calls admitted by the half-open period their scope is in
    promised, \* end of the longest cooldown a provider has asked for
    evidence  \* failures counted against a closed scope since it last recovered

breaker == <<failures, openUntil, rateLimitUntil, halfOpenInflight, state>>
history == <<probes, promised, evidence>>
vars == <<now, breaker, since, history>>

-----------------------------------------------------------------------------
(* Results: what the breaker reads of a PriceResult or a QuoteResult.      *)

Retriable == {"TIMEOUT", "UPSTREAM_HTTP", "INTERNAL_TRANSPORT_TIMEOUT"}

Result(status, error, retryAfter) ==
    [status |-> status, error |-> error, retryAfter |-> retryAfter]

\* One result of each kind the breaker tells apart, and the two neutral ones
\* the runner makes up for a call that is late or raises.
Results ==
    { Result("ok", "none", 0),
      Result("no_route", "NO_ROUTE", 0),
      Result("bad_request", "UPSTREAM_HTTP", 0),
      Result("error", "UPSTREAM_HTTP", 0),
      Result("error", "DEADLINE_EXCEEDED", 0),
      Result("error", "INTERNAL", 0) }
      \cup {Result("error", "RATE_LIMITED", after) : after \in RetryAfters}

\* A result that counts against the provider (_is_circuit_failure).
IsCircuitFailure(res) ==
    /\ res.status \notin {"bad_request", "no_route"}
    /\ res.error \in Retriable

\* A result that shows the provider answering (closes a half-open circuit).
IsAnswer(res) == res.status \in {"ok", "no_route", "bad_request"}

Larger(a, b) == IF a < b THEN b ELSE a
Smaller(a, b) == IF a < b THEN a ELSE b

\* The cap on a rate-limit cooldown.
LargestDelay == Larger(OpenDuration, MaxRateLimitBackoff)

\* Mutant: Retry-After is not capped.
RateLimitDelayUncapped(res) == IF res.retryAfter = 0 THEN OpenDuration ELSE res.retryAfter

\* Mutant: an answer without Retry-After does not fall back to the open duration.
RateLimitDelayNoDefault(res) == Smaller(res.retryAfter, LargestDelay)

\* How long a rate-limit answer shuts the scope for.
RateLimitDelay(res) ==
    Smaller(IF res.retryAfter = 0 THEN OpenDuration ELSE res.retryAfter, LargestDelay)

\* Mutant: a failure exactly as old as the window is dropped.
PrunedEarly(times, cutoff) ==
    LET stale == {i \in DOMAIN times : \A j \in 1..i : times[j] <= cutoff}
    IN  SubSeq(times, Cardinality(stale) + 1, Len(times))

\* The deque without the stale failures at its head.
Pruned(times, cutoff) ==
    LET stale == {i \in DOMAIN times : \A j \in 1..i : times[j] < cutoff}
    IN  SubSeq(times, Cardinality(stale) + 1, Len(times))

ProbesOf(s) == {c \in probes : ScopeOf[c] = s}

-----------------------------------------------------------------------------
(* The breaker's own steps.                                                *)

\* Mutant: the slots of the probes stay taken.
OpenKeepsSlots(s, delay) ==
    /\ failures' = [failures EXCEPT ![s] = <<>>]
    /\ openUntil' = [openUntil EXCEPT ![s] = Larger(@, now + delay)]
    /\ state' = [state EXCEPT ![s] = "open"]
    /\ probes' = probes \ ProbesOf(s)
    /\ UNCHANGED halfOpenInflight

\* _open, leaving _rate_limit_until to the caller.
Open(s, delay) ==
    /\ failures' = [failures EXCEPT ![s] = <<>>]
    /\ halfOpenInflight' = [halfOpenInflight EXCEPT ![s] = 0]
    /\ openUntil' = [openUntil EXCEPT ![s] = Larger(@, now + delay)]
    /\ state' = [state EXCEPT ![s] = "open"]
    /\ probes' = probes \ ProbesOf(s)

\* _close
Close(s) ==
    /\ failures' = [failures EXCEPT ![s] = <<>>]
    /\ halfOpenInflight' = [halfOpenInflight EXCEPT ![s] = 0]
    /\ openUntil' = [openUntil EXCEPT ![s] = 0]
    /\ rateLimitUntil' = [rateLimitUntil EXCEPT ![s] = 0]
    /\ state' = [state EXCEPT ![s] = "closed"]
    /\ probes' = probes \ ProbesOf(s)
    /\ evidence' = [evidence EXCEPT ![s] = <<>>]
    /\ UNCHANGED promised

\* Mutants: the slot is kept, freed by the result and by the clean-up without the
\* clamp, or all slots are freed.
FreedProbeKept(s) == halfOpenInflight
FreedProbeTwice(s) ==
    IF state[s] = "half_open" THEN [halfOpenInflight EXCEPT ![s] = @ - 2] ELSE halfOpenInflight
FreedProbeAll(s) == [halfOpenInflight EXCEPT ![s] = 0]

\* The value release_probe leaves in _half_open_inflight.
FreedProbe(s) ==
    IF state[s] = "half_open"
    THEN [halfOpenInflight EXCEPT ![s] = Larger(@ - 1, 0)]
    ELSE halfOpenInflight

-----------------------------------------------------------------------------
(* allow *)

AllowClosed(c) ==
    LET s == ScopeOf[c] IN
    /\ since[c] = 0
    /\ openUntil[s] = 0
    /\ state' = [state EXCEPT ![s] = "closed"]
    /\ since' = [since EXCEPT ![c] = now]
    /\ UNCHANGED <<now, failures, openUntil, rateLimitUntil, halfOpenInflight, history>>

RefuseOpen(c) ==
    LET s == ScopeOf[c] IN
    /\ since[c] = 0
    /\ now < openUntil[s]
    /\ state' = [state EXCEPT ![s] = "open"]
    /\ UNCHANGED <<now, failures, openUntil, rateLimitUntil, halfOpenInflight, since, history>>

\* The opening has lapsed: the scope is half open from here on.
Lapsed(s) == openUntil[s] # 0 /\ openUntil[s] <= now

AllowProbe(c) ==
    LET s == ScopeOf[c] IN
    /\ since[c] = 0
    /\ Lapsed(s)
    /\ halfOpenInflight[s] < ProbeCount
    /\ state' = [state EXCEPT ![s] = "half_open"]
    /\ halfOpenInflight' = [halfOpenInflight EXCEPT ![s] = @ + 1]
    /\ since' = [since EXCEPT ![c] = now]
    /\ probes' = probes \cup {c}
    /\ UNCHANGED <<now, failures, openUntil, rateLimitUntil, promised, evidence>>

RefuseProbe(c) ==
    LET s == ScopeOf[c] IN
    /\ since[c] = 0
    /\ Lapsed(s)
    /\ halfOpenInflight[s] >= ProbeCount
    /\ state' = [state EXCEPT ![s] = "half_open"]
    /\ UNCHANGED <<now, failures, openUntil, rateLimitUntil, halfOpenInflight, since, history>>

Allow(c) == AllowClosed(c) \/ AllowProbe(c)
Refuse(c) == RefuseOpen(c) \/ RefuseProbe(c)

-----------------------------------------------------------------------------
(* record_result *)

RecordRateLimited(c, res) ==
    LET s == ScopeOf[c] IN
    /\ res.error = "RATE_LIMITED"
    /\ Open(s, RateLimitDelay(res))
    /\ rateLimitUntil' = [rateLimitUntil EXCEPT ![s] = openUntil'[s]]
    /\ promised' = [promised EXCEPT ![s] = Larger(@, now + RateLimitDelay(res))]
    /\ UNCHANGED evidence

\* A result that arrives during a cooldown changes nothing.
RecordDuringCooldown(c, res) ==
    /\ res.error # "RATE_LIMITED"
    /\ now < rateLimitUntil[ScopeOf[c]]
    /\ probes' = probes \ {c}
    /\ UNCHANGED <<breaker, promised, evidence>>

\* Mutant: the cooldown does not shield the scope.
CountsInCooldown(c, res) == res.error # "RATE_LIMITED"

Counts(c, res) == res.error # "RATE_LIMITED" /\ rateLimitUntil[ScopeOf[c]] <= now

RecordHalfOpen(c, res) ==
    LET s == ScopeOf[c] IN
    /\ Counts(c, res)
    /\ state[s] = "half_open"
    /\ \/ /\ IsCircuitFailure(res)
          /\ Open(s, OpenDuration)
          /\ UNCHANGED <<rateLimitUntil, promised, evidence>>
       \/ /\ ~IsCircuitFailure(res)
          /\ IsAnswer(res)
          /\ Close(s)
       \/ /\ ~IsCircuitFailure(res)
          /\ ~IsAnswer(res)
          /\ halfOpenInflight' = FreedProbe(s)
          /\ probes' = probes \ {c}
          /\ UNCHANGED <<failures, openUntil, rateLimitUntil, state, promised, evidence>>

RecordSuccess(c, res) ==
    /\ Counts(c, res)
    /\ state[ScopeOf[c]] # "half_open"
    /\ res.status = "ok"
    /\ Close(ScopeOf[c])

RecordNeutral(c, res) ==
    /\ Counts(c, res)
    /\ state[ScopeOf[c]] # "half_open"
    /\ res.status # "ok"
    /\ ~IsCircuitFailure(res)
    /\ probes' = probes \ {c}
    /\ UNCHANGED <<breaker, promised, evidence>>

RecordFailure(c, res) ==
    LET s == ScopeOf[c]
        recent == Pruned(Append(failures[s], now), now - FailureWindow)
    IN
    /\ Counts(c, res)
    /\ state[s] # "half_open"
    /\ res.status # "ok"
    /\ IsCircuitFailure(res)
    /\ \/ /\ Len(recent) >= FailureThreshold
          /\ Open(s, OpenDuration)
       \/ /\ Len(recent) < FailureThreshold
          /\ failures' = [failures EXCEPT ![s] = recent]
          /\ probes' = probes \ {c}
          /\ UNCHANGED <<openUntil, halfOpenInflight, state>>
    /\ evidence' = IF openUntil[s] = 0
                   THEN [evidence EXCEPT ![s] = Append(@, now)]
                   ELSE evidence
    /\ UNCHANGED <<rateLimitUntil, promised>>

RecordResult(c, res) ==
    /\ since[c] # 0
    /\ since' = [since EXCEPT ![c] = 0]
    /\ UNCHANGED now
    /\ \/ RecordRateLimited(c, res)
       \/ RecordDuringCooldown(c, res)
       \/ RecordHalfOpen(c, res)
       \/ RecordSuccess(c, res)
       \/ RecordNeutral(c, res)
       \/ RecordFailure(c, res)

\* release_probe: a call admitted by the breaker that never produced a result
\* (no capacity, or its request was cancelled) gives its slot back.
ReleaseProbe(c) ==
    /\ since[c] # 0
    /\ since' = [since EXCEPT ![c] = 0]
    /\ halfOpenInflight' = FreedProbe(ScopeOf[c])
    /\ probes' = probes \ {c}
    /\ UNCHANGED <<now, failures, openUntil, rateLimitUntil, state, promised, evidence>>

\* Time passes; no call outlives CallLife (its request has a deadline).
Tick ==
    /\ now < MaxTime
    /\ \A c \in Calls : since[c] # 0 => now < since[c] + CallLife
    /\ now' = now + 1
    /\ UNCHANGED <<breaker, since, history>>

-----------------------------------------------------------------------------
Init ==
    /\ now = 1
    /\ failures = [s \in Scopes |-> <<>>]
    /\ openUntil = [s \in Scopes |-> 0]
    /\ rateLimitUntil = [s \in Scopes |-> 0]
    /\ halfOpenInflight = [s \in Scopes |-> 0]
    /\ state = [s \in Scopes |-> "unset"]
    /\ since = [c \in Calls |-> 0]
    /\ probes = {}
    /\ promised = [s \in Scopes |-> 0]
    /\ evidence = [s \in Scopes |-> <<>>]

CallStep(c) ==
    \/ Allow(c)
    \/ Refuse(c)
    \/ \E res \in Results : RecordResult(c, res)
    \/ ReleaseProbe(c)

Next == Tick \/ \E c \in Calls : CallStep(c)

Spec == Init /\ [][Next]_vars

-----------------------------------------------------------------------------
(* Properties *)

\* Every variable has the type of the dictionary it stands for.
TypeOK ==
    /\ now \in Nat \ {0}
    /\ failures \in [Scopes -> Seq(Nat)]
    /\ openUntil \in [Scopes -> Nat]
    /\ rateLimitUntil \in [Scopes -> Nat]
    /\ halfOpenInflight \in [Scopes -> Nat]
    /\ state \in [Scopes -> {"unset", "closed", "open", "half_open"}]
    /\ since \in [Calls -> Nat]
    /\ probes \subseteq Calls
    /\ promised \in [Scopes -> Nat]
    /\ evidence \in [Scopes -> Seq(Nat)]

\* Every slot a half-open circuit counts as taken belongs to a probe that is
\* still in flight: release_probe and record_result between them leak none.
NoSlotLeak ==
    /\ \A c \in probes : since[c] # 0
    /\ \A s \in Scopes : halfOpenInflight[s] <= Cardinality(ProbesOf(s))

\* A scope whose opening has lapsed and that has nothing in flight is tried
\* again: no history of probes, failures and cancellations wedges it shut.
NeverWedged ==
    \A s \in Scopes :
        /\ openUntil[s] <= now
        /\ \A c \in Calls : ScopeOf[c] = s => since[c] = 0
        => openUntil[s] = 0 \/ halfOpenInflight[s] < ProbeCount

\* docs/src/operations.md: no success, failure or probe, whichever way calls
\* overlap, ends a cooldown before the time the provider asked for.
CooldownHonoured ==
    \A s \in Scopes : now < promised[s] => promised[s] <= openUntil[s]

\* docs/src/operations.md: Retry-After is capped, so no sequence of openings
\* shuts a scope for longer than the cap or the opening time from now.
LockoutBounded ==
    \A s \in Scopes : openUntil[s] <= now + LargestDelay

\* A closed scope opens exactly when the failures since it last recovered that
\* lie in the window reach the threshold; only a rate-limit answer opens it sooner.
RecentEvidence(s) ==
    {i \in DOMAIN evidence'[s] : now - FailureWindow <= evidence'[s][i]}

OpensOnEvidence ==
    [][\A s \in Scopes :
          openUntil[s] = 0 /\ promised'[s] = promised[s]
            => (openUntil'[s] # 0 <=> 
                  /\ evidence'[s] # evidence[s]
                  /\ Cardinality(RecentEvidence(s)) >= FailureThreshold)]_vars

\* At most half_open_probe_count probes of one half-open period are in flight
\* (test_circuit.py asserts the refusal of one more).
ProbesBounded ==
    \A s \in Scopes : Cardinality(ProbesOf(s)) <= ProbeCount

\* While a scope is half open every call in flight on it is one of its probes,
\* so no answer of an earlier period closes or reopens it.
OnlyProbesInFlight ==
    \A c \in Calls :
        since[c] # 0 /\ state[ScopeOf[c]] = "half_open" => c \in probes

\* The condition the last two depend on: every opening outlasts every call.
ShortCalls ==
    /\ CallLife < OpenDuration
    /\ \A res \in Results : CallLife < RateLimitDelay(res)

=============================================================================
