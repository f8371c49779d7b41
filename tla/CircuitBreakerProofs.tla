------------------------ MODULE CircuitBreakerProofs ------------------------
(* Proofs about CircuitBreaker, for every value of its constants.          *)
EXTENDS CircuitBreaker, FiniteSetTheorems, SequenceTheorems, TLAPS

-----------------------------------------------------------------------------
(* Lemmas about the operators.                                             *)

\* Larger and Smaller return naturals and bound their arguments.
LEMMA LargerSmaller ==
    ASSUME NEW a \in Int, NEW b \in Int
    PROVE  /\ Larger(a, b) \in {a, b} /\ Larger(a, b) >= a /\ Larger(a, b) >= b
           /\ Smaller(a, b) \in {a, b} /\ Smaller(a, b) <= a /\ Smaller(a, b) <= b
    BY DEF Larger, Smaller

\* The cap on a rate-limit delay is a natural number no smaller than an opening.
LEMMA LargestDelayType == LargestDelay \in Nat /\ OpenDuration <= LargestDelay
    BY CircuitAssumption DEF CircuitAssumption, LargestDelay, Larger

\* A rate-limit delay is a natural number within the documented cap.
LEMMA DelayBounded ==
    ASSUME NEW res \in Results
    PROVE  /\ RateLimitDelay(res) \in Nat
           /\ RateLimitDelay(res) <= LargestDelay
    <1>1. res.retryAfter \in {0} \cup RetryAfters
        BY DEF Results, Result
    <1>2. \A after \in RetryAfters : after \in Nat
        BY CircuitAssumption DEF CircuitAssumption
    <1>3. res.retryAfter \in Nat
        BY <1>1, <1>2
    <1>4. OpenDuration \in Nat /\ MaxRateLimitBackoff \in Nat
        BY CircuitAssumption DEF CircuitAssumption
    <1>5. QED
        BY <1>3, <1>4 DEF RateLimitDelay, LargestDelay, Larger, Smaller

\* Pruning a deque of times leaves a deque of times.
LEMMA PrunedType ==
    ASSUME NEW times \in Seq(Nat), NEW cutoff \in Int
    PROVE  Pruned(times, cutoff) \in Seq(Nat)
    <1> DEFINE stale == {i \in DOMAIN times : \A j \in 1..i : times[j] < cutoff}
    <1>1. DOMAIN times = 1..Len(times) /\ Len(times) \in Nat
        BY LenProperties
    <1>2. IsFiniteSet(1..Len(times)) /\ stale \subseteq 1..Len(times)
        BY <1>1, FS_Interval
    <1>3. Cardinality(stale) \in Nat
        BY <1>2, FS_Subset, FS_CardinalityType
    <1> DEFINE first == Cardinality(stale) + 1
               last == Len(times)
    <1>4. \A i \in first..last : times[i] \in Nat
        BY <1>1, <1>3, ElementOfSeq
    <1>4a. first \in Int /\ last \in Int
        BY <1>1, <1>3
    <1> HIDE DEF first, last
    <1>4b. SubSeq(times, first, last) \in Seq(Nat)
        BY <1>4, <1>4a, SubSeqProperties
    <1>5. SubSeq(times, Cardinality(stale) + 1, Len(times)) \in Seq(Nat)
        BY <1>4b DEF first, last
    <1>6. QED
        BY <1>5 DEF Pruned

\* The probes of a scope form a finite set.
LEMMA ProbesFinite ==
    ASSUME probes \subseteq Calls, NEW s \in Scopes
    PROVE  IsFiniteSet(ProbesOf(s)) /\ Cardinality(ProbesOf(s)) \in Nat
    BY CircuitAssumption, FS_Subset, FS_CardinalityType DEF ProbesOf, CircuitAssumption

\* One probe leaving takes at most one off the count, and none if it was not there.
LEMMA RemoveOne ==
    ASSUME NEW S, IsFiniteSet(S), NEW x
    PROVE  /\ IsFiniteSet(S \ {x})
           /\ Cardinality(S) \in Nat
           /\ Cardinality(S \ {x}) = IF x \in S THEN Cardinality(S) - 1 ELSE Cardinality(S)
    <1>1. CASE x \in S
        BY <1>1, FS_RemoveElement, FS_CardinalityType
    <1>2. CASE x \notin S
        <2>1. S \ {x} = S
            BY <1>2
        <2>2. QED
            BY <1>2, <2>1, FS_CardinalityType
    <1>3. QED
        BY <1>1, <1>2

-----------------------------------------------------------------------------
(* The inductive invariant.                                                *)

\* How the entries of one scope go together.  It is half open only once its
\* opening has lapsed; slots are taken only while it is half open, at most one
\* per probe in flight; a cooldown never outlasts the opening that enforces it
\* and lasts as long as the provider asked; and the opening is within the cap.
ScopeInv(s) ==
    /\ state[s] = "half_open" => Lapsed(s)
    /\ state[s] # "half_open" => halfOpenInflight[s] = 0 /\ ProbesOf(s) = {}
    /\ halfOpenInflight[s] <= Cardinality(ProbesOf(s))
    /\ rateLimitUntil[s] <= openUntil[s]
    /\ now < promised[s] => promised[s] <= rateLimitUntil[s]
    /\ openUntil[s] <= now + LargestDelay

IInv ==
    /\ TypeOK
    /\ \A c \in probes : since[c] # 0
    /\ \A s \in Scopes : ScopeInv(s)

\* The initial state satisfies the inductive invariant.
LEMMA InitIInv == Init => IInv
    <1> SUFFICES ASSUME Init PROVE IInv
        OBVIOUS
    <1>1. \A s \in Scopes : ProbesOf(s) = {}
        BY DEF Init, ProbesOf
    <1>2. Cardinality({}) = 0
        BY FS_EmptySet
    <1>3. TypeOK
        BY CircuitAssumption DEF Init, TypeOK
    <1>4. LargestDelay \in Nat
        BY LargestDelayType
    <1>5. ASSUME NEW s \in Scopes
          PROVE  ScopeInv(s)
        <2>1. /\ state[s] = "unset" /\ now = 1
              /\ halfOpenInflight[s] = 0 /\ rateLimitUntil[s] = 0
              /\ promised[s] = 0 /\ openUntil[s] = 0
            BY DEF Init
        <2>2. QED
            BY <1>1, <1>2, <1>4, <2>1 DEF ScopeInv
    <1>6. QED
        BY <1>3, <1>5 DEF IInv, Init

-----------------------------------------------------------------------------
\* Type correctness is preserved by every step.
LEMMA TypeStep == TypeOK /\ [Next]_vars => TypeOK'
    <1> SUFFICES ASSUME TypeOK, [Next]_vars
                 PROVE  TypeOK'
        OBVIOUS
    <1>a. now \in Nat /\ FailureWindow \in Nat /\ OpenDuration \in Nat
        BY CircuitAssumption DEF TypeOK, CircuitAssumption
    <1>b. \A c \in Calls : ScopeOf[c] \in Scopes
        BY CircuitAssumption DEF CircuitAssumption
    <1>c. \A s \in Scopes, delay \in Nat : 
            Open(s, delay) => /\ failures' \in [Scopes -> Seq(Nat)]
                              /\ openUntil' \in [Scopes -> Nat]
                              /\ halfOpenInflight' \in [Scopes -> Nat]
                              /\ state' \in [Scopes -> {"unset", "closed", "open", "half_open"}]
                              /\ probes' \subseteq Calls
        BY <1>a DEF TypeOK, Open, Larger
    <1>d. \A s \in Scopes :
            Close(s) => /\ failures' \in [Scopes -> Seq(Nat)]
                        /\ openUntil' \in [Scopes -> Nat]
                        /\ rateLimitUntil' \in [Scopes -> Nat]
                        /\ halfOpenInflight' \in [Scopes -> Nat]
                        /\ state' \in [Scopes -> {"unset", "closed", "open", "half_open"}]
                        /\ probes' \subseteq Calls
                        /\ promised' \in [Scopes -> Nat]
                        /\ evidence' \in [Scopes -> Seq(Nat)]
        BY DEF TypeOK, Close
    <1>e. \A s \in Scopes : FreedProbe(s) \in [Scopes -> Nat]
        BY DEF TypeOK, FreedProbe, Larger
    <1>1. CASE Tick
        BY <1>1 DEF TypeOK, Tick, breaker, history
    <1>2. ASSUME NEW c \in Calls, Allow(c)
          PROVE  TypeOK'
        <2>1. CASE AllowClosed(c)
            BY <1>b, <2>1 DEF TypeOK, AllowClosed, history
        <2>2. CASE AllowProbe(c)
            BY <1>b, <2>2 DEF TypeOK, AllowProbe
        <2>3. QED
            BY <1>2, <2>1, <2>2 DEF Allow
    <1>3. ASSUME NEW c \in Calls, Refuse(c)
          PROVE  TypeOK'
        BY <1>3, <1>b DEF TypeOK, Refuse, RefuseOpen, RefuseProbe, history
    <1>4. ASSUME NEW c \in Calls, ReleaseProbe(c)
          PROVE  TypeOK'
        BY <1>4, <1>b, <1>e DEF TypeOK, ReleaseProbe
    <1>5. ASSUME NEW c \in Calls, NEW res \in Results, RecordResult(c, res)
          PROVE  TypeOK'
        <2> DEFINE s == ScopeOf[c]
        <2>0. /\ s \in Scopes
              /\ since' \in [Calls -> Nat]
              /\ now' = now
            BY <1>5, <1>b DEF TypeOK, RecordResult
        <2>1. CASE RecordRateLimited(c, res)
            <3>1. RateLimitDelay(res) \in Nat
                BY DelayBounded
            <3>2. Open(s, RateLimitDelay(res))
                BY <2>1 DEF RecordRateLimited
            <3>3. rateLimitUntil' \in [Scopes -> Nat]
                BY <1>c, <2>0, <2>1, <3>1, <3>2 DEF TypeOK, RecordRateLimited
            <3>4. promised' \in [Scopes -> Nat] /\ evidence' \in [Scopes -> Seq(Nat)]
                BY <1>a, <2>0, <2>1, <3>1 DEF TypeOK, RecordRateLimited, Larger
            <3>5. QED
                BY <1>c, <2>0, <3>1, <3>2, <3>3, <3>4 DEF TypeOK
        <2>2. CASE RecordDuringCooldown(c, res)
            BY <2>0, <2>2 DEF TypeOK, RecordDuringCooldown, breaker
        <2>3. CASE RecordHalfOpen(c, res)
            <3>1. CASE /\ Open(s, OpenDuration)
                       /\ UNCHANGED <<rateLimitUntil, promised, evidence>>
                BY <1>a, <1>c, <2>0, <3>1 DEF TypeOK
            <3>2. CASE Close(s)
                BY <1>d, <2>0, <3>2 DEF TypeOK
            <3>3. CASE /\ halfOpenInflight' = FreedProbe(s)
                       /\ probes' = probes \ {c}
                       /\ UNCHANGED <<failures, openUntil, rateLimitUntil, state, promised, evidence>>
                BY <1>e, <2>0, <3>3 DEF TypeOK
            <3>4. QED
                BY <2>3, <3>1, <3>2, <3>3 DEF RecordHalfOpen
        <2>4. CASE RecordSuccess(c, res)
            BY <1>d, <2>0, <2>4 DEF TypeOK, RecordSuccess
        <2>5. CASE RecordNeutral(c, res)
            BY <2>0, <2>5 DEF TypeOK, RecordNeutral, breaker
        <2>6. CASE RecordFailure(c, res)
            <3> DEFINE recent == Pruned(Append(failures[s], now), now - FailureWindow)
            <3>1. Append(failures[s], now) \in Seq(Nat) /\ now - FailureWindow \in Int
                BY <1>a, <2>0 DEF TypeOK
            <3>2. recent \in Seq(Nat)
                BY <3>1, PrunedType
            <3>3. evidence' \in [Scopes -> Seq(Nat)]
                BY <1>a, <2>0, <2>6 DEF TypeOK, RecordFailure
            <3>4. rateLimitUntil' = rateLimitUntil /\ promised' = promised
                BY <2>6 DEF RecordFailure
            <3>5. CASE Open(s, OpenDuration)
                BY <1>a, <1>c, <2>0, <3>3, <3>4, <3>5 DEF TypeOK
            <3>6. CASE /\ failures' = [failures EXCEPT ![s] = recent]
                       /\ probes' = probes \ {c}
                       /\ UNCHANGED <<openUntil, halfOpenInflight, state>>
                BY <2>0, <3>2, <3>3, <3>4, <3>6 DEF TypeOK
            <3>7. QED
                BY <2>6, <3>5, <3>6 DEF RecordFailure
        <2>7. QED
            BY <1>5, <2>1, <2>2, <2>3, <2>4, <2>5, <2>6 DEF RecordResult
    <1>6. CASE UNCHANGED vars
        BY <1>6 DEF TypeOK, vars, breaker, history
    <1>7. QED
        BY <1>1, <1>2, <1>3, <1>4, <1>5, <1>6 DEF Next, CallStep

-----------------------------------------------------------------------------
(* The inductive invariant is preserved.                                   *)

\* A scope none of whose entries change keeps its invariant.
LEMMA UntouchedScope ==
    ASSUME NEW s \in Scopes, ScopeInv(s), now' = now,
           openUntil'[s] = openUntil[s], rateLimitUntil'[s] = rateLimitUntil[s],
           halfOpenInflight'[s] = halfOpenInflight[s], promised'[s] = promised[s],
           state'[s] = state[s], ProbesOf(s)' = ProbesOf(s)
    PROVE  ScopeInv(s)'
    BY DEF ScopeInv, Lapsed

\* Opening or closing a scope forgets its probes and no others.
LEMMA ForgetProbes ==
    ASSUME NEW s \in Scopes, probes' = probes \ ProbesOf(s)
    PROVE  /\ ProbesOf(s)' = {}
           /\ \A t \in Scopes : t # s => ProbesOf(t)' = ProbesOf(t)
    BY DEF ProbesOf

\* A call that ends leaves the probes of its own scope only.
LEMMA DropProbe ==
    ASSUME NEW c \in Calls, probes' = probes \ {c}
    PROVE  /\ ProbesOf(ScopeOf[c])' = ProbesOf(ScopeOf[c]) \ {c}
           /\ \A t \in Scopes : t # ScopeOf[c] => ProbesOf(t)' = ProbesOf(t)
    BY DEF ProbesOf

\* An opened scope satisfies the invariant, if the cooldown is kept.
LEMMA OpenedScope ==
    ASSUME TypeOK, TypeOK', NEW s \in Scopes, ScopeInv(s), now' = now,
           NEW delay \in Nat, delay <= LargestDelay, Open(s, delay),
           rateLimitUntil'[s] \in {rateLimitUntil[s], openUntil'[s]},
           now < promised'[s] => promised'[s] <= rateLimitUntil'[s]
    PROVE  ScopeInv(s)'
    <1>1. /\ state'[s] = "open" /\ halfOpenInflight'[s] = 0
          /\ openUntil'[s] = Larger(openUntil[s], now + delay)
        BY DEF TypeOK, Open
    <1>2. ProbesOf(s)' = {} /\ Cardinality(ProbesOf(s)') = 0
        BY ForgetProbes, FS_EmptySet DEF Open
    <1>3. /\ openUntil[s] \in Nat /\ rateLimitUntil[s] \in Nat /\ now \in Nat
          /\ LargestDelay \in Nat
        BY LargestDelayType DEF TypeOK
    <1>4. rateLimitUntil'[s] <= openUntil'[s] /\ openUntil'[s] <= now + LargestDelay
        BY <1>1, <1>3 DEF ScopeInv, Larger
    <1>5. QED
        BY <1>1, <1>2, <1>4 DEF ScopeInv

\* A closed scope satisfies the invariant, if no cooldown is running.
LEMMA ClosedScope ==
    ASSUME TypeOK, NEW s \in Scopes, ScopeInv(s), now' = now,
           Close(s), rateLimitUntil[s] <= now
    PROVE  ScopeInv(s)'
    <1>1. /\ state'[s] = "closed" /\ halfOpenInflight'[s] = 0
          /\ openUntil'[s] = 0 /\ rateLimitUntil'[s] = 0 /\ promised' = promised
        BY DEF TypeOK, Close
    <1>2. ProbesOf(s)' = {} /\ Cardinality(ProbesOf(s)') = 0
        BY ForgetProbes, FS_EmptySet DEF Close
    <1>3. /\ now \in Nat /\ LargestDelay \in Nat
          /\ rateLimitUntil[s] \in Nat /\ promised[s] \in Nat
        BY LargestDelayType DEF TypeOK
    <1>4. ~(now < promised[s])
        BY <1>3 DEF ScopeInv
    <1>5. QED
        BY <1>1, <1>2, <1>3, <1>4 DEF ScopeInv

\* A call that frees its slot, or has none to free, keeps its scope's invariant.
LEMMA FreedScope ==
    ASSUME IInv, NEW c \in Calls, now' = now,
           halfOpenInflight' = FreedProbe(ScopeOf[c]), probes' = probes \ {c},
           UNCHANGED <<openUntil, rateLimitUntil, state, promised>>
    PROVE  \A s \in Scopes : ScopeInv(s)'
    <1> DEFINE t == ScopeOf[c]
    <1>1. t \in Scopes
        BY CircuitAssumption DEF CircuitAssumption
    <1>2. ASSUME NEW s \in Scopes, s # t
          PROVE  ScopeInv(s)'
        <2>1. halfOpenInflight'[s] = halfOpenInflight[s]
            BY <1>2 DEF FreedProbe, IInv, TypeOK
        <2>2. ProbesOf(s)' = ProbesOf(s)
            BY <1>2, DropProbe
        <2>3. QED
            BY <2>1, <2>2, UntouchedScope DEF IInv
    <1>3. ScopeInv(t)'
        <2>1. ProbesOf(t)' = ProbesOf(t) \ {c}
            BY DropProbe
        <2>2. ScopeInv(t) /\ halfOpenInflight[t] \in Nat /\ IsFiniteSet(ProbesOf(t))
            BY <1>1, ProbesFinite DEF IInv, TypeOK
        <2>3. /\ Cardinality(ProbesOf(t)') >= Cardinality(ProbesOf(t)) - 1
              /\ Cardinality(ProbesOf(t)) \in Nat /\ Cardinality(ProbesOf(t)') \in Nat
            <3>1. /\ Cardinality(ProbesOf(t)) \in Nat
                  /\ Cardinality(ProbesOf(t) \ {c}) \in {Cardinality(ProbesOf(t)) - 1, Cardinality(ProbesOf(t))}
                BY <2>2, RemoveOne
            <3>2. IsFiniteSet(ProbesOf(t) \ {c})
                BY <2>2, RemoveOne
            <3>3. Cardinality(ProbesOf(t) \ {c}) \in Nat
                BY <3>2, FS_CardinalityType
            <3>4. QED
                BY <2>1, <3>1, <3>3
        <2>4. CASE state[t] = "half_open"
            <3>1. halfOpenInflight'[t] = Larger(halfOpenInflight[t] - 1, 0)
                BY <1>1, <2>4 DEF FreedProbe, IInv, TypeOK
            <3>2. halfOpenInflight'[t] <= Cardinality(ProbesOf(t)')
                BY <2>2, <2>3, <3>1 DEF ScopeInv, Larger
            <3>3. QED
                BY <2>2, <2>4, <3>2 DEF ScopeInv, Lapsed
        <2>5. CASE state[t] # "half_open"
            <3>1. halfOpenInflight'[t] = 0 /\ ProbesOf(t)' = {}
                BY <2>1, <2>2, <2>5 DEF FreedProbe, ScopeInv
            <3>2. QED
                BY <2>2, <2>3, <2>5, <3>1 DEF ScopeInv, Lapsed
        <2>6. QED
            BY <2>4, <2>5
    <1>4. QED
        BY <1>2, <1>3

\* Opening or closing the scope of a call leaves the other scopes alone.
LEMMA OtherScopes ==
    ASSUME IInv, NEW s \in Scopes, now' = now, probes' = probes \ ProbesOf(s),
           \A t \in Scopes : t # s =>
               /\ openUntil'[t] = openUntil[t] /\ rateLimitUntil'[t] = rateLimitUntil[t]
               /\ halfOpenInflight'[t] = halfOpenInflight[t]
               /\ promised'[t] = promised[t] /\ state'[t] = state[t]
    PROVE  \A t \in Scopes : t # s => ScopeInv(t)'
    BY ForgetProbes, UntouchedScope DEF IInv

\* Every way a result is recorded keeps the invariant of every scope.
LEMMA RecordStep ==
    ASSUME IInv, TypeOK', NEW c \in Calls, NEW res \in Results, RecordResult(c, res)
    PROVE  /\ \A s \in Scopes : ScopeInv(s)'
           /\ probes' \subseteq probes \ {c}
    <1> DEFINE s == ScopeOf[c]
    <1>0. /\ s \in Scopes /\ now' = now /\ TypeOK /\ ScopeInv(s)
          /\ OpenDuration \in Nat /\ OpenDuration <= LargestDelay
        BY CircuitAssumption, LargestDelayType DEF CircuitAssumption, IInv, RecordResult
    <1>1. c \in probes => c \in ProbesOf(s)
        BY DEF ProbesOf
    <1>2. CASE RecordRateLimited(c, res)
        <2> DEFINE delay == RateLimitDelay(res)
        <2>1. delay \in Nat /\ delay <= LargestDelay
            BY DelayBounded
        <2>2. Open(s, delay) /\ rateLimitUntil'[s] = openUntil'[s]
            BY <1>0, <1>2 DEF RecordRateLimited, TypeOK
        <2>3. promised'[s] = Larger(promised[s], now + delay)
            BY <1>0, <1>2 DEF RecordRateLimited, TypeOK
        <2>4. openUntil'[s] = Larger(openUntil[s], now + delay)
            BY <1>0, <2>2 DEF Open, TypeOK
        <2>5. now < promised'[s] => promised'[s] <= rateLimitUntil'[s]
            <3>1. /\ now \in Nat /\ promised[s] \in Nat /\ openUntil[s] \in Nat
                  /\ rateLimitUntil[s] \in Nat
                BY <1>0 DEF TypeOK
            <3>2. QED
                BY <1>0, <2>1, <2>2, <2>3, <2>4, <3>1 DEF ScopeInv, Larger
        <2>6. ScopeInv(s)'
            BY <1>0, <2>1, <2>2, <2>5, OpenedScope
        <2>7. \A t \in Scopes : t # s => ScopeInv(t)'
            BY <1>0, <1>2, OtherScopes DEF RecordRateLimited, Open, TypeOK
        <2>8. probes' \subseteq probes \ {c}
            BY <1>1, <2>2 DEF Open
        <2>9. QED
            BY <2>6, <2>7, <2>8
    <1>3. CASE RecordDuringCooldown(c, res)
        <2>1. state[s] # "half_open"
            BY <1>0, <1>3 DEF RecordDuringCooldown, ScopeInv, Lapsed, TypeOK
        <2>2. halfOpenInflight' = FreedProbe(s)
            BY <1>3, <2>1 DEF RecordDuringCooldown, FreedProbe, breaker
        <2>3. QED
            BY <1>0, <1>3, <2>2, FreedScope DEF RecordDuringCooldown, breaker
    <1>4. ASSUME Open(s, OpenDuration), UNCHANGED <<rateLimitUntil, promised>>
          PROVE  /\ \A t \in Scopes : ScopeInv(t)'
                 /\ probes' \subseteq probes \ {c}
        <2>1. now < promised'[s] => promised'[s] <= rateLimitUntil'[s]
            BY <1>0, <1>4 DEF ScopeInv
        <2>2. ScopeInv(s)'
            BY <1>0, <1>4, <2>1, OpenedScope
        <2>3. \A t \in Scopes : t # s => ScopeInv(t)'
            BY <1>0, <1>4, OtherScopes DEF Open, TypeOK
        <2>4. QED
            BY <1>1, <1>4, <2>2, <2>3 DEF Open
    <1>5. ASSUME Close(s), Counts(c, res)
          PROVE  /\ \A t \in Scopes : ScopeInv(t)'
                 /\ probes' \subseteq probes \ {c}
        <2>1. ScopeInv(s)'
            BY <1>0, <1>5, ClosedScope DEF Counts
        <2>2. \A t \in Scopes : t # s => ScopeInv(t)'
            BY <1>0, <1>5, OtherScopes DEF Close, TypeOK
        <2>3. QED
            BY <1>1, <1>5, <2>1, <2>2 DEF Close
    <1>6. ASSUME halfOpenInflight' = FreedProbe(s), probes' = probes \ {c},
                 UNCHANGED <<openUntil, rateLimitUntil, state, promised>>
          PROVE  /\ \A t \in Scopes : ScopeInv(t)'
                 /\ probes' \subseteq probes \ {c}
        BY <1>0, <1>6, FreedScope
    <1>7. CASE RecordHalfOpen(c, res)
        BY <1>4, <1>5, <1>6, <1>7 DEF RecordHalfOpen
    <1>8. CASE RecordSuccess(c, res)
        BY <1>5, <1>8 DEF RecordSuccess
    <1>9. CASE RecordNeutral(c, res)
        BY <1>6, <1>9 DEF RecordNeutral, breaker, FreedProbe
    <1>10. CASE RecordFailure(c, res)
        BY <1>4, <1>6, <1>10 DEF RecordFailure, FreedProbe
    <1>11. QED
        BY <1>2, <1>3, <1>7, <1>8, <1>9, <1>10 DEF RecordResult

\* An admitted probe takes one slot and is one more probe.
LEMMA AllowStep ==
    ASSUME IInv, TypeOK', NEW c \in Calls, Allow(c)
    PROVE  IInv'
    <1> DEFINE s == ScopeOf[c]
    <1>0. s \in Scopes /\ TypeOK /\ ScopeInv(s) /\ since[c] = 0 /\ since'[c] # 0
        BY CircuitAssumption DEF CircuitAssumption, IInv, TypeOK, Allow, AllowClosed, AllowProbe
    <1>1. CASE AllowClosed(c)
        <2>1. \A t \in Scopes : ProbesOf(t)' = ProbesOf(t)
            BY <1>1 DEF AllowClosed, ProbesOf, history
        <2>2. state[s] # "half_open" /\ state'[s] # "half_open"
            BY <1>0, <1>1 DEF AllowClosed, ScopeInv, Lapsed, TypeOK
        <2>3. ScopeInv(s)'
            BY <1>0, <1>1, <2>1, <2>2 DEF AllowClosed, ScopeInv, history
        <2>4. \A t \in Scopes : t # s => ScopeInv(t)'
            BY <1>0, <1>1, <2>1, UntouchedScope DEF AllowClosed, IInv, TypeOK, history
        <2>5. \A d \in probes' : since'[d] # 0
            BY <1>0, <1>1 DEF AllowClosed, IInv, TypeOK, history
        <2>6. QED
            BY <2>3, <2>4, <2>5 DEF IInv
    <1>2. CASE AllowProbe(c)
        <2>1. c \notin ProbesOf(s)
            BY <1>0 DEF ProbesOf, IInv
        <2>2. /\ ProbesOf(s)' = ProbesOf(s) \cup {c}
              /\ \A t \in Scopes : t # s => ProbesOf(t)' = ProbesOf(t)
            BY <1>2 DEF AllowProbe, ProbesOf
        <2>3. IsFiniteSet(ProbesOf(s))
            BY <1>0, ProbesFinite DEF TypeOK
        <2>4. /\ Cardinality(ProbesOf(s)') = Cardinality(ProbesOf(s)) + 1
              /\ Cardinality(ProbesOf(s)) \in Nat
            BY <2>1, <2>2, <2>3, FS_AddElement, FS_CardinalityType
        <2>5. halfOpenInflight'[s] = halfOpenInflight[s] + 1 /\ state'[s] = "half_open"
            BY <1>0, <1>2 DEF AllowProbe, TypeOK
        <2>6. halfOpenInflight[s] \in Nat /\ halfOpenInflight'[s] <= Cardinality(ProbesOf(s)')
            <3>1. halfOpenInflight[s] \in Nat /\ halfOpenInflight[s] <= Cardinality(ProbesOf(s))
                BY <1>0 DEF ScopeInv, TypeOK
            <3>2. QED
                BY <2>4, <2>5, <3>1
        <2>7. ScopeInv(s)'
            BY <1>0, <1>2, <2>5, <2>6 DEF AllowProbe, ScopeInv, Lapsed
        <2>8. \A t \in Scopes : t # s => ScopeInv(t)'
            BY <1>0, <1>2, <2>2, UntouchedScope DEF AllowProbe, IInv, TypeOK
        <2>9. \A d \in probes' : since'[d] # 0
            BY <1>0, <1>2 DEF AllowProbe, IInv, TypeOK
        <2>10. QED
            BY <2>7, <2>8, <2>9 DEF IInv
    <1>3. QED
        BY <1>1, <1>2 DEF Allow

\* A refusal only names the phase its scope is in.
LEMMA RefuseStep ==
    ASSUME IInv, TypeOK', NEW c \in Calls, Refuse(c)
    PROVE  IInv'
    <1> DEFINE s == ScopeOf[c]
    <1>0. s \in Scopes /\ TypeOK /\ ScopeInv(s)
        BY CircuitAssumption DEF CircuitAssumption, IInv
    <1>1. /\ UNCHANGED <<now, openUntil, rateLimitUntil, halfOpenInflight, since, probes, promised>>
          /\ \A t \in Scopes : t # s => state'[t] = state[t]
        BY <1>0 DEF Refuse, RefuseOpen, RefuseProbe, history, TypeOK
    <1>2. \A t \in Scopes : ProbesOf(t)' = ProbesOf(t)
        BY <1>1 DEF ProbesOf
    <1>3. ScopeInv(s)'
        <2>1. CASE RefuseOpen(c)
            <3>1. state[s] # "half_open" /\ state'[s] = "open"
                BY <1>0, <2>1 DEF RefuseOpen, ScopeInv, Lapsed, TypeOK
            <3>2. QED
                BY <1>0, <1>1, <1>2, <3>1 DEF ScopeInv
        <2>2. CASE RefuseProbe(c)
            <3>1. Lapsed(s) /\ state'[s] = "half_open"
                BY <1>0, <2>2 DEF RefuseProbe, TypeOK
            <3>2. QED
                BY <1>0, <1>1, <1>2, <3>1 DEF ScopeInv, Lapsed
        <2>3. QED
            BY <2>1, <2>2 DEF Refuse
    <1>4. \A t \in Scopes : t # s => ScopeInv(t)'
        BY <1>1, <1>2, UntouchedScope DEF IInv
    <1>5. QED
        BY <1>1, <1>3, <1>4 DEF IInv

\* Time passing keeps every scope's invariant.
LEMMA TickStep == IInv /\ TypeOK' /\ Tick => IInv'
    <1> SUFFICES ASSUME IInv, TypeOK', Tick PROVE IInv'
        OBVIOUS
    <1>1. /\ now' = now + 1
          /\ UNCHANGED <<openUntil, rateLimitUntil, halfOpenInflight, state, since, probes, promised>>
        BY DEF Tick, breaker, history
    <1>2. ASSUME NEW s \in Scopes
          PROVE  ScopeInv(s)'
        <2>1. ProbesOf(s)' = ProbesOf(s)
            BY <1>1 DEF ProbesOf
        <2>2. /\ now \in Nat /\ openUntil[s] \in Nat /\ promised[s] \in Nat
              /\ LargestDelay \in Nat /\ ScopeInv(s)
            BY LargestDelayType DEF IInv, TypeOK
        <2>3. QED
            BY <1>1, <2>1, <2>2 DEF ScopeInv, Lapsed
    <1>3. QED
        BY <1>1, <1>2 DEF IInv

\* Every step of the specification preserves the inductive invariant.
LEMMA NextIInv == IInv /\ [Next]_vars => IInv'
    <1> SUFFICES ASSUME IInv, [Next]_vars
                 PROVE  IInv'
        OBVIOUS
    <1>0. TypeOK'
        BY TypeStep DEF IInv
    <1>1. CASE Tick
        BY <1>0, <1>1, TickStep
    <1>2. ASSUME NEW c \in Calls, Allow(c)
          PROVE  IInv'
        BY <1>0, <1>2, AllowStep
    <1>3. ASSUME NEW c \in Calls, Refuse(c)
          PROVE  IInv'
        BY <1>0, <1>3, RefuseStep
    <1>4. ASSUME NEW c \in Calls, ReleaseProbe(c)
          PROVE  IInv'
        <2>1. \A s \in Scopes : ScopeInv(s)'
            BY <1>4, FreedScope DEF ReleaseProbe
        <2>2. \A d \in probes' : since'[d] # 0
            BY <1>4 DEF ReleaseProbe, IInv, TypeOK
        <2>3. QED
            BY <1>0, <2>1, <2>2 DEF IInv
    <1>5. ASSUME NEW c \in Calls, NEW res \in Results, RecordResult(c, res)
          PROVE  IInv'
        <2>1. (\A s \in Scopes : ScopeInv(s)') /\ probes' \subseteq probes \ {c}
            BY <1>0, <1>5, RecordStep
        <2>2. \A d \in probes' : since'[d] # 0
            BY <1>5, <2>1 DEF RecordResult, IInv, TypeOK
        <2>3. QED
            BY <1>0, <2>1, <2>2 DEF IInv
    <1>6. CASE UNCHANGED vars
        <2>1. \A s \in Scopes : ScopeInv(s)'
            BY <1>6 DEF vars, breaker, history, IInv, ScopeInv, Lapsed, ProbesOf
        <2>2. QED
            BY <1>0, <1>6, <2>1 DEF vars, history, IInv
    <1>7. QED
        BY <1>1, <1>2, <1>3, <1>4, <1>5, <1>6 DEF Next, CallStep

-----------------------------------------------------------------------------
(* The theorems.                                                           *)

\* The inductive invariant holds in every reachable state.
LEMMA Inductive == Spec => []IInv
    BY InitIInv, NextIInv, PTL DEF Spec

\* The breaker's dictionaries always have their types.
THEOREM TypeCorrect == Spec => []TypeOK
    <1>1. IInv => TypeOK
        BY DEF IInv
    <1>2. QED
        BY <1>1, Inductive, PTL

\* No half-open slot is ever leaked: each one taken belongs to a probe in flight.
THEOREM SlotsNeverLeak == Spec => []NoSlotLeak
    <1>1. IInv => NoSlotLeak
        BY DEF IInv, ScopeInv, NoSlotLeak
    <1>2. QED
        BY <1>1, Inductive, PTL

\* A lapsed scope with nothing in flight admits the next call.
THEOREM ScopesRecover == Spec => []NeverWedged
    <1>1. ASSUME IInv
          PROVE  NeverWedged
        <2> SUFFICES ASSUME NEW s \in Scopes,
                            \A c \in Calls : ScopeOf[c] = s => since[c] = 0
                     PROVE  halfOpenInflight[s] < ProbeCount
            BY DEF NeverWedged
        <2>1. ProbesOf(s) = {}
            BY <1>1 DEF IInv, TypeOK, ProbesOf
        <2>2. halfOpenInflight[s] <= 0 /\ halfOpenInflight[s] \in Nat
            BY <1>1, <2>1, FS_EmptySet DEF IInv, ScopeInv, TypeOK
        <2>3. QED
            BY <2>2, CircuitAssumption DEF CircuitAssumption
    <1>2. QED
        BY <1>1, Inductive, PTL

\* A cooldown lasts at least as long as the provider asked for.
THEOREM CooldownsHold == Spec => []CooldownHonoured
    <1>1. ASSUME IInv
          PROVE  CooldownHonoured
        <2> SUFFICES ASSUME NEW s \in Scopes, now < promised[s]
                     PROVE  promised[s] <= openUntil[s]
            BY DEF CooldownHonoured
        <2>1. /\ promised[s] <= rateLimitUntil[s] /\ rateLimitUntil[s] <= openUntil[s]
              /\ promised[s] \in Nat /\ rateLimitUntil[s] \in Nat /\ openUntil[s] \in Nat
            BY <1>1 DEF IInv, ScopeInv, TypeOK
        <2>2. QED
            BY <2>1
    <1>2. QED
        BY <1>1, Inductive, PTL

\* No scope is shut for longer than the cap from now.
THEOREM LockoutsEnd == Spec => []LockoutBounded
    <1>1. IInv => LockoutBounded
        BY DEF IInv, ScopeInv, LockoutBounded
    <1>2. QED
        BY <1>1, Inductive, PTL

-----------------------------------------------------------------------------
(* The bound on probes, when every opening outlasts every call.            *)

\* A call in flight is within its life; unless it is a probe, its scope is
\* closed or opened after the call was admitted, for longer than it can last.
CallInv(c) ==
    since[c] # 0 =>
        /\ since[c] <= now
        /\ now <= since[c] + CallLife
        /\ \/ c \in probes
           \/ openUntil[ScopeOf[c]] = 0
           \/ since[c] + CallLife < openUntil[ScopeOf[c]]

\* Every slot counts exactly one probe.
SlotsExact(s) ==
    /\ halfOpenInflight[s] = Cardinality(ProbesOf(s))
    /\ halfOpenInflight[s] <= ProbeCount

ProbeInv ==
    /\ IInv
    /\ \A c \in Calls : CallInv(c)
    /\ \A s \in Scopes : SlotsExact(s)

\* Under ProbeInv a call that ends in a half-open scope is one of its probes.
LEMMA EndingCallIsProbe ==
    ASSUME ProbeInv, NEW c \in Calls, since[c] # 0, state[ScopeOf[c]] = "half_open"
    PROVE  c \in probes
    <1> DEFINE s == ScopeOf[c]
    <1>1. s \in Scopes
        BY CircuitAssumption DEF CircuitAssumption
    <1>2. openUntil[s] # 0 /\ openUntil[s] <= now
        BY <1>1 DEF ProbeInv, IInv, ScopeInv, Lapsed
    <1>3. now \in Nat /\ openUntil[s] \in Nat /\ since[c] \in Nat /\ CallLife \in Nat
        BY <1>1, CircuitAssumption DEF CircuitAssumption, ProbeInv, IInv, TypeOK
    <1>4. CallInv(c)
        BY DEF ProbeInv
    <1>5. QED
        BY <1>2, <1>3, <1>4 DEF CallInv

\* A scope that forgets all its probes, or none, keeps its slots exact.
LEMMA ResetSlots ==
    ASSUME ProbeInv, NEW s \in Scopes, probes' = probes \ ProbesOf(s),
           halfOpenInflight' = [halfOpenInflight EXCEPT ![s] = 0]
    PROVE  \A t \in Scopes : SlotsExact(t)'
    <1>1. SlotsExact(s)'
        <2>1. halfOpenInflight'[s] = 0 /\ Cardinality(ProbesOf(s)') = 0
            BY ForgetProbes, FS_EmptySet DEF ProbeInv, IInv, TypeOK
        <2>2. ProbeCount \in Nat
            BY CircuitAssumption DEF CircuitAssumption
        <2>3. QED
            BY <2>1, <2>2 DEF SlotsExact
    <1>2. \A t \in Scopes : t # s => SlotsExact(t)'
        BY ForgetProbes DEF ProbeInv, IInv, TypeOK, SlotsExact
    <1>3. QED
        BY <1>1, <1>2

\* A call that ends gives back its own slot and no other.
LEMMA FreeSlots ==
    ASSUME ProbeInv, NEW c \in Calls, since[c] # 0, probes' = probes \ {c},
           halfOpenInflight' = FreedProbe(ScopeOf[c])
    PROVE  \A t \in Scopes : SlotsExact(t)'
    <1> DEFINE s == ScopeOf[c]
    <1>0. /\ s \in Scopes /\ SlotsExact(s) /\ ScopeInv(s) /\ IsFiniteSet(ProbesOf(s))
          /\ halfOpenInflight \in [Scopes -> Nat] /\ ProbeCount \in Nat
        BY CircuitAssumption, ProbesFinite DEF CircuitAssumption, ProbeInv, IInv, TypeOK
    <1>1. \A t \in Scopes : t # s => SlotsExact(t)'
        BY <1>0, DropProbe DEF FreedProbe, ProbeInv, SlotsExact
    <1>2. CASE state[s] = "half_open"
        <2>1. c \in ProbesOf(s)
            BY <1>2, EndingCallIsProbe DEF ProbesOf
        <2>2. /\ Cardinality(ProbesOf(s)') = Cardinality(ProbesOf(s)) - 1
              /\ Cardinality(ProbesOf(s)) \in Nat
            <3>1. ProbesOf(s)' = ProbesOf(s) \ {c}
                BY DropProbe
            <3>2. /\ Cardinality(ProbesOf(s) \ {c}) = Cardinality(ProbesOf(s)) - 1
                  /\ Cardinality(ProbesOf(s)) \in Nat
                BY <1>0, <2>1, RemoveOne
            <3>3. QED
                BY <3>1, <3>2
        <2>3. Cardinality(ProbesOf(s)) # 0
            BY <1>0, <2>1, FS_EmptySet
        <2>4. halfOpenInflight'[s] = Larger(halfOpenInflight[s] - 1, 0)
            BY <1>0, <1>2 DEF FreedProbe
        <2>5. SlotsExact(s)'
            BY <1>0, <2>2, <2>3, <2>4 DEF SlotsExact, Larger
        <2>6. QED
            BY <1>1, <2>5
    <1>3. CASE state[s] # "half_open"
        <2>1. halfOpenInflight' = halfOpenInflight /\ ProbesOf(s)' = ProbesOf(s)
            BY <1>0, <1>3, DropProbe DEF FreedProbe, ScopeInv
        <2>2. QED
            BY <1>0, <1>1, <2>1 DEF SlotsExact
    <1>4. QED
        BY <1>2, <1>3

\* Every recorded result keeps the slots exact, and either leaves the opening
\* of a scope as it was, closes the scope, or opens it past the life of every call.
LEMMA RecordEffect ==
    ASSUME ShortCalls, ProbeInv, NEW c \in Calls, NEW res \in Results, RecordResult(c, res)
    PROVE  /\ \A t \in Scopes : SlotsExact(t)'
           /\ \A d \in Calls \ {c} : LET t == ScopeOf[d] IN
                 \/ openUntil'[t] = openUntil[t] /\ (d \in probes => d \in probes')
                 \/ openUntil'[t] = 0
                 \/ now + CallLife < openUntil'[t]
    <1> DEFINE s == ScopeOf[c]
               Effect(d) == LET t == ScopeOf[d] IN
                 \/ openUntil'[t] = openUntil[t] /\ (d \in probes => d \in probes')
                 \/ openUntil'[t] = 0
                 \/ now + CallLife < openUntil'[t]
    <1>0. /\ s \in Scopes /\ TypeOK /\ since[c] # 0 /\ now \in Nat /\ CallLife \in Nat
          /\ OpenDuration \in Nat /\ CallLife < OpenDuration
        BY CircuitAssumption DEF CircuitAssumption, ProbeInv, IInv, TypeOK, RecordResult, ShortCalls
    <1>1. ASSUME NEW delay \in Nat, CallLife < delay, Open(s, delay)
          PROVE  (\A t \in Scopes : SlotsExact(t)') /\ (\A d \in Calls \ {c} : Effect(d))
        <2>1. \A t \in Scopes : SlotsExact(t)'
            BY <1>0, <1>1, ResetSlots DEF Open
        <2>2. openUntil'[s] = Larger(openUntil[s], now + delay) /\ openUntil[s] \in Nat
            BY <1>0, <1>1 DEF Open, TypeOK
        <2>3. now + CallLife < openUntil'[s]
            BY <1>0, <1>1, <2>2 DEF Larger
        <2>4. \A t \in Scopes : t # s => openUntil'[t] = openUntil[t]
            BY <1>0, <1>1 DEF Open, TypeOK
        <2>5. \A d \in Calls : ScopeOf[d] # s => (d \in probes => d \in probes')
            BY <1>1 DEF Open, ProbesOf
        <2>6. \A d \in Calls : ScopeOf[d] \in Scopes
            BY CircuitAssumption DEF CircuitAssumption
        <2>7. QED
            BY <2>1, <2>3, <2>4, <2>5, <2>6
    <1>2. ASSUME Close(s)
          PROVE  (\A t \in Scopes : SlotsExact(t)') /\ (\A d \in Calls \ {c} : Effect(d))
        <2>1. \A t \in Scopes : SlotsExact(t)'
            BY <1>0, <1>2, ResetSlots DEF Close
        <2>2. openUntil'[s] = 0 /\ \A t \in Scopes : t # s => openUntil'[t] = openUntil[t]
            BY <1>0, <1>2 DEF Close, TypeOK
        <2>3. \A d \in Calls : ScopeOf[d] # s => (d \in probes => d \in probes')
            BY <1>2 DEF Close, ProbesOf
        <2>4. \A d \in Calls : ScopeOf[d] \in Scopes
            BY CircuitAssumption DEF CircuitAssumption
        <2>5. QED
            BY <2>1, <2>2, <2>3, <2>4
    <1>3. ASSUME halfOpenInflight' = FreedProbe(s), probes' = probes \ {c}, openUntil' = openUntil
          PROVE  (\A t \in Scopes : SlotsExact(t)') /\ (\A d \in Calls \ {c} : Effect(d))
        BY <1>0, <1>3, FreeSlots
    <1>4. CASE RecordRateLimited(c, res)
        BY <1>1, <1>4, DelayBounded DEF RecordRateLimited, ShortCalls
    <1>5. CASE RecordDuringCooldown(c, res)
        <2>1. state[s] # "half_open"
            BY <1>0, <1>5 DEF RecordDuringCooldown, ProbeInv, IInv, ScopeInv, Lapsed, TypeOK
        <2>2. QED
            BY <1>3, <1>5, <2>1 DEF RecordDuringCooldown, FreedProbe, breaker
    <1>6. CASE RecordHalfOpen(c, res)
        BY <1>0, <1>1, <1>2, <1>3, <1>6 DEF RecordHalfOpen
    <1>7. CASE RecordSuccess(c, res)
        BY <1>2, <1>7 DEF RecordSuccess
    <1>8. CASE RecordNeutral(c, res)
        BY <1>3, <1>8 DEF RecordNeutral, breaker, FreedProbe
    <1>9. CASE RecordFailure(c, res)
        BY <1>0, <1>1, <1>3, <1>9 DEF RecordFailure, FreedProbe
    <1>10. QED
        BY <1>4, <1>5, <1>6, <1>7, <1>8, <1>9 DEF RecordResult

\* Admitting a call keeps the probe invariant.
LEMMA AllowProbeInv ==
    ASSUME ProbeInv, IInv', NEW c \in Calls, Allow(c)
    PROVE  ProbeInv'
    <1> DEFINE s == ScopeOf[c]
    <1>0. /\ s \in Scopes /\ TypeOK /\ since[c] = 0 /\ now \in Nat /\ CallLife \in Nat
          /\ ScopeInv(s) /\ SlotsExact(s)
          /\ now' = now /\ openUntil' = openUntil /\ since' = [since EXCEPT ![c] = now]
        BY CircuitAssumption DEF CircuitAssumption, ProbeInv, IInv, TypeOK, Allow, AllowClosed, AllowProbe
    <1>1. probes \subseteq probes' /\ (openUntil[s] = 0 \/ c \in probes')
        BY DEF Allow, AllowClosed, AllowProbe, history
    <1>2. \A d \in Calls : d # c => CallInv(d)'
        BY <1>0, <1>1 DEF ProbeInv, CallInv, TypeOK
    <1>3. CallInv(c)'
        BY <1>0, <1>1 DEF CallInv, TypeOK
    <1>4. \A t \in Scopes : SlotsExact(t)'
        <2>1. CASE AllowClosed(c)
            BY <2>1 DEF AllowClosed, history, ProbeInv, SlotsExact, ProbesOf
        <2>2. CASE AllowProbe(c)
            <3>1. ProbesOf(s)' = ProbesOf(s) \cup {c} /\ c \notin ProbesOf(s)
                BY <1>0, <2>2 DEF AllowProbe, ProbesOf, ProbeInv, IInv
            <3>2. IsFiniteSet(ProbesOf(s))
                BY <1>0, ProbesFinite DEF TypeOK
            <3>3. Cardinality(ProbesOf(s)') = Cardinality(ProbesOf(s)) + 1
                BY <3>1, <3>2, FS_AddElement
            <3>4. halfOpenInflight'[s] = halfOpenInflight[s] + 1 /\ halfOpenInflight[s] < ProbeCount
                BY <1>0, <2>2 DEF AllowProbe, TypeOK
            <3>5. halfOpenInflight[s] \in Nat /\ ProbeCount \in Nat
                BY <1>0, CircuitAssumption DEF CircuitAssumption, TypeOK
            <3>6. SlotsExact(s)'
                BY <1>0, <3>3, <3>4, <3>5 DEF SlotsExact
            <3>7. \A t \in Scopes : t # s => ProbesOf(t)' = ProbesOf(t)
                BY <2>2 DEF AllowProbe, ProbesOf
            <3>8. \A t \in Scopes : t # s => SlotsExact(t)'
                BY <1>0, <2>2, <3>7 DEF AllowProbe, ProbeInv, TypeOK, SlotsExact
            <3>9. QED
                BY <3>6, <3>8
        <2>3. QED
            BY <2>1, <2>2 DEF Allow
    <1>5. QED
        BY <1>2, <1>3, <1>4 DEF ProbeInv

\* Every step preserves the probe invariant.
LEMMA NextProbeInv == ShortCalls /\ ProbeInv /\ [Next]_vars => ProbeInv'
    <1> SUFFICES ASSUME ShortCalls, ProbeInv, [Next]_vars
                 PROVE  ProbeInv'
        OBVIOUS
    <1>0. IInv' /\ TypeOK /\ now \in Nat /\ CallLife \in Nat
        BY NextIInv, CircuitAssumption DEF CircuitAssumption, ProbeInv, IInv, TypeOK
    <1>1. CASE Tick
        <2>1. \A s \in Scopes : SlotsExact(s)'
            BY <1>1 DEF Tick, breaker, history, ProbeInv, SlotsExact, ProbesOf
        <2>2. \A c \in Calls : CallInv(c)'
            BY <1>0, <1>1 DEF Tick, breaker, history, ProbeInv, CallInv, TypeOK
        <2>3. QED
            BY <1>0, <2>1, <2>2 DEF ProbeInv
    <1>2. ASSUME NEW c \in Calls, Allow(c)
          PROVE  ProbeInv'
        BY <1>0, <1>2, AllowProbeInv
    <1>3. ASSUME NEW c \in Calls, Refuse(c)
          PROVE  ProbeInv'
        <2>1. UNCHANGED <<now, openUntil, halfOpenInflight, since, probes>>
            BY <1>3 DEF Refuse, RefuseOpen, RefuseProbe, history
        <2>2. \A s \in Scopes : SlotsExact(s)'
            BY <2>1 DEF ProbeInv, SlotsExact, ProbesOf
        <2>3. \A d \in Calls : CallInv(d)'
            BY <2>1 DEF ProbeInv, CallInv
        <2>4. QED
            BY <1>0, <2>2, <2>3 DEF ProbeInv
    <1>4. ASSUME NEW c \in Calls, ReleaseProbe(c)
          PROVE  ProbeInv'
        <2>1. \A s \in Scopes : SlotsExact(s)'
            BY <1>4, FreeSlots DEF ReleaseProbe
        <2>2. \A d \in Calls : CallInv(d)'
            BY <1>0, <1>4 DEF ReleaseProbe, ProbeInv, CallInv, TypeOK
        <2>3. QED
            BY <1>0, <2>1, <2>2 DEF ProbeInv
    <1>5. ASSUME NEW c \in Calls, NEW res \in Results, RecordResult(c, res)
          PROVE  ProbeInv'
        <2>1. \A s \in Scopes : SlotsExact(s)'
            BY <1>5, RecordEffect
        <2>2. now' = now /\ since' = [since EXCEPT ![c] = 0]
            BY <1>5 DEF RecordResult
        <2>3. CallInv(c)'
            BY <1>0, <2>2 DEF CallInv, TypeOK
        <2>4. ASSUME NEW d \in Calls \ {c}
              PROVE  CallInv(d)'
            <3> DEFINE t == ScopeOf[d]
            <3>1. \/ openUntil'[t] = openUntil[t] /\ (d \in probes => d \in probes')
                  \/ openUntil'[t] = 0
                  \/ now + CallLife < openUntil'[t]
                BY <1>5, RecordEffect
            <3>2. /\ since'[d] = since[d] /\ since[d] \in Nat /\ t \in Scopes
                  /\ openUntil'[t] \in Nat /\ CallInv(d)
                BY <1>0, <2>2, CircuitAssumption DEF CircuitAssumption, TypeOK, IInv, ProbeInv
            <3>3. QED
                BY <1>0, <2>2, <3>1, <3>2 DEF CallInv
        <2>5. QED
            BY <1>0, <2>1, <2>3, <2>4 DEF ProbeInv
    <1>6. CASE UNCHANGED vars
        <2>1. UNCHANGED <<now, openUntil, halfOpenInflight, since, probes>>
            BY <1>6 DEF vars, breaker, history
        <2>2. \A s \in Scopes : SlotsExact(s)'
            BY <2>1 DEF ProbeInv, SlotsExact, ProbesOf
        <2>3. \A d \in Calls : CallInv(d)'
            BY <2>1 DEF ProbeInv, CallInv
        <2>4. QED
            BY <1>0, <2>2, <2>3 DEF ProbeInv
    <1>7. QED
        BY <1>1, <1>2, <1>3, <1>4, <1>5, <1>6 DEF Next, CallStep

\* The probe invariant holds initially.
LEMMA InitProbeInv == Init => ProbeInv
    <1> SUFFICES ASSUME Init PROVE ProbeInv
        OBVIOUS
    <1>1. \A s \in Scopes : halfOpenInflight[s] = 0 /\ ProbesOf(s) = {} 
        BY DEF Init, ProbesOf
    <1>2. \A s \in Scopes : SlotsExact(s)
        BY <1>1, FS_EmptySet, CircuitAssumption DEF CircuitAssumption, SlotsExact
    <1>3. \A c \in Calls : CallInv(c)
        BY DEF Init, CallInv
    <1>4. QED
        BY <1>2, <1>3, InitIInv DEF ProbeInv

\* The probe invariant holds in every reachable state.
LEMMA ProbeInductive == ASSUME ShortCalls PROVE Spec => []ProbeInv
    <1>1. ProbeInv /\ [Next]_vars => ProbeInv'
        BY NextProbeInv
    <1>2. QED
        BY <1>1, InitProbeInv, PTL DEF Spec

\* When every opening outlasts every call, a half-open scope never has more
\* than half_open_probe_count probes in flight.
THEOREM ProbesStayBounded == ASSUME ShortCalls PROVE Spec => []ProbesBounded
    <1>1. ProbeInv => ProbesBounded
        BY DEF ProbeInv, SlotsExact, ProbesBounded
    <1>2. QED
        BY <1>1, ProbeInductive, PTL

\* When every opening outlasts every call, a half-open scope is judged by its
\* own probes only.
THEOREM ProbesDecide == ASSUME ShortCalls PROVE Spec => []OnlyProbesInFlight
    <1>1. ProbeInv => OnlyProbesInFlight
        BY EndingCallIsProbe DEF OnlyProbesInFlight
    <1>2. QED
        BY <1>1, ProbeInductive, PTL

-----------------------------------------------------------------------------
(* A closed scope opens on the evidence.                                   *)

\* A nonempty finite set of numbers has a largest one.
LEMMA LargestExists ==
    ASSUME NEW S \in SUBSET Nat, IsFiniteSet(S), S # {}
    PROVE  \E m \in S : \A n \in S : m >= n
    <1> DEFINE Above(x) == {y \in S : y > x}
               T == {Above(x) : x \in S}
    <1>1. T \subseteq FiniteSubsetsOf(S) /\ T # {}
        <2>1. \A x \in S : Above(x) \in SUBSET S
            OBVIOUS
        <2>2. \A x \in S : Above(x) \in FiniteSubsetsOf(S)
            BY <2>1, FS_Subset DEF FiniteSubsetsOf
        <2>3. QED
            BY <2>2
    <1>2. IsWellFoundedOn(StrictSubsetOrdering(S), FiniteSubsetsOf(S))
        BY FS_StrictSubsetOrderingWellFounded
    <1>3. PICK U \in T : \A V \in T : <<V, U>> \notin StrictSubsetOrdering(S)
        <2> HIDE DEF T
        <2>1. QED
            BY <1>1, <1>2, WFMin
    <1>4. PICK m \in S : U = Above(m)
        OBVIOUS
    <1>5. ASSUME NEW n \in S, n > m
          PROVE  FALSE
        <2>0. m \in Nat /\ n \in Nat /\ \A y \in S : y \in Nat
            OBVIOUS
        <2>1. Above(n) \subseteq Above(m)
            <3>1. \A y \in S : y > n => y > m
                BY <2>0, <1>5
            <3>2. QED
                BY <3>1
        <2>1a. n \in Above(m) /\ n \notin Above(n)
            <3>1. ~(n > n)
                BY <2>0
            <3>2. QED
                BY <3>1, <1>5
        <2>2. <<Above(n), U>> \in StrictSubsetOrdering(S)
            BY <1>4, <2>1, <2>1a DEF StrictSubsetOrdering
        <2>3. QED
            BY <1>3, <2>2
    <1>6. \A n \in S : m >= n
        BY <1>5
    <1>7. QED
        BY <1>6


\* The stale head of a sequence is as long as there are stale places.
LEMMA StaleHead ==
    ASSUME NEW times \in Seq(Nat), NEW cutoff \in Int
    PROVE  LET stale == {i \in DOMAIN times : \A j \in 1..i : times[j] < cutoff} IN
           \E m \in 0..Len(times) :
                /\ Cardinality(stale) = m
                /\ \A i \in 1..m : times[i] < cutoff
                /\ m < Len(times) => times[m + 1] >= cutoff
    <1> DEFINE stale == {i \in DOMAIN times : \A j \in 1..i : times[j] < cutoff}
    <1>1. Len(times) \in Nat /\ DOMAIN times = 1..Len(times) /\ \A i \in 1..Len(times) : times[i] \in Nat
        BY LenProperties, ElementOfSeq
    <1>2. stale \in SUBSET Nat /\ IsFiniteSet(stale)
        <2>1. stale \subseteq 1..Len(times) /\ 1..Len(times) \subseteq Nat
            BY <1>1
        <2>2. IsFiniteSet(1..Len(times))
            BY <1>1, FS_Interval
        <2>3. QED
            BY <2>1, <2>2, FS_Subset
    <1> DEFINE Stale(m) ==
            /\ Cardinality(stale) = m
            /\ \A i \in 1..m : times[i] < cutoff
            /\ m < Len(times) => times[m + 1] >= cutoff
    <1> SUFFICES \E m \in 0..Len(times) : Stale(m)
        OBVIOUS
    <1>3. CASE stale = {}
        <2>1. Cardinality(stale) = 0
            BY <1>3, FS_EmptySet
        <2>2. 0 < Len(times) => times[1] >= cutoff
            <3>1. SUFFICES ASSUME 0 < Len(times), times[1] < cutoff PROVE FALSE
                BY <1>1
            <3>2. 1 \in DOMAIN times /\ \A j \in 1..1 : times[j] < cutoff
                BY <1>1, <3>1
            <3>3. QED
                BY <1>3, <3>2
        <2>3. Stale(0)
            BY <1>1, <2>1, <2>2
        <2>4. 0 \in 0..Len(times)
            BY <1>1
        <2>5. QED
            BY <2>3, <2>4
    <1>4. CASE stale # {}
        <2>1. PICK m \in stale : \A n \in stale : m >= n
            <3> HIDE DEF stale
            <3>1. QED
                BY <1>2, <1>4, LargestExists
        <2>2. m \in 1..Len(times) /\ \A j \in 1..m : times[j] < cutoff
            BY <1>1, <2>1
        <2>3. stale = 1..m
            <3>1. \A n \in stale : n \in 1..m
                BY <1>1, <2>1, <2>2
            <3>2. ASSUME NEW n \in 1..m
                  PROVE  n \in stale
                <4>1. n \in DOMAIN times /\ \A j \in 1..n : j \in 1..m
                    BY <1>1, <2>2
                <4>2. QED
                    BY <2>2, <4>1
            <3>3. QED
                BY <3>1, <3>2
        <2>4. Cardinality(1..m) = m
            BY <2>2, FS_Interval
        <2>5. m < Len(times) => times[m + 1] >= cutoff
            <3>1. SUFFICES ASSUME m < Len(times), times[m + 1] < cutoff PROVE FALSE
                BY <1>1, <2>2
            <3>2. m + 1 \in DOMAIN times
                BY <1>1, <2>2, <3>1
            <3>3. \A j \in 1..(m + 1) : times[j] < cutoff
                BY <2>2, <3>1
            <3>4. m + 1 \in stale
                BY <3>2, <3>3
            <3>5. QED
                BY <2>1, <2>2, <3>4
        <2> HIDE DEF stale
        <2>6. Stale(m) /\ m \in 0..Len(times)
            BY <1>1, <2>2, <2>3, <2>4, <2>5
        <2>7. QED
            BY <2>6
    <1>5. QED
        BY <1>3, <1>4

\* Pruning takes the times before the cutoff off the head, and stops at the first one
\* that is not.
LEMMA PrunedProperties ==
    ASSUME NEW times \in Seq(Nat), NEW cutoff \in Int
    PROVE  \E m \in 0..Len(times) :
                /\ Len(Pruned(times, cutoff)) = Len(times) - m
                /\ \A i \in 1..(Len(times) - m) : Pruned(times, cutoff)[i] = times[i + m]
                /\ \A i \in 1..m : times[i] < cutoff
                /\ m < Len(times) => times[m + 1] >= cutoff
    <1>2. PICK m \in 0..Len(times) :
            /\ Cardinality({i \in DOMAIN times : \A j \in 1..i : times[j] < cutoff}) = m
            /\ \A i \in 1..m : times[i] < cutoff
            /\ m < Len(times) => times[m + 1] >= cutoff
        BY StaleHead
    <1>3. Pruned(times, cutoff) = SubSeq(times, m + 1, Len(times))
        BY <1>2 DEF Pruned
    <1>4. Len(times) \in Nat /\ m \in Nat /\ m <= Len(times) /\ \A i \in 1..Len(times) : times[i] \in Nat
        BY <1>2, LenProperties, ElementOfSeq
    <1>5. \A i \in (m + 1)..Len(times) : times[i] \in Nat
        BY <1>4
    <1>6. /\ Len(SubSeq(times, m + 1, Len(times))) = IF m + 1 <= Len(times) THEN Len(times) - (m + 1) + 1 ELSE 0
          /\ \A i \in 1..(Len(times) - (m + 1) + 1) : SubSeq(times, m + 1, Len(times))[i] = times[m + 1 + i - 1]
        <2>1. m + 1 \in Int /\ Len(times) \in Int
            BY <1>4
        <2>2. QED
            BY <1>5, <2>1, SubSeqProperties
    <1>7. Len(Pruned(times, cutoff)) = Len(times) - m
        BY <1>3, <1>4, <1>6
    <1>8. \A i \in 1..(Len(times) - m) : Pruned(times, cutoff)[i] = times[i + m]
        BY <1>3, <1>4, <1>6
    <1>9. QED
        BY <1>2, <1>7, <1>8

\* The deque is the end of all the times there were; what it lacks is before the cutoff.
EndOf(deque, all, cutoff) ==
    \E k \in 0..Len(all) :
        /\ Len(deque) = Len(all) - k
        /\ \A i \in 1..Len(deque) : deque[i] = all[i + k]
        /\ \A i \in 1..k : all[i] < cutoff

\* Times in order, up to a limit.
Ordered(all, limit) ==
    /\ \A i, j \in 1..Len(all) : i <= j => all[i] <= all[j]
    /\ \A i \in 1..Len(all) : all[i] <= limit

\* The places of the times the cutoff leaves.
Inside(all, cutoff) == {i \in DOMAIN all : cutoff <= all[i]}

\* The pruned deque is still the end of all the times, and holds as many of them as the
\* cutoff leaves.
LEMMA PrunedDequeCounts ==
    ASSUME NEW deque \in Seq(Nat), NEW all \in Seq(Nat), NEW cutoff \in Int, NEW limit,
           EndOf(deque, all, cutoff), Ordered(all, limit)
    PROVE  /\ EndOf(Pruned(deque, cutoff), all, cutoff)
           /\ Len(Pruned(deque, cutoff)) = Cardinality(Inside(all, cutoff))
    <1> DEFINE n == Len(all)
               p == Len(deque)
               kept == Pruned(deque, cutoff)
    <1>1. /\ n \in Nat /\ p \in Nat /\ DOMAIN all = 1..n
          /\ \A i \in 1..n : all[i] \in Nat
        BY LenProperties, ElementOfSeq
    <1>2. PICK k \in 0..n :
            /\ p = n - k
            /\ \A i \in 1..p : deque[i] = all[i + k]
            /\ \A i \in 1..k : all[i] < cutoff
        BY DEF EndOf
    <1>3. PICK m \in 0..p :
            /\ Len(kept) = p - m
            /\ \A i \in 1..(p - m) : kept[i] = deque[i + m]
            /\ \A i \in 1..m : deque[i] < cutoff
            /\ m < p => deque[m + 1] >= cutoff
        BY PrunedProperties
    <1>4. \A i, j \in 1..n : i <= j => all[i] <= all[j]
        BY DEF Ordered
    <1> HIDE DEF n, p, kept
    <1>5. \A i \in 1..(k + m) : all[i] < cutoff
        <2>1. SUFFICES ASSUME NEW i \in 1..(k + m), i > k PROVE all[i] < cutoff
            BY <1>1, <1>2, <1>3
        <2>2. i - k \in 1..m /\ i - k \in 1..p /\ i - k + k = i
            BY <1>1, <1>2, <1>3, <2>1
        <2>3. QED
            BY <1>2, <1>3, <2>2
    <1>6. \A i \in (k + m + 1)..n : all[i] >= cutoff
        <2>1. SUFFICES ASSUME NEW i \in (k + m + 1)..n PROVE all[i] >= cutoff
            OBVIOUS
        <2>2. m < p /\ m + 1 \in 1..p /\ k + m + 1 \in 1..n /\ i \in 1..n /\ k + m + 1 <= i
              /\ m + 1 + k = k + m + 1
            BY <1>1, <1>2, <1>3
        <2>3. all[k + m + 1] >= cutoff
            BY <1>2, <1>3, <2>2
        <2>4. all[k + m + 1] <= all[i]
            BY <1>4, <2>2
        <2>5. QED
            BY <1>1, <2>2, <2>3, <2>4
    <1>7. Inside(all, cutoff) = (k + m + 1)..n
        <2>1. ASSUME NEW i \in 1..n
              PROVE  cutoff <= all[i] <=> i \in (k + m + 1)..n
            <3>1. i \in 1..(k + m) \/ i \in (k + m + 1)..n
                BY <1>1, <1>2, <1>3
            <3>2. i \in 1..(k + m) => ~(cutoff <= all[i]) /\ i \notin (k + m + 1)..n
                BY <1>1, <1>2, <1>3, <1>5
            <3>3. QED
                BY <1>1, <1>6, <3>1, <3>2
        <2>2. \A i \in (k + m + 1)..n : i \in 1..n
            BY <1>1, <1>2, <1>3
        <2>3. \A i : i \in Inside(all, cutoff) <=> i \in (k + m + 1)..n
            BY <1>1, <2>1, <2>2 DEF Inside
        <2>4. QED
            BY <2>3
    <1>8. Cardinality((k + m + 1)..n) = n - k - m
        <2>1. k + m + 1 \in Int /\ n \in Int /\ (k + m + 1 > n => n - k - m = 0)
            BY <1>1, <1>2, <1>3
        <2>2. Cardinality((k + m + 1)..n) = IF k + m + 1 > n THEN 0 ELSE n - (k + m + 1) + 1
            BY <2>1, FS_Interval
        <2>3. n - (k + m + 1) + 1 = n - k - m
            BY <1>1, <1>2, <1>3
        <2>4. QED
            BY <2>1, <2>2, <2>3
    <1>9. Len(kept) = n - k - m /\ Len(kept) = n - (k + m) /\ k + m \in 0..n
        BY <1>1, <1>2, <1>3
    <1>10. \A i \in 1..Len(kept) : kept[i] = all[i + (k + m)]
        <2>1. SUFFICES ASSUME NEW i \in 1..Len(kept) PROVE kept[i] = all[i + (k + m)]
            OBVIOUS
        <2>2. i \in 1..(p - m) /\ i + m \in 1..p /\ i + m + k = i + (k + m)
            BY <1>1, <1>2, <1>3
        <2>3. QED
            BY <1>2, <1>3, <2>2
    <1>11. EndOf(kept, all, cutoff)
        BY <1>5, <1>9, <1>10 DEF EndOf, n
    <1>12. QED
        BY <1>7, <1>8, <1>9, <1>11 DEF kept

\* One more time, at the end of both; one more time that is the largest.
LEMMA OneMoreTime ==
    ASSUME NEW deque \in Seq(Nat), NEW all \in Seq(Nat), NEW cutoff \in Int, NEW time \in Nat,
           EndOf(deque, all, cutoff), Ordered(all, time)
    PROVE  /\ Append(deque, time) \in Seq(Nat) /\ Append(all, time) \in Seq(Nat)
           /\ EndOf(Append(deque, time), Append(all, time), cutoff)
           /\ Ordered(Append(all, time), time)
    <1> DEFINE n == Len(all)
               p == Len(deque)
               more == Append(all, time)
               longer == Append(deque, time)
    <1>1. n \in Nat /\ p \in Nat /\ \A i \in 1..n : all[i] \in Nat
        BY LenProperties, ElementOfSeq
    <1>2. /\ more \in Seq(Nat) /\ Len(more) = n + 1 /\ more[n + 1] = time
          /\ \A i \in 1..n : more[i] = all[i]
        BY AppendProperties
    <1>3. /\ longer \in Seq(Nat) /\ Len(longer) = p + 1 /\ longer[p + 1] = time
          /\ \A i \in 1..p : longer[i] = deque[i]
        BY AppendProperties
    <1>4. PICK k \in 0..n :
            /\ p = n - k
            /\ \A i \in 1..p : deque[i] = all[i + k]
            /\ \A i \in 1..k : all[i] < cutoff
        BY DEF EndOf
    <1>5. /\ \A i, j \in 1..n : i <= j => all[i] <= all[j]
          /\ \A i \in 1..n : all[i] <= time
        BY DEF Ordered
    <1> HIDE DEF n, p, more, longer
    <1>6. \A i \in 1..Len(longer) : longer[i] = more[i + k]
        <2>1. SUFFICES ASSUME NEW i \in 1..(p + 1) PROVE longer[i] = more[i + k]
            BY <1>3
        <2>2. CASE i = p + 1
            BY <1>1, <1>2, <1>3, <1>4, <2>2
        <2>3. CASE i \in 1..p
            <3>1. i + k \in 1..n
                BY <1>1, <1>4, <2>3
            <3>2. QED
                BY <1>2, <1>3, <1>4, <2>3, <3>1
        <2>4. QED
            BY <1>1, <2>2, <2>3
    <1>7. \A i \in 1..k : more[i] < cutoff
        <2>1. \A i \in 1..k : i \in 1..n
            BY <1>1, <1>4
        <2>2. QED
            BY <1>2, <1>4, <2>1
    <1>8. k \in 0..Len(more) /\ Len(longer) = Len(more) - k
        BY <1>1, <1>2, <1>3, <1>4
    <1>9. EndOf(longer, more, cutoff)
        BY <1>6, <1>7, <1>8 DEF EndOf
    <1>10. \A i \in 1..(n + 1) : (i \in 1..n /\ more[i] = all[i]) \/ (i = n + 1 /\ more[i] = time)
        BY <1>1, <1>2
    <1>11. \A i, j \in 1..(n + 1) : i <= j => more[i] <= more[j]
        <2>1. SUFFICES ASSUME NEW i \in 1..(n + 1), NEW j \in 1..(n + 1), i <= j
                       PROVE  more[i] <= more[j]
            OBVIOUS
        <2>2. i = n + 1 => j = n + 1
            BY <1>1, <2>1
        <2>3. time <= time
            OBVIOUS
        <2>4. QED
            BY <1>5, <1>10, <2>1, <2>2, <2>3
    <1>12. \A i \in 1..(n + 1) : more[i] <= time
        BY <1>5, <1>10
    <1>13. Ordered(more, time)
        BY <1>2, <1>11, <1>12 DEF Ordered
    <1>14. QED
        BY <1>2, <1>3, <1>9, <1>13 DEF more, longer

\* As time passes more of the times are before the cutoff.
LEMMA LaterCutoff ==
    ASSUME NEW deque, NEW all \in Seq(Nat), NEW cutoff \in Int, NEW later \in Int, cutoff <= later,
           NEW limit \in Int, NEW above \in Int, limit <= above,
           EndOf(deque, all, cutoff), Ordered(all, limit)
    PROVE  EndOf(deque, all, later) /\ Ordered(all, above)
    <1>1. Len(all) \in Nat /\ \A i \in 1..Len(all) : all[i] \in Nat
        BY LenProperties, ElementOfSeq
    <1>2. PICK k \in 0..Len(all) :
            /\ Len(deque) = Len(all) - k
            /\ \A i \in 1..Len(deque) : deque[i] = all[i + k]
            /\ \A i \in 1..k : all[i] < cutoff
        BY DEF EndOf
    <1>3. \A i \in 1..k : all[i] < later
        <2>1. \A i \in 1..k : i \in 1..Len(all)
            BY <1>1
        <2>2. \A i \in 1..k : all[i] < cutoff /\ all[i] \in Nat
            BY <1>1, <1>2, <2>1
        <2>3. QED
            BY <2>2
    <1>4. EndOf(deque, all, later)
        BY <1>2, <1>3 DEF EndOf
    <1>5. Ordered(all, above)
        BY <1>1 DEF Ordered
    <1>6. QED
        BY <1>4, <1>5

\* Nothing is the end of nothing, and in order.
LEMMA NoTimes ==
    ASSUME NEW cutoff, NEW limit
    PROVE  EndOf(<<>>, <<>>, cutoff) /\ Ordered(<<>>, limit)
    <1>1. Len(<<>>) = 0 /\ 0 \in 0..0 /\ 0 = 0 - 0 /\ 1..0 = {}
        BY EmptySeq
    <1>2. QED
        BY <1>1 DEF EndOf, Ordered

\* A rate-limit answer shuts its scope for some time.
LEMMA DelayPositive == ASSUME NEW res \in Results PROVE RateLimitDelay(res) >= 1
    <1>1. res.retryAfter \in {0} \cup RetryAfters
        BY DEF Results, Result
    <1>2. \A after \in RetryAfters : after \in Nat
        BY CircuitAssumption DEF CircuitAssumption
    <1>3. res.retryAfter \in Nat
        BY <1>1, <1>2
    <1>4. OpenDuration \in Nat \ {0} /\ MaxRateLimitBackoff \in Nat \ {0}
        BY CircuitAssumption DEF CircuitAssumption
    <1>5. QED
        BY <1>3, <1>4 DEF RateLimitDelay, LargestDelay, Larger, Smaller

\* While a scope is closed its deque is the end of the evidence against it; what the
\* deque lacks is older than the window.
FailuresEndEvidence ==
    \A s \in Scopes : openUntil[s] = 0 =>
        /\ EndOf(failures[s], evidence[s], now - FailureWindow)
        /\ Ordered(evidence[s], now)

\* What a step can do to a closed scope: nothing, forget every failure, open it because
\* the provider asked for a cooldown, or count one more failure.
Unmoved(s) ==
    /\ openUntil'[s] = openUntil[s]
    /\ failures'[s] = failures[s]
    /\ evidence'[s] = evidence[s]
Recovered(s) ==
    /\ openUntil'[s] = 0
    /\ failures'[s] = <<>>
    /\ evidence'[s] = <<>>
CooledDown(s) ==
    /\ openUntil'[s] # 0
    /\ promised'[s] # promised[s]
FailureCounted(s) ==
    LET recent == Pruned(Append(failures[s], now), now - FailureWindow) IN
    /\ evidence'[s] = Append(evidence[s], now)
    /\ \/ Len(recent) >= FailureThreshold /\ openUntil'[s] # 0
       \/ Len(recent) < FailureThreshold /\ openUntil'[s] = 0 /\ failures'[s] = recent
Effect(s) == Unmoved(s) \/ Recovered(s) \/ CooledDown(s) \/ FailureCounted(s)

\* Recording a result does one of these to a closed scope.
LEMMA RecordOnClosed ==
    ASSUME IInv, NEW c \in Calls, NEW res \in Results, RecordResult(c, res),
           openUntil[ScopeOf[c]] = 0
    PROVE  Effect(ScopeOf[c])
    <1> DEFINE s == ScopeOf[c]
    <1>0. /\ s \in Scopes /\ TypeOK /\ ScopeInv(s)
          /\ now \in Nat \ {0} /\ OpenDuration \in Nat /\ promised[s] \in Nat
        BY CircuitAssumption DEF CircuitAssumption, IInv, TypeOK
    <1>1. rateLimitUntil[s] \in Nat /\ rateLimitUntil[s] <= 0 /\ ~(now < rateLimitUntil[s])
        BY <1>0 DEF ScopeInv, TypeOK
    <1>2. state[s] # "half_open"
        BY <1>0 DEF ScopeInv, Lapsed
    <1>3. \A delay \in Nat : Open(s, delay) => openUntil'[s] # 0
        BY <1>0 DEF Open, Larger, TypeOK
    <1>4. CASE RecordRateLimited(c, res)
        <2> DEFINE delay == RateLimitDelay(res)
        <2>1. delay \in Nat /\ delay >= 1
            BY DelayBounded, DelayPositive
        <2>2. openUntil'[s] # 0
            BY <1>3, <1>4, <2>1 DEF RecordRateLimited
        <2>3. promised'[s] = Larger(promised[s], now + delay)
            BY <1>0, <1>4 DEF RecordRateLimited, TypeOK
        <2>4. ~(now < promised[s])
            BY <1>0, <1>1 DEF ScopeInv
        <2> HIDE DEF delay
        <2>5. promised'[s] # promised[s]
            BY <1>0, <2>1, <2>3, <2>4 DEF Larger
        <2>6. QED
            BY <2>2, <2>5 DEF Effect, CooledDown
    <1>5. CASE RecordDuringCooldown(c, res)
        BY <1>1, <1>5 DEF RecordDuringCooldown
    <1>6. CASE RecordHalfOpen(c, res)
        BY <1>2, <1>6 DEF RecordHalfOpen
    <1>7. CASE RecordSuccess(c, res)
        BY <1>0, <1>7 DEF RecordSuccess, Close, Effect, Recovered, TypeOK
    <1>8. CASE RecordNeutral(c, res)
        BY <1>8 DEF RecordNeutral, breaker, Effect, Unmoved
    <1>9. CASE RecordFailure(c, res)
        <2>1. evidence'[s] = Append(evidence[s], now)
            BY <1>0, <1>9 DEF RecordFailure, TypeOK
        <2>2. QED
            BY <1>0, <1>3, <1>9, <2>1 DEF RecordFailure, Effect, FailureCounted, TypeOK
    <1>10. QED
        BY <1>4, <1>5, <1>6, <1>7, <1>8, <1>9 DEF RecordResult

\* A step does one of these to a scope that is closed, and an open scope stays open or
\* forgets every failure.
LEMMA StepOnScope ==
    ASSUME IInv, [Next]_vars, NEW s \in Scopes
    PROVE  /\ openUntil[s] = 0 => Effect(s)
           /\ openUntil[s] # 0 => openUntil'[s] # 0 \/ Recovered(s)
    <1>0. TypeOK /\ now \in Nat \ {0} /\ OpenDuration \in Nat
        BY CircuitAssumption DEF CircuitAssumption, IInv, TypeOK
    <1>1. SUFFICES ASSUME ~Unmoved(s)
                   PROVE  /\ openUntil[s] = 0 => Effect(s)
                          /\ openUntil[s] # 0 => openUntil'[s] # 0 \/ Recovered(s)
        BY DEF Unmoved, Effect
    <1>2. PICK c \in Calls : \E res \in Results : RecordResult(c, res)
        BY <1>1 DEF Next, CallStep, Tick, Allow, AllowClosed, AllowProbe, Refuse, RefuseOpen, RefuseProbe,
               ReleaseProbe, vars, breaker, history, Unmoved
    <1>3. PICK res \in Results : RecordResult(c, res)
        BY <1>2
    <1>4. ScopeOf[c] = s
        <2>1. SUFFICES ASSUME ScopeOf[c] # s PROVE Unmoved(s)
            BY <1>1
        <2>2. ASSUME NEW delay, Open(ScopeOf[c], delay), evidence'[s] = evidence[s] PROVE Unmoved(s)
            BY <1>0, <2>1, <2>2 DEF Open, Unmoved, TypeOK
        <2>3. ASSUME Close(ScopeOf[c]) PROVE Unmoved(s)
            BY <1>0, <2>1, <2>3 DEF Close, Unmoved, TypeOK
        <2>4. CASE RecordRateLimited(c, res)
            BY <2>2, <2>4 DEF RecordRateLimited
        <2>5. CASE RecordDuringCooldown(c, res)
            BY <2>5 DEF RecordDuringCooldown, breaker, Unmoved
        <2>6. CASE RecordHalfOpen(c, res)
            BY <2>2, <2>3, <2>6 DEF RecordHalfOpen, Unmoved
        <2>7. CASE RecordSuccess(c, res)
            BY <2>3, <2>7 DEF RecordSuccess
        <2>8. CASE RecordNeutral(c, res)
            BY <2>8 DEF RecordNeutral, breaker, Unmoved
        <2>9. CASE RecordFailure(c, res)
            <3>1. evidence'[s] = evidence[s]
                BY <1>0, <2>1, <2>9 DEF RecordFailure, TypeOK
            <3>2. QED
                BY <1>0, <2>1, <2>2, <2>9, <3>1 DEF RecordFailure, Unmoved, TypeOK
        <2>10. QED
            BY <1>3, <2>4, <2>5, <2>6, <2>7, <2>8, <2>9 DEF RecordResult
    <1>5. openUntil[s] = 0 => Effect(s)
        BY <1>3, <1>4, RecordOnClosed
    <1>6. ASSUME openUntil[s] # 0, openUntil'[s] = 0
          PROVE  Recovered(s)
        <2>1. \A delay \in Nat : ~Open(s, delay)
            <3>1. SUFFICES ASSUME NEW delay \in Nat, Open(s, delay) PROVE FALSE
                OBVIOUS
            <3>2. openUntil'[s] = Larger(openUntil[s], now + delay)
                BY <1>0, <3>1 DEF Open, TypeOK
            <3>3. QED
                BY <1>0, <1>6, <3>2 DEF Larger, TypeOK
        <2>2. Close(s)
            BY <1>0, <1>3, <1>4, <1>6, <2>1, DelayBounded
               DEF RecordResult, RecordRateLimited, RecordDuringCooldown, RecordHalfOpen, RecordSuccess,
                   RecordNeutral, RecordFailure, breaker
        <2>3. QED
            BY <1>0, <2>2 DEF Close, Recovered, TypeOK
    <1>7. QED
        BY <1>5, <1>6

\* Each step keeps the deques of closed scopes the end of the evidence.
LEMMA FailuresStep == IInv /\ IInv' /\ FailuresEndEvidence /\ [Next]_vars => FailuresEndEvidence'
    <1> SUFFICES ASSUME IInv, IInv', FailuresEndEvidence, [Next]_vars,
                        NEW s \in Scopes, openUntil'[s] = 0
                 PROVE  /\ EndOf(failures'[s], evidence'[s], now' - FailureWindow)
                        /\ Ordered(evidence'[s], now')
        BY DEF FailuresEndEvidence
    <1>1. /\ now \in Nat /\ now' \in Nat /\ FailureWindow \in Nat /\ now - FailureWindow \in Int
          /\ failures[s] \in Seq(Nat) /\ evidence[s] \in Seq(Nat)
        BY CircuitAssumption DEF CircuitAssumption, IInv, TypeOK
    <1>2. now' \in {now, now + 1}
        BY DEF Next, CallStep, Tick, Allow, AllowClosed, AllowProbe, Refuse, RefuseOpen, RefuseProbe,
               ReleaseProbe, RecordResult, vars
    <1>3. CASE Recovered(s)
        BY <1>3, NoTimes DEF Recovered
    <1>4. CASE openUntil[s] = 0 /\ Unmoved(s)
        <2>1. EndOf(failures[s], evidence[s], now - FailureWindow) /\ Ordered(evidence[s], now)
            BY <1>4 DEF FailuresEndEvidence
        <2>2. now <= now' /\ now - FailureWindow <= now' - FailureWindow /\ now' - FailureWindow \in Int
              /\ now \in Int /\ now' \in Int
            <3> DEFINE next == now'
            <3>1. next \in Nat /\ next \in {now, now + 1}
                BY <1>1, <1>2
            <3> HIDE DEF next
            <3>2. now <= next /\ now - FailureWindow <= next - FailureWindow /\ next - FailureWindow \in Int
                  /\ now \in Int /\ next \in Int
                BY <1>1, <3>1
            <3>3. QED
                BY <3>2 DEF next
        <2>3. EndOf(failures[s], evidence[s], now' - FailureWindow) /\ Ordered(evidence[s], now')
            BY <1>1, <2>1, <2>2, LaterCutoff
        <2>4. QED
            BY <1>4, <2>3 DEF Unmoved
    <1>5. CASE openUntil[s] = 0 /\ FailureCounted(s)
        <2> DEFINE longer == Append(failures[s], now)
                   more == Append(evidence[s], now)
                   cutoff == now - FailureWindow
        <2>1. EndOf(failures[s], evidence[s], cutoff) /\ Ordered(evidence[s], now)
            BY <1>5 DEF FailuresEndEvidence
        <2>2. longer \in Seq(Nat) /\ more \in Seq(Nat) /\ EndOf(longer, more, cutoff) /\ Ordered(more, now)
            BY <1>1, <2>1, OneMoreTime
        <2>3. evidence'[s] = more /\ failures'[s] = Pruned(longer, cutoff)
            BY <1>5 DEF FailureCounted
        <2>4. now' = now
            <3>1. SUFFICES ASSUME Tick PROVE FALSE
                BY DEF Next, CallStep, Allow, AllowClosed, AllowProbe, Refuse, RefuseOpen, RefuseProbe,
                       ReleaseProbe, RecordResult, vars
            <3>2. evidence'[s] = evidence[s]
                BY <3>1 DEF Tick, history
            <3>3. Len(more) = Len(evidence[s]) + 1 /\ Len(evidence[s]) \in Nat
                BY <1>1, AppendProperties, LenProperties
            <3>4. QED
                BY <2>3, <3>2, <3>3
        <2>5. cutoff \in Int
            BY <1>1
        <2> HIDE DEF longer, more, cutoff
        <2>6. EndOf(Pruned(longer, cutoff), more, cutoff)
            BY <2>2, <2>5, PrunedDequeCounts
        <2>7. QED
            BY <2>2, <2>3, <2>4, <2>6 DEF cutoff
    <1>6. CASE openUntil[s] = 0
        BY <1>3, <1>4, <1>5, <1>6, StepOnScope DEF Effect, CooledDown
    <1>7. CASE openUntil[s] # 0
        BY <1>3, <1>7, StepOnScope
    <1>8. QED
        BY <1>6, <1>7

\* The deques of closed scopes are the end of the evidence in every reachable state.
THEOREM FailuresCount == Spec => [](IInv /\ FailuresEndEvidence)
    <1>1. Init => FailuresEndEvidence
        <2> SUFFICES ASSUME Init, NEW s \in Scopes
                     PROVE  /\ EndOf(failures[s], evidence[s], now - FailureWindow)
                            /\ Ordered(evidence[s], now)
            BY DEF FailuresEndEvidence
        <2>1. failures[s] = <<>> /\ evidence[s] = <<>>
            BY DEF Init
        <2>2. QED
            BY <2>1, NoTimes
    <1>2. QED
        BY <1>1, InitIInv, NextIInv, FailuresStep, PTL DEF Spec

\* A closed scope opens exactly when the failures in the window reach the threshold, or
\* when the provider asks for a cooldown.
THEOREM OpensRightly == Spec => OpensOnEvidence
    <1>1. ASSUME IInv, FailuresEndEvidence, [Next]_vars
          PROVE  [\A s \in Scopes :
                     openUntil[s] = 0 /\ promised'[s] = promised[s]
                       => (openUntil'[s] # 0 <=> 
                             /\ evidence'[s] # evidence[s]
                             /\ Cardinality(RecentEvidence(s)) >= FailureThreshold)]_vars
        <2> SUFFICES ASSUME NEW s \in Scopes, openUntil[s] = 0, promised'[s] = promised[s]
                     PROVE  openUntil'[s] # 0 <=> 
                                /\ evidence'[s] # evidence[s]
                                /\ Cardinality(RecentEvidence(s)) >= FailureThreshold
            OBVIOUS
        <2>1. /\ now \in Nat /\ now - FailureWindow \in Int /\ FailureThreshold \in Nat \ {0}
              /\ failures[s] \in Seq(Nat) /\ evidence[s] \in Seq(Nat)
            BY <1>1, CircuitAssumption DEF CircuitAssumption, IInv, TypeOK
        <2>2. CASE Unmoved(s)
            BY <2>2 DEF Unmoved
        <2>3. CASE Recovered(s)
            <3>1. RecentEvidence(s) = {}
                BY <2>3 DEF Recovered, RecentEvidence
            <3>2. Cardinality(RecentEvidence(s)) = 0
                BY <3>1, FS_EmptySet
            <3>3. QED
                BY <2>1, <2>3, <3>2 DEF Recovered
        <2>4. CASE FailureCounted(s)
            <3> DEFINE longer == Append(failures[s], now)
                       more == Append(evidence[s], now)
                       cutoff == now - FailureWindow
            <3>1. EndOf(failures[s], evidence[s], cutoff) /\ Ordered(evidence[s], now)
                BY <1>1 DEF FailuresEndEvidence
            <3>2. /\ longer \in Seq(Nat) /\ more \in Seq(Nat)
                  /\ EndOf(longer, more, cutoff) /\ Ordered(more, now)
                BY <2>1, <3>1, OneMoreTime
            <3>3. evidence'[s] = more /\ evidence'[s] # evidence[s]
                <4>1. Len(more) = Len(evidence[s]) + 1 /\ Len(evidence[s]) \in Nat
                    BY <2>1, AppendProperties, LenProperties
                <4>2. QED
                    BY <2>4, <4>1 DEF FailureCounted
            <3>4. /\ openUntil'[s] # 0 <=> Len(Pruned(longer, cutoff)) >= FailureThreshold
                <4>1. Len(Pruned(longer, cutoff)) \in Nat
                    BY <2>1, <3>2, PrunedType, LenProperties
                <4>2. QED
                    BY <2>1, <2>4, <4>1 DEF FailureCounted
            <3>5. RecentEvidence(s) = Inside(more, cutoff)
                BY <3>3 DEF RecentEvidence, Inside
            <3> HIDE DEF longer, more
            <3>6. Len(Pruned(longer, cutoff)) = Cardinality(Inside(more, cutoff))
                BY <2>1, <3>2, PrunedDequeCounts
            <3>7. QED
                BY <3>3, <3>4, <3>5, <3>6
        <2>5. QED
            BY <1>1, <2>2, <2>3, <2>4, StepOnScope DEF Effect, CooledDown
    <1>2. IInv /\ FailuresEndEvidence /\ [Next]_vars =>
                 [\A s \in Scopes :
                     openUntil[s] = 0 /\ promised'[s] = promised[s]
                       => (openUntil'[s] # 0 <=> 
                             /\ evidence'[s] # evidence[s]
                             /\ Cardinality(RecentEvidence(s)) >= FailureThreshold)]_vars
        BY <1>1
    <1>3. QED
        BY <1>2, FailuresCount, PTL DEF Spec, OpensOnEvidence

=============================================================================
