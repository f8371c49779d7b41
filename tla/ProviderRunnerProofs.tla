------------------------ MODULE ProviderRunnerProofs ------------------------
(* Proofs about ProviderRunner, for every value of its constants.  What is *)
(* proved of the limiters and of the breaker alone is taken over: a step   *)
(* of the runner is a step of each of them, or changes nothing of theirs.  *)
EXTENDS ProviderRunner, FiniteSetTheorems, FunctionTheorems, SequenceTheorems, TLAPS

LP == INSTANCE CapacityLimitersProofs WITH Tasks <- Requests
CP == INSTANCE CircuitBreakerProofs

-----------------------------------------------------------------------------
(* The inductive invariant.                                                *)

\* What can have become of a plugin in each phase of its request.
FatesIn(phase, raised) ==
    CASE phase = "idle" -> {"unseen"}
      [] phase \in {"admit", "lane", "global"} -> {"unseen", "rejected", "admitted"}
      [] phase = "calls" -> {"unseen", "rejected", "queued", "running", "done"}
      [] phase \in {"reap", "drain", "lost"} -> {"unseen", "rejected", "stopping", "done"}
      [] phase = "record" -> {"unseen", "rejected", "done", "recorded"}
      [] phase = "unwind" /\ raised -> {"unseen", "rejected", "admitted", "done"}
      [] OTHER -> {"unseen", "rejected", "recorded"}

\* The admission loop has come to every plugin once admission is over, and a plugin it
\* has not come to is unseen.
Came(r, p) == \E i \in 1..(at[r] - 1) : Plan[r][i] = p
OverPlan(r) == at[r] = Len(Plan[r]) + 1
LoopInv(r) ==
    /\ pc[r] = "idle" => at[r] = 1
    /\ pc[r] = "lane" => at[r] <= Len(Plan[r])
    /\ pc[r] \in {"global", "calls", "reap", "record"} => OverPlan(r)
    /\ pc[r] = "unwind" /\ ~aborted[r] => OverPlan(r)
    /\ pc[r] = "global" => Runnable(r) # {}
    /\ \A p \in Providers : call[r][p] = "unseen" <=> ~Came(r, p)

\* An exception is on its way only out of the try block, and finally waits for calls only
\* for one of a quote that is too large; each plugin is where the phase allows, and has a
\* result in the lists once it was turned away or recorded.
FateInv(r) ==
    /\ aborted[r] => pc[r] \in {"reap", "drain", "unwind", "lost"}
    /\ pc[r] \in {"drain", "lost"} => aborted[r] /\ r \in oversize
    /\ \A p \in Providers :
        /\ call[r][p] \in FatesIn(pc[r], aborted[r])
        /\ answers[r][p] = IF call[r][p] \in {"rejected", "recorded"} THEN 1 ELSE 0

Live(r) == {p \in Providers : call[r][p] \in Alive}

\* The phases in which tasks of a request may be alive.
Calling == {"calls", "reap", "drain", "lost"}

\* What a request owns is what the breaker and the limiters think it has; it holds the
\* unit of each plugin that was admitted until it unwinds, and a unit of the service
\* for each live task.
OwnedInv(r) ==
    /\ \A p \in Providers : p \in scopes[r] <=> since[<<r, p>>] # 0
    /\ \A l \in Limiters : l \in reservations[r] <=> held[r][l] # 0
    /\ pc[r] = "idle" => scopes[r] = {} /\ reservations[r] = {}
    /\ pc[r] # "unwind" =>
            \A p \in Providers : call[r][p] \in {"unseen", "rejected"} \/ held[r][p] # 0
    /\ pc[r] \in Calling => Cardinality(Live(r)) <= held[r]["global"]

RequestInv(r) == LoopInv(r) /\ FateInv(r) /\ OwnedInv(r)

\* Only a request in admission waits, for what it wants.
WaitingInv == \A w \in L!Waiters : pc[w[1]] \in {"lane", "global"} /\ w = Wanted(w[1])

RunnerInv == TypeOK /\ WaitingInv /\ \A r \in Requests : RequestInv(r)

IInv == RunnerInv /\ LP!IInv /\ CP!IInv

-----------------------------------------------------------------------------
(* The constants.                                                          *)

\* There is a call for each request and provider, on the scope of the two.
LEMMA CallsAndScopes ==
    /\ IsFiniteSet(Calls)
    /\ ScopeOf \in [Calls -> Scopes]
    /\ \A r \in Requests, p \in Providers :
            /\ <<r, p>> \in Calls
            /\ ScopeOf[<<r, p>>] = <<p, GroupOf[r]>>
            /\ <<p, GroupOf[r]>> \in Scopes
    <1>1. IsFiniteSet(Calls)
        BY RunnerAssumption, FS_Product DEF RunnerAssumption, Calls
    <1>2. \A r \in Requests : GroupOf[r] \in Groups
        BY RunnerAssumption DEF RunnerAssumption
    <1>3. \A c \in Calls : c[1] \in Requests /\ c[2] \in Providers
        BY DEF Calls
    <1>4. ScopeOf \in [Calls -> Scopes]
        BY <1>2, <1>3 DEF ScopeOf, Scopes
    <1>5. QED
        BY <1>1, <1>2, <1>4 DEF Calls, ScopeOf, Scopes

\* What the modules of the breaker and of the limiters assume of their constants.
LEMMA BreakerAssumed == CP!CircuitAssumption
    <1>1. /\ FailureWindow \in Nat \ {0} /\ FailureThreshold \in Nat \ {0}
          /\ OpenDuration \in Nat \ {0} /\ ProbeCount \in Nat \ {0}
          /\ MaxRateLimitBackoff \in Nat \ {0}
          /\ RetryAfters \subseteq Nat /\ MaxTime \in Nat
        BY RunnerAssumption DEF RunnerAssumption
    <1>2. CallLife \in Nat
        BY <1>1 DEF CallLife
    <1>3. CP!IsFiniteSet(Calls)
        BY CallsAndScopes DEF CP!IsFiniteSet, IsFiniteSet
    <1>4. QED
        BY <1>1, <1>2, <1>3, CallsAndScopes DEF CP!CircuitAssumption

\* Every limiter has a capacity.
LEMMA Capacities ==
    /\ Capacity \in [Limiters -> Nat \ {0}]
    /\ Capacity["global"] = GlobalCapacity
    /\ \A p \in Providers : p \in Limiters /\ p # "global" /\ Capacity[p] = LaneCapacity
    <1>1. LaneCapacity \in Nat \ {0} /\ GlobalCapacity \in Nat \ {0} /\ "global" \notin Providers
        BY RunnerAssumption DEF RunnerAssumption
    <1>2. QED
        BY <1>1 DEF Capacity, Limiters

\* The weights are natural numbers, and those of a set of providers are among them.
LEMMA Weights ==
    /\ Units \subseteq Nat \ {0}
    /\ \A S \in SUBSET Providers : IsFiniteSet(S) /\ (S # {} => Cardinality(S) \in Units)
    <1>1. IsFiniteSet(Providers)
        BY RunnerAssumption DEF RunnerAssumption
    <1>2. Cardinality(Providers) \in Nat
        BY <1>1, FS_CardinalityType
    <1>3. ASSUME NEW S \in SUBSET Providers
          PROVE  IsFiniteSet(S) /\ (S # {} => Cardinality(S) \in Units)
        <2>1. IsFiniteSet(S) /\ Cardinality(S) \in Nat /\ Cardinality(S) <= Cardinality(Providers)
            BY <1>1, FS_Subset, FS_CardinalityType
        <2>2. S # {} => Cardinality(S) # 0
            BY <2>1, FS_EmptySet
        <2>3. QED
            BY <1>2, <2>1, <2>2 DEF Units
    <1>4. QED
        BY <1>2, <1>3 DEF Units

\* So have the limiters what they assume: tasks, capacities and units.
LEMMA LimitersAssumed == LP!LimiterAssumption
    <1>1. LP!IsFiniteSet(Requests)
        BY RunnerAssumption DEF RunnerAssumption, LP!IsFiniteSet, IsFiniteSet
    <1>2. QED
        BY <1>1, Capacities, Weights DEF LP!LimiterAssumption

-----------------------------------------------------------------------------
(* The steps of the two modules.                                           *)

\* The limiters of the runner take the steps the proofs about them are about.
LEMMA LimiterSteps ==
    /\ L!Init <=> LP!Init
    /\ \A t, l, u :
            /\ L!AcquireNow(t, l, u) <=> LP!AcquireNow(t, l, u)
            /\ L!Sleep(t, l, u) <=> LP!Sleep(t, l, u)
            /\ L!Release(t, l) <=> LP!Release(t, l)
    /\ \A w :
            /\ L!WakeGranted(w) <=> LP!WakeGranted(w)
            /\ L!WakeRefused(w) <=> LP!WakeRefused(w)
            /\ L!WakeAgain(w) <=> LP!WakeAgain(w)
            /\ L!TimeoutFires(w) <=> LP!TimeoutFires(w)
            /\ L!Cancel(w) <=> LP!Cancel(w)
    /\ \A t : L!Deadline(t) <=> LP!Deadline(t)
    BY DEF L!Init, LP!Init, L!AcquireNow, LP!AcquireNow, L!Sleep, LP!Sleep, L!Release, LP!Release,
           L!WakeGranted, LP!WakeGranted, L!WakeRefused, LP!WakeRefused, L!WakeAgain, LP!WakeAgain,
           L!TimeoutFires, LP!TimeoutFires, L!Cancel, LP!Cancel, L!Deadline, LP!Deadline,
           L!Leave, LP!Leave, L!Cardinality, LP!Cardinality, L!Busy, LP!Busy, L!Waiters, LP!Waiters,
           L!Fits, LP!Fits, L!Take, LP!Take, L!Larger, LP!Larger

\* So does the breaker.
LEMMA BreakerSteps ==
    /\ C!Init <=> CP!Init
    /\ C!Tick <=> CP!Tick
    /\ \A c : /\ C!Allow(c) <=> CP!Allow(c)
              /\ C!Refuse(c) <=> CP!Refuse(c)
              /\ C!ReleaseProbe(c) <=> CP!ReleaseProbe(c)
    /\ \A c, res : C!RecordResult(c, res) <=> CP!RecordResult(c, res)
    /\ C!Results = CP!Results
    <1>1. \A times, cutoff : C!Pruned(times, cutoff) = CP!Pruned(times, cutoff)
        BY DEF C!Pruned, CP!Pruned, C!Cardinality, CP!Cardinality
    <1>2. /\ C!Init <=> CP!Init
          /\ C!Tick <=> CP!Tick
        BY DEF C!Init, CP!Init, C!Tick, CP!Tick, C!breaker, CP!breaker, C!history, CP!history
    <1>3. \A c : /\ C!Allow(c) <=> CP!Allow(c)
                 /\ C!Refuse(c) <=> CP!Refuse(c)
                 /\ C!ReleaseProbe(c) <=> CP!ReleaseProbe(c)
        BY DEF C!Allow, CP!Allow, C!AllowClosed, CP!AllowClosed, C!AllowProbe, CP!AllowProbe,
               C!Refuse, CP!Refuse, C!RefuseOpen, CP!RefuseOpen, C!RefuseProbe, CP!RefuseProbe,
               C!ReleaseProbe, CP!ReleaseProbe, C!FreedProbe, CP!FreedProbe, C!Larger, CP!Larger,
               C!Lapsed, CP!Lapsed, C!history, CP!history
    <1>4. \A c, res : C!RecordResult(c, res) <=> CP!RecordResult(c, res)
        BY DEF C!RecordResult, CP!RecordResult, C!RecordRateLimited, CP!RecordRateLimited,
               C!RecordDuringCooldown, CP!RecordDuringCooldown, C!RecordHalfOpen, CP!RecordHalfOpen,
               C!RecordSuccess, CP!RecordSuccess, C!RecordNeutral, CP!RecordNeutral,
               C!RecordFailure, CP!RecordFailure, C!Pruned, CP!Pruned, C!Cardinality, CP!Cardinality,
               C!Open, CP!Open, C!Close, CP!Close, C!Counts, CP!Counts,
               C!IsCircuitFailure, CP!IsCircuitFailure, C!IsAnswer, CP!IsAnswer,
               C!RateLimitDelay, CP!RateLimitDelay, C!LargestDelay, CP!LargestDelay,
               C!Larger, CP!Larger, C!Smaller, CP!Smaller, C!Retriable, CP!Retriable,
               C!ProbesOf, CP!ProbesOf, C!FreedProbe, CP!FreedProbe,
               C!breaker, CP!breaker, C!history, CP!history
    <1>5. C!Results = CP!Results
        BY DEF C!Results, CP!Results, C!Result, CP!Result
    <1>6. QED
        BY <1>2, <1>3, <1>4, <1>5

-----------------------------------------------------------------------------
(* What a step of a limiter does to the request that takes it.             *)

\* The types of what the limiters and the breaker keep, and who waits.
LEMMA Shared ==
    ASSUME LP!IInv, CP!IInv
    PROVE  /\ held \in [Requests -> [Limiters -> Nat]]
           /\ since \in [Calls -> Nat] /\ now \in Nat \ {0}
           /\ L!Waiters \subseteq Requests \X Limiters \X Units
           /\ \A v, w \in L!Waiters : v[1] = w[1] => v = w
           /\ \A w \in L!Waiters : w[3] <= Capacity[w[2]]
           /\ asleep \cap woken = {}
    <1>1. /\ held \in [Requests -> [Limiters -> Nat]]
          /\ asleep \subseteq LP!Asks /\ woken \subseteq LP!Asks
        BY DEF LP!IInv, LP!TypeOK
    <1>2. /\ \A w \in LP!Waiters : w[3] <= Capacity[w[2]]
          /\ \A v, w \in LP!Waiters : v[1] = w[1] => v = w
          /\ asleep \cap woken = {}
        BY DEF LP!IInv, LP!WaiterInv
    <1>3. L!Waiters = LP!Waiters /\ LP!Waiters = asleep \cup woken
        BY DEF L!Waiters, LP!Waiters
    <1>4. since \in [Calls -> Nat] /\ now \in Nat \ {0}
        BY DEF CP!IInv, CP!TypeOK
    <1>5. QED
        BY <1>1, <1>2, <1>3, <1>4 DEF LP!Asks

\* Nobody waits for request r after the step, and nobody starts to.
NoneWaits(r) == L!Waiters' \subseteq L!Waiters /\ \A v \in L!Waiters' : v[1] # r

\* A request that is granted its units has them, and does not wait any more.
LEMMA Granted ==
    ASSUME LP!IInv, CP!IInv, NEW r \in Requests, NEW l, NEW u,
           L!AcquireNow(r, l, u) \/ L!WakeGranted(<<r, l, u>>)
    PROVE  held' = [held EXCEPT ![r][l] = u] /\ NoneWaits(r)
    <1>1. held' = [held EXCEPT ![r][l] = u]
        BY DEF L!AcquireNow, L!WakeGranted, L!Take
    <1>2. CASE L!AcquireNow(r, l, u)
        BY <1>1, <1>2 DEF L!AcquireNow, L!Busy, L!Waiters, NoneWaits
    <1>3. CASE L!WakeGranted(<<r, l, u>>)
        <2> DEFINE w == <<r, l, u>>
        <2>1. w \in L!Waiters /\ w[1] = r /\ L!Waiters' = L!Waiters \ {w}
            BY <1>3, Shared DEF L!WakeGranted, L!Waiters
        <2>2. QED
            BY <1>1, <2>1, Shared DEF NoneWaits
    <1>4. QED
        BY <1>1, <1>2, <1>3

\* A request that is refused holds what it held, and does not wait any more.
LEMMA NotGranted ==
    ASSUME LP!IInv, CP!IInv, NEW r \in Requests, NEW l, NEW u,
           \/ L!WakeRefused(<<r, l, u>>)
           \/ L!TimeoutFires(<<r, l, u>>)
           \/ L!Cancel(<<r, l, u>>)
    PROVE  held' = held /\ NoneWaits(r)
    <1> DEFINE w == <<r, l, u>>
    <1>1. held' = held /\ w \in L!Waiters /\ w[1] = r
        BY DEF L!WakeRefused, L!TimeoutFires, L!Cancel, L!Leave, L!Waiters
    <1>2. L!Waiters' = L!Waiters \ {w}
        <2>1. CASE L!WakeRefused(w)
            BY <2>1, Shared DEF L!WakeRefused, L!Waiters
        <2>2. CASE L!Leave(w)
            BY <2>2, Shared DEF L!Leave, L!Waiters
        <2>3. QED
            BY <2>1, <2>2 DEF L!TimeoutFires, L!Cancel
    <1>3. QED
        BY <1>1, <1>2, Shared DEF NoneWaits

-----------------------------------------------------------------------------
(* A step of one request leaves the others as they were.                   *)

Same(q) ==
    /\ pc'[q] = pc[q] /\ at'[q] = at[q] /\ call'[q] = call[q] /\ answers'[q] = answers[q]
    /\ scopes'[q] = scopes[q] /\ reservations'[q] = reservations[q] /\ aborted'[q] = aborted[q]
    /\ held'[q] = held[q] /\ (q \in oversize' <=> q \in oversize)
    /\ \A p \in Providers : since'[<<q, p>>] = since[<<q, p>>]

\* A request none of whose entries change keeps its invariant.
LEMMA SameKept ==
    ASSUME NEW q \in Requests, RequestInv(q), Same(q)
    PROVE  RequestInv(q)'
    <1>1. Live(q)' = Live(q) /\ Runnable(q)' = Runnable(q)
        BY DEF Same, Live, Runnable
    <1>2. LoopInv(q)'
        BY <1>1 DEF Same, RequestInv, LoopInv, OverPlan, Came
    <1>3. FateInv(q)'
        BY DEF Same, RequestInv, FateInv
    <1>4. OwnedInv(q)'
        BY <1>1 DEF Same, RequestInv, OwnedInv
    <1>5. QED
        BY <1>2, <1>3, <1>4 DEF RequestInv

\* A request that waits keeps on waiting for the same units.
LEMMA WantsSame ==
    ASSUME NEW q, pc'[q] = pc[q], at'[q] = at[q], call'[q] = call[q]
    PROVE  Wanted(q)' = Wanted(q)
    <1>1. Runnable(q)' = Runnable(q)
        BY DEF Runnable
    <1>2. QED
        BY <1>1 DEF Wanted, WorkUnits, Provider

\* When the other requests are left alone, only r could wait for something else.
LEMMA WaitingKept ==
    ASSUME WaitingInv, LP!IInv, CP!IInv, NEW r \in Requests,
           \A q \in Requests \ {r} : Same(q), NoneWaits(r)
    PROVE  WaitingInv'
    <1> SUFFICES ASSUME NEW w \in L!Waiters'
                 PROVE  pc'[w[1]] \in {"lane", "global"} /\ w = Wanted(w[1])'
        BY DEF WaitingInv
    <1>1. w \in L!Waiters /\ w[1] \in Requests \ {r}
        BY Shared DEF NoneWaits
    <1>2. Wanted(w[1])' = Wanted(w[1])
        BY <1>1, WantsSame DEF Same
    <1>3. QED
        BY <1>1, <1>2 DEF WaitingInv, Same

\* A request that is not in admission does not wait, nor does it start to when the
\* limiters are left alone.
LEMMA NotWaiting ==
    ASSUME WaitingInv, NEW r \in Requests, pc[r] \notin {"lane", "global"}, UNCHANGED limiters
    PROVE  NoneWaits(r)
    BY DEF WaitingInv, NoneWaits, L!Waiters, limiters

\* The invariant after a step of request r: its own, the others' being what they were.
LEMMA OneMoves ==
    ASSUME RunnerInv, NEW r \in Requests, TypeOK', \A q \in Requests \ {r} : Same(q),
           RequestInv(r)', WaitingInv'
    PROVE  RunnerInv'
    <1>1. \A q \in Requests \ {r} : RequestInv(q)'
        BY SameKept DEF RunnerInv
    <1>2. QED
        BY <1>1 DEF RunnerInv

-----------------------------------------------------------------------------
(* Admission.                                                              *)

\* The plugin the loop is at was not looked at before.
LEMMA AtHand ==
    ASSUME RunnerInv, NEW r \in Requests, at[r] <= Len(Plan[r])
    PROVE  /\ Provider(r) \in Providers /\ call[r][Provider(r)] = "unseen"
           /\ answers[r][Provider(r)] = 0
           /\ at[r] + 1 \in 1..(Len(Plan[r]) + 1)
           /\ \A p : (\E i \in 1..((at[r] + 1) - 1) : Plan[r][i] = p) <=> Came(r, p) \/ p = Provider(r)
    <1>1. Plan[r] \in Seq(Providers)
        BY RunnerAssumption DEF RunnerAssumption
    <1>2. Len(Plan[r]) \in Nat /\ DOMAIN Plan[r] = 1..Len(Plan[r])
        BY <1>1, LenProperties
    <1>3. at[r] \in 1..Len(Plan[r])
        BY <1>2 DEF RunnerInv, TypeOK
    <1>4. Provider(r) \in Providers
        BY <1>1, <1>3, ElementOfSeq DEF Provider
    <1>5. ~Came(r, Provider(r))
        <2>1. SUFFICES ASSUME NEW i \in 1..(at[r] - 1), Plan[r][i] = Plan[r][at[r]] PROVE FALSE
            BY DEF Came, Provider
        <2>2. i \in DOMAIN Plan[r] /\ at[r] \in DOMAIN Plan[r] /\ i # at[r]
            BY <1>2, <1>3
        <2>3. QED
            BY <2>1, <2>2, RunnerAssumption DEF RunnerAssumption
    <1>6. call[r][Provider(r)] = "unseen" /\ answers[r][Provider(r)] = 0
        BY <1>4, <1>5 DEF RunnerInv, RequestInv, LoopInv, FateInv
    <1>7. \A i : i \in 1..((at[r] + 1) - 1) <=> i \in 1..(at[r] - 1) \/ i = at[r]
        BY <1>3
    <1>8. \A p : (\E i \in 1..((at[r] + 1) - 1) : Plan[r][i] = p) <=> Came(r, p) \/ p = Provider(r)
        BY <1>7 DEF Came, Provider
    <1>9. at[r] + 1 \in 1..(Len(Plan[r]) + 1)
        BY <1>2, <1>3
    <1>10. QED
        BY <1>4, <1>6, <1>8, <1>9

\* Turning a plugin away with a result, for whatever reason.
LEMMA AppendKeeps ==
    ASSUME IInv, NEW r \in Requests, pc[r] \in {"admit", "lane"}, at[r] <= Len(Plan[r]),
           AppendResult(r), since' = since, held' = held, NoneWaits(r)
    PROVE  RunnerInv'
    <1> DEFINE p == Provider(r)
    <1>0. RunnerInv /\ TypeOK /\ LP!IInv /\ CP!IInv
        BY DEF IInv, RunnerInv
    <1>1. /\ p \in Providers /\ call[r][p] = "unseen" /\ answers[r][p] = 0
          /\ at[r] + 1 \in 1..(Len(Plan[r]) + 1)
          /\ \A x : (\E i \in 1..((at[r] + 1) - 1) : Plan[r][i] = x) <=> Came(r, x) \/ x = p
        BY <1>0, AtHand
    <1>2. /\ pc'[r] = "admit" /\ at'[r] = at[r] + 1 /\ aborted' = aborted
          /\ call'[r] = [call[r] EXCEPT ![p] = "rejected"]
          /\ answers'[r] = [answers[r] EXCEPT ![p] = @ + 1]
          /\ scopes' = scopes /\ reservations' = reservations /\ result' = result
          /\ oversize' = oversize
        BY <1>0 DEF AppendResult, TypeOK, owned
    <1> HIDE DEF p
    <1>2a. \A x \in Providers :
            /\ call'[r][x] = IF x = p THEN "rejected" ELSE call[r][x]
            /\ answers'[r][x] = IF x = p THEN 1 ELSE answers[r][x]
        BY <1>0, <1>1, <1>2 DEF TypeOK
    <1>3. \A q \in Requests \ {r} : Same(q)
        BY <1>0 DEF AppendResult, Same, TypeOK, owned
    <1>4. TypeOK'
        <2>1. pc' \in [Requests -> Phases]
            BY <1>0 DEF AppendResult, TypeOK, Phases
        <2>2. at' \in [Requests -> Nat] /\ \A q \in Requests : at'[q] \in 1..(Len(Plan[q]) + 1)
            <3>1. at' = [at EXCEPT ![r] = at[r] + 1] /\ at[r] + 1 \in Nat
                BY <1>0 DEF AppendResult, TypeOK
            <3>2. ASSUME NEW q \in Requests
                  PROVE  at'[q] \in 1..(Len(Plan[q]) + 1)
                <4>1. CASE q = r
                    BY <1>0, <1>1, <3>1, <4>1 DEF TypeOK
                <4>2. CASE q # r
                    BY <1>0, <3>1, <4>2 DEF TypeOK
                <4>3. QED
                    BY <4>1, <4>2
            <3>3. QED
                BY <1>0, <3>1, <3>2 DEF TypeOK
        <2>3. call' \in [Requests -> [Providers -> Fates]]
            BY <1>0 DEF AppendResult, TypeOK, Fates
        <2>4. answers' \in [Requests -> [Providers -> Nat]]
            <3>1. answers' = [answers EXCEPT ![r][p] = @ + 1] /\ answers[r][p] + 1 \in Nat
                BY <1>1 DEF AppendResult, p
            <3>2. QED
                BY <1>0, <3>1 DEF TypeOK
        <2>5. QED
            BY <1>0, <1>2, <2>1, <2>2, <2>3, <2>4 DEF TypeOK
    <1>5. LoopInv(r)'
        <2>1. \A x \in Providers : call[r][x] = "unseen" <=> ~Came(r, x)
            BY <1>0 DEF RunnerInv, RequestInv, LoopInv
        <2>2. \A x : Came(r, x)' <=> Came(r, x) \/ x = p
            BY <1>1, <1>2 DEF Came
        <2>3. QED
            BY <1>2, <1>2a, <2>1, <2>2 DEF LoopInv
    <1>6. FateInv(r)'
        BY <1>0, <1>1, <1>2, <1>2a DEF RunnerInv, RequestInv, FateInv, FatesIn
    <1>7. OwnedInv(r)'
        BY <1>0, <1>1, <1>2, <1>2a DEF RunnerInv, RequestInv, OwnedInv, Calling
    <1>8. WaitingInv'
        BY <1>0, <1>3, WaitingKept DEF RunnerInv
    <1>9. QED
        BY <1>0, <1>3, <1>4, <1>5, <1>6, <1>7, <1>8, OneMoves DEF RequestInv

\* An exception on its way out of admission, or of the results when all calls have ended.
LEMMA RaiseKeeps ==
    ASSUME IInv, NEW r \in Requests, pc[r] \in {"admit", "lane", "global", "calls"},
           pc[r] = "calls" => Unfinished(r) = {},
           Raise(r), since' = since, held' = held, NoneWaits(r)
    PROVE  RunnerInv'
    <1>0. RunnerInv /\ TypeOK /\ LP!IInv /\ CP!IInv
        BY DEF IInv, RunnerInv
    <1>1. /\ pc'[r] = "unwind" /\ aborted'[r] = TRUE
          /\ at' = at /\ call' = call /\ answers' = answers
          /\ scopes' = scopes /\ reservations' = reservations /\ result' = result
          /\ oversize' = oversize
        BY <1>0 DEF Raise, TypeOK, owned, outcome
    <1>2. \A q \in Requests \ {r} : Same(q)
        BY <1>0, <1>1 DEF Raise, Same, TypeOK
    <1>3. TypeOK'
        BY <1>0, <1>1 DEF Raise, TypeOK, Phases
    <1>4. LoopInv(r)'
        BY <1>0, <1>1 DEF RunnerInv, RequestInv, LoopInv, Came
    <1>5. FateInv(r)'
        BY <1>0, <1>1 DEF RunnerInv, RequestInv, FateInv, FatesIn, Unfinished
    <1>6. OwnedInv(r)'
        BY <1>0, <1>1 DEF RunnerInv, RequestInv, OwnedInv, Calling
    <1>7. WaitingInv'
        BY <1>0, <1>2, WaitingKept DEF RunnerInv
    <1>8. QED
        BY <1>0, <1>2, <1>3, <1>4, <1>5, <1>6, <1>7, OneMoves DEF RequestInv

\* The breaker lets the request try the plugin.
LEMMA PassKeeps ==
    ASSUME IInv, NEW r \in Requests, PassCircuit(r)
    PROVE  RunnerInv'
    <1> DEFINE p == Provider(r)
    <1>0. RunnerInv /\ TypeOK /\ LP!IInv /\ CP!IInv /\ pc[r] = "admit" /\ at[r] <= Len(Plan[r])
        BY DEF IInv, RunnerInv, PassCircuit, Considering
    <1>1. p \in Providers
        BY <1>0, AtHand
    <1>2. since' = [since EXCEPT ![<<r, p>>] = now]
        BY DEF PassCircuit, C!Allow, C!AllowClosed, C!AllowProbe
    <1>3. /\ pc'[r] = "lane" /\ aborted' = aborted /\ at' = at /\ call' = call /\ answers' = answers
          /\ scopes'[r] = scopes[r] \cup {p} /\ reservations' = reservations /\ result' = result
          /\ held' = held /\ oversize' = oversize
        BY <1>0 DEF PassCircuit, TypeOK, outcome, limiters
    <1> HIDE DEF p
    <1>4. \A q \in Requests \ {r} : Same(q)
        BY <1>0, <1>2, <1>3, Shared DEF PassCircuit, Same, TypeOK, Calls
    <1>5. TypeOK'
        <2>1. scopes' \in [Requests -> SUBSET Providers] /\ pc' \in [Requests -> Phases]
            BY <1>0, <1>1 DEF PassCircuit, TypeOK, p, Phases
        <2>2. QED
            BY <1>0, <1>3, <2>1 DEF TypeOK
    <1>6. LoopInv(r)'
        BY <1>0, <1>3 DEF RunnerInv, RequestInv, LoopInv, Came
    <1>7. FateInv(r)'
        BY <1>0, <1>3 DEF RunnerInv, RequestInv, FateInv, FatesIn
    <1>8. OwnedInv(r)'
        <2>1. \A x \in Providers : since'[<<r, x>>] = IF x = p THEN now ELSE since[<<r, x>>]
            BY <1>0, <1>2, Shared, CallsAndScopes
        <2>2. now # 0
            BY <1>0, Shared
        <2>3. QED
            BY <1>0, <1>1, <1>3, <2>1, <2>2 DEF RunnerInv, RequestInv, OwnedInv, Calling
    <1>9. WaitingInv'
        <2>1. NoneWaits(r)
            BY <1>0, NotWaiting DEF RunnerInv, PassCircuit
        <2>2. QED
            BY <1>0, <1>4, <2>1, WaitingKept DEF RunnerInv
    <1>10. QED
        BY <1>0, <1>4, <1>5, <1>6, <1>7, <1>8, <1>9, OneMoves DEF RequestInv

\* The request gets its unit of the provider.
LEMMA TakeLaneKeeps ==
    ASSUME IInv, NEW r \in Requests, TakeLane(r)
    PROVE  RunnerInv'
    <1> DEFINE p == Provider(r)
    <1>0. /\ RunnerInv /\ TypeOK /\ LP!IInv /\ CP!IInv /\ pc[r] = "lane" /\ at[r] <= Len(Plan[r])
          /\ ~aborted[r]
        BY DEF IInv, RunnerInv, TakeLane, RequestInv, LoopInv, FateInv
    <1>1. /\ p \in Providers /\ call[r][p] = "unseen" /\ answers[r][p] = 0
          /\ at[r] + 1 \in 1..(Len(Plan[r]) + 1)
          /\ \A x : (\E i \in 1..((at[r] + 1) - 1) : Plan[r][i] = x) <=> Came(r, x) \/ x = p
        BY <1>0, AtHand
    <1>2. held' = [held EXCEPT ![r][p] = 1] /\ NoneWaits(r)
        BY <1>0, Granted DEF TakeLane
    <1>3. /\ pc'[r] = "admit" /\ aborted' = aborted /\ at'[r] = at[r] + 1
          /\ call'[r] = [call[r] EXCEPT ![p] = "admitted"] /\ answers' = answers
          /\ scopes' = scopes /\ reservations'[r] = reservations[r] \cup {p} /\ result' = result
          /\ since' = since /\ oversize' = oversize
        BY <1>0 DEF TakeLane, TypeOK, breaker
    <1> HIDE DEF p
    <1>4. \A q \in Requests \ {r} : Same(q)
        BY <1>0, <1>2, <1>3, Shared DEF TakeLane, Same, TypeOK
    <1>5. TypeOK'
        <2>1. reservations' \in [Requests -> SUBSET Limiters] /\ pc' \in [Requests -> Phases]
            BY <1>0, <1>1 DEF TakeLane, TypeOK, p, Phases, Limiters
        <2>2. at' \in [Requests -> Nat] /\ \A q \in Requests : at'[q] \in 1..(Len(Plan[q]) + 1)
            <3>1. at' = [at EXCEPT ![r] = at[r] + 1] /\ at[r] + 1 \in Nat
                BY <1>0 DEF TakeLane, TypeOK
            <3>2. ASSUME NEW q \in Requests
                  PROVE  at'[q] \in 1..(Len(Plan[q]) + 1)
                <4>1. CASE q = r
                    BY <1>0, <1>1, <3>1, <4>1 DEF TypeOK
                <4>2. CASE q # r
                    BY <1>0, <3>1, <4>2 DEF TypeOK
                <4>3. QED
                    BY <4>1, <4>2
            <3>3. QED
                BY <1>0, <3>1, <3>2 DEF TypeOK
        <2>3. call' \in [Requests -> [Providers -> Fates]]
            BY <1>0 DEF TakeLane, TypeOK, Fates
        <2>4. QED
            BY <1>0, <1>3, <2>1, <2>2, <2>3 DEF TypeOK
    <1>6. LoopInv(r)'
        <2>1. \A x \in Providers : call[r][x] = "unseen" <=> ~Came(r, x)
            BY <1>0 DEF RunnerInv, RequestInv, LoopInv
        <2>2. \A x \in Providers : call'[r][x] = IF x = p THEN "admitted" ELSE call[r][x]
            BY <1>0, <1>3 DEF TypeOK
        <2>3. \A x : Came(r, x)' <=> Came(r, x) \/ x = p
            BY <1>1, <1>3 DEF Came
        <2>4. QED
            BY <1>3, <2>1, <2>2, <2>3 DEF LoopInv
    <1>7. FateInv(r)'
        <2>1. \A x \in Providers : call'[r][x] = IF x = p THEN "admitted" ELSE call[r][x]
            BY <1>0, <1>3 DEF TypeOK
        <2>2. QED
            BY <1>0, <1>1, <1>3, <2>1 DEF RunnerInv, RequestInv, FateInv, FatesIn
    <1>8. OwnedInv(r)'
        <2>1. \A l \in Limiters : held'[r][l] = IF l = p THEN 1 ELSE held[r][l]
            BY <1>0, <1>2, Shared
        <2>2. \A x \in Providers : x \in Limiters
            BY DEF Limiters
        <2>3. \A x \in Providers : call'[r][x] = IF x = p THEN "admitted" ELSE call[r][x]
            BY <1>0, <1>3 DEF TypeOK
        <2>4. QED
            BY <1>0, <1>1, <1>3, <2>1, <2>2, <2>3 DEF RunnerInv, RequestInv, OwnedInv, Calling
    <1>9. WaitingInv'
        BY <1>0, <1>2, <1>4, WaitingKept DEF RunnerInv
    <1>10. QED
        BY <1>0, <1>4, <1>5, <1>6, <1>7, <1>8, <1>9, OneMoves DEF RequestInv

\* The request gets its units of the service and creates its tasks.
LEMMA TakeGlobalKeeps ==
    ASSUME IInv, NEW r \in Requests, TakeGlobal(r)
    PROVE  RunnerInv'
    <1> DEFINE u == WorkUnits(r)
    <1>0. /\ RunnerInv /\ TypeOK /\ LP!IInv /\ CP!IInv /\ pc[r] = "global" /\ ~aborted[r]
          /\ OverPlan(r) /\ Runnable(r) # {}
        BY DEF IInv, RunnerInv, TakeGlobal, RequestInv, LoopInv, FateInv
    <1>1. held' = [held EXCEPT ![r]["global"] = u] /\ NoneWaits(r)
        BY <1>0, Granted DEF TakeGlobal
    <1>2. Runnable(r) \in SUBSET Providers /\ u \in Nat /\ u # 0
        BY <1>0, Weights DEF Runnable, WorkUnits
    <1>3. /\ pc'[r] = "calls" /\ aborted' = aborted /\ at' = at /\ answers' = answers
          /\ scopes' = scopes /\ reservations'[r] = reservations[r] \cup {"global"} /\ result' = result
          /\ since' = since /\ oversize' = oversize
        BY <1>0 DEF TakeGlobal, TypeOK, breaker
    <1>4. \A x \in Providers : call'[r][x] = IF call[r][x] = "admitted" THEN "queued" ELSE call[r][x]
        BY <1>0 DEF TakeGlobal, TypeOK
    <1>5. \A x \in Providers : call[r][x] \in {"unseen", "rejected", "admitted"}
        BY <1>0 DEF RunnerInv, RequestInv, FateInv, FatesIn
    <1>6. Live(r)' = Runnable(r)
        BY <1>4, <1>5 DEF Live, Alive, Runnable
    <1>6a. Cardinality(Live(r)') = u
        BY <1>6 DEF WorkUnits
    <1> HIDE DEF u
    <1>7. \A q \in Requests \ {r} : Same(q)
        BY <1>0, <1>1, <1>3, Shared DEF TakeGlobal, Same, TypeOK
    <1>8. TypeOK'
        <2>1. reservations' \in [Requests -> SUBSET Limiters] /\ pc' \in [Requests -> Phases]
            BY <1>0 DEF TakeGlobal, TypeOK, Phases, Limiters
        <2>2. call' \in [Requests -> [Providers -> Fates]]
            <3>1. [p \in Providers |-> IF call[r][p] = "admitted" THEN "queued" ELSE call[r][p]]
                        \in [Providers -> Fates]
                BY <1>0 DEF TypeOK, Fates
            <3>2. QED
                BY <1>0, <3>1 DEF TakeGlobal, TypeOK
        <2>3. QED
            BY <1>0, <1>3, <2>1, <2>2 DEF TypeOK
    <1>9. LoopInv(r)'
        <2>1. \A x \in Providers : call[r][x] = "unseen" <=> ~Came(r, x)
            BY <1>0 DEF RunnerInv, RequestInv, LoopInv
        <2>2. QED
            BY <1>0, <1>3, <1>4, <2>1 DEF LoopInv, OverPlan, Came
    <1>10. FateInv(r)'
        <2>1. \A x \in Providers : answers[r][x] = IF call[r][x] \in {"rejected", "recorded"} THEN 1 ELSE 0
            BY <1>0 DEF RunnerInv, RequestInv, FateInv
        <2>2. QED
            BY <1>0, <1>3, <1>4, <1>5, <2>1 DEF FateInv, FatesIn
    <1>11. OwnedInv(r)'
        <2>1. \A l \in Limiters : held'[r][l] = IF l = "global" THEN u ELSE held[r][l]
            BY <1>0, <1>1, Shared
        <2>2. \A x \in Providers : x \in Limiters /\ x # "global"
            BY Capacities
        <2>3. "global" \in Limiters
            BY DEF Limiters
        <2>4. /\ \A p \in Providers : p \in scopes[r] <=> since[<<r, p>>] # 0
              /\ \A l \in Limiters : l \in reservations[r] <=> held[r][l] # 0
              /\ \A x \in Providers : call[r][x] \in {"unseen", "rejected"} \/ held[r][x] # 0
            BY <1>0 DEF RunnerInv, RequestInv, OwnedInv
        <2>5. Cardinality(Live(r)') <= held'[r]["global"]
            BY <1>2, <1>6a, <2>1, <2>3
        <2>6. QED
            BY <1>2, <1>3, <1>4, <2>1, <2>2, <2>4, <2>5 DEF OwnedInv, Calling
    <1>12. WaitingInv'
        BY <1>0, <1>1, <1>7, WaitingKept DEF RunnerInv
    <1>13. QED
        BY <1>0, <1>7, <1>8, <1>9, <1>10, <1>11, <1>12, OneMoves DEF RequestInv

\* A request comes to another phase, nothing of the rest changing but, when it arrives,
\* whether it is too large.
PhaseOnly(r, phase) ==
    /\ pc' = [pc EXCEPT ![r] = phase]
    /\ oversize' \subseteq Convertible /\ oversize \subseteq oversize'
    /\ \A q \in Requests \ {r} : q \in oversize' <=> q \in oversize
    /\ UNCHANGED <<outcome, owned, aborted, breaker, limiters>>

\* What a change of phase leaves to show.
LEMMA PhaseKeeps ==
    ASSUME IInv, NEW r \in Requests, pc[r] \notin {"lane", "global"},
           NEW phase \in Phases, PhaseOnly(r, phase), LoopInv(r)', FateInv(r)', OwnedInv(r)'
    PROVE  RunnerInv'
    <1>0. RunnerInv /\ TypeOK /\ LP!IInv /\ CP!IInv
        BY DEF IInv, RunnerInv
    <1>1. \A q \in Requests \ {r} : Same(q)
        BY <1>0 DEF PhaseOnly, Same, TypeOK, outcome, owned, breaker, limiters
    <1>2. TypeOK'
        BY <1>0 DEF PhaseOnly, TypeOK, outcome, owned
    <1>3. WaitingInv'
        BY <1>0, <1>1, NotWaiting, WaitingKept DEF RunnerInv, PhaseOnly
    <1>4. QED
        BY <1>0, <1>1, <1>2, <1>3, OneMoves DEF RequestInv

\* A request comes, comes to the end of its plan, has all its results, has seen its calls
\* stop or waits for that no longer, or has recorded its results.
LEMMA PhasesKeep ==
    ASSUME IInv, NEW r \in Requests,
           \/ Arrive(r) \/ Considered(r) \/ AllDone(r) \/ Reaped(r) \/ Recorded(r)
           \/ Drained(r) \/ CancelDrain(r)
    PROVE  RunnerInv'
    <1>0. RunnerInv /\ TypeOK /\ LoopInv(r) /\ FateInv(r) /\ OwnedInv(r)
        BY DEF IInv, RunnerInv, RequestInv
    <1>0a. Len(Plan[r]) \in Nat /\ at[r] \in Nat /\ at[r] <= Len(Plan[r]) + 1
        <2>1. Plan[r] \in Seq(Providers)
            BY RunnerAssumption DEF RunnerAssumption
        <2>2. Len(Plan[r]) \in Nat
            BY <2>1, LenProperties
        <2>3. QED
            BY <1>0, <2>2 DEF TypeOK
    <1>0b. \A phase : PhaseOnly(r, phase) =>
             /\ pc'[r] = phase /\ at' = at /\ call' = call /\ result' = result /\ answers' = answers
             /\ scopes' = scopes /\ reservations' = reservations /\ aborted' = aborted
             /\ held' = held /\ since' = since /\ (r \in oversize => r \in oversize')
             /\ Runnable(r)' = Runnable(r) /\ Live(r)' = Live(r) /\ \A p : Came(r, p)' <=> Came(r, p)
        BY <1>0 DEF PhaseOnly, TypeOK, outcome, owned, breaker, limiters, Runnable, Live, Came
    <1>1. CASE Arrive(r)
        <2>1. PhaseOnly(r, "admit") /\ pc[r] = "idle"
            BY <1>0, <1>1 DEF Arrive, PhaseOnly, TypeOK
        <2>2. LoopInv(r)' /\ FateInv(r)' /\ OwnedInv(r)'
            BY <1>0, <1>0b, <2>1 DEF LoopInv, FateInv, FatesIn, OwnedInv, Calling
        <2>3. QED
            BY <2>1, <2>2, PhaseKeeps DEF Phases
    <1>2. CASE Considered(r)
        <2> DEFINE phase == IF Runnable(r) = {} THEN "record" ELSE "global"
        <2>1. PhaseOnly(r, phase) /\ pc[r] = "admit" /\ OverPlan(r)
            BY <1>0, <1>0a, <1>2 DEF Considered, PhaseOnly, OverPlan, TypeOK
        <2>2. LoopInv(r)'
            BY <1>0, <1>0b, <2>1 DEF LoopInv, OverPlan
        <2>3. FateInv(r)'
            BY <1>0, <1>0b, <2>1 DEF FateInv, FatesIn, Runnable
        <2>4. OwnedInv(r)'
            BY <1>0, <1>0b, <2>1 DEF OwnedInv, Calling
        <2>5. QED
            BY <2>1, <2>2, <2>3, <2>4, PhaseKeeps DEF Phases
    <1>3. CASE AllDone(r)
        <2>1. pc[r] = "calls" /\ Unfinished(r) = {} /\ UNCHANGED <<breaker, limiters>>
            BY <1>3 DEF AllDone
        <2>2. CASE Raise(r)
            <3>1. NoneWaits(r)
                BY <1>0, <2>1, NotWaiting DEF RunnerInv
            <3>2. since' = since /\ held' = held
                BY <2>1 DEF breaker, limiters
            <3>3. QED
                BY <2>1, <2>2, <3>1, <3>2, RaiseKeeps
        <2>3. CASE r \notin oversize
            <3>1. PhaseOnly(r, "record")
                BY <1>0, <1>3, <2>3 DEF AllDone, PhaseOnly, TypeOK
            <3>2. LoopInv(r)'
                BY <1>0, <1>0b, <2>1, <3>1 DEF LoopInv, OverPlan
            <3>3. FateInv(r)'
                BY <1>0, <1>0b, <2>1, <3>1 DEF FateInv, FatesIn, Unfinished
            <3>4. OwnedInv(r)'
                BY <1>0, <1>0b, <2>1, <3>1 DEF OwnedInv, Calling
            <3>5. QED
                BY <2>1, <3>1, <3>2, <3>3, <3>4, PhaseKeeps DEF Phases
        <2>4. QED
            BY <1>3, <2>2, <2>3 DEF AllDone
    <1>4. CASE Reaped(r)
        <2> DEFINE phase == IF aborted[r] THEN "unwind" ELSE "record"
        <2>1. PhaseOnly(r, phase) /\ pc[r] = "reap" /\ \A p \in Providers : call[r][p] # "stopping"
            BY <1>0, <1>4 DEF Reaped, Stopped, PhaseOnly, TypeOK
        <2>2. LoopInv(r)'
            BY <1>0, <1>0b, <2>1 DEF LoopInv, OverPlan
        <2>3. FateInv(r)'
            BY <1>0, <1>0b, <2>1 DEF FateInv, FatesIn
        <2>4. OwnedInv(r)'
            BY <1>0, <1>0b, <2>1 DEF OwnedInv, Calling
        <2>5. QED
            BY <2>1, <2>2, <2>3, <2>4, PhaseKeeps DEF Phases
    <1>5. CASE Recorded(r)
        <2>1. PhaseOnly(r, "unwind") /\ pc[r] = "record" /\ \A p \in Providers : call[r][p] # "done"
            BY <1>0, <1>5 DEF Recorded, PhaseOnly, TypeOK
        <2>2. LoopInv(r)'
            BY <1>0, <1>0b, <2>1 DEF LoopInv, OverPlan
        <2>3. FateInv(r)'
            BY <1>0, <1>0b, <2>1 DEF FateInv, FatesIn
        <2>4. OwnedInv(r)'
            BY <1>0, <1>0b, <2>1 DEF OwnedInv, Calling
        <2>5. QED
            BY <2>1, <2>2, <2>3, <2>4, PhaseKeeps DEF Phases
    <1>6. CASE Drained(r) \/ CancelDrain(r)
        <2> DEFINE phase == IF Drained(r) THEN "unwind" ELSE "lost"
        <2>1. /\ PhaseOnly(r, phase) /\ pc[r] = "drain" /\ phase \in {"unwind", "lost"}
              /\ phase = "unwind" => Stopped(r)
            <3>1. CASE Drained(r)
                BY <1>0, <3>1 DEF Drained, PhaseOnly, TypeOK
            <3>2. CASE ~Drained(r)
                BY <1>0, <1>6, <3>2 DEF CancelDrain, PhaseOnly, TypeOK
            <3>3. QED
                BY <3>1, <3>2
        <2> HIDE DEF phase
        <2>1a. aborted[r] /\ r \in oversize
            BY <1>0, <2>1 DEF FateInv
        <2>2. LoopInv(r)'
            BY <1>0, <1>0b, <2>1, <2>1a DEF LoopInv, OverPlan
        <2>3. FateInv(r)'
            BY <1>0, <1>0b, <2>1, <2>1a DEF FateInv, FatesIn, Stopped
        <2>4. OwnedInv(r)'
            BY <1>0, <1>0b, <2>1 DEF OwnedInv, Calling
        <2>5. QED
            BY <2>1, <2>2, <2>3, <2>4, PhaseKeeps DEF Phases
    <1>7. QED
        BY <1>1, <1>2, <1>3, <1>4, <1>5, <1>6

\* A step that moves no request, but lets one wait for what it wants.
LEMMA StillKeeps ==
    ASSUME IInv, UNCHANGED <<runner, held, since>>,
           \A w \in L!Waiters' : \/ w \in L!Waiters
                                 \/ pc[w[1]] \in {"lane", "global"} /\ w = Wanted(w[1])
    PROVE  RunnerInv'
    <1>1. /\ pc' = pc /\ at' = at /\ call' = call /\ result' = result /\ answers' = answers
          /\ scopes' = scopes /\ reservations' = reservations /\ aborted' = aborted
          /\ oversize' = oversize
        BY DEF runner, outcome, owned
    <1>2. TypeOK'
        BY <1>1 DEF IInv, RunnerInv, TypeOK
    <1>3. \A q \in Requests : Same(q)
        BY <1>1 DEF Same
    <1>4. \A q \in Requests : RequestInv(q)'
        BY <1>3, SameKept DEF IInv, RunnerInv
    <1>5. \A q : Wanted(q)' = Wanted(q)
        BY <1>1, WantsSame
    <1>6. WaitingInv'
        BY <1>1, <1>5 DEF IInv, RunnerInv, WaitingInv
    <1>7. QED
        BY <1>2, <1>4, <1>6 DEF RunnerInv

\* Waiting for a limiter, and time passing.
LEMMA WaitsKeep ==
    ASSUME IInv, NEW r \in Requests, Wait(r) \/ WaitOn(r) \/ WaitExpires(r) \/ Tick \/ UNCHANGED vars
    PROVE  RunnerInv'
    <1>1. UNCHANGED <<runner, held, since>>
        BY DEF Wait, L!Sleep, WaitOn, L!WakeAgain, WaitExpires, L!Deadline, Tick, C!Tick, C!history,
               vars, breaker, limiters
    <1>2. ASSUME NEW w \in L!Waiters'
          PROVE  w \in L!Waiters \/ (pc[w[1]] \in {"lane", "global"} /\ w = Wanted(w[1]))
        <2>1. CASE Wait(r)
            <3>1. Wanted(r) = <<r, Wanted(r)[2], Wanted(r)[3]>> /\ Wanted(r)[1] = r
                BY DEF Wanted
            <3>2. w \in L!Waiters \/ w = Wanted(r)
                BY <1>2, <2>1, <3>1 DEF Wait, L!Sleep, L!Waiters
            <3>3. QED
                BY <2>1, <3>1, <3>2 DEF Wait
        <2>2. CASE WaitOn(r) \/ WaitExpires(r) \/ Tick \/ UNCHANGED vars
            BY <1>2, <2>2 DEF WaitOn, L!WakeAgain, WaitExpires, L!Deadline, Tick, vars, limiters, L!Waiters
        <2>3. QED
            BY <2>1, <2>2
    <1>3. QED
        BY <1>1, <1>2, StillKeeps

-----------------------------------------------------------------------------
(* Calls, results and the finally block.                                   *)

\* A task moves on: it starts its call, ends, or ends its clean-up.
LEMMA TaskKeeps ==
    ASSUME IInv, NEW r \in Requests, NEW p \in Providers,
           StartCall(r, p) \/ EndCall(r, p) \/ EndCancelled(r, p)
    PROVE  RunnerInv'
    <1> DEFINE fate == IF call[r][p] = "queued" THEN "running" ELSE "done"
    <1>0. RunnerInv /\ TypeOK /\ LP!IInv /\ CP!IInv /\ LoopInv(r) /\ FateInv(r) /\ OwnedInv(r)
        BY DEF IInv, RunnerInv, RequestInv
    <1>1. /\ pc' = pc /\ at' = at /\ answers' = answers /\ scopes' = scopes /\ aborted' = aborted
          /\ reservations' = reservations /\ held' = held /\ since' = since
          /\ UNCHANGED limiters /\ oversize' = oversize
          /\ call' = [call EXCEPT ![r][p] = fate] /\ call[r][p] \in Alive
        BY DEF StartCall, EndCall, EndCancelled, owned, breaker, limiters, Alive
    <1>2. \A x \in Providers : call'[r][x] = IF x = p THEN fate ELSE call[r][x]
        BY <1>0, <1>1 DEF TypeOK
    <1>3. pc[r] \in Calling /\ fate \in FatesIn(pc[r], aborted[r]) /\ fate \in {"running", "done"}
        BY <1>0, <1>1 DEF FateInv, FatesIn, Alive, Calling
    <1> HIDE DEF fate
    <1>4. \A q \in Requests \ {r} : Same(q)
        BY <1>0, <1>1 DEF Same, TypeOK
    <1>5. result' \in [Requests -> [Providers -> Answers \cup {DeadlineResult}]]
        <2>1. CASE EndCall(r, p) /\ r \notin oversize
            <3>1. PICK res \in Answers : result' = [result EXCEPT ![r][p] = res]
                BY <2>1 DEF EndCall
            <3>2. QED
                BY <1>0, <3>1 DEF TypeOK
        <2>2. CASE StartCall(r, p) \/ EndCancelled(r, p) \/ (EndCall(r, p) /\ r \in oversize)
            BY <1>0, <2>2 DEF StartCall, EndCall, EndCancelled, TypeOK
        <2>3. QED
            BY <2>1, <2>2
    <1>6. TypeOK'
        BY <1>0, <1>1, <1>3, <1>5 DEF TypeOK, Fates
    <1>7. LoopInv(r)'
        BY <1>0, <1>1, <1>2, <1>3 DEF LoopInv, OverPlan, Came, Alive, Calling
    <1>8. FateInv(r)'
        BY <1>0, <1>1, <1>2, <1>3 DEF FateInv, Alive, Calling
    <1>9. OwnedInv(r)'
        <2>1. Live(r)' \subseteq Live(r)
            BY <1>1, <1>2 DEF Live
        <2>2. Live(r) \in SUBSET Providers /\ IsFiniteSet(Live(r))
            BY Weights DEF Live
        <2>3. /\ Cardinality(Live(r)') <= Cardinality(Live(r))
              /\ Cardinality(Live(r)') \in Nat /\ Cardinality(Live(r)) \in Nat
            BY <2>1, <2>2, FS_Subset, FS_CardinalityType
        <2>4. held[r]["global"] \in Nat
            BY <1>0, Shared DEF Limiters
        <2>5. Cardinality(Live(r)) <= held[r]["global"]
            BY <1>0, <1>3 DEF OwnedInv
        <2>6. Cardinality(Live(r)') <= held'[r]["global"]
            BY <1>1, <2>3, <2>4, <2>5
        <2>7. \A x \in Providers : call'[r][x] \in {"unseen", "rejected"} \/ held'[r][x] # 0
            BY <1>0, <1>1, <1>2, <1>3 DEF OwnedInv, Alive, Calling
        <2>8. QED
            BY <1>0, <1>1, <1>3, <2>6, <2>7 DEF OwnedInv, Calling
    <1>10. WaitingInv'
        BY <1>0, <1>1, <1>3, <1>4, NotWaiting, WaitingKept DEF RunnerInv, Calling
    <1>11. QED
        BY <1>0, <1>4, <1>6, <1>7, <1>8, <1>9, <1>10, OneMoves DEF RequestInv

\* The calls are stopped, at the deadline or because the request is cancelled, or it is
\* cancelled while they stop.
LEMMA StopKeeps ==
    ASSUME IInv, NEW r \in Requests, DeadlinePasses(r) \/ CancelCalls(r) \/ CancelReap(r)
    PROVE  RunnerInv'
    <1>0. RunnerInv /\ TypeOK /\ LP!IInv /\ CP!IInv /\ LoopInv(r) /\ FateInv(r) /\ OwnedInv(r)
        BY DEF IInv, RunnerInv, RequestInv
    <1> DEFINE phase == IF DeadlinePasses(r) /\ r \in oversize THEN "drain" ELSE "reap"
    <1>1. /\ at' = at /\ answers' = answers /\ result' = result /\ scopes' = scopes
          /\ reservations' = reservations /\ held' = held /\ since' = since
          /\ UNCHANGED limiters /\ oversize' = oversize
          /\ pc[r] \in {"calls", "reap"} /\ pc' = [pc EXCEPT ![r] = phase]
          /\ CancelReap(r) \/ StopCalls(r, phase)
          /\ aborted' \in {aborted, [aborted EXCEPT ![r] = TRUE]}
          /\ phase = "drain" => r \in oversize /\ aborted' = [aborted EXCEPT ![r] = TRUE]
        BY <1>0 DEF DeadlinePasses, CancelCalls, CancelReap, StopCalls, owned, outcome, breaker, limiters, TypeOK
    <1> HIDE DEF phase
    <1>2. \A q \in Requests \ {r} : call'[q] = call[q]
        BY <1>0, <1>1 DEF CancelReap, StopCalls, TypeOK, outcome
    <1>3. \A p \in Providers :
            call'[r][p] = IF call[r][p] \in {"queued", "running"} THEN "stopping" ELSE call[r][p]
        <2>1. CASE CancelReap(r)
            <3>1. call' = call /\ pc[r] = "reap"
                BY <2>1 DEF CancelReap, outcome
            <3>2. \A p \in Providers : call[r][p] \notin {"queued", "running"}
                BY <1>0, <3>1 DEF FateInv, FatesIn
            <3>3. QED
                BY <3>1, <3>2
        <2>2. CASE StopCalls(r, phase)
            BY <1>0, <2>2 DEF StopCalls, Unfinished, TypeOK
        <2>3. QED
            BY <1>1, <2>1, <2>2
    <1>4. call' \in [Requests -> [Providers -> Fates]]
        <2>1. CASE CancelReap(r)
            BY <1>0, <2>1 DEF CancelReap, outcome, TypeOK
        <2>2. CASE StopCalls(r, phase)
            <3>1. [p \in Providers |-> IF p \in Unfinished(r) THEN "stopping" ELSE call[r][p]]
                        \in [Providers -> Fates]
                BY <1>0 DEF TypeOK, Fates
            <3>2. QED
                BY <1>0, <2>2, <3>1 DEF StopCalls, TypeOK
        <2>3. QED
            BY <1>1, <2>1, <2>2
    <1>5. /\ pc'[r] = phase /\ phase \in {"reap", "drain"}
          /\ aborted'[r] \in BOOLEAN /\ aborted' \in [Requests -> BOOLEAN]
          /\ phase = "drain" => r \in oversize' /\ aborted'[r]
        BY <1>0, <1>1 DEF TypeOK, phase
    <1>6. \A q \in Requests \ {r} : Same(q)
        BY <1>0, <1>1, <1>2 DEF Same, TypeOK
    <1>7. TypeOK'
        BY <1>0, <1>1, <1>4, <1>5 DEF TypeOK, Phases
    <1>8. LoopInv(r)'
        BY <1>0, <1>1, <1>3, <1>5 DEF LoopInv, OverPlan, Came
    <1>9. FateInv(r)'
        BY <1>0, <1>1, <1>3, <1>5 DEF FateInv, FatesIn
    <1>10. OwnedInv(r)'
        <2>1. Live(r)' = Live(r)
            BY <1>3 DEF Live, Alive
        <2>2. QED
            BY <1>0, <1>1, <1>3, <1>5, <2>1 DEF OwnedInv, Calling
    <1>11. WaitingInv'
        BY <1>0, <1>1, <1>6, NotWaiting, WaitingKept DEF RunnerInv
    <1>12. QED
        BY <1>0, <1>6, <1>7, <1>8, <1>9, <1>10, <1>11, OneMoves DEF RequestInv

\* A result goes to the breaker and to the list, or the slot of a call without one is
\* given back.
LEMMA BreakerToldKeeps ==
    ASSUME IInv, NEW r \in Requests, NEW p \in Providers, Record(r, p) \/ ReleaseProbe(r, p)
    PROVE  RunnerInv'
    <1>0. RunnerInv /\ TypeOK /\ LP!IInv /\ CP!IInv /\ LoopInv(r) /\ FateInv(r) /\ OwnedInv(r)
        BY DEF IInv, RunnerInv, RequestInv
    <1>1. /\ pc' = pc /\ at' = at /\ result' = result /\ reservations' = reservations
          /\ aborted' = aborted /\ held' = held /\ UNCHANGED limiters /\ oversize' = oversize
          /\ pc[r] \in {"record", "unwind"}
          /\ scopes' = [scopes EXCEPT ![r] = @ \ {p}]
          /\ since' = [since EXCEPT ![<<r, p>>] = 0]
        BY DEF Record, ReleaseProbe, C!RecordResult, C!ReleaseProbe, outcome, limiters
    <1>2. /\ \A x \in Providers : call'[r][x] = (IF x = p /\ pc[r] = "record" THEN "recorded" ELSE call[r][x])
          /\ \A x \in Providers : answers'[r][x] = (IF x = p /\ pc[r] = "record" THEN 1 ELSE answers[r][x])
          /\ \A q \in Requests \ {r} : call'[q] = call[q] /\ answers'[q] = answers[q]
          /\ call' \in [Requests -> [Providers -> Fates]] /\ answers' \in [Requests -> [Providers -> Nat]]
          /\ pc[r] = "record" => call[r][p] = "done"
        <2>1. CASE Record(r, p)
            <3>1. call[r][p] = "done" /\ pc[r] = "record" /\ answers[r][p] = 0
                BY <1>0, <2>1 DEF Record, FateInv
            <3>2. /\ call' = [call EXCEPT ![r][p] = "recorded"]
                  /\ answers' = [answers EXCEPT ![r][p] = 1]
                BY <1>0, <2>1, <3>1 DEF Record, TypeOK
            <3>3. QED
                BY <1>0, <3>1, <3>2 DEF TypeOK, Fates
        <2>2. CASE ReleaseProbe(r, p)
            BY <1>0, <2>2 DEF ReleaseProbe, outcome, TypeOK
        <2>3. QED
            BY <2>1, <2>2
    <1>3. \A x \in Providers : since'[<<r, x>>] = IF x = p THEN 0 ELSE since[<<r, x>>]
        BY <1>0, <1>1, Shared, CallsAndScopes
    <1>4. scopes'[r] = scopes[r] \ {p} /\ scopes' \in [Requests -> SUBSET Providers]
        BY <1>0, <1>1 DEF TypeOK
    <1>5. \A q \in Requests \ {r} : Same(q)
        BY <1>0, <1>1, <1>2, Shared, CallsAndScopes DEF Same, TypeOK
    <1>6. TypeOK'
        BY <1>0, <1>1, <1>2, <1>4 DEF TypeOK
    <1>7. LoopInv(r)'
        <2>1. \A x \in Providers : call'[r][x] = "unseen" <=> call[r][x] = "unseen"
            BY <1>2
        <2>2. /\ OverPlan(r)' <=> OverPlan(r)
              /\ \A x \in Providers : Came(r, x)' <=> Came(r, x)
            BY <1>1 DEF OverPlan, Came
        <2>3. QED
            BY <1>0, <1>1, <2>1, <2>2 DEF LoopInv
    <1>8. FateInv(r)'
        <2>1. CASE pc[r] = "record"
            BY <1>0, <1>1, <1>2, <2>1 DEF FateInv, FatesIn
        <2>2. CASE pc[r] = "unwind"
            BY <1>0, <1>1, <1>2, <2>2 DEF FateInv
        <2>3. QED
            BY <1>1, <2>1, <2>2
    <1>9. OwnedInv(r)'
        <2>1. \A x \in Providers : x \in scopes'[r] <=> since'[<<r, x>>] # 0
            BY <1>0, <1>3, <1>4 DEF OwnedInv
        <2>2. \A x \in Providers :
                  pc[r] # "unwind" => call'[r][x] \in {"unseen", "rejected"} \/ held[r][x] # 0
            BY <1>0, <1>2 DEF OwnedInv
        <2>3. QED
            BY <1>0, <1>1, <2>1, <2>2 DEF OwnedInv, Calling
    <1>10. WaitingInv'
        BY <1>0, <1>1, <1>5, NotWaiting, WaitingKept DEF RunnerInv
    <1>11. QED
        BY <1>0, <1>5, <1>6, <1>7, <1>8, <1>9, <1>10, OneMoves DEF RequestInv

\* The units are given back.
LEMMA ReleaseUnitsKeeps ==
    ASSUME IInv, NEW r \in Requests, NEW l \in Limiters, ReleaseUnits(r, l)
    PROVE  RunnerInv'
    <1>0. RunnerInv /\ TypeOK /\ LP!IInv /\ CP!IInv /\ LoopInv(r) /\ FateInv(r) /\ OwnedInv(r)
        BY DEF IInv, RunnerInv, RequestInv
    <1>1. /\ pc' = pc /\ at' = at /\ call' = call /\ answers' = answers /\ result' = result
          /\ aborted' = aborted /\ scopes' = scopes /\ since' = since /\ pc[r] = "unwind"
          /\ oversize' = oversize
          /\ reservations' = [reservations EXCEPT ![r] = @ \ {l}]
          /\ held' = [held EXCEPT ![r][l] = 0]
        BY DEF ReleaseUnits, L!Release, outcome, breaker
    <1>2. NoneWaits(r)
        <2>1. L!Waiters' = L!Waiters /\ ~L!Busy(r)
            BY DEF ReleaseUnits, L!Release, L!Waiters
        <2>2. QED
            BY <2>1 DEF NoneWaits, L!Busy
    <1>3. \A k \in Limiters : held'[r][k] = IF k = l THEN 0 ELSE held[r][k]
        BY <1>0, <1>1, Shared
    <1>4. reservations'[r] = reservations[r] \ {l}
        BY <1>0, <1>1 DEF TypeOK
    <1>5. \A q \in Requests \ {r} : Same(q)
        BY <1>0, <1>1, Shared DEF Same, TypeOK
    <1>6. TypeOK'
        BY <1>0, <1>1 DEF TypeOK
    <1>7. LoopInv(r)'
        BY <1>0, <1>1 DEF LoopInv, OverPlan, Came
    <1>8. FateInv(r)'
        BY <1>0, <1>1 DEF FateInv
    <1>9. OwnedInv(r)'
        BY <1>0, <1>1, <1>3, <1>4 DEF OwnedInv, Calling
    <1>10. WaitingInv'
        BY <1>0, <1>2, <1>5, WaitingKept DEF RunnerInv
    <1>11. QED
        BY <1>0, <1>5, <1>6, <1>7, <1>8, <1>9, <1>10, OneMoves DEF RequestInv

\* The request is over, none of its tasks being alive.
LEMMA EndKeeps ==
    ASSUME IInv, NEW r \in Requests, End(r)
    PROVE  RunnerInv'
    <1>0. RunnerInv /\ TypeOK /\ LP!IInv /\ CP!IInv /\ LoopInv(r) /\ FateInv(r) /\ OwnedInv(r)
        BY DEF IInv, RunnerInv, RequestInv
    <1>1. /\ scopes' = scopes /\ reservations' = reservations /\ held' = held /\ since' = since
          /\ UNCHANGED limiters
          /\ pc[r] = "unwind" /\ scopes[r] = {} /\ reservations[r] = {}
          /\ pc' = [pc EXCEPT ![r] = "idle"] /\ at' = [at EXCEPT ![r] = 1]
          /\ aborted' = [aborted EXCEPT ![r] = FALSE]
          /\ oversize' = oversize \ {r}
        BY DEF End, owned, breaker, limiters
    <1>2. \A p \in Providers : call[r][p] \notin Alive
        BY <1>0, <1>1 DEF FateInv, FatesIn, Alive
    <1>3. /\ call' = [call EXCEPT ![r] = [p \in Providers |-> "unseen"]]
          /\ answers' = [answers EXCEPT ![r] = [p \in Providers |-> 0]]
          /\ result' = [result EXCEPT ![r] = [p \in Providers |-> DeadlineResult]]
        <2>1. [p \in Providers |-> IF call[r][p] \in Alive THEN call[r][p] ELSE "unseen"]
                = [p \in Providers |-> "unseen"]
            BY <1>2
        <2>2. QED
            BY <2>1 DEF End
    <1>4. /\ pc'[r] = "idle" /\ at'[r] = 1 /\ aborted'[r] = FALSE
          /\ \A p \in Providers : call'[r][p] = "unseen" /\ answers'[r][p] = 0
        BY <1>0, <1>1, <1>3 DEF TypeOK
    <1>5. \A q \in Requests \ {r} : Same(q)
        BY <1>0, <1>1, <1>3 DEF Same, TypeOK
    <1>6. TypeOK'
        <2>1. at' \in [Requests -> Nat] /\ \A q \in Requests : at'[q] \in 1..(Len(Plan[q]) + 1)
            <3>1. Plan[r] \in Seq(Providers)
                BY RunnerAssumption DEF RunnerAssumption
            <3>2. Len(Plan[r]) \in Nat
                BY <3>1, LenProperties
            <3>3. 1 \in 1..(Len(Plan[r]) + 1)
                BY <3>2
            <3>4. QED
                BY <1>0, <1>1, <3>3 DEF TypeOK
        <2>2. [p \in Providers |-> "unseen"] \in [Providers -> Fates]
            BY DEF Fates
        <2>3. call' \in [Requests -> [Providers -> Fates]]
            BY <1>0, <1>3, <2>2 DEF TypeOK
        <2>4. /\ answers' \in [Requests -> [Providers -> Nat]]
              /\ result' \in [Requests -> [Providers -> Answers \cup {DeadlineResult}]]
            BY <1>0, <1>3 DEF TypeOK
        <2>5. QED
            BY <1>0, <1>1, <2>1, <2>3, <2>4 DEF TypeOK, Phases
    <1>7. LoopInv(r)'
        <2>1. \A p \in Providers : ~Came(r, p)'
            BY <1>4 DEF Came
        <2>2. QED
            BY <1>4, <2>1 DEF LoopInv
    <1>8. FateInv(r)'
        BY <1>4 DEF FateInv, FatesIn
    <1>9. OwnedInv(r)'
        BY <1>0, <1>1, <1>4 DEF OwnedInv, Calling
    <1>10. WaitingInv'
        BY <1>0, <1>1, <1>5, NotWaiting, WaitingKept DEF RunnerInv
    <1>11. QED
        BY <1>0, <1>5, <1>6, <1>7, <1>8, <1>9, <1>10, OneMoves DEF RequestInv

-----------------------------------------------------------------------------
(* Every step.                                                             *)

\* What a request in admission wants is something a task may ask a limiter for.
LEMMA WantedIsAsk ==
    ASSUME RunnerInv, NEW r \in Requests, pc[r] \in {"lane", "global"}
    PROVE  /\ Wanted(r) = <<r, Wanted(r)[2], Wanted(r)[3]>>
           /\ Wanted(r)[2] \in Limiters /\ Wanted(r)[3] \in Units
           /\ Wanted(r) \in LP!Asks
           /\ pc[r] = "lane" => Wanted(r) = <<r, Provider(r), 1>>
           /\ pc[r] = "global" => Wanted(r) = <<r, "global", WorkUnits(r)>>
    <1>1. CASE pc[r] = "lane"
        <2>1. Provider(r) \in Providers
            BY <1>1, AtHand DEF RunnerInv, RequestInv, LoopInv
        <2>2. {Provider(r)} \in SUBSET Providers /\ {Provider(r)} # {}
            BY <2>1
        <2>3. Cardinality({Provider(r)}) = 1
            BY FS_Singleton
        <2>4. 1 \in Units
            BY <2>2, <2>3, Weights
        <2>5. QED
            BY <1>1, <2>1, <2>4 DEF Wanted, Limiters, LP!Asks
    <1>2. CASE pc[r] = "global"
        <2>1. Runnable(r) \in SUBSET Providers /\ Runnable(r) # {}
            BY <1>2 DEF RunnerInv, RequestInv, LoopInv, Runnable
        <2>2. WorkUnits(r) \in Units
            BY <2>1, Weights DEF WorkUnits
        <2>3. QED
            BY <1>2, <2>2 DEF Wanted, Limiters, LP!Asks
    <1>3. QED
        BY <1>1, <1>2

\* A step of the runner is a step of the limiters, or changes nothing of theirs.
LEMMA LimitersMove ==
    ASSUME IInv, [Next]_vars
    PROVE  [LP!Next]_LP!vars
    <1> USE DEF IInv
    <1>1. UNCHANGED limiters => UNCHANGED LP!vars
        BY DEF limiters, LP!vars
    <1>2. SUFFICES ASSUME ~UNCHANGED limiters PROVE LP!Next
        BY <1>1
    <1>3. PICK r \in Requests : Proceed(r) \/ WaitExpires(r) \/ Disturb(r) \/ \E p \in Providers : TaskStep(r, p)
        BY <1>2 DEF Next, Tick, vars
    <1>4. CASE \E l \in Limiters : ReleaseUnits(r, l)
        <2>1. PICK l \in Limiters : LP!Release(r, l)
            BY <1>4, LimiterSteps DEF ReleaseUnits
        <2>2. QED
            BY <2>1 DEF LP!Next, LP!TaskStep
    <1>5. CASE WaitExpires(r)
        BY <1>5, LimiterSteps DEF WaitExpires, LP!Next
    <1>6. ASSUME pc[r] \in {"lane", "global"}, NEW w, w = Wanted(r),
                 \/ L!AcquireNow(r, w[2], w[3]) \/ L!Sleep(r, w[2], w[3])
                 \/ L!WakeGranted(w) \/ L!WakeRefused(w) \/ L!WakeAgain(w)
                 \/ L!TimeoutFires(w) \/ L!Cancel(w)
          PROVE  LP!Next
        <2>1. w \in LP!Asks /\ w[2] \in Limiters /\ w[3] \in Units
            BY <1>6, WantedIsAsk
        <2>2. CASE L!AcquireNow(r, w[2], w[3]) \/ L!Sleep(r, w[2], w[3])
            BY <2>1, <2>2, LimiterSteps DEF LP!Next, LP!TaskStep
        <2>3. CASE \/ L!WakeGranted(w) \/ L!WakeRefused(w) \/ L!WakeAgain(w)
                   \/ L!TimeoutFires(w) \/ L!Cancel(w)
            BY <2>1, <2>3, LimiterSteps DEF LP!Next, LP!Wake
        <2>4. QED
            BY <1>6, <2>2, <2>3
    <1>7. CASE TakeLane(r) \/ RefuseLane(r)
        <2> DEFINE w == <<r, Provider(r), 1>>
        <2>1. pc[r] = "lane" /\ w = Wanted(r) /\ w[2] = Provider(r) /\ w[3] = 1
            BY <1>7, WantedIsAsk DEF TakeLane, RefuseLane
        <2>2. \/ L!AcquireNow(r, w[2], w[3])
              \/ L!WakeGranted(w) \/ L!WakeRefused(w) \/ L!TimeoutFires(w)
            BY <1>7 DEF TakeLane, RefuseLane
        <2> HIDE DEF w
        <2>3. QED
            BY <1>6, <2>1, <2>2
    <1>8. CASE TakeGlobal(r) \/ Overloaded(r)
        <2> DEFINE w == <<r, "global", WorkUnits(r)>>
        <2>1. pc[r] = "global" /\ w = Wanted(r) /\ w[2] = "global" /\ w[3] = WorkUnits(r)
            BY <1>8, WantedIsAsk DEF TakeGlobal, Overloaded
        <2>2. \/ L!AcquireNow(r, w[2], w[3])
              \/ L!WakeGranted(w) \/ L!WakeRefused(w) \/ L!TimeoutFires(w)
            BY <1>2, <1>8 DEF TakeGlobal, Overloaded
        <2> HIDE DEF w
        <2>3. QED
            BY <1>6, <2>1, <2>2
    <1>9. CASE Wait(r) \/ WaitOn(r) \/ CancelWait(r)
        BY <1>6, <1>9 DEF Wait, WaitOn, CancelWait
    <1>10. QED
        BY <1>2, <1>3, <1>4, <1>5, <1>7, <1>8, <1>9
        DEF Proceed, Disturb, TaskStep, RejectStatic, RejectCircuit, PassCircuit, Considered, AllDone,
            DeadlinePasses, Reaped, Drained, Recorded, End, Record, ReleaseProbe, Arrive, CancelCalls,
            CancelReap, CancelDrain, StartCall, EndCall, EndCancelled

\* A step of the runner is a step of the breaker, or changes nothing of it.
LEMMA BreakerMoves ==
    ASSUME IInv, [Next]_vars
    PROVE  [CP!Next]_CP!vars
    <1>1. UNCHANGED breaker => UNCHANGED CP!vars
        BY DEF breaker, CP!vars, CP!breaker, CP!history
    <1>2. SUFFICES ASSUME ~UNCHANGED breaker PROVE CP!Next
        BY <1>1
    <1>3. CASE Tick
        BY <1>3, BreakerSteps DEF Tick, CP!Next
    <1>4. CASE ~Tick
        <2>1. PICK r \in Requests : Proceed(r) \/ WaitExpires(r) \/ Disturb(r) \/ \E p \in Providers : TaskStep(r, p)
            BY <1>2, <1>4 DEF Next, vars
        <2>2. CASE RejectCircuit(r) \/ PassCircuit(r)
            <3>1. Provider(r) \in Providers
                BY <2>2, AtHand DEF IInv, RejectCircuit, PassCircuit, Considering
            <3>2. <<r, Provider(r)>> \in Calls
                BY <3>1, CallsAndScopes
            <3>3. QED
                BY <2>2, <3>2, BreakerSteps DEF RejectCircuit, PassCircuit, CP!Next, CP!CallStep
        <2>3. ASSUME NEW p \in Providers, Record(r, p)
              PROVE  CP!Next
            <3>1. <<r, p>> \in Calls
                BY CallsAndScopes
            <3>2. result[r][p] \in Answers \cup {DeadlineResult}
                BY DEF IInv, RunnerInv, TypeOK
            <3>3. result[r][p] \in CP!Results
                <4>1. Answers \subseteq C!Results
                    BY RunnerAssumption DEF RunnerAssumption
                <4>2. DeadlineResult \in C!Results
                    BY DEF DeadlineResult, C!Results
                <4>3. QED
                    BY <3>2, <4>1, <4>2, BreakerSteps
            <3>4. QED
                BY <2>3, <3>1, <3>3, BreakerSteps DEF Record, CP!Next, CP!CallStep
        <2>4. ASSUME NEW p \in Providers, ReleaseProbe(r, p)
              PROVE  CP!Next
            <3>1. <<r, p>> \in Calls
                BY CallsAndScopes
            <3>2. QED
                BY <2>4, <3>1, BreakerSteps DEF ReleaseProbe, CP!Next, CP!CallStep
        <2>5. QED
            BY <1>2, <2>1, <2>2, <2>3, <2>4
            DEF Proceed, Disturb, TaskStep, RejectStatic, TakeLane, RefuseLane, Considered, TakeGlobal,
                Overloaded, Wait, WaitOn, WaitExpires, AllDone, DeadlinePasses, Reaped, Drained, Recorded,
                End, ReleaseUnits, Arrive, CancelWait, CancelCalls, CancelReap, CancelDrain,
                StartCall, EndCall, EndCancelled
    <1>5. QED
        BY <1>3, <1>4

\* Turning plugins away and giving up keep the invariant of the runner.
LEMMA RefusalsKeep ==
    ASSUME IInv, NEW r \in Requests,
           RejectStatic(r) \/ RejectCircuit(r) \/ RefuseLane(r) \/ Overloaded(r) \/ CancelWait(r)
    PROVE  RunnerInv'
    <1>0. RunnerInv /\ LP!IInv /\ CP!IInv
        BY DEF IInv
    <1>1. CASE RejectStatic(r) \/ RejectCircuit(r)
        <2>1. since' = since
            BY <1>1 DEF RejectStatic, RejectCircuit, C!Refuse, C!RefuseOpen, C!RefuseProbe, breaker
        <2>2. pc[r] = "admit" /\ at[r] <= Len(Plan[r]) /\ Reject(r) /\ UNCHANGED limiters
            BY <1>1 DEF RejectStatic, RejectCircuit, Considering
        <2>3. held' = held
            BY <2>2 DEF limiters
        <2>4. NoneWaits(r)
            BY <1>0, <2>2, NotWaiting DEF RunnerInv
        <2>5. QED
            BY <2>1, <2>2, <2>3, <2>4, AppendKeeps, RaiseKeeps DEF Reject
    <1>2. CASE RefuseLane(r)
        <2>1. pc[r] = "lane" /\ at[r] <= Len(Plan[r]) /\ Reject(r) /\ since' = since
            BY <1>0, <1>2 DEF RefuseLane, RunnerInv, RequestInv, LoopInv, breaker
        <2>2. held' = held /\ NoneWaits(r)
            BY <1>0, <1>2, NotGranted DEF RefuseLane
        <2>3. QED
            BY <2>1, <2>2, AppendKeeps, RaiseKeeps DEF Reject
    <1>3. CASE Overloaded(r) \/ CancelWait(r)
        <2>1. pc[r] \in {"lane", "global"} /\ Raise(r) /\ since' = since
            BY <1>3 DEF Overloaded, CancelWait, breaker
        <2>2. held' = held /\ NoneWaits(r)
            <3>1. CASE CancelWait(r)
                <4>1. L!Cancel(<<r, Wanted(r)[2], Wanted(r)[3]>>)
                    BY <1>0, <2>1, <3>1, WantedIsAsk DEF CancelWait
                <4>2. QED
                    BY <1>0, <4>1, NotGranted
            <3>2. CASE pc[r] = "global" /\ WorkUnits(r) > GlobalCapacity /\ UNCHANGED limiters
                <4>1. ASSUME NEW w \in L!Waiters, w[1] = r PROVE FALSE
                    <5>1. w = <<r, "global", WorkUnits(r)>>
                        BY <1>0, <3>2, <4>1, WantedIsAsk DEF RunnerInv, WaitingInv
                    <5>2. WorkUnits(r) <= Capacity["global"] /\ WorkUnits(r) \in Units
                        BY <1>0, <4>1, <5>1, Shared
                    <5>3. GlobalCapacity \in Nat /\ WorkUnits(r) \in Nat
                        BY <5>2, Weights, RunnerAssumption DEF RunnerAssumption
                    <5>4. QED
                        BY <3>2, <5>2, <5>3, Capacities
                <4>2. L!Waiters' = L!Waiters /\ held' = held
                    BY <3>2 DEF limiters, L!Waiters
                <4>3. QED
                    BY <4>1, <4>2 DEF NoneWaits
            <3>3. CASE L!WakeRefused(<<r, "global", WorkUnits(r)>>) \/ L!TimeoutFires(<<r, "global", WorkUnits(r)>>)
                BY <1>0, <3>3, NotGranted
            <3>4. QED
                BY <1>3, <3>1, <3>2, <3>3 DEF Overloaded
        <2>3. QED
            BY <2>1, <2>2, RaiseKeeps
    <1>4. QED
        BY <1>1, <1>2, <1>3

\* Every step keeps the inductive invariant.
LEMMA NextIInv == IInv /\ [Next]_vars => IInv'
    <1> SUFFICES ASSUME IInv, [Next]_vars PROVE IInv'
        OBVIOUS
    <1>1. LP!IInv'
        BY LimitersMove, LimitersAssumed, LP!NextIInv DEF IInv
    <1>2. CP!IInv'
        BY BreakerMoves, BreakerAssumed, CP!NextIInv DEF IInv
    <1>3. RunnerInv'
        <2>1. ASSUME NEW r \in Requests, Proceed(r) PROVE RunnerInv'
            BY <2>1, RefusalsKeep, PassKeeps, TakeLaneKeeps, TakeGlobalKeeps, PhasesKeep, StopKeeps, WaitsKeep,
               EndKeeps, BreakerToldKeeps, ReleaseUnitsKeeps
            DEF Proceed
        <2>2. ASSUME NEW r \in Requests, Disturb(r) PROVE RunnerInv'
            BY <2>2, PhasesKeep, RefusalsKeep, StopKeeps DEF Disturb
        <2>3. ASSUME NEW r \in Requests, NEW p \in Providers, TaskStep(r, p) PROVE RunnerInv'
            BY <2>3, TaskKeeps DEF TaskStep
        <2>4. ASSUME NEW r \in Requests, WaitExpires(r) PROVE RunnerInv'
            BY <2>4, WaitsKeep
        <2>5. CASE Tick \/ UNCHANGED vars
            <3>1. UNCHANGED <<runner, held, since>> /\ L!Waiters' = L!Waiters
                BY <2>5 DEF Tick, C!Tick, C!history, vars, breaker, limiters, L!Waiters
            <3>2. QED
                BY <3>1, StillKeeps
        <2>6. QED
            BY <2>1, <2>2, <2>3, <2>4, <2>5 DEF Next
    <1>4. QED
        BY <1>1, <1>2, <1>3 DEF IInv

\* The initial state satisfies the inductive invariant.
LEMMA InitIInv == Init => IInv
    <1> SUFFICES ASSUME Init PROVE IInv
        OBVIOUS
    <1>1. LP!Init /\ CP!Init
        BY LimiterSteps, BreakerSteps DEF Init
    <1>2. LP!IInv /\ CP!IInv
        BY <1>1, LimitersAssumed, BreakerAssumed, LP!InitIInv, CP!InitIInv
    <1>3. TypeOK
        <2>1. \A r \in Requests : 1 \in 1..(Len(Plan[r]) + 1)
            <3>1. \A r \in Requests : Plan[r] \in Seq(Providers)
                BY RunnerAssumption DEF RunnerAssumption
            <3>2. \A r \in Requests : Len(Plan[r]) \in Nat
                BY <3>1, LenProperties
            <3>3. QED
                BY <3>2
        <2>2. QED
            BY <2>1 DEF Init, TypeOK, Phases, Fates
    <1>4. WaitingInv
        BY DEF Init, L!Init, L!Waiters, WaitingInv
    <1>5. ASSUME NEW r \in Requests PROVE RequestInv(r)
        <2>1. /\ pc[r] = "idle" /\ at[r] = 1 /\ scopes[r] = {} /\ reservations[r] = {} /\ aborted[r] = FALSE
              /\ \A p \in Providers : call[r][p] = "unseen" /\ answers[r][p] = 0 /\ since[<<r, p>>] = 0
              /\ \A l \in Limiters : held[r][l] = 0
            BY CallsAndScopes DEF Init, C!Init, L!Init
        <2>2. \A p \in Providers : ~Came(r, p)
            BY <2>1 DEF Came
        <2>3. QED
            BY <2>1, <2>2 DEF RequestInv, LoopInv, FateInv, FatesIn, OwnedInv, Calling
    <1>6. QED
        BY <1>2, <1>3, <1>4, <1>5 DEF IInv, RunnerInv

\* The inductive invariant holds in every reachable state.
LEMMA Inductive == Spec => []IInv
    BY InitIInv, NextIInv, PTL DEF Spec

-----------------------------------------------------------------------------
(* Results.                                                                *)

\* The variables of the runner have their types.
THEOREM TypeCorrect == Spec => []TypeOK
    <1>1. IInv => TypeOK
        BY DEF IInv, RunnerInv
    <1>2. QED
        BY <1>1, Inductive, PTL

\* A request that returns has one result for each of its plugins: the admission loop came
\* to all of them, and each is rejected or recorded by then.
THEOREM ResultsComplete == Spec => []OneResultEach
    <1>1. ASSUME IInv, NEW r \in Requests, pc[r] = "unwind", ~aborted[r], NEW p \in Providers
          PROVE  answers[r][p] = IF In(r, p) THEN 1 ELSE 0
        <2>1. LoopInv(r) /\ FateInv(r)
            BY <1>1 DEF IInv, RunnerInv, RequestInv
        <2>2. Plan[r] \in Seq(Providers)
            BY RunnerAssumption DEF RunnerAssumption
        <2>3. Len(Plan[r]) \in Nat /\ DOMAIN Plan[r] = 1..Len(Plan[r])
            BY <2>2, LenProperties
        <2>4. at[r] - 1 = Len(Plan[r])
            BY <1>1, <2>1, <2>3 DEF LoopInv, OverPlan
        <2>5. In(r, p) <=> Came(r, p)
            BY <2>3, <2>4 DEF In, Came
        <2>6. call[r][p] \in {"unseen", "rejected", "recorded"}
            BY <1>1, <2>1 DEF FateInv, FatesIn
        <2>7. QED
            BY <2>1, <2>5, <2>6 DEF LoopInv, FateInv
    <1>2. IInv => OneResultEach
        BY <1>1 DEF OneResultEach
    <1>3. QED
        BY <1>2, Inductive, PTL

-----------------------------------------------------------------------------
(* Leaks.                                                                  *)

\* A request that is over has nothing under way.
LEMMA IdleIsClean ==
    ASSUME IInv, NEW r \in Requests, pc[r] = "idle"
    PROVE  /\ ~L!Busy(r)
           /\ \A l \in Limiters : held[r][l] = 0
           /\ \A p \in Providers : since[<<r, p>>] = 0 /\ call[r][p] = "unseen"
    <1>1. WaitingInv /\ FateInv(r) /\ OwnedInv(r)
        BY DEF IInv, RunnerInv, RequestInv
    <1>2. ~L!Busy(r)
        BY <1>1 DEF WaitingInv, L!Busy
    <1>3. \A p \in Providers : call[r][p] = "unseen"
        BY <1>1 DEF FateInv, FatesIn
    <1>4. QED
        BY <1>1, <1>2, <1>3 DEF OwnedInv

\* However a request ended, nothing of it is left behind; one whose clean-up was cut short
\* is a quote too large for its results, and waits for no limiter.
THEOREM NothingIsLeaked == Spec => []NothingLeaks
    <1>1. ASSUME IInv, NEW r \in Requests, pc[r] = "lost"
          PROVE  r \in oversize /\ ~L!Busy(r)
        BY <1>1 DEF IInv, RunnerInv, RequestInv, FateInv, WaitingInv, L!Busy
    <1>2. IInv => NothingLeaks
        BY <1>1, IdleIsClean DEF NothingLeaks, LiveTasks, Alive
    <1>3. QED
        BY <1>2, Inductive, PTL

\* A half-open scope whose requests are all over has its probe slots free but for those
\* of requests that were cut short: a slot is taken for a probe in flight only, the probes
\* in flight are calls of such requests, and each of those has one call on the scope.
THEOREM ProbeSlotsReturn == Spec => []IdleScopesFree
    <1>1. ASSUME IInv, NEW s \in Scopes,
                 \A r \in Requests : GroupOf[r] = s[2] => pc[r] \in {"idle", "lost"}
          PROVE  halfOpenInflight[s] <= Cardinality(Lost(s))
        <2> DEFINE S == CP!ProbesOf(s)
                   f == [c \in S |-> c[1]]
        <2>1. /\ halfOpenInflight[s] \in Nat /\ probes \subseteq Calls
              /\ halfOpenInflight[s] <= CP!Cardinality(S)
              /\ \A c \in probes : since[c] # 0
            BY <1>1 DEF IInv, CP!IInv, CP!TypeOK, CP!ScopeInv
        <2>2. ASSUME NEW c \in S
              PROVE  c \in Requests \X Providers /\ c[2] = s[1] /\ c[1] \in Lost(s)
            <3>1. c \in probes /\ ScopeOf[c] = s /\ since[c] # 0
                BY <2>1 DEF CP!ProbesOf
            <3>2. PICK r \in Requests, p \in Providers : c = <<r, p>>
                BY <2>1, <3>1 DEF Calls
            <3>3. s = <<p, GroupOf[r]>>
                BY <3>1, <3>2, CallsAndScopes
            <3>4. pc[r] = "lost"
                BY <1>1, <3>1, <3>2, <3>3, IdleIsClean
            <3>5. p \in scopes[r]
                BY <1>1, <3>1, <3>2 DEF IInv, RunnerInv, RequestInv, OwnedInv
            <3>6. QED
                BY <3>2, <3>3, <3>4, <3>5 DEF Lost
        <2>3. f \in Injection(S, Lost(s))
            <3> HIDE DEF S
            <3>1. f \in [S -> Lost(s)]
                BY <2>2
            <3>2. \A c, d \in S : f[c] = f[d] => c = d
                BY <2>2
            <3>3. QED
                BY <3>1, <3>2, Fun_IsInj
        <2>4. IsFiniteSet(Lost(s))
            <3>1. IsFiniteSet(Requests) /\ Lost(s) \subseteq Requests
                BY RunnerAssumption DEF RunnerAssumption, Lost
            <3>2. QED
                BY <3>1, FS_Subset
        <2> HIDE DEF S, f
        <2>5. IsFiniteSet(S) /\ Cardinality(S) <= Cardinality(Lost(s))
            BY <2>3, <2>4, FS_Injection
        <2>6. CP!Cardinality(S) = Cardinality(S)
            BY DEF CP!Cardinality, Cardinality
        <2>7. Cardinality(S) \in Nat /\ Cardinality(Lost(s)) \in Nat
            BY <2>4, <2>5, FS_CardinalityType
        <2>8. QED
            BY <2>1, <2>5, <2>6, <2>7
    <1>2. IInv => IdleScopesFree
        BY <1>1 DEF IdleScopesFree
    <1>3. QED
        BY <1>2, Inductive, PTL

-----------------------------------------------------------------------------
(* The bound on calls to the providers.                                    *)

\* A set of at most n elements can be numbered from 1 to n.
LEMMA Numbering ==
    ASSUME NEW S, IsFiniteSet(S), NEW n \in Nat, Cardinality(S) <= n
    PROVE  \E f \in [S -> 1..n] : \A a, b \in S : f[a] = f[b] => a = b
    <1>1. Cardinality(S) \in Nat
        BY FS_CardinalityType
    <1> DEFINE k == Cardinality(S)
    <1>2. IsFiniteSet(1..k) /\ Cardinality(1..k) = k
        BY <1>1, FS_Interval
    <1>3. ExistsBijection(S, 1..k)
        BY <1>2, FS_SameCardinalityBij
    <1>4. PICK f : f \in Bijection(S, 1..k)
        BY <1>3 DEF ExistsBijection
    <1>5. 1..k \subseteq 1..n
        BY <1>1
    <1> HIDE DEF k
    <1>6. f \in [S -> 1..k] /\ \A a, b \in S : f[a] = f[b] => a = b
        BY <1>4, Fun_BijectionProperties
    <1>7. f \in [S -> 1..n]
        BY <1>5, <1>6
    <1>8. QED
        BY <1>6, <1>7

\* Calls that can each be given a unit of a limiter of their own are no more than its
\* capacity.
LEMMA UnitEach ==
    ASSUME IInv, NEW l \in Limiters, NEW S, NEW f \in [S -> LP!Tokens(l)],
           \A c, d \in S : f[c] = f[d] => c = d
    PROVE  Cardinality(S) <= Capacity[l]
    <1>1. LP!IsFiniteSet(LP!Tokens(l)) /\ LP!Load(l) \in Nat
        BY LimitersAssumed, LP!LoadType
    <1>2. IsFiniteSet(LP!Tokens(l)) /\ LP!Load(l) = Cardinality(LP!Tokens(l))
        BY <1>1 DEF LP!IsFiniteSet, IsFiniteSet, LP!Load, LP!Cardinality, Cardinality
    <1>3. LP!Load(l) <= Capacity[l]
        BY DEF IInv, LP!IInv, LP!Accounting, LP!HeldInv
    <1>4. f \in Injection(S, LP!Tokens(l))
        BY Fun_IsInj
    <1>5. IsFiniteSet(S) /\ Cardinality(S) <= Cardinality(LP!Tokens(l))
        BY <1>2, <1>4, FS_Injection
    <1>6. Cardinality(S) \in Nat /\ Capacity[l] \in Nat
        BY <1>5, FS_CardinalityType, Capacities
    <1>7. QED
        BY <1>1, <1>2, <1>3, <1>5, <1>6

\* While a task of a request is alive, the request holds a unit of its plugin and one of
\* the service for each of its tasks.
LEMMA LiveHold ==
    ASSUME IInv, NEW r \in Requests
    PROVE  /\ \A p \in Live(r) : held[r][p] # 0
           /\ IsFiniteSet(Live(r)) /\ Cardinality(Live(r)) <= held[r]["global"]
    <1>1. FateInv(r) /\ OwnedInv(r) /\ pc[r] \in Phases
        BY DEF IInv, RunnerInv, RequestInv, TypeOK
    <1>2. /\ \A l \in Limiters : held[r][l] \in Nat
          /\ "global" \in Limiters
        BY Shared DEF IInv, Limiters
    <1>3. IsFiniteSet(Live(r))
        BY Weights DEF Live
    <1>4. CASE pc[r] \in Calling
        BY <1>1, <1>3, <1>4 DEF OwnedInv, Live, Alive, Calling
    <1>5. CASE pc[r] \notin Calling
        <2>1. Live(r) = {}
            BY <1>1, <1>5 DEF FateInv, FatesIn, Live, Alive, Calling
        <2>2. QED
            BY <1>2, <1>3, <2>1, FS_EmptySet
    <1>6. QED
        BY <1>4, <1>5

\* The calls under way at the same time are within the units of their provider and of the
\* service, for any number of requests: each has a unit of either to itself.
THEOREM CallsBounded == Spec => []UpstreamBounded
    <1>1. ASSUME IInv, NEW p \in Providers
          PROVE  Cardinality({c \in LiveTasks : c[2] = p}) <= LaneCapacity
        <2> DEFINE S == {c \in LiveTasks : c[2] = p}
                   f == [c \in S |-> <<c[1], 1>>]
        <2>1. p \in Limiters /\ Capacity[p] = LaneCapacity /\ Capacity[p] \in Nat \ {0}
            BY Capacities
        <2>2. ASSUME NEW c \in S PROVE <<c[1], 1>> \in LP!Tokens(p)
            <3>1. c[1] \in Requests /\ p \in Live(c[1])
                BY <2>2 DEF LiveTasks, Calls, Live
            <3>2. held[c[1]][p] \in Nat /\ held[c[1]][p] # 0
                BY <1>1, <2>1, <3>1, LiveHold, Shared DEF IInv
            <3>3. 1 \in 1..Capacity[p] /\ 1 <= held[c[1]][p]
                BY <2>1, <3>2
            <3>4. QED
                BY <3>1, <3>3 DEF LP!Tokens
        <2>3. f \in [S -> LP!Tokens(p)]
            BY <2>2
        <2>4. \A c, d \in S : f[c] = f[d] => c = d
            BY DEF LiveTasks, Calls
        <2>5. QED
            BY <1>1, <2>1, <2>3, <2>4, UnitEach
    <1>2. ASSUME IInv PROVE Cardinality(LiveTasks) <= GlobalCapacity
        <2> DEFINE Numbers(r) == {g \in [Live(r) -> 1..held[r]["global"]] :
                                      \A a, b \in Live(r) : g[a] = g[b] => a = b}
                   number == [r \in Requests |-> CHOOSE g : g \in Numbers(r)]
                   f == [c \in LiveTasks |-> <<c[1], number[c[1]][c[2]]>>]
        <2>1. "global" \in Limiters /\ Capacity["global"] = GlobalCapacity /\ GlobalCapacity \in Nat
            BY Capacities, RunnerAssumption DEF Limiters, RunnerAssumption
        <2>2. ASSUME NEW r \in Requests PROVE held[r]["global"] \in Nat /\ held[r]["global"] <= GlobalCapacity
            BY <1>2, <2>1, Shared DEF IInv, LP!IInv, LP!HeldInv
        <2>3. ASSUME NEW r \in Requests PROVE number[r] \in Numbers(r)
            <3>1. \E g \in [Live(r) -> 1..held[r]["global"]] : \A a, b \in Live(r) : g[a] = g[b] => a = b
                BY <1>2, <2>2, LiveHold, Numbering
            <3>2. \E g : g \in Numbers(r)
                BY <3>1
            <3>3. QED
                BY <3>2
        <2>4. \A c \in LiveTasks : c \in Requests \X Providers /\ c[2] \in Live(c[1])
            BY DEF LiveTasks, Calls, Live
        <2> HIDE DEF number
        <2>5. ASSUME NEW c \in LiveTasks PROVE <<c[1], number[c[1]][c[2]]>> \in LP!Tokens("global")
            <3> DEFINE n == number[c[1]][c[2]]
            <3>1. n \in 1..held[c[1]]["global"]
                BY <2>3, <2>4, <2>5
            <3> HIDE DEF n
            <3>2. n \in 1..Capacity["global"] /\ n <= held[c[1]]["global"]
                BY <2>1, <2>2, <2>4, <2>5, <3>1
            <3>3. <<c[1], n>> \in LP!Tokens("global")
                BY <2>4, <2>5, <3>2 DEF LP!Tokens
            <3>4. QED
                BY <3>3 DEF n
        <2>6. f \in [LiveTasks -> LP!Tokens("global")]
            BY <2>5
        <2>7. ASSUME NEW c \in LiveTasks, NEW d \in LiveTasks, f[c] = f[d] PROVE c = d
            <3>1. c[1] = d[1] /\ number[c[1]][c[2]] = number[c[1]][d[2]]
                BY <2>7
            <3>2. c[2] = d[2]
                BY <2>3, <2>4, <3>1, <2>7
            <3>3. QED
                BY <2>4, <3>1, <3>2, <2>7
        <2>8. QED
            BY <1>2, <2>1, <2>6, <2>7, UnitEach
    <1>3. IInv => UpstreamBounded
        BY <1>1, <1>2 DEF UpstreamBounded
    <1>4. QED
        BY <1>3, Inductive, PTL

-----------------------------------------------------------------------------
(* The parts in the whole.                                                 *)

\* The requests use the limiters as their module says: every step is one of its steps or
\* leaves them alone, so all that is proved of the limiters holds here.
THEOREM RunnerUsesLimiters == Spec => LP!Spec
    <1>1. Init => LP!Init
        BY LimiterSteps DEF Init
    <1>2. IInv /\ [Next]_vars => [LP!Next]_LP!vars
        BY LimitersMove
    <1>3. QED
        BY <1>1, <1>2, Inductive, PTL DEF Spec, LP!Spec

\* They use the breaker as its module says: a result is recorded, or a probe given back,
\* only for a call that was let through and is not over.
THEOREM RunnerUsesBreaker == Spec => CP!Spec
    <1>1. Init => CP!Init
        BY BreakerSteps DEF Init
    <1>2. IInv /\ [Next]_vars => [CP!Next]_CP!vars
        BY BreakerMoves
    <1>3. QED
        BY <1>1, <1>2, Inductive, PTL DEF Spec, CP!Spec

=============================================================================
