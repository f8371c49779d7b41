----------------------- MODULE CapacityLimitersProofs -----------------------
(* Proofs about CapacityLimiters, for every value of its constants.        *)
EXTENDS CapacityLimiters, FiniteSetTheorems, TLAPS

-----------------------------------------------------------------------------
(* Counting units.                                                         *)

\* The u units of one task count as u.
LEMMA SlabSize ==
    ASSUME NEW t, NEW u \in Nat
    PROVE  IsFiniteSet({t} \X (1..u)) /\ Cardinality({t} \X (1..u)) = u
    <1>1. IsFiniteSet({t}) /\ Cardinality({t}) = 1
        BY FS_Singleton
    <1>2. IsFiniteSet(1..u) /\ Cardinality(1..u) = u
        BY FS_Interval
    <1>3. /\ IsFiniteSet({t} \X (1..u))
          /\ Cardinality({t} \X (1..u)) = Cardinality({t}) * Cardinality(1..u)
        BY <1>1, <1>2, FS_Product
    <1>4. QED
        BY <1>1, <1>2, <1>3

\* Adding the units of a task that had none adds them to the count.
LEMMA SlabAdded ==
    ASSUME NEW S, IsFiniteSet(S), NEW t, NEW u \in Nat,
           S \cap ({t} \X (1..u)) = {}
    PROVE  Cardinality(S \cup ({t} \X (1..u))) = Cardinality(S) + u
    <1>1. IsFiniteSet({t} \X (1..u)) /\ Cardinality({t} \X (1..u)) = u
        BY SlabSize
    <1>2. Cardinality(S \cup ({t} \X (1..u)))
            = Cardinality(S) + Cardinality({t} \X (1..u)) - Cardinality(S \cap ({t} \X (1..u)))
        BY <1>1, FS_Union
    <1>3. Cardinality(S \cap ({t} \X (1..u))) = 0 /\ Cardinality(S) \in Nat
        BY FS_EmptySet, FS_CardinalityType
    <1>4. QED
        BY <1>1, <1>2, <1>3

\* The load of a limiter is a natural number.
LEMMA LoadType ==
    ASSUME NEW l \in Limiters
    PROVE  IsFiniteSet(Tokens(l)) /\ Load(l) \in Nat
    <1>1. IsFiniteSet(Tasks) /\ Capacity[l] \in Nat
        BY LimiterAssumption DEF LimiterAssumption
    <1>2. IsFiniteSet(1..Capacity[l])
        BY <1>1, FS_Interval
    <1>3. IsFiniteSet(Tasks \X (1..Capacity[l]))
        BY <1>1, <1>2, FS_Product
    <1>4. Tokens(l) \subseteq Tasks \X (1..Capacity[l])
        BY DEF Tokens
    <1>5. IsFiniteSet(Tokens(l))
        BY <1>3, <1>4, FS_Subset
    <1>6. Cardinality(Tokens(l)) \in Nat
        BY <1>5, FS_CardinalityType
    <1>7. QED
        BY <1>5, <1>6 DEF Load

\* Two settings of the reservations that differ in one entry, empty in one and
\* u units in the other, differ by u in that limiter's load and in no other.
LEMMA TakeLoad ==
    ASSUME NEW t \in Tasks, NEW l \in Limiters, NEW u \in 0..Capacity[l],
           held \in [Tasks -> [Limiters -> Nat]], held[t][l] = 0,
           held' = [held EXCEPT ![t][l] = u]
    PROVE  /\ Load(l)' = Load(l) + u
           /\ \A k \in Limiters : k # l => Load(k)' = Load(k)
    <1>0. Capacity[l] \in Nat
        BY LimiterAssumption DEF LimiterAssumption
    <1>1. Tokens(l)' = Tokens(l) \cup ({t} \X (1..u))
        BY <1>0 DEF Tokens
    <1>2. Tokens(l) \cap ({t} \X (1..u)) = {}
        BY <1>0 DEF Tokens
    <1>3. Load(l)' = Load(l) + u
        <2>1. IsFiniteSet(Tokens(l)) /\ u \in Nat
            BY <1>0, LoadType
        <2>2. Cardinality(Tokens(l) \cup ({t} \X (1..u))) = Cardinality(Tokens(l)) + u
            <3> DEFINE T == Tokens(l)
            <3>1. IsFiniteSet(T) /\ T \cap ({t} \X (1..u)) = {}
                BY <1>2, <2>1
            <3> HIDE DEF T
            <3>2. Cardinality(T \cup ({t} \X (1..u))) = Cardinality(T) + u
                BY ZenonT(40), <2>1, <3>1, SlabAdded
            <3>3. QED
                BY <3>2 DEF T
        <2>3. QED
            BY <1>1, <2>2 DEF Load
    <1>4. \A k \in Limiters : k # l => Tokens(k)' = Tokens(k)
        BY DEF Tokens
    <1>5. QED
        BY <1>3, <1>4 DEF Load

\* Emptying one entry of the reservations takes that entry off its limiter's load.
LEMMA ReturnLoad ==
    ASSUME NEW t \in Tasks, NEW l \in Limiters,
           held \in [Tasks -> [Limiters -> Nat]], held[t][l] <= Capacity[l],
           held' = [held EXCEPT ![t][l] = 0]
    PROVE  /\ Load(l) = Load(l)' + held[t][l]
           /\ Load(l)' \in Nat
           /\ \A k \in Limiters : k # l => Load(k)' = Load(k)
    <1> DEFINE u == held[t][l]
    <1>0. Capacity[l] \in Nat /\ u \in Nat
        BY LimiterAssumption DEF LimiterAssumption
    <1>1. Tokens(l) = Tokens(l)' \cup ({t} \X (1..u))
        BY <1>0 DEF Tokens
    <1>2. Tokens(l)' \cap ({t} \X (1..u)) = {}
        BY <1>0 DEF Tokens
    <1>3. IsFiniteSet(Tokens(l)')
        <2>1. Tokens(l)' \subseteq Tokens(l)
            BY <1>1
        <2>2. QED
            BY <2>1, LoadType, FS_Subset
    <1>4. Load(l) = Load(l)' + u /\ Load(l)' \in Nat
        <2>1. Cardinality(Tokens(l)' \cup ({t} \X (1..u))) = Cardinality(Tokens(l)') + u
            BY <1>0, <1>2, <1>3, SlabAdded
        <2>2. Cardinality(Tokens(l)') \in Nat
            BY <1>3, FS_CardinalityType
        <2>3. QED
            BY <1>1, <2>1, <2>2 DEF Load
    <1>5. \A k \in Limiters : k # l => Tokens(k)' = Tokens(k)
        BY DEF Tokens
    <1>6. QED
        BY <1>4, <1>5 DEF Load

-----------------------------------------------------------------------------
(* The inductive invariant.                                                *)

\* A waiter waits for units it could be given, on a limiter it holds nothing
\* of, and waits once.
WaiterInv ==
    /\ \A w \in Waiters : held[w[1]][w[2]] = 0 /\ w[3] <= Capacity[w[2]]
    /\ \A v, w \in Waiters : v[1] = w[1] => v = w
    /\ asleep \cap woken = {}

\* No reservation is larger than its limiter, no limiter is over capacity.
HeldInv ==
    /\ \A t \in Tasks, l \in Limiters : held[t][l] <= Capacity[l]
    /\ \A l \in Limiters : used[l] <= Capacity[l]

IInv ==
    /\ TypeOK
    /\ WaiterInv
    /\ HeldInv
    /\ Accounting
    /\ NoLostWakeup

\* The initial state satisfies the inductive invariant.
LEMMA InitIInv == Init => IInv
    <1> SUFFICES ASSUME Init PROVE IInv
        OBVIOUS
    <1>1. ASSUME NEW l \in Limiters
          PROVE  used[l] = 0 /\ Load(l) = 0 /\ Capacity[l] \in Nat
        <2>1. Tokens(l) = {}
            BY DEF Init, Tokens
        <2>2. QED
            BY <2>1, FS_EmptySet, LimiterAssumption DEF Init, Load, LimiterAssumption
    <1>2. TypeOK /\ WaiterInv /\ NoLostWakeup
        BY DEF Init, TypeOK, WaiterInv, NoLostWakeup, Waiters
    <1>3. HeldInv /\ Accounting
        BY <1>1 DEF Init, HeldInv, Accounting
    <1>4. QED
        BY <1>2, <1>3 DEF IInv

\* Taking units that fit keeps the counters right.
LEMMA TakeStep ==
    ASSUME IInv, NEW t \in Tasks, NEW l \in Limiters, NEW u \in Nat,
           held[t][l] = 0, u <= Capacity[l], Fits(l, u), Take(t, l, u)
    PROVE  /\ used' \in [Limiters -> Nat] /\ held' \in [Tasks -> [Limiters -> Nat]]
           /\ HeldInv' /\ Accounting'
           /\ \A k \in Limiters, n \in Nat : Fits(k, n)' => Fits(k, n)
    <1>0. /\ used \in [Limiters -> Nat] /\ held \in [Tasks -> [Limiters -> Nat]]
          /\ Capacity \in [Limiters -> Nat]
        BY LimiterAssumption DEF IInv, TypeOK, LimiterAssumption
    <1>1. used'[l] = used[l] + u /\ \A k \in Limiters : k # l => used'[k] = used[k]
        BY <1>0 DEF Take
    <1>2. used' \in [Limiters -> Nat] /\ held' \in [Tasks -> [Limiters -> Nat]]
        BY <1>0 DEF Take
    <1>3. u \in 0..Capacity[l]
        BY <1>0
    <1>4. /\ Load(l)' = Load(l) + u
          /\ \A k \in Limiters : k # l => Load(k)' = Load(k)
        BY <1>0, <1>3, TakeLoad DEF Take
    <1>5. Accounting'
        BY <1>1, <1>4 DEF IInv, Accounting
    <1>6. HeldInv'
        BY <1>0, <1>1 DEF IInv, HeldInv, Take, Fits
    <1>7. \A k \in Limiters, n \in Nat : Fits(k, n)' => Fits(k, n)
        BY <1>0, <1>1, <1>2 DEF Fits
    <1>8. QED
        BY <1>2, <1>5, <1>6, <1>7

\* Asking changes no counter: the task is served, sleeps, or gives up.
LEMMA AskStep ==
    ASSUME IInv, NEW t \in Tasks, NEW l \in Limiters, NEW u \in Units,
           AcquireNow(t, l, u) \/ Sleep(t, l, u)
    PROVE  IInv'
    <1>0. u \in Nat /\ u # 0
        BY LimiterAssumption DEF LimiterAssumption
    <1>1. CASE AcquireNow(t, l, u)
        <2>1. /\ used' \in [Limiters -> Nat] /\ held' \in [Tasks -> [Limiters -> Nat]]
              /\ HeldInv' /\ Accounting'
              /\ \A k \in Limiters, n \in Nat : Fits(k, n)' => Fits(k, n)
            BY <1>0, <1>1, TakeStep DEF AcquireNow
        <2>2. TypeOK'
            BY <1>1, <2>1 DEF IInv, TypeOK, AcquireNow
        <2>3. WaiterInv'
            BY <1>1 DEF IInv, TypeOK, WaiterInv, AcquireNow, Take, Busy, Waiters, Asks
        <2>4. NoLostWakeup'
            BY <1>1, <2>1, LimiterAssumption
            DEF IInv, TypeOK, NoLostWakeup, AcquireNow, Asks, LimiterAssumption
        <2>5. QED
            BY <2>1, <2>2, <2>3, <2>4 DEF IInv
    <1>2. CASE Sleep(t, l, u)
        <2>1. TypeOK'
            BY <1>2 DEF IInv, TypeOK, Sleep, Asks
        <2>2. WaiterInv'
            BY <1>2 DEF IInv, TypeOK, WaiterInv, Sleep, Busy, Waiters, Asks
        <2>3. HeldInv' /\ Accounting'
            BY <1>2 DEF IInv, HeldInv, Accounting, Sleep, Load, Tokens
        <2>4. NoLostWakeup'
            BY <1>2 DEF IInv, NoLostWakeup, Sleep, Fits
        <2>5. QED
            BY <2>1, <2>2, <2>3, <2>4 DEF IInv
    <1>3. QED
        BY <1>1, <1>2

\* A waiter that runs again is served, gives up or goes back to sleep.
LEMMA WakeStep ==
    ASSUME IInv, NEW w \in Asks, Wake(w)
    PROVE  IInv'
    <1>0. /\ w[1] \in Tasks /\ w[2] \in Limiters /\ w[3] \in Nat
          /\ w \in woken => held[w[1]][w[2]] = 0 /\ w[3] <= Capacity[w[2]]
        BY LimiterAssumption DEF IInv, WaiterInv, Waiters, Asks, LimiterAssumption
    <1>1. CASE WakeGranted(w)
        <2>1. /\ used' \in [Limiters -> Nat] /\ held' \in [Tasks -> [Limiters -> Nat]]
              /\ HeldInv' /\ Accounting'
              /\ \A k \in Limiters, n \in Nat : Fits(k, n)' => Fits(k, n)
            BY <1>0, <1>1, TakeStep DEF WakeGranted
        <2>2. TypeOK'
            BY <1>1, <2>1 DEF IInv, TypeOK, WakeGranted
        <2>3. WaiterInv'
            BY <1>0, <1>1 DEF IInv, TypeOK, WaiterInv, WakeGranted, Take, Waiters, Asks
        <2>4. NoLostWakeup'
            BY <1>1, <2>1, LimiterAssumption
            DEF IInv, TypeOK, NoLostWakeup, WakeGranted, Asks, LimiterAssumption
        <2>5. QED
            BY <2>1, <2>2, <2>3, <2>4 DEF IInv
    <1>2. CASE WakeRefused(w)
        BY <1>2 DEF IInv, TypeOK, WaiterInv, HeldInv, Accounting, NoLostWakeup, WakeRefused,
            Waiters, Fits, Load, Tokens
    <1>3. CASE WakeAgain(w)
        <2>1. TypeOK' /\ WaiterInv'
            BY <1>3 DEF IInv, TypeOK, WaiterInv, WakeAgain, Waiters
        <2>2. HeldInv' /\ Accounting' /\ NoLostWakeup'
            BY <1>3 DEF IInv, HeldInv, Accounting, NoLostWakeup, WakeAgain, Fits, Load, Tokens
        <2>3. QED
            BY <2>1, <2>2 DEF IInv
    <1>4. QED
        BY <1>1, <1>2, <1>3 DEF Wake

\* Giving up disturbs nobody, whichever waiter the wake-up is passed to.
LEMMA LeaveStep ==
    ASSUME IInv, NEW w \in Waiters, Leave(w)
    PROVE  IInv'
    <1>1. PICK next \in SUBSET {v \in asleep \ {w} : v[2] = w[2]} :
              /\ asleep' = (asleep \ {w}) \ next
              /\ woken' = (woken \ {w}) \cup next
        BY DEF Leave
    <1>2. asleep' \subseteq asleep /\ Waiters' \subseteq Waiters /\ asleep' \cap woken' = {}
        BY <1>1 DEF Waiters, IInv, WaiterInv
    <1>3. used' = used /\ held' = held /\ expired' \subseteq expired
        BY DEF Leave
    <1>4. TypeOK'
        BY <1>2, <1>3 DEF IInv, TypeOK, Waiters
    <1>5. WaiterInv'
        BY <1>2, <1>3 DEF IInv, WaiterInv
    <1>6. HeldInv' /\ Accounting' /\ NoLostWakeup'
        BY <1>2, <1>3 DEF IInv, HeldInv, Accounting, NoLostWakeup, Fits, Load, Tokens
    <1>7. QED
        BY <1>4, <1>5, <1>6 DEF IInv

\* A release gives back exactly what was held and wakes all who wait for it.
LEMMA ReleaseStep ==
    ASSUME IInv, NEW t \in Tasks, NEW l \in Limiters, Release(t, l)
    PROVE  IInv' /\ used' = [used EXCEPT ![l] = @ - held[t][l]]
    <1>0. /\ used \in [Limiters -> Nat] /\ held \in [Tasks -> [Limiters -> Nat]]
          /\ Capacity \in [Limiters -> Nat] /\ held[t][l] <= Capacity[l]
        BY LimiterAssumption DEF IInv, TypeOK, HeldInv, LimiterAssumption
    <1>1. /\ Load(l) = Load(l)' + held[t][l] /\ Load(l)' \in Nat
          /\ \A k \in Limiters : k # l => Load(k)' = Load(k)
        BY <1>0, ReturnLoad DEF Release
    <1>2. used[l] = Load(l) /\ held[t][l] \in Nat /\ used[l] - held[t][l] \in Nat
        BY <1>0, <1>1 DEF IInv, Accounting
    <1>3. Larger(0, used[l] - held[t][l]) = used[l] - held[t][l]
        BY <1>2 DEF Larger
    <1>4. used' = [used EXCEPT ![l] = @ - held[t][l]]
        BY <1>0, <1>3 DEF Release
    <1>5. used'[l] = Load(l)' /\ \A k \in Limiters : k # l => used'[k] = used[k]
        BY <1>0, <1>1, <1>2, <1>4
    <1>6. Accounting'
        BY <1>1, <1>5 DEF IInv, Accounting
    <1>7. /\ asleep' = {v \in asleep : v[2] # l}
          /\ Waiters' = Waiters /\ asleep' \cap woken' = {}
        BY DEF Release, Waiters, IInv, WaiterInv
    <1>8. TypeOK'
        <2>1. used' \in [Limiters -> Nat]
            BY <1>0, <1>2, <1>4
        <2>2. held' \in [Tasks -> [Limiters -> Nat]]
            BY <1>0 DEF Release
        <2>3. asleep' \subseteq Asks /\ woken' \subseteq Asks /\ expired' \subseteq Tasks
            BY DEF Release, IInv, TypeOK
        <2>4. QED
            BY <2>1, <2>2, <2>3 DEF TypeOK
    <1>9. WaiterInv'
        <2>1. ~Busy(t) /\ held' = [held EXCEPT ![t][l] = 0] /\ Waiters \subseteq Asks
            BY DEF Release, IInv, TypeOK, Waiters
        <2>2. \A w \in Waiters : held'[w[1]][w[2]] = held[w[1]][w[2]]
            BY <1>0, <2>1 DEF Busy, Asks
        <2>3. QED
            BY <1>7, <2>2 DEF IInv, WaiterInv
    <1>10. HeldInv'
        <2>1. \A k \in Limiters : used'[k] <= used[k]
            BY <1>0, <1>2, <1>4
        <2>2. \A x \in Tasks, k \in Limiters : held'[x][k] <= held[x][k]
            BY <1>0 DEF Release
        <2>3. used' \in [Limiters -> Nat] /\ held' \in [Tasks -> [Limiters -> Nat]]
            BY <1>8 DEF TypeOK
        <2>4. QED
            BY <1>0, <2>1, <2>2, <2>3 DEF IInv, HeldInv
    <1>11. NoLostWakeup'
        BY <1>5, <1>7 DEF IInv, TypeOK, NoLostWakeup, Fits, Asks
    <1>12. QED
        BY <1>4, <1>6, <1>8, <1>9, <1>10, <1>11 DEF IInv

\* Every step keeps the inductive invariant.
LEMMA NextIInv == IInv /\ [Next]_vars => IInv'
    <1> SUFFICES ASSUME IInv, [Next]_vars PROVE IInv'
        OBVIOUS
    <1>1. ASSUME NEW t \in Tasks, NEW l \in Limiters, TaskStep(t, l) PROVE IInv'
        BY <1>1, AskStep, ReleaseStep DEF TaskStep
    <1>2. ASSUME NEW w \in Asks, Wake(w) PROVE IInv'
        BY <1>2, WakeStep
    <1>3. ASSUME NEW w \in Asks, TimeoutFires(w) \/ Cancel(w) PROVE IInv'
        BY <1>3, LeaveStep DEF TimeoutFires, Cancel
    <1>4. ASSUME NEW t \in Tasks, Deadline(t) PROVE IInv'
        BY <1>4 DEF Deadline, IInv, TypeOK, WaiterInv, HeldInv, Accounting, NoLostWakeup,
            Waiters, Fits, Load, Tokens
    <1>5. CASE UNCHANGED vars
        BY <1>5 DEF vars, IInv, TypeOK, WaiterInv, HeldInv, Accounting, NoLostWakeup,
            Waiters, Fits, Load, Tokens
    <1>6. QED
        BY <1>1, <1>2, <1>3, <1>4, <1>5 DEF Next

\* The inductive invariant holds in every reachable state.
LEMMA Inductive == Spec => []IInv
    <1>1. QED
        BY InitIInv, NextIInv, PTL DEF Spec

-----------------------------------------------------------------------------
(* The theorems.                                                           *)

\* Type correctness.
THEOREM TypeCorrect == Spec => []TypeOK
    <1>1. IInv => TypeOK
        BY DEF IInv
    <1>2. QED
        BY <1>1, Inductive, PTL

\* No unit is lost and none is returned twice, whatever the number of tasks,
\* limiters and units and whatever the order of grants, timeouts and releases.
THEOREM UnitsAccounted == Spec => []Accounting
    <1>1. IInv => Accounting
        BY DEF IInv
    <1>2. QED
        BY <1>1, Inductive, PTL

\* No limiter is ever handed out beyond its capacity.
THEOREM CapacityHolds == Spec => []CapacityRespected
    <1>1. IInv => CapacityRespected
        BY DEF IInv, HeldInv, Accounting, CapacityRespected
    <1>2. QED
        BY <1>1, Inductive, PTL

\* No wake-up is lost.
THEOREM WakeupsArrive == Spec => []NoLostWakeup
    <1>1. IInv => NoLostWakeup
        BY DEF IInv
    <1>2. QED
        BY <1>1, Inductive, PTL

-----------------------------------------------------------------------------
(* The limiters implement CapacityGate.                                    *)

\* Every step grants units, returns units or is a stutter of the gate.
LEMMA GateStep == IInv /\ [Next]_vars => [Gate!Next]_<<used, held>>
    <1> SUFFICES ASSUME IInv, [Next]_vars, ~UNCHANGED <<used, held>>
                 PROVE  Gate!Next
        OBVIOUS
    <1>1. ASSUME NEW t \in Tasks, NEW l \in Limiters, NEW u \in Units, AcquireNow(t, l, u)
          PROVE  Gate!Next
        <2>1. Gate!Grant(t, l, u)
            BY <1>1 DEF AcquireNow, Take, Fits, Gate!Grant
        <2>2. QED
            BY <2>1 DEF Gate!Next
    <1>2. ASSUME NEW w \in Asks, WakeGranted(w)
          PROVE  Gate!Next
        <2>1. w[1] \in Tasks /\ w[2] \in Limiters /\ w[3] \in Units
            BY DEF Asks
        <2>2. Gate!Grant(w[1], w[2], w[3])
            BY <1>2 DEF WakeGranted, Take, Fits, Gate!Grant, IInv, WaiterInv, Waiters
        <2>3. QED
            BY <2>1, <2>2 DEF Gate!Next
    <1>3. ASSUME NEW t \in Tasks, NEW l \in Limiters, Release(t, l)
          PROVE  Gate!Next
        <2>1. used' = [used EXCEPT ![l] = @ - held[t][l]]
            BY <1>3, ReleaseStep
        <2>2. Gate!Return(t, l)
            BY <1>3, <2>1 DEF Release, Gate!Return
        <2>3. QED
            BY <2>2 DEF Gate!Next
    <1>4. QED
        BY <1>1, <1>2, <1>3
        DEF Next, TaskStep, Wake, WakeRefused, WakeAgain, TimeoutFires, Cancel, Leave,
            Deadline, Sleep, vars

\* The limiters implement the gate: no queueing, timeout, cancellation or
\* wake-up shows in who holds what.
THEOREM LimitersImplementGate == Spec => GateSpec
    <1>1. Init => Gate!Init
        BY DEF Init, Gate!Init
    <1>2. QED
        BY <1>1, Inductive, GateStep, PTL DEF Spec, GateSpec, Gate!Spec

=============================================================================
