---------------------------- MODULE CapacityGate ----------------------------
(***************************************************************************)
(* What callers of the weighted limiters of core/limits.py rely on, with   *)
(* no queue, timeout or wake-up in sight: a task that wants units of a     *)
(* limiter gets all of them at once or none, the units handed out never    *)
(* exceed the limiter's capacity, and the holder gives back exactly the    *)
(* units it got.                                                           *)
(***************************************************************************)
EXTENDS Integers

CONSTANTS
    Limiters,  \* the WeightedLimiter instances
    Capacity,  \* capacity of each limiter
    Tasks,     \* the asyncio tasks that use them
    Units      \* the amounts tasks ask for

VARIABLES
    load,  \* units of each limiter handed out
    held   \* units of each limiter each task holds

Grant(t, l, u) ==
    /\ held[t][l] = 0
    /\ load[l] + u <= Capacity[l]
    /\ load' = [load EXCEPT ![l] = @ + u]
    /\ held' = [held EXCEPT ![t][l] = u]

Return(t, l) ==
    /\ held[t][l] # 0
    /\ load' = [load EXCEPT ![l] = @ - held[t][l]]
    /\ held' = [held EXCEPT ![t][l] = 0]

Init ==
    /\ load = [l \in Limiters |-> 0]
    /\ held = [t \in Tasks |-> [l \in Limiters |-> 0]]

Next == \E t \in Tasks, l \in Limiters : Return(t, l) \/ \E u \in Units : Grant(t, l, u)

Spec == Init /\ [][Next]_<<load, held>>

=============================================================================
