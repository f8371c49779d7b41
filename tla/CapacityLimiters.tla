-------------------------- MODULE CapacityLimiters --------------------------
(***************************************************************************)
(* The weighted limiters of core/limits.py and the tasks that queue on     *)
(* their asyncio.Condition.  asyncio runs one task at a time and switches  *)
(* only where a task suspends; try_acquire suspends in Condition.wait()    *)
(* alone (the condition's lock is never held across another await), so     *)
(* everything a task does between two suspensions is one action here.      *)
(***************************************************************************)
EXTENDS Integers, FiniteSets

CONSTANTS
    Limiters,  \* the global limiter and the per-provider ones
    Capacity,  \* _capacity of each
    Tasks,     \* the asyncio tasks that use them
    Units      \* the amounts tasks ask for

ASSUME LimiterAssumption ==
    /\ Capacity \in [Limiters -> Nat \ {0}]
    /\ IsFiniteSet(Tasks)
    /\ Units \subseteq Nat \ {0}

VARIABLES
    used,    \* _used of each limiter
    held,    \* units of each LimitReservation not yet released
    asleep,  \* waiters whose future is pending: triples task, limiter, units
    woken,   \* waiters whose future is done and that have not run since
    expired  \* waiting tasks whose deadline has passed

vars == <<used, held, asleep, woken, expired>>

Larger(a, b) == IF a < b THEN b ELSE a

Waiters == asleep \cup woken
Busy(t) == \E w \in Waiters : w[1] = t
\* Mutant: any free unit will do.
FitsIfAnyFree(l, u) == used[l] < Capacity[l]

Fits(l, u) == used[l] + u <= Capacity[l]

\* Mutant: whatever the weight, one unit is counted.
TakeOne(t, l, u) ==
    /\ used' = [used EXCEPT ![l] = @ + 1]
    /\ held' = [held EXCEPT ![t][l] = u]

Take(t, l, u) ==
    /\ used' = [used EXCEPT ![l] = @ + u]
    /\ held' = [held EXCEPT ![t][l] = u]

-----------------------------------------------------------------------------
(* try_acquire.  Its refusals without a wait (units beyond the capacity, or *)
(* a full limiter and no timeout) change nothing and are not steps.         *)

AcquireNow(t, l, u) ==
    /\ ~Busy(t)
    /\ held[t][l] = 0
    /\ u <= Capacity[l]
    /\ Fits(l, u)
    /\ Take(t, l, u)
    /\ UNCHANGED <<asleep, woken, expired>>

\* With a positive timeout a task that does not fit waits for a release.
Sleep(t, l, u) ==
    /\ ~Busy(t)
    /\ held[t][l] = 0
    /\ u <= Capacity[l]
    /\ ~Fits(l, u)
    /\ asleep' = asleep \cup {<<t, l, u>>}
    /\ UNCHANGED <<used, held, woken, expired>>

\* A notified waiter runs again: it takes the units if they fit by now, even
\* past its deadline; else it gives up past the deadline and waits on before.
WakeGranted(w) ==
    /\ w \in woken
    /\ Fits(w[2], w[3])
    /\ Take(w[1], w[2], w[3])
    /\ woken' = woken \ {w}
    /\ expired' = expired \ {w[1]}
    /\ UNCHANGED asleep

WakeRefused(w) ==
    /\ w \in woken
    /\ ~Fits(w[2], w[3])
    /\ w[1] \in expired
    /\ woken' = woken \ {w}
    /\ expired' = expired \ {w[1]}
    /\ UNCHANGED <<used, held, asleep>>

\* Mutant: a waiter woken in vain gets its whole timeout again.
WakeAnew(w) ==
    /\ w \in woken
    /\ ~Fits(w[2], w[3])
    /\ woken' = woken \ {w}
    /\ asleep' = asleep \cup {w}
    /\ expired' = expired \ {w[1]}
    /\ UNCHANGED <<used, held>>

WakeAgain(w) ==
    /\ w \in woken
    /\ ~Fits(w[2], w[3])
    /\ w[1] \notin expired
    /\ woken' = woken \ {w}
    /\ asleep' = asleep \cup {w}
    /\ UNCHANGED <<used, held, expired>>

Wake(w) == WakeGranted(w) \/ WakeRefused(w) \/ WakeAgain(w)

\* The deadline of a waiter passes.
Deadline(t) ==
    /\ Busy(t)
    /\ t \notin expired
    /\ expired' = expired \cup {t}
    /\ UNCHANGED <<used, held, asleep, woken>>

\* Waiter w leaves the condition's queue without units.  Condition.wait() may
\* pass the wake-up it might have consumed on to one other waiter.
Leave(w) ==
    /\ \E next \in SUBSET {v \in asleep \ {w} : v[2] = w[2]} :
          /\ Cardinality(next) <= 1
          /\ asleep' = (asleep \ {w}) \ next
          /\ woken' = (woken \ {w}) \cup next
    /\ expired' = expired \ {w[1]}
    /\ UNCHANGED <<used, held>>

\* wait_for gives up on a waiter past its deadline, notified or not.
TimeoutFires(w) == w \in Waiters /\ w[1] \in expired /\ Leave(w)

\* The task is cancelled while it waits.
Cancel(w) == w \in Waiters /\ Leave(w)

-----------------------------------------------------------------------------
\* Mutant: one waiter is notified, not all.
ReleaseNotifyOne(t, l) ==
    /\ ~Busy(t)
    /\ held[t][l] # 0
    /\ used' = [used EXCEPT ![l] = Larger(0, @ - held[t][l])]
    /\ held' = [held EXCEPT ![t][l] = 0]
    /\ \/ /\ \A w \in asleep : w[2] # l
          /\ UNCHANGED <<asleep, woken>>
       \/ \E w \in asleep :
             /\ w[2] = l
             /\ asleep' = asleep \ {w}
             /\ woken' = woken \cup {w}
    /\ UNCHANGED expired

\* Mutant: a second release of a reservation is not recognised.
ReleaseTwice(t, l) ==
    /\ ~Busy(t)
    /\ held[t][l] # 0
    /\ used' = [used EXCEPT ![l] = @ - 2 * held[t][l]]
    /\ held' = [held EXCEPT ![t][l] = 0]
    /\ asleep' = {w \in asleep : w[2] # l}
    /\ woken' = woken \cup {w \in asleep : w[2] = l}
    /\ UNCHANGED expired

\* LimitReservation.release: give the units back and notify every waiter.
Release(t, l) ==
    /\ ~Busy(t)
    /\ held[t][l] # 0
    /\ used' = [used EXCEPT ![l] = Larger(0, @ - held[t][l])]
    /\ held' = [held EXCEPT ![t][l] = 0]
    /\ LET notified == {w \in asleep : w[2] = l} IN
         /\ asleep' = asleep \ notified
         /\ woken' = woken \cup notified
    /\ UNCHANGED expired

-----------------------------------------------------------------------------
Init ==
    /\ used = [l \in Limiters |-> 0]
    /\ held = [t \in Tasks |-> [l \in Limiters |-> 0]]
    /\ asleep = {}
    /\ woken = {}
    /\ expired = {}

TaskStep(t, l) ==
    \/ \E u \in Units : AcquireNow(t, l, u) \/ Sleep(t, l, u)
    \/ Release(t, l)

Asks == Tasks \X Limiters \X Units

Next ==
    \/ \E t \in Tasks, l \in Limiters : TaskStep(t, l)
    \/ \E w \in Asks : Wake(w) \/ TimeoutFires(w) \/ Cancel(w)
    \/ \E t \in Tasks : Deadline(t)

Spec == Init /\ [][Next]_vars

\* The event loop runs every task that is ready, and timers fire.
Fairness ==
    \A t \in Tasks :
        /\ WF_vars(\E w \in Asks : w[1] = t /\ Wake(w))
        /\ WF_vars(\E w \in Asks : w[1] = t /\ TimeoutFires(w))
        /\ WF_vars(Deadline(t))

FairSpec == Spec /\ Fairness

-----------------------------------------------------------------------------
(* Properties *)

\* Counters and reservations are naturals, waiters are requests of tasks.
TypeOK ==
    /\ used \in [Limiters -> Nat]
    /\ held \in [Tasks -> [Limiters -> Nat]]
    /\ asleep \subseteq Asks
    /\ woken \subseteq Asks
    /\ expired \subseteq Tasks

\* The units of a limiter that tasks hold, counted one token per unit.
Tokens(l) == {x \in Tasks \X (1..Capacity[l]) : x[2] <= held[x[1]][l]}
Load(l) == Cardinality(Tokens(l))

\* The counter is the sum of the units held: whatever the order of grants,
\* timeouts, cancellations and releases, none is lost and none is returned twice.
Accounting == \A l \in Limiters : used[l] = Load(l)

\* Whoever runs at which moment, a limiter is never handed out beyond capacity.
CapacityRespected == \A l \in Limiters : Load(l) <= Capacity[l]

\* No lost wake-up: a waiter nobody has notified could not be served now.
NoLostWakeup == \A w \in asleep : ~Fits(w[2], w[3])

Gate == INSTANCE CapacityGate WITH load <- used

\* The limiters keep the promise of CapacityGate: the clamp at zero of _release
\* never hides a wrong count, and no path of try_acquire hands out a part.
GateSpec == Gate!Spec

\* Every waiter gets its answer, granted or refused: the deadline is the one
\* set on entry, however often the waiter is notified in vain.
WaitsEnd == \A t \in Tasks : Busy(t) ~> ~Busy(t)

=============================================================================
