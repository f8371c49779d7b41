--------------------------- MODULE ProviderRunner ---------------------------
(***************************************************************************)
(* ProviderOperationRunner of core/provider_runner.py: every price or quote *)
(* request that runs at the same time, its provider calls, and the circuit  *)
(* breaker and the limiters all of them share.                              *)
(*                                                                          *)
(* The breaker is module CircuitBreaker with one call per request and       *)
(* provider; the limiters are module CapacityLimiters with one task per     *)
(* request, one limiter per provider and the global one.  A step here       *)
(* conjoins what the request does with what it makes of those two.          *)
(*                                                                          *)
(* asyncio switches tasks only where one suspends: a request that is not    *)
(* Suspended is running, and nothing else moves until it suspends or ends.  *)
(***************************************************************************)
EXTENDS Integers, Sequences, FiniteSets

CONSTANTS
    Requests,       \* slots for requests that run at the same time
    Providers,      \* provider ids
    Plan,           \* the plugins of each request, in the order they are tried
    Groups,         \* the (chain, operation) pairs requests are about
    GroupOf,        \* that of each request
    Convertible,    \* slots of quotes that may go through an input vault
    Unsupported,    \* the plugins _static_rejection_reason turns away, per request
    Answers,        \* results a provider call may end with
    FanoutLimit,    \* provider_fanout_per_request
    LaneCapacity,   \* provider_per_provider_units
    GlobalCapacity, \* effective_provider_global_units
    FailureWindow, FailureThreshold, OpenDuration, ProbeCount,
    MaxRateLimitBackoff, RetryAfters, MaxTime

VARIABLES
    pc,           \* where each request is in _run_operation
    at,           \* index of the plugin the admission loop is at
    call,         \* what became of each plugin so far
    result,       \* result of each provider task that ended
    answers,      \* number of results in the lists of each request, per provider
    scopes,       \* circuit_scopes of each request, by provider
    reservations, \* limiters in provider_reservations and global_reservation
    aborted,      \* an exception is on its way out of _run_operation
    oversize      \* requests whose assets pass uint256, which no QuoteResult accepts

outcome == <<at, call, result, answers>>
owned == <<scopes, reservations>>
runner == <<pc, outcome, owned, aborted, oversize>>

VARIABLES now, failures, openUntil, rateLimitUntil, halfOpenInflight, state,
          since, probes, promised, evidence   \* of CircuitBreaker
VARIABLES used, held, asleep, woken, expired  \* of CapacityLimiters

breaker == <<now, failures, openUntil, rateLimitUntil, halfOpenInflight, state,
             since, probes, promised, evidence>>
limiters == <<used, held, asleep, woken, expired>>

Scopes == Providers \X Groups
Calls == Requests \X Providers
ScopeOf == [c \in Calls |-> <<c[2], GroupOf[c[1]]>>]
CallLife == MaxTime + 1

C == INSTANCE CircuitBreaker

Limiters == Providers \cup {"global"}
Capacity == [l \in Limiters |-> IF l = "global" THEN GlobalCapacity ELSE LaneCapacity]
Units == 1..Cardinality(Providers)

L == INSTANCE CapacityLimiters WITH Tasks <- Requests

vars == <<runner, breaker, limiters>>

ASSUME RunnerAssumption ==
    /\ IsFiniteSet(Requests) /\ IsFiniteSet(Providers)
    /\ "global" \notin Providers
    /\ Plan \in [Requests -> Seq(Providers)]
    /\ \A r \in Requests : \A i, j \in DOMAIN Plan[r] : Plan[r][i] = Plan[r][j] => i = j
    /\ GroupOf \in [Requests -> Groups]
    /\ Unsupported \in [Requests -> SUBSET Providers]
    /\ Answers \subseteq C!Results
    /\ Convertible \subseteq Requests
    /\ {FanoutLimit, LaneCapacity, GlobalCapacity} \subseteq Nat \ {0}
    /\ {FailureWindow, FailureThreshold, OpenDuration, ProbeCount, MaxRateLimitBackoff} \subseteq Nat \ {0}
    /\ RetryAfters \subseteq Nat /\ MaxTime \in Nat

\* What a task that was cancelled or is late is taken to have answered.
DeadlineResult == C!Result("error", "DEADLINE_EXCEEDED", 0)

-----------------------------------------------------------------------------
Suspended(r) == pc[r] \in {"idle", "calls", "reap", "drain", "lost"} \/ L!Busy(r)
Turn(r) == \A q \in Requests \ {r} : Suspended(q)
LoopFree == \A q \in Requests : Suspended(q)

In(r, p) == p \in {Plan[r][i] : i \in DOMAIN Plan[r]}
Runnable(r) == {p \in Providers : call[r][p] = "admitted"}
WorkUnits(r) == Cardinality(Runnable(r))
Provider(r) == Plan[r][at[r]]
Considering(r) == pc[r] = "admit" /\ at[r] <= Len(Plan[r])
Alive == {"queued", "running", "stopping"}
Unfinished(r) == {p \in Providers : call[r][p] \in {"queued", "running"}}

\* Mutant: the loop steps over the plugin after one it rejects.
RejectTwo(r) ==
    /\ call' = [call EXCEPT ![r][Provider(r)] = "rejected"]
    /\ answers' = [answers EXCEPT ![r][Provider(r)] = @ + 1]
    /\ at' = [at EXCEPT ![r] = @ + 2]
    /\ pc' = [pc EXCEPT ![r] = "admit"]
    /\ UNCHANGED <<result, owned, aborted, oversize>>

\* Mutant: the plugin is passed over without an immediate result.
RejectSilently(r) ==
    /\ call' = [call EXCEPT ![r][Provider(r)] = "rejected"]
    /\ at' = [at EXCEPT ![r] = @ + 1]
    /\ pc' = [pc EXCEPT ![r] = "admit"]
    /\ UNCHANGED <<answers, result, owned, aborted, oversize>>

\* The plugin the loop is at gets an immediate result and the loop goes on.
AppendResult(r) ==
    /\ call' = [call EXCEPT ![r][Provider(r)] = "rejected"]
    /\ answers' = [answers EXCEPT ![r][Provider(r)] = @ + 1]
    /\ at' = [at EXCEPT ![r] = @ + 1]
    /\ pc' = [pc EXCEPT ![r] = "admit"]
    /\ UNCHANGED <<result, owned, aborted, oversize>>

\* Mutant: the reservations are known to finally only when admission went through.
RaiseForgetsUnits(r) ==
    /\ aborted' = [aborted EXCEPT ![r] = TRUE]
    /\ reservations' = [reservations EXCEPT ![r] = {}]
    /\ pc' = [pc EXCEPT ![r] = "unwind"]
    /\ UNCHANGED <<outcome, scopes, oversize>>

\* An exception leaves the try block.
Raise(r) ==
    /\ aborted' = [aborted EXCEPT ![r] = TRUE]
    /\ pc' = [pc EXCEPT ![r] = "unwind"]
    /\ UNCHANGED <<outcome, owned, oversize>>

\* static_result: a QuoteResult that repeats assets past uint256 cannot be built.
Reject(r) ==
    \/ r \notin oversize /\ AppendResult(r)
    \/ r \in oversize /\ Raise(r)

-----------------------------------------------------------------------------
(* Admission.                                                              *)

\* A request comes in (its slot has been left by the one before).  The assets of
\* the shares it asks for may be more than a result may show.
Arrive(r) ==
    /\ LoopFree
    /\ pc[r] = "idle"
    /\ pc' = [pc EXCEPT ![r] = "admit"]
    /\ \/ UNCHANGED oversize
       \/ r \in Convertible /\ oversize' = oversize \cup {r}
    /\ UNCHANGED <<outcome, owned, aborted, breaker, limiters>>

RejectStatic(r) ==
    /\ Turn(r)
    /\ Considering(r)
    /\ Provider(r) \in Unsupported[r]
    /\ Reject(r)
    /\ UNCHANGED <<breaker, limiters>>

RejectCircuit(r) ==
    /\ Turn(r)
    /\ Considering(r)
    /\ Provider(r) \notin Unsupported[r]
    /\ C!Refuse(<<r, Provider(r)>>)
    /\ Reject(r)
    /\ UNCHANGED limiters

PassCircuit(r) ==
    /\ Turn(r)
    /\ Considering(r)
    /\ Provider(r) \notin Unsupported[r]
    /\ C!Allow(<<r, Provider(r)>>)
    /\ scopes' = [scopes EXCEPT ![r] = @ \cup {Provider(r)}]
    /\ pc' = [pc EXCEPT ![r] = "lane"]
    /\ UNCHANGED <<outcome, reservations, aborted, oversize, limiters>>

\* The provider's limiter granted its unit, at once or after a wait.
TakeLane(r) ==
    /\ Turn(r)
    /\ pc[r] = "lane"
    /\ \/ L!AcquireNow(r, Provider(r), 1)
       \/ L!WakeGranted(<<r, Provider(r), 1>>)
    /\ reservations' = [reservations EXCEPT ![r] = @ \cup {Provider(r)}]
    /\ call' = [call EXCEPT ![r][Provider(r)] = "admitted"]
    /\ at' = [at EXCEPT ![r] = @ + 1]
    /\ pc' = [pc EXCEPT ![r] = "admit"]
    /\ UNCHANGED <<result, answers, scopes, aborted, oversize, breaker>>

RefuseLane(r) ==
    /\ Turn(r)
    /\ pc[r] = "lane"
    /\ \/ L!WakeRefused(<<r, Provider(r), 1>>)
       \/ L!TimeoutFires(<<r, Provider(r), 1>>)
    /\ Reject(r)
    /\ UNCHANGED breaker

\* Every plugin was considered; the global limiter is asked for one unit for
\* each that is left, none at all if none is.
Considered(r) ==
    /\ Turn(r)
    /\ pc[r] = "admit"
    /\ at[r] > Len(Plan[r])
    /\ pc' = [pc EXCEPT ![r] = IF Runnable(r) = {} THEN "record" ELSE "global"]
    /\ UNCHANGED <<outcome, owned, aborted, oversize, breaker, limiters>>

\* With its units in hand the request creates its tasks and waits for them.
TakeGlobal(r) ==
    /\ Turn(r)
    /\ pc[r] = "global"
    /\ \/ L!AcquireNow(r, "global", WorkUnits(r))
       \/ L!WakeGranted(<<r, "global", WorkUnits(r)>>)
    /\ reservations' = [reservations EXCEPT ![r] = @ \cup {"global"}]
    /\ call' = [call EXCEPT ![r] =
                   [p \in Providers |-> IF @[p] = "admitted" THEN "queued" ELSE @[p]]]
    /\ pc' = [pc EXCEPT ![r] = "calls"]
    /\ UNCHANGED <<at, result, answers, scopes, aborted, oversize, breaker>>

\* AdmissionRejectedError: more units than there are, or none in time.
Overloaded(r) ==
    /\ Turn(r)
    /\ pc[r] = "global"
    /\ \/ WorkUnits(r) > GlobalCapacity /\ UNCHANGED limiters
       \/ L!WakeRefused(<<r, "global", WorkUnits(r)>>)
       \/ L!TimeoutFires(<<r, "global", WorkUnits(r)>>)
    /\ Raise(r)
    /\ UNCHANGED breaker

\* What the request wants of a limiter.
Wanted(r) ==
    IF pc[r] = "global" THEN <<r, "global", WorkUnits(r)>> ELSE <<r, Provider(r), 1>>

Wait(r) ==
    /\ Turn(r)
    /\ pc[r] \in {"lane", "global"}
    /\ L!Sleep(r, Wanted(r)[2], Wanted(r)[3])
    /\ UNCHANGED <<runner, breaker>>

WaitOn(r) ==
    /\ LoopFree
    /\ pc[r] \in {"lane", "global"}
    /\ L!WakeAgain(Wanted(r))
    /\ UNCHANGED <<runner, breaker>>

\* Mutant: admission waits without a timeout.
WaitForever(r) == FALSE /\ UNCHANGED vars

WaitExpires(r) == L!Deadline(r) /\ UNCHANGED <<runner, breaker>>

\* The request is cancelled while it waits for a limiter.
CancelWait(r) ==
    /\ LoopFree
    /\ pc[r] \in {"lane", "global"}
    /\ L!Cancel(Wanted(r))
    /\ Raise(r)
    /\ UNCHANGED breaker

-----------------------------------------------------------------------------
(* The provider tasks, one per runnable provider.                          *)

\* The fan-out semaphore lets a task call its plugin.
StartCall(r, p) ==
    /\ LoopFree
    /\ call[r][p] = "queued"
    /\ Cardinality({q \in Providers : call[r][q] = "running"}) < FanoutLimit
    /\ call' = [call EXCEPT ![r][p] = "running"]
    /\ UNCHANGED <<pc, at, result, answers, owned, aborted, oversize, breaker, limiters>>

\* The plugin answers or fails; its task ends with a result, or with an exception
\* if even the result of a failure cannot be built.
EndCall(r, p) ==
    /\ LoopFree
    /\ call[r][p] = "running"
    /\ call' = [call EXCEPT ![r][p] = "done"]
    /\ \/ r \notin oversize /\ \E res \in Answers : result' = [result EXCEPT ![r][p] = res]
       \/ r \in oversize /\ UNCHANGED result
    /\ UNCHANGED <<pc, at, answers, owned, aborted, oversize, breaker, limiters>>

\* A cancelled task gets to the end of its clean-up.
EndCancelled(r, p) ==
    /\ LoopFree
    /\ call[r][p] = "stopping"
    /\ call' = [call EXCEPT ![r][p] = "done"]
    /\ UNCHANGED <<pc, at, result, answers, owned, aborted, oversize, breaker, limiters>>

-----------------------------------------------------------------------------
(* _wait_for_results.                                                      *)

\* Mutant: cancelled tasks are not gathered.
StopWithoutReaping(r, phase) ==
    /\ call' = [call EXCEPT ![r] =
                   [p \in Providers |-> IF p \in Unfinished(r) THEN "stopping" ELSE @[p]]]
    /\ pc' = [pc EXCEPT ![r] = "record"]

\* Mutant: tasks still queued behind the semaphore are not cancelled.
StopRunningOnly(r, phase) ==
    /\ call' = [call EXCEPT ![r] =
                   [p \in Providers |-> IF @[p] = "running" THEN "stopping" ELSE @[p]]]
    /\ pc' = [pc EXCEPT ![r] = phase]

\* Cancel the tasks that are not done, then gather them.
StopCalls(r, phase) ==
    /\ call' = [call EXCEPT ![r] =
                   [p \in Providers |-> IF p \in Unfinished(r) THEN "stopping" ELSE @[p]]]
    /\ pc' = [pc EXCEPT ![r] = phase]

\* asyncio.wait returns, every task being done.  A task that raised has a result
\* made up for it, which raises again.
AllDone(r) ==
    /\ LoopFree
    /\ pc[r] = "calls"
    /\ Unfinished(r) = {}
    /\ \/ /\ r \notin oversize
          /\ pc' = [pc EXCEPT ![r] = "record"]
          /\ UNCHANGED <<outcome, owned, aborted, oversize>>
       \/ r \in oversize /\ Raise(r)
    /\ UNCHANGED <<breaker, limiters>>

\* asyncio.wait returns at the deadline with tasks pending.  If the first result
\* cannot be built it is left to finally to cancel and gather the rest.
DeadlinePasses(r) ==
    /\ LoopFree
    /\ pc[r] = "calls"
    /\ Unfinished(r) # {}
    /\ \/ /\ r \notin oversize
          /\ StopCalls(r, "reap")
          /\ UNCHANGED aborted
       \/ /\ r \in oversize
          /\ StopCalls(r, "drain")
          /\ aborted' = [aborted EXCEPT ![r] = TRUE]
    /\ UNCHANGED <<at, result, answers, owned, oversize, breaker, limiters>>

\* The request is cancelled while its tasks run.
CancelCalls(r) ==
    /\ LoopFree
    /\ pc[r] = "calls"
    /\ StopCalls(r, "reap")
    /\ aborted' = [aborted EXCEPT ![r] = TRUE]
    /\ UNCHANGED <<at, result, answers, owned, oversize, breaker, limiters>>

\* A cancellation while gather waits: gather ends no sooner for it.
CancelReap(r) ==
    /\ LoopFree
    /\ pc[r] = "reap"
    /\ ~aborted[r]
    /\ aborted' = [aborted EXCEPT ![r] = TRUE]
    /\ UNCHANGED <<pc, outcome, owned, oversize, breaker, limiters>>

Stopped(r) == \A p \in Providers : call[r][p] # "stopping"

Reaped(r) ==
    /\ LoopFree
    /\ pc[r] = "reap"
    /\ Stopped(r)
    /\ pc' = [pc EXCEPT ![r] = IF aborted[r] THEN "unwind" ELSE "record"]
    /\ UNCHANGED <<outcome, owned, aborted, oversize, breaker, limiters>>

-----------------------------------------------------------------------------
(* Results and the finally block.                                          *)

\* The gather at the head of finally ends with the tasks it waits for.
Drained(r) ==
    /\ LoopFree
    /\ pc[r] = "drain"
    /\ Stopped(r)
    /\ pc' = [pc EXCEPT ![r] = "unwind"]
    /\ UNCHANGED <<outcome, owned, aborted, oversize, breaker, limiters>>

\* Cancelled there, the request ends with its tasks too, but what is left of
\* finally is skipped: nothing it owns is given back, then or later.
CancelDrain(r) ==
    /\ LoopFree
    /\ pc[r] = "drain"
    /\ pc' = [pc EXCEPT ![r] = "lost"]
    /\ UNCHANGED <<outcome, owned, aborted, oversize, breaker, limiters>>

Record(r, p) ==
    /\ Turn(r)
    /\ pc[r] = "record"
    /\ call[r][p] = "done"
    /\ C!RecordResult(<<r, p>>, result[r][p])
    /\ call' = [call EXCEPT ![r][p] = "recorded"]
    /\ answers' = [answers EXCEPT ![r][p] = @ + 1]
    /\ scopes' = [scopes EXCEPT ![r] = @ \ {p}]
    /\ UNCHANGED <<pc, at, result, reservations, aborted, oversize, limiters>>

Recorded(r) ==
    /\ Turn(r)
    /\ pc[r] = "record"
    /\ \A p \in Providers : call[r][p] # "done"
    /\ pc' = [pc EXCEPT ![r] = "unwind"]
    /\ UNCHANGED <<outcome, owned, aborted, oversize, breaker, limiters>>

\* Scopes that were admitted and have no result recorded.
ReleaseProbe(r, p) ==
    /\ Turn(r)
    /\ pc[r] = "unwind"
    /\ p \in scopes[r]
    /\ C!ReleaseProbe(<<r, p>>)
    /\ scopes' = [scopes EXCEPT ![r] = @ \ {p}]
    /\ UNCHANGED <<pc, outcome, reservations, aborted, oversize, limiters>>

\* _release_all
ReleaseUnits(r, l) ==
    /\ Turn(r)
    /\ pc[r] = "unwind"
    /\ scopes[r] = {}
    /\ l \in reservations[r]
    /\ L!Release(r, l)
    /\ reservations' = [reservations EXCEPT ![r] = @ \ {l}]
    /\ UNCHANGED <<pc, outcome, scopes, aborted, oversize, breaker>>

\* The results are returned or the exception is, and the slot is free again.
\* A task still alive would outlive its request.
End(r) ==
    /\ Turn(r)
    /\ pc[r] = "unwind"
    /\ scopes[r] = {}
    /\ reservations[r] = {}
    /\ pc' = [pc EXCEPT ![r] = "idle"]
    /\ at' = [at EXCEPT ![r] = 1]
    /\ call' = [call EXCEPT ![r] =
                   [p \in Providers |-> IF @[p] \in Alive THEN @[p] ELSE "unseen"]]
    /\ result' = [result EXCEPT ![r] = [p \in Providers |-> DeadlineResult]]
    /\ answers' = [answers EXCEPT ![r] = [p \in Providers |-> 0]]
    /\ aborted' = [aborted EXCEPT ![r] = FALSE]
    /\ oversize' = oversize \ {r}
    /\ UNCHANGED <<owned, breaker, limiters>>

-----------------------------------------------------------------------------
Tick == C!Tick /\ UNCHANGED <<runner, limiters>>

Init ==
    /\ C!Init
    /\ L!Init
    /\ pc = [r \in Requests |-> "idle"]
    /\ at = [r \in Requests |-> 1]
    /\ call = [r \in Requests |-> [p \in Providers |-> "unseen"]]
    /\ result = [r \in Requests |-> [p \in Providers |-> DeadlineResult]]
    /\ answers = [r \in Requests |-> [p \in Providers |-> 0]]
    /\ scopes = [r \in Requests |-> {}]
    /\ reservations = [r \in Requests |-> {}]
    /\ aborted = [r \in Requests |-> FALSE]
    /\ oversize = {}

\* What a request does by itself, its tasks and timers included.
Proceed(r) ==
    \/ RejectStatic(r) \/ RejectCircuit(r) \/ PassCircuit(r)
    \/ TakeLane(r) \/ RefuseLane(r) \/ Considered(r)
    \/ TakeGlobal(r) \/ Overloaded(r) \/ Wait(r) \/ WaitOn(r)
    \/ AllDone(r) \/ DeadlinePasses(r) \/ Reaped(r) \/ Drained(r) \/ Recorded(r) \/ End(r)
    \/ \E p \in Providers : Record(r, p) \/ ReleaseProbe(r, p)
    \/ \E l \in Limiters : ReleaseUnits(r, l)

TaskStep(r, p) == StartCall(r, p) \/ EndCall(r, p) \/ EndCancelled(r, p)

\* What happens to it at any time or never.
Disturb(r) ==
    Arrive(r) \/ CancelWait(r) \/ CancelCalls(r) \/ CancelReap(r) \/ CancelDrain(r)

Next ==
    \/ Tick
    \/ \E r \in Requests :
           \/ Proceed(r)
           \/ WaitExpires(r)
           \/ Disturb(r)
           \/ \E p \in Providers : TaskStep(r, p)

Spec == Init /\ [][Next]_vars

\* Timers fire, the event loop runs each ready callback in its turn, and a
\* cancelled provider task gets to the end of its clean-up.
Fairness ==
    \A r \in Requests :
        /\ WF_vars(WaitExpires(r))
        /\ SF_vars(Proceed(r) \/ \E p \in Providers : EndCancelled(r, p))
        /\ SF_vars(RefuseLane(r) \/ Overloaded(r))

FairSpec == Spec /\ Fairness

-----------------------------------------------------------------------------
(* Properties *)

Phases == {"idle", "admit", "lane", "global", "calls", "reap", "record", "drain", "unwind",
           "lost"}
Fates == {"unseen", "rejected", "admitted", "queued", "running", "stopping", "done",
          "recorded"}

\* The runner's own variables have their types.
TypeOK ==
    /\ pc \in [Requests -> Phases]
    /\ at \in [Requests -> Nat] /\ \A r \in Requests : at[r] \in 1..(Len(Plan[r]) + 1)
    /\ call \in [Requests -> [Providers -> Fates]]
    /\ result \in [Requests -> [Providers -> Answers \cup {DeadlineResult}]]
    /\ answers \in [Requests -> [Providers -> Nat]]
    /\ scopes \in [Requests -> SUBSET Providers]
    /\ reservations \in [Requests -> SUBSET Limiters]
    /\ aborted \in [Requests -> BOOLEAN]
    /\ oversize \subseteq Convertible

LiveTasks == {c \in Calls : call[c[1]][c[2]] \in Alive}

\* The provider tasks alive, those being cancelled included, never exceed the
\* units of their provider nor those of the whole service: no lane is given
\* back while a call made under it still runs.
UpstreamBounded ==
    /\ \A p \in Providers : Cardinality({c \in LiveTasks : c[2] = p}) <= LaneCapacity
    /\ Cardinality(LiveTasks) <= GlobalCapacity

\* A request whose clean-up a cancellation cut short keeps what it was admitted for.
Lost(s) == {r \in Requests : pc[r] = "lost" /\ GroupOf[r] = s[2] /\ s[1] \in scopes[r]}

\* A request that is over, whether it returned or raised or was cancelled, has no
\* task alive, holds no unit, waits for none and has no call in flight at the
\* breaker.  The one exception is a quote whose assets pass uint256 that is
\* cancelled while finally waits for its calls; it waits for nothing either.
NothingLeaks ==
    \A r \in Requests :
        /\ pc[r] = "idle" =>
              /\ ~L!Busy(r)
              /\ \A l \in Limiters : held[r][l] = 0
              /\ \A p \in Providers : since[<<r, p>>] = 0 /\ <<r, p>> \notin LiveTasks
        /\ pc[r] = "lost" => r \in oversize /\ ~L!Busy(r)

\* A half-open scope nobody is working on has all its probe slots free: no
\* rejection, deadline, cancellation or result that raises keeps one, but for
\* the slots of requests whose clean-up was cut short, one for each at most.
IdleScopesFree ==
    \A s \in Scopes :
        (\A r \in Requests : GroupOf[r] = s[2] => pc[r] \in {"idle", "lost"})
            => halfOpenInflight[s] <= Cardinality(Lost(s))

\* A request that returns does so with exactly one result for each plugin it
\* was given, whatever mix of rejections, answers and deadlines it met.
OneResultEach ==
    \A r \in Requests :
        pc[r] = "unwind" /\ ~aborted[r] =>
            \A p \in Providers : answers[r][p] = IF In(r, p) THEN 1 ELSE 0

\* A request whose clean-up is cut short ends with its tasks.
Ended(r) ==
    \/ pc[r] = "idle"
    \/ pc[r] = "lost" /\ Stopped(r)

\* Every request ends, although it holds lanes while it waits for others.
RequestsEnd == \A r \in Requests : pc[r] # "idle" ~> Ended(r)

=============================================================================
