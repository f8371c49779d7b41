--------------------------- MODULE HttpTransport ---------------------------
(***************************************************************************)
(* HttpClient of providers/clients/http.py: one provider's HTTP client,     *)
(* replaced when it is old, worn out, or out of connections, while requests *)
(* hold on to the one they started with.  With it, what providers/          *)
(* http_helpers.py makes of a pool timeout and what readiness reads.        *)
(*                                                                          *)
(* Clients are numbered in the order they are made.  Only a call of httpx   *)
(* and the sleep before a retired client is closed suspend: the recycle     *)
(* lock is never held across one of them, so it is not a variable.          *)
(***************************************************************************)
EXTENDS Integers, Sequences, FiniteSets

CONSTANTS
    Requests,              \* slots for requests that run at the same time
    Budget,                \* how long each may last: the deadline its caller cancels it at
    Attempts,              \* max_retries + 1
    Grace,                 \* largest of the client's own timeouts, and 100 ms
    ClientTTL,             \* client_ttl_s
    ClientMaxRequests,     \* client_max_requests
    PoolTimeoutThreshold,  \* recycle_pool_timeout_threshold
    RecycleWindow,         \* recycle_window_s
    MaxClients, MaxTime    \* bounds of the model

VARIABLES
    now,
    client,            \* the current client
    createdAt,         \* when it was made
    requestCount,      \* requests started on it
    poolTimeoutEvents, \* when a request last found no connection
    lastReason,        \* of the last recycle, "none" before the first
    lastRecycleAt,
    closeAt,           \* when the task of a retired client wakes up, 0 without one
    closed,            \* clients that are closed
    using,             \* the client of each request under way, 0 when idle
    attempt,           \* the attempt it is at
    startedAt,         \* when it started
    phase,             \* "up", "closing" while close() gathers, "down"
    evidence,          \* history: pool timeouts since the last recycle for them
    lastTimeout        \* history: when the last pool timeout was

transport == <<client, createdAt, lastReason, lastRecycleAt, closeAt>>
requests == <<using, attempt, startedAt>>
vars == <<now, transport, requestCount, poolTimeoutEvents, closed, requests, phase, evidence, lastTimeout>>

Clients == 1..MaxClients

ASSUME TransportAssumption ==
    /\ Budget \in [Requests -> Nat \ {0}]
    /\ {Attempts, Grace, ClientTTL, ClientMaxRequests,
        PoolTimeoutThreshold, RecycleWindow, MaxClients, MaxTime} \subseteq Nat \ {0}

-----------------------------------------------------------------------------
Running(r) == using[r] # 0
OutOfTime(r) == now >= startedAt[r] + Budget[r]
Retiring == {c \in Clients : closeAt[c] # 0 /\ c \notin closed}

\* The deque without the events at its head that are older than the window.
Pruned(times) ==
    LET stale == {i \in DOMAIN times : \A j \in 1..i : times[j] < now - RecycleWindow}
    IN  SubSeq(times, Cardinality(stale) + 1, Len(times))

\* How many of the times are inside the window.
Recent(times) == Cardinality({i \in DOMAIN times : times[i] >= now - RecycleWindow})

\* Mutant: events that nobody has pruned since are counted.
AllPoolTimeouts == Len(poolTimeoutEvents)

RecentPoolTimeoutCount == Recent(poolTimeoutEvents)

RecentlyRecycled(reason) ==
    /\ lastReason = reason
    /\ now - lastRecycleAt <= RecycleWindow

\* What readiness asks of the transports.
TransportUnhealthy == RecentPoolTimeoutCount > 0 \/ RecentlyRecycled("pool_timeout")

\* Mutant: one request too many.
WornOutLate ==
    IF now - createdAt >= ClientTTL THEN "ttl"
    ELSE IF requestCount > ClientMaxRequests THEN "max_requests" ELSE "none"

\* Why the client has to be replaced before it serves another request.
WornOut ==
    IF now - createdAt >= ClientTTL THEN "ttl"
    ELSE IF requestCount >= ClientMaxRequests THEN "max_requests" ELSE "none"

\* Mutants: the old client is closed on the spot, or a grace after it was made.
ReplaceAndClose(reason) ==
    /\ client < MaxClients
    /\ client' = client + 1
    /\ createdAt' = now
    /\ lastReason' = reason
    /\ lastRecycleAt' = now
    /\ closeAt' = [closeAt EXCEPT ![client] = now]
ReplaceByAge(reason) ==
    /\ client < MaxClients
    /\ client' = client + 1
    /\ createdAt' = now
    /\ lastReason' = reason
    /\ lastRecycleAt' = now
    /\ closeAt' = [closeAt EXCEPT ![client] = createdAt + Grace]

\* A new client takes the place of the current one, which a task closes later.
ReplaceClient(reason) ==
    /\ client < MaxClients
    /\ client' = client + 1
    /\ createdAt' = now
    /\ lastReason' = reason
    /\ lastRecycleAt' = now
    /\ closeAt' = [closeAt EXCEPT ![client] = now + Grace]

-----------------------------------------------------------------------------
\* A request starts: the client is replaced if it is worn out, and the request
\* keeps the one it finds then.
Begin(r) ==
    /\ phase = "up"
    /\ ~Running(r)
    /\ \/ /\ WornOut = "none"
          /\ requestCount' = requestCount + 1
          /\ UNCHANGED transport
       \/ /\ WornOut # "none"
          /\ ReplaceClient(WornOut)
          /\ requestCount' = 1
    /\ using' = [using EXCEPT ![r] = client']
    /\ attempt' = [attempt EXCEPT ![r] = 1]
    /\ startedAt' = [startedAt EXCEPT ![r] = now]
    /\ UNCHANGED <<now, poolTimeoutEvents, closed, phase, evidence, lastTimeout>>

\* A read or connect timeout or a failed connect leads to another attempt, on
\* the same client.  On a closed one httpx raises an error that is not retried.
Retry(r) ==
    /\ Running(r)
    /\ attempt[r] < Attempts
    /\ using[r] \notin closed
    /\ attempt' = [attempt EXCEPT ![r] = @ + 1]
    /\ UNCHANGED <<now, transport, requestCount, poolTimeoutEvents, closed,
                   using, startedAt, phase, evidence, lastTimeout>>

\* A response, the error of the last attempt or one that is not retried, or the
\* caller's cancellation.
Finish(r) ==
    /\ Running(r)
    /\ using' = [using EXCEPT ![r] = 0]
    /\ attempt' = [attempt EXCEPT ![r] = 0]
    /\ startedAt' = [startedAt EXCEPT ![r] = 0]
    /\ UNCHANGED <<now, transport, requestCount, poolTimeoutEvents, closed, phase, evidence, lastTimeout>>

\* Mutants: events are kept after the recycle they led to, or never pruned.
RecordWithoutClear ==
    LET events == Pruned(Append(poolTimeoutEvents, now)) IN
    /\ poolTimeoutEvents' = events
    /\ IF Len(events) >= PoolTimeoutThreshold
       THEN /\ evidence' = <<>>
            /\ requestCount' = 0
            /\ ReplaceClient("pool_timeout")
       ELSE /\ evidence' = Append(evidence, now)
            /\ UNCHANGED <<transport, requestCount>>
RecordWithoutPruning ==
    LET events == Append(poolTimeoutEvents, now) IN
    IF Len(events) >= PoolTimeoutThreshold
    THEN /\ poolTimeoutEvents' = <<>>
         /\ evidence' = <<>>
         /\ requestCount' = 0
         /\ ReplaceClient("pool_timeout")
    ELSE /\ poolTimeoutEvents' = events
         /\ evidence' = Append(evidence, now)
         /\ UNCHANGED <<transport, requestCount>>

\* record_pool_timeout: enough of them inside the window replace the client.
RecordPoolTimeout ==
    LET events == Pruned(Append(poolTimeoutEvents, now)) IN
    IF Len(events) >= PoolTimeoutThreshold
    THEN /\ poolTimeoutEvents' = <<>>
         /\ evidence' = <<>>
         /\ requestCount' = 0
         /\ ReplaceClient("pool_timeout")
    ELSE /\ poolTimeoutEvents' = events
         /\ evidence' = Append(evidence, now)
         /\ UNCHANGED <<transport, requestCount>>

\* The request gets no connection from its client's pool; this is not retried.
\* It may be a client that has been replaced since.
PoolTimeout(r) ==
    /\ Running(r)
    /\ using' = [using EXCEPT ![r] = 0]
    /\ attempt' = [attempt EXCEPT ![r] = 0]
    /\ startedAt' = [startedAt EXCEPT ![r] = 0]
    /\ RecordPoolTimeout
    /\ lastTimeout' = now
    /\ UNCHANGED <<now, closed, phase>>

\* Readiness finds too many sockets in CLOSE-WAIT.
RecycleCloseWait ==
    /\ phase = "up"
    /\ ~RecentlyRecycled("close_wait")
    /\ ReplaceClient("close_wait")
    /\ requestCount' = 0
    /\ UNCHANGED <<now, poolTimeoutEvents, closed, requests, phase, evidence, lastTimeout>>

\* _close_after_grace: its sleep may end late, but not early.
CloseRetired(c) ==
    /\ c \in Retiring
    /\ now >= closeAt[c]
    /\ closed' = closed \cup {c}
    /\ UNCHANGED <<now, transport, requestCount, poolTimeoutEvents, requests, phase, evidence, lastTimeout>>

\* close() is called when the server has no request left, gathers the tasks of
\* the retired clients, and closes the current one.
Shutdown ==
    /\ phase = "up"
    /\ \A r \in Requests : ~Running(r)
    /\ phase' = "closing"
    /\ UNCHANGED <<now, transport, requestCount, poolTimeoutEvents, closed, requests, evidence, lastTimeout>>

CloseCurrent ==
    /\ phase = "closing"
    /\ Retiring = {}
    /\ closed' = closed \cup {client}
    /\ phase' = "down"
    /\ UNCHANGED <<now, transport, requestCount, poolTimeoutEvents, requests, evidence, lastTimeout>>

\* The caller of a request that is out of time cancels it before time goes on.
Tick ==
    /\ now < MaxTime
    /\ \A r \in Requests : Running(r) => ~OutOfTime(r)
    /\ now' = now + 1
    /\ UNCHANGED <<transport, requestCount, poolTimeoutEvents, closed, requests, phase, evidence, lastTimeout>>

Init ==
    /\ now = 1
    /\ client = 1
    /\ createdAt = 1
    /\ requestCount = 0
    /\ poolTimeoutEvents = <<>>
    /\ lastReason = "none"
    /\ lastRecycleAt = 0
    /\ closeAt = [c \in Clients |-> 0]
    /\ closed = {}
    /\ using = [r \in Requests |-> 0]
    /\ attempt = [r \in Requests |-> 0]
    /\ startedAt = [r \in Requests |-> 0]
    /\ phase = "up"
    /\ evidence = <<>>
    /\ lastTimeout = 0

Next ==
    \/ \E r \in Requests : Begin(r) \/ Retry(r) \/ Finish(r) \/ PoolTimeout(r)
    \/ RecycleCloseWait
    \/ \E c \in Clients : CloseRetired(c)
    \/ Shutdown
    \/ CloseCurrent
    \/ Tick

Spec == Init /\ [][Next]_vars

-----------------------------------------------------------------------------
\* Types; no client serves more requests than it may.
TypeOK ==
    /\ now \in Nat
    /\ client \in Clients
    /\ createdAt \in 1..now
    /\ requestCount \in 0..ClientMaxRequests
    /\ poolTimeoutEvents \in Seq(1..now)
    /\ lastReason \in {"none", "ttl", "max_requests", "pool_timeout", "close_wait"}
    /\ lastRecycleAt \in 0..now
    /\ closeAt \in [Clients -> Nat]
    /\ closed \subseteq Clients
    /\ using \in [Requests -> {0} \cup Clients]
    /\ attempt \in [Requests -> 0..Attempts]
    /\ startedAt \in [Requests -> 0..now]
    /\ phase \in {"up", "closing", "down"}
    /\ evidence \in Seq(1..now)
    /\ lastTimeout \in 0..now

\* The client of a request is not closed before the request's time is up, over
\* all its attempts and whatever replaced the client meanwhile, as long as the
\* deadline is within the grace (a price with the default timeout); and the
\* current client is open until shutdown.
CallsKeepClient ==
    /\ \A r \in Requests :
           Running(r) /\ Budget[r] <= Grace /\ using[r] \in closed => OutOfTime(r)
    /\ client \in closed => phase = "down"

\* Pool timeouts replace the client exactly when enough of them, counted since
\* the last time they did, are inside the window.
RecycledOnEvidence ==
    [][ /\ client' # client /\ lastReason' = "pool_timeout"
               => Recent(evidence) + 1 >= PoolTimeoutThreshold
        /\ Len(evidence') > Len(evidence) => Recent(evidence)' < PoolTimeoutThreshold ]_vars

\* Readiness gives the transport up for a pool timeout inside the window, counted
\* or acted on, unless a recycle for another reason came after it; and it recovers
\* by itself, even when no request comes along to prune the events.
ReadinessTracksTimeouts ==
    LET recent == lastTimeout # 0 /\ lastTimeout >= now - RecycleWindow IN
    /\ TransportUnhealthy => recent
    /\ recent => \/ TransportUnhealthy
                 \/ lastReason # "pool_timeout" /\ lastRecycleAt >= lastTimeout
=============================================================================
