------------------------------ MODULE ApiKeys ------------------------------
(***************************************************************************)
(* Who may call the service, and how often: the middleware of app/main.py,  *)
(* the key store of security/store.py in SQLite, shared by every server     *)
(* process and by the operators' commands of tools/api_key.py, and the      *)
(* in-memory limiter of security/anon_limiter.py, one per server process.   *)
(*                                                                          *)
(* A request runs its two store calls in threads.  A statement that runs in *)
(* a transaction of its own is a step; the lock of a store object keeps     *)
(* threads of one process apart, nothing but SQLite does so for processes.  *)
(* The clock is the wall clock, which may be set back.                      *)
(***************************************************************************)
EXTENDS Integers, FiniteSets

CONSTANTS
    Requests,         \* slots for requests that run at the same time
    Servers, ServerOf,\* server processes, and the one each request came to
    Clients, ClientOf,\* client addresses, and that of each request
    Operators,        \* slots for commands that run at the same time
    Keys,             \* public ids of keys
    Expiries,         \* what expires_at of a row may hold, 0 for NULL
    Limits,           \* overrides an operator may set
    DefaultLimit,     \* api_key_rate_limit_rpm
    Window,           \* _DEFAULT_RATE_WINDOW_SECONDS
    Retention,        \* _RATE_LIMIT_RETENTION_WINDOWS
    CleanupInterval,  \* _RATE_LIMIT_CLEANUP_INTERVAL_SECONDS
    UnauthAccess,     \* api_key_unauth_access_enabled in each server's settings
    AnonInterval,     \* api_key_unauth_min_interval_seconds
    AnonRetention,    \* _RETENTION_SECONDS
    AnonCleanupInterval, \* _CLEANUP_INTERVAL_SECONDS of the limiter
    MaxStall,         \* how long a thread may wait for the lock and for SQLite
    MaxStep,          \* how far behind its latest value the clock may be set
    MaxCount, MaxTime \* bounds of the model

VARIABLES
    now, latest,   \* the wall clock, and the latest time it ever showed
    row,           \* rows of api_keys
    count,         \* rows of api_key_rate_windows, 0 for none
    nextCleanup,   \* _next_rate_window_cleanup_ts of each server's store
    anon,          \* _windows of each server's limiter
    nextAnonCleanup,
    pc,            \* where each request is in the middleware
    credential,    \* the key it presented, "invalid" for any other string
    stamp,         \* the time it read last
    limit,         \* the limit it read from its row
    deleting,      \* the key each delete command found active, "none" without one
    \* history
    entitled,      \* when it arrived it carried no header at all, or a key
                   \* that was neither revoked nor expired
    granted,       \* requests let through, by key and window
    topLimit,      \* largest limit in force for a key so far
    anonGranted    \* the same without key, since a restart or a step of the clock

store == <<row, count, nextCleanup>>
limiter == <<anon, nextAnonCleanup>>
request == <<pc, credential, stamp, limit, entitled>>
grants == <<granted, topLimit, anonGranted>>
clock == <<now, latest>>
vars == <<clock, store, limiter, request, deleting, grants>>

ASSUME KeysAssumption ==
    /\ ServerOf \in [Requests -> Servers] /\ ClientOf \in [Requests -> Clients]
    /\ UnauthAccess \in [Servers -> BOOLEAN]
    /\ {DefaultLimit, Window, Retention, AnonInterval} \subseteq Nat \ {0}
    /\ Limits \subseteq Nat \ {0} /\ Expiries \subseteq Nat
    /\ "invalid" \notin Keys /\ "none" \notin Keys /\ "malformed" \notin Keys
    /\ {MaxStall, MaxStep, MaxCount, AnonRetention, CleanupInterval, AnonCleanupInterval} \subseteq Nat
    /\ MaxTime \in Nat \ {0}
    /\ MaxStall <= Retention * Window /\ MaxStep <= Retention * Window

Times == 0..MaxTime
Larger(a, b) == IF a > b THEN a ELSE b
\* When a clean-up is due again; past the last time of the model it never is.
DueAfter(t, interval) == IF t + interval > MaxTime THEN MaxTime + 1 ELSE t + interval
\* Mutant: a window is named by its end.
WindowEnd(t, width) == t - (t % width) + width
WindowStart(t, width) == t - (t % width)

-----------------------------------------------------------------------------
(* Credentials.                                                            *)

Credentials == Keys \cup {"invalid"}

\* A Bearer credential wins over the other header; a header Authorization that
\* holds none is an error only when x-api-key does not hold one either.
Chosen(authorization, xApiKey) ==
    IF authorization \in Credentials THEN authorization ELSE xApiKey

\* Mutant: a malformed header is as good as none.
FailureIgnoringHeader(authorization) == "missing_authorization"

\* Why there is no credential at all.
HeaderFailure(authorization) ==
    IF authorization = "none" THEN "missing_authorization" ELSE "invalid_authorization"

\* Mutants: the time a key expires at is not looked at; nor is its revocation.
AdmitsExpired(r) ==
    /\ credential[r] \in Keys
    /\ row[credential[r]].issued
    /\ ~row[credential[r]].revoked
AdmitsRevoked(r) ==
    LET k == row[credential[r]] IN
    /\ credential[r] \in Keys
    /\ k.issued
    /\ k.expiresAt = 0 \/ stamp[r] < k.expiresAt

\* The row of the key the credential names admits it.
RowAdmits(r) ==
    /\ credential[r] \in Keys
    /\ LET k == row[credential[r]] IN
       /\ k.issued
       /\ ~k.revoked
       /\ k.expiresAt = 0 \/ stamp[r] < k.expiresAt

\* A thread of the same process is between two statements of the store.
StoreLocked(r) ==
    \E q \in Requests \ {r} : ServerOf[q] = ServerOf[r] /\ pc[q] = "touch"

-----------------------------------------------------------------------------
(* A request.                                                              *)

\* The headers are parsed and, with a credential, the authenticating thread
\* reads the clock.  Without one the failure decides at once, but for the
\* anonymous limiter.
Arrive(r, authorization, xApiKey) ==
    LET c == Chosen(authorization, xApiKey)
        anonymous == UnauthAccess[ServerOf[r]] /\ HeaderFailure(authorization) = "missing_authorization"
    IN
    /\ pc[r] = "idle"
    /\ c # "none" \/ anonymous
    /\ pc' = [pc EXCEPT ![r] = IF c = "none" THEN "anonymous" ELSE "select"]
    /\ credential' = [credential EXCEPT ![r] = IF c = "none" THEN "invalid" ELSE c]
    /\ stamp' = [stamp EXCEPT ![r] = IF c = "none" THEN 0 ELSE now]
    /\ entitled' = [entitled EXCEPT ![r] =
            \/ authorization = "none" /\ xApiKey = "none"
            \/ /\ c \in Keys
               /\ ~row[c].revoked
               /\ row[c].expiresAt = 0 \/ now < row[c].expiresAt]
    /\ UNCHANGED <<clock, store, limiter, limit, deleting, grants>>

\* The response is sent and the slot is free for another request.
Respond(r) ==
    /\ pc' = [pc EXCEPT ![r] = "idle"]
    /\ credential' = [credential EXCEPT ![r] = "invalid"]
    /\ stamp' = [stamp EXCEPT ![r] = 0]
    /\ limit' = [limit EXCEPT ![r] = 0]
    /\ entitled' = [entitled EXCEPT ![r] = FALSE]

\* authenticate_key reads the row and refuses it: 401.
Unauthorized(r) ==
    /\ pc[r] = "select"
    /\ ~StoreLocked(r)
    /\ ~RowAdmits(r)
    /\ Respond(r)
    /\ UNCHANGED <<clock, store, limiter, deleting, grants>>

\* It reads the row and accepts it, and keeps the lock.
Authenticate(r) ==
    /\ pc[r] = "select"
    /\ ~StoreLocked(r)
    /\ RowAdmits(r)
    /\ limit' = [limit EXCEPT ![r] = row[credential[r]].limit]
    /\ pc' = [pc EXCEPT ![r] = "touch"]
    /\ UNCHANGED <<clock, store, limiter, credential, stamp, entitled, deleting, grants>>

\* last_used_at is written, the lock is released, the result goes back to the
\* event loop, and the second thread reads the clock.
Touch(r) ==
    /\ pc[r] = "touch"
    /\ limit' = [limit EXCEPT ![r] = IF @ = 0 THEN DefaultLimit ELSE @]
    /\ stamp' = [stamp EXCEPT ![r] = now]
    /\ pc' = [pc EXCEPT ![r] = "consume"]
    /\ UNCHANGED <<clock, store, limiter, credential, entitled, deleting, grants>>

\* Mutant: whatever is older than the window of the request that cleans up goes.
CleanedAtOnce(counts, w) ==
    [k \in Keys |-> [v \in Times |-> IF v < w THEN 0 ELSE counts[k][v]]]

\* _cleanup_rate_windows_if_due, for the process of a request in window w.
Cleaned(counts, w) ==
    [k \in Keys |-> [v \in Times |-> IF v < w - Retention * Window THEN 0 ELSE counts[k][v]]]

\* Mutant: a row that is there is replaced.
CountedAnew(k, w) == [count EXCEPT ![k][w] = 1]

\* The count of the window after this request.
Counted(k, w) == [count EXCEPT ![k][w] = @ + 1]

\* consume_rate_limit: count the request, clean up if that is due, and let it
\* through (call_next) or refuse it with 429.
Consume(r) ==
    LET k == credential[r]
        w == WindowStart(stamp[r], Window)
        s == ServerOf[r]
        due == stamp[r] >= nextCleanup[s]
        allowed == Counted(k, w)[k][w] <= limit[r]
    IN
    /\ pc[r] = "consume"
    /\ ~StoreLocked(r)
    /\ count[k][w] < MaxCount
    /\ count' = IF due THEN Cleaned(Counted(k, w), w) ELSE Counted(k, w)
    /\ nextCleanup' = [nextCleanup EXCEPT ![s] =
            IF due THEN DueAfter(stamp[r], CleanupInterval) ELSE @]
    /\ granted' = [granted EXCEPT ![k][w] = IF allowed THEN @ + 1 ELSE @]
    /\ IF allowed
       THEN /\ pc' = [pc EXCEPT ![r] = "servedByKey"]
            /\ UNCHANGED <<credential, entitled>>
            /\ stamp' = [stamp EXCEPT ![r] = 0]
            /\ limit' = [limit EXCEPT ![r] = 0]
       ELSE Respond(r)
    /\ UNCHANGED <<clock, row, limiter, deleting, topLimit, anonGranted>>

\* SQLite stays locked past its timeout, or fails: nothing is written, the
\* request ends with an error.
StoreFails(r) ==
    /\ pc[r] \in {"select", "touch", "consume"}
    /\ Respond(r)
    /\ UNCHANGED <<clock, store, limiter, deleting, grants>>

\* Mutant: windows are kept for a fixed time, however long the interval is.
FixedRetention(windows) ==
    LET cutoff == now - AnonRetention IN
    [c \in Clients |->
        IF windows[c].start < cutoff THEN [start |-> 0, count |-> 0] ELSE windows[c]]

\* _cleanup of the limiter.
RemainingClients(windows) ==
    LET cutoff == now - Larger(AnonRetention, 3 * AnonInterval) IN
    [c \in Clients |->
        IF windows[c].start < cutoff THEN [start |-> 0, count |-> 0] ELSE windows[c]]

\* AnonymousRateLimiter.consume, on the event loop.
ConsumeAnonymous(r) ==
    LET s == ServerOf[r]
        c == ClientOf[r]
        w == WindowStart(now, AnonInterval)
        n == IF anon[s][c].count # 0 /\ anon[s][c].start = w THEN anon[s][c].count + 1 ELSE 1
        windows == [anon[s] EXCEPT ![c] = [start |-> w, count |-> n]]
        due == now >= nextAnonCleanup[s]
    IN
    /\ pc[r] = "anonymous"
    /\ n <= MaxCount
    /\ anon' = [anon EXCEPT ![s] = IF due THEN RemainingClients(windows) ELSE windows]
    /\ nextAnonCleanup' = [nextAnonCleanup EXCEPT ![s] =
            IF due THEN DueAfter(now, AnonCleanupInterval) ELSE @]
    /\ anonGranted' = [anonGranted EXCEPT ![s][c][w] = IF n <= 1 THEN @ + 1 ELSE @]
    /\ IF n <= 1
       THEN /\ pc' = [pc EXCEPT ![r] = "servedBare"]
            /\ UNCHANGED <<credential, stamp, limit, entitled>>
       ELSE Respond(r)
    /\ UNCHANGED <<clock, store, deleting, granted, topLimit>>

Leave(r) ==
    /\ pc[r] \in {"servedByKey", "servedBare"}
    /\ Respond(r)
    /\ UNCHANGED <<clock, store, limiter, deleting, grants>>

-----------------------------------------------------------------------------
(* Commands of the operators, each in a process of its own.                *)

Issue(k) ==
    /\ ~row[k].issued
    /\ row' = [row EXCEPT ![k].issued = TRUE]
    /\ UNCHANGED <<clock, count, nextCleanup, limiter, request, deleting, grants>>

\* One statement; revoked keys take a limit as well.
SetRateLimit(k, rpm) ==
    /\ row[k].issued
    /\ row' = [row EXCEPT ![k].limit = rpm]
    /\ topLimit' = [topLimit EXCEPT ![k] = Larger(@, rpm)]
    /\ UNCHANGED <<clock, count, nextCleanup, limiter, request, deleting, granted, anonGranted>>

\* delete_key reads the row; a key that is unknown or revoked ends it.
FindToDelete(o, k) ==
    /\ deleting[o] = "none"
    /\ row[k].issued
    /\ ~row[k].revoked
    /\ deleting' = [deleting EXCEPT ![o] = k]
    /\ UNCHANGED <<clock, store, limiter, request, grants>>

\* Then it writes the time of revocation; another one may have done so meanwhile.
Revoke(o) ==
    /\ deleting[o] # "none"
    /\ row' = [row EXCEPT ![deleting[o]].revoked = TRUE]
    /\ deleting' = [deleting EXCEPT ![o] = "none"]
    /\ UNCHANGED <<clock, count, nextCleanup, limiter, request, grants>>

-----------------------------------------------------------------------------
(* The environment.                                                        *)

NoWindows == [c \in Clients |-> [start |-> 0, count |-> 0]]
NoGrants == [c \in Clients |-> [w \in Times |-> 0]]

\* A server process ends with its requests and starts again; SQLite remains.
Restart(s) ==
    LET Hit(f, value) == [r \in Requests |-> IF ServerOf[r] = s THEN value ELSE f[r]] IN
    /\ pc' = Hit(pc, "idle")
    /\ credential' = Hit(credential, "invalid")
    /\ stamp' = Hit(stamp, 0)
    /\ limit' = Hit(limit, 0)
    /\ entitled' = Hit(entitled, FALSE)
    /\ nextCleanup' = [nextCleanup EXCEPT ![s] = 0]
    /\ anon' = [anon EXCEPT ![s] = NoWindows]
    /\ nextAnonCleanup' = [nextAnonCleanup EXCEPT ![s] = 0]
    /\ anonGranted' = [anonGranted EXCEPT ![s] = NoGrants]
    /\ UNCHANGED <<clock, row, count, deleting, granted, topLimit>>

\* Time goes on; a thread waits for the store no longer than MaxStall.
Tick ==
    /\ now < MaxTime
    /\ \A r \in Requests : pc[r] \in {"select", "consume"} => now + 1 - stamp[r] <= MaxStall
    /\ now' = now + 1
    /\ latest' = Larger(latest, now')
    /\ UNCHANGED <<store, limiter, request, deleting, grants>>

\* The clock is set back.
StepBack ==
    /\ now > 1
    /\ latest - (now - 1) <= MaxStep
    /\ now' = now - 1
    /\ anonGranted' = [s \in Servers |-> NoGrants]
    /\ UNCHANGED <<latest, store, limiter, request, deleting, granted, topLimit>>

Init ==
    /\ now = 1 /\ latest = 1
    /\ row \in [Keys -> {[issued |-> FALSE, revoked |-> FALSE, expiresAt |-> x, limit |-> 0] : x \in Expiries}]
    /\ count = [k \in Keys |-> [w \in Times |-> 0]]
    /\ nextCleanup = [s \in Servers |-> 0]
    /\ anon = [s \in Servers |-> NoWindows]
    /\ nextAnonCleanup = [s \in Servers |-> 0]
    /\ pc = [r \in Requests |-> "idle"]
    /\ credential = [r \in Requests |-> "invalid"]
    /\ stamp = [r \in Requests |-> 0]
    /\ limit = [r \in Requests |-> 0]
    /\ deleting = [o \in Operators |-> "none"]
    /\ entitled = [r \in Requests |-> FALSE]
    /\ granted = [k \in Keys |-> [w \in Times |-> 0]]
    /\ topLimit = [k \in Keys |-> DefaultLimit]
    /\ anonGranted = [s \in Servers |-> NoGrants]

Next ==
    \/ \E r \in Requests :
           \/ \E a \in Credentials \cup {"none", "malformed"}, x \in Credentials \cup {"none"} :
                  Arrive(r, a, x)
           \/ Unauthorized(r) \/ Authenticate(r) \/ Touch(r) \/ Consume(r) \/ StoreFails(r)
           \/ ConsumeAnonymous(r) \/ Leave(r)
    \/ \E k \in Keys :
           \/ Issue(k)
           \/ \E rpm \in Limits : SetRateLimit(k, rpm)
           \/ \E o \in Operators : FindToDelete(o, k)
    \/ \E o \in Operators : Revoke(o)
    \/ \E s \in Servers : Restart(s)
    \/ Tick
    \/ StepBack

Spec == Init /\ [][Next]_vars

-----------------------------------------------------------------------------
TypeOK ==
    /\ now \in 1..latest /\ latest \in 1..MaxTime
    /\ row \in [Keys -> [issued : BOOLEAN, revoked : BOOLEAN, expiresAt : Expiries,
                         limit : Limits \cup {0}]]
    /\ count \in [Keys -> [Times -> 0..MaxCount]]
    /\ nextCleanup \in [Servers -> 0..MaxTime + 1]
    /\ anon \in [Servers -> [Clients -> [start : Times, count : 0..MaxCount]]]
    /\ nextAnonCleanup \in [Servers -> 0..MaxTime + 1]
    /\ pc \in [Requests -> {"idle", "select", "touch", "consume", "anonymous",
                            "servedByKey", "servedBare"}]
    /\ credential \in [Requests -> Credentials]
    /\ stamp \in [Requests -> Times]
    /\ limit \in [Requests -> Limits \cup {0, DefaultLimit}]
    /\ deleting \in [Operators -> Keys \cup {"none"}]

\* A request is served only with a key neither revoked nor expired when it arrived,
\* whatever operators do meanwhile and however their commands overlap, or without
\* any credential where that is allowed: a key that is invalid, expired or was
\* revoked before is neither accepted nor treated as anonymous.
ServedRightly ==
    \A r \in Requests :
        /\ pc[r] \in {"servedByKey", "servedBare"} => entitled[r]
        /\ pc[r] = "servedBare" => UnauthAccess[ServerOf[r]]

\* In no window is a key let through more often than the largest limit it ever
\* had, with any number of processes counting and cleaning up, threads that are
\* late, restarts, and a clock that is set back.
QuotaHolds == \A k \in Keys, w \in Times : granted[k][w] <= topLimit[k]

\* A server lets a client without key through once in a window of its limiter.
AnonymousOncePerWindow ==
    \A s \in Servers, c \in Clients, w \in Times : anonGranted[s][c][w] <= 1
=============================================================================
