--------------------------- MODULE ApiKeysProofs ---------------------------
(* Proofs about ApiKeys, for every value of its constants: any number of    *)
(* servers, clients, keys, requests and operators.                          *)
EXTENDS ApiKeys, TLAPS

-----------------------------------------------------------------------------
(* Windows.                                                                *)

\* The window of a time holds it and starts at a multiple of its width.
LEMMA WindowOfTime ==
    ASSUME NEW t \in Nat, NEW width \in Nat \ {0}
    PROVE  /\ WindowStart(t, width) \in 0..t
           /\ t < WindowStart(t, width) + width
           /\ \E q \in Nat : WindowStart(t, width) = q * width
    <1>1. t % width \in 0..(width - 1)
        OBVIOUS
    <1>2. t \div width \in Int /\ t \div width >= 0
        OBVIOUS
    <1>3. t = (t \div width) * width + (t % width)
        OBVIOUS
    <1>4. (t \div width) * width = t - (t % width)
        BY <1>1, <1>3
    <1>5. (t \div width) * width >= 0
        BY <1>2
    <1>6. QED
        BY <1>1, <1>2, <1>4, <1>5 DEF WindowStart

\* Between two multiples of a width there is at least that width.
LEMMA MultiplesApart ==
    ASSUME NEW a \in Int, NEW b \in Int, NEW width \in Nat \ {0}, a * width < b * width
    PROVE  a * width + width <= b * width
    <1>1. a < b
        <2>1. SUFFICES ASSUME a >= b PROVE a * width >= b * width
            OBVIOUS
        <2>2. (a - b) * width >= 0
            BY <2>1
        <2>3. (a - b) * width = a * width - b * width
            OBVIOUS
        <2>4. QED
            BY <2>2, <2>3
    <1>2. (b - a - 1) * width >= 0
        BY <1>1
    <1>3. (b - a - 1) * width = b * width - a * width - width
        OBVIOUS
    <1>4. QED
        BY <1>2, <1>3

\* A time is in one window only.
LEMMA OneWindow ==
    ASSUME NEW t \in Nat, NEW width \in Nat \ {0}, NEW q \in Nat,
           q * width <= t, t < q * width + width
    PROVE  WindowStart(t, width) = q * width
    <1>1. PICK p \in Nat : WindowStart(t, width) = p * width
        BY WindowOfTime
    <1>2. p * width \in Nat /\ q * width \in Nat
        OBVIOUS
    <1>3. p * width <= t /\ t < p * width + width
        BY <1>1, WindowOfTime
    <1>4. ~(p * width < q * width) /\ ~(q * width < p * width)
        BY <1>2, <1>3, MultiplesApart
    <1>5. QED
        BY <1>1, <1>2, <1>4

\* The constants are numbers; SQLite keeps counts for Kept beyond their window.
Kept == Retention * Window

\* What the assumption on the constants says of numbers.
LEMMA Numbers ==
    /\ Window \in Nat \ {0} /\ AnonInterval \in Nat \ {0} /\ DefaultLimit \in Nat \ {0}
    /\ Retention \in Nat \ {0}
    /\ MaxStall \in Nat /\ MaxStep \in Nat /\ MaxCount \in Nat /\ AnonRetention \in Nat
    /\ CleanupInterval \in Nat /\ AnonCleanupInterval \in Nat /\ MaxTime \in Nat \ {0}
    /\ Limits \subseteq Nat \ {0} /\ Expiries \subseteq Nat
    /\ Kept \in Nat /\ MaxStall <= Kept /\ MaxStep <= Kept
    <1>1. /\ Window \in Nat \ {0} /\ AnonInterval \in Nat \ {0} /\ DefaultLimit \in Nat \ {0}
          /\ Retention \in Nat \ {0}
        BY KeysAssumption DEF KeysAssumption
    <1>2. Retention * Window \in Nat
        BY <1>1
    <1>3. QED
        BY <1>1, <1>2, KeysAssumption DEF KeysAssumption, Kept

\* A limit that is read is a number: an override, none, or the default.
LEMMA LimitsAreNumbers ==
    /\ \A x \in Limits \cup {0} : x \in Nat
    /\ \A x \in Limits \cup {0, DefaultLimit} : x \in Nat
    <1>1. \A x \in Limits : x \in Nat
        BY Numbers
    <1>2. 0 \in Nat /\ DefaultLimit \in Nat
        BY Numbers
    <1>3. QED
        BY <1>1, <1>2

-----------------------------------------------------------------------------
(* Types.                                                                  *)

ClockTyped == now \in 1..latest /\ latest \in 1..MaxTime
StoreTyped ==
    /\ row \in [Keys -> [issued : BOOLEAN, revoked : BOOLEAN, expiresAt : Expiries,
                         limit : Limits \cup {0}]]
    /\ count \in [Keys -> [Times -> 0..MaxCount]]
    /\ nextCleanup \in [Servers -> 0..MaxTime + 1]
LimiterTyped ==
    /\ anon \in [Servers -> [Clients -> [start : Times, count : 0..MaxCount]]]
    /\ nextAnonCleanup \in [Servers -> 0..MaxTime + 1]
Places == {"idle", "select", "touch", "consume", "anonymous", "servedByKey", "servedBare"}
RequestTyped ==
    /\ pc \in [Requests -> Places]
    /\ credential \in [Requests -> Credentials]
    /\ stamp \in [Requests -> Times]
    /\ limit \in [Requests -> Limits \cup {0, DefaultLimit}]
    /\ entitled \in [Requests -> BOOLEAN]
DeletingTyped == deleting \in [Operators -> Keys \cup {"none"}]
GrantsTyped ==
    /\ granted \in [Keys -> [Times -> Nat]]
    /\ topLimit \in [Keys -> Nat]
    /\ anonGranted \in [Servers -> [Clients -> [Times -> Nat]]]

Typed ==
    ClockTyped /\ StoreTyped /\ LimiterTyped /\ RequestTyped /\ DeletingTyped /\ GrantsTyped

\* Types hold before the first request.
LEMMA InitTyped == Init => Typed
    <1> SUFFICES ASSUME Init PROVE Typed
        OBVIOUS
    <1>1. 0 \in Times /\ 0 \in 0..MaxCount /\ 0 \in 0..MaxTime + 1 /\ 1 \in 1..MaxTime
        BY Numbers DEF Times
    <1>2. ClockTyped /\ DeletingTyped
        BY <1>1 DEF Init, ClockTyped, DeletingTyped
    <1>3. StoreTyped
        <2> DEFINE New == {[issued |-> FALSE, revoked |-> FALSE, expiresAt |-> x, limit |-> 0] : x \in Expiries}
                   All == [issued : BOOLEAN, revoked : BOOLEAN, expiresAt : Expiries, limit : Limits \cup {0}]
        <2>1. New \subseteq All
            <3>1. ASSUME NEW x \in Expiries
                  PROVE  [issued |-> FALSE, revoked |-> FALSE, expiresAt |-> x, limit |-> 0] \in All
                OBVIOUS
            <3>2. QED
                BY <3>1
        <2>1a. row \in [Keys -> New]
            BY DEF Init
        <2> HIDE DEF New, All
        <2>1b. row \in [Keys -> All]
            BY <2>1, <2>1a
        <2>2. row \in [Keys -> [issued : BOOLEAN, revoked : BOOLEAN, expiresAt : Expiries,
                               limit : Limits \cup {0}]]
            BY <2>1b DEF All
        <2>3. QED
            BY <1>1, <2>2 DEF Init, StoreTyped
    <1>4. LimiterTyped
        BY <1>1 DEF Init, LimiterTyped, NoWindows
    <1>5. RequestTyped
        BY <1>1 DEF Init, RequestTyped, Places, Credentials
    <1>6. GrantsTyped
        BY Numbers DEF Init, GrantsTyped, NoGrants
    <1>7. QED
        BY <1>2, <1>3, <1>4, <1>5, <1>6 DEF Typed

\* The response leaves a free slot.
LEMMA RespondTyped ==
    ASSUME Typed, NEW r \in Requests, Respond(r)
    PROVE  RequestTyped'
    <1>1. 0 \in Times
        BY Numbers DEF Times
    <1>2. QED
        BY <1>1 DEF Typed, RequestTyped, Respond, Places, Credentials

\* The next clean-up is at a time or never.
LEMMA DueAfterTyped ==
    ASSUME NEW t \in Times, NEW interval \in Nat
    PROVE  DueAfter(t, interval) \in 0..MaxTime + 1
    BY Numbers DEF DueAfter, Times

\* A window is one of the times.
LEMMA WindowTyped ==
    ASSUME NEW t \in Times, NEW width \in Nat \ {0}
    PROVE  WindowStart(t, width) \in Times
    <1>1. t \in Nat /\ t <= MaxTime
        BY Numbers DEF Times
    <1>2. QED
        BY <1>1, WindowOfTime, Numbers DEF Times

\* A request that arrives has a credential, a time and a place.
LEMMA ArriveTyped ==
    ASSUME Typed, NEW r \in Requests, NEW a \in Credentials \cup {"none", "malformed"},
           NEW x \in Credentials \cup {"none"}, Arrive(r, a, x)
    PROVE  Typed'
    <1> DEFINE c == Chosen(a, x)
    <1>1. c \in Credentials \cup {"none"}
        BY DEF Chosen
    <1>2. now \in Times /\ 0 \in Times
        BY Numbers DEF Typed, ClockTyped, Times
    <1>3. credential' \in [Requests -> Credentials]
        BY <1>1 DEF Arrive, Typed, RequestTyped, Credentials
    <1>4. stamp' \in [Requests -> Times]
        BY <1>2 DEF Arrive, Typed, RequestTyped
    <1>5. entitled' \in [Requests -> BOOLEAN]
        BY DEF Arrive, Typed, RequestTyped
    <1>6. pc' \in [Requests -> Places]
        BY DEF Arrive, Typed, RequestTyped, Places
    <1>7. QED
        BY <1>3, <1>4, <1>5, <1>6
        DEF Arrive, Typed, RequestTyped, clock, store, limiter, grants, ClockTyped, StoreTyped,
            LimiterTyped, DeletingTyped, GrantsTyped

\* Counting a request, with or without a clean-up, keeps the counts within their bound.
LEMMA ConsumeTyped ==
    ASSUME Typed, NEW r \in Requests, Consume(r), credential[r] \in Keys
    PROVE  Typed'
    <1> DEFINE k == credential[r]
               w == WindowStart(stamp[r], Window)
               s == ServerOf[r]
               due == stamp[r] >= nextCleanup[s]
    <1>1. k \in Keys /\ s \in Servers /\ stamp[r] \in Times /\ w \in Times
        BY WindowTyped, Numbers, KeysAssumption DEF Typed, RequestTyped, KeysAssumption
    <1>2. count[k][w] < MaxCount /\ count[k][w] \in 0..MaxCount
        BY <1>1 DEF Consume, Typed, StoreTyped
    <1> HIDE DEF k, w, s
    <1>3. Counted(k, w) \in [Keys -> [Times -> 0..MaxCount]]
        <2>1. count[k][w] + 1 \in 0..MaxCount
            BY <1>2, Numbers
        <2>2. [count[k] EXCEPT ![w] = count[k][w] + 1] \in [Times -> 0..MaxCount]
            BY <1>1, <2>1 DEF Typed, StoreTyped
        <2>3. QED
            BY <1>1, <2>2 DEF Counted, Typed, StoreTyped
    <1>4. Cleaned(Counted(k, w), w) \in [Keys -> [Times -> 0..MaxCount]]
        BY <1>3, Numbers DEF Cleaned
    <1>5. count' \in [Keys -> [Times -> 0..MaxCount]]
        BY <1>3, <1>4 DEF Consume, k, w
    <1>6. nextCleanup' \in [Servers -> 0..MaxTime + 1]
        <2>1. DueAfter(stamp[r], CleanupInterval) \in 0..MaxTime + 1
            BY <1>1, DueAfterTyped, Numbers
        <2>2. nextCleanup' = [nextCleanup EXCEPT ![s] =
                IF due THEN DueAfter(stamp[r], CleanupInterval) ELSE nextCleanup[s]]
            BY DEF Consume, s, Typed, StoreTyped
        <2>3. QED
            BY <1>1, <2>1, <2>2 DEF Typed, StoreTyped
    <1>7. granted' \in [Keys -> [Times -> Nat]]
        <2>1. granted[k] \in [Times -> Nat] /\ granted[k][w] + 1 \in Nat
            BY <1>1 DEF Typed, GrantsTyped
        <2>2. \/ granted' = [granted EXCEPT ![k] = [granted[k] EXCEPT ![w] = granted[k][w] + 1]]
              \/ granted' = [granted EXCEPT ![k] = [granted[k] EXCEPT ![w] = granted[k][w]]]
            BY DEF Consume, k, w, Typed, GrantsTyped
        <2>3. [granted[k] EXCEPT ![w] = granted[k][w] + 1] \in [Times -> Nat]
              /\ [granted[k] EXCEPT ![w] = granted[k][w]] \in [Times -> Nat]
            BY <1>1, <2>1
        <2>4. granted \in [Keys -> [Times -> Nat]]
            BY DEF Typed, GrantsTyped
        <2>5. QED
            BY <1>1, <2>2, <2>3, <2>4
    <1>8. RequestTyped'
        <2>1. CASE Respond(r)
            BY <2>1, RespondTyped
        <2>2. CASE ~Respond(r)
            <3>1. /\ pc' = [pc EXCEPT ![r] = "servedByKey"]
                  /\ UNCHANGED <<credential, entitled>>
                  /\ stamp' = [stamp EXCEPT ![r] = 0]
                  /\ limit' = [limit EXCEPT ![r] = 0]
                BY <2>2 DEF Consume
            <3>2. QED
                BY <3>1, Numbers DEF Typed, RequestTyped, Places, Times
        <2>3. QED
            BY <2>1, <2>2
    <1>9. UNCHANGED <<clock, row, limiter, deleting, topLimit, anonGranted>>
        BY DEF Consume
    <1>10. QED
        BY <1>5, <1>6, <1>7, <1>8, <1>9
        DEF Typed, clock, limiter, ClockTyped, StoreTyped, LimiterTyped, DeletingTyped, GrantsTyped

\* What a client's window becomes at a request without key.
LEMMA AnonymousCount ==
    ASSUME Typed, NEW r \in Requests, ConsumeAnonymous(r)
    PROVE  LET s == ServerOf[r]
               c == ClientOf[r]
               w == WindowStart(now, AnonInterval)
               n == IF anon[s][c].count # 0 /\ anon[s][c].start = w THEN anon[s][c].count + 1 ELSE 1
           IN  /\ s \in Servers /\ c \in Clients /\ now \in Times /\ w \in Times
               /\ n \in 1..MaxCount
               /\ [start |-> w, count |-> n] \in [start : Times, count : 0..MaxCount]
    <1> DEFINE s == ServerOf[r]
               c == ClientOf[r]
               w == WindowStart(now, AnonInterval)
               n == IF anon[s][c].count # 0 /\ anon[s][c].start = w THEN anon[s][c].count + 1 ELSE 1
    <1>1. s \in Servers /\ c \in Clients
        BY KeysAssumption DEF KeysAssumption
    <1>2. now \in Times
        BY Numbers DEF Typed, ClockTyped, Times
    <1>3. w \in Times
        BY <1>2, WindowTyped, Numbers
    <1>4. anon[s][c].count \in 0..MaxCount
        BY <1>1 DEF Typed, LimiterTyped
    <1>5. n <= MaxCount
        BY DEF ConsumeAnonymous
    <1>6. n \in 1..MaxCount
        BY <1>4, <1>5, Numbers
    <1> HIDE DEF s, c, w, n
    <1>7. [start |-> w, count |-> n] \in [start : Times, count : 0..MaxCount]
        BY <1>3, <1>6, Numbers
    <1>8. QED
        BY <1>1, <1>2, <1>3, <1>6, <1>7 DEF s, c, w, n
\* So does the limiter of requests without key.
LEMMA ConsumeAnonymousTyped ==
    ASSUME Typed, NEW r \in Requests, ConsumeAnonymous(r)
    PROVE  Typed'
    <1> DEFINE s == ServerOf[r]
               c == ClientOf[r]
               w == WindowStart(now, AnonInterval)
               n == IF anon[s][c].count # 0 /\ anon[s][c].start = w THEN anon[s][c].count + 1 ELSE 1
               windows == [anon[s] EXCEPT ![c] = [start |-> w, count |-> n]]
               due == now >= nextAnonCleanup[s]
    <1>1. /\ s \in Servers /\ c \in Clients /\ now \in Times /\ w \in Times
          /\ n \in 1..MaxCount
          /\ [start |-> w, count |-> n] \in [start : Times, count : 0..MaxCount]
        BY AnonymousCount
    <1>2. /\ anon' = [anon EXCEPT ![s] = IF due THEN RemainingClients(windows) ELSE windows]
          /\ nextAnonCleanup' = [nextAnonCleanup EXCEPT ![s] =
                IF due THEN DueAfter(now, AnonCleanupInterval) ELSE nextAnonCleanup[s]]
          /\ \/ anonGranted' = [anonGranted EXCEPT ![s] =
                    [anonGranted[s] EXCEPT ![c] = [anonGranted[s][c] EXCEPT ![w] = anonGranted[s][c][w] + 1]]]
             \/ anonGranted' = [anonGranted EXCEPT ![s] =
                    [anonGranted[s] EXCEPT ![c] = [anonGranted[s][c] EXCEPT ![w] = anonGranted[s][c][w]]]]
          /\ \/ pc' = [pc EXCEPT ![r] = "servedBare"] /\ UNCHANGED <<credential, stamp, limit, entitled>>
             \/ Respond(r)
          /\ UNCHANGED <<clock, store, deleting, granted, topLimit>>
        BY DEF ConsumeAnonymous, Typed, LimiterTyped, GrantsTyped
    <1> HIDE DEF s, c, w, n, due
    <1>3. windows \in [Clients -> [start : Times, count : 0..MaxCount]]
        BY <1>1 DEF Typed, LimiterTyped
    <1>4. RemainingClients(windows) \in [Clients -> [start : Times, count : 0..MaxCount]]
        <2>1. [start |-> 0, count |-> 0] \in [start : Times, count : 0..MaxCount]
            BY Numbers DEF Times
        <2> HIDE DEF windows
        <2>2. QED
            BY <1>3, <2>1 DEF RemainingClients
    <1> HIDE DEF windows
    <1>5. anon' \in [Servers -> [Clients -> [start : Times, count : 0..MaxCount]]]
        BY <1>1, <1>2, <1>3, <1>4 DEF Typed, LimiterTyped
    <1>6. nextAnonCleanup' \in [Servers -> 0..MaxTime + 1]
        <2>1. DueAfter(now, AnonCleanupInterval) \in 0..MaxTime + 1
            BY <1>1, DueAfterTyped, Numbers
        <2>2. QED
            BY <1>1, <1>2, <2>1 DEF Typed, LimiterTyped
    <1>7. anonGranted' \in [Servers -> [Clients -> [Times -> Nat]]]
        <2>1. anonGranted[s] \in [Clients -> [Times -> Nat]] /\ anonGranted[s][c] \in [Times -> Nat]
              /\ anonGranted[s][c][w] \in Nat
            BY <1>1 DEF Typed, GrantsTyped
        <2>2. \A m \in Nat : [anonGranted[s][c] EXCEPT ![w] = m] \in [Times -> Nat]
            BY <1>1, <2>1
        <2>3. \A m \in Nat : [anonGranted[s] EXCEPT ![c] = [anonGranted[s][c] EXCEPT ![w] = m]]
                                \in [Clients -> [Times -> Nat]]
            BY <1>1, <2>1, <2>2
        <2>4. anonGranted[s][c][w] + 1 \in Nat
            BY <2>1
        <2>5. \A m \in Nat : [anonGranted EXCEPT ![s] =
                                [anonGranted[s] EXCEPT ![c] = [anonGranted[s][c] EXCEPT ![w] = m]]]
                                \in [Servers -> [Clients -> [Times -> Nat]]]
            BY <1>1, <2>3 DEF Typed, GrantsTyped
        <2>6. QED
            BY <1>2, <2>1, <2>4, <2>5
    <1>8. RequestTyped'
        <2>1. CASE Respond(r)
            BY <2>1, RespondTyped
        <2>2. CASE pc' = [pc EXCEPT ![r] = "servedBare"] /\ UNCHANGED <<credential, stamp, limit, entitled>>
            BY <2>2 DEF Typed, RequestTyped, Places
        <2>3. QED
            BY <1>2, <2>1, <2>2
    <1>9. QED
        BY <1>2, <1>5, <1>6, <1>7, <1>8
        DEF Typed, clock, store, ClockTyped, StoreTyped, LimiterTyped, DeletingTyped, GrantsTyped

\* A server that starts again has empty slots and an empty limiter.
LEMMA RestartTyped ==
    ASSUME Typed, NEW s \in Servers, Restart(s)
    PROVE  Typed'
    <1>1. 0 \in Times /\ 0 \in 0..MaxCount /\ 0 \in 0..MaxTime + 1
        BY Numbers DEF Times
    <1>2. RequestTyped'
        BY <1>1 DEF Restart, Typed, RequestTyped, Places, Credentials
    <1>3. NoWindows \in [Clients -> [start : Times, count : 0..MaxCount]]
        BY <1>1 DEF NoWindows
    <1>4. NoGrants \in [Clients -> [Times -> Nat]]
        BY DEF NoGrants
    <1>5. nextCleanup' \in [Servers -> 0..MaxTime + 1] /\ nextAnonCleanup' \in [Servers -> 0..MaxTime + 1]
        BY <1>1 DEF Restart, Typed, StoreTyped, LimiterTyped
    <1>6. anon' \in [Servers -> [Clients -> [start : Times, count : 0..MaxCount]]]
        BY <1>3 DEF Restart, Typed, LimiterTyped
    <1>7. anonGranted' \in [Servers -> [Clients -> [Times -> Nat]]]
        BY <1>4 DEF Restart, Typed, GrantsTyped
    <1>8. QED
        BY <1>2, <1>5, <1>6, <1>7
        DEF Restart, Typed, clock, ClockTyped, StoreTyped, LimiterTyped, DeletingTyped, GrantsTyped

\* The clock stays within its bounds.
LEMMA ClockKeepsTyped ==
    ASSUME Typed, Tick \/ StepBack
    PROVE  Typed'
    <1>1. ClockTyped'
        BY Numbers DEF Tick, StepBack, Typed, ClockTyped, Larger
    <1>2. anonGranted' \in [Servers -> [Clients -> [Times -> Nat]]]
        BY DEF Tick, StepBack, Typed, GrantsTyped, grants, NoGrants
    <1>3. QED
        BY <1>1, <1>2
        DEF Tick, StepBack, Typed, store, limiter, request, grants, StoreTyped, LimiterTyped,
            RequestTyped, DeletingTyped, GrantsTyped

\* Commands of the operators.
LEMMA OperatorsKeepTyped ==
    ASSUME Typed,
           \/ \E k \in Keys :
                  \/ Issue(k)
                  \/ \E rpm \in Limits : SetRateLimit(k, rpm)
                  \/ \E o \in Operators : FindToDelete(o, k)
           \/ \E o \in Operators : Revoke(o)
    PROVE  Typed'
    <1>1. ASSUME NEW k \in Keys, Issue(k)
          PROVE  Typed'
        <2>1. row' \in [Keys -> [issued : BOOLEAN, revoked : BOOLEAN, expiresAt : Expiries,
                                 limit : Limits \cup {0}]]
            BY <1>1 DEF Issue, Typed, StoreTyped
        <2>2. QED
            BY <1>1, <2>1 DEF Issue, Typed, clock, limiter, request, grants, ClockTyped, StoreTyped,
                LimiterTyped, RequestTyped, DeletingTyped, GrantsTyped
    <1>2. ASSUME NEW k \in Keys, NEW rpm \in Limits, SetRateLimit(k, rpm)
          PROVE  Typed'
        <2>1. row' \in [Keys -> [issued : BOOLEAN, revoked : BOOLEAN, expiresAt : Expiries,
                                 limit : Limits \cup {0}]]
            BY <1>2 DEF SetRateLimit, Typed, StoreTyped
        <2>2. Larger(topLimit[k], rpm) \in Nat
            BY Numbers DEF Larger, Typed, GrantsTyped
        <2>3. topLimit' \in [Keys -> Nat]
            BY <1>2, <2>2 DEF SetRateLimit, Typed, GrantsTyped
        <2>4. QED
            BY <1>2, <2>1, <2>3 DEF SetRateLimit, Typed, clock, limiter, request, ClockTyped,
                StoreTyped, LimiterTyped, RequestTyped, DeletingTyped, GrantsTyped
    <1>3. ASSUME NEW k \in Keys, NEW o \in Operators, FindToDelete(o, k)
          PROVE  Typed'
        BY <1>3 DEF FindToDelete, Typed, clock, store, limiter, request, grants, ClockTyped,
            StoreTyped, LimiterTyped, RequestTyped, DeletingTyped, GrantsTyped
    <1>4. ASSUME NEW o \in Operators, Revoke(o)
          PROVE  Typed'
        <2>1. deleting[o] \in Keys
            BY <1>4 DEF Revoke, Typed, DeletingTyped
        <2> DEFINE next == [row[deleting[o]] EXCEPT !.revoked = TRUE]
        <2>1a. next \in [issued : BOOLEAN, revoked : BOOLEAN, expiresAt : Expiries,
                         limit : Limits \cup {0}]
            BY <2>1 DEF Typed, StoreTyped
        <2>1b. row' = [row EXCEPT ![deleting[o]] = next]
            BY <1>4 DEF Revoke
        <2> HIDE DEF next
        <2>2. row' \in [Keys -> [issued : BOOLEAN, revoked : BOOLEAN, expiresAt : Expiries,
                                 limit : Limits \cup {0}]]
            BY <2>1, <2>1a, <2>1b DEF Typed, StoreTyped
        <2>3. QED
            BY <1>4, <2>2 DEF Revoke, Typed, clock, limiter, request, grants, ClockTyped,
                StoreTyped, LimiterTyped, RequestTyped, DeletingTyped, GrantsTyped
    <1>5. QED
        BY <1>1, <1>2, <1>3, <1>4

-----------------------------------------------------------------------------
(* Who is served.                                                          *)

\* The row of the key r presented does not refuse it, if it has been issued.
NotRefused(r) ==
    /\ credential[r] \in Keys
    /\ ~row[credential[r]].revoked
    /\ row[credential[r]].expiresAt = 0 \/ stamp[r] < row[credential[r]].expiresAt

\* A row that would admit a request now would have admitted it when it arrived; past
\* that point whoever goes on was entitled to.
Entitlement ==
    \A r \in Requests :
        /\ pc[r] = "select" /\ NotRefused(r) => entitled[r]
        /\ pc[r] \in {"touch", "consume"} => credential[r] \in Keys
        /\ pc[r] \in {"touch", "consume", "anonymous", "servedByKey", "servedBare"} => entitled[r]
        /\ pc[r] \in {"anonymous", "servedBare"} => UnauthAccess[ServerOf[r]]

\* A request that arrives is looked at as it will be: with the row and the clock of
\* this moment, or as one that carries no header.
LEMMA ArriveEntitled ==
    ASSUME Typed, Entitlement, NEW r \in Requests, NEW a \in Credentials \cup {"none", "malformed"},
           NEW x \in Credentials \cup {"none"}, Arrive(r, a, x)
    PROVE  Entitlement'
    <1> DEFINE c == Chosen(a, x)
    <1>1. \A q \in Requests \ {r} :
            /\ pc'[q] = pc[q] /\ credential'[q] = credential[q] /\ stamp'[q] = stamp[q]
            /\ entitled'[q] = entitled[q]
        BY DEF Arrive, Typed, RequestTyped
    <1>2. row' = row
        BY DEF Arrive, store
    <1>3. CASE c = "none"
        <2>1. pc'[r] = "anonymous" /\ UnauthAccess[ServerOf[r]] /\ HeaderFailure(a) = "missing_authorization"
            BY <1>3 DEF Arrive, Typed, RequestTyped
        <2>2. a = "none"
            BY <2>1 DEF HeaderFailure
        <2>3. a \notin Credentials
            BY <2>2, KeysAssumption DEF KeysAssumption, Credentials
        <2>4. x = "none"
            BY <1>3, <2>3 DEF Chosen
        <2>5. entitled'[r]
            BY <2>2, <2>4 DEF Arrive, Typed, RequestTyped
        <2>6. QED
            BY <1>1, <1>2, <2>1, <2>5 DEF Entitlement, NotRefused
    <1>4. CASE c # "none"
        <2>1. /\ pc'[r] = "select" /\ credential'[r] = c /\ stamp'[r] = now
              /\ entitled'[r] = (\/ a = "none" /\ x = "none"
                                 \/ /\ c \in Keys
                                    /\ ~row[c].revoked
                                    /\ row[c].expiresAt = 0 \/ now < row[c].expiresAt)
            BY <1>4 DEF Arrive, Typed, RequestTyped
        <2> HIDE DEF c
        <2>2. NotRefused(r)' => entitled'[r]
            BY <1>2, <2>1 DEF NotRefused
        <2>3. QED
            BY <1>1, <1>2, <2>1, <2>2 DEF Entitlement, NotRefused
    <1>5. QED
        BY <1>3, <1>4

\* A request that goes on keeps to it.
LEMMA RequestKeepsEntitlement ==
    ASSUME Typed, Entitlement, NEW r \in Requests,
           \/ Unauthorized(r) \/ Authenticate(r) \/ Touch(r) \/ Consume(r) \/ StoreFails(r)
           \/ ConsumeAnonymous(r) \/ Leave(r)
    PROVE  Entitlement'
    <1>1. row' = row
        BY DEF Unauthorized, Authenticate, Touch, Consume, StoreFails, ConsumeAnonymous, Leave, store
    <1>2. CASE Respond(r)
        <2>1. \A q \in Requests \ {r} :
                /\ pc'[q] = pc[q] /\ credential'[q] = credential[q] /\ stamp'[q] = stamp[q]
                /\ entitled'[q] = entitled[q]
            BY <1>2 DEF Respond, Typed, RequestTyped
        <2>2. pc'[r] = "idle"
            BY <1>2 DEF Respond, Typed, RequestTyped
        <2>3. QED
            BY <1>1, <2>1, <2>2 DEF Entitlement, NotRefused
    <1>3. CASE Authenticate(r)
        <2>1. RowAdmits(r) /\ pc[r] = "select"
            BY <1>3 DEF Authenticate
        <2>2. credential[r] \in Keys /\ entitled[r]
            BY <2>1 DEF RowAdmits, NotRefused, Entitlement
        <2>3. pc' = [pc EXCEPT ![r] = "touch"] /\ UNCHANGED <<credential, stamp, entitled>>
            BY <1>3 DEF Authenticate
        <2>4. QED
            BY <1>1, <2>2, <2>3 DEF Entitlement, NotRefused, Typed, RequestTyped
    <1>4. CASE Touch(r)
        <2>1. /\ pc' = [pc EXCEPT ![r] = "consume"] /\ UNCHANGED <<credential, entitled>>
              /\ \A q \in Requests \ {r} : stamp'[q] = stamp[q]
              /\ pc[r] = "touch"
            BY <1>4 DEF Touch, Typed, RequestTyped
        <2>2. QED
            BY <1>1, <2>1 DEF Entitlement, NotRefused, Typed, RequestTyped
    <1>5. CASE Consume(r) /\ ~Respond(r)
        <2>1. /\ pc' = [pc EXCEPT ![r] = "servedByKey"] /\ UNCHANGED <<credential, entitled>>
              /\ \A q \in Requests \ {r} : stamp'[q] = stamp[q]
              /\ pc[r] = "consume"
            BY <1>5 DEF Consume, Typed, RequestTyped
        <2>2. QED
            BY <1>1, <2>1 DEF Entitlement, NotRefused, Typed, RequestTyped
    <1>6. CASE ConsumeAnonymous(r) /\ ~Respond(r)
        <2>1. /\ pc' = [pc EXCEPT ![r] = "servedBare"] /\ UNCHANGED <<credential, stamp, entitled>>
              /\ pc[r] = "anonymous"
            BY <1>6 DEF ConsumeAnonymous
        <2>2. QED
            BY <1>1, <2>1 DEF Entitlement, NotRefused, Typed, RequestTyped
    <1>7. Unauthorized(r) \/ StoreFails(r) \/ Leave(r) => Respond(r)
        BY DEF Unauthorized, StoreFails, Leave
    <1>8. QED
        BY <1>2, <1>3, <1>4, <1>5, <1>6, <1>7

\* So do the operators: a revocation makes no row admit more.
LEMMA OperatorsKeepEntitlement ==
    ASSUME Typed, Entitlement,
           \/ \E k \in Keys :
                  \/ Issue(k)
                  \/ \E rpm \in Limits : SetRateLimit(k, rpm)
                  \/ \E o \in Operators : FindToDelete(o, k)
           \/ \E o \in Operators : Revoke(o)
    PROVE  Entitlement'
    <1>1. UNCHANGED request
        BY DEF Issue, SetRateLimit, FindToDelete, Revoke
    <1>2. \A k \in Keys : /\ row'[k].expiresAt = row[k].expiresAt
                          /\ row[k].revoked => row'[k].revoked
        <2>1. ASSUME NEW k \in Keys, Issue(k)
              PROVE  \A j \in Keys : row'[j].expiresAt = row[j].expiresAt /\ (row[j].revoked => row'[j].revoked)
            BY <2>1 DEF Issue, Typed, StoreTyped
        <2>2. ASSUME NEW k \in Keys, NEW rpm \in Limits, SetRateLimit(k, rpm)
              PROVE  \A j \in Keys : row'[j].expiresAt = row[j].expiresAt /\ (row[j].revoked => row'[j].revoked)
            BY <2>2 DEF SetRateLimit, Typed, StoreTyped
        <2>3. ASSUME NEW k \in Keys, NEW o \in Operators, FindToDelete(o, k)
              PROVE  row' = row
            BY <2>3 DEF FindToDelete, store
        <2>4. ASSUME NEW o \in Operators, Revoke(o)
              PROVE  \A j \in Keys : row'[j].expiresAt = row[j].expiresAt /\ (row[j].revoked => row'[j].revoked)
            BY <2>4 DEF Revoke, Typed, StoreTyped, DeletingTyped
        <2>5. QED
            BY <2>1, <2>2, <2>3, <2>4
    <1>3. QED
        BY <1>1, <1>2 DEF request, Entitlement, NotRefused

\* A restart drops the requests of its server and leaves the others.
LEMMA RestartKeepsEntitlement ==
    ASSUME Typed, Entitlement, NEW s \in Servers, Restart(s)
    PROVE  Entitlement'
    <1>1. row' = row
        BY DEF Restart
    <1>2. ASSUME NEW r \in Requests
          PROVE  \/ pc'[r] = "idle"
                 \/ /\ pc'[r] = pc[r] /\ credential'[r] = credential[r] /\ stamp'[r] = stamp[r]
                    /\ entitled'[r] = entitled[r]
        BY DEF Restart
    <1>3. QED
        BY <1>1, <1>2 DEF Entitlement, NotRefused

\* Types and entitlement are kept together: a request to be counted has a key.
LEMMA NextKeepsEntitlement == Typed /\ Entitlement /\ [Next]_vars => (Typed /\ Entitlement)'
    <1> SUFFICES ASSUME Typed, Entitlement, [Next]_vars PROVE (Typed /\ Entitlement)'
        OBVIOUS
    <1>1. ASSUME NEW r \in Requests, NEW a \in Credentials \cup {"none", "malformed"},
                 NEW x \in Credentials \cup {"none"}, Arrive(r, a, x)
          PROVE  (Typed /\ Entitlement)'
        BY <1>1, ArriveTyped, ArriveEntitled
    <1>2. ASSUME NEW r \in Requests, Unauthorized(r) \/ StoreFails(r) \/ Leave(r)
          PROVE  (Typed /\ Entitlement)'
        <2>1. RequestTyped'
            BY <1>2, RespondTyped DEF Unauthorized, StoreFails, Leave
        <2>2. Typed'
            BY <1>2, <2>1 DEF Unauthorized, StoreFails, Leave, Typed, clock, store, limiter, grants,
                ClockTyped, StoreTyped, LimiterTyped, DeletingTyped, GrantsTyped
        <2>3. QED
            BY <1>2, <2>2, RequestKeepsEntitlement
    <1>3. ASSUME NEW r \in Requests, Authenticate(r) \/ Touch(r)
          PROVE  (Typed /\ Entitlement)'
        <2>1. limit' \in [Requests -> Limits \cup {0, DefaultLimit}]
            <3>1. CASE Authenticate(r)
                <4>1. row[credential[r]].limit \in Limits \cup {0}
                    BY <3>1 DEF Authenticate, RowAdmits, Typed, StoreTyped
                <4>2. QED
                    BY <3>1, <4>1 DEF Authenticate, Typed, RequestTyped
            <3>2. CASE Touch(r)
                BY <3>2 DEF Touch, Typed, RequestTyped
            <3>3. QED
                BY <1>3, <3>1, <3>2
        <2>2. now \in Times
            BY Numbers DEF Typed, ClockTyped, Times
        <2>3. RequestTyped'
            BY <1>3, <2>1, <2>2 DEF Authenticate, Touch, Typed, RequestTyped, Places
        <2>4. Typed'
            BY <1>3, <2>3 DEF Authenticate, Touch, Typed, clock, store, limiter, grants,
                ClockTyped, StoreTyped, LimiterTyped, DeletingTyped, GrantsTyped
        <2>5. QED
            BY <1>3, <2>4, RequestKeepsEntitlement
    <1>4. ASSUME NEW r \in Requests, Consume(r)
          PROVE  (Typed /\ Entitlement)'
        <2>1. credential[r] \in Keys
            BY <1>4 DEF Consume, Entitlement
        <2>2. QED
            BY <1>4, <2>1, ConsumeTyped, RequestKeepsEntitlement
    <1>5. ASSUME NEW r \in Requests, ConsumeAnonymous(r)
          PROVE  (Typed /\ Entitlement)'
        BY <1>5, ConsumeAnonymousTyped, RequestKeepsEntitlement
    <1>6. ASSUME \/ \E k \in Keys :
                        \/ Issue(k)
                        \/ \E rpm \in Limits : SetRateLimit(k, rpm)
                        \/ \E o \in Operators : FindToDelete(o, k)
                 \/ \E o \in Operators : Revoke(o)
          PROVE  (Typed /\ Entitlement)'
        BY <1>6, OperatorsKeepTyped, OperatorsKeepEntitlement
    <1>7. ASSUME NEW s \in Servers, Restart(s)
          PROVE  (Typed /\ Entitlement)'
        BY <1>7, RestartTyped, RestartKeepsEntitlement
    <1>8. CASE Tick \/ StepBack
        <2>1. UNCHANGED <<row, pc, credential, stamp, entitled>>
            BY <1>8 DEF Tick, StepBack, store, request
        <2>2. QED
            BY <1>8, <2>1, ClockKeepsTyped DEF Entitlement, NotRefused
    <1>9. CASE UNCHANGED vars
        BY <1>9 DEF vars, clock, store, limiter, request, grants, Typed, ClockTyped, StoreTyped,
            LimiterTyped, RequestTyped, DeletingTyped, GrantsTyped, Entitlement, NotRefused
    <1>10. QED
        BY <1>1, <1>2, <1>3, <1>4, <1>5, <1>6, <1>7, <1>8, <1>9 DEF Next

\* Types and entitlement hold throughout.
THEOREM EntitlementHolds == Spec => [](Typed /\ Entitlement)
    <1>1. Init => Entitlement
        BY DEF Init, Entitlement, NotRefused
    <1>2. QED
        BY <1>1, InitTyped, NextKeepsEntitlement, PTL DEF Spec

\* The store, the limiters, the requests and the commands have their types: no
\* count passes its bound and no time the clock.
THEOREM TypeCorrect == Spec => []TypeOK
    <1>1. Typed => TypeOK
        BY DEF Typed, ClockTyped, StoreTyped, LimiterTyped, RequestTyped, DeletingTyped, Places, TypeOK
    <1>2. QED
        BY <1>1, EntitlementHolds, PTL

\* Who is served presented a key that was neither revoked nor expired, or nothing
\* where nothing is needed, however requests, operators, restarts and the clock
\* interleave.
THEOREM ServesRightly == Spec => []ServedRightly
    <1>1. Entitlement => ServedRightly
        BY DEF Entitlement, ServedRightly
    <1>2. QED
        BY <1>1, EntitlementHolds, PTL

-----------------------------------------------------------------------------
(* Quotas.                                                                 *)

\* A request that will be counted read the clock not longer ago than a clean-up spares.
Recency ==
    /\ latest - now <= MaxStep
    /\ \A r \in Requests : pc[r] = "consume" =>
            /\ stamp[r] <= latest
            /\ now - stamp[r] <= MaxStall
            /\ latest - stamp[r] <= Kept

\* No limit in force, or read by a request, is above the largest there was.
LimitsBelowTop ==
    /\ \A k \in Keys : row[k].limit <= topLimit[k] /\ DefaultLimit <= topLimit[k]
    /\ \A r \in Requests : pc[r] \in {"touch", "consume"} => limit[r] <= topLimit[credential[r]]

\* What was let through is counted, unless the window is too old for any request.
Accounts ==
    \A k \in Keys, w \in Times :
        /\ granted[k][w] <= topLimit[k]
        /\ granted[k][w] > 0 => \E q \in Nat : w = q * Window
        /\ granted[k][w] > 0 => granted[k][w] <= count[k][w] \/ w + Window <= latest - Kept

Quota == Recency /\ LimitsBelowTop /\ Accounts

\* The step of a request or of an operator that counts nothing leaves the accounts.
LEMMA AccountsStay ==
    ASSUME Typed, Accounts, Typed', UNCHANGED <<count, granted>>, latest <= latest',
           \A k \in Keys : topLimit[k] <= topLimit'[k]
    PROVE  Accounts'
    <1> SUFFICES ASSUME NEW k \in Keys, NEW w \in Times
                 PROVE  /\ granted[k][w] <= topLimit'[k]
                        /\ granted[k][w] > 0 => \E q \in Nat : w = q * Window
                        /\ granted[k][w] > 0 => granted[k][w] <= count[k][w] \/ w + Window <= latest' - Kept
        BY DEF Accounts
    <1>1. /\ granted[k][w] \in Nat /\ topLimit[k] \in Nat /\ topLimit'[k] \in Nat /\ w \in Nat
          /\ latest \in Nat /\ latest' \in Nat /\ Kept \in Nat /\ Window \in Nat
        BY Numbers DEF Typed, GrantsTyped, ClockTyped, Times
    <1>2. granted[k][w] <= topLimit'[k]
        BY <1>1 DEF Accounts
    <1>3. w + Window <= latest - Kept => w + Window <= latest' - Kept
        BY <1>1
    <1>4. QED
        BY <1>2, <1>3 DEF Accounts

\* Nothing is granted past the limit: what was granted in the window of a request is
\* still counted, since the request is not later than a clean-up spares.
LEMMA ConsumeKeepsAccounts ==
    ASSUME Typed, Quota, NEW r \in Requests, Consume(r), credential[r] \in Keys
    PROVE  Accounts'
    <1> DEFINE k == credential[r]
               w == WindowStart(stamp[r], Window)
               due == stamp[r] >= nextCleanup[ServerOf[r]]
               allowed == Counted(k, w)[k][w] <= limit[r]
    <1>1. /\ stamp[r] \in Nat /\ w \in Times /\ w \in Nat /\ w <= stamp[r] /\ stamp[r] < w + Window
          /\ \E q \in Nat : w = q * Window
        <2>1. stamp[r] \in Times /\ stamp[r] \in Nat
            BY Numbers DEF Typed, RequestTyped, Times
        <2>2. Window \in Nat \ {0}
            BY Numbers
        <2>3. w \in Times
            BY <2>1, <2>2, WindowTyped
        <2>4. w \in 0..stamp[r] /\ stamp[r] < w + Window /\ \E q \in Nat : w = q * Window
            BY <2>1, <2>2, WindowOfTime
        <2> HIDE DEF w
        <2>5. QED
            BY <2>1, <2>3, <2>4
    <1>2. stamp[r] <= latest /\ latest - stamp[r] <= Kept /\ latest \in Nat
        BY Numbers DEF Consume, Quota, Recency, Typed, ClockTyped
    <1>3. limit[r] <= topLimit[k] /\ limit[r] \in Nat
        BY Numbers DEF Consume, Quota, LimitsBelowTop, Typed, RequestTyped
    <1>4. /\ count' = IF due THEN Cleaned(Counted(k, w), w) ELSE Counted(k, w)
          /\ granted' = [granted EXCEPT ![k][w] = IF allowed THEN @ + 1 ELSE @]
          /\ UNCHANGED <<topLimit, latest>>
        BY DEF Consume, clock
    <1>5. Counted(k, w)[k][w] = count[k][w] + 1
        BY <1>1 DEF Counted, Typed, StoreTyped
    <1>6. /\ count[k][w] \in Nat /\ granted[k][w] \in Nat /\ topLimit[k] \in Nat
          /\ granted \in [Keys -> [Times -> Nat]] /\ count \in [Keys -> [Times -> 0..MaxCount]]
        BY <1>1, Numbers DEF Typed, StoreTyped, GrantsTyped
    <1>7. granted[k][w] <= count[k][w]
        <2>1. granted[k][w] > 0 => granted[k][w] <= count[k][w] \/ w + Window <= latest - Kept
            BY <1>1 DEF Quota, Accounts
        <2>2. ~(w + Window <= latest - Kept)
            BY <1>1, <1>2, Numbers
        <2>3. QED
            BY <1>6, <2>1, <2>2
    <1>8. granted[k][w] <= topLimit[k]
        BY <1>1 DEF Quota, Accounts
    <1> HIDE DEF k, w, due
    <1>9. granted'[k][w] = IF allowed THEN granted[k][w] + 1 ELSE granted[k][w]
        <2>1. k \in Keys /\ granted[k] \in [Times -> Nat]
            BY <1>6 DEF k
        <2>2. QED
            BY <1>1, <1>4, <1>6, <2>1
    <1>10. granted'[k][w] <= topLimit[k] /\ granted'[k][w] <= count[k][w] + 1
        BY <1>3, <1>5, <1>6, <1>7, <1>8, <1>9
    <1>11. count'[k][w] = count[k][w] + 1
        <2>1. ~(w < w - Kept) /\ k \in Keys
            BY <1>1, Numbers DEF k
        <2>2. Cleaned(Counted(k, w), w)[k][w] = Counted(k, w)[k][w]
            BY <1>1, <2>1 DEF Cleaned, Kept
        <2>3. QED
            BY <1>4, <1>5, <2>2
    <1>12. ASSUME NEW j \in Keys, NEW v \in Times, j # k \/ v # w
           PROVE  /\ granted'[j][v] = granted[j][v]
                  /\ count'[j][v] = count[j][v] \/ v < w - Kept
        <2>1. granted'[j][v] = granted[j][v]
            BY <1>1, <1>4, <1>6, <1>12 DEF k
        <2>2. Counted(k, w)[j][v] = count[j][v]
            BY <1>1, <1>6, <1>12 DEF Counted
        <2>3. Cleaned(Counted(k, w), w)[j][v] = Counted(k, w)[j][v] \/ v < w - Kept
            BY DEF Cleaned, Kept
        <2>4. QED
            BY <1>4, <2>1, <2>2, <2>3
    <1>13. ASSUME NEW j \in Keys, NEW v \in Times, j # k \/ v # w, granted[j][v] > 0, v < w - Kept
           PROVE  v + Window <= latest - Kept
        <2>1. PICK a \in Nat : v = a * Window
            BY <1>13 DEF Quota, Accounts
        <2>2. PICK b \in Nat : w = b * Window
            BY <1>1
        <2>3. w - Kept = (b - Retention) * Window /\ b - Retention \in Int /\ Window \in Nat \ {0}
            BY <2>2, Numbers DEF Kept
        <2>4. a * Window + Window <= (b - Retention) * Window
            <3>1. a * Window < (b - Retention) * Window /\ a \in Int
                BY <1>13, <2>1, <2>3
            <3>2. QED
                BY <2>3, <3>1, MultiplesApart
        <2>5. v + Window <= w - Kept
            BY <2>1, <2>3, <2>4
        <2>6. v \in Nat
            BY Numbers DEF Times
        <2>7. QED
            BY <1>1, <1>2, <2>5, <2>6, Numbers
    <1>14. ASSUME NEW j \in Keys, NEW v \in Times
           PROVE  /\ granted'[j][v] <= topLimit'[j]
                  /\ granted'[j][v] > 0 => \E q \in Nat : v = q * Window
                  /\ granted'[j][v] > 0 => granted'[j][v] <= count'[j][v] \/ v + Window <= latest' - Kept
        <2>1. CASE j = k /\ v = w
            BY <1>1, <1>4, <1>10, <1>11, <2>1
        <2>2. CASE j # k \/ v # w
            BY <1>4, <1>12, <1>13, <2>2 DEF Quota, Accounts
        <2>3. QED
            BY <2>1, <2>2
    <1>15. QED
        BY <1>14 DEF Accounts

\* Of a step that reads no clock for a request to be counted, sets no limit and
\* grants nothing, there is nothing to show.
LEMMA QuotaFrame ==
    ASSUME Typed, Quota, Typed', UNCHANGED <<clock, row, count, granted, topLimit>>,
           \A r \in Requests : pc'[r] \in {"touch", "consume"} =>
                pc'[r] = pc[r] /\ stamp'[r] = stamp[r] /\ limit'[r] = limit[r] /\ credential'[r] = credential[r]
    PROVE  Quota'
    <1>1. latest <= latest' /\ \A k \in Keys : topLimit[k] <= topLimit'[k]
        BY Numbers DEF clock, Typed, ClockTyped, GrantsTyped
    <1>2. Accounts'
        BY <1>1, AccountsStay DEF Quota
    <1>3. QED
        BY <1>2 DEF Quota, Recency, LimitsBelowTop, clock

\* No step takes a key over its largest limit.
LEMMA NextKeepsQuota ==
    ASSUME Typed, Entitlement, Quota, Typed', [Next]_vars
    PROVE  Quota'
    <1>0. /\ latest \in Nat /\ now \in Nat /\ now <= latest /\ Kept \in Nat
          /\ \A r \in Requests : stamp[r] \in Nat
          /\ \A k \in Keys : topLimit[k] \in Nat /\ row[k].limit \in Nat
        <2>1. latest \in Nat /\ now \in Nat /\ now <= latest /\ Kept \in Nat
            BY Numbers DEF Typed, ClockTyped
        <2>2. \A r \in Requests : stamp[r] \in Nat
            BY Numbers DEF Typed, RequestTyped, Times
        <2>3. \A k \in Keys : topLimit[k] \in Nat
            BY DEF Typed, GrantsTyped
        <2>4. ASSUME NEW k \in Keys
              PROVE  row[k].limit \in Nat
            <3>1. row[k].limit \in Limits \cup {0}
                BY DEF Typed, StoreTyped
            <3>2. QED
                BY <3>1, LimitsAreNumbers
        <2>5. QED
            BY <2>1, <2>2, <2>3, <2>4
    <1>1. ASSUME NEW r \in Requests, NEW a \in Credentials \cup {"none", "malformed"},
                 NEW x \in Credentials \cup {"none"}, Arrive(r, a, x)
          PROVE  Quota'
        <2>1. \A q \in Requests : pc'[q] \in {"touch", "consume"} => q # r
            BY <1>1 DEF Arrive, Typed, RequestTyped
        <2>2. QED
            BY <1>1, <2>1, QuotaFrame DEF Arrive, store, grants, Typed, RequestTyped
    <1>2. ASSUME NEW r \in Requests, Unauthorized(r) \/ StoreFails(r) \/ Leave(r)
          PROVE  Quota'
        <2>1. Respond(r) /\ UNCHANGED <<clock, row, count, granted, topLimit>>
            BY <1>2 DEF Unauthorized, StoreFails, Leave, store, grants
        <2>2. \A q \in Requests : pc'[q] \in {"touch", "consume"} => q # r
            BY <2>1 DEF Respond, Typed, RequestTyped
        <2>3. QED
            BY <2>1, <2>2, QuotaFrame DEF Respond, Typed, RequestTyped
    <1>3. ASSUME NEW r \in Requests, Authenticate(r)
          PROVE  Quota'
        <2>1. /\ UNCHANGED <<clock, row, count, granted, topLimit, credential, stamp>>
              /\ pc' = [pc EXCEPT ![r] = "touch"]
              /\ limit' = [limit EXCEPT ![r] = row[credential[r]].limit]
              /\ credential[r] \in Keys
            BY <1>3 DEF Authenticate, RowAdmits, store, grants
        <2>2. Accounts'
            BY <1>0, <2>1, AccountsStay DEF Quota, clock
        <2>3. LimitsBelowTop'
            BY <2>1 DEF Quota, LimitsBelowTop, Typed, RequestTyped
        <2>4. Recency'
            BY <2>1 DEF Quota, Recency, clock, Typed, RequestTyped
        <2>5. QED
            BY <2>2, <2>3, <2>4 DEF Quota
    <1>4. ASSUME NEW r \in Requests, Touch(r)
          PROVE  Quota'
        <2>1. /\ UNCHANGED <<clock, row, count, granted, topLimit, credential>>
              /\ pc' = [pc EXCEPT ![r] = "consume"]
              /\ limit' = [limit EXCEPT ![r] = IF limit[r] = 0 THEN DefaultLimit ELSE limit[r]]
              /\ stamp' = [stamp EXCEPT ![r] = now]
              /\ pc[r] = "touch"
              /\ credential[r] \in Keys
            BY <1>4 DEF Touch, store, grants, Entitlement, Typed, RequestTyped
        <2>2. Accounts'
            BY <1>0, <2>1, AccountsStay DEF Quota, clock
        <2>3. LimitsBelowTop'
            BY <2>1 DEF Quota, LimitsBelowTop, Typed, RequestTyped
        <2>4. now - now <= MaxStall /\ latest - now <= Kept
            BY <1>0, Numbers DEF Quota, Recency
        <2>5. Recency'
            BY <1>0, <2>1, <2>4 DEF Quota, Recency, clock, Typed, RequestTyped
        <2>6. QED
            BY <2>2, <2>3, <2>5 DEF Quota
    <1>5. ASSUME NEW r \in Requests, Consume(r)
          PROVE  Quota'
        <2>1. credential[r] \in Keys
            BY <1>5 DEF Consume, Entitlement
        <2>2. Accounts'
            BY <1>5, <2>1, ConsumeKeepsAccounts
        <2>3. UNCHANGED <<clock, row, topLimit>>
            BY <1>5 DEF Consume
        <2>4. \A q \in Requests : pc'[q] \in {"touch", "consume"} =>
                q # r /\ pc'[q] = pc[q] /\ stamp'[q] = stamp[q] /\ limit'[q] = limit[q]
                /\ credential'[q] = credential[q]
            BY <1>5 DEF Consume, Respond, Typed, RequestTyped
        <2>5. QED
            BY <2>2, <2>3, <2>4 DEF Quota, Recency, LimitsBelowTop, clock
    <1>6. ASSUME NEW r \in Requests, ConsumeAnonymous(r)
          PROVE  Quota'
        <2>1. UNCHANGED <<clock, row, count, granted, topLimit>>
            BY <1>6 DEF ConsumeAnonymous, store
        <2>2. \A q \in Requests : pc'[q] \in {"touch", "consume"} =>
                q # r /\ pc'[q] = pc[q] /\ stamp'[q] = stamp[q] /\ limit'[q] = limit[q]
                /\ credential'[q] = credential[q]
            BY <1>6 DEF ConsumeAnonymous, Respond, Typed, RequestTyped
        <2>3. QED
            BY <2>1, <2>2, QuotaFrame
    <1>7. ASSUME NEW k \in Keys, Issue(k)
          PROVE  Quota'
        <2>1. UNCHANGED <<clock, count, granted, topLimit, pc, credential, stamp, limit>>
            BY <1>7 DEF Issue, grants, request
        <2>2. \A j \in Keys : row'[j].limit = row[j].limit
            BY <1>7 DEF Issue, Typed, StoreTyped
        <2>3. Accounts'
            BY <1>0, <2>1, AccountsStay DEF Quota, clock
        <2>4. QED
            BY <2>1, <2>2, <2>3 DEF Quota, Recency, LimitsBelowTop, clock
    <1>8. ASSUME NEW k \in Keys, NEW rpm \in Limits, SetRateLimit(k, rpm)
          PROVE  Quota'
        <2>1. UNCHANGED <<clock, count, granted, pc, credential, stamp, limit>>
            BY <1>8 DEF SetRateLimit, request
        <2>2. rpm \in Nat
            BY Numbers
        <2>3. \A j \in Keys : /\ row'[j].limit = IF j = k THEN rpm ELSE row[j].limit
                              /\ topLimit'[j] = IF j = k THEN Larger(topLimit[k], rpm) ELSE topLimit[j]
            BY <1>8 DEF SetRateLimit, Typed, StoreTyped, GrantsTyped
        <2>4. \A j \in Keys : topLimit[j] <= topLimit'[j] /\ (j = k => rpm <= topLimit'[j])
            BY <1>0, <2>2, <2>3 DEF Larger
        <2>5. Accounts'
            BY <1>0, <2>1, <2>4, AccountsStay DEF Quota, clock
        <2>6. \A j \in Keys : topLimit'[j] \in Nat
            BY DEF Typed, GrantsTyped
        <2>7. \A j \in Keys : row'[j].limit <= topLimit'[j] /\ DefaultLimit <= topLimit'[j]
            BY <1>0, <2>3, <2>4, <2>6, Numbers DEF Quota, LimitsBelowTop
        <2>8. ASSUME NEW r \in Requests, pc[r] \in {"touch", "consume"}
              PROVE  limit[r] <= topLimit'[credential[r]]
            <3>0. limit[r] \in Limits \cup {0, DefaultLimit}
                BY DEF Typed, RequestTyped
            <3>0b. limit[r] \in Nat
                BY <3>0, LimitsAreNumbers
            <3>1. credential[r] \in Keys /\ limit[r] \in Nat /\ limit[r] <= topLimit[credential[r]]
                BY <2>8, <3>0b DEF Entitlement, Quota, LimitsBelowTop
            <3>2. QED
                BY <1>0, <2>4, <2>6, <3>1
        <2>9. QED
            BY <2>1, <2>5, <2>7, <2>8 DEF Quota, Recency, LimitsBelowTop, clock
    <1>9. ASSUME NEW k \in Keys, NEW o \in Operators, FindToDelete(o, k)
          PROVE  Quota'
        BY <1>9, QuotaFrame DEF FindToDelete, store, request, grants
    <1>10. ASSUME NEW o \in Operators, Revoke(o)
          PROVE  Quota'
        <2>1. UNCHANGED <<clock, count, granted, topLimit, pc, credential, stamp, limit>>
            BY <1>10 DEF Revoke, grants, request
        <2>2. \A j \in Keys : row'[j].limit = row[j].limit
            BY <1>10 DEF Revoke, Typed, StoreTyped, DeletingTyped
        <2>3. Accounts'
            BY <1>0, <2>1, AccountsStay DEF Quota, clock
        <2>4. QED
            BY <2>1, <2>2, <2>3 DEF Quota, Recency, LimitsBelowTop, clock
    <1>11. ASSUME NEW s \in Servers, Restart(s)
          PROVE  Quota'
        <2>1. UNCHANGED <<clock, row, count, granted, topLimit>>
            BY <1>11 DEF Restart
        <2>2. \A r \in Requests : pc'[r] \in {"touch", "consume"} => ServerOf[r] # s
            BY <1>11 DEF Restart
        <2>3. \A r \in Requests : ServerOf[r] # s =>
                pc'[r] = pc[r] /\ stamp'[r] = stamp[r] /\ limit'[r] = limit[r] /\ credential'[r] = credential[r]
            BY <1>11 DEF Restart
        <2>4. QED
            BY <2>1, <2>2, <2>3, QuotaFrame
    <1>12. CASE Tick
        <2>1. UNCHANGED <<row, count, granted, topLimit, pc, credential, stamp, limit>>
            BY <1>12 DEF Tick, store, grants, request
        <2>2. now' = now + 1 /\ latest' = Larger(latest, now + 1)
            BY <1>12 DEF Tick
        <2>3. latest <= latest' /\ latest' \in Nat /\ (latest' = latest \/ latest' = now + 1)
            BY <1>0, <2>2 DEF Larger
        <2>4. Accounts'
            BY <1>0, <2>1, <2>3, AccountsStay DEF Quota
        <2>5. latest' - now' <= MaxStep
            BY <1>0, <2>2, <2>3, Numbers DEF Quota, Recency
        <2>6. ASSUME NEW r \in Requests, pc[r] = "consume"
              PROVE  stamp[r] <= latest' /\ now' - stamp[r] <= MaxStall /\ latest' - stamp[r] <= Kept
            <3>1. stamp[r] <= latest /\ latest - stamp[r] <= Kept
                BY <2>6 DEF Quota, Recency
            <3>2. now + 1 - stamp[r] <= MaxStall
                BY <1>12, <2>6 DEF Tick
            <3>3. QED
                BY <1>0, <2>2, <2>3, <3>1, <3>2, Numbers
        <2>7. QED
            BY <2>1, <2>4, <2>5, <2>6 DEF Quota, Recency, LimitsBelowTop
    <1>13. CASE StepBack
        <2>1. UNCHANGED <<latest, row, count, granted, topLimit, pc, credential, stamp, limit>>
            BY <1>13 DEF StepBack, store, request
        <2>2. now' = now - 1 /\ latest - (now - 1) <= MaxStep
            BY <1>13 DEF StepBack
        <2>3. Accounts'
            BY <1>0, <2>1, AccountsStay DEF Quota
        <2>4. Recency'
            BY <1>0, <2>1, <2>2, Numbers DEF Quota, Recency
        <2>5. QED
            BY <2>1, <2>3, <2>4 DEF Quota, LimitsBelowTop
    <1>14. CASE UNCHANGED vars
        BY <1>14, QuotaFrame DEF vars, store, request, grants
    <1>15. QED
        BY <1>1, <1>2, <1>3, <1>4, <1>5, <1>6, <1>7, <1>8, <1>9, <1>10, <1>11, <1>12, <1>13, <1>14
        DEF Next

\* No key is let through more often in a window than the largest limit it had,
\* whatever number of processes count and clean up, however late their threads
\* are, and wherever the clock is set back.
THEOREM QuotasHold == Spec => []QuotaHolds
    <1>1. Init => Quota
        <2> SUFFICES ASSUME Init PROVE Quota
            OBVIOUS
        <2>1. Recency
            BY Numbers DEF Init, Recency
        <2>2. LimitsBelowTop
            BY Numbers DEF Init, LimitsBelowTop
        <2>3. Accounts
            BY Numbers DEF Init, Accounts
        <2>4. QED
            BY <2>1, <2>2, <2>3 DEF Quota
    <1>2. Typed /\ Entitlement /\ Quota /\ Typed' /\ [Next]_vars => Quota'
        BY NextKeepsQuota
    <1>3. Quota => QuotaHolds
        BY DEF Quota, Accounts, QuotaHolds
    <1>4. QED
        BY <1>1, <1>2, <1>3, EntitlementHolds, PTL DEF Spec

-----------------------------------------------------------------------------
(* Requests without key.                                                   *)

\* A client that was let through in the window of the clock is known to the limiter.
AnonymousKnown ==
    \A s \in Servers, c \in Clients, w \in Times :
        anonGranted[s][c][w] > 0 =>
            /\ anonGranted[s][c][w] = 1
            /\ w <= now
            /\ \E q \in Nat : w = q * AnonInterval
            /\ now < w + AnonInterval => anon[s][c].count > 0 /\ anon[s][c].start = w

\* The limiter knows afterwards whom it let through in the window of the clock, and
\* lets nobody through whom it knows.
LEMMA ConsumeAnonymousKeepsKnown ==
    ASSUME Typed, AnonymousKnown, NEW r \in Requests, ConsumeAnonymous(r)
    PROVE  AnonymousKnown'
    <1> DEFINE s == ServerOf[r]
               c == ClientOf[r]
               w == WindowStart(now, AnonInterval)
               n == IF anon[s][c].count # 0 /\ anon[s][c].start = w THEN anon[s][c].count + 1 ELSE 1
               windows == [anon[s] EXCEPT ![c] = [start |-> w, count |-> n]]
               due == now >= nextAnonCleanup[s]
    <1>1. /\ s \in Servers /\ c \in Clients /\ now \in Times /\ w \in Times
          /\ n \in 1..MaxCount
          /\ [start |-> w, count |-> n] \in [start : Times, count : 0..MaxCount]
        BY AnonymousCount
    <1>2. /\ anon' = [anon EXCEPT ![s] = IF due THEN RemainingClients(windows) ELSE windows]
          /\ anonGranted' = [anonGranted EXCEPT ![s][c][w] = IF n <= 1 THEN @ + 1 ELSE @]
          /\ now' = now
        BY DEF ConsumeAnonymous, clock
    <1>3. now \in Nat /\ w \in Nat /\ w <= now /\ now < w + AnonInterval
          /\ \E q \in Nat : w = q * AnonInterval
        <2>1. now \in Nat /\ AnonInterval \in Nat \ {0}
            BY Numbers DEF Typed, ClockTyped
        <2>2. w \in 0..now /\ now < w + AnonInterval /\ \E q \in Nat : w = q * AnonInterval
            BY <2>1, WindowOfTime
        <2> HIDE DEF w
        <2>3. QED
            BY <2>1, <2>2
    <1>4. anon[s][c].count \in Nat
        BY <1>1, Numbers DEF Typed, LimiterTyped
    <1>5. anonGranted[s][c][w] > 0 => n > 1
        BY <1>1, <1>3, <1>4 DEF AnonymousKnown
    <1>6. anonGranted[s][c][w] \in Nat /\ anonGranted \in [Servers -> [Clients -> [Times -> Nat]]]
        BY <1>1 DEF Typed, GrantsTyped
    <1>7. /\ anon \in [Servers -> [Clients -> [start : Times, count : 0..MaxCount]]]
          /\ anon[s] \in [Clients -> [start : Times, count : 0..MaxCount]]
        BY <1>1 DEF Typed, LimiterTyped
    <1> HIDE DEF s, c, w, n, due
    <1>8. \A t \in Servers, d \in Clients, v \in Times :
            anonGranted'[t][d][v] = IF t = s /\ d = c /\ v = w /\ n <= 1
                                    THEN anonGranted[t][d][v] + 1 ELSE anonGranted[t][d][v]
        <2>1. anonGranted' = [anonGranted EXCEPT ![s] = [anonGranted[s] EXCEPT ![c] =
                [anonGranted[s][c] EXCEPT ![w] = IF n <= 1 THEN anonGranted[s][c][w] + 1 ELSE anonGranted[s][c][w]]]]
            BY <1>1, <1>2, <1>6
        <2>2. anonGranted[s] \in [Clients -> [Times -> Nat]] /\ anonGranted[s][c] \in [Times -> Nat]
            BY <1>1, <1>6
        <2>3. QED
            BY <1>1, <1>6, <2>1, <2>2
    <1>9. anonGranted'[s][c][w] <= 1 /\ anonGranted'[s][c][w] \in Nat
        <2>1. anonGranted[s][c][w] > 0 => anonGranted[s][c][w] = 1
            BY <1>1 DEF AnonymousKnown
        <2>2. n \in Nat
            BY <1>1
        <2>3. QED
            BY <1>1, <1>5, <1>6, <1>8, <2>1, <2>2
    <1>10. ASSUME NEW d \in Clients, windows[d].start > now - AnonInterval
           PROVE  anon'[s][d] = windows[d]
        <2>1. AnonInterval \in Nat /\ AnonRetention \in Nat /\ windows[d].start \in Nat
            <3>1. windows[d] \in [start : Times, count : 0..MaxCount]
                BY <1>1, <1>7
            <3>2. QED
                BY <3>1, Numbers DEF Times
        <2> HIDE DEF windows
        <2>2. ~(windows[d].start < now - Larger(AnonRetention, 3 * AnonInterval))
            BY <1>3, <1>10, <2>1 DEF Larger
        <2>3. RemainingClients(windows)[d] = windows[d]
            BY <2>2 DEF RemainingClients
        <2>4. QED
            BY <1>1, <1>2, <1>7, <2>3
    <1>11. windows[c] = [start |-> w, count |-> n] /\ \A d \in Clients \ {c} : windows[d] = anon[s][d]
        BY <1>1, <1>7
    <1> HIDE DEF windows
    <1>12. anon'[s][c] = [start |-> w, count |-> n] /\ n > 0
        BY <1>1, <1>3, <1>10, <1>11, Numbers
    <1>13. ASSUME NEW t \in Servers, NEW d \in Clients, NEW v \in Times, anonGranted'[t][d][v] > 0
           PROVE  /\ anonGranted'[t][d][v] = 1
                  /\ v <= now'
                  /\ \E q \in Nat : v = q * AnonInterval
                  /\ now' < v + AnonInterval => anon'[t][d].count > 0 /\ anon'[t][d].start = v
        <2>1. CASE t = s /\ d = c /\ v = w
            BY <1>2, <1>3, <1>9, <1>12, <1>13, <2>1
        <2>2. CASE ~(t = s /\ d = c /\ v = w)
            <3>1. anonGranted'[t][d][v] = anonGranted[t][d][v]
                BY <1>8, <2>2
            <3>2. /\ anonGranted[t][d][v] = 1
                  /\ v <= now
                  /\ \E q \in Nat : v = q * AnonInterval
                  /\ now < v + AnonInterval => anon[t][d].count > 0 /\ anon[t][d].start = v
                BY <1>13, <3>1 DEF AnonymousKnown
            <3>3. ASSUME now < v + AnonInterval
                  PROVE  anon'[t][d].count > 0 /\ anon'[t][d].start = v
                <4>1. CASE t # s
                    BY <1>1, <1>2, <1>7, <3>2, <3>3, <4>1
                <4>2. CASE t = s /\ d = c
                    <5>1. PICK q \in Nat : v = q * AnonInterval
                        BY <3>2
                    <5>2. AnonInterval \in Nat \ {0}
                        BY Numbers
                    <5>3. w = v
                        BY <1>3, <3>2, <3>3, <5>1, <5>2, OneWindow DEF w
                    <5>4. QED
                        BY <2>2, <4>2, <5>3
                <4>3. CASE t = s /\ d # c
                    <5>1. windows[d] = anon[s][d] /\ anon[s][d].start = v
                        BY <1>11, <3>2, <3>3, <4>3
                    <5>2. v \in Nat /\ AnonInterval \in Nat
                        BY Numbers DEF Times
                    <5>3. windows[d].start > now - AnonInterval
                        BY <1>3, <3>3, <5>1, <5>2
                    <5>4. anon'[s][d] = anon[s][d]
                        BY <1>10, <5>1, <5>3
                    <5>5. QED
                        BY <3>2, <3>3, <4>3, <5>4
                <4>4. QED
                    BY <4>1, <4>2, <4>3
            <3>4. QED
                BY <1>2, <3>1, <3>2, <3>3
        <2>3. QED
            BY <2>1, <2>2
    <1>14. QED
        BY <1>13 DEF AnonymousKnown

\* No step lets a client through that the limiter knows.
LEMMA NextKeepsKnown ==
    ASSUME Typed, AnonymousKnown, [Next]_vars
    PROVE  AnonymousKnown'
    <1>1. ASSUME NEW r \in Requests, ConsumeAnonymous(r)
          PROVE  AnonymousKnown'
        BY <1>1, ConsumeAnonymousKeepsKnown
    <1>2. ASSUME NEW s \in Servers, Restart(s)
          PROVE  AnonymousKnown'
        <2>1. now' = now
            BY <1>2 DEF Restart, clock
        <2>2. \A c \in Clients, w \in Times : anonGranted'[s][c][w] = 0
            BY <1>2 DEF Restart, NoGrants, Typed, GrantsTyped
        <2>3. \A t \in Servers \ {s} : anonGranted'[t] = anonGranted[t] /\ anon'[t] = anon[t]
            BY <1>2 DEF Restart, Typed, GrantsTyped, LimiterTyped
        <2>4. QED
            BY <2>1, <2>2, <2>3 DEF AnonymousKnown
    <1>3. CASE Tick
        <2>1. now' = now + 1 /\ UNCHANGED <<anon, anonGranted>>
            BY <1>3 DEF Tick, limiter, grants
        <2>2. now \in Nat /\ AnonInterval \in Nat /\ Times \subseteq Nat
            BY Numbers DEF Typed, ClockTyped, Times
        <2>3. QED
            BY <2>1, <2>2 DEF AnonymousKnown
    <1>4. CASE StepBack
        <2>1. \A s \in Servers, c \in Clients, w \in Times : anonGranted'[s][c][w] = 0
            BY <1>4 DEF StepBack, NoGrants
        <2>2. QED
            BY <2>1 DEF AnonymousKnown
    <1>5. ASSUME UNCHANGED <<now, anon, anonGranted>>
          PROVE  AnonymousKnown'
        BY <1>5 DEF AnonymousKnown
    <1>6. ASSUME NEW r \in Requests, NEW a \in Credentials \cup {"none", "malformed"},
                 NEW x \in Credentials \cup {"none"},
                 \/ Arrive(r, a, x) \/ Unauthorized(r) \/ Authenticate(r) \/ Touch(r)
                 \/ Consume(r) \/ StoreFails(r) \/ Leave(r)
          PROVE  UNCHANGED <<now, anon, anonGranted>>
        BY <1>6 DEF Arrive, Unauthorized, Authenticate, Touch, Consume, StoreFails, Leave,
            clock, limiter, grants
    <1>7. ASSUME \/ \E k \in Keys :
                        \/ Issue(k)
                        \/ \E rpm \in Limits : SetRateLimit(k, rpm)
                        \/ \E o \in Operators : FindToDelete(o, k)
                 \/ \E o \in Operators : Revoke(o)
          PROVE  UNCHANGED <<now, anon, anonGranted>>
        BY <1>7 DEF Issue, SetRateLimit, FindToDelete, Revoke, clock, limiter, grants
    <1>8. CASE UNCHANGED vars
        BY <1>5, <1>8 DEF vars, clock, limiter, grants
    <1>9. QED
        BY <1>1, <1>2, <1>3, <1>4, <1>5, <1>6, <1>7, <1>8 DEF Next

\* A server lets a client without key through once in a window, wherever its limiter
\* cleans up, until it starts anew or the clock is set back.
THEOREM AnonymousOnce == Spec => []AnonymousOncePerWindow
    <1>1. Init => AnonymousKnown
        BY DEF Init, AnonymousKnown, NoGrants
    <1>2. Typed /\ AnonymousKnown /\ [Next]_vars => AnonymousKnown'
        BY NextKeepsKnown
    <1>3. Typed /\ AnonymousKnown => AnonymousOncePerWindow
        BY DEF AnonymousKnown, AnonymousOncePerWindow, Typed, GrantsTyped
    <1>4. QED
        BY <1>1, <1>2, <1>3, EntitlementHolds, PTL DEF Spec
============================================================================
