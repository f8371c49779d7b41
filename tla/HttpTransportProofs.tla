------------------------ MODULE HttpTransportProofs ------------------------
(* Proofs about HttpTransport, for every value of its constants.           *)
EXTENDS HttpTransport, FiniteSetTheorems, SequenceTheorems, TLAPS

-----------------------------------------------------------------------------
(* The deque of pool timeouts.                                             *)

\* A finite set of naturals that is not empty has a largest element.
LEMMA LargestExists ==
    ASSUME NEW S \in SUBSET Nat, IsFiniteSet(S), S # {}
    PROVE  \E m \in S : \A n \in S : m >= n
    <1> DEFINE Above(x) == {y \in S : y > x}
               T == {Above(x) : x \in S}
    <1>1. T \subseteq FiniteSubsetsOf(S) /\ T # {}
        <2>1. \A x \in S : Above(x) \in SUBSET S
            OBVIOUS
        <2>2. \A x \in S : Above(x) \in FiniteSubsetsOf(S)
            BY <2>1, FS_Subset DEF FiniteSubsetsOf
        <2>3. QED
            BY <2>2
    <1>2. IsWellFoundedOn(StrictSubsetOrdering(S), FiniteSubsetsOf(S))
        BY FS_StrictSubsetOrderingWellFounded
    <1>3. PICK U \in T : \A V \in T : <<V, U>> \notin StrictSubsetOrdering(S)
        <2> HIDE DEF T
        <2>1. QED
            BY <1>1, <1>2, WFMin
    <1>4. PICK m \in S : U = Above(m)
        OBVIOUS
    <1>5. ASSUME NEW n \in S, n > m
          PROVE  FALSE
        <2>0. m \in Nat /\ n \in Nat /\ \A y \in S : y \in Nat
            OBVIOUS
        <2>1. Above(n) \subseteq Above(m)
            <3>1. \A y \in S : y > n => y > m
                BY <2>0, <1>5
            <3>2. QED
                BY <3>1
        <2>1a. n \in Above(m) /\ n \notin Above(n)
            <3>1. ~(n > n)
                BY <2>0
            <3>2. QED
                BY <3>1, <1>5
        <2>2. <<Above(n), U>> \in StrictSubsetOrdering(S)
            BY <1>4, <2>1, <2>1a DEF StrictSubsetOrdering
        <2>3. QED
            BY <1>3, <2>2
    <1>6. \A n \in S : m >= n
        BY <1>5
    <1>7. QED
        BY <1>6


\* The stale head of a sequence is as long as there are stale places.
LEMMA StaleHead ==
    ASSUME NEW times \in Seq(Nat), NEW cutoff \in Int
    PROVE  LET stale == {i \in DOMAIN times : \A j \in 1..i : times[j] < cutoff} IN
           \E m \in 0..Len(times) :
                /\ Cardinality(stale) = m
                /\ \A i \in 1..m : times[i] < cutoff
                /\ m < Len(times) => times[m + 1] >= cutoff
    <1> DEFINE stale == {i \in DOMAIN times : \A j \in 1..i : times[j] < cutoff}
    <1>1. Len(times) \in Nat /\ DOMAIN times = 1..Len(times) /\ \A i \in 1..Len(times) : times[i] \in Nat
        BY LenProperties, ElementOfSeq
    <1>2. stale \in SUBSET Nat /\ IsFiniteSet(stale)
        <2>1. stale \subseteq 1..Len(times) /\ IsFiniteSet(1..Len(times)) /\ 1..Len(times) \subseteq Nat
            BY <1>1, FS_Interval
        <2>2. QED
            BY <2>1, FS_Subset
    <1> DEFINE Stale(m) ==
            /\ Cardinality(stale) = m
            /\ \A i \in 1..m : times[i] < cutoff
            /\ m < Len(times) => times[m + 1] >= cutoff
    <1> SUFFICES \E m \in 0..Len(times) : Stale(m)
        OBVIOUS
    <1>3. CASE stale = {}
        <2>1. Cardinality(stale) = 0
            BY <1>3, FS_EmptySet
        <2>2. 0 < Len(times) => times[1] >= cutoff
            <3>1. SUFFICES ASSUME 0 < Len(times), times[1] < cutoff PROVE FALSE
                BY <1>1
            <3>2. 1 \in DOMAIN times /\ \A j \in 1..1 : times[j] < cutoff
                BY <1>1, <3>1
            <3>3. QED
                BY <1>3, <3>2
        <2>3. Stale(0)
            BY <1>1, <2>1, <2>2
        <2>4. 0 \in 0..Len(times)
            BY <1>1
        <2>5. QED
            BY <2>3, <2>4
    <1>4. CASE stale # {}
        <2>1. PICK m \in stale : \A n \in stale : m >= n
            <3> HIDE DEF stale
            <3>1. QED
                BY <1>2, <1>4, LargestExists
        <2>2. m \in 1..Len(times) /\ \A j \in 1..m : times[j] < cutoff
            BY <1>1, <2>1
        <2>3. stale = 1..m
            <3>1. \A n \in stale : n \in 1..m
                BY <1>1, <2>1, <2>2
            <3>2. ASSUME NEW n \in 1..m
                  PROVE  n \in stale
                <4>1. n \in DOMAIN times /\ \A j \in 1..n : j \in 1..m
                    BY <1>1, <2>2
                <4>2. QED
                    BY <2>2, <4>1
            <3>3. QED
                BY <3>1, <3>2
        <2>4. Cardinality(1..m) = m
            BY <2>2, FS_Interval
        <2>5. m < Len(times) => times[m + 1] >= cutoff
            <3>1. SUFFICES ASSUME m < Len(times), times[m + 1] < cutoff PROVE FALSE
                BY <1>1, <2>2
            <3>2. m + 1 \in DOMAIN times
                BY <1>1, <2>2, <3>1
            <3>3. \A j \in 1..(m + 1) : times[j] < cutoff
                BY <2>2, <3>1
            <3>4. m + 1 \in stale
                BY <3>2, <3>3
            <3>5. QED
                BY <2>1, <2>2, <3>4
        <2> HIDE DEF stale
        <2>6. Stale(m) /\ m \in 0..Len(times)
            BY <1>1, <2>2, <2>3, <2>4, <2>5
        <2>7. QED
            BY <2>6
    <1>5. QED
        BY <1>3, <1>4

\* Pruning takes the times before the window off the head, and stops at the first one
\* inside it.
LEMMA PrunedProperties ==
    ASSUME NEW times \in Seq(Nat), now \in Nat
    PROVE  \E m \in 0..Len(times) :
                /\ Len(Pruned(times)) = Len(times) - m
                /\ Pruned(times) \in Seq(Nat)
                /\ \A i \in 1..(Len(times) - m) : Pruned(times)[i] = times[i + m]
                /\ \A i \in 1..m : times[i] < now - RecycleWindow
                /\ m < Len(times) => times[m + 1] >= now - RecycleWindow
    <1>1. now - RecycleWindow \in Int
        BY TransportAssumption DEF TransportAssumption
    <1>2. PICK m \in 0..Len(times) :
            /\ Cardinality({i \in DOMAIN times : \A j \in 1..i : times[j] < now - RecycleWindow}) = m
            /\ \A i \in 1..m : times[i] < now - RecycleWindow
            /\ m < Len(times) => times[m + 1] >= now - RecycleWindow
        BY <1>1, StaleHead
    <1>3. Pruned(times) = SubSeq(times, m + 1, Len(times))
        BY <1>2 DEF Pruned
    <1>4. Len(times) \in Nat /\ m \in Nat /\ m <= Len(times) /\ \A i \in 1..Len(times) : times[i] \in Nat
        BY <1>2, LenProperties, ElementOfSeq
    <1>5. \A i \in (m + 1)..Len(times) : times[i] \in Nat
        BY <1>4
    <1>6. /\ SubSeq(times, m + 1, Len(times)) \in Seq(Nat)
          /\ Len(SubSeq(times, m + 1, Len(times))) = IF m + 1 <= Len(times) THEN Len(times) - (m + 1) + 1 ELSE 0
          /\ \A i \in 1..(Len(times) - (m + 1) + 1) : SubSeq(times, m + 1, Len(times))[i] = times[m + 1 + i - 1]
        <2>1. m + 1 \in Int /\ Len(times) \in Int
            BY <1>4
        <2>2. QED
            BY <1>5, <2>1, SubSeqProperties
    <1>7. Len(Pruned(times)) = Len(times) - m
        BY <1>3, <1>4, <1>6
    <1>8. \A i \in 1..(Len(times) - m) : Pruned(times)[i] = times[i + m]
        BY <1>3, <1>4, <1>6
    <1>9. QED
        BY <1>2, <1>3, <1>6, <1>7, <1>8

-----------------------------------------------------------------------------
(* The inductive invariant.                                                *)

\* A request uses a client up to the current one, before shutdown; the one it uses, if
\* retired, is not closed before a grace after the request started; what is closed
\* was due, or is the last client after shutdown.
Clientele ==
    /\ \A r \in Requests : Running(r) =>
            /\ phase = "up"
            /\ using[r] <= client
            /\ using[r] < client => closeAt[using[r]] >= startedAt[r] + Grace
    /\ \A c \in closed : c <= client /\ (c < client => closeAt[c] # 0 /\ now >= closeAt[c])
    /\ client \in closed => phase = "down"
    /\ \A c \in Clients : c >= client => closeAt[c] = 0

\* The deque holds the end of the evidence; what it lacks is older than the window.
DequeEndsEvidence ==
    /\ \E k \in 0..Len(evidence) :
            /\ Len(poolTimeoutEvents) = Len(evidence) - k
            /\ \A i \in 1..Len(poolTimeoutEvents) : poolTimeoutEvents[i] = evidence[i + k]
            /\ \A i \in 1..k : evidence[i] < now - RecycleWindow
    /\ \A i, j \in 1..Len(evidence) : i <= j => evidence[i] <= evidence[j]

\* The last pool timeout is at the end of the deque, or led to a recycle, or a recycle
\* came after it.
LastTimeoutSeen ==
    /\ \A i \in 1..Len(poolTimeoutEvents) : poolTimeoutEvents[i] <= lastTimeout
    /\ lastReason = "pool_timeout" => 1 <= lastRecycleAt /\ lastRecycleAt <= lastTimeout
    /\ lastTimeout # 0 =>
            \/ Len(poolTimeoutEvents) > 0 /\ poolTimeoutEvents[Len(poolTimeoutEvents)] = lastTimeout
            \/ lastReason # "none" /\ lastRecycleAt >= lastTimeout

IInv == TypeOK /\ Clientele /\ DequeEndsEvidence /\ LastTimeoutSeen

-----------------------------------------------------------------------------
(* Lemmas.                                                                 *)

\* What the assumption on the constants says of numbers.
LEMMA Numbers ==
    /\ Attempts \in Nat \ {0} /\ Grace \in Nat \ {0} /\ ClientTTL \in Nat \ {0}
    /\ ClientMaxRequests \in Nat \ {0} /\ PoolTimeoutThreshold \in Nat \ {0}
    /\ RecycleWindow \in Nat \ {0} /\ MaxClients \in Nat \ {0}
    /\ \A r \in Requests : Budget[r] \in Nat
    BY TransportAssumption DEF TransportAssumption

\* A sequence is of what its elements are of.
LEMMA SequenceOf ==
    ASSUME NEW S, NEW T, NEW seq \in Seq(S), \A i \in 1..Len(seq) : seq[i] \in T
    PROVE  seq \in Seq(T)
    <1>1. Len(seq) \in Nat
        BY LenProperties
    <1>2. QED
        BY <1>1

\* Times up to now stay times up to now.
LEMMA TimesGrow ==
    ASSUME NEW m \in Nat, NEW n \in Nat, m <= n, NEW times \in Seq(1..m)
    PROVE  times \in Seq(1..n) /\ times \in Seq(Nat)
    <1>1. Len(times) \in Nat /\ \A i \in 1..Len(times) : times[i] \in 1..m
        BY LenProperties, ElementOfSeq
    <1>2. \A i \in 1..Len(times) : times[i] \in 1..n /\ times[i] \in Nat
        BY <1>1
    <1>3. QED
        BY <1>1, <1>2

\* A sequence with one more time.
LEMMA OneMore ==
    ASSUME NEW times \in Seq(1..now), now \in Nat \ {0}
    PROVE  /\ Append(times, now) \in Seq(1..now)
           /\ Len(Append(times, now)) = Len(times) + 1
           /\ Append(times, now)[Len(times) + 1] = now
           /\ \A i \in 1..Len(times) : Append(times, now)[i] = times[i]
    <1>1. now \in 1..now
        OBVIOUS
    <1>2. QED
        BY <1>1, AppendProperties

\* The deque after a pool timeout ends with it.
LEMMA DequeAfterTimeout ==
    ASSUME TypeOK
    PROVE  LET events == Append(poolTimeoutEvents, now) IN
           \E m \in 0..Len(poolTimeoutEvents) :
                /\ Pruned(events) \in Seq(1..now)
                /\ Len(Pruned(events)) = Len(poolTimeoutEvents) + 1 - m
                /\ \A i \in 1..(Len(events) - m) : Pruned(events)[i] = events[i + m]
                /\ \A i \in 1..m : events[i] < now - RecycleWindow
                /\ events[m + 1] >= now - RecycleWindow
    <1> DEFINE events == Append(poolTimeoutEvents, now)
               n == Len(poolTimeoutEvents)
    <1>1. now \in Nat \ {0} /\ poolTimeoutEvents \in Seq(1..now)
        BY DEF TypeOK
    <1>2. events \in Seq(1..now) /\ Len(events) = n + 1 /\ events[n + 1] = now /\ n \in Nat
        BY <1>1, OneMore, LenProperties
    <1>3. events \in Seq(Nat)
        BY <1>1, <1>2, TimesGrow
    <1> HIDE DEF events
    <1>4. PICK m \in 0..Len(events) :
                /\ Len(Pruned(events)) = Len(events) - m
                /\ Pruned(events) \in Seq(Nat)
                /\ \A i \in 1..(Len(events) - m) : Pruned(events)[i] = events[i + m]
                /\ \A i \in 1..m : events[i] < now - RecycleWindow
                /\ m < Len(events) => events[m + 1] >= now - RecycleWindow
        BY <1>1, <1>3, PrunedProperties
    <1>5. ~(now < now - RecycleWindow)
        BY <1>1, Numbers
    <1>6. m # n + 1
        <2>1. SUFFICES ASSUME m = n + 1 PROVE FALSE
            OBVIOUS
        <2>2. n + 1 \in 1..m
            BY <1>2, <2>1
        <2>3. QED
            BY <1>2, <1>4, <1>5, <2>2
    <1>7. m \in 0..n /\ events[m + 1] >= now - RecycleWindow
        BY <1>2, <1>4, <1>6
    <1>8. Pruned(events) \in Seq(1..now)
        <2>1. \A i \in 1..Len(events) : events[i] \in 1..now
            BY <1>2, ElementOfSeq
        <2>2. \A i \in 1..Len(Pruned(events)) : Pruned(events)[i] \in 1..now
            BY <1>2, <1>4, <1>7, <2>1
        <2>3. QED
            BY <1>4, <2>2, SequenceOf
    <1>9. Len(Pruned(events)) = n + 1 - m
        BY <1>2, <1>4
    <1> HIDE DEF n
    <1>10. \E l \in 0..n :
                /\ Pruned(events) \in Seq(1..now)
                /\ Len(Pruned(events)) = n + 1 - l
                /\ \A i \in 1..(Len(events) - l) : Pruned(events)[i] = events[i + l]
                /\ \A i \in 1..l : events[i] < now - RecycleWindow
                /\ events[l + 1] >= now - RecycleWindow
        BY <1>4, <1>7, <1>8, <1>9
    <1>11. QED
        BY <1>10 DEF events, n

\* A client that takes the place of another one has a number of its own, no use yet
\* and no time to be closed at; the one before has a grace.
LEMMA Replaced ==
    ASSUME TypeOK, NEW reason, ReplaceClient(reason)
    PROVE  /\ client' = client + 1 /\ client' \in Clients /\ client \in Clients
           /\ createdAt' = now /\ lastReason' = reason /\ lastRecycleAt' = now
           /\ closeAt' \in [Clients -> Nat] /\ closeAt'[client] = now + Grace
           /\ \A c \in Clients \ {client} : closeAt'[c] = closeAt[c]
    <1>1. client \in Clients /\ client' = client + 1 /\ client < MaxClients
        BY DEF TypeOK, ReplaceClient
    <1>2. client' \in Clients
        BY <1>1, Numbers DEF Clients
    <1>3. now + Grace \in Nat
        BY Numbers DEF TypeOK
    <1>4. closeAt' = [closeAt EXCEPT ![client] = now + Grace]
        BY DEF ReplaceClient
    <1>5. QED
        BY <1>1, <1>2, <1>3, <1>4 DEF TypeOK, ReplaceClient

-----------------------------------------------------------------------------
(* The clients.                                                            *)

\* A step that replaces the client, and starts no request but on the new one.
LEMMA ReplacementKeepsClientele ==
    ASSUME TypeOK, Clientele, NEW reason, ReplaceClient(reason), phase = "up",
           UNCHANGED <<now, closed, phase>>,
           \A q \in Requests : using'[q] # 0 =>
                \/ using'[q] = using[q] /\ startedAt'[q] = startedAt[q]
                \/ using'[q] = client'
    PROVE  Clientele'
    <1>1. /\ client' = client + 1 /\ client \in Nat /\ client \in Clients
          /\ closeAt'[client] = now + Grace
          /\ \A c \in Clients \ {client} : closeAt'[c] = closeAt[c]
        BY Replaced DEF Clients
    <1>2. now \in Nat /\ Grace \in Nat /\ Clients \subseteq Nat /\ closed \subseteq Clients
        BY Numbers DEF TypeOK, Clients
    <1>3. ASSUME NEW q \in Requests, using'[q] # 0
          PROVE  using'[q] <= client' /\ (using'[q] < client' => closeAt'[using'[q]] >= startedAt'[q] + Grace)
        <2>1. CASE using'[q] = client'
            BY <1>1, <2>1
        <2>2. CASE using'[q] = using[q] /\ startedAt'[q] = startedAt[q]
            <3>1. /\ using[q] \in Clients /\ using[q] \in Nat /\ using[q] <= client
                  /\ using[q] < client => closeAt[using[q]] >= startedAt[q] + Grace
                BY <1>2, <1>3, <2>2 DEF TypeOK, Clientele, Running
            <3>2. startedAt[q] \in Nat /\ startedAt[q] <= now
                BY DEF TypeOK
            <3>3. CASE using[q] = client
                BY <1>1, <1>2, <2>2, <3>2, <3>3
            <3>4. CASE using[q] # client
                BY <1>1, <1>2, <2>2, <3>1, <3>4
            <3>5. QED
                BY <3>3, <3>4
        <2>3. QED
            BY <1>3, <2>1, <2>2
    <1>4. \A c \in closed : c \in Clients /\ c # client /\ c < client /\ c < client'
        BY <1>1, <1>2 DEF Clientele
    <1>5. \A c \in closed : c <= client' /\ closeAt'[c] # 0 /\ now >= closeAt'[c]
        <2>1. \A c \in closed : closeAt[c] # 0 /\ now >= closeAt[c]
            BY <1>4 DEF Clientele
        <2>2. ASSUME NEW c \in closed PROVE c <= client' /\ closeAt'[c] = closeAt[c]
            <3>1. c \in Clients \ {client} /\ c \in Nat /\ c < client'
                BY <1>2, <1>4
            <3>2. client' \in Nat
                BY <1>1
            <3>3. QED
                BY <1>1, <3>1, <3>2
        <2>3. QED
            BY <2>1, <2>2
    <1>6. client' \notin closed
        BY <1>1, <1>4
    <1>7. \A c \in Clients : c >= client' => closeAt'[c] = 0
        <2>1. \A c \in Clients : c >= client' => c >= client /\ c # client
            BY <1>1, <1>2
        <2>2. QED
            BY <1>1, <2>1 DEF Clientele
    <1>8. QED
        BY <1>3, <1>5, <1>6, <1>7 DEF Clientele, Running

\* A step that keeps the client, and starts no request but on it.
LEMMA NoReplacementKeepsClientele ==
    ASSUME TypeOK, Clientele, UNCHANGED <<client, closeAt, closed, phase>>, now' \in {now, now + 1},
           \A q \in Requests : using'[q] # 0 =>
                \/ using'[q] = using[q] /\ startedAt'[q] = startedAt[q]
                \/ using'[q] = client /\ phase = "up"
    PROVE  Clientele'
    <1>1. now \in Nat /\ client \in Nat /\ Clients \subseteq Nat /\ closed \subseteq Clients
          /\ closeAt \in [Clients -> Nat]
        BY DEF TypeOK, Clients
    <1>2. \A q \in Requests : using'[q] # 0 =>
                /\ phase = "up"
                /\ using'[q] <= client
                /\ using'[q] < client => closeAt[using'[q]] >= startedAt'[q] + Grace
        BY <1>1 DEF Clientele, Running
    <1>3. \A c \in closed : now >= closeAt[c] => now' >= closeAt[c]
        BY <1>1
    <1>4. QED
        BY <1>2, <1>3 DEF Clientele, Running

\* What a pool timeout does: either the client is replaced, and the deque and the
\* evidence start anew, or it is kept, and both have one more.
LEMMA PoolTimeoutCases ==
    ASSUME TypeOK, NEW r \in Requests, PoolTimeout(r)
    PROVE  LET events == Pruned(Append(poolTimeoutEvents, now)) IN
           \/ /\ Len(events) >= PoolTimeoutThreshold
              /\ poolTimeoutEvents' = <<>> /\ evidence' = <<>> /\ requestCount' = 0
              /\ ReplaceClient("pool_timeout")
           \/ /\ ~(Len(events) >= PoolTimeoutThreshold)
              /\ poolTimeoutEvents' = events /\ evidence' = Append(evidence, now)
              /\ UNCHANGED <<transport, requestCount>>
    BY DEF PoolTimeout, RecordPoolTimeout

\* Types, and who uses which client, are kept by every step.
LEMMA TypesKept ==
    ASSUME TypeOK, [Next]_vars
    PROVE  TypeOK'
    <1>0. now \in Nat \ {0} /\ createdAt \in 1..now
        BY DEF TypeOK
    <1>1. ASSUME NEW r \in Requests, Begin(r)
          PROVE  TypeOK'
        <2>1. CASE WornOut = "none" /\ requestCount' = requestCount + 1 /\ UNCHANGED transport
            <3>1. requestCount < ClientMaxRequests
                BY <2>1, Numbers DEF WornOut, TypeOK
            <3>2. requestCount' \in 0..ClientMaxRequests
                BY <2>1, <3>1, Numbers DEF TypeOK
            <3>3. using' \in [Requests -> {0} \cup Clients]
                BY <1>1, <2>1 DEF Begin, transport, TypeOK
            <3>4. attempt' \in [Requests -> 0..Attempts]
                BY <1>1, Numbers DEF Begin, TypeOK
            <3>5. startedAt' \in [Requests -> 0..now]
                BY <1>0, <1>1 DEF Begin, TypeOK
            <3>6. QED
                BY <1>1, <2>1, <3>2, <3>3, <3>4, <3>5 DEF Begin, transport, TypeOK
        <2>2. CASE WornOut # "none" /\ ReplaceClient(WornOut) /\ requestCount' = 1
            <3>1. WornOut \in {"ttl", "max_requests"}
                BY <2>2 DEF WornOut
            <3>2. /\ client' \in Clients /\ createdAt' = now /\ lastReason' = WornOut
                  /\ lastRecycleAt' = now /\ closeAt' \in [Clients -> Nat]
                BY <2>2, Replaced
            <3>3. using' \in [Requests -> {0} \cup Clients]
                BY <1>1, <3>2 DEF Begin, TypeOK
            <3>4. attempt' \in [Requests -> 0..Attempts]
                BY <1>1, Numbers DEF Begin, TypeOK
            <3>5. startedAt' \in [Requests -> 0..now]
                BY <1>0, <1>1 DEF Begin, TypeOK
            <3>6. requestCount' \in 0..ClientMaxRequests
                BY <2>2, Numbers
            <3>7. QED
                BY <1>0, <1>1, <3>1, <3>2, <3>3, <3>4, <3>5, <3>6 DEF Begin, TypeOK
        <2>3. QED
            BY <1>1, <2>1, <2>2 DEF Begin
    <1>2. ASSUME NEW r \in Requests, Retry(r)
          PROVE  TypeOK'
        <2>1. attempt' \in [Requests -> 0..Attempts]
            BY <1>2, Numbers DEF Retry, TypeOK
        <2>2. QED
            BY <1>2, <2>1 DEF Retry, transport, TypeOK
    <1>3. ASSUME NEW r \in Requests,
                 /\ using' = [using EXCEPT ![r] = 0]
                 /\ attempt' = [attempt EXCEPT ![r] = 0]
                 /\ startedAt' = [startedAt EXCEPT ![r] = 0]
          PROVE  /\ using' \in [Requests -> {0} \cup Clients]
                 /\ attempt' \in [Requests -> 0..Attempts]
                 /\ startedAt' \in [Requests -> 0..now]
        BY <1>0, <1>3, Numbers DEF TypeOK
    <1>4. ASSUME NEW r \in Requests, Finish(r)
          PROVE  TypeOK'
        BY <1>3, <1>4 DEF Finish, transport, TypeOK
    <1>5. ASSUME NEW r \in Requests, PoolTimeout(r)
          PROVE  TypeOK'
        <2> DEFINE events == Pruned(Append(poolTimeoutEvents, now))
        <2>1. /\ using' \in [Requests -> {0} \cup Clients]
              /\ attempt' \in [Requests -> 0..Attempts]
              /\ startedAt' \in [Requests -> 0..now]
              /\ now' = now /\ closed' = closed /\ phase' = phase /\ lastTimeout' = now
            BY <1>3, <1>5 DEF PoolTimeout
        <2>2. events \in Seq(1..now)
            BY DequeAfterTimeout
        <2>3. Append(evidence, now) \in Seq(1..now)
            BY <1>0, OneMore DEF TypeOK
        <2>4. <<>> \in Seq(1..now) /\ 0 \in 0..ClientMaxRequests
            BY Numbers
        <2> HIDE DEF events
        <2>5. CASE /\ poolTimeoutEvents' = <<>> /\ evidence' = <<>> /\ requestCount' = 0
                   /\ ReplaceClient("pool_timeout")
            <3>1. /\ client' \in Clients /\ createdAt' = now /\ lastReason' = "pool_timeout"
                  /\ lastRecycleAt' = now /\ closeAt' \in [Clients -> Nat]
                BY <2>5, Replaced
            <3>2. now \in 1..now /\ now \in 0..now
                BY <1>0 DEF TypeOK
            <3>3. QED
                BY <2>1, <2>4, <2>5, <3>1, <3>2 DEF TypeOK
        <2>6. CASE /\ poolTimeoutEvents' = events /\ evidence' = Append(evidence, now)
                   /\ UNCHANGED <<transport, requestCount>>
            BY <1>0, <2>1, <2>2, <2>3, <2>6 DEF TypeOK, transport
        <2>7. QED
            BY <1>5, <2>5, <2>6, PoolTimeoutCases DEF events
    <1>6. CASE RecycleCloseWait
        <2>1. ReplaceClient("close_wait") /\ requestCount' = 0 /\ 0 \in 0..ClientMaxRequests
            BY <1>6, Numbers DEF RecycleCloseWait
        <2>2. QED
            BY <1>0, <1>6, <2>1, Replaced DEF RecycleCloseWait, requests, TypeOK
    <1>7. ASSUME NEW c \in Clients, CloseRetired(c)
          PROVE  TypeOK'
        BY <1>7 DEF CloseRetired, transport, requests, TypeOK
    <1>8. CASE Shutdown \/ CloseCurrent
        BY <1>8 DEF Shutdown, CloseCurrent, transport, requests, TypeOK
    <1>9. CASE Tick
        <2>1. now' = now + 1 /\ now \in Nat
            BY <1>0, <1>9 DEF Tick
        <2>2. poolTimeoutEvents \in Seq(1..(now + 1)) /\ evidence \in Seq(1..(now + 1))
            BY <2>1, TimesGrow DEF TypeOK
        <2>3. createdAt \in 1..(now + 1) /\ lastRecycleAt \in 0..(now + 1) /\ lastTimeout \in 0..(now + 1)
            BY <2>1 DEF TypeOK
        <2>4. startedAt \in [Requests -> 0..(now + 1)]
            <3>1. 0..now \subseteq 0..(now + 1)
                BY <2>1
            <3>2. QED
                BY <3>1 DEF TypeOK
        <2>5. QED
            BY <1>9, <2>1, <2>2, <2>3, <2>4 DEF Tick, transport, requests, TypeOK
    <1>10. CASE UNCHANGED vars
        BY <1>10 DEF vars, transport, requests, TypeOK
    <1>11. QED
        BY <1>1, <1>2, <1>4, <1>5, <1>6, <1>7, <1>8, <1>9, <1>10 DEF Next

\* Who uses which client, and which are closed, is kept by every step.
LEMMA ClienteleKept ==
    ASSUME TypeOK, Clientele, [Next]_vars
    PROVE  Clientele'
    <1>1. ASSUME NEW r \in Requests, Begin(r)
          PROVE  Clientele'
        <2>1. \A q \in Requests : using'[q] # 0 =>
                \/ using'[q] = using[q] /\ startedAt'[q] = startedAt[q]
                \/ using'[q] = client'
            BY <1>1 DEF Begin, TypeOK
        <2>2. phase = "up" /\ UNCHANGED <<now, closed, phase>>
            BY <1>1 DEF Begin
        <2>3. CASE UNCHANGED transport
            BY <2>1, <2>2, <2>3, NoReplacementKeepsClientele DEF transport
        <2>4. CASE ReplaceClient(WornOut)
            BY <2>1, <2>2, <2>4, ReplacementKeepsClientele
        <2>5. QED
            BY <1>1, <2>3, <2>4 DEF Begin
    <1>2. ASSUME NEW r \in Requests, Retry(r)
          PROVE  Clientele'
        BY <1>2, NoReplacementKeepsClientele DEF Retry, transport
    <1>3. ASSUME NEW r \in Requests, Finish(r) \/ PoolTimeout(r)
          PROVE  Clientele'
        <2>1. \A q \in Requests : using'[q] # 0 => using'[q] = using[q] /\ startedAt'[q] = startedAt[q]
            BY <1>3 DEF Finish, PoolTimeout, TypeOK
        <2>2. UNCHANGED <<now, closed, phase>>
            BY <1>3 DEF Finish, PoolTimeout
        <2>3. CASE UNCHANGED transport
            BY <2>1, <2>2, <2>3, NoReplacementKeepsClientele DEF transport
        <2>4. CASE ReplaceClient("pool_timeout") /\ Running(r)
            <3>1. phase = "up"
                BY <2>4 DEF Clientele
            <3>2. QED
                BY <2>1, <2>2, <2>4, <3>1, ReplacementKeepsClientele
        <2>5. QED
            BY <1>3, <2>3, <2>4 DEF Finish, PoolTimeout, RecordPoolTimeout
    <1>4. CASE RecycleCloseWait
        BY <1>4, ReplacementKeepsClientele DEF RecycleCloseWait, requests
    <1>5. ASSUME NEW c \in Clients, CloseRetired(c)
          PROVE  Clientele'
        <2>1. closeAt[c] # 0 /\ now >= closeAt[c] /\ closed' = closed \cup {c}
            BY <1>5 DEF CloseRetired, Retiring
        <2>2. c < client
            BY <2>1 DEF Clientele, TypeOK, Clients
        <2>3. c # client /\ c <= client
            BY <2>2 DEF TypeOK, Clients
        <2>4. UNCHANGED <<now, client, closeAt, using, startedAt, phase>>
            BY <1>5 DEF CloseRetired, transport, requests
        <2>5. QED
            BY <2>1, <2>2, <2>3, <2>4 DEF Clientele, Running
    <1>6. CASE Shutdown
        BY <1>6 DEF Shutdown, transport, requests, Clientele, Running
    <1>7. CASE CloseCurrent
        <2>1. /\ closed' = closed \cup {client} /\ phase' = "down"
              /\ UNCHANGED <<now, client, closeAt, using, startedAt>>
              /\ phase = "closing"
            BY <1>7 DEF CloseCurrent, transport, requests
        <2>2. client <= client /\ ~(client < client)
            BY DEF TypeOK, Clients
        <2>3. QED
            BY <2>1, <2>2 DEF Clientele, Running
    <1>8. CASE Tick
        BY <1>8, NoReplacementKeepsClientele DEF Tick, transport, requests
    <1>9. CASE UNCHANGED vars
        BY <1>9, NoReplacementKeepsClientele DEF vars, transport, requests
    <1>10. QED
        BY <1>1, <1>2, <1>3, <1>4, <1>5, <1>6, <1>7, <1>8, <1>9 DEF Next

\* Types and the use of clients hold throughout.
THEOREM ClienteleHolds == Spec => [](TypeOK /\ Clientele)
    <1>1. Init => TypeOK
        <2> SUFFICES ASSUME Init PROVE TypeOK
            OBVIOUS
        <2>1. 1 \in Clients /\ 0 \in 0..ClientMaxRequests /\ 0 \in 0..Attempts
            BY Numbers DEF Clients
        <2>2. <<>> \in Seq(1..1)
            OBVIOUS
        <2>3. QED
            BY <2>1, <2>2 DEF Init, TypeOK
    <1>2. Init => Clientele
        BY DEF Init, Clientele, Running, Clients
    <1>3. TypeOK /\ Clientele /\ [Next]_vars => (TypeOK /\ Clientele)'
        BY TypesKept, ClienteleKept
    <1>4. QED
        BY <1>1, <1>2, <1>3, PTL DEF Spec

\* Everything has its type; no client serves more requests than it may.
THEOREM TypeCorrect == Spec => []TypeOK
    BY ClienteleHolds, PTL

\* No call whose deadline is within the grace loses its client before its time is up,
\* and the current client is open until shutdown.
THEOREM ClientsOutliveCalls == Spec => []CallsKeepClient
    <1>1. ASSUME TypeOK, Clientele
          PROVE  CallsKeepClient
        <2>1. ASSUME NEW r \in Requests, Running(r), Budget[r] <= Grace, using[r] \in closed
              PROVE  OutOfTime(r)
            <3>1. /\ phase = "up" /\ using[r] <= client /\ using[r] \in Clients
                  /\ using[r] < client => closeAt[using[r]] >= startedAt[r] + Grace
                BY <1>1, <2>1 DEF Clientele, TypeOK
            <3>2. using[r] # client
                BY <1>1, <2>1, <3>1 DEF Clientele
            <3>3. using[r] < client
                BY <1>1, <3>1, <3>2 DEF TypeOK, Clients
            <3>4. now >= closeAt[using[r]]
                BY <1>1, <2>1, <3>3 DEF Clientele
            <3>5. /\ now \in Nat /\ startedAt[r] \in Nat /\ closeAt[using[r]] \in Nat
                  /\ Grace \in Nat /\ Budget[r] \in Nat
                BY <1>1, <3>1, Numbers DEF TypeOK
            <3>6. now >= startedAt[r] + Budget[r]
                BY <2>1, <3>1, <3>3, <3>4, <3>5
            <3>7. QED
                BY <3>6 DEF OutOfTime
        <2>2. QED
            BY <1>1, <2>1 DEF Clientele, CallsKeepClient
    <1>2. QED
        BY <1>1, ClienteleHolds, PTL

-----------------------------------------------------------------------------
(* Pool timeouts.                                                          *)

\* With the evidence in order, the deque after a pool timeout has one event for each
\* piece of evidence inside the window, and the new one.
LEMMA DequeCountsEvidence ==
    ASSUME TypeOK, DequeEndsEvidence
    PROVE  /\ Recent(evidence) \in Nat
           /\ Len(Pruned(Append(poolTimeoutEvents, now))) = Recent(evidence) + 1
    <1> DEFINE events == Append(poolTimeoutEvents, now)
               n == Len(evidence)
               p == Len(poolTimeoutEvents)
               cutoff == now - RecycleWindow
    <1>1. /\ now \in Nat \ {0} /\ cutoff \in Int /\ cutoff <= now
          /\ n \in Nat /\ DOMAIN evidence = 1..n
          /\ \A i \in 1..n : evidence[i] \in Nat
          /\ p \in Nat
        BY Numbers, LenProperties, ElementOfSeq DEF TypeOK
    <1>2. PICK k \in 0..n :
            /\ p = n - k
            /\ \A i \in 1..p : poolTimeoutEvents[i] = evidence[i + k]
            /\ \A i \in 1..k : evidence[i] < cutoff
        BY DEF DequeEndsEvidence
    <1>3. PICK m \in 0..p :
            /\ Len(Pruned(events)) = p + 1 - m
            /\ \A i \in 1..m : events[i] < cutoff
            /\ events[m + 1] >= cutoff
        BY DequeAfterTimeout
    <1>4. /\ \A i \in 1..p : events[i] = poolTimeoutEvents[i]
          /\ events[p + 1] = now
        BY <1>1, OneMore DEF TypeOK
    <1>5. \A i, j \in 1..n : i <= j => evidence[i] <= evidence[j]
        BY DEF DequeEndsEvidence
    <1> HIDE DEF events, n, p, cutoff
    <1>6. \A i \in 1..(k + m) : evidence[i] < cutoff
        <2>1. SUFFICES ASSUME NEW i \in 1..(k + m), i > k PROVE evidence[i] < cutoff
            BY <1>1, <1>2, <1>3
        <2>2. i - k \in 1..m /\ i - k \in 1..p /\ i - k + k = i
            BY <1>1, <1>2, <1>3, <2>1
        <2>3. QED
            BY <1>2, <1>3, <1>4, <2>2
    <1>7. \A i \in (k + m + 1)..n : evidence[i] >= cutoff
        <2>1. SUFFICES ASSUME NEW i \in (k + m + 1)..n PROVE evidence[i] >= cutoff
            OBVIOUS
        <2>2. m + 1 \in 1..p /\ k + m + 1 \in 1..n /\ i \in 1..n /\ k + m + 1 <= i
              /\ m + 1 + k = k + m + 1
            BY <1>1, <1>2, <1>3
        <2>3. evidence[k + m + 1] >= cutoff
            BY <1>2, <1>3, <1>4, <2>2
        <2>4. evidence[k + m + 1] <= evidence[i]
            BY <1>5, <2>2
        <2>5. QED
            BY <1>1, <2>2, <2>3, <2>4
    <1>8. {i \in DOMAIN evidence : evidence[i] >= cutoff} = (k + m + 1)..n
        <2>1. ASSUME NEW i \in 1..n
              PROVE  evidence[i] >= cutoff <=> i \in (k + m + 1)..n
            <3>1. i \in 1..(k + m) \/ i \in (k + m + 1)..n
                BY <1>1, <1>2, <1>3
            <3>2. i \in 1..(k + m) => ~(evidence[i] >= cutoff) /\ i \notin (k + m + 1)..n
                BY <1>1, <1>2, <1>3, <1>6
            <3>3. QED
                BY <1>7, <3>1, <3>2
        <2>2. \A i \in (k + m + 1)..n : i \in 1..n
            BY <1>1, <1>2, <1>3
        <2>3. DOMAIN evidence = 1..n
            BY <1>1
        <2>4. \A i : i \in {j \in DOMAIN evidence : evidence[j] >= cutoff} <=> i \in (k + m + 1)..n
            BY <2>1, <2>2, <2>3
        <2>5. QED
            BY <2>4
    <1>9. Cardinality((k + m + 1)..n) = n - k - m
        <2>1. k + m + 1 \in Int /\ n \in Int /\ (k + m + 1 > n => n - k - m = 0)
            BY <1>1, <1>2, <1>3
        <2>2. Cardinality((k + m + 1)..n) = IF k + m + 1 > n THEN 0 ELSE n - (k + m + 1) + 1
            BY <2>1, FS_Interval
        <2>3. n - (k + m + 1) + 1 = n - k - m
            BY <1>1, <1>2, <1>3
        <2>4. QED
            BY <2>1, <2>2, <2>3
    <1>10. Recent(evidence) = n - k - m
        BY <1>8, <1>9 DEF Recent, cutoff
    <1>11. n - k - m \in Nat /\ p + 1 - m = n - k - m + 1
        BY <1>1, <1>2, <1>3
    <1>12. QED
        BY <1>3, <1>10, <1>11 DEF events

\* One more piece of evidence counts, since it is inside the window.
LEMMA OneMoreRecent ==
    ASSUME TypeOK, DequeEndsEvidence
    PROVE  Recent(Append(evidence, now)) = Recent(evidence) + 1
    <1> DEFINE more == Append(evidence, now)
               n == Len(evidence)
               cutoff == now - RecycleWindow
               old == {i \in DOMAIN evidence : evidence[i] >= cutoff}
    <1>1. /\ now \in Nat \ {0} /\ now >= cutoff
          /\ n \in Nat /\ DOMAIN evidence = 1..n
        BY Numbers, LenProperties DEF TypeOK
    <1>2. /\ Len(more) = n + 1 /\ DOMAIN more = 1..(n + 1)
          /\ more[n + 1] = now /\ \A i \in 1..n : more[i] = evidence[i]
        <2>1. more \in Seq(1..now)
            BY <1>1, OneMore DEF TypeOK
        <2>2. QED
            BY <1>1, <2>1, OneMore, LenProperties DEF TypeOK
    <1> HIDE DEF more, n, cutoff
    <1>3. {i \in DOMAIN more : more[i] >= cutoff} = old \cup {n + 1}
        <2>1. \A i : i \in 1..(n + 1) <=> i \in 1..n \/ i = n + 1
            BY <1>1
        <2>2. QED
            BY <1>1, <1>2, <2>1
    <1>4. IsFiniteSet(old) /\ n + 1 \notin old
        <2>1. old \subseteq 1..n /\ IsFiniteSet(1..n) /\ n + 1 \notin 1..n
            BY <1>1, FS_Interval
        <2>2. QED
            BY <2>1, FS_Subset
    <1> HIDE DEF old
    <1>5. Cardinality(old \cup {n + 1}) = Cardinality(old) + 1
        BY <1>4, FS_AddElement
    <1>6. QED
        BY <1>3, <1>5 DEF Recent, more, cutoff, old

\* The deque keeps being the end of the evidence.
LEMMA DequeKept ==
    ASSUME TypeOK, TypeOK', DequeEndsEvidence, [Next]_vars
    PROVE  DequeEndsEvidence'
    <1> DEFINE n == Len(evidence)
               p == Len(poolTimeoutEvents)
    <1>1. /\ now \in Nat \ {0} /\ n \in Nat /\ p \in Nat
          /\ \A i \in 1..n : evidence[i] \in Nat /\ evidence[i] <= now
          /\ RecycleWindow \in Nat
        <2>1. now \in Nat \ {0} /\ RecycleWindow \in Nat
            BY Numbers DEF TypeOK
        <2>2. n \in Nat /\ p \in Nat /\ \A i \in 1..n : evidence[i] \in 1..now
            BY LenProperties, ElementOfSeq DEF TypeOK
        <2>3. \A i \in 1..n : evidence[i] \in Nat /\ evidence[i] <= now
            BY <2>1, <2>2
        <2>4. QED
            BY <2>1, <2>2, <2>3
    <1>2. CASE UNCHANGED <<poolTimeoutEvents, evidence>> /\ now' \in {now, now + 1}
        <2>1. \A i \in 1..n : evidence[i] < now - RecycleWindow => evidence[i] < now' - RecycleWindow
            BY <1>1, <1>2
        <2>2. \A k \in 0..n : \A i \in 1..k : i \in 1..n
            BY <1>1
        <2> HIDE DEF n, p
        <2>3. QED
            BY <1>2, <2>1, <2>2 DEF DequeEndsEvidence, n
    <1>3. CASE poolTimeoutEvents' = <<>> /\ evidence' = <<>>
        <2>1. Len(poolTimeoutEvents') = 0 /\ Len(evidence') = 0
            BY <1>3
        <2>2. 0 \in 0..Len(evidence') /\ Len(poolTimeoutEvents') = Len(evidence') - 0
              /\ \A i \in 1..0 : FALSE
            BY <2>1
        <2>3. QED
            BY <2>1, <2>2 DEF DequeEndsEvidence
    <1>4. ASSUME /\ poolTimeoutEvents' = Pruned(Append(poolTimeoutEvents, now))
                 /\ evidence' = Append(evidence, now)
                 /\ now' = now
          PROVE  DequeEndsEvidence'
        <2> DEFINE events == Append(poolTimeoutEvents, now)
                   more == Append(evidence, now)
        <2>1. PICK k \in 0..n :
                /\ p = n - k
                /\ \A i \in 1..p : poolTimeoutEvents[i] = evidence[i + k]
                /\ \A i \in 1..k : evidence[i] < now - RecycleWindow
            BY DEF DequeEndsEvidence
        <2>2. /\ \A i \in 1..p : events[i] = poolTimeoutEvents[i]
              /\ events[p + 1] = now /\ Len(events) = p + 1
              /\ \A i \in 1..n : more[i] = evidence[i]
              /\ more[n + 1] = now /\ Len(more) = n + 1
            BY <1>1, OneMore DEF TypeOK
        <2>3. PICK m \in 0..p :
                /\ Len(Pruned(events)) = p + 1 - m
                /\ \A i \in 1..(Len(events) - m) : Pruned(events)[i] = events[i + m]
                /\ \A i \in 1..m : events[i] < now - RecycleWindow
            BY DequeAfterTimeout
        <2> HIDE DEF events, more, n, p
        <2>4. \A i \in 1..(p + 1) : events[i] = more[i + k]
            <3>1. ASSUME NEW i \in 1..p
                  PROVE  events[i] = more[i + k]
                <4>1. i + k \in 1..n
                    BY <1>1, <2>1
                <4>2. QED
                    BY <2>1, <2>2, <4>1
            <3>2. p + 1 + k = n + 1
                BY <1>1, <2>1
            <3>3. \A i \in 1..(p + 1) : i \in 1..p \/ i = p + 1
                BY <1>1
            <3>4. QED
                BY <2>2, <3>1, <3>2, <3>3
        <2>5. k + m \in 0..(n + 1) /\ p + 1 - m = n + 1 - (k + m)
            BY <1>1, <2>1, <2>3
        <2>6. \A i \in 1..(p + 1 - m) : Pruned(events)[i] = more[i + (k + m)]
            <3>1. SUFFICES ASSUME NEW i \in 1..(p + 1 - m)
                           PROVE  Pruned(events)[i] = more[i + (k + m)]
                OBVIOUS
            <3>1a. Len(events) - m = p + 1 - m
                BY <1>1, <2>2, <2>3
            <3>2. Pruned(events)[i] = events[i + m]
                BY <2>3, <3>1, <3>1a
            <3>3. i + m \in 1..(p + 1) /\ i + m + k = i + (k + m)
                BY <1>1, <2>1, <2>3
            <3>4. QED
                BY <2>4, <3>2, <3>3
        <2>7. \A i \in 1..(k + m) : more[i] < now - RecycleWindow
            <3>1. SUFFICES ASSUME NEW i \in 1..(k + m)
                           PROVE  more[i] < now - RecycleWindow
                OBVIOUS
            <3>2. CASE i \in 1..k
                <4>1. i \in 1..n
                    BY <1>1, <2>1, <3>2
                <4>2. QED
                    BY <2>1, <2>2, <3>2, <4>1
            <3>3. CASE i \notin 1..k
                <4>1. i - k \in 1..m /\ i - k \in 1..(p + 1) /\ i - k + k = i
                    BY <1>1, <2>1, <2>3, <3>3
                <4>2. QED
                    BY <2>3, <2>4, <4>1
            <3>4. QED
                BY <3>2, <3>3
        <2>8. \A i, j \in 1..(n + 1) : i <= j => more[i] <= more[j]
            <3>1. SUFFICES ASSUME NEW i \in 1..(n + 1), NEW j \in 1..(n + 1), i <= j
                           PROVE  more[i] <= more[j]
                OBVIOUS
            <3>2. CASE j \in 1..n
                <4>1. i \in 1..n
                    BY <1>1, <3>1, <3>2
                <4>2. QED
                    BY <2>2, <3>1, <3>2, <4>1 DEF DequeEndsEvidence, n
            <3>3. CASE j = n + 1 /\ i \in 1..n
                BY <1>1, <2>2, <3>3
            <3>4. CASE j = n + 1 /\ i = n + 1
                BY <1>1, <2>2, <3>4
            <3>5. QED
                BY <1>1, <3>1, <3>2, <3>3, <3>4
        <2>9. \E l \in 0..(n + 1) :
                /\ p + 1 - m = n + 1 - l
                /\ \A i \in 1..(p + 1 - m) : Pruned(events)[i] = more[i + l]
                /\ \A i \in 1..l : more[i] < now - RecycleWindow
            BY <2>5, <2>6, <2>7
        <2>10. poolTimeoutEvents' = Pruned(events) /\ evidence' = more /\ now' = now
               /\ Len(more) = n + 1 /\ Len(Pruned(events)) = p + 1 - m
            BY <1>4, <2>2, <2>3 DEF events, more
        <2>11. Len(poolTimeoutEvents') = p + 1 - m /\ Len(evidence') = n + 1
            BY <2>10
        <2>12. PICK l \in 0..(n + 1) :
                /\ p + 1 - m = n + 1 - l
                /\ \A i \in 1..(p + 1 - m) : Pruned(events)[i] = more[i + l]
                /\ \A i \in 1..l : more[i] < now - RecycleWindow
            BY <2>9
        <2>12a. /\ l \in 0..Len(evidence')
                /\ Len(poolTimeoutEvents') = Len(evidence') - l
                /\ \A i \in 1..Len(poolTimeoutEvents') : poolTimeoutEvents'[i] = evidence'[i + l]
                /\ \A i \in 1..l : evidence'[i] < now' - RecycleWindow
            BY <1>1, <2>5, <2>10, <2>11, <2>12
        <2>13. \A i, j \in 1..Len(evidence') : i <= j => evidence'[i] <= evidence'[j]
            BY <2>8, <2>10, <2>11
        <2>14. QED
            BY <2>12a, <2>13 DEF DequeEndsEvidence
    <1>5. ASSUME NEW r \in Requests, PoolTimeout(r)
          PROVE  DequeEndsEvidence'
        <2>1. now' = now
            BY <1>5 DEF PoolTimeout
        <2>2. QED
            BY <1>3, <1>4, <1>5, <2>1, PoolTimeoutCases
    <1>6. ASSUME NEW r \in Requests, Begin(r) \/ Retry(r) \/ Finish(r)
          PROVE  DequeEndsEvidence'
        BY <1>2, <1>6 DEF Begin, Retry, Finish
    <1>7. ASSUME NEW c \in Clients, CloseRetired(c)
          PROVE  DequeEndsEvidence'
        BY <1>2, <1>7 DEF CloseRetired
    <1>8. RecycleCloseWait \/ Shutdown \/ CloseCurrent \/ Tick \/ UNCHANGED vars => DequeEndsEvidence'
        BY <1>2 DEF RecycleCloseWait, Shutdown, CloseCurrent, Tick, vars
    <1>9. QED
        BY <1>5, <1>6, <1>7, <1>8 DEF Next

\* Every step knows of the last pool timeout.
LEMMA LastTimeoutKept ==
    ASSUME TypeOK, TypeOK', LastTimeoutSeen, [Next]_vars
    PROVE  LastTimeoutSeen'
    <1>1. /\ now \in Nat \ {0} /\ lastTimeout \in Nat /\ lastTimeout <= now
          /\ lastRecycleAt \in Nat /\ lastRecycleAt <= now
        BY DEF TypeOK
    <1>2. CASE UNCHANGED <<poolTimeoutEvents, lastTimeout, lastReason, lastRecycleAt>>
        BY <1>2 DEF LastTimeoutSeen
    <1>3. CASE /\ UNCHANGED <<poolTimeoutEvents, lastTimeout>>
               /\ lastReason' \notin {"pool_timeout", "none"} /\ lastRecycleAt' = now
        BY <1>1, <1>3 DEF LastTimeoutSeen
    <1>4. CASE /\ poolTimeoutEvents' = <<>> /\ lastTimeout' = now
               /\ lastReason' = "pool_timeout" /\ lastRecycleAt' = now
        BY <1>1, <1>4 DEF LastTimeoutSeen
    <1>5. ASSUME /\ poolTimeoutEvents' = Pruned(Append(poolTimeoutEvents, now)) /\ lastTimeout' = now
                 /\ UNCHANGED <<lastReason, lastRecycleAt>>
          PROVE  LastTimeoutSeen'
        <2> DEFINE events == Append(poolTimeoutEvents, now)
                   p == Len(poolTimeoutEvents)
        <2>1. PICK m \in 0..p :
                /\ Pruned(events) \in Seq(1..now)
                /\ Len(Pruned(events)) = p + 1 - m
                /\ \A i \in 1..(Len(events) - m) : Pruned(events)[i] = events[i + m]
            BY DequeAfterTimeout
        <2>2. events[p + 1] = now /\ Len(events) = p + 1 /\ p \in Nat
            BY <1>1, OneMore, LenProperties DEF TypeOK
        <2>3. \A i \in 1..Len(Pruned(events)) : Pruned(events)[i] <= now
            <3>1. \A i \in 1..Len(Pruned(events)) : Pruned(events)[i] \in 1..now
                BY <2>1, ElementOfSeq
            <3>2. QED
                BY <1>1, <3>1
        <2> HIDE DEF events, p
        <2>4. p + 1 - m \in 1..(Len(events) - m) /\ p + 1 - m + m = p + 1
            BY <2>1, <2>2
        <2>5. Len(Pruned(events)) > 0 /\ Pruned(events)[Len(Pruned(events))] = now
            BY <2>1, <2>2, <2>4
        <2>6. lastReason = "pool_timeout" => 1 <= lastRecycleAt /\ lastRecycleAt <= now
            BY <1>1 DEF LastTimeoutSeen
        <2>7. poolTimeoutEvents' = Pruned(events) /\ lastTimeout' = now
              /\ UNCHANGED <<lastReason, lastRecycleAt>>
            BY <1>5 DEF events
        <2>8. QED
            BY <2>3, <2>5, <2>6, <2>7 DEF LastTimeoutSeen
    <1>6. ASSUME NEW r \in Requests, PoolTimeout(r)
          PROVE  LastTimeoutSeen'
        <2>1. lastTimeout' = now
            BY <1>6 DEF PoolTimeout
        <2>2. QED
            BY <1>4, <1>5, <1>6, <2>1, PoolTimeoutCases, Replaced DEF transport
    <1>7. ASSUME NEW r \in Requests, Begin(r)
          PROVE  LastTimeoutSeen'
        <2>1. WornOut # "none" => WornOut \in {"ttl", "max_requests"}
            BY DEF WornOut
        <2>2. QED
            BY <1>2, <1>3, <1>7, <2>1, Replaced DEF Begin, transport
    <1>8. ASSUME NEW r \in Requests, Retry(r) \/ Finish(r)
          PROVE  LastTimeoutSeen'
        BY <1>2, <1>8 DEF Retry, Finish, transport
    <1>9. CASE RecycleCloseWait
        <2>1. lastReason' = "close_wait" /\ lastRecycleAt' = now
            BY <1>9, Replaced DEF RecycleCloseWait
        <2>2. QED
            BY <1>3, <1>9, <2>1 DEF RecycleCloseWait
    <1>10. ASSUME NEW c \in Clients, CloseRetired(c)
           PROVE  LastTimeoutSeen'
        BY <1>2, <1>10 DEF CloseRetired, transport
    <1>11. Shutdown \/ CloseCurrent \/ Tick \/ UNCHANGED vars => LastTimeoutSeen'
        BY <1>2 DEF Shutdown, CloseCurrent, Tick, vars, transport
    <1>12. QED
        BY <1>6, <1>7, <1>8, <1>9, <1>10, <1>11 DEF Next

\* Deque, evidence and the last timeout agree throughout.
THEOREM TimeoutsHold == Spec => [](DequeEndsEvidence /\ LastTimeoutSeen)
    <1>1. Init => DequeEndsEvidence
        <2> SUFFICES ASSUME Init PROVE DequeEndsEvidence
            OBVIOUS
        <2>1. Len(poolTimeoutEvents) = 0 /\ Len(evidence) = 0
            BY DEF Init
        <2>2. 0 \in 0..Len(evidence) /\ Len(poolTimeoutEvents) = Len(evidence) - 0
              /\ \A i \in 1..0 : FALSE
            BY <2>1
        <2>3. QED
            BY <2>1, <2>2 DEF DequeEndsEvidence
    <1>2. Init => LastTimeoutSeen
        BY DEF Init, LastTimeoutSeen
    <1>3. TypeOK /\ TypeOK' /\ DequeEndsEvidence /\ [Next]_vars => DequeEndsEvidence'
        BY DequeKept
    <1>4. TypeOK /\ TypeOK' /\ LastTimeoutSeen /\ [Next]_vars => LastTimeoutSeen'
        BY LastTimeoutKept
    <1>5. QED
        BY <1>1, <1>2, <1>3, <1>4, TypeCorrect, PTL DEF Spec

\* Readiness gives the transport up for a pool timeout inside the window and only for
\* one, and recovers when it has left the window.
THEOREM ReadinessFollows == Spec => []ReadinessTracksTimeouts
    <1>1. ASSUME TypeOK, LastTimeoutSeen
          PROVE  ReadinessTracksTimeouts
        <2> DEFINE cutoff == now - RecycleWindow
                   inside == {i \in DOMAIN poolTimeoutEvents : poolTimeoutEvents[i] >= cutoff}
                   p == Len(poolTimeoutEvents)
        <2>1. /\ now \in Nat \ {0} /\ lastTimeout \in Nat /\ lastRecycleAt \in Nat
              /\ RecycleWindow \in Nat /\ p \in Nat /\ DOMAIN poolTimeoutEvents = 1..p
            BY <1>1, Numbers, LenProperties DEF TypeOK
        <2>2. \A i \in 1..p : poolTimeoutEvents[i] \in Nat \ {0} /\ poolTimeoutEvents[i] <= lastTimeout
            <3>1. \A i \in 1..p : poolTimeoutEvents[i] \in 1..now
                BY <1>1, ElementOfSeq DEF TypeOK
            <3>2. QED
                BY <1>1, <2>1, <3>1 DEF LastTimeoutSeen
        <2>3. IsFiniteSet(inside)
            <3>1. inside \subseteq 1..p /\ IsFiniteSet(1..p)
                BY <2>1, FS_Interval
            <3>2. QED
                BY <3>1, FS_Subset
        <2>4. RecentPoolTimeoutCount > 0 <=> inside # {}
            <3>1. RecentPoolTimeoutCount = Cardinality(inside)
                BY DEF RecentPoolTimeoutCount, Recent
            <3> HIDE DEF inside
            <3>2. Cardinality(inside) \in Nat /\ (Cardinality(inside) = 0 <=> inside = {})
                BY <2>3, FS_CardinalityType, FS_EmptySet
            <3>3. QED
                BY <3>1, <3>2
        <2>5. inside # {} => lastTimeout # 0 /\ lastTimeout >= cutoff
            <3>1. SUFFICES ASSUME NEW i \in inside PROVE lastTimeout # 0 /\ lastTimeout >= cutoff
                OBVIOUS
            <3>2. i \in 1..p /\ poolTimeoutEvents[i] >= cutoff
                BY <2>1
            <3>3. QED
                BY <2>1, <2>2, <3>2
        <2>6. RecentlyRecycled("pool_timeout") => lastTimeout # 0 /\ lastTimeout >= cutoff
            BY <1>1, <2>1 DEF RecentlyRecycled, LastTimeoutSeen
        <2>7. ASSUME lastTimeout # 0, lastTimeout >= cutoff
              PROVE  \/ inside # {} \/ RecentlyRecycled("pool_timeout")
                     \/ lastReason # "pool_timeout" /\ lastRecycleAt >= lastTimeout
            <3>1. CASE p > 0 /\ poolTimeoutEvents[p] = lastTimeout
                <4>1. p \in inside
                    BY <2>1, <2>7, <3>1
                <4>2. QED
                    BY <4>1
            <3>2. CASE lastReason # "none" /\ lastRecycleAt >= lastTimeout
                BY <2>1, <2>7, <3>2 DEF RecentlyRecycled
            <3>3. QED
                BY <1>1, <2>7, <3>1, <3>2 DEF LastTimeoutSeen
        <2> HIDE DEF inside
        <2>8. QED
            BY <2>4, <2>5, <2>6, <2>7 DEF ReadinessTracksTimeouts, TransportUnhealthy
    <1>2. QED
        BY <1>1, TypeCorrect, TimeoutsHold, PTL

\* Pool timeouts replace the client exactly when enough of them, counted since the
\* last time they did, are inside the window.
THEOREM RecyclesOnEvidence == Spec => RecycledOnEvidence
    <1> DEFINE Evident ==
            /\ client' # client /\ lastReason' = "pool_timeout"
                   => Recent(evidence) + 1 >= PoolTimeoutThreshold
            /\ Len(evidence') > Len(evidence) => Recent(evidence)' < PoolTimeoutThreshold
    <1>1. ASSUME TypeOK, DequeEndsEvidence, Next
          PROVE  Evident
        <2>1. Recent(evidence) \in Nat
              /\ Len(Pruned(Append(poolTimeoutEvents, now))) = Recent(evidence) + 1
            BY <1>1, DequeCountsEvidence
        <2>2. Len(evidence) \in Nat /\ ~(Len(evidence) > Len(evidence)) /\ PoolTimeoutThreshold \in Nat
            BY <1>1, LenProperties, Numbers DEF TypeOK
        <2>3. ASSUME NEW r \in Requests, PoolTimeout(r)
              PROVE  Evident
            <3>1. CASE /\ Len(Pruned(Append(poolTimeoutEvents, now))) >= PoolTimeoutThreshold
                       /\ evidence' = <<>>
                <4>1. ~(Len(evidence') > Len(evidence))
                    BY <2>2, <3>1
                <4>2. QED
                    BY <2>1, <3>1, <4>1
            <3>2. CASE /\ ~(Len(Pruned(Append(poolTimeoutEvents, now))) >= PoolTimeoutThreshold)
                       /\ evidence' = Append(evidence, now)
                       /\ UNCHANGED <<transport, requestCount>>
                <4>1. now' = now
                    BY <2>3 DEF PoolTimeout
                <4>2. Recent(evidence)' = Recent(Append(evidence, now))
                    BY <3>2, <4>1 DEF Recent
                <4>3. Recent(evidence)' < PoolTimeoutThreshold
                    BY <1>1, <2>1, <2>2, <3>2, <4>2, OneMoreRecent
                <4>4. client' = client
                    BY <3>2 DEF transport
                <4>5. QED
                    BY <4>3, <4>4
            <3>3. QED
                BY <1>1, <2>3, <3>1, <3>2, PoolTimeoutCases
        <2>4. ASSUME evidence' = evidence, client' = client \/ lastReason' # "pool_timeout"
              PROVE  Evident
            BY <2>2, <2>4
        <2>5. ASSUME NEW r \in Requests, Begin(r)
              PROVE  Evident
            <3>1. WornOut # "none" => WornOut \in {"ttl", "max_requests"}
                BY DEF WornOut
            <3>2. QED
                BY <1>1, <2>4, <2>5, <3>1, Replaced DEF Begin, transport
        <2>6. ASSUME NEW r \in Requests, Retry(r) \/ Finish(r)
              PROVE  Evident
            BY <2>4, <2>6 DEF Retry, Finish, transport
        <2>7. CASE RecycleCloseWait
            <3>1. lastReason' = "close_wait"
                BY <1>1, <2>7, Replaced DEF RecycleCloseWait
            <3>2. QED
                BY <2>4, <2>7, <3>1 DEF RecycleCloseWait
        <2>8. ASSUME NEW c \in Clients, CloseRetired(c)
              PROVE  Evident
            BY <2>4, <2>8 DEF CloseRetired, transport
        <2>9. Shutdown \/ CloseCurrent \/ Tick => Evident
            BY <2>4 DEF Shutdown, CloseCurrent, Tick, transport
        <2> HIDE DEF Evident
        <2>10. QED
            BY <1>1, <2>3, <2>5, <2>6, <2>7, <2>8, <2>9 DEF Next
    <1>2. ASSUME TypeOK, DequeEndsEvidence, [Next]_vars
          PROVE  [Evident]_vars
        BY <1>1, <1>2
    <1>3. QED
        BY <1>2, TypeCorrect, TimeoutsHold, PTL DEF Spec, RecycledOnEvidence
============================================================================
