-------------------------- MODULE TokenLogosProofs --------------------------
(* Proofs about TokenLogos, for every value of its constants.              *)
EXTENDS TokenLogos, FiniteSetTheorems, TLAPS

-----------------------------------------------------------------------------
(* Delays.                                                                 *)

\* A finite set of naturals that is not empty has a largest element.
LEMMA LargestExists ==
    ASSUME NEW S \in SUBSET Nat, IsFiniteSet(S), S # {}
    PROVE  \E m \in S : \A n \in S : m >= n
    <1> DEFINE Above(x) == {y \in S : y > x}
               T == {Above(x) : x \in S}
    <1>1. T \subseteq FiniteSubsetsOf(S) /\ T # {}
        <2>1. \A x \in S : Above(x) \in SUBSET S
            OBVIOUS
        <2>2. \A x \in S : Above(x) \in FiniteSubsetsOf(S)
            BY <2>1, FS_Subset DEF FiniteSubsetsOf
        <2>3. QED
            BY <2>2
    <1>2. IsWellFoundedOn(StrictSubsetOrdering(S), FiniteSubsetsOf(S))
        BY FS_StrictSubsetOrderingWellFounded
    <1>3. PICK U \in T : \A V \in T : <<V, U>> \notin StrictSubsetOrdering(S)
        <2> HIDE DEF T
        <2>1. QED
            BY <1>1, <1>2, WFMin
    <1>4. PICK m \in S : U = Above(m)
        OBVIOUS
    <1>5. ASSUME NEW n \in S, n > m
          PROVE  FALSE
        <2>0. m \in Nat /\ n \in Nat /\ \A y \in S : y \in Nat
            OBVIOUS
        <2>1. Above(n) \subseteq Above(m)
            <3>1. \A y \in S : y > n => y > m
                BY <2>0, <1>5
            <3>2. QED
                BY <3>1
        <2>1a. n \in Above(m) /\ n \notin Above(n)
            <3>1. ~(n > n)
                BY <2>0
            <3>2. QED
                BY <3>1, <1>5
        <2>2. <<Above(n), U>> \in StrictSubsetOrdering(S)
            BY <1>4, <2>1, <2>1a DEF StrictSubsetOrdering
        <2>3. QED
            BY <1>3, <2>2
    <1>6. \A n \in S : m >= n
        BY <1>5
    <1>7. QED
        BY <1>6

\* The largest element of such a set is in it and bounds it.
LEMMA MaxProperties ==
    ASSUME NEW S \in SUBSET Nat, IsFiniteSet(S), S # {}
    PROVE  Max(S) \in S /\ \A n \in S : n <= Max(S)
    BY LargestExists DEF Max

\* No delay is as long as the one that stands for NULL.
LEMMA DelayBounds ==
    /\ LongestWait \in Nat /\ Never \in Nat /\ LongestWait < Never
    /\ TransientCap <= LongestWait /\ RetryAfterCap <= LongestWait
    /\ \A delay \in UnavailableDelays : delay <= LongestWait
    <1> DEFINE D == UnavailableDelays \cup {TransientCap, RetryAfterCap}
               N == RetryAfters \cup {LongestWait}
    <1>1. D \in SUBSET Nat /\ IsFiniteSet(D) /\ D # {}
        <2>1. IsFiniteSet({TransientCap}) /\ IsFiniteSet({TransientCap} \cup {RetryAfterCap})
            BY FS_Singleton, FS_AddElement
        <2>2. {TransientCap} \cup {RetryAfterCap} = {TransientCap, RetryAfterCap}
            OBVIOUS
        <2>3. IsFiniteSet(D)
            BY <2>1, <2>2, LogosAssumption, FS_Union DEF LogosAssumption
        <2>4. QED
            BY <2>3, LogosAssumption DEF LogosAssumption
    <1>2. LongestWait \in D /\ \A delay \in D : delay <= LongestWait
        BY <1>1, MaxProperties DEF LongestWait
    <1>3. N \in SUBSET Nat /\ IsFiniteSet(N) /\ N # {}
        BY <1>1, <1>2, LogosAssumption, FS_AddElement DEF LogosAssumption
    <1>4. Max(N) \in N /\ LongestWait <= Max(N)
        BY <1>3, MaxProperties
    <1>5. QED
        BY <1>1, <1>2, <1>3, <1>4 DEF Never

\* What an attempt that may pass waits for is not longer.
LEMMA TransientBounds ==
    ASSUME NEW after \in RetryAfters \cup {0}, NEW delay \in TransientDelays(after)
    PROVE  delay \in 0..LongestWait
    <1>0. TransientCap \in Nat /\ RetryAfterCap \in Nat /\ RetryAfters \subseteq Nat
        BY LogosAssumption DEF LogosAssumption
    <1>1. after \in Nat /\ TransientCap \in Nat /\ RetryAfterCap \in Nat
        BY <1>0
    <1>2. PICK jittered \in 0..TransientCap :
            delay = IF after = 0 THEN jittered
                    ELSE Smaller(Larger(jittered, Smaller(after, RetryAfterCap)), RetryAfterCap)
        BY DEF TransientDelays
    <1>3. delay \in Nat /\ (delay <= TransientCap \/ delay <= RetryAfterCap)
        BY <1>1, <1>2 DEF Smaller, Larger
    <1>4. QED
        BY <1>1, <1>3, DelayBounds

-----------------------------------------------------------------------------
(* The inductive invariant.                                                *)

Rows == [known : BOOLEAN, image : BOOLEAN, wait : (Asap..LongestWait) \cup {Never}]

Typed ==
    /\ row \in [Tokens -> Rows]
    /\ listAge \in 0..RefreshInterval
    /\ main \in {"down", "refresh", "select", "gather", "poll"}
    /\ givenUp \in BOOLEAN
    /\ current \in Generations
    /\ job \in [Generations -> [Tokens -> {"none", "queued", "acquiring"}]]
    /\ cli \in [tokens : Lists \cup {{}}, force : BOOLEAN]

\* Attempts live in the process.
DownIsIdle == main = "down" => \A g \in Generations, t \in Tokens : job[g][t] = "none"

\* Until a batch is given up, there are attempts of the one gather waits for only.
OneBatch ==
    ~givenUp => \A g \in Generations, t \in Tokens :
                    job[g][t] # "none" => g = current /\ main = "gather"

\* Nor is a token whose image is stored being tried.
DoneIsIdle ==
    ~givenUp => \A t \in Tokens : row[t].image /\ ~Waits(row[t]) =>
                    \A g \in Generations : job[g][t] = "none"

\* A token without image, enrolled or not yet, has a time for its next attempt.
Remembered == \A t \in Tokens : ~row[t].image => Waits(row[t])

IInv == Typed /\ Remembered /\ DownIsIdle /\ OneBatch /\ DoneIsIdle

\* The invariant holds before anything is enrolled.
LEMMA InitInvariant == Init => IInv
    <1> SUFFICES ASSUME Init PROVE IInv
        OBVIOUS
    <1>1. RefreshInterval \in Nat /\ MaxOverdue \in Nat
        BY LogosAssumption DEF LogosAssumption
    <1>2. Asap \in Asap..LongestWait
        BY <1>1, DelayBounds DEF Asap
    <1>3. row \in [Tokens -> Rows]
        BY <1>2 DEF Init, Rows
    <1>3a. listAge \in 0..RefreshInterval /\ cli \in [tokens : Lists \cup {{}}, force : BOOLEAN]
        BY <1>1 DEF Init, Idle
    <1>3b. Typed
        BY <1>3, <1>3a DEF Init, Typed, Generations
    <1>4. QED
        BY <1>1, <1>2, <1>3b, DelayBounds DEF Asap, Init, Waits, IInv, Remembered, DownIsIdle, OneBatch, DoneIsIdle

\* What a row may become keeps its type: tried again at once, and known.
LEMMA RowsTyped ==
    ASSUME Typed
    PROVE  /\ Asap \in Int /\ LongestWait \in Nat /\ Asap <= 0
           /\ Never \in Nat /\ Never > LongestWait /\ Asap # Never
           /\ Asap \in Asap..LongestWait
           /\ \A t \in Tokens :
                /\ row[t] \in Rows
                /\ [row[t] EXCEPT !.known = TRUE] \in Rows
                /\ [row[t] EXCEPT !.wait = Asap] \in Rows
                /\ [row[t] EXCEPT !.known = TRUE, !.wait = Asap] \in Rows
    <1>1. MaxOverdue \in Nat
        BY LogosAssumption DEF LogosAssumption
    <1>2. /\ Asap \in Int /\ LongestWait \in Nat /\ Asap <= 0
          /\ Never \in Nat /\ Never > LongestWait
        BY <1>1, DelayBounds DEF Asap
    <1>3. Asap \in Asap..LongestWait /\ Asap # Never
        BY <1>2
    <1>4. QED
        BY <1>2, <1>3 DEF Typed, Rows

\* What an attempt leaves in the row of its token: an image that is stored stays, and
\* only a token with an image has no time for its next attempt.
LEMMA StoresResult ==
    ASSUME IInv, NEW g \in Generations, NEW t \in Tokens, EndAttempt(g, t)
    PROVE  \E image \in BOOLEAN, wait \in (0..LongestWait) \cup {Never} :
                /\ row' = [row EXCEPT ![t] = [known |-> TRUE, image |-> image, wait |-> wait]]
                /\ row[t].image => image
                /\ wait = Never => image
    <1>1. row[t].image \in BOOLEAN
        BY DEF Rows, IInv, Typed
    <1>2. ASSUME NEW delay \in 0..LongestWait, row' = Failed(t, delay)
          PROVE  \E wait \in 0..LongestWait :
                    row' = [row EXCEPT ![t] = [known |-> TRUE, image |-> row[t].image, wait |-> wait]]
        BY <1>2 DEF Failed
    <1>3. PICK replies \in Replies[t] :
            \/ row' = Stored(t)
            \/ \E after \in RetryAfter(replies) : \E delay \in TransientDelays(after) :
                    row' = Failed(t, delay)
            \/ \E delay \in UnavailableDelays : row' = Failed(t, delay)
        BY DEF EndAttempt
    <1>4. CASE row' = Stored(t)
        BY <1>4 DEF Stored
    <1>5. CASE \E after \in RetryAfter(replies) : \E delay \in TransientDelays(after) :
                    row' = Failed(t, delay)
        <2>1. PICK after \in RetryAfters \cup {0} : \E delay \in TransientDelays(after) :
                    row' = Failed(t, delay)
            BY <1>5 DEF RetryAfter
        <2>2. PICK delay \in 0..LongestWait : row' = Failed(t, delay)
            BY <2>1, TransientBounds
        <2>3. delay # Never
            BY DelayBounds
        <2>4. QED
            BY <1>1, <2>2, <2>3 DEF Failed
    <1>6. CASE \E delay \in UnavailableDelays : row' = Failed(t, delay)
        <2>1. PICK delay \in 0..LongestWait : row' = Failed(t, delay)
            BY <1>6, DelayBounds, LogosAssumption DEF LogosAssumption
        <2>2. delay # Never
            BY DelayBounds
        <2>3. QED
            BY <1>1, <2>1, <2>2 DEF Failed
    <1>7. QED
        BY <1>3, <1>4, <1>5, <1>6

\* Time leaves every row of its type, with its image, and due or not as before.
LEMMA TimeKeepsRows ==
    ASSUME IInv, TimePasses
    PROVE  /\ row' \in [Tokens -> Rows]
           /\ listAge' \in 0..RefreshInterval
           /\ \A t \in Tokens : /\ row'[t].image = row[t].image
                                /\ row'[t].known = row[t].known
                                /\ Waits(row'[t]) <=> Waits(row[t])
    <1>1. MaxOverdue \in Nat /\ RefreshInterval \in Nat
        BY LogosAssumption DEF LogosAssumption
    <1>2. listAge' \in 0..RefreshInterval
        BY <1>1 DEF TimePasses, IInv, Typed
    <1>3. ASSUME NEW t \in Tokens
          PROVE  /\ row'[t] \in Rows
                 /\ row'[t].image = row[t].image
                 /\ row'[t].known = row[t].known
                 /\ Waits(row'[t]) <=> Waits(row[t])
        <2>1. row[t] \in Rows
            BY DEF IInv, Typed
        <2>2. CASE row[t].known /\ Waits(row[t]) /\ row[t].wait > -MaxOverdue
            <3>1. row'[t] = [row[t] EXCEPT !.wait = @ - 1]
                BY <2>2 DEF TimePasses
            <3>2. row[t].wait \in Asap..LongestWait
                BY <2>1, <2>2 DEF Rows, Waits
            <3>3. row[t].wait - 1 \in Asap..LongestWait /\ row[t].wait - 1 # Never
                BY <1>1, <2>2, <3>2, DelayBounds DEF Asap
            <3>4. QED
                BY <2>1, <2>2, <3>1, <3>3 DEF Rows, Waits
        <2>3. CASE ~(row[t].known /\ Waits(row[t]) /\ row[t].wait > -MaxOverdue)
            <3>1. row'[t] = row[t]
                BY <2>3 DEF TimePasses
            <3>2. QED
                BY <2>1, <3>1
        <2>4. QED
            BY <2>2, <2>3
    <1>4. row' = [t \in Tokens |-> row'[t]]
        BY DEF TimePasses
    <1>5. row' \in [Tokens -> Rows]
        BY <1>3, <1>4
    <1>6. QED
        BY <1>2, <1>3, <1>5

-----------------------------------------------------------------------------
(* Every step keeps the invariant.                                         *)

\* An attempt that is admitted was queued before.
LEMMA BeginAttemptKeeps ==
    ASSUME IInv, NEW g \in Generations, NEW t \in Tokens, BeginAttempt(g, t)
    PROVE  IInv'
    <1>1. Typed'
        BY DEF IInv, Typed, BeginAttempt
    <1>2. \A h \in Generations, u \in Tokens : job'[h][u] # "none" => job[h][u] # "none"
        BY DEF IInv, Typed, BeginAttempt
    <1>3. QED
        BY <1>1, <1>2 DEF IInv, BeginAttempt, Remembered, DownIsIdle, OneBatch, DoneIsIdle

\* A result that is stored leaves a row with an image or with a time, and frees its slot.
LEMMA EndAttemptKeeps ==
    ASSUME IInv, NEW g \in Generations, NEW t \in Tokens, EndAttempt(g, t)
    PROVE  IInv'
    <1>1. PICK image \in BOOLEAN, wait \in (0..LongestWait) \cup {Never} :
                /\ row' = [row EXCEPT ![t] = [known |-> TRUE, image |-> image, wait |-> wait]]
                /\ row[t].image => image
                /\ wait = Never => image
        BY StoresResult
    <1>2. row' \in [Tokens -> Rows]
        <2>1. wait \in (Asap..LongestWait) \cup {Never}
            <3>1. Asap \in Int /\ Asap <= 0 /\ LongestWait \in Nat
                BY RowsTyped DEF IInv
            <3>2. \A delay \in 0..LongestWait : delay \in Asap..LongestWait
                BY <3>1
            <3>3. QED
                BY <1>1, <3>2
        <2>2. [known |-> TRUE, image |-> image, wait |-> wait] \in Rows
            BY <2>1 DEF Rows
        <2>3. QED
            BY <1>1, <2>2 DEF IInv, Typed
    <1>3. Typed'
        BY <1>2 DEF IInv, Typed, EndAttempt
    <1>4. row'[t].image = image /\ row'[t].wait = wait /\ \A u \in Tokens \ {t} : row'[u] = row[u]
        BY <1>1 DEF IInv, Typed
    <1>5. Remembered'
        BY <1>1, <1>4 DEF IInv, Remembered, Waits
    <1>6. job[g][t] # "none" /\ job'[g][t] = "none"
        BY DEF IInv, Typed, EndAttempt
    <1>7. \A h \in Generations, u \in Tokens : job'[h][u] # "none" => job[h][u] # "none"
        BY DEF IInv, Typed, EndAttempt
    <1>8. DoneIsIdle'
        <2>1. ~givenUp => \A h \in Generations : job'[h][t] = "none"
            BY <1>6, <1>7 DEF IInv, OneBatch
        <2>2. QED
            BY <1>4, <1>7, <2>1 DEF IInv, DoneIsIdle, EndAttempt
    <1>9. QED
        BY <1>3, <1>5, <1>7, <1>8 DEF IInv, EndAttempt, DownIsIdle, OneBatch

\* A write that raises stores nothing; its batch is given up.
LEMMA AttemptRaisesKeeps ==
    ASSUME IInv, NEW g \in Generations, NEW t \in Tokens, AttemptRaises(g, t)
    PROVE  IInv'
    <1>1. Typed'
        BY DEF IInv, Typed, AttemptRaises
    <1>2. \A h \in Generations, u \in Tokens : job'[h][u] # "none" => job[h][u] # "none"
        BY DEF IInv, Typed, AttemptRaises
    <1>3. job[g][t] # "none"
        BY DEF AttemptRaises
    <1>4. QED
        BY <1>1, <1>2, <1>3
        DEF IInv, AttemptRaises, Remembered, DownIsIdle, OneBatch, DoneIsIdle

\* Another list makes rows without image due.
LEMMA RefreshKeeps ==
    ASSUME IInv, Refresh
    PROVE  IInv'
    <1>1. \A t \in Tokens : /\ row'[t] \in {row[t], [row[t] EXCEPT !.wait = Asap]}
                            /\ row'[t] # row[t] => row[t].known /\ ~row[t].image
        BY DEF Refresh, Redriven
    <1>2. row' \in [Tokens -> Rows]
        <2>1. row' = [t \in Tokens |-> row'[t]]
            BY DEF Refresh, Redriven, IInv, Typed
        <2>2. QED
            BY <1>1, <2>1, RowsTyped DEF IInv
    <1>3. listAge' \in 0..RefreshInterval
        BY LogosAssumption DEF LogosAssumption, Refresh, IInv, Typed
    <1>4. Typed'
        BY <1>2, <1>3 DEF Refresh, IInv, Typed
    <1>5. \A t \in Tokens : /\ row'[t].image = row[t].image /\ row'[t].known = row[t].known
                            /\ Waits(row[t]) => Waits(row'[t])
                            /\ row[t].image => row'[t] = row[t]
        <2>1. Asap # Never
            BY RowsTyped DEF IInv
        <2>2. ASSUME NEW t \in Tokens, row'[t] = [row[t] EXCEPT !.wait = Asap]
              PROVE  /\ row'[t].image = row[t].image /\ row'[t].known = row[t].known
                     /\ Waits(row'[t])
            BY <2>1, <2>2, RowsTyped DEF IInv, Rows, Waits
        <2>3. QED
            BY <1>1, <2>2
    <1>6. Remembered'
        BY <1>5 DEF IInv, Remembered
    <1>7. QED
        BY <1>4, <1>5, <1>6 DEF IInv, Refresh, DownIsIdle, OneBatch, DoneIsIdle

\* A batch holds tokens that are due, and starts when the one before has ended.
LEMMA SelectKeeps ==
    ASSUME IInv, Select
    PROVE  IInv'
    <1> DEFINE taken == {t \in Due : Cardinality({u \in Due : Earlier(u, t)}) < Batch}
               g == 1 - current
    <1>1. row' = row /\ g \in Generations /\ \A t \in taken : t \in Tokens /\ Waits(row[t])
        BY DEF Select, Read, Due, IsDue, Generations, IInv, Typed
    <1>2. CASE taken = {}
        <2>1. main' = "poll" /\ UNCHANGED <<current, job, listAge, cli, givenUp>>
            BY <1>2 DEF Select
        <2>2. Typed'
            BY <1>1, <2>1 DEF IInv, Typed
        <2>2a. ~givenUp => \A h \in Generations, t \in Tokens : job[h][t] = "none"
            BY DEF IInv, OneBatch, Select
        <2> HIDE DEF taken, g
        <2>3. QED
            BY <1>1, <2>1, <2>2, <2>2a
            DEF IInv, Remembered, DownIsIdle, OneBatch, DoneIsIdle
    <1>3. CASE taken # {}
        <2>1. /\ main' = "gather" /\ current' = g
              /\ job' = [job EXCEPT ![g] = [t \in Tokens |-> IF t \in taken THEN "queued" ELSE "none"]]
              /\ UNCHANGED <<listAge, cli, givenUp>>
            BY <1>3 DEF Select
        <2> HIDE DEF taken, g
        <2>2. job' \in [Generations -> [Tokens -> {"none", "queued", "acquiring"}]]
            BY <1>1, <2>1 DEF IInv, Typed
        <2>3. Typed'
            BY <1>1, <2>1, <2>2 DEF IInv, Typed
        <2>4. \A h \in Generations, t \in Tokens :
                job'[h][t] # "none" => job[h][t] # "none" \/ (h = g /\ t \in taken)
            <3>1. \A h \in Generations : h # g => job'[h] = job[h]
                BY <2>1 DEF IInv, Typed
            <3>2. job'[g] = [t \in Tokens |-> IF t \in taken THEN "queued" ELSE "none"]
                BY <1>1, <2>1 DEF IInv, Typed
            <3>3. ASSUME NEW h \in Generations, NEW t \in Tokens, job'[h][t] # "none"
                  PROVE  job[h][t] # "none" \/ (h = g /\ t \in taken)
                BY <3>1, <3>2, <3>3
            <3>4. QED
                BY <3>3
        <2>5. ~givenUp => \A h \in Generations, t \in Tokens : job[h][t] = "none"
            BY DEF IInv, OneBatch, Select
        <2>6. QED
            BY <1>1, <2>1, <2>3, <2>4, <2>5
            DEF IInv, Remembered, DownIsIdle, OneBatch, DoneIsIdle
    <1>4. QED
        BY <1>2, <1>3

\* Time makes rows due and forgets none.
LEMMA PassingTimeKeeps ==
    ASSUME IInv, Poll \/ Downtime
    PROVE  IInv'
    <1>1. TimePasses /\ main' \in {"down", "refresh"} /\ UNCHANGED <<current, job, cli, givenUp>>
          /\ (main' = "down" => main = "down")
        BY DEF Poll, Downtime
    <1>2. Typed'
        BY <1>1, TimeKeepsRows DEF IInv, Typed
    <1>3. main # "gather"
        BY DEF Poll, Downtime
    <1>4. Remembered' /\ DoneIsIdle'
        BY <1>1, TimeKeepsRows DEF IInv, Remembered, DoneIsIdle
    <1>5. QED
        BY <1>1, <1>2, <1>3, <1>4 DEF IInv, DownIsIdle, OneBatch

\* A token that is enrolled by a request has its time already.
LEMMA ObserveKeeps ==
    ASSUME IInv, NEW t \in Tokens, Observe(t)
    PROVE  IInv'
    <1>1. row' = [row EXCEPT ![t] = [row[t] EXCEPT !.known = TRUE]]
        BY DEF Observe
    <1>2. row' \in [Tokens -> Rows]
        BY <1>1, RowsTyped DEF IInv, Typed
    <1>3. Typed'
        BY <1>2 DEF Observe, IInv, Typed
    <1>4. \A u \in Tokens : row'[u].image = row[u].image /\ row'[u].wait = row[u].wait
        BY <1>1 DEF IInv, Typed, Rows
    <1>5. QED
        BY <1>3, <1>4 DEF IInv, Observe, Remembered, DownIsIdle, OneBatch, DoneIsIdle, Waits
\* The command enrols tokens to be tried at once.
LEMMA EnrollKeeps ==
    ASSUME IInv, Enroll
    PROVE  IInv'
    <1>1. \A t \in Tokens : row'[t] \in {row[t], [row[t] EXCEPT !.known = TRUE, !.wait = Asap]}
        BY DEF Enroll, Enrolled
    <1>2. row' \in [Tokens -> Rows]
        <2>1. row' = [t \in Tokens |-> row'[t]]
            BY DEF Enroll, Enrolled
        <2>2. QED
            BY <1>1, <2>1, RowsTyped DEF IInv
    <1>3. Typed'
        BY <1>2 DEF Enroll, Idle, IInv, Typed
    <1>4. \A t \in Tokens : /\ row'[t].image = row[t].image
                            /\ Waits(row[t]) => Waits(row'[t])
        <2>1. Asap # Never
            BY RowsTyped DEF IInv
        <2>2. QED
            BY <1>1, <2>1, RowsTyped DEF IInv, Rows, Waits
    <1>5. QED
        BY <1>3, <1>4 DEF IInv, Enroll, Remembered, DownIsIdle, OneBatch, DoneIsIdle

\* Every step keeps the invariant.
LEMMA NextKeepsInvariant == IInv /\ [Next]_vars => IInv'
    <1> SUFFICES ASSUME IInv, [Next]_vars PROVE IInv'
        OBVIOUS
    <1>1. CASE Start
        BY <1>1 DEF IInv, Typed, Start, Remembered, DownIsIdle, OneBatch, DoneIsIdle
    <1>2. CASE Refresh
        BY <1>2, RefreshKeeps
    <1>3. CASE Select
        BY <1>3, SelectKeeps
    <1>4. CASE Gathered
        <2>1. Typed'
            BY <1>4 DEF IInv, Typed, Gathered
        <2>2. ~givenUp => \A g \in Generations, t \in Tokens : job[g][t] = "none"
            BY <1>4 DEF IInv, Gathered, OneBatch
        <2>3. QED
            BY <1>4, <2>1, <2>2
            DEF IInv, Gathered, Remembered, DownIsIdle, OneBatch, DoneIsIdle
    <1>5. CASE Poll \/ Downtime
        BY <1>5, PassingTimeKeeps
    <1>6. CASE ProcessEnds
        <2>1. \A g \in Generations, t \in Tokens : job'[g][t] = "none"
            BY <1>6 DEF ProcessEnds
        <2>2. Typed'
            BY <1>6 DEF IInv, Typed, ProcessEnds
        <2>3. QED
            BY <1>6, <2>1, <2>2
            DEF IInv, ProcessEnds, Remembered, DownIsIdle, OneBatch, DoneIsIdle
    <1>7. ASSUME NEW g \in Generations, NEW t \in Tokens, Attempt(g, t)
          PROVE  IInv'
        BY <1>7, BeginAttemptKeeps, EndAttemptKeeps, AttemptRaisesKeeps DEF Attempt
    <1>8. ASSUME NEW t \in Tokens, Observe(t)
          PROVE  IInv'
        BY <1>8, ObserveKeeps
    <1>9. ASSUME NEW tokens \in Lists, NEW force \in BOOLEAN, CheckService(tokens, force)
          PROVE  IInv'
        BY <1>9 DEF IInv, Typed, CheckService, Remembered, DownIsIdle, OneBatch, DoneIsIdle
    <1>10. CASE Enroll
        BY <1>10, EnrollKeeps
    <1>11. CASE UNCHANGED vars
        BY <1>11 DEF vars, IInv, Typed, Remembered, DownIsIdle, OneBatch, DoneIsIdle
    <1>12. QED
        BY <1>1, <1>2, <1>3, <1>4, <1>5, <1>6, <1>7, <1>8, <1>9, <1>10, <1>11
        DEF Next, Maintenance

\* The invariant holds throughout.
THEOREM Invariant == Spec => []IInv
    BY InitInvariant, NextKeepsInvariant, PTL DEF Spec

-----------------------------------------------------------------------------
(* The theorems.                                                           *)

\* The table, the task and the attempts have their types; no row waits for longer
\* than the settings allow.
THEOREM TypeCorrect == Spec => []TypeOK
    <1>1. IInv => TypeOK
        BY DEF IInv, Typed, Rows, TypeOK, Waits
    <1>2. QED
        BY <1>1, Invariant, PTL

\* A token that is enrolled and has no image is tried again, whenever the process
\* ends and whatever becomes of a batch.
THEOREM NothingForgotten == Spec => []NeverForgotten
    <1>1. IInv => NeverForgotten
        BY DEF IInv, Remembered, NeverForgotten
    <1>2. QED
        BY <1>1, Invariant, PTL

\* What a step may do to a token with an image.
ImageStays(t) ==
    row[t].image =>
        /\ row'[t].image
        /\ ~Waits(row[t]) /\ Waits(row'[t]) => Forced(t) \/ givenUp

\* An attempt that ends fails a token with an image only if a batch was given up.
LEMMA EndAttemptKeepsImages ==
    ASSUME IInv, NEW g \in Generations, NEW t \in Tokens, EndAttempt(g, t), NEW u \in Tokens
    PROVE  ImageStays(u)
    <1>1. PICK image \in BOOLEAN, wait \in (0..LongestWait) \cup {Never} :
                /\ row' = [row EXCEPT ![t] = [known |-> TRUE, image |-> image, wait |-> wait]]
                /\ row[t].image => image
                /\ wait = Never => image
        BY StoresResult
    <1>2. CASE u = t
        <2>1. row'[u].image = image
            BY <1>1, <1>2 DEF IInv, Typed
        <2>2. row[t].image /\ ~Waits(row[t]) => givenUp
            BY DEF EndAttempt, IInv, DoneIsIdle
        <2>3. QED
            BY <1>1, <1>2, <2>1, <2>2 DEF ImageStays
    <1>3. CASE u # t
        BY <1>1, <1>3 DEF IInv, Typed, ImageStays
    <1>4. QED
        BY <1>2, <1>3

\* Nor does any other step.
LEMMA ImagesStay ==
    ASSUME IInv, [Next]_vars, NEW u \in Tokens
    PROVE  ImageStays(u)
    <1>1. CASE UNCHANGED row
        BY <1>1 DEF ImageStays
    <1>2. CASE Refresh
        BY <1>2 DEF Refresh, Redriven, ImageStays
    <1>3. CASE Poll \/ Downtime
        BY <1>3, TimeKeepsRows DEF Poll, Downtime, ImageStays
    <1>4. ASSUME NEW g \in Generations, NEW t \in Tokens, EndAttempt(g, t)
          PROVE  ImageStays(u)
        BY <1>4, EndAttemptKeepsImages
    <1>5. ASSUME NEW t \in Tokens, Observe(t)
          PROVE  ImageStays(u)
        BY <1>5 DEF Observe, IInv, Typed, Rows, ImageStays, Waits
    <1>6. CASE Enroll
        <2>1. cli' = Idle /\ row' = Enrolled(cli.tokens, cli.force)
            BY <1>6 DEF Enroll
        <2>2. row[u].image /\ ~Forced(u) => row'[u] = row[u]
            BY <2>1 DEF Enrolled, Forced
        <2>3. row'[u].image = row[u].image
            BY <2>1 DEF Enrolled, IInv, Typed, Rows
        <2>4. QED
            BY <2>2, <2>3 DEF ImageStays
    <1>7. Start \/ Select \/ Gathered \/ ProcessEnds \/ UNCHANGED vars => UNCHANGED row
        BY DEF Start, Select, Read, Gathered, ProcessEnds, vars
    <1>8. ASSUME NEW g \in Generations, NEW t \in Tokens, BeginAttempt(g, t) \/ AttemptRaises(g, t)
          PROVE  UNCHANGED row
        BY <1>8 DEF BeginAttempt, AttemptRaises
    <1>9. ASSUME NEW tokens \in Lists, NEW force \in BOOLEAN, CheckService(tokens, force)
          PROVE  UNCHANGED row
        BY <1>9 DEF CheckService
    <1>10. QED
        BY <1>1, <1>2, <1>3, <1>4, <1>5, <1>6, <1>7, <1>8, <1>9
        DEF Next, Maintenance, Attempt

\* An image that is stored stays, and its token is done but for the owner's force and
\* for attempts that overlap.
THEOREM SuccessIsTerminal == Spec => SuccessTerminal
    <1>1. ASSUME IInv, [Next]_vars
          PROVE  [\A t \in Tokens : row[t].image =>
                    /\ row'[t].image
                    /\ ~Waits(row[t]) /\ Waits(row'[t]) => Forced(t) \/ givenUp]_vars
        BY <1>1, ImagesStay DEF ImageStays
    <1>2. QED
        BY <1>1, Invariant, PTL DEF Spec, SuccessTerminal
=============================================================================
