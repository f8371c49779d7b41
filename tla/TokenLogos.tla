----------------------------- MODULE TokenLogos -----------------------------
(***************************************************************************)
(* The acquisition of token logos: the table token_logos of                 *)
(* token_metadata/cache.py, the maintenance loop of logo_service.py over    *)
(* logo_sources.py and logo_acquirer.py, the requests that enrol tokens,    *)
(* and the prewarm command of tools/token_logo_prewarm.py.                  *)
(*                                                                          *)
(* Nothing in the table says that a row is being worked on: whoever reads a *)
(* row as due may work on it.  A batch is given up when one attempt raises, *)
(* while its other attempts go on; the next batch may take their rows again.*)
(* An attempt and the write of its result are one step, the last moment at  *)
(* which the attempt touches anything that others see.                      *)
(***************************************************************************)
EXTENDS Integers, Sequences, FiniteSets, FiniteSetsExt

CONSTANTS
    Tokens,          \* identities (chain, address) in the order of the index
    Replies,         \* Replies[t]: what the candidates of t may answer, in order
    Lists,           \* sets of identities the owner may enrol
    Batch,           \* due_batch_size
    Concurrency,     \* concurrency
    TransientCap, RetryAfterCap, \* of LogoMaintenanceSettings
    UnavailableDelays, \* unavailable_retry_ms with its jitter
    RetryAfters,     \* what Retry-After of a busy candidate may hold
    RefreshInterval, \* source_refresh_ms
    MaxOverdue       \* bound of the model: rows overdue for longer are alike

VARIABLES
    row,      \* rows of token_logos
    listAge,  \* time since synced_at of the source with a metadata list
    main,     \* where the maintenance task is, "down" without a process
    current,  \* the generation of the batch that gather waits for
    job,      \* attempts, by generation of their batch
    cli,      \* the enroll command
    givenUp   \* history: a batch was given up in this process

vars == <<row, listAge, main, current, job, cli, givenUp>>

\* Times are differences to the clock, in units of scheduler_poll_ms: how long a row
\* has to wait for next_attempt_at, at most 0 when it is due.
LongestWait == Max(UnavailableDelays \cup {TransientCap, RetryAfterCap})
Never == Max(RetryAfters \cup {LongestWait}) + 1   \* NULL
Asap == -(MaxOverdue + 1) \* next_attempt_at = 0, before anything that is overdue
Generations == {0, 1}  \* at most one given up batch with attempts left
Idle == [tokens |-> {}, force |-> FALSE]

ASSUME LogosAssumption ==
    /\ Tokens \subseteq Nat /\ IsFiniteSet(Tokens) /\ Lists \subseteq (SUBSET Tokens) \ {{}}
    /\ {Batch, Concurrency} \subseteq Nat \ {0}
    /\ {TransientCap, RetryAfterCap, RefreshInterval, MaxOverdue} \subseteq Nat
    /\ UnavailableDelays \subseteq Nat /\ IsFiniteSet(UnavailableDelays)
    /\ RetryAfters \subseteq Nat /\ IsFiniteSet(RetryAfters)

Smaller(a, b) == IF a < b THEN a ELSE b
Larger(a, b) == IF a > b THEN a ELSE b
Waits(r) == r.wait # Never
IsDue(r) == r.known /\ Waits(r) /\ r.wait <= 0

-----------------------------------------------------------------------------
(* An attempt.                                                             *)

\* What a candidate may send with status 200, and what of it is an image: of a size
\* and a type that is allowed, one frame, and decoded to the end.
Bodies == {"image", "too_large", "other_media", "corrupt"}
Validated(body) == body = "image"

\* What the reply of a candidate means: an image, a status or an error that may
\* pass, or anything else.
CandidateOutcome(reply) ==
    IF reply \in Bodies /\ Validated(reply) THEN "success"
    ELSE IF reply \in {"busy", "timeout", "network_error"} THEN "transient"
    ELSE "conclusive"

\* The candidates are asked in order until one has an image.
Outcome(replies) ==
    LET Some(o) == \E i \in 1..Len(replies) : CandidateOutcome(replies[i]) = o IN
    IF Some("success") THEN "success"
    ELSE IF Some("transient") THEN "transient"
    ELSE "unavailable"

\* A row takes HTTP statuses from 100 to 599 only; the one of the last
\* candidate is stored when none could pass, whatever it is.
Storable(replies) ==
    Outcome(replies) = "unavailable" /\ replies # <<>> => replies[Len(replies)] # "status_beyond_599"

\* Retry-After is read from candidates that are busy.
RetryAfter(replies) ==
    IF \E i \in 1..Len(replies) : replies[i] = "busy" THEN RetryAfters ELSE {0}

\* Mutant: what the candidate asks for is taken as it is.
UnboundedDelays(retryAfter) == {Larger(jittered, retryAfter) : jittered \in 0..TransientCap}

\* The delays transient_retry_delay_ms may draw.  failure_count is left out: it
\* only moves the upper end of the draw, which starts at 0 for every count.
TransientDelays(retryAfter) ==
    LET bounded == Smaller(retryAfter, RetryAfterCap)
    IN  {IF retryAfter = 0 THEN jittered ELSE Smaller(Larger(jittered, bounded), RetryAfterCap) :
            jittered \in 0..TransientCap}

\* record_logo_success.
Stored(t) == [row EXCEPT ![t] = [known |-> TRUE, image |-> TRUE, wait |-> Never]]

\* Mutant: the row is replaced instead of updated.
Overwritten(t, wait) ==
    [row EXCEPT ![t] = [known |-> TRUE, image |-> FALSE, wait |-> wait]]

\* record_logo_failure: what is stored of an image stays.
Failed(t, wait) ==
    [row EXCEPT ![t] = [known |-> TRUE, image |-> @.image, wait |-> wait]]

\* The semaphore of its batch admits it.
BeginAttempt(g, t) ==
    /\ job[g][t] = "queued"
    /\ Cardinality({u \in Tokens : job[g][u] = "acquiring"}) < Concurrency
    /\ job' = [job EXCEPT ![g][t] = "acquiring"]
    /\ UNCHANGED <<row, listAge, main, current, cli, givenUp>>

\* It ends and its result is stored.
EndAttempt(g, t) ==
    /\ job[g][t] = "acquiring"
    /\ \E replies \in Replies[t] :
        /\ Storable(replies)
        /\ \/ Outcome(replies) = "success" /\ row' = Stored(t)
           \/ /\ Outcome(replies) = "transient"
              /\ \E after \in RetryAfter(replies) : \E delay \in TransientDelays(after) :
                    row' = Failed(t, delay)
           \/ /\ Outcome(replies) = "unavailable"
              /\ \E delay \in UnavailableDelays : row' = Failed(t, delay)
    /\ job' = [job EXCEPT ![g][t] = "none"]
    /\ UNCHANGED <<listAge, main, current, cli, givenUp>>

\* The write raises.  gather passes the exception on, the loop logs it and waits;
\* an attempt of a batch that was given up before has nobody to tell.
AttemptRaises(g, t) ==
    /\ job[g][t] = "acquiring"
    /\ \E replies \in Replies[t] : ~Storable(replies)
    /\ job' = [job EXCEPT ![g][t] = "none"]
    /\ IF main = "gather" /\ g = current
       THEN main' = "poll" /\ givenUp' = TRUE
       ELSE UNCHANGED <<main, givenUp>>
    /\ UNCHANGED <<row, listAge, current, cli>>

-----------------------------------------------------------------------------
(* The maintenance task.                                                   *)

Start ==
    /\ main = "down"
    /\ main' = "refresh"
    /\ UNCHANGED <<row, listAge, current, job, cli, givenUp>>

\* Mutant: every row is tried again.
RedriveAll == [t \in Tokens |-> IF row[t].known THEN [row[t] EXCEPT !.wait = Asap] ELSE row[t]]

\* A list that changed makes the rows without image due.
Redriven ==
    [t \in Tokens |-> IF row[t].known /\ ~row[t].image THEN [row[t] EXCEPT !.wait = Asap] ELSE row[t]]

\* refresh_sources: the list is young enough, cannot be had, or is the same or
\* another one.
Refresh ==
    /\ main = "refresh"
    /\ main' = "select"
    /\ \/ UNCHANGED <<row, listAge>>
       \/ /\ listAge >= RefreshInterval
          /\ listAge' = 0
          /\ row' \in {row, Redriven}
    /\ UNCHANGED <<current, job, cli, givenUp>>

Due == {t \in Tokens : IsDue(row[t])}

\* Mutant: in the order of the addresses.
EarlierAddress(t, u) == t < u

Earlier(t, u) ==
    \/ row[t].wait < row[u].wait
    \/ row[t].wait = row[u].wait /\ t < u

\* Mutant: the rows taken are marked, so that no other batch takes them.
Claimed(taken) == [t \in Tokens |-> IF t \in taken THEN [row[t] EXCEPT !.wait = Never] ELSE row[t]]

\* The table after reading a batch from it.
Read(taken) == row

\* run_once reads the rows that are due and starts an attempt for each.
Select ==
    LET taken == {t \in Due : Cardinality({u \in Due : Earlier(u, t)}) < Batch}
        g == 1 - current
    IN
    /\ main = "select"
    /\ row' = Read(taken)
    /\ IF taken = {}
       THEN main' = "poll" /\ UNCHANGED <<current, job>>
       ELSE /\ \A t \in Tokens : job[g][t] = "none"
            /\ main' = "gather"
            /\ current' = g
            /\ job' = [job EXCEPT ![g] = [t \in Tokens |->
                    IF t \in taken THEN "queued" ELSE "none"]]
    /\ UNCHANGED <<listAge, cli, givenUp>>

Gathered ==
    /\ main = "gather"
    /\ \A t \in Tokens : job[current][t] = "none"
    /\ main' = "poll"
    /\ UNCHANGED <<row, listAge, current, job, cli, givenUp>>

\* The clock goes on by one unit.
TimePasses ==
    /\ row' = [t \in Tokens |->
            IF row[t].known /\ Waits(row[t]) /\ row[t].wait > -MaxOverdue
            THEN [row[t] EXCEPT !.wait = @ - 1] ELSE row[t]]
    /\ listAge' = IF listAge < RefreshInterval THEN listAge + 1 ELSE listAge

\* scheduler_poll_ms has passed.
Poll ==
    /\ main = "poll"
    /\ main' = "refresh"
    /\ TimePasses
    /\ UNCHANGED <<current, job, cli, givenUp>>

\* Or time without a service.
Downtime ==
    /\ main = "down"
    /\ TimePasses
    /\ UNCHANGED <<main, current, job, cli, givenUp>>

\* The process ends, with what its tasks have not stored: after aclose the loop has
\* seen _stop or shutdown_grace_ms is over, or the process was killed.
ProcessEnds ==
    /\ main # "down"
    /\ main' = "down"
    /\ job' = [g \in Generations |-> [t \in Tokens |-> "none"]]
    /\ givenUp' = FALSE
    /\ UNCHANGED <<row, listAge, current, cli>>

-----------------------------------------------------------------------------
(* Those who enrol tokens.                                                 *)

\* enroll_observed, after a request for the token.
Observe(t) ==
    /\ main # "down"
    /\ ~row[t].known
    /\ row' = [row EXCEPT ![t].known = TRUE]
    /\ UNCHANGED <<listAge, main, current, job, cli, givenUp>>

\* The command looks whether the service is active.
CheckService(tokens, force) ==
    /\ cli = Idle
    /\ main = "down"
    /\ cli' = [tokens |-> tokens, force |-> force]
    /\ UNCHANGED <<row, listAge, main, current, job, givenUp>>

\* Mutant: --force-existing is always on.
EnrolledByForce(tokens, force) ==
    [t \in Tokens |-> IF t \in tokens THEN [row[t] EXCEPT !.known = TRUE, !.wait = Asap] ELSE row[t]]

\* enroll_identities.
Enrolled(tokens, force) ==
    [t \in Tokens |->
        IF t \in tokens /\ (force \/ ~row[t].image)
        THEN [row[t] EXCEPT !.known = TRUE, !.wait = Asap] ELSE row[t]]

\* Then it enrols, although the service may have been started meanwhile.
Enroll ==
    /\ cli # Idle
    /\ row' = Enrolled(cli.tokens, cli.force)
    /\ cli' = Idle
    /\ UNCHANGED <<listAge, main, current, job, givenUp>>

Init ==
    /\ row = [t \in Tokens |-> [known |-> FALSE, image |-> FALSE, wait |-> Asap]]
    /\ listAge = RefreshInterval
    /\ main = "down"
    /\ current = 0
    /\ job = [g \in Generations |-> [t \in Tokens |-> "none"]]
    /\ cli = Idle
    /\ givenUp = FALSE

Maintenance == Refresh \/ Select \/ Gathered \/ Poll
Attempt(g, t) == BeginAttempt(g, t) \/ EndAttempt(g, t) \/ AttemptRaises(g, t)

Next ==
    \/ Start \/ Maintenance \/ ProcessEnds
    \/ \E g \in Generations, t \in Tokens : Attempt(g, t)
    \/ \E t \in Tokens : Observe(t)
    \/ \E tokens \in Lists, force \in BOOLEAN : CheckService(tokens, force)
    \/ Enroll
    \/ Downtime

Spec == Init /\ [][Next]_vars

\* The event loop runs what is ready, and every candidate answers or times out.
FairSpec ==
    /\ Spec
    /\ WF_vars(Maintenance)
    /\ \A g \in Generations, t \in Tokens : WF_vars(Attempt(g, t))

-----------------------------------------------------------------------------
TypeOK ==
    /\ \A t \in Tokens :
        /\ {row[t].known, row[t].image} \subseteq BOOLEAN
        /\ Waits(row[t]) => row[t].wait \in Asap..LongestWait
    /\ listAge \in 0..RefreshInterval
    /\ main \in {"down", "refresh", "select", "gather", "poll"}
    /\ givenUp \in BOOLEAN
    /\ current \in Generations
    /\ job \in [Generations -> [Tokens -> {"none", "queued", "acquiring"}]]
    /\ cli \in [tokens : Lists \cup {{}}, force : BOOLEAN]

\* A token without image has a time for its next attempt, wherever the service was
\* stopped, killed or had a batch end with an exception.
NeverForgotten == \A t \in Tokens : row[t].known /\ ~row[t].image => Waits(row[t])

\* The owner enrols t by force in this step.
Forced(t) == cli.force /\ t \in cli.tokens /\ cli' = Idle

\* An image that is stored stays, and a token that has one is not due again unless
\* its owner enrols it by force; but for attempts that overlap because a batch was
\* given up, of which one may fail after another one has succeeded.
SuccessTerminal ==
    [][\A t \in Tokens : row[t].image =>
        /\ row'[t].image
        /\ ~Waits(row[t]) /\ Waits(row'[t]) => Forced(t) \/ givenUp]_vars

\* A token that is due gets its turn, as long as the service runs: neither tokens
\* that fail again and again nor one whose result cannot be stored keep it out.
DueTried ==
    \A t \in Tokens :
        t \in Due ~> \/ t \notin Due
                     \/ \E g \in Generations : job[g][t] # "none"
                     \/ main = "down"
=============================================================================
