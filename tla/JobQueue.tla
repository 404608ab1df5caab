------------------------------ MODULE JobQueue ------------------------------
(***************************************************************************)
(* The PostgreSQL-backed leased job queue, jobs/queue.py, with the workers *)
(* that call it.  Every method of JobQueue runs inside one short           *)
(* transaction on locked rows, so each is one action; between the claim    *)
(* and the report a worker holds nothing but the job id and lease token it *)
(* was given, and may die.                                                 *)
(*                                                                         *)
(* Wall-clock time is abstracted to the two comparisons the code makes:    *)
(* lease = "expired" is lease_expires_at < now, and retry = "due" is       *)
(* next_attempt_at <= now.                                                 *)
(***************************************************************************)
EXTENDS Naturals

CONSTANTS Capacity,      \* bound: rows the job table may come to hold
          Keys,          \* identities: (job_type, listing, input_hash, version)
          Priorities,    \* the priorities callers use
          MaxAttempts,   \* Job.max_attempts
          Workers        \* worker processes

ASSUME QueueAssumption ==
    /\ Capacity \in Nat
    /\ MaxAttempts \in Nat \ {0}
    /\ Priorities \subseteq Nat

VARIABLES job,           \* ops.job, by id; ids are in created_at order
          attempt,       \* ops.job_attempt, by job id and attempt_number
          issued,        \* lease tokens given out so far: token n is the n-th
          held           \* what each worker process remembers of its claim

queueVars == <<job, attempt, issued, held>>

JobIds == 1 .. Capacity
NoToken == 0             \* lease_token IS NULL
NoKey == "no key"
Idle == [job |-> 0, token |-> NoToken]

CompletionStatuses == {"SUCCEEDED", "FAILED_RETRYABLE", "FAILED_TERMINAL",
                       "CANCELLED", "BLOCKED", "CACHED"}
ClaimableStatuses == {"PENDING", "FAILED_RETRYABLE"}
JobStatuses == {"PENDING", "RUNNING"} \cup CompletionStatuses
DeadStatuses == {"FAILED_TERMINAL", "CANCELLED"}

NoJob == [status |-> "ABSENT", key |-> NoKey, priority |-> 0, attempts |-> 0,
          token |-> NoToken, lease |-> "live", retry |-> "waiting"]

JobRow == [status : JobStatuses \cup {"ABSENT"},
           key : Keys \cup {NoKey},
           priority : Priorities \cup {0},
           attempts : 0 .. MaxAttempts,
           token : Nat,
           lease : {"live", "expired"},
           retry : {"due", "waiting"}]

AttemptRow == [token : Nat, outcome : CompletionStatuses \cup {"NONE", "OPEN"}]

NoAttempt == [token |-> NoToken, outcome |-> "NONE"]

-----------------------------------------------------------------------------

Init ==
    /\ job = [j \in JobIds |-> NoJob]
    /\ attempt = [j \in JobIds |-> [n \in 1 .. MaxAttempts |-> NoAttempt]]
    /\ issued = 0
    /\ held = [w \in Workers |-> Idle]

\* Rows the partial unique index uq_job_active_identity covers.
Live(j) == job[j].status \notin DeadStatuses \cup {"ABSENT"}

\* The row enqueue() inserts; next_attempt_at defaults to now.
Enqueued(k, p) == [NoJob EXCEPT !.status = "PENDING", !.key = k,
                                !.priority = p, !.retry = "due"]

\* A slip: only claimable rows count as live, a running equivalent is missed.
EnqueueBesideRunning(j, k, p) ==
    /\ job[j].status = "ABSENT"
    /\ \A i \in JobIds : i < j => job[i].status # "ABSENT"
    /\ \A i \in JobIds : job[i].status \in ClaimableStatuses => job[i].key # k
    /\ job' = [job EXCEPT ![j] = Enqueued(k, p)]
    /\ UNCHANGED <<attempt, issued, held>>

\* enqueue(): ON CONFLICT DO NOTHING against the live identity.
Enqueue(j, k, p) ==
    /\ job[j].status = "ABSENT"
    /\ \A i \in JobIds : i < j => job[i].status # "ABSENT"
    /\ \A i \in JobIds : Live(i) => job[i].key # k
    /\ job' = [job EXCEPT ![j] = Enqueued(k, p)]
    /\ UNCHANGED <<attempt, issued, held>>

\* A slip: the attempt limit is left to complete().
CandidateWithoutLimit(j) ==
    /\ job[j].status \in ClaimableStatuses
    /\ job[j].retry = "due"
    /\ job[j].token = NoToken \/ job[j].lease = "expired"

Candidate(j) ==
    /\ job[j].status \in ClaimableStatuses
    /\ job[j].retry = "due"
    /\ job[j].token = NoToken \/ job[j].lease = "expired"
    /\ job[j].attempts < MaxAttempts

\* ORDER BY priority DESC, created_at ASC
Before(i, j) ==
    \/ job[i].priority > job[j].priority
    \/ job[i].priority = job[j].priority /\ i < j

\* The row claim() leases to a worker.
Leased(row, token) == [row EXCEPT !.status = "RUNNING", !.token = token,
                                  !.lease = "live", !.attempts = row.attempts + 1]

\* A slip: the lease token is derived from the job instead of drawn afresh.
ClaimWithJobToken(w, j) ==
    /\ held[w] = Idle
    /\ Candidate(j)
    /\ \A i \in JobIds : i # j /\ Candidate(i) => Before(j, i)
    /\ job' = [job EXCEPT ![j] = Leased(@, j)]
    /\ attempt' = [attempt EXCEPT ![j][job[j].attempts + 1] =
                                      [token |-> j, outcome |-> "OPEN"]]
    /\ held' = [held EXCEPT ![w] = [job |-> j, token |-> j]]
    /\ UNCHANGED issued

\* claim(batch_size=1): FOR UPDATE SKIP LOCKED makes the choice atomic.
Claim(w, j) ==
    /\ held[w] = Idle
    /\ Candidate(j)
    /\ \A i \in JobIds : i # j /\ Candidate(i) => Before(j, i)
    /\ issued' = issued + 1
    /\ job' = [job EXCEPT ![j] = Leased(@, issued + 1)]
    /\ attempt' = [attempt EXCEPT ![j][job[j].attempts + 1] =
                                      [token |-> issued + 1, outcome |-> "OPEN"]]
    /\ held' = [held EXCEPT ![w] = [job |-> j, token |-> issued + 1]]

\* A slip: the row is looked up by job id alone.
HoldsLeaseByJob(w) == held[w] # Idle

\* The WHERE clause of complete(): the row still carries the caller's token.
HoldsLease(w) == held[w] # Idle /\ job[held[w].job].token = held[w].token

\* heartbeat(): revives a lease that has expired but was not yet recovered.
Heartbeat(w) ==
    /\ HoldsLease(w)
    /\ job[held[w].job].status = "RUNNING"
    /\ job' = [job EXCEPT ![held[w].job].lease = "live"]
    /\ UNCHANGED <<attempt, issued, held>>

\* A slip: the limit is compared with > instead of >=.
OutcomeOffByOne(j, status) ==
    IF status = "FAILED_RETRYABLE" /\ job[j].attempts > MaxAttempts
    THEN "FAILED_TERMINAL" ELSE status

\* A slip: only the attempts whose worker reported a failure count.
OutcomeOfReported(j, status) ==
    IF /\ status = "FAILED_RETRYABLE"
       /\ \A n \in 1 .. MaxAttempts - 1 : attempt[j][n].outcome = "FAILED_RETRYABLE"
    THEN "FAILED_TERMINAL" ELSE status

\* The status complete() settles on: retries end at max_attempts.
Outcome(j, status) ==
    IF status = "FAILED_RETRYABLE" /\ job[j].attempts >= MaxAttempts
    THEN "FAILED_TERMINAL" ELSE status

\* The row complete() leaves: lease cleared, and a retry delayed.
Closed(row, final) ==
    [row EXCEPT !.status = final, !.token = NoToken, !.lease = "live",
                !.retry = IF final = "FAILED_RETRYABLE" THEN "waiting" ELSE row.retry]

\* A slip: the first attempt row is closed instead of the current one.
CompleteFirstAttempt(j, status) ==
    LET final == Outcome(j, status) IN
    /\ job' = [job EXCEPT ![j] = Closed(@, final)]
    /\ attempt' = [attempt EXCEPT ![j][1].outcome = final]

Complete(j, status) ==
    LET final == Outcome(j, status) IN
    /\ job' = [job EXCEPT ![j] = Closed(@, final)]
    /\ attempt' = [attempt EXCEPT ![j][job[j].attempts].outcome = final]

\* A worker reports: complete() with the token it was given.
Report(w, status) ==
    /\ HoldsLease(w)
    /\ Complete(held[w].job, status)
    /\ held' = [held EXCEPT ![w] = Idle]
    /\ UNCHANGED issued

\* complete() finds no row with that token and returns False.
ReportStale(w) ==
    /\ held[w] # Idle
    /\ ~HoldsLease(w)
    /\ held' = [held EXCEPT ![w] = Idle]
    /\ UNCHANGED <<job, attempt, issued>>

\* The worker process dies and forgets its claim.
Crash(w) ==
    /\ held[w] # Idle
    /\ held' = [held EXCEPT ![w] = Idle]
    /\ UNCHANGED <<job, attempt, issued>>

Recoverable(j) == job[j].status = "RUNNING" /\ job[j].token # NoToken /\ job[j].lease = "expired"

\* The row the sweep leaves: claimable at once, whatever attempt_count says.
Recovered(row) == [row EXCEPT !.status = "FAILED_RETRYABLE", !.token = NoToken,
                              !.lease = "live", !.retry = "due"]

\* recover_expired_leases(): one UPDATE over every expired RUNNING row.
RecoverExpiredLeases ==
    /\ \E j \in JobIds : Recoverable(j)
    /\ job' = [j \in JobIds |->
                 IF Recoverable(j)
                 THEN Recovered(job[j])
                 ELSE job[j]]
    /\ UNCHANGED <<attempt, issued, held>>

\* Time passes lease_expires_at, or next_attempt_at.
LeaseExpires(j) ==
    /\ job[j].token # NoToken
    /\ job[j].lease = "live"
    /\ job' = [job EXCEPT ![j].lease = "expired"]
    /\ UNCHANGED <<attempt, issued, held>>

BecomesDue(j) ==
    /\ job[j].status = "FAILED_RETRYABLE"
    /\ job[j].retry = "waiting"
    /\ job' = [job EXCEPT ![j].retry = "due"]
    /\ UNCHANGED <<attempt, issued, held>>

Next ==
    \/ \E j \in JobIds, k \in Keys, p \in Priorities : Enqueue(j, k, p)
    \/ \E w \in Workers, j \in JobIds : Claim(w, j)
    \/ \E w \in Workers, s \in CompletionStatuses : Report(w, s)
    \/ \E w \in Workers : Heartbeat(w)
    \/ \E w \in Workers : ReportStale(w)
    \/ \E w \in Workers : Crash(w)
    \/ RecoverExpiredLeases
    \/ \E j \in JobIds : LeaseExpires(j)
    \/ \E j \in JobIds : BecomesDue(j)

Spec == Init /\ [][Next]_queueVars

\* drain_normalize_jobs keeps claiming while jobs are due, and a worker that
\* does not die reports what it claimed; nothing schedules the recovery.
Fairness ==
    /\ \A w \in Workers :
         /\ WF_queueVars(\E j \in JobIds : Claim(w, j))
         /\ WF_queueVars(ReportStale(w) \/ \E s \in CompletionStatuses : Report(w, s))
    /\ \A j \in JobIds : WF_queueVars(BecomesDue(j))

FairSpec == Spec /\ Fairness

-----------------------------------------------------------------------------
(* What the queue has to guarantee.                                         *)

\* Every row is one the schema and the code can produce.
TypeOK ==
    /\ job \in [JobIds -> JobRow]
    /\ attempt \in [JobIds -> [1 .. MaxAttempts -> AttemptRow]]
    /\ issued \in Nat
    /\ held \in [Workers -> [job : JobIds \cup {0}, token : Nat]]

\* A job carries a lease token exactly while it is RUNNING.  complete() and
\* claim() rely on this: complete() checks only the token, not the status.
LeaseIffRunning ==
    \A j \in JobIds : (job[j].token # NoToken) <=> (job[j].status = "RUNNING")

\* However leases expire, are recovered and claimed again, at most one worker
\* can still complete a job: an older claim's token is worthless.
AtMostOneOwner ==
    \A v, w \in Workers :
        HoldsLease(v) /\ HoldsLease(w) /\ held[v].job = held[w].job => v = w

\* No identity ever has two live rows, although enqueue() is the only method
\* that looks: no later transition brings a dead row back beside its successor.
OneLiveJobPerIdentity ==
    \A i, j \in JobIds : Live(i) /\ Live(j) /\ job[i].key = job[j].key => i = j

Settled(j) ==
    job[j].status \in {"SUCCEEDED", "FAILED_TERMINAL", "CANCELLED", "BLOCKED", "CACHED"}

\* The attempt ledger tells the same story as the job row: attempts are numbered
\* without gaps, only the latest can carry the result the job settled on, and
\* the attempt of a running job is the one its lease was given to.
LedgerAgrees ==
    \A j \in JobIds : \A n \in 1 .. MaxAttempts :
        /\ (attempt[j][n].outcome = "NONE") <=> (n > job[j].attempts)
        /\ n < job[j].attempts => attempt[j][n].outcome \in {"OPEN", "FAILED_RETRYABLE"}
        /\ n = job[j].attempts =>
             /\ Settled(j) => attempt[j][n].outcome = job[j].status
             /\ job[j].status = "RUNNING" =>
                  attempt[j][n] = [token |-> job[j].token, outcome |-> "OPEN"]

\* A settled job is never touched again, by a late report, a heartbeat, a sweep
\* of expired leases or a new claim.
SettledIsFinal ==
    [][\A j \in JobIds : Settled(j) => job'[j] = job[j]]_queueVars

\* The queue implements the life of a job stated in JobLifecycle.
PhaseOf(row) ==
    CASE row.status = "ABSENT" -> "absent"
      [] row.status \in ClaimableStatuses -> "waiting"
      [] row.status = "RUNNING" -> "running"
      [] OTHER -> row.status

Lifecycle == INSTANCE JobLifecycle
               WITH Outcomes <- CompletionStatuses \ {"FAILED_RETRYABLE"},
                    phase <- [j \in JobIds |-> PhaseOf(job[j])],
                    runs <- [j \in JobIds |-> job[j].attempts]

ImplementsLifecycle == Lifecycle!LifecycleSpec

\* The worker of the latest attempt lost its lease without reporting, and either
\* nobody has recovered the job or it had no attempts left to recover to.
Abandoned(j) ==
    /\ job[j].attempts > 0
    /\ attempt[j][job[j].attempts].outcome = "OPEN"
    /\ \A w \in Workers : HoldsLease(w) => held[w].job # j
    /\ job[j].status = "RUNNING" \/ job[j].attempts = MaxAttempts

\* A row of the job table that is not settled is somebody's business: claim() can
\* still select it, a worker holds its lease and will report, or the worker of its
\* latest attempt was lost.  Failures alone, mixed with recoveries in any order,
\* never leave a job that no claim selects and nobody works on.
StrandedOnlyWhenAbandoned ==
    \A j \in JobIds :
        \/ job[j].status = "ABSENT" \/ Settled(j)
        \/ job[j].status \in ClaimableStatuses /\ job[j].attempts < MaxAttempts
        \/ \E w \in Workers : HoldsLease(w) /\ held[w].job = j
        \/ Abandoned(j)

\* A waiting job is eventually settled, unless a worker dies or is overtaken by
\* its lease: retries, priorities and repeated failures never strand one.
WaitingJobsSettle ==
    \A j \in JobIds :
        (job[j].status \in ClaimableStatuses) ~> (Settled(j) \/ Abandoned(j))

\* jobs/queue.py:4-5 and 06 s12.3: an expired lease returns its job to a
\* claimable state within attempt limits, so a job in a claimable status has an
\* attempt left to be claimed with.
ClaimableWithinAttemptLimits ==
    \A j \in JobIds : job[j].status \in ClaimableStatuses => job[j].attempts < MaxAttempts
=============================================================================
