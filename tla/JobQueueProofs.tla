--------------------------- MODULE JobQueueProofs ---------------------------
(***************************************************************************)
(* Proofs about JobQueue for any number of rows, identities, workers and   *)
(* attempts.  The inductive invariant is IInv: besides the properties      *)
(* themselves it says that every token a worker remembers was issued, and  *)
(* to that worker only.                                                    *)
(***************************************************************************)
EXTENDS JobQueue, TLAPS

\* Tokens in workers' memories were issued by claim(), each to one worker.
HeldTokensDistinct ==
    /\ \A w \in Workers :
         held[w] # Idle => held[w].job \in JobIds /\ held[w].token \in 1 .. issued
    /\ \A v, w \in Workers :
         v # w /\ held[v] # Idle /\ held[w] # Idle => held[v].token # held[w].token

\* A row that does not exist yet has never been attempted.
AbsentNeverRun == \A j \in JobIds : job[j].status = "ABSENT" => job[j].attempts = 0

IInv ==
    /\ TypeOK
    /\ LeaseIffRunning
    /\ HeldTokensDistinct
    /\ AbsentNeverRun

-----------------------------------------------------------------------------
(* The row updates, one lemma each: the result is a row, and what changed.  *)

LEMMA EnqueuedRow ==
    ASSUME NEW k \in Keys, NEW p \in Priorities
    PROVE  /\ Enqueued(k, p) \in JobRow
           /\ Enqueued(k, p).status = "PENDING"
           /\ Enqueued(k, p).token = NoToken
           /\ Enqueued(k, p).attempts = 0
           /\ Enqueued(k, p).key = k
<1>1. 0 \in 0 .. MaxAttempts
  BY QueueAssumption DEF QueueAssumption
<1>2. NoJob \in JobRow
  BY <1>1, Zenon DEF NoJob, JobRow, NoToken
<1>3. Enqueued(k, p) \in JobRow
  BY <1>2, Zenon DEF Enqueued, JobRow, JobStatuses
<1> QED
  BY <1>3 DEF Enqueued, NoJob

LEMMA LeasedRow ==
    ASSUME NEW row \in JobRow, NEW t \in Nat, row.attempts < MaxAttempts
    PROVE  /\ Leased(row, t) \in JobRow
           /\ Leased(row, t).status = "RUNNING"
           /\ Leased(row, t).token = t
           /\ Leased(row, t).attempts = row.attempts + 1
           /\ Leased(row, t).key = row.key
<1>1. row.attempts \in 0 .. MaxAttempts
  BY Zenon DEF JobRow
<1>2. row.attempts + 1 \in 0 .. MaxAttempts
  BY <1>1, QueueAssumption DEF QueueAssumption
<1>3. Leased(row, t) \in JobRow
  BY <1>2, Zenon DEF Leased, JobRow, JobStatuses
<1> QED
  BY <1>3, Zenon DEF Leased, JobRow

LEMMA ClosedRow ==
    ASSUME NEW row \in JobRow, NEW s \in CompletionStatuses
    PROVE  /\ Closed(row, s) \in JobRow
           /\ Closed(row, s).status = s
           /\ Closed(row, s).token = NoToken
           /\ Closed(row, s).attempts = row.attempts
           /\ Closed(row, s).key = row.key
<1>1. (IF s = "FAILED_RETRYABLE" THEN "waiting" ELSE row.retry) \in {"due", "waiting"}
  BY Zenon DEF JobRow
<1>2. Closed(row, s) \in JobRow
  BY <1>1, Zenon DEF Closed, JobRow, JobStatuses, NoToken
<1> QED
  BY <1>2, Zenon DEF Closed, JobRow

LEMMA RecoveredRow ==
    ASSUME NEW row \in JobRow
    PROVE  /\ Recovered(row) \in JobRow
           /\ Recovered(row).status = "FAILED_RETRYABLE"
           /\ Recovered(row).token = NoToken
           /\ Recovered(row).attempts = row.attempts
           /\ Recovered(row).key = row.key
<1>1. Recovered(row) \in JobRow
  BY Zenon DEF Recovered, JobRow, JobStatuses, CompletionStatuses, NoToken
<1> QED
  BY <1>1, Zenon DEF Recovered, JobRow

\* Heartbeat, expiry and becoming due move a clock and nothing else.
LEMMA ClockRow ==
    ASSUME NEW row \in JobRow
    PROVE  \A c \in {"live", "expired"}, d \in {"due", "waiting"} :
             /\ [row EXCEPT !.lease = c] \in JobRow
             /\ [row EXCEPT !.lease = c].status = row.status
             /\ [row EXCEPT !.lease = c].token = row.token
             /\ [row EXCEPT !.lease = c].attempts = row.attempts
             /\ [row EXCEPT !.lease = c].key = row.key
             /\ [row EXCEPT !.retry = d] \in JobRow
             /\ [row EXCEPT !.retry = d].status = row.status
             /\ [row EXCEPT !.retry = d].token = row.token
             /\ [row EXCEPT !.retry = d].attempts = row.attempts
             /\ [row EXCEPT !.retry = d].key = row.key
BY Zenon DEF JobRow

-----------------------------------------------------------------------------
(* A claim in memory whose token is on the row means the job is RUNNING.    *)

LEMMA HolderFacts ==
    ASSUME IInv, NEW w \in Workers, HoldsLease(w)
    PROVE  /\ held[w].job \in JobIds
           /\ held[w].token # NoToken
           /\ job[held[w].job].status = "RUNNING"
           /\ job[held[w].job].token = held[w].token
BY DEF IInv, TypeOK, HeldTokensDistinct, LeaseIffRunning, HoldsLease, NoToken

LEMMA OutcomeType ==
    ASSUME NEW j, NEW s \in CompletionStatuses
    PROVE  /\ Outcome(j, s) \in CompletionStatuses
           /\ Outcome(j, s) = "FAILED_RETRYABLE" => ~(job[j].attempts >= MaxAttempts)
BY DEF Outcome, CompletionStatuses

\* Every step, seen by one row: it is left alone, or updated in one of six ways.
RowStep(j) ==
    \/ job'[j] = job[j]
    \/ /\ job[j].status = "ABSENT"
       /\ \E k \in Keys, p \in Priorities : job'[j] = Enqueued(k, p)
    \/ /\ Candidate(j)
       /\ issued' = issued + 1
       /\ job'[j] = Leased(job[j], issued + 1)
    \/ /\ job[j].status = "RUNNING"
       /\ job[j].token # NoToken
       /\ \E s \in CompletionStatuses : job'[j] = Closed(job[j], s)
    \/ Recoverable(j) /\ job'[j] = Recovered(job[j])
    \/ job[j].token # NoToken /\ \E c \in {"live", "expired"} : job'[j] = [job[j] EXCEPT !.lease = c]
    \/ /\ job[j].status = "FAILED_RETRYABLE"
       /\ job'[j] = [job[j] EXCEPT !.retry = "due"]

LEMMA StepOfRow ==
    ASSUME IInv, [Next]_queueVars, NEW i \in JobIds
    PROVE  RowStep(i)
<1>0. job \in [JobIds -> JobRow]
  BY DEF IInv, TypeOK
<1>1. ASSUME NEW j \in JobIds, NEW k \in Keys, NEW p \in Priorities, Enqueue(j, k, p)
      PROVE  RowStep(i)
  BY <1>0, <1>1 DEF Enqueue, RowStep
<1>2. ASSUME NEW w \in Workers, NEW j \in JobIds, Claim(w, j)
      PROVE  RowStep(i)
  BY <1>0, <1>2 DEF Claim, RowStep
<1>3. ASSUME NEW w \in Workers, NEW s \in CompletionStatuses, Report(w, s)
      PROVE  RowStep(i)
  BY <1>0, <1>3, HolderFacts, OutcomeType DEF Report, Complete, RowStep
<1>4. ASSUME NEW w \in Workers, Heartbeat(w)
      PROVE  RowStep(i)
  BY <1>0, <1>4, HolderFacts DEF Heartbeat, RowStep
<1>5. ASSUME NEW w \in Workers, ReportStale(w) \/ Crash(w)
      PROVE  RowStep(i)
  BY <1>0, <1>5 DEF ReportStale, Crash, RowStep
<1>6. ASSUME RecoverExpiredLeases
      PROVE  RowStep(i)
  BY <1>0, <1>6 DEF RecoverExpiredLeases, RowStep
<1>7. ASSUME NEW j \in JobIds, LeaseExpires(j) \/ BecomesDue(j)
      PROVE  RowStep(i)
  BY <1>0, <1>7 DEF LeaseExpires, BecomesDue, RowStep
<1>8. ASSUME UNCHANGED queueVars
      PROVE  RowStep(i)
  BY <1>0, <1>8 DEF queueVars, RowStep
<1> QED
  BY <1>1, <1>2, <1>3, <1>4, <1>5, <1>6, <1>7, <1>8 DEF Next

-----------------------------------------------------------------------------
(* Type correctness.                                                        *)

LEMMA InitTypeOK == Init => TypeOK
<1>1. 0 \in 0 .. MaxAttempts
  BY QueueAssumption DEF QueueAssumption
<1>2. NoJob \in JobRow
  BY <1>1, Zenon DEF NoJob, JobRow, NoToken
<1>3. NoAttempt \in AttemptRow
  BY DEF NoAttempt, AttemptRow, NoToken
<1> QED
  BY <1>2, <1>3 DEF Init, TypeOK, Idle, NoToken

LEMMA NextTypeOK ==
    ASSUME IInv, [Next]_queueVars
    PROVE  TypeOK'
<1>0. TypeOK
  BY DEF IInv
<1>r. \A j \in JobIds : job[j] \in JobRow
  BY <1>0 DEF TypeOK
<1>1. ASSUME NEW j \in JobIds, NEW k \in Keys, NEW p \in Priorities, Enqueue(j, k, p)
      PROVE  TypeOK'
  BY <1>0, <1>1, EnqueuedRow DEF TypeOK, Enqueue
<1>2. ASSUME NEW w \in Workers, NEW j \in JobIds, Claim(w, j)
      PROVE  TypeOK'
  <2>1. issued + 1 \in Nat /\ job[j].attempts < MaxAttempts
    BY <1>0, <1>2 DEF TypeOK, Claim, Candidate
  <2>2. Leased(job[j], issued + 1) \in JobRow
    BY <1>r, <2>1, LeasedRow
  <2>3. job' \in [JobIds -> JobRow]
    BY <1>0, <1>2, <2>2 DEF TypeOK, Claim
  <2>4. [token |-> issued + 1, outcome |-> "OPEN"] \in AttemptRow
    BY <2>1 DEF AttemptRow
  <2>5. attempt' \in [JobIds -> [1 .. MaxAttempts -> AttemptRow]]
    BY <1>0, <1>2, <2>4 DEF TypeOK, Claim
  <2>6. held' \in [Workers -> [job : JobIds \cup {0}, token : Nat]]
    BY <1>0, <1>2, <2>1 DEF TypeOK, Claim
  <2> QED
    BY <1>2, <2>1, <2>3, <2>5, <2>6 DEF TypeOK, Claim
<1>3. ASSUME NEW w \in Workers, NEW s \in CompletionStatuses, Report(w, s)
      PROVE  TypeOK'
  <2> DEFINE j == held[w].job
             final == Outcome(j, s)
  <2>1. j \in JobIds
    BY <1>3, HolderFacts DEF Report
  <2>2. final \in CompletionStatuses
    BY OutcomeType
  <2>3. Closed(job[j], final) \in JobRow
    BY <1>r, <2>1, <2>2, ClosedRow
  <2>4. job' = [job EXCEPT ![j] = Closed(job[j], final)]
    BY <1>3 DEF Report, Complete
  <2>5. job' \in [JobIds -> JobRow]
    BY <1>0, <2>1, <2>3, <2>4 DEF TypeOK
  <2>6. attempt' = [attempt EXCEPT ![j] =
                      [attempt[j] EXCEPT ![job[j].attempts] =
                         [attempt[j][job[j].attempts] EXCEPT !.outcome = final]]]
    BY <1>3 DEF Report, Complete
  <2>7. \A a \in AttemptRow : [a EXCEPT !.outcome = final] \in AttemptRow
    BY <2>2, Zenon DEF AttemptRow
  <2>8. attempt' \in [JobIds -> [1 .. MaxAttempts -> AttemptRow]]
    <3>1. attempt[j] \in [1 .. MaxAttempts -> AttemptRow]
      BY <1>0, <2>1 DEF TypeOK
    <3>2. [attempt[j] EXCEPT ![job[j].attempts] =
             [attempt[j][job[j].attempts] EXCEPT !.outcome = final]]
               \in [1 .. MaxAttempts -> AttemptRow]
      BY <2>7, <3>1
    <3> QED
      BY <1>0, <2>1, <2>6, <3>2 DEF TypeOK
  <2>9. held' \in [Workers -> [job : JobIds \cup {0}, token : Nat]]
    BY <1>0, <1>3 DEF TypeOK, Report, Idle, NoToken
  <2> QED
    BY <1>0, <1>3, <2>5, <2>8, <2>9 DEF TypeOK, Report
<1>4. ASSUME NEW w \in Workers, Heartbeat(w)
      PROVE  TypeOK'
  <2>1. held[w].job \in JobIds
    BY <1>4, HolderFacts DEF Heartbeat
  <2>2. job' = [job EXCEPT ![held[w].job] = [job[held[w].job] EXCEPT !.lease = "live"]]
    BY <1>4 DEF Heartbeat
  <2>3. job' \in [JobIds -> JobRow]
    BY <1>0, <1>r, <2>1, <2>2, ClockRow DEF TypeOK
  <2> QED
    BY <1>0, <1>4, <2>3 DEF TypeOK, Heartbeat
<1>5. ASSUME NEW w \in Workers, ReportStale(w) \/ Crash(w)
      PROVE  TypeOK'
  BY <1>0, <1>5 DEF TypeOK, ReportStale, Crash, Idle, NoToken
<1>6. ASSUME RecoverExpiredLeases
      PROVE  TypeOK'
  BY <1>0, <1>6, RecoveredRow DEF TypeOK, RecoverExpiredLeases
<1>7. ASSUME NEW j \in JobIds, LeaseExpires(j) \/ BecomesDue(j)
      PROVE  TypeOK'
  <2>1. \/ job' = [job EXCEPT ![j] = [job[j] EXCEPT !.lease = "expired"]]
        \/ job' = [job EXCEPT ![j] = [job[j] EXCEPT !.retry = "due"]]
    BY <1>7 DEF LeaseExpires, BecomesDue
  <2>2. /\ [job[j] EXCEPT !.lease = "expired"] \in JobRow
        /\ [job[j] EXCEPT !.retry = "due"] \in JobRow
    BY <1>r, ClockRow
  <2>3. job' \in [JobIds -> JobRow]
    BY <1>0, <2>1, <2>2 DEF TypeOK
  <2> QED
    BY <1>0, <1>7, <2>3 DEF TypeOK, LeaseExpires, BecomesDue
<1>8. ASSUME UNCHANGED queueVars
      PROVE  TypeOK'
  BY <1>0, <1>8 DEF TypeOK, queueVars
<1> QED
  BY <1>1, <1>2, <1>3, <1>4, <1>5, <1>6, <1>7, <1>8 DEF Next

-----------------------------------------------------------------------------
(* The inductive invariant.                                                 *)

LEMMA InitIInv == Init => IInv
BY InitTypeOK DEF Init, IInv, LeaseIffRunning, HeldTokensDistinct, AbsentNeverRun, NoJob, NoToken

LEMMA NextLeaseIffRunning ==
    ASSUME IInv, [Next]_queueVars
    PROVE  LeaseIffRunning'
<1> SUFFICES ASSUME NEW j \in JobIds
             PROVE  (job'[j].token # NoToken) <=> (job'[j].status = "RUNNING")
  BY DEF LeaseIffRunning
<1>1. job[j] \in JobRow /\ issued \in Nat
  BY DEF IInv, TypeOK
<1>2. (job[j].token # NoToken) <=> (job[j].status = "RUNNING")
  BY DEF IInv, LeaseIffRunning
<1>3. CASE job'[j] = job[j]
  BY <1>2, <1>3
<1>4. ASSUME NEW k \in Keys, NEW p \in Priorities, job'[j] = Enqueued(k, p)
      PROVE  (job'[j].token # NoToken) <=> (job'[j].status = "RUNNING")
  BY <1>4, EnqueuedRow
<1>5. CASE Candidate(j) /\ job'[j] = Leased(job[j], issued + 1)
  BY <1>1, <1>5, LeasedRow DEF Candidate, NoToken
<1>6. ASSUME NEW s \in CompletionStatuses, job'[j] = Closed(job[j], s)
      PROVE  (job'[j].token # NoToken) <=> (job'[j].status = "RUNNING")
  BY <1>1, <1>6, ClosedRow DEF CompletionStatuses
<1>7. CASE job'[j] = Recovered(job[j])
  BY <1>1, <1>7, RecoveredRow
<1>8. ASSUME NEW c \in {"live", "expired"}, job'[j] = [job[j] EXCEPT !.lease = c]
      PROVE  (job'[j].token # NoToken) <=> (job'[j].status = "RUNNING")
  <2>1. job'[j].token = job[j].token /\ job'[j].status = job[j].status
    BY <1>1, <1>8, ClockRow
  <2> QED
    BY <1>2, <2>1
<1>9. CASE job'[j] = [job[j] EXCEPT !.retry = "due"]
  <2>1. job'[j].token = job[j].token /\ job'[j].status = job[j].status
    BY <1>1, <1>9, ClockRow
  <2> QED
    BY <1>2, <2>1
<1> QED
  BY <1>3, <1>4, <1>5, <1>6, <1>7, <1>8, <1>9, StepOfRow DEF RowStep

LEMMA NextHeldTokensDistinct ==
    ASSUME IInv, [Next]_queueVars
    PROVE  HeldTokensDistinct'
<1>0. HeldTokensDistinct /\ issued \in Nat /\ held \in [Workers -> [job : JobIds \cup {0}, token : Nat]]
  BY DEF IInv, TypeOK
<1>1. ASSUME NEW w \in Workers, NEW j \in JobIds, Claim(w, j)
      PROVE  HeldTokensDistinct'
  BY <1>0, <1>1 DEF HeldTokensDistinct, Claim, Idle, NoToken
<1>2. ASSUME NEW w \in Workers, held' = [held EXCEPT ![w] = Idle], UNCHANGED issued
      PROVE  HeldTokensDistinct'
  BY <1>0, <1>2 DEF HeldTokensDistinct, Idle, NoToken
<1>3. ASSUME UNCHANGED <<held, issued>>
      PROVE  HeldTokensDistinct'
  BY <1>0, <1>3 DEF HeldTokensDistinct
<1> QED
  BY <1>1, <1>2, <1>3 DEF Next, queueVars, Enqueue, Report, Heartbeat, ReportStale, Crash,
       RecoverExpiredLeases, LeaseExpires, BecomesDue

LEMMA NextAbsentNeverRun ==
    ASSUME IInv, [Next]_queueVars
    PROVE  AbsentNeverRun'
<1> SUFFICES ASSUME NEW j \in JobIds, job'[j].status = "ABSENT"
             PROVE  job'[j].attempts = 0
  BY DEF AbsentNeverRun
<1>1. job[j] \in JobRow /\ issued + 1 \in Nat
  BY DEF IInv, TypeOK
<1>2. CASE job'[j] = job[j]
  BY <1>2 DEF IInv, AbsentNeverRun
<1>3. ASSUME NEW c \in {"live", "expired"}, job'[j] = [job[j] EXCEPT !.lease = c],
             job[j].token # NoToken
      PROVE  FALSE
  <2>1. job'[j].status = job[j].status
    BY <1>1, <1>3, ClockRow
  <2> QED
    BY <1>3, <2>1 DEF IInv, LeaseIffRunning
<1>4. CASE job[j].status = "FAILED_RETRYABLE" /\ job'[j] = [job[j] EXCEPT !.retry = "due"]
  BY <1>1, <1>4, ClockRow
<1>5. ASSUME NEW s \in CompletionStatuses, job'[j] = Closed(job[j], s)
      PROVE  FALSE
  BY <1>1, <1>5, ClosedRow DEF CompletionStatuses
<1>6. CASE Candidate(j) /\ job'[j] = Leased(job[j], issued + 1)
  BY <1>1, <1>6, LeasedRow DEF Candidate
<1> QED
  BY <1>1, <1>2, <1>3, <1>4, <1>5, <1>6, StepOfRow, EnqueuedRow, RecoveredRow DEF RowStep

\* However leases expire and jobs are recovered and claimed again, the inductive
\* invariant holds in every reachable state.
THEOREM Invariance == Spec => []IInv
<1>1. IInv /\ [Next]_queueVars => IInv'
  BY NextTypeOK, NextLeaseIffRunning, NextHeldTokensDistinct,
     NextAbsentNeverRun DEF IInv
<1> QED
  BY InitIInv, <1>1, PTL DEF Spec

\* Every row the queue writes is well typed: jobs/queue.py never counts an attempt
\* beyond max_attempts nor writes a status outside JobStatus.
THEOREM TypeCorrect == Spec => []TypeOK
<1>1. IInv => TypeOK
  BY DEF IInv
<1> QED
  BY <1>1, Invariance, PTL

\* A lease token is on a row exactly while the job is RUNNING, so complete(),
\* which tests only the token, never completes a job that is not running.
THEOREM LeaseMeansRunning == Spec => []LeaseIffRunning
<1>1. IInv => LeaseIffRunning
  BY DEF IInv
<1> QED
  BY <1>1, Invariance, PTL

\* At most one worker can complete a job, whatever happened to earlier leases.
THEOREM SingleOwner == Spec => []AtMostOneOwner
<1>1. IInv => AtMostOneOwner
  BY DEF IInv, HeldTokensDistinct, AtMostOneOwner, HoldsLease
<1> QED
  BY <1>1, Invariance, PTL

-----------------------------------------------------------------------------
(* What follows from it.                                                    *)

\* A settled row is left alone by every step.
LEMMA SettledRowStays ==
    ASSUME IInv, [Next]_queueVars, NEW j \in JobIds, Settled(j)
    PROVE  job'[j] = job[j]
<1>1. job[j].token = NoToken
  BY DEF IInv, LeaseIffRunning, Settled
<1> QED
  BY <1>1, StepOfRow DEF RowStep, Settled, Candidate, ClaimableStatuses, Recoverable

\* A settled job is never touched again, whichever late report, heartbeat, sweep
\* or claim arrives: the code has no status test in complete(), only the token.
THEOREM SettledForGood == Spec => SettledIsFinal
<1>1. IInv /\ [Next]_queueVars => [\A j \in JobIds : Settled(j) => job'[j] = job[j]]_queueVars
  BY SettledRowStays
<1> QED
  BY <1>1, Invariance, PTL DEF Spec, SettledIsFinal

\* A row that is live after a step was live before with the same key, unless the
\* step is the one that inserts it.
LEMMA LiveRowStep ==
    ASSUME IInv, [Next]_queueVars, NEW j \in JobIds, Live(j)', job[j].status # "ABSENT"
    PROVE  Live(j) /\ job'[j].key = job[j].key
<1>1. job[j] \in JobRow /\ issued + 1 \in Nat
  BY DEF IInv, TypeOK
<1>2. CASE job'[j] = job[j]
  BY <1>2 DEF Live
<1>3. CASE Candidate(j) /\ job'[j] = Leased(job[j], issued + 1)
  BY <1>1, <1>3, LeasedRow DEF Candidate, Live, DeadStatuses, ClaimableStatuses
<1>4. ASSUME NEW s \in CompletionStatuses, job[j].status = "RUNNING",
             job'[j] = Closed(job[j], s)
      PROVE  Live(j) /\ job'[j].key = job[j].key
  BY <1>1, <1>4, ClosedRow DEF Live, DeadStatuses
<1>5. CASE Recoverable(j) /\ job'[j] = Recovered(job[j])
  BY <1>1, <1>5, RecoveredRow DEF Live, DeadStatuses, Recoverable
<1>6. ASSUME NEW c \in {"live", "expired"}, job'[j] = [job[j] EXCEPT !.lease = c]
      PROVE  Live(j) /\ job'[j].key = job[j].key
  <2>1. job'[j].status = job[j].status /\ job'[j].key = job[j].key
    BY <1>1, <1>6, ClockRow
  <2> QED
    BY <2>1 DEF Live
<1>7. CASE job'[j] = [job[j] EXCEPT !.retry = "due"]
  <2>1. job'[j].status = job[j].status /\ job'[j].key = job[j].key
    BY <1>1, <1>7, ClockRow
  <2> QED
    BY <2>1 DEF Live
<1> QED
  BY <1>2, <1>3, <1>4, <1>5, <1>6, <1>7, StepOfRow DEF RowStep

\* The partial unique index is checked when enqueue() inserts; no other method
\* can make two rows of one identity live at once.
THEOREM IdentityLiveOnce == Spec => []OneLiveJobPerIdentity
<1>1. Init => OneLiveJobPerIdentity
  BY DEF Init, OneLiveJobPerIdentity, Live, NoJob
<1>2. ASSUME IInv, OneLiveJobPerIdentity, [Next]_queueVars
      PROVE  OneLiveJobPerIdentity'
  <2>1. ASSUME NEW j \in JobIds, NEW k \in Keys, NEW p \in Priorities, Enqueue(j, k, p)
        PROVE  OneLiveJobPerIdentity'
    <3>1. \A i \in JobIds : i # j => job'[i] = job[i]
      BY <1>2, <2>1 DEF Enqueue, IInv, TypeOK
    <3>2. job'[j] = Enqueued(k, p)
      BY <1>2, <2>1 DEF Enqueue, IInv, TypeOK
    <3> QED
      BY <1>2, <2>1, <3>1, <3>2, EnqueuedRow DEF OneLiveJobPerIdentity, Live, Enqueue
  <2>2. ASSUME \A i \in JobIds : job[i].status = "ABSENT" => job'[i] = job[i]
        PROVE  OneLiveJobPerIdentity'
    <3>1. \A i \in JobIds : Live(i)' => Live(i) /\ job'[i].key = job[i].key
      BY <1>2, <2>2, LiveRowStep DEF Live
    <3> QED
      BY <1>2, <3>1 DEF OneLiveJobPerIdentity
  <2>3. (\E j \in JobIds, k \in Keys, p \in Priorities : Enqueue(j, k, p))
          \/ (\A i \in JobIds : job[i].status = "ABSENT" => job'[i] = job[i])
    <3>1. ASSUME NEW w \in Workers, NEW s \in CompletionStatuses, Report(w, s)
          PROVE  \A i \in JobIds : job[i].status = "ABSENT" => job'[i] = job[i]
      BY <1>2, <3>1, HolderFacts DEF Report, Complete, IInv, TypeOK
    <3>2. ASSUME NEW w \in Workers, Heartbeat(w)
          PROVE  \A i \in JobIds : job[i].status = "ABSENT" => job'[i] = job[i]
      BY <1>2, <3>2, HolderFacts DEF Heartbeat, IInv, TypeOK
    <3>3. ASSUME NEW j \in JobIds,
                 LeaseExpires(j) \/ BecomesDue(j) \/ (\E w \in Workers : Claim(w, j))
          PROVE  \A i \in JobIds : job[i].status = "ABSENT" => job'[i] = job[i]
      <4>1. job[j].status # "ABSENT"
        BY <1>2, <3>3 DEF LeaseExpires, BecomesDue, Claim, Candidate, ClaimableStatuses,
                          IInv, LeaseIffRunning
      <4>2. \A i \in JobIds : i # j => job'[i] = job[i]
        BY <1>2, <3>3 DEF LeaseExpires, BecomesDue, Claim, IInv, TypeOK
      <4> QED
        BY <4>1, <4>2
    <3>4. ASSUME RecoverExpiredLeases
          PROVE  \A i \in JobIds : job[i].status = "ABSENT" => job'[i] = job[i]
      BY <1>2, <3>4 DEF RecoverExpiredLeases, Recoverable
    <3> QED
      BY <1>2, <3>1, <3>2, <3>3, <3>4 DEF Next, queueVars, ReportStale, Crash
  <2> QED
    BY <2>1, <2>2, <2>3
<1> QED
  BY <1>1, <1>2, Invariance, PTL DEF Spec

-----------------------------------------------------------------------------
(* The attempt ledger.  LedgerAgrees alone is not inductive: what a job in  *)
(* a claimable status has in the ledger decides whether the next claim      *)
(* leaves only unsuccessful attempts behind.                                *)

FinalStatuses == {"SUCCEEDED", "FAILED_TERMINAL", "CANCELLED", "BLOCKED", "CACHED"}

\* The ledger of one row.
LedgerRow(row, a) ==
    /\ row.status \in {"ABSENT", "PENDING"} => row.attempts = 0
    /\ row.status = "RUNNING" => row.attempts > 0
    /\ \A n \in 1 .. MaxAttempts :
        /\ (a[n].outcome = "NONE") <=> (n > row.attempts)
        /\ n < row.attempts => a[n].outcome \in {"OPEN", "FAILED_RETRYABLE"}
        /\ n = row.attempts =>
             /\ row.status \in FinalStatuses => a[n].outcome = row.status
             /\ row.status = "RUNNING" => a[n] = [token |-> row.token, outcome |-> "OPEN"]
             /\ row.status = "FAILED_RETRYABLE"
                  => a[n].outcome \in {"OPEN", "FAILED_RETRYABLE"}
             /\ row.status = "FAILED_RETRYABLE" /\ n = MaxAttempts
                  => a[n].outcome = "OPEN"

LedgerInv == \A j \in JobIds : LedgerRow(job[j], attempt[j])

LEMMA InitLedger == Init => LedgerInv
BY QueueAssumption DEF QueueAssumption, Init, LedgerInv, LedgerRow, NoJob, NoAttempt,
                       FinalStatuses

LEMMA LedgerImplies == LedgerInv => LedgerAgrees
BY DEF LedgerInv, LedgerRow, LedgerAgrees, Settled, FinalStatuses

\* What the four row updates do to the ledger of a row.
LEMMA LedgerOfEnqueued ==
    ASSUME NEW row, NEW r, NEW a, LedgerRow(row, a), row.attempts = 0,
           r.attempts = 0, r.status = "PENDING"
    PROVE  LedgerRow(r, a)
BY QueueAssumption DEF QueueAssumption, LedgerRow, FinalStatuses

LEMMA LedgerOfLeased ==
    ASSUME NEW row, NEW r, NEW a, NEW b, NEW t, LedgerRow(row, a),
           row.attempts \in 0 .. MaxAttempts, row.attempts < MaxAttempts,
           row.status \in ClaimableStatuses,
           r.status = "RUNNING", r.token = t, r.attempts = row.attempts + 1,
           \A n \in 1 .. MaxAttempts :
             b[n] = IF n = row.attempts + 1 THEN [token |-> t, outcome |-> "OPEN"]
                    ELSE a[n]
    PROVE  LedgerRow(r, b)
BY QueueAssumption DEF QueueAssumption, LedgerRow, FinalStatuses, ClaimableStatuses

LEMMA LedgerOfClosed ==
    ASSUME NEW row, NEW r, NEW a, NEW b, NEW f \in CompletionStatuses, LedgerRow(row, a),
           row.attempts \in 0 .. MaxAttempts, row.status = "RUNNING",
           f = "FAILED_RETRYABLE" => ~(row.attempts >= MaxAttempts),
           r.status = f, r.attempts = row.attempts,
           \A n \in 1 .. MaxAttempts :
             /\ n # row.attempts => b[n] = a[n]
             /\ n = row.attempts => b[n].outcome = f
    PROVE  LedgerRow(r, b)
BY QueueAssumption DEF QueueAssumption, LedgerRow, FinalStatuses, CompletionStatuses

LEMMA LedgerOfRecovered ==
    ASSUME NEW row, NEW r, NEW a, LedgerRow(row, a),
           row.attempts \in 0 .. MaxAttempts, row.status = "RUNNING",
           r.status = "FAILED_RETRYABLE", r.attempts = row.attempts
    PROVE  LedgerRow(r, a)
BY QueueAssumption DEF QueueAssumption, LedgerRow, FinalStatuses

LEMMA LedgerOfUntouched ==
    ASSUME NEW row, NEW r, NEW a, LedgerRow(row, a),
           r.status = row.status, r.token = row.token, r.attempts = row.attempts
    PROVE  LedgerRow(r, a)
BY DEF LedgerRow

LEMMA NextLedger ==
    ASSUME IInv, LedgerInv, [Next]_queueVars
    PROVE  LedgerInv'
<1>0. /\ job \in [JobIds -> JobRow] /\ issued + 1 \in Nat
      /\ attempt \in [JobIds -> [1 .. MaxAttempts -> AttemptRow]]
      /\ \A j \in JobIds : LedgerRow(job[j], attempt[j])
      /\ \A j \in JobIds : job[j].attempts \in 0 .. MaxAttempts
  <2>1. job \in [JobIds -> JobRow]
    BY DEF IInv, TypeOK
  <2>2. \A row \in JobRow : row.attempts \in 0 .. MaxAttempts
    BY Zenon DEF JobRow
  <2> QED
    BY <2>1, <2>2 DEF IInv, TypeOK, LedgerInv
<1> SUFFICES \A j \in JobIds : LedgerRow(job'[j], attempt'[j])
  BY DEF LedgerInv
<1>1. ASSUME NEW j \in JobIds, NEW k \in Keys, NEW p \in Priorities, Enqueue(j, k, p)
      PROVE  \A i \in JobIds : LedgerRow(job'[i], attempt'[i])
  <2>1. job[j].attempts = 0
    BY <1>0, <1>1 DEF Enqueue, LedgerRow
  <2>2. LedgerRow(Enqueued(k, p), attempt[j])
    BY <1>0, <2>1, EnqueuedRow, LedgerOfEnqueued
  <2> QED
    BY <1>0, <1>1, <2>2 DEF Enqueue
<1>2. ASSUME NEW w \in Workers, NEW j \in JobIds, Claim(w, j)
      PROVE  \A i \in JobIds : LedgerRow(job'[i], attempt'[i])
  <2> DEFINE r == Leased(job[j], issued + 1)
             a == [attempt[j] EXCEPT ![job[j].attempts + 1] =
                     [token |-> issued + 1, outcome |-> "OPEN"]]
  <2>1. /\ job[j].status \in ClaimableStatuses /\ job[j].attempts < MaxAttempts
        /\ job' = [job EXCEPT ![j] = r] /\ attempt' = [attempt EXCEPT ![j] = a]
    BY <1>2 DEF Claim, Candidate
  <2>2. /\ r.status = "RUNNING" /\ r.token = issued + 1
        /\ r.attempts = job[j].attempts + 1
    BY <1>0, <2>1, LeasedRow
  <2>3. attempt[j] \in [1 .. MaxAttempts -> AttemptRow]
    BY <1>0
  <2>4. \A n \in 1 .. MaxAttempts :
          a[n] = IF n = job[j].attempts + 1 THEN [token |-> issued + 1, outcome |-> "OPEN"]
                 ELSE attempt[j][n]
    BY <2>3
  <2> HIDE DEF r, a
  <2>5. LedgerRow(r, a)
    BY <1>0, <2>1, <2>2, <2>4, LedgerOfLeased
  <2> QED
    BY <1>0, <2>1, <2>5
<1>3. ASSUME NEW w \in Workers, NEW s \in CompletionStatuses, Report(w, s)
      PROVE  \A i \in JobIds : LedgerRow(job'[i], attempt'[i])
  <2> DEFINE j == held[w].job
             final == Outcome(j, s)
             r == Closed(job[j], final)
             a == [attempt[j] EXCEPT ![job[j].attempts] =
                     [attempt[j][job[j].attempts] EXCEPT !.outcome = final]]
  <2>1. /\ j \in JobIds /\ job[j].status = "RUNNING" /\ final \in CompletionStatuses
        /\ final = "FAILED_RETRYABLE" => ~(job[j].attempts >= MaxAttempts)
    BY <1>3, HolderFacts, OutcomeType DEF Report
  <2>2. job' = [job EXCEPT ![j] = r] /\ attempt' = [attempt EXCEPT ![j] = a]
    BY <1>3 DEF Report, Complete
  <2>3. r.status = final /\ r.attempts = job[j].attempts
    BY <1>0, <2>1, ClosedRow
  <2>4. attempt[j] \in [1 .. MaxAttempts -> AttemptRow]
    BY <1>0, <2>1
  <2>5. \A n \in 1 .. MaxAttempts :
          /\ n # job[j].attempts => a[n] = attempt[j][n]
          /\ n = job[j].attempts => a[n].outcome = final
    BY <2>4 DEF AttemptRow
  <2> HIDE DEF final, r, a
  <2>6. LedgerRow(r, a)
    BY <1>0, <2>1, <2>3, <2>5, LedgerOfClosed
  <2> QED
    BY <1>0, <2>1, <2>2, <2>6
<1>4. ASSUME RecoverExpiredLeases
      PROVE  \A i \in JobIds : LedgerRow(job'[i], attempt'[i])
  <2>1. ASSUME NEW i \in JobIds, Recoverable(i)
        PROVE  LedgerRow(Recovered(job[i]), attempt[i])
    BY <1>0, <2>1, RecoveredRow, LedgerOfRecovered DEF Recoverable
  <2> QED
    BY <1>0, <1>4, <2>1 DEF RecoverExpiredLeases
<1>5. ASSUME UNCHANGED attempt,
             \A i \in JobIds : /\ job'[i].status = job[i].status
                               /\ job'[i].token = job[i].token
                               /\ job'[i].attempts = job[i].attempts
      PROVE  \A i \in JobIds : LedgerRow(job'[i], attempt'[i])
  BY <1>0, <1>5, LedgerOfUntouched
<1>6. ASSUME NEW w \in Workers, Heartbeat(w)
      PROVE  \A i \in JobIds : LedgerRow(job'[i], attempt'[i])
  <2>1. held[w].job \in JobIds
    BY <1>6, HolderFacts DEF Heartbeat
  <2>2. job' = [job EXCEPT ![held[w].job] = [job[held[w].job] EXCEPT !.lease = "live"]]
    BY <1>6 DEF Heartbeat
  <2>3. \A i \in JobIds : /\ job'[i].status = job[i].status
                          /\ job'[i].token = job[i].token
                          /\ job'[i].attempts = job[i].attempts
    BY <1>0, <2>1, <2>2, ClockRow
  <2> QED
    BY <1>5, <1>6, <2>3 DEF Heartbeat
<1>7. ASSUME NEW j \in JobIds, LeaseExpires(j) \/ BecomesDue(j)
      PROVE  \A i \in JobIds : LedgerRow(job'[i], attempt'[i])
  <2>1. \/ job' = [job EXCEPT ![j] = [job[j] EXCEPT !.lease = "expired"]]
        \/ job' = [job EXCEPT ![j] = [job[j] EXCEPT !.retry = "due"]]
    BY <1>7 DEF LeaseExpires, BecomesDue
  <2>2. /\ [job[j] EXCEPT !.lease = "expired"].status = job[j].status
        /\ [job[j] EXCEPT !.lease = "expired"].token = job[j].token
        /\ [job[j] EXCEPT !.lease = "expired"].attempts = job[j].attempts
        /\ [job[j] EXCEPT !.retry = "due"].status = job[j].status
        /\ [job[j] EXCEPT !.retry = "due"].token = job[j].token
        /\ [job[j] EXCEPT !.retry = "due"].attempts = job[j].attempts
    BY <1>0, ClockRow
  <2>3. \A i \in JobIds : /\ job'[i].status = job[i].status
                          /\ job'[i].token = job[i].token
                          /\ job'[i].attempts = job[i].attempts
    BY <1>0, <2>1, <2>2
  <2> QED
    BY <1>5, <1>7, <2>3 DEF LeaseExpires, BecomesDue
<1>8. ASSUME UNCHANGED <<job, attempt>>
      PROVE  \A i \in JobIds : LedgerRow(job'[i], attempt'[i])
  BY <1>0, <1>8
<1> QED
  BY <1>1, <1>2, <1>3, <1>4, <1>6, <1>7, <1>8 DEF Next, ReportStale, Crash, queueVars

\* The attempt ledger and the job row never disagree: complete() writes the
\* attempt_count-th attempt, and that is the attempt its caller was given.
THEOREM LedgerIsConsistent == Spec => []LedgerAgrees
<1> QED
  BY LedgerImplies, InitLedger, NextLedger, Invariance, PTL DEF Spec

\* A job that nobody can claim and nobody works on lost the worker of its latest
\* attempt: complete() leaves no retryable job at its limit, only the sweep does.
THEOREM StrandingNeedsLoss == Spec => []StrandedOnlyWhenAbandoned
<1>1. ASSUME IInv, LedgerInv PROVE StrandedOnlyWhenAbandoned
  <2> SUFFICES ASSUME NEW j \in JobIds, job[j].status # "ABSENT", ~Settled(j),
                      ~(job[j].status \in ClaimableStatuses /\ job[j].attempts < MaxAttempts),
                      \A w \in Workers : HoldsLease(w) => held[w].job # j
               PROVE  Abandoned(j)
    BY DEF StrandedOnlyWhenAbandoned
  <2>1. job \in [JobIds -> JobRow]
    BY <1>1 DEF IInv, TypeOK
  <2>2. job[j].attempts \in 0 .. MaxAttempts /\ job[j].status \in JobStatuses \cup {"ABSENT"}
    BY <2>1, Zenon DEF JobRow
  <2>3. LedgerRow(job[j], attempt[j])
    BY <1>1 DEF LedgerInv
  <2>4. job[j].status \in {"PENDING", "FAILED_RETRYABLE", "RUNNING"}
    BY <2>2 DEF JobStatuses, CompletionStatuses, Settled
  <2>5. CASE job[j].status = "RUNNING"
    <3>1. job[j].attempts > 0
      BY <2>3, <2>5 DEF LedgerRow
    <3> QED BY <2>2, <2>3, <2>5, <3>1 DEF Abandoned, LedgerRow
  <2>6. CASE job[j].status # "RUNNING"
    <3>1. job[j].attempts = MaxAttempts /\ job[j].attempts > 0
      BY <2>2, <2>4, <2>6, QueueAssumption DEF QueueAssumption, ClaimableStatuses
    <3>2. job[j].status = "FAILED_RETRYABLE"
      BY <2>3, <2>4, <2>6, <3>1 DEF LedgerRow
    <3> QED BY <2>2, <2>3, <3>1, <3>2 DEF Abandoned, LedgerRow
  <2> QED BY <2>5, <2>6
<1> QED
  BY <1>1, InitLedger, NextLedger, Invariance, PTL DEF Spec

-----------------------------------------------------------------------------
(* The queue implements JobLifecycle.                                       *)

LEMMA PhaseFacts ==
    ASSUME NEW row
    PROVE  /\ row.status = "ABSENT" => PhaseOf(row) = "absent"
           /\ row.status \in ClaimableStatuses => PhaseOf(row) = "waiting"
           /\ row.status = "RUNNING" => PhaseOf(row) = "running"
           /\ row.status \in CompletionStatuses \ {"FAILED_RETRYABLE"}
                => PhaseOf(row) = row.status
BY DEF PhaseOf, ClaimableStatuses, CompletionStatuses

LEMMA InitImplements == Init => Lifecycle!LifecycleInit
<1> SUFFICES ASSUME Init PROVE Lifecycle!LifecycleInit
  OBVIOUS
<1>1. \A j \in JobIds : job[j] = NoJob
  BY DEF Init
<1>2. PhaseOf(NoJob) = "absent"
  BY PhaseFacts DEF NoJob
<1> QED
  BY <1>1, <1>2 DEF Lifecycle!LifecycleInit, NoJob

\* A step that changes at most the clocks of rows changes no phase and no count.
LEMMA ClockStepStutters ==
    ASSUME IInv,
           \A j \in JobIds : /\ job'[j].status = job[j].status
                             /\ job'[j].attempts = job[j].attempts
    PROVE  UNCHANGED Lifecycle!lifecycleVars
<1>1. \A j \in JobIds : PhaseOf(job'[j]) = PhaseOf(job[j])
  BY DEF PhaseOf
<1> QED
  BY <1>1 DEF Lifecycle!lifecycleVars

LEMMA NextImplements ==
    ASSUME IInv, [Next]_queueVars
    PROVE  [Lifecycle!LifecycleNext]_(Lifecycle!lifecycleVars)
<1>0. job \in [JobIds -> JobRow] /\ issued + 1 \in Nat
  BY DEF IInv, TypeOK
<1>1. ASSUME NEW j \in JobIds, NEW k \in Keys, NEW p \in Priorities, Enqueue(j, k, p)
      PROVE  Lifecycle!Submit(j)
  <2>1. PhaseOf(job[j]) = "absent" /\ job[j].attempts = 0
    BY <1>1, PhaseFacts DEF Enqueue, IInv, AbsentNeverRun
  <2>2. PhaseOf(Enqueued(k, p)) = "waiting" /\ Enqueued(k, p).attempts = 0
    BY PhaseFacts, EnqueuedRow DEF ClaimableStatuses
  <2>3. job' = [job EXCEPT ![j] = Enqueued(k, p)]
    BY <1>1 DEF Enqueue
  <2> QED
    BY <1>0, <2>1, <2>2, <2>3 DEF Lifecycle!Submit
<1>2. ASSUME NEW w \in Workers, NEW j \in JobIds, Claim(w, j)
      PROVE  Lifecycle!Start(j)
  <2> DEFINE r == Leased(job[j], issued + 1)
  <2>1. PhaseOf(job[j]) = "waiting" /\ job[j].attempts < MaxAttempts
    BY <1>2, PhaseFacts DEF Claim, Candidate
  <2>2. r.status = "RUNNING" /\ r.attempts = job[j].attempts + 1
    BY <1>0, <2>1, LeasedRow
  <2>3. PhaseOf(r) = "running"
    BY <2>2, PhaseFacts
  <2>4. job' = [job EXCEPT ![j] = r]
    BY <1>2 DEF Claim
  <2> HIDE DEF r
  <2> QED
    BY <1>0, <2>1, <2>2, <2>3, <2>4 DEF Lifecycle!Start
<1>3. ASSUME NEW w \in Workers, NEW s \in CompletionStatuses, Report(w, s)
      PROVE  \/ \E outcome \in CompletionStatuses \ {"FAILED_RETRYABLE"} :
                     Lifecycle!Settle(held[w].job, outcome)
             \/ Lifecycle!Yield({held[w].job})
  <2> DEFINE j == held[w].job
             final == Outcome(j, s)
             r == Closed(job[j], final)
  <2> SUFFICES \/ final # "FAILED_RETRYABLE" /\ Lifecycle!Settle(j, final)
               \/ Lifecycle!Yield({j})
    BY OutcomeType
  <2>1. j \in JobIds /\ job[j].status = "RUNNING"
    BY <1>3, HolderFacts DEF Report
  <2>2. final \in CompletionStatuses
    BY OutcomeType
  <2>3. r.status = final /\ r.attempts = job[j].attempts
    BY <1>0, <2>1, <2>2, ClosedRow
  <2>4. PhaseOf(job[j]) = "running"
    BY <2>1, PhaseFacts
  <2>5. PhaseOf(r) = IF final = "FAILED_RETRYABLE" THEN "waiting" ELSE final
    BY <2>2, <2>3, PhaseFacts DEF ClaimableStatuses
  <2>6. job' = [job EXCEPT ![j] = r]
    BY <1>3 DEF Report, Complete
  <2> HIDE DEF j, final, r
  <2>7. CASE final = "FAILED_RETRYABLE"
    BY <1>0, <2>1, <2>3, <2>4, <2>5, <2>6, <2>7 DEF Lifecycle!Yield
  <2>8. CASE final # "FAILED_RETRYABLE"
    BY <1>0, <2>1, <2>3, <2>4, <2>5, <2>6, <2>8 DEF Lifecycle!Settle
  <2> QED
    BY <2>7, <2>8
<1>4. ASSUME RecoverExpiredLeases
      PROVE  Lifecycle!Yield({j \in JobIds : Recoverable(j)})
  <2>1. \A j \in JobIds : Recoverable(j) => PhaseOf(job[j]) = "running"
    BY PhaseFacts DEF Recoverable
  <2>2. \A j \in JobIds : /\ PhaseOf(Recovered(job[j])) = "waiting"
                          /\ Recovered(job[j]).attempts = job[j].attempts
    BY <1>0, RecoveredRow, PhaseFacts DEF ClaimableStatuses
  <2>3. job' = [j \in JobIds |-> IF Recoverable(j) THEN Recovered(job[j]) ELSE job[j]]
    BY <1>4 DEF RecoverExpiredLeases
  <2> QED
    BY <1>0, <2>1, <2>2, <2>3 DEF Lifecycle!Yield
<1>5. ASSUME NEW w \in Workers, Heartbeat(w)
      PROVE  UNCHANGED Lifecycle!lifecycleVars
  <2>1. held[w].job \in JobIds
    BY <1>5, HolderFacts DEF Heartbeat
  <2>2. job' = [job EXCEPT ![held[w].job] = [job[held[w].job] EXCEPT !.lease = "live"]]
    BY <1>5 DEF Heartbeat
  <2> QED
    BY <1>0, <2>1, <2>2, ClockRow, ClockStepStutters
<1>6. ASSUME NEW j \in JobIds, LeaseExpires(j) \/ BecomesDue(j)
      PROVE  UNCHANGED Lifecycle!lifecycleVars
  <2>1. \/ job' = [job EXCEPT ![j] = [job[j] EXCEPT !.lease = "expired"]]
        \/ job' = [job EXCEPT ![j] = [job[j] EXCEPT !.retry = "due"]]
    BY <1>6 DEF LeaseExpires, BecomesDue
  <2>2. /\ [job[j] EXCEPT !.lease = "expired"].status = job[j].status
        /\ [job[j] EXCEPT !.lease = "expired"].attempts = job[j].attempts
        /\ [job[j] EXCEPT !.retry = "due"].status = job[j].status
        /\ [job[j] EXCEPT !.retry = "due"].attempts = job[j].attempts
    BY <1>0, ClockRow
  <2> QED
    BY <1>0, <2>1, <2>2, ClockStepStutters
<1>7. ASSUME UNCHANGED job
      PROVE  UNCHANGED Lifecycle!lifecycleVars
  BY <1>7, ClockStepStutters
<1> QED
  <2>1. CASE \/ \E w \in Workers : ReportStale(w) \/ Crash(w)
             \/ UNCHANGED queueVars
    BY <1>7, <2>1 DEF ReportStale, Crash, queueVars
  <2>2. CASE \E w \in Workers, s \in CompletionStatuses : Report(w, s)
    <3>1. PICK w \in Workers, s \in CompletionStatuses : Report(w, s)
      BY <2>2
    <3>2. \/ \E outcome \in CompletionStatuses \ {"FAILED_RETRYABLE"} :
                Lifecycle!Settle(held[w].job, outcome)
          \/ Lifecycle!Yield({held[w].job})
      BY <1>3, <3>1
    <3>3. held[w].job \in JobIds
      BY <3>1, HolderFacts DEF Report
    <3> QED
      BY <3>2, <3>3 DEF Lifecycle!LifecycleNext
  <2>3. CASE RecoverExpiredLeases
    BY <1>4, <2>3 DEF Lifecycle!LifecycleNext
  <2>4. CASE \E j \in JobIds, k \in Keys, p \in Priorities : Enqueue(j, k, p)
    BY <1>1, <2>4 DEF Lifecycle!LifecycleNext
  <2>5. CASE \E w \in Workers, j \in JobIds : Claim(w, j)
    BY <1>2, <2>5 DEF Lifecycle!LifecycleNext
  <2> QED
    BY <1>5, <1>6, <2>1, <2>2, <2>3, <2>4, <2>5 DEF Next

\* The leased queue implements the life of a job: one worker at a time, at most
\* max_attempts runs, and a settled job keeps its outcome.
THEOREM QueueImplementsLifecycle == Spec => ImplementsLifecycle
<1> QED
  BY InitImplements, NextImplements, Invariance, PTL
     DEF Spec, ImplementsLifecycle, Lifecycle!LifecycleSpec
=============================================================================
