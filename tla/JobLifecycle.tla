---------------------------- MODULE JobLifecycle ----------------------------
(***************************************************************************)
(* What the leased job queue promises about each job, without saying how:  *)
(* a submitted job waits, is run by one worker at a time and at most       *)
(* MaxAttempts times, goes back to waiting when a run yields nothing, and  *)
(* keeps the outcome it is settled with.  JobQueue.tla implements this.    *)
(***************************************************************************)
EXTENDS Naturals

CONSTANTS JobIds,        \* the rows the job table may hold
          MaxAttempts,   \* Job.max_attempts
          Outcomes       \* what a job can be settled with

VARIABLES phase,         \* where each job is in its life, its outcome at the end
          runs           \* how often each job has been started

lifecycleVars == <<phase, runs>>

Phases == {"absent", "waiting", "running"} \cup Outcomes

LifecycleTypeOK ==
    /\ phase \in [JobIds -> Phases]
    /\ runs \in [JobIds -> 0 .. MaxAttempts]

LifecycleInit ==
    /\ phase = [j \in JobIds |-> "absent"]
    /\ runs = [j \in JobIds |-> 0]

Submit(j) ==
    /\ phase[j] = "absent"
    /\ phase' = [phase EXCEPT ![j] = "waiting"]
    /\ UNCHANGED runs

Start(j) ==
    /\ phase[j] = "waiting"
    /\ runs[j] < MaxAttempts
    /\ phase' = [phase EXCEPT ![j] = "running"]
    /\ runs' = [runs EXCEPT ![j] = @ + 1]

\* Several runs can come to nothing at once (a sweep of expired leases).
Yield(S) ==
    /\ \A j \in S : phase[j] = "running"
    /\ phase' = [j \in JobIds |-> IF j \in S THEN "waiting" ELSE phase[j]]
    /\ UNCHANGED runs

Settle(j, outcome) ==
    /\ phase[j] = "running"
    /\ phase' = [phase EXCEPT ![j] = outcome]
    /\ UNCHANGED runs

LifecycleNext ==
    \/ \E j \in JobIds : Submit(j) \/ Start(j)
    \/ \E j \in JobIds, outcome \in Outcomes : Settle(j, outcome)
    \/ \E S \in SUBSET JobIds : Yield(S)

LifecycleSpec == LifecycleInit /\ [][LifecycleNext]_lifecycleVars
=============================================================================
