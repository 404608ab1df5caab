---------------------------- MODULE Acquisition ----------------------------
(***************************************************************************)
(* One source run of a refresh: acquisition/runner.py with the             *)
(* repositories it writes through.  A logical run key names one source run *)
(* row; every invocation of run_source with that key joins it, so a rerun  *)
(* after a crash, or a second process started on the same day, works on    *)
(* the same checkpoints and overwrites the same status.                    *)
(*                                                                         *)
(* The steps of an invocation are its transactions and the network calls   *)
(* between them; seen_identities and the summary are memory of the         *)
(* invocation and are lost with it.  Listings are abstract items and a     *)
(* discovery page is a set of them: the order within a page is left open.  *)
(***************************************************************************)
EXTENDS Naturals, FiniteSets

CONSTANTS Partitions,       \* number of partitions of the adapter's plan
          Items,            \* listing identities
          Page,             \* what each partition's query covers
          Runners,          \* processes that call run_source with this key
          DiscoveryMethod,  \* the discovery_method argument
          MaxInvocations    \* bound: calls of run_source with this key

ASSUME AcquisitionAssumption ==
    /\ Partitions \in Nat \ {0}
    /\ Page \in [1 .. Partitions -> SUBSET Items]
    /\ DiscoveryMethod \in {"DIRECT", "SEARCH_INDEX"}
    /\ MaxInvocations \in Nat

VARIABLES sourceRun,    \* ops.source_run: status and health_gate_passed
          completed,    \* partitions with a completed adapter_checkpoint row
          captures,     \* observations persisted per item, one NORMALIZE job each
          runner,       \* the memory of each process
          invocations,  \* calls of run_source so far
          truncated     \* history: partitions checkpointed from a degraded page

acquisitionVars == <<sourceRun, completed, captures, runner, invocations, truncated>>

Plan == 1 .. Partitions

SourceRunStatuses == {"HEALTHY", "DEGRADED", "FAILED", "BLOCKED"}
Markers == {"clean", "degraded"}

Absent == [pc |-> "idle", part |-> 1, seen |-> {}, todo |-> {}, page |-> "clean",
           health |-> "clean", done |-> {}, failed |-> {}]

Runner == [pc : {"idle", "preflight", "partition", "discover", "items",
                 "checkpoint", "insert", "finalize"},
           part : 1 .. Partitions + 1,
           seen : SUBSET Items,
           todo : SUBSET Items,
           page : Markers,
           health : Markers,
           done : SUBSET Plan,
           failed : SUBSET Plan]

Worse(a, b) == IF "degraded" \in {a, b} THEN "degraded" ELSE "clean"

-----------------------------------------------------------------------------

Init ==
    /\ sourceRun = [status |-> "PENDING", gate |-> "unset"]
    /\ completed = {}
    /\ captures = [i \in Items |-> 0]
    /\ runner = [r \in Runners |-> Absent]
    /\ invocations = 0
    /\ truncated = {}

At(r, pc) == runner[r].pc = pc

\* run_source, transaction 1: create the refresh and source run or join them.
\* The row a joined run left keeps its status until this invocation finalizes.
Begin(r) ==
    /\ runner[r].pc = "idle"
    /\ invocations < MaxInvocations
    /\ invocations' = invocations + 1
    /\ runner' = [runner EXCEPT ![r] = [Absent EXCEPT !.pc = "preflight"]]
    /\ UNCHANGED <<sourceRun, completed, captures, truncated>>

\* A slip: the source run is closed in the words of the refresh run.
FinalizedAsRefresh(status) ==
    [status |-> IF status = "HEALTHY" THEN "SUCCEEDED" ELSE "PARTIAL_SUCCESS",
     gate |-> IF status = "HEALTHY" THEN "passed" ELSE "not passed"]

\* _finalize: the last invocation to get here decides.
Finalized(status) ==
    [status |-> status,
     gate |-> IF status = "HEALTHY" /\ DiscoveryMethod # "SEARCH_INDEX"
              THEN "passed" ELSE "not passed"]

PreflightBlocked(r) ==
    /\ At(r, "preflight")
    /\ sourceRun' = Finalized("BLOCKED")
    /\ runner' = [runner EXCEPT ![r] = Absent]
    /\ UNCHANGED <<completed, captures, invocations, truncated>>

Preflight(r, health) ==
    /\ At(r, "preflight")
    /\ runner' = [runner EXCEPT ![r].pc = "partition", ![r].health = health]
    /\ UNCHANGED <<sourceRun, completed, captures, invocations, truncated>>

\* The for loop moves on, after a normal return or a caught exception.
NextPartition(r, result) ==
    LET k == runner[r].part IN
    [runner[r] EXCEPT !.pc = "partition", !.part = k + 1, !.todo = {},
                      !.page = "clean",
                      !.health = IF result = "done" THEN Worse(@, runner[r].page) ELSE @,
                      !.done = IF result = "done" THEN @ \cup {k} ELSE @,
                      !.failed = IF result = "failed" THEN @ \cup {k} ELSE @]

\* _run_partition finds a completed checkpoint and returns False at once.
Replay(r) ==
    /\ At(r, "partition")
    /\ runner[r].part \in completed
    /\ runner' = [runner EXCEPT ![r] = NextPartition(r, "done")]
    /\ UNCHANGED <<sourceRun, completed, captures, invocations, truncated>>

StartPartition(r) ==
    /\ At(r, "partition")
    /\ runner[r].part \in Plan \ completed
    /\ runner' = [runner EXCEPT ![r].pc = "discover"]
    /\ UNCHANGED <<sourceRun, completed, captures, invocations, truncated>>

\* adapter.discover: the whole page, or a truncated or failed search (then any
\* part of it, an empty one included) with its marker set.
Discover(r, items, marker) ==
    /\ At(r, "discover")
    /\ IF marker = "clean" THEN items = Page[runner[r].part]
                           ELSE items \subseteq Page[runner[r].part]
    /\ runner' = [runner EXCEPT ![r].pc = "items", ![r].todo = items, ![r].page = marker]
    /\ UNCHANGED <<sourceRun, completed, captures, invocations, truncated>>

\* A slip: a failed partition is tried again at once.
DiscoverRaisesRetries(r) ==
    /\ At(r, "discover")
    /\ runner' = [runner EXCEPT ![r].pc = "partition"]
    /\ UNCHANGED <<sourceRun, completed, captures, invocations, truncated>>

\* Any exception of discover, fetch_detail or extract is caught by run_source:
\* the partition has failed and the next one is tried.
DiscoverRaises(r) ==
    /\ At(r, "discover")
    /\ runner' = [runner EXCEPT ![r] = NextPartition(r, "failed")]
    /\ UNCHANGED <<sourceRun, completed, captures, invocations, truncated>>

SkipSeen(r, i) ==
    /\ At(r, "items")
    /\ i \in runner[r].todo \cap runner[r].seen
    /\ runner' = [runner EXCEPT ![r].todo = @ \ {i}]
    /\ UNCHANGED <<sourceRun, completed, captures, invocations, truncated>>

\* A slip: seen_identities is not updated.
CaptureUnmarked(r, i) ==
    /\ At(r, "items")
    /\ i \in runner[r].todo \ runner[r].seen
    /\ captures' = [captures EXCEPT ![i] = @ + 1]
    /\ runner' = [runner EXCEPT ![r].todo = @ \ {i}]
    /\ UNCHANGED <<sourceRun, completed, invocations, truncated>>

\* fetch_detail and extract succeed; the observation and its NORMALIZE job are
\* committed together.  observed_at is the moment of this capture, so neither
\* insert_idempotent nor enqueue ever meets its own earlier row.
Capture(r, i) ==
    /\ At(r, "items")
    /\ i \in runner[r].todo \ runner[r].seen
    /\ captures' = [captures EXCEPT ![i] = @ + 1]
    /\ runner' = [runner EXCEPT ![r].todo = @ \ {i}, ![r].seen = @ \cup {i}]
    /\ UNCHANGED <<sourceRun, completed, invocations, truncated>>

\* The identity is marked as seen before the call that raises.
CaptureRaises(r, i) ==
    /\ At(r, "items")
    /\ i \in runner[r].todo \ runner[r].seen
    /\ runner' = [runner EXCEPT ![r] = [NextPartition(r, "failed") EXCEPT !.seen = @ \cup {i}]]
    /\ UNCHANGED <<sourceRun, completed, captures, invocations, truncated>>

\* A slip: the checkpoint is written once discovery returned, before the items.
ItemsDoneEarly(r) ==
    /\ At(r, "items")
    /\ runner' = [runner EXCEPT ![r].pc = "checkpoint"]
    /\ UNCHANGED <<sourceRun, completed, captures, invocations, truncated>>

ItemsDone(r) ==
    /\ At(r, "items")
    /\ runner[r].todo = {}
    /\ runner' = [runner EXCEPT ![r].pc = "checkpoint"]
    /\ UNCHANGED <<sourceRun, completed, captures, invocations, truncated>>

\* The closing transaction selects the checkpoint row: another invocation may
\* have written it meanwhile, else this one goes on to insert it.
CheckpointExists(r) ==
    /\ At(r, "checkpoint")
    /\ runner[r].part \in completed
    /\ runner' = [runner EXCEPT ![r] = NextPartition(r, "done")]
    /\ UNCHANGED <<sourceRun, completed, captures, invocations, truncated>>

CheckpointMissing(r) ==
    /\ At(r, "checkpoint")
    /\ runner[r].part \notin completed
    /\ runner' = [runner EXCEPT ![r].pc = "insert"]
    /\ UNCHANGED <<sourceRun, completed, captures, invocations, truncated>>

InsertCheckpoint(r) ==
    /\ At(r, "insert")
    /\ runner[r].part \notin completed
    /\ completed' = completed \cup {runner[r].part}
    /\ truncated' = IF runner[r].page = "degraded"
                    THEN truncated \cup {runner[r].part} ELSE truncated
    /\ runner' = [runner EXCEPT ![r] = NextPartition(r, "done")]
    /\ UNCHANGED <<sourceRun, captures, invocations>>

\* The row appeared between the select and the insert: the unique constraint
\* raises, and the partition counts as failed.
InsertConflicts(r) ==
    /\ At(r, "insert")
    /\ runner[r].part \in completed
    /\ runner' = [runner EXCEPT ![r] = NextPartition(r, "failed")]
    /\ UNCHANGED <<sourceRun, completed, captures, invocations, truncated>>

\* A slip: the verdict looks at the health of the pages only.
VerdictOfPages(r) ==
    IF runner[r].failed # {} /\ runner[r].done = {} THEN "FAILED"
    ELSE IF runner[r].health = "degraded" THEN "DEGRADED"
    ELSE "HEALTHY"

Verdict(r) ==
    IF runner[r].failed # {} /\ runner[r].done = {} THEN "FAILED"
    ELSE IF runner[r].failed # {} \/ runner[r].health = "degraded" THEN "DEGRADED"
    ELSE "HEALTHY"

Finalize(r) ==
    /\ At(r, "partition")
    /\ runner[r].part = Partitions + 1
    /\ sourceRun' = Finalized(Verdict(r))
    /\ runner' = [runner EXCEPT ![r] = Absent]
    /\ UNCHANGED <<completed, captures, invocations, truncated>>

\* The process dies, or an exception outside the partition loop ends the call.
Crash(r) ==
    /\ runner[r].pc # "idle"
    /\ runner' = [runner EXCEPT ![r] = Absent]
    /\ UNCHANGED <<sourceRun, completed, captures, invocations, truncated>>

\* One step of an invocation that goes on.
Step(r) ==
    \/ PreflightBlocked(r)
    \/ \E m \in Markers : Preflight(r, m)
    \/ Replay(r)
    \/ StartPartition(r)
    \/ \E items \in SUBSET Items, m \in Markers : Discover(r, items, m)
    \/ DiscoverRaises(r)
    \/ \E i \in Items : SkipSeen(r, i)
    \/ \E i \in Items : Capture(r, i)
    \/ \E i \in Items : CaptureRaises(r, i)
    \/ ItemsDone(r)
    \/ CheckpointExists(r)
    \/ CheckpointMissing(r)
    \/ InsertCheckpoint(r)
    \/ InsertConflicts(r)
    \/ Finalize(r)

Next == \E r \in Runners : Begin(r) \/ Step(r) \/ Crash(r)

Spec == Init /\ [][Next]_acquisitionVars

-----------------------------------------------------------------------------
(* What a source run has to guarantee.                                      *)

TypeOK ==
    /\ sourceRun \in [status : SourceRunStatuses \cup {"PENDING"},
                      gate : {"unset", "passed", "not passed"}]
    /\ completed \subseteq Plan
    /\ captures \in [Items -> Nat]
    /\ runner \in [Runners -> Runner]
    /\ invocations \in Nat
    /\ truncated \subseteq Plan

\* However invocations crash, join and overlap, a source run is reported
\* HEALTHY, and may pass the disappearance gate, only when every partition of
\* the plan has been completed by one of them.
HealthyMeansAllPartitionsDone ==
    sourceRun.status = "HEALTHY" \/ sourceRun.gate = "passed" => completed = Plan

Captured == {i \in Items : captures[i] > 0}

\* When every partition was completed from a whole page, every listing the
\* plan covers has an observation: although an item is marked as seen before it
\* is fetched, and although two processes share the checkpoints, no listing
\* falls between a failed partition and the one that skips it.
CleanScopeIsCaptured ==
    completed = Plan /\ truncated = {} => \A k \in Plan : Page[k] \subseteq Captured

\* Overlapping partitions never make one invocation capture a listing twice.
OneCapturePerInvocation == \A i \in Items : captures[i] <= invocations

\* The database tells the story of one scan, however many invocations wrote it:
\* a partition is checkpointed as whole only when nothing of it is left to a
\* later one, and the source run is closed as HEALTHY only over the whole plan.
Scan == INSTANCE SourceScan
          WITH found <- Captured, done <- completed,
               partial <- truncated, report <- sourceRun

ImplementsScan == Scan!ScanSpec

\* 03 s3.8, partition isolation: a failing partition never keeps an invocation
\* from its end.
InvocationsEnd == \A r \in Runners : (runner[r].pc # "idle") ~> (runner[r].pc = "idle")

\* An invocation that is not killed keeps running.
FairSpec == Spec /\ \A r \in Runners : WF_acquisitionVars(Step(r))

\* 06 s10.2, partial success must never be displayed as full success: a
\* HEALTHY source run was not put together from truncated or failed searches.
HealthyMeansUntruncated == sourceRun.status = "HEALTHY" => truncated = {}
=============================================================================
