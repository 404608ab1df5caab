------------------------- MODULE AcquisitionProofs -------------------------
(***************************************************************************)
(* Proofs about a source run, for any plan, any pages and any number of    *)
(* processes and invocations.                                              *)
(***************************************************************************)
EXTENDS Acquisition, FiniteSetTheorems, WellFoundedInduction, TLAPS

-----------------------------------------------------------------------------
(* Typing.                                                                  *)

\* A listing of partition k has been captured, or an earlier partition of the
\* plan covers it too and is answerable for it.
Accounted(i, k, capt) == capt[i] > 0 \/ \E j \in 1 .. k - 1 : i \in Page[j]

\* What an invocation's memory x says of the checkpoints and observations.
RunnerInv(x, comp, capt) ==
    /\ x \in Runner
    /\ x.pc \in {"discover", "items", "checkpoint", "insert"} => x.part \in Plan
    /\ x.done \cup x.failed = 1 .. x.part - 1
    /\ x.done \subseteq comp
    /\ x.todo \subseteq IF x.pc = "items" THEN Page[x.part] ELSE {}
    /\ \A i \in x.seen : Accounted(i, x.part, capt)
    /\ x.pc \in {"items", "checkpoint", "insert"} /\ x.page = "clean" =>
         \A i \in Page[x.part] \ x.todo : Accounted(i, x.part, capt)

DatabaseTypeOK ==
    /\ sourceRun \in [status : SourceRunStatuses \cup {"PENDING"},
                      gate : {"unset", "passed", "not passed"}]
    /\ completed \subseteq Plan
    /\ captures \in [Items -> Nat]
    /\ invocations \in Nat
    /\ truncated \subseteq Plan

\* A partition checkpointed from a whole page left no listing unaccounted for.
CoverInv(comp, trunc, capt) ==
    \A k \in comp \ trunc : \A i \in Page[k] : Accounted(i, k, capt)

HealthInv ==
    sourceRun.status = "HEALTHY" \/ sourceRun.gate = "passed" => completed = Plan

IInv ==
    /\ DatabaseTypeOK
    /\ runner \in [Runners -> Runner]
    /\ \A r \in Runners : RunnerInv(runner[r], completed, captures)
    /\ HealthInv
    /\ CoverInv(completed, truncated, captures)

LEMMA NextPartitionFields ==
    ASSUME NEW r \in Runners, runner[r] \in Runner, runner[r].part \in Plan,
           NEW result \in {"done", "failed"}
    PROVE  /\ NextPartition(r, result) \in Runner
           /\ NextPartition(r, result).pc = "partition"
           /\ NextPartition(r, result).part = runner[r].part + 1
           /\ NextPartition(r, result).seen = runner[r].seen
           /\ NextPartition(r, result).todo = {}
           /\ NextPartition(r, result).page = "clean"
           /\ NextPartition(r, result).done =
                IF result = "done" THEN runner[r].done \cup {runner[r].part} ELSE runner[r].done
           /\ NextPartition(r, result).failed =
                IF result = "failed" THEN runner[r].failed \cup {runner[r].part}
                                     ELSE runner[r].failed
<1> DEFINE k == runner[r].part
           health == IF result = "done" THEN Worse(runner[r].health, runner[r].page)
                                        ELSE runner[r].health
           done == IF result = "done" THEN runner[r].done \cup {k} ELSE runner[r].done
           failed == IF result = "failed" THEN runner[r].failed \cup {k} ELSE runner[r].failed
           next == NextPartition(r, result)
<1>1. runner[r] \in Runner
  OBVIOUS
<1>2. k + 1 \in 1 .. Partitions + 1
  BY AcquisitionAssumption DEF Plan, AcquisitionAssumption
<1>3. health \in Markers /\ done \subseteq Plan /\ failed \subseteq Plan
  BY <1>1 DEF Runner, Worse, Markers
<1>4. next = [runner[r] EXCEPT !.pc = "partition", !.part = k + 1, !.todo = {},
                               !.page = "clean", !.health = health, !.done = done,
                               !.failed = failed]
  BY <1>1 DEF NextPartition, Runner
<1>5. next = [pc |-> "partition", part |-> k + 1, seen |-> runner[r].seen, todo |-> {},
              page |-> "clean", health |-> health, done |-> done, failed |-> failed]
  <2> HIDE DEF health, done, failed, k, next
  <2> QED BY <1>1, <1>4 DEF Runner
<1>6. next \in Runner
  <2> HIDE DEF health, done, failed, k, next
  <2>1. "partition" \in {"idle", "preflight", "partition", "discover", "items",
                         "checkpoint", "insert", "finalize"} /\ "clean" \in Markers
    BY DEF Markers
  <2>2. runner[r].seen \in SUBSET Items /\ {} \in SUBSET Items
    BY <1>1 DEF Runner
  <2> QED BY <1>2, <1>3, <1>5, <2>1, <2>2 DEF Runner
<1>7. /\ next.pc = "partition" /\ next.part = k + 1 /\ next.seen = runner[r].seen
      /\ next.todo = {} /\ next.page = "clean" /\ next.done = done /\ next.failed = failed
  <2> HIDE DEF health, done, failed, k, next
  <2> QED BY <1>5
<1> QED BY <1>6, <1>7

LEMMA AbsentIsRunner == Absent \in Runner
BY AcquisitionAssumption DEF AcquisitionAssumption, Absent, Runner, Markers

\* An invocation that has not begun, or has ended, remembers nothing.
LEMMA AbsentInv == ASSUME NEW pc \in {"idle", "preflight"}, NEW comp, NEW capt
                   PROVE  RunnerInv([Absent EXCEPT !.pc = pc], comp, capt)
<1> DEFINE x == [Absent EXCEPT !.pc = pc]
<1>1. x = [pc |-> pc, part |-> 1, seen |-> {}, todo |-> {}, page |-> "clean",
           health |-> "clean", done |-> {}, failed |-> {}]
  BY DEF Absent
<1>2. x \in Runner
  BY <1>1, AcquisitionAssumption DEF AcquisitionAssumption, Runner, Markers
<1> HIDE DEF x
<1>3. RunnerInv(x, comp, capt)
  BY <1>1, <1>2 DEF RunnerInv
<1> QED BY <1>3 DEF x

LEMMA AbsentItself == Absent = [Absent EXCEPT !.pc = "idle"]
BY DEF Absent

\* More checkpoints and more observations never spoil what was remembered.
LEMMA Monotone ==
    ASSUME NEW x, NEW comp, NEW capt, NEW comp2, NEW capt2,
           RunnerInv(x, comp, capt), comp \subseteq comp2,
           \A i \in Items : capt[i] > 0 => capt2[i] > 0
    PROVE  RunnerInv(x, comp2, capt2)
<1>1. x.seen \subseteq Items
  BY DEF RunnerInv, Runner
<1>2. ASSUME x.pc \in {"items", "checkpoint", "insert"}
      PROVE  Page[x.part] \subseteq Items
  BY <1>2, AcquisitionAssumption DEF AcquisitionAssumption, RunnerInv, Plan
<1> QED BY <1>1, <1>2 DEF RunnerInv, Accounted

\* After a partition, with result "done" or "failed", the memory is in order
\* again at the next one.
LEMMA NextPartitionInv ==
    ASSUME NEW r \in Runners, NEW comp, NEW capt, RunnerInv(runner[r], comp, capt),
           runner[r].part \in Plan, NEW result \in {"done", "failed"},
           NEW comp2, comp \subseteq comp2, result = "done" => runner[r].part \in comp2,
           NEW seen \in SUBSET Items, runner[r].seen \subseteq seen,
           \A i \in seen \ runner[r].seen : i \in Page[runner[r].part]
    PROVE  RunnerInv([NextPartition(r, result) EXCEPT !.seen = seen], comp2, capt)
<1> DEFINE y == NextPartition(r, result)
           x == [y EXCEPT !.seen = seen]
           k == runner[r].part
<1>1. runner[r] \in Runner /\ k \in Nat \ {0}
  BY DEF RunnerInv, Plan
<1>2. /\ y \in Runner /\ y.pc = "partition" /\ y.part = k + 1 /\ y.todo = {}
      /\ y.done \cup y.failed = runner[r].done \cup runner[r].failed \cup {k}
      /\ y.done \subseteq runner[r].done \cup {k}
      /\ result = "failed" => y.done = runner[r].done
  BY <1>1, NextPartitionFields
<1> HIDE DEF y
<1>3. x \in Runner
  BY <1>2 DEF Runner
<1>4. /\ x.pc = y.pc /\ x.part = y.part /\ x.todo = y.todo /\ x.seen = seen
      /\ x.done = y.done /\ x.failed = y.failed
  BY <1>2 DEF Runner
<1> HIDE DEF x
<1>5. x.done \cup x.failed = 1 .. x.part - 1
  <2>1. runner[r].done \cup runner[r].failed = 1 .. k - 1
    BY DEF RunnerInv
  <2>2. (1 .. k - 1) \cup {k} = 1 .. (k + 1) - 1
    BY <1>1
  <2> QED BY <2>1, <2>2, <1>2, <1>4
<1>6. x.done \subseteq comp2
  BY <1>2, <1>4 DEF RunnerInv
<1>7. ASSUME NEW i \in x.seen PROVE Accounted(i, x.part, capt)
  <2>1. CASE i \in runner[r].seen
    <3>1. Accounted(i, k, capt)
      BY <2>1 DEF RunnerInv
    <3> QED BY <3>1, <1>1, <1>2, <1>4 DEF Accounted
  <2>2. CASE i \notin runner[r].seen
    <3>1. i \in Page[k]
      BY <2>2, <1>4, <1>7
    <3> QED BY <3>1, <1>1, <1>2, <1>4 DEF Accounted
  <2> QED BY <2>1, <2>2
<1>8. RunnerInv(x, comp2, capt)
  BY <1>2, <1>3, <1>4, <1>5, <1>6, <1>7 DEF RunnerInv
<1> QED BY <1>8 DEF x, y

LEMMA RunnersStep ==
    ASSUME IInv, NEW r \in Runners, NEW x, RunnerInv(x, completed', captures'),
           runner' = [runner EXCEPT ![r] = x], completed \subseteq completed',
           \A i \in Items : captures[i] > 0 => captures'[i] > 0
    PROVE  /\ runner' \in [Runners -> Runner]
           /\ \A q \in Runners : RunnerInv(runner'[q], completed', captures')
<1>1. runner' \in [Runners -> Runner]
  BY DEF IInv, RunnerInv
<1>2. ASSUME NEW q \in Runners PROVE RunnerInv(runner'[q], completed', captures')
  <2>1. CASE q = r
    <3>1. runner'[q] = x
      BY <2>1 DEF IInv
    <3> QED BY <3>1
  <2>2. CASE q # r
    <3>1. runner'[q] = runner[q] /\ RunnerInv(runner[q], completed, captures)
      BY <2>2 DEF IInv
    <3> QED BY <3>1, Monotone
  <2> QED BY <2>1, <2>2
<1> QED BY <1>1, <1>2

LEMMA LocalStep ==
    ASSUME IInv, NEW r \in Runners, NEW x, RunnerInv(x, completed, captures),
           runner' = [runner EXCEPT ![r] = x],
           UNCHANGED <<sourceRun, completed, captures, invocations, truncated>>
    PROVE  IInv'
<1>1. /\ runner' \in [Runners -> Runner]
      /\ \A q \in Runners : RunnerInv(runner'[q], completed', captures')
  BY RunnersStep
<1> QED BY <1>1 DEF IInv, DatabaseTypeOK, HealthInv, CoverInv, Accounted

LEMMA InitInv == Init => IInv
<1> SUFFICES ASSUME Init PROVE IInv
  OBVIOUS
<1>1. RunnerInv(Absent, completed, captures)
  BY AbsentInv, AbsentItself
<1>2. Absent \in Runner
  BY <1>1 DEF RunnerInv
<1>3. runner \in [Runners -> Runner] /\ \A r \in Runners : runner[r] = Absent
  BY <1>2 DEF Init
<1>4. DatabaseTypeOK
  BY DEF Init, DatabaseTypeOK
<1> QED BY <1>1, <1>3, <1>4 DEF Init, IInv, HealthInv, CoverInv

-----------------------------------------------------------------------------
(* The steps of an invocation, one lemma for each.                          *)

LEMMA BeginInv == ASSUME IInv, NEW r \in Runners, Begin(r) PROVE IInv'
<1>1. RunnerInv([Absent EXCEPT !.pc = "preflight"], completed', captures')
  BY AbsentInv
<1>2. /\ runner' \in [Runners -> Runner]
      /\ \A q \in Runners : RunnerInv(runner'[q], completed', captures')
  <2> DEFINE x == [Absent EXCEPT !.pc = "preflight"]
  <2>1. RunnerInv(x, completed', captures') /\ runner' = [runner EXCEPT ![r] = x]
    BY <1>1 DEF Begin
  <2>2. completed \subseteq completed' /\ \A i \in Items : captures[i] > 0 => captures'[i] > 0
    BY DEF Begin
  <2> HIDE DEF x
  <2> QED BY <2>1, <2>2, RunnersStep
<1>3. DatabaseTypeOK'
  <2>1. invocations' \in Nat
    <3>1. invocations \in Nat
      BY DEF IInv, DatabaseTypeOK
    <3>2. invocations' = invocations + 1
      BY DEF Begin
    <3> QED BY <3>1, <3>2
  <2>2. UNCHANGED <<sourceRun, completed, captures, truncated>>
    BY DEF Begin
  <2> QED BY <2>1, <2>2 DEF IInv, DatabaseTypeOK
<1> QED BY <1>2, <1>3 DEF Begin, IInv, HealthInv, CoverInv, Accounted

LEMMA CrashInv == ASSUME IInv, NEW r \in Runners, Crash(r) PROVE IInv'
<1>1. RunnerInv(Absent, completed, captures)
  BY AbsentInv, AbsentItself
<1> QED BY <1>1, LocalStep DEF Crash

LEMMA PreflightInv ==
    ASSUME IInv, NEW r \in Runners, NEW m \in Markers, Preflight(r, m) PROVE IInv'
<1> DEFINE x == [runner[r] EXCEPT !.pc = "partition", !.health = m]
<1>1. runner[r] \in Runner /\ RunnerInv(runner[r], completed, captures)
  BY DEF IInv
<1>2. x \in Runner
  BY <1>1 DEF Runner
<1>3. /\ x.pc = "partition" /\ x.part = runner[r].part /\ x.seen = runner[r].seen
      /\ x.todo = runner[r].todo /\ x.done = runner[r].done /\ x.failed = runner[r].failed
  BY <1>1 DEF Runner
<1>4. runner' = [runner EXCEPT ![r] = x]
  BY <1>1 DEF Preflight, Runner
<1> HIDE DEF x
<1>5. RunnerInv(x, completed, captures)
  BY <1>1, <1>2, <1>3 DEF RunnerInv, Preflight, At
<1> QED BY <1>4, <1>5, LocalStep DEF Preflight

LEMMA StartPartitionInv ==
    ASSUME IInv, NEW r \in Runners, StartPartition(r) PROVE IInv'
<1> DEFINE x == [runner[r] EXCEPT !.pc = "discover"]
<1>1. runner[r] \in Runner /\ RunnerInv(runner[r], completed, captures)
  BY DEF IInv
<1>2. x \in Runner
  BY <1>1 DEF Runner
<1>3. /\ x.pc = "discover" /\ x.part = runner[r].part /\ x.seen = runner[r].seen
      /\ x.todo = runner[r].todo /\ x.done = runner[r].done /\ x.failed = runner[r].failed
  BY <1>1 DEF Runner
<1>4. runner' = [runner EXCEPT ![r] = x]
  BY <1>1 DEF StartPartition, Runner
<1> HIDE DEF x
<1>5. RunnerInv(x, completed, captures)
  BY <1>1, <1>2, <1>3 DEF RunnerInv, StartPartition, At
<1> QED BY <1>4, <1>5, LocalStep DEF StartPartition

LEMMA DiscoverInv ==
    ASSUME IInv, NEW r \in Runners, NEW items \in SUBSET Items, NEW marker \in Markers,
           Discover(r, items, marker)
    PROVE  IInv'
<1> DEFINE x == [runner[r] EXCEPT !.pc = "items", !.todo = items, !.page = marker]
<1>1. runner[r] \in Runner /\ RunnerInv(runner[r], completed, captures)
  BY DEF IInv
<1>2. x \in Runner
  BY <1>1 DEF Runner, Discover, Markers
<1>3. /\ x.pc = "items" /\ x.part = runner[r].part /\ x.seen = runner[r].seen
      /\ x.todo = items /\ x.page = marker /\ x.done = runner[r].done /\ x.failed = runner[r].failed
  BY <1>1 DEF Runner
<1>4. runner' = [runner EXCEPT ![r] = x]
  BY <1>1 DEF Discover, Runner
<1> HIDE DEF x
<1>5. RunnerInv(x, completed, captures)
  BY <1>1, <1>2, <1>3 DEF RunnerInv, Discover, At
<1> QED BY <1>4, <1>5, LocalStep DEF Discover

LEMMA SkipSeenInv ==
    ASSUME IInv, NEW r \in Runners, NEW i \in Items, SkipSeen(r, i)
    PROVE  IInv'
<1> DEFINE x == [runner[r] EXCEPT !.todo = @ \ {i}]
<1>1. runner[r] \in Runner /\ RunnerInv(runner[r], completed, captures)
  BY DEF IInv
<1>2. x \in Runner
  BY <1>1 DEF Runner, SkipSeen, Markers
<1>3. /\ x.pc = runner[r].pc /\ x.part = runner[r].part /\ x.seen = runner[r].seen
      /\ x.todo = runner[r].todo \ {i} /\ x.page = runner[r].page /\ x.done = runner[r].done /\ x.failed = runner[r].failed
  BY <1>1 DEF Runner
<1>4. runner' = [runner EXCEPT ![r] = x]
  BY <1>1 DEF SkipSeen, Runner
<1> HIDE DEF x
<1>5. RunnerInv(x, completed, captures)
  BY <1>1, <1>2, <1>3 DEF RunnerInv, SkipSeen, At
<1> QED BY <1>4, <1>5, LocalStep DEF SkipSeen

LEMMA ItemsDoneInv ==
    ASSUME IInv, NEW r \in Runners, ItemsDone(r)
    PROVE  IInv'
<1> DEFINE x == [runner[r] EXCEPT !.pc = "checkpoint"]
<1>1. runner[r] \in Runner /\ RunnerInv(runner[r], completed, captures)
  BY DEF IInv
<1>2. x \in Runner
  BY <1>1 DEF Runner, ItemsDone, Markers
<1>3. /\ x.pc = "checkpoint" /\ x.part = runner[r].part /\ x.seen = runner[r].seen
      /\ x.todo = runner[r].todo /\ x.page = runner[r].page /\ x.done = runner[r].done /\ x.failed = runner[r].failed
  BY <1>1 DEF Runner
<1>4. runner' = [runner EXCEPT ![r] = x]
  BY <1>1 DEF ItemsDone, Runner
<1> HIDE DEF x
<1>5. RunnerInv(x, completed, captures)
  BY <1>1, <1>2, <1>3 DEF RunnerInv, ItemsDone, At
<1> QED BY <1>4, <1>5, LocalStep DEF ItemsDone

LEMMA CheckpointMissingInv ==
    ASSUME IInv, NEW r \in Runners, CheckpointMissing(r)
    PROVE  IInv'
<1> DEFINE x == [runner[r] EXCEPT !.pc = "insert"]
<1>1. runner[r] \in Runner /\ RunnerInv(runner[r], completed, captures)
  BY DEF IInv
<1>2. x \in Runner
  BY <1>1 DEF Runner, CheckpointMissing, Markers
<1>3. /\ x.pc = "insert" /\ x.part = runner[r].part /\ x.seen = runner[r].seen
      /\ x.todo = runner[r].todo /\ x.page = runner[r].page /\ x.done = runner[r].done /\ x.failed = runner[r].failed
  BY <1>1 DEF Runner
<1>4. runner' = [runner EXCEPT ![r] = x]
  BY <1>1 DEF CheckpointMissing, Runner
<1> HIDE DEF x
<1>5. RunnerInv(x, completed, captures)
  BY <1>1, <1>2, <1>3 DEF RunnerInv, CheckpointMissing, At
<1> QED BY <1>4, <1>5, LocalStep DEF CheckpointMissing

LEMMA NextPartitionPlain ==
    ASSUME NEW r \in Runners, NEW comp, NEW capt, RunnerInv(runner[r], comp, capt),
           runner[r].part \in Plan, NEW result \in {"done", "failed"},
           NEW comp2, comp \subseteq comp2, result = "done" => runner[r].part \in comp2
    PROVE  RunnerInv(NextPartition(r, result), comp2, capt)
<1> DEFINE y == NextPartition(r, result)
           x == [y EXCEPT !.seen = runner[r].seen]
<1>1. runner[r] \in Runner /\ runner[r].seen \in SUBSET Items
  BY DEF RunnerInv, Runner
<1>2. RunnerInv(x, comp2, capt)
  BY <1>1, NextPartitionInv
<1>3. y \in Runner /\ y.seen = runner[r].seen
  BY <1>1, NextPartitionFields
<1>4. x = y
  <2> HIDE DEF y
  <2> QED BY <1>3 DEF Runner
<1> QED BY <1>2, <1>4

LEMMA ReplayInv == ASSUME IInv, NEW r \in Runners, Replay(r) PROVE IInv'
<1>1. runner[r] \in Runner /\ RunnerInv(runner[r], completed, captures)
  BY DEF IInv
<1>2. runner[r].part \in Plan /\ runner[r].part \in completed
  BY <1>1 DEF Replay, At, RunnerInv, IInv, DatabaseTypeOK
<1>3. RunnerInv(NextPartition(r, "done"), completed, captures)
  BY <1>1, <1>2, NextPartitionPlain
<1>4. /\ runner' = [runner EXCEPT ![r] = NextPartition(r, "done")]
      /\ UNCHANGED <<sourceRun, completed, captures, invocations, truncated>>
  BY DEF Replay
<1> QED BY <1>3, <1>4, LocalStep

LEMMA DiscoverRaisesInv == ASSUME IInv, NEW r \in Runners, DiscoverRaises(r) PROVE IInv'
<1>1. runner[r] \in Runner /\ RunnerInv(runner[r], completed, captures)
  BY DEF IInv
<1>2. runner[r].part \in Plan
  BY <1>1 DEF DiscoverRaises, At, RunnerInv, IInv, DatabaseTypeOK
<1>3. RunnerInv(NextPartition(r, "failed"), completed, captures)
  BY <1>1, <1>2, NextPartitionPlain
<1>4. /\ runner' = [runner EXCEPT ![r] = NextPartition(r, "failed")]
      /\ UNCHANGED <<sourceRun, completed, captures, invocations, truncated>>
  BY DEF DiscoverRaises
<1> QED BY <1>3, <1>4, LocalStep

LEMMA CheckpointExistsInv == ASSUME IInv, NEW r \in Runners, CheckpointExists(r) PROVE IInv'
<1>1. runner[r] \in Runner /\ RunnerInv(runner[r], completed, captures)
  BY DEF IInv
<1>2. runner[r].part \in Plan /\ runner[r].part \in completed
  BY <1>1 DEF CheckpointExists, At, RunnerInv, IInv, DatabaseTypeOK
<1>3. RunnerInv(NextPartition(r, "done"), completed, captures)
  BY <1>1, <1>2, NextPartitionPlain
<1>4. /\ runner' = [runner EXCEPT ![r] = NextPartition(r, "done")]
      /\ UNCHANGED <<sourceRun, completed, captures, invocations, truncated>>
  BY DEF CheckpointExists
<1> QED BY <1>3, <1>4, LocalStep

LEMMA InsertConflictsInv == ASSUME IInv, NEW r \in Runners, InsertConflicts(r) PROVE IInv'
<1>1. runner[r] \in Runner /\ RunnerInv(runner[r], completed, captures)
  BY DEF IInv
<1>2. runner[r].part \in Plan
  BY <1>1 DEF InsertConflicts, At, RunnerInv, IInv, DatabaseTypeOK
<1>3. RunnerInv(NextPartition(r, "failed"), completed, captures)
  BY <1>1, <1>2, NextPartitionPlain
<1>4. /\ runner' = [runner EXCEPT ![r] = NextPartition(r, "failed")]
      /\ UNCHANGED <<sourceRun, completed, captures, invocations, truncated>>
  BY DEF InsertConflicts
<1> QED BY <1>3, <1>4, LocalStep

LEMMA CaptureRaisesInv ==
    ASSUME IInv, NEW r \in Runners, NEW i \in Items, CaptureRaises(r, i) PROVE IInv'
<1> DEFINE seen == runner[r].seen \cup {i}
           y == NextPartition(r, "failed")
           x == [y EXCEPT !.seen = seen]
<1>1. runner[r] \in Runner /\ RunnerInv(runner[r], completed, captures)
  BY DEF IInv
<1>2. runner[r].part \in Plan /\ i \in Page[runner[r].part]
  BY <1>1 DEF CaptureRaises, At, RunnerInv
<1>3. seen \in SUBSET Items
  BY <1>1 DEF Runner
<1>4. RunnerInv(x, completed, captures)
  BY <1>1, <1>2, <1>3, NextPartitionInv
<1>5. runner' = [runner EXCEPT ![r] = x]
  <2>1. y \in Runner /\ y.seen = runner[r].seen
    BY <1>1, <1>2, NextPartitionFields
  <2>2. [y EXCEPT !.seen = @ \cup {i}] = x
    <3> HIDE DEF y
    <3> QED BY <2>1 DEF Runner
  <2> QED BY <2>2 DEF CaptureRaises
<1> HIDE DEF x
<1> QED BY <1>4, <1>5, LocalStep DEF CaptureRaises

LEMMA CaptureInv ==
    ASSUME IInv, NEW r \in Runners, NEW i \in Items, Capture(r, i) PROVE IInv'
<1> DEFINE x == [runner[r] EXCEPT !.todo = @ \ {i}, !.seen = @ \cup {i}]
<1>1. runner[r] \in Runner /\ RunnerInv(runner[r], completed, captures)
  BY DEF IInv
<1>2. x \in Runner
  BY <1>1 DEF Runner
<1>3. /\ x.pc = runner[r].pc /\ x.part = runner[r].part /\ x.seen = runner[r].seen \cup {i}
      /\ x.todo = runner[r].todo \ {i} /\ x.page = runner[r].page
      /\ x.done = runner[r].done /\ x.failed = runner[r].failed
  BY <1>1 DEF Runner
<1>4. runner' = [runner EXCEPT ![r] = x]
  BY <1>1 DEF Capture, Runner
<1>5. /\ captures' \in [Items -> Nat] /\ captures'[i] > 0
      /\ \A j \in Items : captures[j] > 0 => captures'[j] > 0
  <2>1. captures \in [Items -> Nat]
    BY DEF IInv, DatabaseTypeOK
  <2>2. captures' = [captures EXCEPT ![i] = captures[i] + 1]
    BY DEF Capture
  <2> QED BY <2>1, <2>2
<1> HIDE DEF x
<1>6. RunnerInv(runner[r], completed, captures')
  BY <1>1, <1>5, Monotone
<1>7. RunnerInv(x, completed', captures')
  <2>1. \A j \in x.seen : Accounted(j, x.part, captures')
    BY <1>3, <1>5, <1>6 DEF RunnerInv, Accounted
  <2>2. x.pc \in {"items", "checkpoint", "insert"} /\ x.page = "clean" =>
          \A j \in Page[x.part] \ x.todo : Accounted(j, x.part, captures')
    BY <1>3, <1>5, <1>6 DEF RunnerInv, Accounted
  <2>3. completed' = completed /\ x.todo \subseteq runner[r].todo
    BY <1>3 DEF Capture
  <2> QED BY <1>2, <1>3, <1>6, <2>1, <2>2, <2>3 DEF RunnerInv
<1>8. /\ runner' \in [Runners -> Runner]
      /\ \A q \in Runners : RunnerInv(runner'[q], completed', captures')
  <2>1. completed \subseteq completed'
    BY DEF Capture
  <2> QED BY <1>4, <1>5, <1>7, <2>1, RunnersStep
<1>9. CoverInv(completed', truncated', captures')
  <2> SUFFICES ASSUME NEW k \in completed \ truncated, NEW j \in Page[k]
               PROVE  Accounted(j, k, captures')
    BY DEF CoverInv, Capture
  <2>1. j \in Items
    BY AcquisitionAssumption DEF AcquisitionAssumption, IInv, DatabaseTypeOK, Plan
  <2>2. Accounted(j, k, captures)
    BY DEF IInv, CoverInv
  <2> QED BY <2>1, <2>2, <1>5 DEF Accounted
<1>10. DatabaseTypeOK' /\ HealthInv'
  <2>1. UNCHANGED <<sourceRun, completed, invocations, truncated>>
    BY DEF Capture
  <2> QED BY <2>1, <1>5 DEF IInv, DatabaseTypeOK, HealthInv
<1> QED BY <1>8, <1>9, <1>10 DEF IInv

LEMMA InsertCheckpointInv ==
    ASSUME IInv, NEW r \in Runners, InsertCheckpoint(r) PROVE IInv'
<1> DEFINE k == runner[r].part
           x == NextPartition(r, "done")
<1>1. runner[r] \in Runner /\ RunnerInv(runner[r], completed, captures)
  BY DEF IInv
<1>2. k \in Plan /\ completed' = completed \cup {k} /\ runner[r].pc = "insert"
  BY <1>1 DEF InsertCheckpoint, At, RunnerInv
<1>3. RunnerInv(x, completed', captures')
  BY <1>1, <1>2, NextPartitionPlain DEF InsertCheckpoint
<1>4. /\ runner' \in [Runners -> Runner]
      /\ \A q \in Runners : RunnerInv(runner'[q], completed', captures')
  <2>1. /\ runner' = [runner EXCEPT ![r] = x] /\ completed \subseteq completed'
        /\ captures' = captures
    BY <1>2 DEF InsertCheckpoint
  <2> HIDE DEF x
  <2> QED BY <1>3, <2>1, RunnersStep
<1>5. CoverInv(completed', truncated', captures')
  <2> SUFFICES ASSUME NEW p \in completed' \ truncated', NEW i \in Page[p]
               PROVE  Accounted(i, p, captures)
    BY DEF CoverInv, InsertCheckpoint
  <2>1. CASE p \in completed
    BY <2>1 DEF InsertCheckpoint, IInv, CoverInv
  <2>2. CASE p \notin completed
    <3>1. p = k /\ runner[r].page # "degraded"
      BY <2>2, <1>2 DEF InsertCheckpoint
    <3>2. runner[r].page = "clean" /\ runner[r].todo = {}
      BY <1>1, <1>2, <3>1 DEF Runner, Markers, RunnerInv
    <3> QED BY <1>1, <1>2, <3>1, <3>2 DEF RunnerInv
  <2> QED BY <2>1, <2>2
<1>6. DatabaseTypeOK'
  <2>1. completed' \subseteq Plan /\ truncated' \subseteq Plan
    BY <1>2 DEF InsertCheckpoint, IInv, DatabaseTypeOK
  <2>2. UNCHANGED <<sourceRun, captures, invocations>>
    BY DEF InsertCheckpoint
  <2> QED BY <2>1, <2>2 DEF IInv, DatabaseTypeOK
<1>7. HealthInv'
  BY <1>2 DEF InsertCheckpoint, IInv, HealthInv
<1> QED BY <1>4, <1>5, <1>6, <1>7 DEF IInv

\* What a call that gets to _finalize writes, whatever it decided.
LEMMA FinalizedInv ==
    ASSUME IInv, NEW r \in Runners, NEW status \in SourceRunStatuses,
           status = "HEALTHY" => completed = Plan,
           sourceRun' = Finalized(status), runner' = [runner EXCEPT ![r] = Absent],
           UNCHANGED <<completed, captures, invocations, truncated>>
    PROVE  IInv'
<1>1. RunnerInv(Absent, completed', captures')
  BY AbsentInv, AbsentItself
<1>2. /\ runner' \in [Runners -> Runner]
      /\ \A q \in Runners : RunnerInv(runner'[q], completed', captures')
  BY <1>1, RunnersStep
<1>3. /\ sourceRun' \in [status : SourceRunStatuses \cup {"PENDING"},
                        gate : {"unset", "passed", "not passed"}]
      /\ sourceRun'.status = status
      /\ sourceRun'.gate = "passed" => status = "HEALTHY"
  BY DEF Finalized
<1>4. DatabaseTypeOK'
  BY <1>3 DEF IInv, DatabaseTypeOK
<1>5. HealthInv'
  BY <1>3 DEF HealthInv
<1> QED BY <1>2, <1>4, <1>5 DEF IInv, CoverInv, Accounted

LEMMA PreflightBlockedInv ==
    ASSUME IInv, NEW r \in Runners, PreflightBlocked(r) PROVE IInv'
BY FinalizedInv DEF PreflightBlocked, SourceRunStatuses

\* A verdict of HEALTHY has every partition behind it.
LEMMA VerdictIsEarned ==
    ASSUME IInv, NEW r \in Runners, Finalize(r)
    PROVE  /\ Verdict(r) \in SourceRunStatuses
           /\ Verdict(r) = "HEALTHY" => completed = Plan
<1>1. Verdict(r) \in SourceRunStatuses
  BY DEF Verdict, SourceRunStatuses
<1>2. Verdict(r) = "HEALTHY" => completed = Plan
  <2> SUFFICES ASSUME Verdict(r) = "HEALTHY" PROVE completed = Plan
    OBVIOUS
  <2>1. runner[r].failed = {}
    BY DEF Verdict
  <2>2. runner[r].done = 1 .. Partitions
    <3>1. runner[r].done \cup runner[r].failed = 1 .. runner[r].part - 1
      BY DEF IInv, RunnerInv
    <3>2. runner[r].part - 1 = Partitions
      BY AcquisitionAssumption DEF AcquisitionAssumption, Finalize
    <3> QED BY <2>1, <3>1, <3>2
  <2> QED BY <2>2 DEF IInv, RunnerInv, DatabaseTypeOK, Plan
<1> QED BY <1>1, <1>2

LEMMA FinalizeInv == ASSUME IInv, NEW r \in Runners, Finalize(r) PROVE IInv'
BY VerdictIsEarned, FinalizedInv DEF Finalize

-----------------------------------------------------------------------------
(* The invariant and what follows from it.                                  *)

LEMMA NextInv == IInv /\ [Next]_acquisitionVars => IInv'
<1> SUFFICES ASSUME IInv, [Next]_acquisitionVars PROVE IInv'
  OBVIOUS
<1>1. ASSUME NEW r \in Runners, Begin(r) PROVE IInv'
  BY <1>1, BeginInv
<1>2. ASSUME NEW r \in Runners, Step(r) PROVE IInv'
  BY <1>2, PreflightBlockedInv, PreflightInv, ReplayInv, StartPartitionInv, DiscoverInv,
     DiscoverRaisesInv, SkipSeenInv, CaptureInv, CaptureRaisesInv, ItemsDoneInv,
     CheckpointExistsInv, CheckpointMissingInv, InsertCheckpointInv, InsertConflictsInv,
     FinalizeInv DEF Step
<1>3. ASSUME NEW r \in Runners, Crash(r) PROVE IInv'
  BY <1>3, CrashInv
<1>4. CASE UNCHANGED acquisitionVars
  BY <1>4 DEF acquisitionVars, IInv, DatabaseTypeOK, HealthInv, CoverInv
<1> QED BY <1>1, <1>2, <1>3, <1>4 DEF Next

THEOREM Invariance == Spec => []IInv
BY InitInv, NextInv, PTL DEF Spec

\* Every reachable state of a source run is well-typed.
THEOREM TypeCorrect == Spec => []TypeOK
<1>1. IInv => TypeOK
  BY DEF IInv, DatabaseTypeOK, TypeOK
<1> QED BY <1>1, Invariance, PTL

\* A source run reported HEALTHY, or let through the disappearance gate, has
\* every partition checkpointed, whichever invocations did the work.
THEOREM HealthyIsComplete == Spec => []HealthyMeansAllPartitionsDone
<1>1. IInv => HealthyMeansAllPartitionsDone
  BY DEF IInv, HealthInv, HealthyMeansAllPartitionsDone
<1> QED BY <1>1, Invariance, PTL

LEMMA LeastElement ==
    ASSUME NEW T, T \subseteq Nat, T # {} PROVE \E m \in T : \A k \in T : m <= k
<1> DEFINE Initial == {1 .. m : m \in T}
           Order == StrictSubsetOrdering(Nat)
<1>1. IsWellFoundedOn(Order, FiniteSubsetsOf(Nat))
  BY FS_StrictSubsetOrderingWellFounded
<1>2. Initial \subseteq FiniteSubsetsOf(Nat)
  BY FS_Interval DEF FiniteSubsetsOf
<1>3. Initial # {}
  OBVIOUS
<1>4. PICK x \in Initial : \A y \in Initial : ~ (<<y, x>> \in Order)
  <2> HIDE DEF Order, Initial
  <2> QED BY <1>1, <1>2, <1>3, WFMin
<1>5. PICK m \in T : x = 1 .. m
  OBVIOUS
<1>6. ASSUME NEW k \in T, k < m PROVE FALSE
  <2>1. 1 .. k \in Initial /\ 1 .. k \subseteq 1 .. m /\ m \in 1 .. m /\ m \notin 1 .. k
    BY <1>6
  <2>2. <<1 .. k, 1 .. m>> \in Order
    BY <2>1 DEF StrictSubsetOrdering
  <2> QED BY <2>1, <2>2, <1>4, <1>5
<1> QED BY <1>6

\* When every partition was completed from a whole page, every listing the plan
\* covers has been captured: a listing that one partition left to another is
\* in the end captured by the first partition that covers it.
THEOREM CleanScopeCaptured == Spec => []CleanScopeIsCaptured
<1>1. IInv => CleanScopeIsCaptured
  <2> SUFFICES ASSUME IInv, completed = Plan, truncated = {},
                      NEW k \in Plan, NEW i \in Page[k]
               PROVE  i \in Captured
    BY DEF CleanScopeIsCaptured
  <2> DEFINE Covering == {p \in Plan : i \in Page[p]}
  <2>1. PICK m \in Covering : \A p \in Covering : m <= p
    <3>1. Covering \subseteq Nat /\ Covering # {}
      BY AcquisitionAssumption DEF AcquisitionAssumption, Plan
    <3> HIDE DEF Covering
    <3> QED BY <3>1, LeastElement
  <2>2. Accounted(i, m, captures)
    BY <2>1 DEF IInv, CoverInv
  <2>3. ~ \E j \in 1 .. m - 1 : i \in Page[j]
    <3> SUFFICES ASSUME NEW j \in 1 .. m - 1, i \in Page[j] PROVE FALSE
      OBVIOUS
    <3>1. j \in Plan /\ j < m
      BY AcquisitionAssumption DEF AcquisitionAssumption, Plan
    <3> QED BY <2>1, <3>1 DEF Plan
  <2>4. i \in Items
    BY AcquisitionAssumption DEF AcquisitionAssumption, Plan
  <2> QED BY <2>2, <2>3, <2>4 DEF Accounted, Captured
<1> QED BY <1>1, Invariance, PTL

-----------------------------------------------------------------------------
(* Counting the captures of a listing.                                      *)

\* The invocations under way that may still capture listing i.
MayCapture(i) == {r \in Runners : runner[r].pc # "idle" /\ i \notin runner[r].seen}

\* Every capture was made by an invocation of its own, and those that may still
\* make one are not among them.
CountInv ==
    \A i \in Items : /\ IsFiniteSet(MayCapture(i))
                     /\ captures[i] + Cardinality(MayCapture(i)) <= invocations

\* No step of an invocation wakes another one up or makes any forget a listing.
LEMMA StepRemembers ==
    ASSUME IInv, NEW r \in Runners, Step(r) \/ Crash(r), NEW q \in Runners,
           runner'[q].pc # "idle"
    PROVE  runner[q].pc # "idle" /\ runner[q].seen \subseteq runner'[q].seen
<1>1. /\ runner \in [Runners -> Runner] /\ runner[r] \in Runner
      /\ RunnerInv(runner[r], completed, captures)
  BY DEF IInv
<1>2. ASSUME NEW x, runner' = [runner EXCEPT ![r] = x], runner[r].pc # "idle",
             x.pc # "idle" => runner[r].seen \subseteq x.seen
      PROVE  runner[q].pc # "idle" /\ runner[q].seen \subseteq runner'[q].seen
  <2>1. CASE q = r
    BY <1>1, <1>2, <2>1
  <2>2. CASE q # r
    BY <1>1, <1>2, <2>2
  <2> QED BY <2>1, <2>2
<1>3. CASE PreflightBlocked(r) \/ Finalize(r) \/ Crash(r)
  BY <1>2, <1>3 DEF PreflightBlocked, Finalize, Crash, At, Absent
<1>4. ASSUME NEW result \in {"done", "failed"}, runner[r].pc # "idle",
             runner[r].part \in Plan,
             runner' = [runner EXCEPT ![r] = NextPartition(r, result)]
      PROVE  runner[q].pc # "idle" /\ runner[q].seen \subseteq runner'[q].seen
  <2>1. NextPartition(r, result).seen = runner[r].seen
    BY <1>1, <1>4, NextPartitionFields
  <2> QED BY <1>2, <1>4, <2>1
<1>5. CASE Replay(r) \/ CheckpointExists(r) \/ InsertCheckpoint(r)
  BY <1>1, <1>4, <1>5 DEF Replay, CheckpointExists, InsertCheckpoint, At, IInv, DatabaseTypeOK,
                          RunnerInv
<1>6. CASE DiscoverRaises(r) \/ InsertConflicts(r)
  BY <1>1, <1>4, <1>6 DEF DiscoverRaises, InsertConflicts, At, RunnerInv
<1>7. ASSUME NEW i \in Items, CaptureRaises(r, i)
      PROVE  runner[q].pc # "idle" /\ runner[q].seen \subseteq runner'[q].seen
  <2> DEFINE y == NextPartition(r, "failed")
  <2>1. runner[r].part \in Plan /\ runner[r].pc # "idle"
    BY <1>1, <1>7 DEF CaptureRaises, At, RunnerInv
  <2>2. y \in Runner /\ y.seen = runner[r].seen
    BY <1>1, <2>1, NextPartitionFields
  <2>3. runner' = [runner EXCEPT ![r] = [y EXCEPT !.seen = @ \cup {i}]]
    BY <1>7 DEF CaptureRaises
  <2> HIDE DEF y
  <2>4. [y EXCEPT !.seen = @ \cup {i}].seen = runner[r].seen \cup {i}
    BY <2>2 DEF Runner
  <2> QED BY <1>2, <2>1, <2>3, <2>4
<1>8. CASE \/ \E m \in Markers : Preflight(r, m)
           \/ StartPartition(r) \/ ItemsDone(r) \/ CheckpointMissing(r)
           \/ \E items \in SUBSET Items, m \in Markers : Discover(r, items, m)
           \/ \E i \in Items : SkipSeen(r, i) \/ Capture(r, i)
  <2>1. runner[r].pc # "idle"
    BY <1>8 DEF Preflight, StartPartition, ItemsDone, CheckpointMissing, Discover, SkipSeen,
                Capture, At
  <2>2. runner[r].seen \subseteq runner'[r].seen
    <3>1. CASE StartPartition(r) \/ ItemsDone(r) \/ CheckpointMissing(r)
      BY <1>1, <3>1 DEF StartPartition, ItemsDone, CheckpointMissing, Runner
    <3>2. CASE \E m \in Markers : Preflight(r, m)
      BY <1>1, <3>2 DEF Preflight, Runner
    <3>3. CASE \E items \in SUBSET Items, m \in Markers : Discover(r, items, m)
      BY <1>1, <3>3 DEF Discover, Runner
    <3>4. CASE \E i \in Items : SkipSeen(r, i)
      BY <1>1, <3>4 DEF SkipSeen, Runner
    <3>5. CASE \E i \in Items : Capture(r, i)
      BY <1>1, <3>5 DEF Capture, Runner
    <3> QED BY <1>8, <3>1, <3>2, <3>3, <3>4, <3>5
  <2>3. q # r => runner'[q] = runner[q]
    BY <1>1, <1>8 DEF Preflight, StartPartition, ItemsDone, CheckpointMissing, Discover,
                      SkipSeen, Capture
  <2> QED BY <2>1, <2>2, <2>3
<1> QED BY <1>3, <1>5, <1>6, <1>7, <1>8 DEF Step

LEMMA InitCount == Init => CountInv
<1> SUFFICES ASSUME Init, NEW i \in Items
             PROVE  IsFiniteSet(MayCapture(i)) /\ captures[i] + Cardinality(MayCapture(i)) <= invocations
  BY DEF CountInv
<1>1. MayCapture(i) = {}
  BY DEF Init, MayCapture, Absent
<1>2. captures[i] = 0 /\ invocations = 0
  BY DEF Init
<1>3. IsFiniteSet(MayCapture(i)) /\ Cardinality(MayCapture(i)) = 0
  BY <1>1, FS_EmptySet
<1> QED BY <1>2, <1>3

\* A step after which no more invocations may capture than before.
LEMMA CountKept ==
    ASSUME IInv, CountInv, invocations' = invocations, NEW i \in Items,
           captures'[i] = captures[i], MayCapture(i)' \subseteq MayCapture(i)
    PROVE  /\ IsFiniteSet(MayCapture(i)')
           /\ captures'[i] + Cardinality(MayCapture(i)') <= invocations'
<1>1. /\ IsFiniteSet(MayCapture(i)) /\ captures[i] \in Nat /\ invocations \in Nat
      /\ captures[i] + Cardinality(MayCapture(i)) <= invocations
  BY DEF CountInv, IInv, DatabaseTypeOK
<1>2. /\ IsFiniteSet(MayCapture(i)')
      /\ Cardinality(MayCapture(i)') <= Cardinality(MayCapture(i))
  BY <1>1, FS_Subset
<1>3. Cardinality(MayCapture(i)) \in Nat /\ Cardinality(MayCapture(i)') \in Nat
  BY <1>1, <1>2, FS_CardinalityType
<1> QED BY <1>1, <1>2, <1>3

LEMMA NextCount == ASSUME IInv, CountInv, [Next]_acquisitionVars PROVE CountInv'
<1> SUFFICES ASSUME NEW i \in Items
             PROVE  /\ IsFiniteSet(MayCapture(i)')
                    /\ captures'[i] + Cardinality(MayCapture(i)') <= invocations'
  BY DEF CountInv
<1>1. /\ IsFiniteSet(MayCapture(i)) /\ captures[i] \in Nat /\ invocations \in Nat
      /\ captures[i] + Cardinality(MayCapture(i)) <= invocations
      /\ Cardinality(MayCapture(i)) \in Nat
  BY FS_CardinalityType DEF CountInv, IInv, DatabaseTypeOK
<1>2. ASSUME NEW r \in Runners, Begin(r)
      PROVE  /\ IsFiniteSet(MayCapture(i)')
             /\ captures'[i] + Cardinality(MayCapture(i)') <= invocations'
  <2>1. invocations' = invocations + 1 /\ captures' = captures
    BY <1>2 DEF Begin
  <2>2. MayCapture(i)' \subseteq MayCapture(i) \cup {r}
    BY <1>2 DEF MayCapture, Begin, IInv
  <2>3. /\ IsFiniteSet(MayCapture(i) \cup {r})
        /\ Cardinality(MayCapture(i) \cup {r}) <= Cardinality(MayCapture(i)) + 1
        /\ Cardinality(MayCapture(i) \cup {r}) \in Nat
    <3>1. /\ IsFiniteSet(MayCapture(i) \cup {r})
          /\ Cardinality(MayCapture(i) \cup {r}) =
               IF r \in MayCapture(i) THEN Cardinality(MayCapture(i))
                                      ELSE Cardinality(MayCapture(i)) + 1
      BY <1>1, FS_AddElement
    <3> QED BY <1>1, <3>1
  <2>4. /\ IsFiniteSet(MayCapture(i)')
        /\ Cardinality(MayCapture(i)') <= Cardinality(MayCapture(i) \cup {r})
    BY <2>2, <2>3, FS_Subset
  <2>5. Cardinality(MayCapture(i)') \in Nat
    BY <2>4, FS_CardinalityType
  <2> QED BY <1>1, <2>1, <2>3, <2>4, <2>5
<1>3. ASSUME NEW r \in Runners, Capture(r, i)
      PROVE  /\ IsFiniteSet(MayCapture(i)')
             /\ captures'[i] + Cardinality(MayCapture(i)') <= invocations'
  <2>1. captures'[i] = captures[i] + 1 /\ invocations' = invocations
    BY <1>3 DEF Capture, IInv, DatabaseTypeOK
  <2>2. r \in MayCapture(i)
    BY <1>3 DEF Capture, At, MayCapture
  <2>3. MayCapture(i)' \subseteq MayCapture(i) \ {r}
    <3>1. i \in runner'[r].seen
      BY <1>3 DEF Capture, IInv, Runner
    <3>2. Step(r)
      BY <1>3 DEF Step
    <3> QED BY <3>1, <3>2, StepRemembers DEF MayCapture
  <2>4. /\ IsFiniteSet(MayCapture(i) \ {r})
        /\ Cardinality(MayCapture(i) \ {r}) = Cardinality(MayCapture(i)) - 1
        /\ Cardinality(MayCapture(i) \ {r}) \in Nat
    BY <1>1, <2>2, FS_RemoveElement, FS_CardinalityType
  <2>5. /\ IsFiniteSet(MayCapture(i)')
        /\ Cardinality(MayCapture(i)') <= Cardinality(MayCapture(i) \ {r})
    BY <2>3, <2>4, FS_Subset
  <2>6. Cardinality(MayCapture(i)') \in Nat
    BY <2>5, FS_CardinalityType
  <2> QED BY <1>1, <2>1, <2>4, <2>5, <2>6
<1>4. ASSUME NEW r \in Runners, Step(r) \/ Crash(r), ~ Capture(r, i)
      PROVE  /\ IsFiniteSet(MayCapture(i)')
             /\ captures'[i] + Cardinality(MayCapture(i)') <= invocations'
  <2>1. invocations' = invocations /\ captures'[i] = captures[i]
    BY <1>4 DEF Step, Crash, PreflightBlocked, Preflight, Replay, StartPartition, Discover,
                DiscoverRaises, SkipSeen, Capture, CaptureRaises, ItemsDone, CheckpointExists,
                CheckpointMissing, InsertCheckpoint, InsertConflicts, Finalize, IInv,
                DatabaseTypeOK
  <2>2. MayCapture(i)' \subseteq MayCapture(i)
    BY <1>4, StepRemembers DEF MayCapture
  <2> QED BY <2>1, <2>2, CountKept
<1>5. CASE UNCHANGED acquisitionVars
  BY <1>5, CountKept DEF acquisitionVars, MayCapture
<1> QED BY <1>2, <1>3, <1>4, <1>5 DEF Next

\* However partitions overlap and invocations crash, join and overlap, a
\* listing has at most as many observations as there were invocations
\* (runner.py:191-199, seen_identities).
THEOREM CapturedOncePerInvocation == Spec => []OneCapturePerInvocation
<1>1. IInv /\ CountInv => OneCapturePerInvocation
  <2> SUFFICES ASSUME IInv, CountInv, NEW i \in Items PROVE captures[i] <= invocations
    BY DEF OneCapturePerInvocation
  <2>1. /\ IsFiniteSet(MayCapture(i)) /\ captures[i] \in Nat /\ invocations \in Nat
        /\ captures[i] + Cardinality(MayCapture(i)) <= invocations
    BY DEF CountInv, IInv, DatabaseTypeOK
  <2>2. Cardinality(MayCapture(i)) \in Nat
    BY <2>1, FS_CardinalityType
  <2> QED BY <2>1, <2>2
<1>2. IInv /\ CountInv /\ [Next]_acquisitionVars => CountInv'
  BY NextCount
<1> QED BY <1>1, <1>2, InitCount, Invariance, PTL DEF Spec

-----------------------------------------------------------------------------
(* A source run implements the scan of SourceScan.                          *)

\* A checkpoint ends its partition: as whole when the page was, which leaves
\* nothing of it to a later one, else in part.
LEMMA CheckpointFinishes ==
    ASSUME IInv, NEW r \in Runners, InsertCheckpoint(r) PROVE Scan!ScanNext
<1> DEFINE k == runner[r].part
<1>1. k \in Plan /\ runner[r].todo = {}
  BY DEF IInv, RunnerInv, InsertCheckpoint, At
<1>2. k \notin completed /\ completed' = completed \cup {k} /\ UNCHANGED <<Captured, sourceRun>>
  BY DEF InsertCheckpoint, Captured
<1>3. CASE runner[r].page = "degraded"
  <2>1. truncated' = truncated \cup {k}
    BY <1>3 DEF InsertCheckpoint
  <2>2. Scan!FinishInPart(k)
    BY <1>2, <2>1 DEF Scan!FinishInPart
  <2> QED BY <1>1, <2>2 DEF Scan!ScanNext, Scan!Scopes, Plan
<1>4. CASE runner[r].page # "degraded"
  <2>1. truncated' = truncated
    BY <1>4 DEF InsertCheckpoint
  <2>2. runner[r].page = "clean"
    BY <1>4 DEF IInv, Runner, Markers
  <2>3. \A i \in Page[k] : Accounted(i, k, captures)
    BY <1>1, <2>2 DEF IInv, RunnerInv, InsertCheckpoint, At
  <2>4. Page[k] \subseteq Items
    BY <1>1, AcquisitionAssumption DEF AcquisitionAssumption, Plan
  <2>5. Scan!Exhausted(k)
    BY <2>3, <2>4 DEF Scan!Exhausted, Accounted, Captured
  <2>6. Scan!FinishWhole(k)
    BY <1>2, <2>1, <2>5 DEF Scan!FinishWhole
  <2> QED BY <1>1, <2>6 DEF Scan!ScanNext, Scan!Scopes, Plan
<1> QED BY <1>3, <1>4

\* Whoever gets to _finalize reports, and HEALTHY only over the whole plan.
LEMMA FinalizedReports ==
    ASSUME NEW status \in SourceRunStatuses, status = "HEALTHY" => completed = Plan,
           sourceRun' = Finalized(status), UNCHANGED <<completed, captures, truncated>>
    PROVE  Scan!ScanNext
<1>1. Scan!Report(status)
  BY DEF Scan!Report, Scan!Scopes, Plan, Finalized, Captured
<1> QED BY <1>1 DEF Scan!ScanNext, SourceRunStatuses

LEMMA CaptureFinds ==
    ASSUME IInv, NEW r \in Runners, NEW i \in Items, Capture(r, i) PROVE Scan!ScanNext
<1>1. \A j \in Items : captures'[j] > 0 <=> captures[j] > 0 \/ j = i
  <2>1. captures \in [Items -> Nat] /\ captures' = [captures EXCEPT ![i] = @ + 1]
    BY DEF Capture, IInv, DatabaseTypeOK
  <2>2. captures'[i] > 0
    BY <2>1
  <2>3. \A j \in Items \ {i} : captures'[j] = captures[j]
    BY <2>1
  <2> QED BY <2>2, <2>3
<1>2. Captured' = Captured \cup {i}
  BY <1>1 DEF Captured
<1>3. Scan!Find(i)
  <2>1. UNCHANGED <<completed, truncated, sourceRun>>
    BY DEF Capture
  <2> QED BY <1>2, <2>1 DEF Scan!Find
<1> QED BY <1>3 DEF Scan!ScanNext

LEMMA StepScans == IInv /\ [Next]_acquisitionVars => [Scan!ScanNext]_(Scan!scanVars)
<1> SUFFICES ASSUME IInv, [Next]_acquisitionVars
             PROVE  Scan!ScanNext \/ UNCHANGED Scan!scanVars
  OBVIOUS
<1>1. ASSUME UNCHANGED <<sourceRun, completed, captures, truncated>>
      PROVE  UNCHANGED Scan!scanVars
  BY <1>1 DEF Scan!scanVars, Captured
<1>2. ASSUME NEW r \in Runners, Begin(r) PROVE UNCHANGED Scan!scanVars
  BY <1>1, <1>2 DEF Begin
<1>3. ASSUME NEW r \in Runners, Step(r) PROVE Scan!ScanNext \/ UNCHANGED Scan!scanVars
  <2>1. CASE PreflightBlocked(r)
    BY <2>1, FinalizedReports DEF PreflightBlocked, SourceRunStatuses
  <2>2. CASE Finalize(r)
    BY <2>2, VerdictIsEarned, FinalizedReports DEF Finalize
  <2>3. CASE \E i \in Items : Capture(r, i)
    BY <2>3, CaptureFinds
  <2>4. CASE InsertCheckpoint(r)
    BY <2>4, CheckpointFinishes
  <2>5. CASE \/ \E m \in Markers : Preflight(r, m)
             \/ Replay(r)
             \/ StartPartition(r)
             \/ \E items \in SUBSET Items, m \in Markers : Discover(r, items, m)
             \/ DiscoverRaises(r)
             \/ \E i \in Items : SkipSeen(r, i)
             \/ \E i \in Items : CaptureRaises(r, i)
             \/ ItemsDone(r)
             \/ CheckpointExists(r)
             \/ CheckpointMissing(r)
             \/ InsertConflicts(r)
    <3>1. UNCHANGED <<sourceRun, completed, captures, truncated>>
      BY <2>5 DEF Preflight, Replay, StartPartition, Discover, DiscoverRaises, SkipSeen,
         CaptureRaises, ItemsDone, CheckpointExists, CheckpointMissing, InsertConflicts
    <3> QED BY <1>1, <3>1
  <2> QED BY <1>3, <2>1, <2>2, <2>3, <2>4, <2>5 DEF Step
<1>4. ASSUME NEW r \in Runners, Crash(r) PROVE UNCHANGED Scan!scanVars
  BY <1>1, <1>4 DEF Crash
<1>5. CASE UNCHANGED acquisitionVars
  BY <1>1, <1>5 DEF acquisitionVars
<1> QED BY <1>2, <1>3, <1>4, <1>5 DEF Next

\* However many invocations of run_source write it, the database tells the
\* story of one scan of the plan.
THEOREM SourceRunImplementsScan == Spec => ImplementsScan
<1>1. Init => Scan!ScanInit
  BY DEF Init, Scan!ScanInit, Captured
<1> QED BY <1>1, StepScans, Invariance, PTL DEF Spec, ImplementsScan, Scan!ScanSpec
=============================================================================
