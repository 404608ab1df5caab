----------------------------- MODULE SourceScan -----------------------------
(***************************************************************************)
(* What a source run promises about the market it scans, without           *)
(* invocations, retries or memory: listings are found one at a time, a     *)
(* scope of the plan is done once, whole or in part, and a scope done      *)
(* whole has left no listing to any later scope.  The run may be reported  *)
(* at any time and again, but as HEALTHY only over the whole plan.         *)
(* Acquisition.tla implements this.                                        *)
(***************************************************************************)
EXTENDS Naturals

CONSTANTS Partitions,       \* number of scopes of the plan
          Items,            \* listing identities
          Page,             \* the listings each scope covers
          DiscoveryMethod   \* how the source is searched

VARIABLES found,      \* listings observed at least once
          done,       \* scopes of the plan that are done
          partial,    \* those of them that may have missed a listing
          report      \* the status and gate last reported

scanVars == <<found, done, partial, report>>

Scopes == 1 .. Partitions

ScanInit ==
    /\ found = {}
    /\ done = {}
    /\ partial = {}
    /\ report = [status |-> "PENDING", gate |-> "unset"]

Find(i) ==
    /\ found' = found \cup {i}
    /\ UNCHANGED <<done, partial, report>>

\* What is not found yet in scope k belongs to an earlier scope as well.
Exhausted(k) == \A i \in Page[k] \ found : \E j \in 1 .. k - 1 : i \in Page[j]

FinishWhole(k) ==
    /\ k \notin done
    /\ Exhausted(k)
    /\ done' = done \cup {k}
    /\ UNCHANGED <<found, partial, report>>

FinishInPart(k) ==
    /\ k \notin done
    /\ done' = done \cup {k}
    /\ partial' = partial \cup {k}
    /\ UNCHANGED <<found, report>>

Report(status) ==
    /\ status = "HEALTHY" => done = Scopes
    /\ report' = [status |-> status,
                  gate |-> IF status = "HEALTHY" /\ DiscoveryMethod # "SEARCH_INDEX"
                           THEN "passed" ELSE "not passed"]
    /\ UNCHANGED <<found, done, partial>>

ScanNext ==
    \/ \E i \in Items : Find(i)
    \/ \E k \in Scopes : FinishWhole(k) \/ FinishInPart(k)
    \/ \E status \in {"HEALTHY", "DEGRADED", "FAILED", "BLOCKED"} : Report(status)

ScanSpec == ScanInit /\ [][ScanNext]_scanVars
=============================================================================
