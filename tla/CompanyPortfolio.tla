-------------------------- MODULE CompanyPortfolio --------------------------
(***************************************************************************)
(* The company's own property list (webui /company).  Uploading the sheet  *)
(* inserts and updates rows; the company refresh job checks each property's *)
(* page and researches its commutes; the amenity backfill fills the gaps a *)
(* page left.  Every job loads a row, works for seconds to minutes and     *)
(* then flushes it (UnitOfWork), while people upload, delete and launch    *)
(* further jobs.                                                           *)
(***************************************************************************)
EXTENDS Naturals, FiniteSets, UnitOfWork

CONSTANTS
    Companies,       \* identities a company_property row can have, one per upload
                     \* of a name_fingerprint that no row carries
    Places, NoPlace, \* coordinates inside the metro area
    Destinations,    \* active commute destinations, the nearest of each type
    Jobs,            \* company refresh processes
    NoRow

\* The availability snapshot, by where its amenities come from.  Its texts,
\* the links and the address are left out: a check may or may not find them.
Avail == {"NULL", "none", "page", "web"}
Row == [check : {"PENDING", "CHECKED", "FAILED"}, avail : Avail,
        place : Places \cup {NoPlace}]
Modes == {"all", "force", "failed_only", "commutes_only"}
Phases == {"idle", "starting", "selecting", "checking", "commuting", "ended", "dead"}
Job == [phase : Phases, mode : Modes, todo : SUBSET Companies,
        at : Companies, loaded : Row \cup {NoRow}]
\* An estimate, named by the identity of the model execution it is built on.  Its
\* age is left out: it may outlive its cache window at any time.
Key == [company : Companies, destination : Destinations, place : Places \cup {NoPlace}]

ASSUME PortfolioAssumption ==
    /\ Companies # {} /\ Destinations # {}
    /\ NoRow \notin Row /\ NoPlace \notin Places

VARIABLES
    row,         \* company_property
    gone,        \* identities that were deleted (history)
    job,         \* company refresh processes
    estimates,   \* commute_result of company properties
    requests,    \* researches asked for on a property's page, under way
    executions,  \* model_execution identities of commute research (unique)
    fill         \* the amenity backfill process, and the snapshot it loaded

vars == <<row, gone, job, estimates, requests, executions, fill>>

Live(c) == row[c] # NoRow

\* A slip: the state of the link is entered as the state of the check.
NewRowUnchecked == [check |-> "UNCHECKED", avail |-> "NULL", place |-> NoPlace]

\* A row as the sheet brings it.
NewRow == [check |-> "PENDING", avail |-> "NULL", place |-> NoPlace]
NoFill == "no session"

Init ==
    /\ row = [c \in Companies |-> NoRow]
    /\ gone = {}
    /\ job \in [Jobs -> {[phase |-> "idle", mode |-> "all", todo |-> {}, at |-> c,
                          loaded |-> NoRow] : c \in Companies}]
    /\ estimates = {} /\ requests = {} /\ executions = {}
    /\ fill \in {[todo |-> {}, at |-> c, loaded |-> NoFill] : c \in Companies}

-----------------------------------------------------------------------------
(* People (webui/app.py)                                                    *)

\* company_upload, for an entry of the sheet that no row is named like.
UploadNew(c) ==
    /\ ~Live(c) /\ c \notin gone
    /\ row' = [row EXCEPT ![c] = NewRow]
    /\ UNCHANGED <<gone, job, estimates, requests, executions, fill>>

\* company_upload, for an entry whose row exists, with another link than before:
\* the next check starts from it.
UploadKnown(c) ==
    /\ Live(c)
    /\ row' = [row EXCEPT ![c].check = "PENDING"]
    /\ UNCHANGED <<gone, job, estimates, requests, executions, fill>>

\* A slip: the researched commutes are left behind.
DeleteRowOnly(c) ==
    /\ Live(c)
    /\ row' = [row EXCEPT ![c] = NoRow]
    /\ gone' = gone \cup {c}
    /\ UNCHANGED <<job, estimates, requests, executions, fill>>

\* company_delete: the researched commutes go with the row (ON DELETE CASCADE).
Delete(c) ==
    /\ Live(c)
    /\ row' = [row EXCEPT ![c] = NoRow]
    /\ gone' = gone \cup {c}
    /\ estimates' = {e \in estimates : e.company # c}
    /\ UNCHANGED <<job, requests, executions, fill>>

\* company_check spawns a job, whether or not one is running; the commutes_only
\* mode is started from a shell.  The status file, which only displays what the
\* process last wrote, is left out.
Launch(j, mode) ==
    /\ job[j].phase = "idle"
    /\ job' = [job EXCEPT ![j] = [@ EXCEPT !.phase = "starting", !.mode = mode]]
    /\ UNCHANGED <<row, gone, estimates, requests, executions, fill>>

-----------------------------------------------------------------------------
(* Commute research (enrichment/commute/research.py)                        *)

\* The identity of the model execution of a research.
KeyOf(c, d, place) == [company |-> c, destination |-> d, place |-> place]

\* research_company_commute, on demand: the row is loaded, the model is asked ...
RequestCommute(c, d) ==
    /\ Live(c)
    /\ requests' = requests \cup {KeyOf(c, d, row[c].place)}
    /\ UNCHANGED <<row, gone, job, estimates, executions, fill>>

\* ... and the estimate is committed, if the property is still there and nobody
\* else's research has the same identity.
CommitRequest(key) ==
    /\ key \in requests /\ Live(key.company) /\ key \notin executions
    /\ requests' = requests \ {key}
    /\ executions' = executions \cup {key}
    /\ estimates' = estimates \cup {key}
    /\ UNCHANGED <<row, gone, job, fill>>

\* Any failure is rolled back silently.
DropRequest(key) ==
    /\ key \in requests
    /\ requests' = requests \ {key}
    /\ UNCHANGED <<row, gone, job, estimates, executions, fill>>

-----------------------------------------------------------------------------
(* The company refresh job (jobs/company_refresh.py)                        *)

\* The session is closed; a process that ended is not started again.
Goto(j, phase) ==
    job' = [job EXCEPT ![j] = [@ EXCEPT !.phase = phase, !.loaded = NoRow,
               !.mode = IF phase = "selecting" THEN job[j].mode ELSE "all",
               !.todo = IF phase = "selecting" THEN job[j].todo ELSE {}]]

MissingKeys(j) ==
    /\ job[j].phase = "starting"
    /\ Goto(j, "ended")
    /\ UNCHANGED <<row, estimates, requests, executions, gone, fill>>

\* The rows to visit are selected once; then failed_only is like all.
Begin(j) ==
    /\ job[j].phase = "starting"
    /\ job' = [job EXCEPT ![j] = [@ EXCEPT !.phase = "selecting",
           !.mode = IF job[j].mode = "failed_only" THEN "all" ELSE job[j].mode,
           !.todo = {c \in Companies : Live(c) /\
                        (job[j].mode = "failed_only" => row[c].check # "CHECKED")}]]
    /\ UNCHANGED <<row, estimates, requests, executions, gone, fill>>

\* A slip: a row deleted after it was selected is waited for.
SkipUndeleted(j, c) ==
    /\ job[j].phase = "selecting" /\ c \in job[j].todo /\ ~Live(c) /\ c \notin gone
    /\ job' = [job EXCEPT ![j].todo = @ \ {c}]
    /\ UNCHANGED <<row, gone, estimates, requests, executions, fill>>

\* session.get: a row deleted since is skipped without a word.
SkipMissing(j, c) ==
    /\ job[j].phase = "selecting" /\ c \in job[j].todo /\ ~Live(c)
    /\ job' = [job EXCEPT ![j].todo = @ \ {c}]
    /\ UNCHANGED <<row, gone, estimates, requests, executions, fill>>

\* Unless forced, a recent successful check is not repeated.
SkipFresh(j, c) ==
    /\ job[j].phase = "selecting" /\ c \in job[j].todo /\ Live(c)
    /\ job[j].mode = "all" /\ row[c].check = "CHECKED"
    /\ job' = [job EXCEPT ![j].todo = @ \ {c}]
    /\ UNCHANGED <<row, gone, estimates, requests, executions, fill>>

Load(j, c) ==
    /\ job[j].phase = "selecting" /\ c \in job[j].todo /\ Live(c)
    /\ job' = [job EXCEPT ![j] = [@ EXCEPT !.todo = job[j].todo \ {c}, !.at = c, !.loaded = row[c],
           !.phase = IF job[j].mode = "commutes_only" THEN "commuting" ELSE "checking"]]
    /\ UNCHANGED <<row, gone, estimates, requests, executions, fill>>

\* check, when a page (the sheet's, or one found in its stead) was read and
\* understood: the snapshot, which holds the time of the check, is written as a
\* whole.  _geocode replaces the point, drops it (outside the metro area) or
\* keeps it.
CheckSucceeds(j, amenities, place) ==
    LET c == job[j].at
        wanted == [check |-> "CHECKED", avail |-> amenities, place |-> place]
    IN
    /\ job[j].phase = "checking" /\ Live(c)
    /\ row' = [row EXCEPT ![c] = [Flush(@, job[j].loaded, wanted) EXCEPT !.avail = amenities]]
    /\ job' = [job EXCEPT ![j] = [@ EXCEPT !.phase = "commuting", !.loaded = wanted]]
    /\ UNCHANGED <<gone, estimates, requests, executions, fill>>

\* A slip: every failed check starts from nothing.
Discarded(j) == "NULL"

\* Only a forced run discards the previous snapshot on failure.
Kept(j) == IF job[j].mode = "force" THEN "NULL" ELSE job[j].loaded.avail

\* check, when no page was reachable or the model's answer is unusable.
CheckFails(j, place) ==
    LET c == job[j].at
        wanted == [check |-> "FAILED", avail |-> Kept(j), place |-> place]
    IN
    /\ job[j].phase = "checking" /\ Live(c)
    /\ row' = [row EXCEPT ![c] = Flush(@, job[j].loaded, wanted)]
    /\ Goto(j, "selecting")
    /\ UNCHANGED <<gone, estimates, requests, executions, fill>>

\* RATE_LIMITED: nothing was checked, and the whole run is aborted.
QuotaRefused(j) ==
    /\ job[j].phase = "checking"
    /\ Goto(j, "ended")
    /\ UNCHANGED <<row, gone, estimates, requests, executions, fill>>

\* Any exception, among them the flush of a row deleted meanwhile.
CheckAborts(j) ==
    /\ job[j].phase = "checking"
    /\ Goto(j, "selecting")
    /\ UNCHANGED <<row, gone, estimates, requests, executions, fill>>

\* _research_company_commutes: for the destinations without a fresh estimate,
\* those whose research is accepted (`found`), all in one transaction.  In mode
\* commutes_only a snapshot without walking routes first gets them (`routed`),
\* which writes the LOADED snapshot back.
CommitCommutes(j, found, routed) ==
    LET c == job[j].at
        loaded == job[j].loaded
        keys == {KeyOf(c, d, loaded.place) : d \in found}
    IN
    /\ job[j].phase = "commuting"
    /\ found # {} => loaded.place # NoPlace /\ Live(c)
    /\ routed => /\ job[j].mode = "commutes_only" /\ Live(c)
                 /\ loaded.avail # "NULL" /\ loaded.place # NoPlace
    /\ keys \cap executions = {}
    /\ executions' = executions \cup keys
    /\ estimates' = estimates \cup keys
    /\ row' = IF routed THEN [row EXCEPT ![c].avail = loaded.avail] ELSE row
    /\ Goto(j, "selecting")
    /\ UNCHANGED <<gone, requests, fill>>

\* A provider error, an execution identity that exists already (an expired
\* estimate, another session), or the foreign key of a deleted row: everything
\* found for this property is rolled back.  The rollback expires the loaded
\* row; the progress line after it reads its name, and if the row is gone that
\* ends the process.
CommutesRollBack(j) ==
    /\ job[j].phase = "commuting" /\ job[j].loaded.place # NoPlace
    /\ Goto(j, IF Live(job[j].at) \/ job[j].mode = "commutes_only" THEN "selecting" ELSE "dead")
    /\ UNCHANGED <<row, gone, estimates, requests, executions, fill>>

EndJob(j) ==
    /\ job[j].phase = "selecting" /\ job[j].todo = {}
    /\ Goto(j, "ended")
    /\ UNCHANGED <<row, gone, estimates, requests, executions, fill>>

CheckStep(j) ==
    \/ \E place \in Places \cup {NoPlace} :
           CheckFails(j, place) \/ \E amenities \in {"none", "page"} : CheckSucceeds(j, amenities, place)
    \/ QuotaRefused(j) \/ CheckAborts(j)
CommuteStep(j) ==
    \/ \E found \in SUBSET Destinations, routed \in BOOLEAN : CommitCommutes(j, found, routed)
    \/ CommutesRollBack(j)
JobStep(j) ==
    \/ MissingKeys(j) \/ Begin(j) \/ EndJob(j)
    \/ \E c \in Companies : SkipMissing(j, c) \/ SkipFresh(j, c) \/ Load(j, c)
    \/ CheckStep(j) \/ CommuteStep(j)

-----------------------------------------------------------------------------
(* Amenity backfill of company rows (jobs/amenity_backfill.py)              *)

\* The rows whose page stated no amenities, selected once.
FillSelect ==
    /\ fill.todo = {} /\ fill.loaded = NoFill
    /\ fill' = [fill EXCEPT !.todo =
           {c \in Companies : Live(c) /\ row[c].check = "CHECKED" /\ row[c].avail = "none"}]
    /\ UNCHANGED <<row, gone, job, estimates, requests, executions>>

\* Its snapshot is loaded; a row deleted since is skipped.
FillLoad(c) ==
    /\ c \in fill.todo /\ fill.loaded = NoFill
    /\ fill' = [todo |-> fill.todo \ {c}, at |-> c,
                loaded |-> IF Live(c) THEN row[c].avail ELSE NoFill]
    /\ UNCHANGED <<row, gone, job, estimates, requests, executions>>

\* apply_to_company: only gaps of the LOADED snapshot are filled, and the
\* snapshot is written as a whole.
FillWrite ==
    /\ fill.loaded # NoFill /\ Live(fill.at)
    /\ row' = [row EXCEPT ![fill.at].avail = IF fill.loaded = "page" THEN @ ELSE "web"]
    /\ fill' = [fill EXCEPT !.loaded = NoFill]
    /\ UNCHANGED <<gone, job, estimates, requests, executions>>

\* No data, no sources, an error, or a row deleted meanwhile.
FillNothing ==
    /\ fill.loaded # NoFill
    /\ fill' = [fill EXCEPT !.loaded = NoFill]
    /\ UNCHANGED <<row, gone, job, estimates, requests, executions>>

-----------------------------------------------------------------------------
Next ==
    \/ \E c \in Companies : UploadNew(c) \/ UploadKnown(c) \/ Delete(c)
    \/ \E c \in Companies, d \in Destinations : RequestCommute(c, d)
    \/ \E key \in requests : CommitRequest(key) \/ DropRequest(key)
    \/ \E j \in Jobs : JobStep(j) \/ \E mode \in Modes : Launch(j, mode)
    \/ FillSelect \/ FillWrite \/ FillNothing \/ \E c \in Companies : FillLoad(c)

\* The job's process keeps running; nobody has to upload, delete or launch.
Fairness == \A j \in Jobs : WF_vars(JobStep(j))
Spec == Init /\ [][Next]_vars
FairSpec == Spec /\ Fairness

-----------------------------------------------------------------------------
(* Properties                                                               *)

\* Every table, process and file holds values of its type.
TypeOK ==
    /\ row \in [Companies -> Row \cup {NoRow}] /\ gone \subseteq Companies
    /\ job \in [Jobs -> Job]
    /\ estimates \subseteq Key /\ requests \subseteq Key /\ executions \subseteq Key
    /\ fill \in [todo : SUBSET Companies, at : Companies, loaded : Avail \cup {NoFill}]

\* Deletes and rollbacks in mid-research leave the references whole: every
\* estimate belongs to a row that exists and cites an execution on record.
ReferencesHold ==
    \A e \in estimates : Live(e.company) /\ e \in executions

\* "Only a full re-check (force) discards previous snapshots on failure": while
\* a row lives, its snapshot disappears only in the step of a forced job.
OnlyForcedChecksDiscard ==
    [][\A c \in Companies :
           Live(c) /\ row[c].avail # "NULL" /\ row'[c] # NoRow /\ row'[c].avail = "NULL"
           => \E j \in Jobs : job[j].at = c /\ job[j].mode = "force" /\ job'[j] # job[j]]_vars

\* A launched job comes to an end, whatever pages, quotas, deletes and other
\* jobs do to the rows it selected.
LaunchedJobsEnd ==
    \A j \in Jobs : job[j].phase = "starting" ~> job[j].phase \in {"ended", "dead"}

=============================================================================
