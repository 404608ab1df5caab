----------------------- MODULE CompanyPortfolioProofs -----------------------
(***************************************************************************)
(* Proofs about the company's own properties, for any number of rows,      *)
(* refresh processes, destinations and places.                             *)
(***************************************************************************)
EXTENDS CompanyPortfolio, TLAPS

-----------------------------------------------------------------------------
(* The inductive invariant.                                                 *)

\* A session that checks a property or researches its commutes has a row.
RowLoaded == \A j \in Jobs : job[j].phase \in {"checking", "commuting"} => job[j].loaded \in Row

IInv ==
    /\ TypeOK
    /\ RowLoaded
    /\ ReferencesHold

-----------------------------------------------------------------------------
(* Rows and processes.                                                      *)

LEMMA Rows ==
    /\ NoRow \notin Row
    /\ NewRow \in Row
    /\ NoFill \notin Avail
BY PortfolioAssumption DEF PortfolioAssumption, Row, NewRow, NoFill, Avail

\* A flushed attribute is the stored one, or the one wanted.
LEMMA FlushedRow ==
    ASSUME NEW stored \in Row, NEW loaded \in Row, NEW wanted \in Row
    PROVE  /\ Flush(stored, loaded, wanted) \in Row
           /\ Flush(stored, loaded, wanted).avail =
                  IF wanted.avail = loaded.avail THEN stored.avail ELSE wanted.avail
BY DEF Flush, Row

\* What a step needs to show of one process.
LEMMA JobMoved ==
    ASSUME TypeOK, RowLoaded, NEW j \in Jobs, NEW new \in Job,
           job' = [job EXCEPT ![j] = new],
           new.phase \in {"checking", "commuting"} => new.loaded \in Row
    PROVE  job' \in [Jobs -> Job] /\ RowLoaded'
BY DEF TypeOK, RowLoaded

LEMMA Gone ==
    ASSUME TypeOK, RowLoaded, NEW j \in Jobs, NEW phase \in Phases \ {"checking", "commuting"},
           Goto(j, phase)
    PROVE  job' \in [Jobs -> Job] /\ RowLoaded'
<1> DEFINE new == [job[j] EXCEPT !.phase = phase, !.loaded = NoRow,
               !.mode = IF phase = "selecting" THEN job[j].mode ELSE "all",
               !.todo = IF phase = "selecting" THEN job[j].todo ELSE {}]
<1>1. job[j] \in Job
  BY DEF TypeOK
<1>2. new \in Job /\ new.phase = phase
  BY <1>1 DEF Job, Modes
<1>3. job' = [job EXCEPT ![j] = new]
  BY DEF Goto
<1> HIDE DEF new
<1> QED BY <1>2, <1>3, JobMoved

-----------------------------------------------------------------------------
(* The steps.                                                               *)

LEMMA InitIInv == Init => IInv
BY Rows DEF Init, IInv, TypeOK, RowLoaded, ReferencesHold, Job, Modes, Phases

\* Where properties, estimates and executions only grow, references hold.
LEMMA ReferencesKept ==
    ASSUME ReferencesHold, estimates' \subseteq estimates, executions \subseteq executions',
           \A c \in Companies : Live(c) => row'[c] # NoRow, estimates \subseteq Key
    PROVE  ReferencesHold'
BY DEF ReferencesHold, Live, Key

\* A step of a process that changes no table.
LEMMA JobAlone ==
    ASSUME IInv, job' \in [Jobs -> Job], RowLoaded',
           UNCHANGED <<row, gone, estimates, requests, executions, fill>>
    PROVE  IInv'
BY DEF IInv, TypeOK, ReferencesHold, Live

\* A step that changes rows and no process: they stay rows.
LEMMA RowsChanged ==
    ASSUME IInv, row' \in [Companies -> Row \cup {NoRow}],
           \A c \in Companies : Live(c) => row'[c] # NoRow,
           UNCHANGED <<estimates, requests, executions, gone>>
    PROVE  /\ row' \in [Companies -> Row \cup {NoRow}] /\ gone' \subseteq Companies
           /\ estimates' \subseteq Key /\ requests' \subseteq Key /\ executions' \subseteq Key
           /\ ReferencesHold'
BY ReferencesKept DEF IInv, TypeOK

LEMMA UploadIInv ==
    ASSUME IInv, NEW c \in Companies, UploadNew(c) \/ UploadKnown(c)
    PROVE  IInv'
<1>1. row \in [Companies -> Row \cup {NoRow}]
  BY DEF IInv, TypeOK
<1>2. row' \in [Companies -> Row \cup {NoRow}] /\ \A d \in Companies : Live(d) => row'[d] # NoRow
  <2>1. CASE UploadNew(c)
    BY <1>1, <2>1, Rows DEF UploadNew, Live
  <2>2. CASE UploadKnown(c)
    <3>1. row[c] \in Row
      BY <1>1, <2>2 DEF UploadKnown, Live
    <3>2. [row[c] EXCEPT !.check = "PENDING"] \in Row
      BY <3>1 DEF Row
    <3> QED BY <1>1, <2>2, <3>2, Rows DEF UploadKnown, Live
  <2> QED BY <2>1, <2>2
<1> QED BY <1>2, RowsChanged DEF UploadNew, UploadKnown, IInv, TypeOK, RowLoaded

LEMMA DeleteIInv ==
    ASSUME IInv, NEW c \in Companies, Delete(c)
    PROVE  IInv'
<1>1. TypeOK'
  BY DEF IInv, TypeOK, Delete
<1>2. ReferencesHold'
  BY DEF IInv, TypeOK, ReferencesHold, Delete, Live, Key
<1> QED BY <1>1, <1>2 DEF IInv, RowLoaded, Delete

LEMMA Keys ==
    ASSUME NEW c \in Companies, NEW d \in Destinations, NEW place \in Places \cup {NoPlace}
    PROVE  KeyOf(c, d, place) \in Key /\ KeyOf(c, d, place).company = c
BY DEF KeyOf, Key

LEMMA RequestIInv ==
    ASSUME IInv, NEW c \in Companies, NEW d \in Destinations, RequestCommute(c, d)
    PROVE  IInv'
<1>1. row[c].place \in Places \cup {NoPlace}
  BY DEF RequestCommute, IInv, TypeOK, Live, Row
<1>2. KeyOf(c, d, row[c].place) \in Key
  BY <1>1, Keys
<1> QED BY <1>2 DEF RequestCommute, IInv, TypeOK, RowLoaded, ReferencesHold, Live

LEMMA AnswerIInv ==
    ASSUME IInv, NEW key \in requests, CommitRequest(key) \/ DropRequest(key)
    PROVE  IInv'
<1>1. TypeOK'
  BY DEF IInv, TypeOK, CommitRequest, DropRequest
<1>2. ReferencesHold'
  BY DEF IInv, TypeOK, ReferencesHold, Live, CommitRequest, DropRequest
<1> QED BY <1>1, <1>2 DEF IInv, RowLoaded, CommitRequest, DropRequest

LEMMA LaunchIInv ==
    ASSUME IInv, NEW j \in Jobs, NEW mode \in Modes, Launch(j, mode)
    PROVE  IInv'
<1> DEFINE new == [job[j] EXCEPT !.phase = "starting", !.mode = mode]
<1>1. job[j] \in Job
  BY DEF IInv, TypeOK
<1>2. new \in Job /\ new.phase = "starting"
  BY <1>1 DEF Job, Phases
<1>3. job' = [job EXCEPT ![j] = new]
  BY DEF Launch
<1> HIDE DEF new
<1>4. job' \in [Jobs -> Job] /\ RowLoaded'
  BY <1>2, <1>3, JobMoved DEF IInv
<1> QED BY <1>4, JobAlone DEF Launch

LEMMA VisitIInv ==
    ASSUME IInv, NEW j \in Jobs,
           \/ MissingKeys(j) \/ Begin(j) \/ EndJob(j)
           \/ \E c \in Companies : SkipMissing(j, c) \/ SkipFresh(j, c) \/ Load(j, c)
           \/ QuotaRefused(j) \/ CheckAborts(j)
    PROVE  IInv'
<1>0. TypeOK /\ RowLoaded /\ job[j] \in Job
  BY DEF IInv, TypeOK
<1>1. {"ended", "selecting"} \subseteq Phases \ {"checking", "commuting"}
  BY DEF Phases
<1>2. CASE MissingKeys(j) \/ EndJob(j) \/ QuotaRefused(j) \/ CheckAborts(j)
  BY <1>0, <1>1, <1>2, Gone, JobAlone DEF MissingKeys, EndJob, QuotaRefused, CheckAborts
<1>3. CASE Begin(j)
  <2> DEFINE todo == {c \in Companies : Live(c) /\
                         (job[j].mode = "failed_only" => row[c].check # "CHECKED")}
             new == [job[j] EXCEPT !.phase = "selecting",
                        !.mode = IF job[j].mode = "failed_only" THEN "all" ELSE job[j].mode,
                        !.todo = todo]
  <2>1. job' = [job EXCEPT ![j] = new]
    BY <1>3 DEF Begin
  <2>2. todo \subseteq Companies
    OBVIOUS
  <2> HIDE DEF todo
  <2>3. new \in Job /\ new.phase = "selecting"
    BY <1>0, <2>2 DEF Job, Modes, Phases
  <2> HIDE DEF new
  <2>4. job' \in [Jobs -> Job] /\ RowLoaded'
    BY <1>0, <2>1, <2>3, JobMoved
  <2> QED BY <1>3, <2>4, JobAlone DEF Begin
<1>4. ASSUME NEW c \in Companies, SkipMissing(j, c) \/ SkipFresh(j, c)
      PROVE  IInv'
  <2> DEFINE new == [job[j] EXCEPT !.todo = job[j].todo \ {c}]
  <2>1. job' = [job EXCEPT ![j] = new]
    BY <1>4 DEF SkipMissing, SkipFresh
  <2>2. new \in Job /\ new.phase = "selecting"
    BY <1>0, <1>4 DEF Job, SkipMissing, SkipFresh
  <2> HIDE DEF new
  <2>3. job' \in [Jobs -> Job] /\ RowLoaded'
    BY <1>0, <2>1, <2>2, JobMoved
  <2> QED BY <1>4, <2>3, JobAlone DEF SkipMissing, SkipFresh
<1>5. ASSUME NEW c \in Companies, Load(j, c)
      PROVE  IInv'
  <2> DEFINE phase == IF job[j].mode = "commutes_only" THEN "commuting" ELSE "checking"
             new == [job[j] EXCEPT !.todo = job[j].todo \ {c}, !.at = c, !.loaded = row[c],
                        !.phase = phase]
  <2>1. job' = [job EXCEPT ![j] = new]
    BY <1>5 DEF Load
  <2>2. row[c] \in Row /\ phase \in Phases
    BY <1>0, <1>5 DEF Load, Live, TypeOK, Phases
  <2> HIDE DEF phase
  <2>3. new \in Job /\ new.loaded = row[c]
    BY <1>0, <2>2 DEF Job
  <2> HIDE DEF new
  <2>4. job' \in [Jobs -> Job] /\ RowLoaded'
    BY <1>0, <2>1, <2>2, <2>3, JobMoved
  <2> QED BY <1>5, <2>4, JobAlone DEF Load
<1> QED BY <1>2, <1>3, <1>4, <1>5

\* A check writes a row, and only a forced one that fails takes a snapshot away.
LEMMA CheckSucceedsIInv ==
    ASSUME IInv, NEW j \in Jobs, NEW amenities \in {"none", "page"},
           NEW place \in Places \cup {NoPlace}, CheckSucceeds(j, amenities, place)
    PROVE  /\ IInv'
           /\ \A c \in Companies : row'[c] = row[c] \/ row'[c].avail # "NULL"
<1> DEFINE c == job[j].at
           wanted == [check |-> "CHECKED", avail |-> amenities, place |-> place]
           flushed == Flush(row[c], job[j].loaded, wanted)
           written == [flushed EXCEPT !.avail = amenities]
           new == [job[j] EXCEPT !.phase = "commuting", !.loaded = wanted]
<1>1. /\ TypeOK /\ RowLoaded /\ job[j] \in Job /\ c \in Companies
      /\ row[c] \in Row /\ job[j].loaded \in Row
  BY DEF IInv, TypeOK, RowLoaded, Job, CheckSucceeds, Live
<1>2. wanted \in Row /\ "commuting" \in Phases
  BY DEF Row, Avail, Phases
<1>3. row' = [row EXCEPT ![c] = written] /\ job' = [job EXCEPT ![j] = new]
  BY DEF CheckSucceeds
<1> HIDE DEF wanted
<1>4. flushed \in Row
  BY <1>1, <1>2, FlushedRow
<1>5. new \in Job /\ new.loaded = wanted
  BY <1>1, <1>2 DEF Job
<1> HIDE DEF flushed, new
<1>6. written \in Row /\ written.avail = amenities
  BY <1>4 DEF Row, Avail
<1> HIDE DEF written, c
<1>7. job' \in [Jobs -> Job] /\ RowLoaded'
  BY <1>1, <1>2, <1>3, <1>5, JobMoved
<1>8. /\ row' \in [Companies -> Row \cup {NoRow}]
      /\ \A d \in Companies : Live(d) => row'[d] # NoRow
      /\ \A d \in Companies : row'[d] = row[d] \/ row'[d].avail # "NULL"
  BY <1>1, <1>3, <1>6, Rows DEF TypeOK, Live
<1> QED BY <1>7, <1>8, RowsChanged DEF IInv, TypeOK, CheckSucceeds

LEMMA CheckFailsIInv ==
    ASSUME IInv, NEW j \in Jobs, NEW place \in Places \cup {NoPlace}, CheckFails(j, place)
    PROVE  /\ IInv'
           /\ \A c \in Companies :
                  \/ row'[c] = row[c] \/ row'[c].avail = row[c].avail \/ row'[c].avail # "NULL"
                  \/ c = job[j].at /\ job[j].mode = "force"
           /\ job'[j] # job[j]
<1> DEFINE c == job[j].at
           wanted == [check |-> "FAILED", avail |-> Kept(j), place |-> place]
           flushed == Flush(row[c], job[j].loaded, wanted)
<1>1. /\ TypeOK /\ RowLoaded /\ job[j] \in Job /\ c \in Companies
      /\ row[c] \in Row /\ job[j].loaded \in Row /\ job[j].phase = "checking"
  BY DEF IInv, TypeOK, RowLoaded, Job, CheckFails, Live
<1>2. Kept(j) \in Avail /\ (job[j].mode # "force" => Kept(j) = job[j].loaded.avail)
  BY <1>1 DEF Kept, Row, Avail
<1>3. wanted \in Row /\ wanted.avail = Kept(j)
  BY <1>2 DEF Row
<1>4. row' = [row EXCEPT ![c] = flushed] /\ Goto(j, "selecting")
  BY DEF CheckFails
<1> HIDE DEF wanted
<1>5. /\ flushed \in Row
      /\ flushed.avail = IF wanted.avail = job[j].loaded.avail THEN row[c].avail ELSE wanted.avail
  BY <1>1, <1>3, FlushedRow
<1>6. job[j].mode # "force" => flushed.avail = row[c].avail
  BY <1>2, <1>3, <1>5
<1> HIDE DEF flushed
<1>7. job' \in [Jobs -> Job] /\ RowLoaded' /\ job'[j] # job[j]
  <2>1. "selecting" \in Phases \ {"checking", "commuting"}
    BY DEF Phases
  <2>2. job' \in [Jobs -> Job] /\ RowLoaded'
    BY <1>1, <1>4, <2>1, Gone
  <2>3. job'[j].phase = "selecting"
    BY <1>1, <1>4 DEF Goto, TypeOK, Job
  <2> QED BY <1>1, <2>2, <2>3
<1>8. /\ row' \in [Companies -> Row \cup {NoRow}]
      /\ \A d \in Companies : Live(d) => row'[d] # NoRow
      /\ \A d \in Companies : row'[d] = row[d] \/ d = c
      /\ row'[c] = flushed
  BY <1>1, <1>4, <1>5, Rows DEF TypeOK, Live
<1>9. IInv'
  BY <1>7, <1>8, RowsChanged DEF IInv, TypeOK, CheckFails
<1> QED BY <1>6, <1>7, <1>8, <1>9

LEMMA CommitCommutesIInv ==
    ASSUME IInv, NEW j \in Jobs, NEW found \in SUBSET Destinations, NEW routed \in BOOLEAN,
           CommitCommutes(j, found, routed)
    PROVE  /\ IInv'
           /\ \A c \in Companies : row'[c] = row[c] \/ row'[c].avail # "NULL"
<1> DEFINE c == job[j].at
           loaded == job[j].loaded
           keys == {KeyOf(c, d, loaded.place) : d \in found}
<1>1. /\ TypeOK /\ RowLoaded /\ job[j] \in Job /\ c \in Companies
      /\ loaded \in Row /\ loaded.place \in Places \cup {NoPlace} /\ loaded.avail \in Avail
  BY DEF IInv, TypeOK, RowLoaded, Job, CommitCommutes, Row
<1>2. /\ executions' = executions \cup keys /\ estimates' = estimates \cup keys
      /\ row' = IF routed THEN [row EXCEPT ![c].avail = loaded.avail] ELSE row
      /\ routed => Live(c) /\ loaded.avail # "NULL"
      /\ found # {} => Live(c)
      /\ Goto(j, "selecting")
      /\ UNCHANGED <<gone, requests, fill>>
  BY DEF CommitCommutes
<1>3. \A key \in keys : key \in Key /\ key.company = c /\ Live(c)
  BY <1>1, <1>2, Keys
<1> HIDE DEF keys, loaded, c
<1>4. /\ row' \in [Companies -> Row \cup {NoRow}]
      /\ \A d \in Companies : Live(d) => row'[d] # NoRow
      /\ \A d \in Companies : row'[d] = row[d] \/ row'[d].avail # "NULL"
  <2>1. CASE ~routed
    BY <1>1, <1>2, <2>1 DEF TypeOK, Live
  <2>2. CASE routed
    <3>1. row[c] \in Row
      BY <1>1, <1>2, <2>2 DEF TypeOK, Live
    <3>2. [row[c] EXCEPT !.avail = loaded.avail] \in Row
      BY <1>1, <3>1 DEF Row
    <3>3. [row[c] EXCEPT !.avail = loaded.avail].avail = loaded.avail
      BY <3>1 DEF Row
    <3>4. row' = [row EXCEPT ![c] = [row[c] EXCEPT !.avail = loaded.avail]]
      BY <1>2, <2>2
    <3> QED BY <1>1, <1>2, <2>2, <3>2, <3>3, <3>4, Rows DEF TypeOK, Live
  <2> QED BY <2>1, <2>2
<1>5. job' \in [Jobs -> Job] /\ RowLoaded'
  <2>1. "selecting" \in Phases \ {"checking", "commuting"}
    BY DEF Phases
  <2> QED BY <1>1, <1>2, <2>1, Gone
<1>6. TypeOK'
  BY <1>1, <1>2, <1>3, <1>4, <1>5 DEF TypeOK
<1>7. ReferencesHold'
  BY <1>1, <1>2, <1>3, <1>4 DEF IInv, TypeOK, ReferencesHold, Live, Key
<1> QED BY <1>4, <1>5, <1>6, <1>7 DEF IInv

LEMMA CommutesRollBackIInv ==
    ASSUME IInv, NEW j \in Jobs, CommutesRollBack(j)
    PROVE  IInv'
<1>1. {"selecting", "dead"} \subseteq Phases \ {"checking", "commuting"}
  BY DEF Phases
<1> QED BY <1>1, Gone, JobAlone DEF IInv, CommutesRollBack

LEMMA FillIInv ==
    ASSUME IInv, FillSelect \/ FillWrite \/ FillNothing \/ \E c \in Companies : FillLoad(c)
    PROVE  /\ IInv'
           /\ \A c \in Companies :
                  row'[c] = row[c] \/ row'[c].avail = row[c].avail \/ row'[c].avail # "NULL"
<1> DEFINE Fills == [todo : SUBSET Companies, at : Companies, loaded : Avail \cup {NoFill}]
<1>1. TypeOK /\ fill \in Fills /\ row \in [Companies -> Row \cup {NoRow}]
  BY DEF IInv, TypeOK
<1>2. CASE FillSelect \/ FillNothing \/ \E c \in Companies : FillLoad(c)
  <2>1. fill' \in Fills
    <3>1. CASE FillSelect
      <4> DEFINE todo == {c \in Companies : Live(c) /\ row[c].check = "CHECKED"
                                                   /\ row[c].avail = "none"}
      <4>1. fill' = [fill EXCEPT !.todo = todo] /\ todo \subseteq Companies
        BY <3>1 DEF FillSelect
      <4> HIDE DEF todo
      <4> QED BY <1>1, <4>1
    <3>2. CASE FillNothing
      BY <1>1, <3>2 DEF FillNothing
    <3>3. ASSUME NEW c \in Companies, FillLoad(c) PROVE fill' \in Fills
      <4>1. Live(c) => row[c].avail \in Avail
        BY <1>1 DEF Live, Row
      <4> QED BY <1>1, <3>3, <4>1 DEF FillLoad
    <3> QED BY <1>2, <3>1, <3>2, <3>3
  <2>2. UNCHANGED <<row, gone, job, estimates, requests, executions>>
    BY <1>2 DEF FillSelect, FillNothing, FillLoad
  <2> QED BY <2>1, <2>2 DEF IInv, TypeOK, RowLoaded, ReferencesHold, Live
<1>3. CASE FillWrite
  <2> DEFINE c == fill.at
             avail == IF fill.loaded = "page" THEN row[c].avail ELSE "web"
             written == [row[c] EXCEPT !.avail = avail]
  <2>1. c \in Companies /\ row[c] \in Row /\ avail \in Avail
    BY <1>1, <1>3 DEF FillWrite, Live, Row, Avail
  <2>2. row' = [row EXCEPT ![c] = written] /\ (avail = row[c].avail \/ avail # "NULL")
    BY <1>3 DEF FillWrite
  <2>3. fill' \in Fills
    BY <1>1, <1>3 DEF FillWrite
  <2> HIDE DEF avail
  <2>4. written \in Row /\ written.avail = avail
    BY <2>1 DEF Row
  <2> HIDE DEF written, c
  <2>5. /\ row' \in [Companies -> Row \cup {NoRow}]
        /\ \A d \in Companies : Live(d) => row'[d] # NoRow
        /\ \A d \in Companies :
               row'[d] = row[d] \/ row'[d].avail = row[d].avail \/ row'[d].avail # "NULL"
    BY <1>1, <2>1, <2>2, <2>4, Rows DEF Live
  <2> QED BY <1>3, <2>3, <2>5, RowsChanged DEF FillWrite, IInv, TypeOK, RowLoaded
<1> QED BY <1>2, <1>3

-----------------------------------------------------------------------------
(* The theorems.                                                            *)

LEMMA NextIInv == IInv /\ [Next]_vars => IInv'
<1> SUFFICES ASSUME IInv, [Next]_vars PROVE IInv'
  OBVIOUS
<1>1. ASSUME NEW j \in Jobs, JobStep(j) PROVE IInv'
  BY <1>1, VisitIInv, CheckSucceedsIInv, CheckFailsIInv, CommitCommutesIInv, CommutesRollBackIInv
  DEF JobStep, CheckStep, CommuteStep
<1>2. CASE UNCHANGED vars
  BY <1>2 DEF vars, IInv, TypeOK, RowLoaded, ReferencesHold, Live
<1> QED BY <1>1, <1>2, UploadIInv, DeleteIInv, RequestIInv, AnswerIInv, LaunchIInv, FillIInv DEF Next

\* The invariant holds of every behaviour: sessions that check or research work
\* on a row they loaded (run_company_refresh).
THEOREM Invariant == Spec => []IInv
<1> QED BY InitIInv, NextIInv, PTL DEF Spec

\* Every table, process and snapshot holds values of its type.
THEOREM TypeCorrect == Spec => []TypeOK
<1>1. IInv => TypeOK
  BY DEF IInv
<1> QED BY <1>1, Invariant, PTL

\* Every estimate belongs to a property on record and cites an execution on
\* record, whatever is deleted, rolled back or researched twice.
THEOREM ReferencesAlwaysHold == Spec => []ReferencesHold
<1>1. IInv => ReferencesHold
  BY DEF IInv
<1> QED BY <1>1, Invariant, PTL

\* Only a forced check that fails takes the snapshot of a living row away:
\* _keep_previous, whatever other sessions have written since the row was loaded.
THEOREM SnapshotsStand == Spec => OnlyForcedChecksDiscard
<1> DEFINE Forced(c) == \E j \in Jobs : /\ job[j].at = c /\ job[j].mode = "force"
                                        /\ job'[j] # job[j]
<1>1. ASSUME IInv, [Next]_vars, NEW c \in Companies,
             Live(c), row[c].avail # "NULL", row'[c] # NoRow, row'[c].avail = "NULL"
      PROVE  Forced(c)
  <2>1. /\ row'[c] # row[c] /\ row'[c].avail # row[c].avail /\ row'[c].avail = "NULL"
        /\ row \in [Companies -> Row \cup {NoRow}] /\ row[c] \in Row
    BY <1>1 DEF Live, IInv, TypeOK
  <2>2. ASSUME NEW d \in Companies, UploadNew(d) \/ UploadKnown(d) \/ Delete(d) PROVE Forced(c)
    <3>1. CASE d = c
      BY <1>1, <2>1, <2>2, <3>1 DEF UploadNew, UploadKnown, Delete, Live, Row
    <3>2. CASE d # c
      BY <2>1, <2>2, <3>2 DEF UploadNew, UploadKnown, Delete
    <3> QED BY <3>1, <3>2
  <2>3. ASSUME NEW d \in Companies, NEW e \in Destinations, RequestCommute(d, e) PROVE Forced(c)
    BY <2>1, <2>3 DEF RequestCommute
  <2>4. ASSUME NEW key \in requests, CommitRequest(key) \/ DropRequest(key) PROVE Forced(c)
    BY <2>1, <2>4 DEF CommitRequest, DropRequest
  <2>5. ASSUME NEW j \in Jobs, CheckStep(j) PROVE Forced(c)
    <3>1. ASSUME NEW place \in Places \cup {NoPlace}, CheckFails(j, place) PROVE Forced(c)
      BY <1>1, <2>1, <3>1, CheckFailsIInv
    <3>2. ASSUME NEW place \in Places \cup {NoPlace}, NEW amenities \in {"none", "page"},
                 CheckSucceeds(j, amenities, place)
          PROVE  Forced(c)
      BY <1>1, <2>1, <3>2, CheckSucceedsIInv
    <3>3. CASE QuotaRefused(j) \/ CheckAborts(j)
      BY <2>1, <3>3 DEF QuotaRefused, CheckAborts
    <3> QED BY <2>5, <3>1, <3>2, <3>3 DEF CheckStep
  <2>6. ASSUME NEW j \in Jobs, CommuteStep(j) PROVE Forced(c)
    <3>1. ASSUME NEW found \in SUBSET Destinations, NEW routed \in BOOLEAN,
                 CommitCommutes(j, found, routed)
          PROVE  Forced(c)
      BY <1>1, <2>1, <3>1, CommitCommutesIInv
    <3>2. CASE CommutesRollBack(j)
      BY <2>1, <3>2 DEF CommutesRollBack
    <3> QED BY <2>6, <3>1, <3>2 DEF CommuteStep
  <2>7. ASSUME NEW j \in Jobs,
               \/ MissingKeys(j) \/ Begin(j) \/ EndJob(j) \/ \E mode \in Modes : Launch(j, mode)
               \/ \E d \in Companies : SkipMissing(j, d) \/ SkipFresh(j, d) \/ Load(j, d)
        PROVE  Forced(c)
    BY <2>1, <2>7 DEF MissingKeys, Begin, EndJob, Launch, SkipMissing, SkipFresh, Load
  <2>8. CASE FillSelect \/ FillWrite \/ FillNothing \/ \E d \in Companies : FillLoad(d)
    BY <1>1, <2>1, <2>8, FillIInv
  <2>9. CASE UNCHANGED vars
    BY <2>1, <2>9 DEF vars
  <2> HIDE DEF Forced
  <2> QED BY <1>1, <2>2, <2>3, <2>4, <2>5, <2>6, <2>7, <2>8, <2>9 DEF Next, JobStep
<1>2. IInv /\ [Next]_vars =>
          [\A c \in Companies :
               Live(c) /\ row[c].avail # "NULL" /\ row'[c] # NoRow /\ row'[c].avail = "NULL"
               => \E j \in Jobs : job[j].at = c /\ job[j].mode = "force" /\ job'[j] # job[j]]_vars
  BY <1>1
<1> QED BY <1>2, Invariant, PTL DEF Spec, OnlyForcedChecksDiscard

=============================================================================
