----------------------------- MODULE Workspace ------------------------------
(***************************************************************************)
(* What people decide, and how it outlives a full re-acquisition.  People  *)
(* select listings and company properties for advertising and put them on  *)
(* the shortlists of their clients (canonical/selection_service.py and the *)
(* actions of webui/app.py), every change with an audit entry.  A manual   *)
(* refresh (jobs/weekday_refresh.py) truncates the acquired listings, and  *)
(* with them, through the foreign keys, nearly every other table; what     *)
(* belongs to the owner it has read before, table by table, and inserts    *)
(* again.                                                                  *)
(***************************************************************************)
EXTENDS Schema

CONSTANTS
    Companies,     \* company_property identities
    Listings,      \* canonical_listing identities
    Clients,       \* client_search_preset, by label in lower case
    Destinations,  \* app.destination
    Discards,      \* manual refresh processes
    Ads,           \* stands for the list of the advertised, marketing_selection
    Offers,        \* the choices people are offered, as <<list, target>> (a bound)
    MaxToggles     \* requests under way at once (a bound)

ASSUME WorkspaceAssumption ==
    /\ Companies \cap Listings = {}
    /\ Ads \notin Clients
    /\ MaxToggles \in Nat

Targets == Companies \cup Listings
Lists == Clients \cup {Ads}
\* SELECTED or INCLUDED is IN; NULL stands for no row.
Choices == [Lists -> [Targets -> {"NULL", "IN", "REMOVED"}]]
Portfolio == [Companies -> {"NULL", "PENDING", "CHECKED"}]
Commutes == Companies \X Destinations

Undecided == [k \in Lists |-> [t \in Targets |-> "NULL"]]
NoCompany == [c \in Companies |-> "NULL"]

\* discard_inventory reads one table after the other, each as it is then; a
\* phase is named for what was read last.
Readings == {"companies", "entries", "selections", "waiting"}
Phases == {"idle", "ended"} \cup Readings
Snapshot == [phase : Phases, destination : SUBSET Destinations, company : Portfolio,
             choice : Choices, commute : SUBSET Commutes, touched : SUBSET Companies]
Nothing(phase) == [phase |-> phase, destination |-> {}, company |-> NoCompany,
                   choice |-> Undecided, commute |-> {}, touched |-> {}]

VARIABLES
    company,      \* company_property: the check status
    inventory,    \* canonical_listing
    destination,  \* app.destination
    commute,      \* commute_result of company properties
    execution,    \* model_execution: of commutes, and of page extractions
    choice,       \* marketing_selection and client_shortlist_entry
    client,       \* client_search_preset
    toggling,     \* selection toggles under way, with the status they read
    discard,      \* what each discard has read; `touched` is history: the
                  \* properties anything was written about since it began
    used          \* identities given out (history)

tables == <<company, inventory, destination, commute, execution, choice, client>>
vars == <<company, inventory, destination, commute, execution, choice, client,
          toggling, discard, used>>

Init ==
    /\ company = NoCompany /\ inventory = {} /\ destination = Destinations
    /\ commute = {} /\ execution = {}
    /\ choice = Undecided
    /\ client = [p \in Clients |-> "NULL"]
    /\ toggling = {} /\ used = {}
    /\ discard = [r \in Discards |-> Nothing("idle")]

Exists(t) == IF t \in Companies THEN company[t] # "NULL" ELSE t \in inventory
Reading(r) == discard[r].phase \in Readings
Waiting(r) == discard[r].phase = "waiting"

\* History: something about target t was written.
Touch(t) ==
    discard' = [r \in Discards |-> [discard[r] EXCEPT
                   !.touched = IF Reading(r) THEN @ \cup ({t} \cap Companies) ELSE @]]

-----------------------------------------------------------------------------
(* The portfolio and the inventory, as the other jobs change them           *)

\* company_upload, a new name.
Upload(c) ==
    /\ c \notin used
    /\ company' = [company EXCEPT ![c] = "PENDING"]
    /\ used' = used \cup {c} /\ Touch(c)
    /\ UNCHANGED <<inventory, destination, commute, execution, choice, client,
                   toggling>>

\* A check is committed, or the sheet brings another link.
Check(c, status) ==
    /\ Exists(c)
    /\ company' = [company EXCEPT ![c] = status] /\ Touch(c)
    /\ UNCHANGED <<inventory, destination, commute, execution, choice, client,
                   toggling, used>>

\* company_delete: choices and commutes go with the row, executions stay.
Delete(c) ==
    /\ Exists(c)
    /\ company' = [company EXCEPT ![c] = "NULL"] /\ Touch(c)
    /\ choice' = [k \in Lists |-> [choice[k] EXCEPT ![c] = "NULL"]]
    /\ commute' = {m \in commute : m[1] # c}
    /\ UNCHANGED <<inventory, destination, execution, client, toggling, used>>

\* A commute is researched, under a new identity of its model execution.
Research(c, d) ==
    /\ Exists(c) /\ d \in destination /\ <<c, d>> \notin execution
    /\ commute' = commute \cup {<<c, d>>}
    /\ execution' = execution \cup {<<c, d>>} /\ Touch(c)
    /\ UNCHANGED <<company, inventory, destination, choice, client,
                   toggling, used>>

\* A listing is acquired, and its page read by a model.
Acquire(l) ==
    /\ l \notin used
    /\ inventory' = inventory \cup {l} /\ execution' = execution \cup {l}
    /\ used' = used \cup {l}
    /\ UNCHANGED <<company, destination, commute, choice, client,
                   toggling, discard>>

-----------------------------------------------------------------------------
(* People choose                                                            *)

\* set_selection and set_entry: the row is inserted or updated.
Choose(k, t, status) ==
    /\ Exists(t) /\ <<k, t>> \in Offers
    /\ choice' = [choice EXCEPT ![k][t] = status]
    /\ Touch(t)
    /\ UNCHANGED <<company, inventory, destination, commute, execution, client, used>>

\* toggle_select and toggle_company_select read the status first.  A session
\* that finds TRUNCATE waiting for its locks waits behind it.
BeginToggle(t) ==
    /\ Exists(t) /\ \A r \in Discards : ~Waiting(r)
    /\ <<Ads, t>> \in Offers /\ Cardinality(toggling) < MaxToggles
    /\ toggling' = toggling \cup {<<t, choice[Ads][t]>>}
    /\ UNCHANGED <<tables, discard, used>>

CommitToggle(q) ==
    /\ q \in toggling /\ Choose(Ads, q[1], IF q[2] = "IN" THEN "REMOVED" ELSE "IN")
    /\ toggling' = toggling \ {q}

\* The target was deleted, another request inserted the row, or this session
\* is the victim of a deadlock with a discard.
FailToggle(q) ==
    /\ q \in toggling
    /\ toggling' = toggling \ {q}
    /\ UNCHANGED <<tables, discard, used>>

\* add_shortlist_entry and remove_shortlist_entry; the client may be archived.
SetEntry(p, t, status) ==
    /\ client[p] # "NULL" /\ Choose(p, t, status)
    /\ UNCHANGED toggling

\* create_preset: a new label, or an archived one, which is restored with its
\* entries.
CreateClient(p) ==
    /\ client[p] # "active"
    /\ client' = [client EXCEPT ![p] = "active"]
    /\ UNCHANGED <<company, inventory, destination, commute, execution, choice,
                   toggling, discard, used>>

\* A slip: a client is taken off like an entry.
RemoveClient(p) ==
    /\ client[p] # "NULL"
    /\ client' = [client EXCEPT ![p] = "REMOVED"]
    /\ UNCHANGED <<company, inventory, destination, commute, execution, choice,
                   toggling, discard, used>>

\* archive_preset.
ArchiveClient(p) ==
    /\ client[p] # "NULL"
    /\ client' = [client EXCEPT ![p] = "archived"]
    /\ UNCHANGED <<company, inventory, destination, commute, execution, choice,
                   toggling, discard, used>>

-----------------------------------------------------------------------------
(* discard_inventory                                                        *)

ReadCompanies(r) ==
    /\ discard[r].phase = "idle"
    /\ discard' = [discard EXCEPT ![r] = [@ EXCEPT !.phase = "companies",
                       !.destination = destination, !.company = company]]
    /\ UNCHANGED <<tables, toggling, used>>

\* The entries, and later the selections, of company properties.
Of(lists, read) ==
    [k \in Lists |-> [t \in Targets |->
        IF k \in lists /\ t \in Companies THEN choice[k][t] ELSE read[k][t]]]

ReadEntries(r) ==
    /\ discard[r].phase = "companies"
    /\ discard' = [discard EXCEPT ![r] = [@ EXCEPT !.phase = "entries",
                       !.choice = Of(Clients, discard[r].choice)]]
    /\ UNCHANGED <<tables, toggling, used>>

ReadSelections(r) ==
    /\ discard[r].phase = "entries"
    /\ discard' = [discard EXCEPT ![r] = [@ EXCEPT !.phase = "selections",
                       !.choice = Of({Ads}, discard[r].choice)]]
    /\ UNCHANGED <<tables, toggling, used>>

\* The commutes and the executions they cite; then TRUNCATE asks for its locks.
ReadCommutes(r) ==
    /\ discard[r].phase = "selections"
    /\ discard' = [discard EXCEPT ![r] = [@ EXCEPT !.phase = "waiting", !.commute = commute]]
    /\ UNCHANGED <<tables, toggling, used>>

\* TRUNCATE has its locks when every session that has read is over.
Alone(r) == toggling = {} /\ \A s \in Discards \ {r} : ~Reading(s)

\* The rows read fit together: no foreign key is violated by inserting them.
Restorable(s) ==
    /\ \A k \in Lists, c \in Companies : s.choice[k][c] # "NULL" => s.company[c] # "NULL"
    /\ \A m \in s.commute : s.company[m[1]] # "NULL" /\ m[2] \in s.destination

\* A slip: the executions are left to the job queue, which is truncated.
RestoreNoExecution(s) == {}

RestoreExecutions(s) == s.commute

\* A slip: the selections were not thought of.
RestoreEntriesOnly(s) == [s.choice EXCEPT ![Ads] = Undecided[Ads]]

RestoreChoices(s) == s.choice

\* What a table holds after TRUNCATE and the inserts that follow it.
After(table, now, restored) == IF table \in Truncated THEN restored ELSE now

Discard(r) ==
    LET s == discard[r]
        restored == RestoreChoices(s)
        choices(k) == After(IF k = Ads THEN "marketing_selection" ELSE "client_shortlist_entry",
                            choice[k], restored[k])
    IN
    /\ Waiting(r) /\ Alone(r) /\ Restorable(s)
    /\ company' = After("company_property", company, s.company)
    /\ inventory' = After("canonical_listing", inventory, {})
    /\ destination' = After("destination", destination, s.destination)
    /\ commute' = After("commute_result", commute, s.commute)
    /\ execution' = After("model_execution", execution, RestoreExecutions(s))
    /\ choice' = [k \in Lists |-> choices(k)]
    /\ discard' = [discard EXCEPT ![r] = Nothing("ended")]
    /\ UNCHANGED <<client, toggling, used>>

\* A foreign key is violated: nothing was discarded, and the process fails.
RestoreFails(r) ==
    /\ Waiting(r) /\ Alone(r) /\ ~Restorable(discard[r])
    /\ discard' = [discard EXCEPT ![r] = Nothing("ended")]
    /\ UNCHANGED <<tables, toggling, used>>

\* A slip: another discard is waited for, as a toggle is.
DeadlockByToggle(r) ==
    /\ Waiting(r) /\ toggling # {}
    /\ discard' = [discard EXCEPT ![r] = Nothing("ended")]
    /\ UNCHANGED <<tables, toggling, used>>

\* The database ends a deadlock with one of the sessions that are in its way:
\* a second discard that has read the same tables and wants the same locks, or
\* a toggle whose insert needs a table TRUNCATE has locked.
DeadlockVictim(r) ==
    /\ Waiting(r) /\ ~Alone(r)
    /\ discard' = [discard EXCEPT ![r] = Nothing("ended")]
    /\ UNCHANGED <<tables, toggling, used>>

DiscardStep(r) ==
    \/ ReadCompanies(r) \/ ReadEntries(r) \/ ReadSelections(r) \/ ReadCommutes(r)
    \/ Discard(r) \/ RestoreFails(r) \/ DeadlockVictim(r)

-----------------------------------------------------------------------------
Next ==
    \/ \E c \in Companies :
           \/ Upload(c) \/ Delete(c)
           \/ \E status \in {"PENDING", "CHECKED"} : Check(c, status)
           \/ \E d \in Destinations : Research(c, d)
    \/ \E l \in Listings : Acquire(l)
    \/ \E t \in Targets : BeginToggle(t)
    \/ \E q \in toggling : CommitToggle(q) \/ FailToggle(q)
    \/ \E p \in Clients :
           \/ CreateClient(p) \/ ArchiveClient(p)
           \/ \E t \in Targets, status \in {"IN", "REMOVED"} : SetEntry(p, t, status)
    \/ \E r \in Discards : DiscardStep(r)

Spec == Init /\ [][Next]_vars

\* A refresh that began and a request that arrived are carried on; nobody has
\* to do anything else.
Fairness ==
    /\ \A r \in Discards : WF_vars(discard[r].phase # "idle" /\ DiscardStep(r))
    /\ \A t \in Targets : WF_vars(\E q \in toggling : q[1] = t /\ (CommitToggle(q) \/ FailToggle(q)))
FairSpec == Spec /\ Fairness

-----------------------------------------------------------------------------
(* Properties                                                               *)

\* Every table and snapshot holds values of its type.
TypeOK ==
    /\ company \in Portfolio /\ inventory \subseteq Listings
    /\ destination \subseteq Destinations /\ commute \subseteq Commutes
    /\ execution \subseteq Commutes \cup Listings
    /\ choice \in Choices
    /\ client \in [Clients -> {"NULL", "active", "archived"}]
    /\ toggling \subseteq Targets \X {"NULL", "IN", "REMOVED"}
    /\ discard \in [Discards -> Snapshot]
    /\ used \subseteq Targets

\* Deletes, discards and what is restored out of several moments leave every
\* reference whole: a choice concerns a target that exists and a client on
\* record, a commute a property, a destination and an execution on record.
ReferencesHold ==
    /\ \A k \in Lists, t \in Targets :
           choice[k][t] # "NULL" => Exists(t) /\ (k # Ads => client[k] # "NULL")
    /\ \A m \in commute : Exists(m[1]) /\ m[2] \in destination /\ m \in execution

\* "Owner reference data must survive" a discard: the destinations, and of each
\* property nobody wrote about since the discard began its row, the choices
\* about it, its commutes and the executions they cite.
UntouchedSurvive ==
    [][\A r \in Discards : Waiting(r) /\ ~Waiting(r)' =>
           /\ destination' = destination
           /\ \A c \in Companies \ discard[r].touched :
                  /\ company'[c] = company[c]
                  /\ \A k \in Lists : choice'[k][c] = choice[k][c]
                  /\ \A d \in Destinations :
                         /\ <<c, d>> \in commute' <=> <<c, d>> \in commute
                         /\ <<c, d>> \in commute => <<c, d>> \in execution']_vars

\* A discard comes to an end beside other discards and beside requests that
\* hold the tables it wants.
DiscardsEnd == \A r \in Discards : Reading(r) ~> discard[r].phase = "ended"

=============================================================================
