---------------------------- MODULE ListingFacts ----------------------------
(***************************************************************************)
(* What the program believes about an advertised listing, and why: the     *)
(* columns the pages show, the evidence-backed resolution of every fact    *)
(* (canonical/facts.py), the change events, the human overrides and the    *)
(* conflict issues.  Three writers work on the same listings:              *)
(*   - normalization applies one source observation per job, and a job may *)
(*     run late or run twice (the queue delivers at least once);           *)
(*   - detail enrichment jobs load the listing, read its page and ask a    *)
(*     model for seconds, then write; two copies may run at once;          *)
(*   - the amenity backfill selects its listings up front.                 *)
(* People place and withdraw overrides and close issues meanwhile.         *)
(***************************************************************************)
EXTENDS Naturals, FiniteSets, UnitOfWork

CONSTANTS
    Listings, Links,   \* canonical listings and their source links
    Observations,      \* persisted source observations
    Pages,             \* texts a listing page can have (their content hash)
    Jobs,              \* detail enrichment processes
    Values,            \* stated values: rents, laundry types, ...
    Unstated,          \* None or UNKNOWN: nothing is stated
    NoObservation, NoPage, NoOverride,
    ListingOf,         \* the listing each link belongs to
    LinkOf,            \* the link (source and native id) of an observation
    ObservedAt,        \* observed_at
    ContentHash,       \* content_hash
    ObservedFacts,     \* what each observation states, per fact key
    PageFacts,         \* what a model reads on each page, per fact key
    OverrideKeys,      \* fields people place overrides on
    OverrideValues     \* and the values they enter

\* The columns kept on the listing, named as the facts normalization records.
Columns == {"monthly_rent_minor", "availability_status", "laundry_type"}
ObservedKeys == Columns \cup {"layout_class"}
\* Detail enrichment names the rent fact differently.
PageKeys == {"monthly_rent", "laundry_type", "fee_status", "amenities"}
FactKeys == ObservedKeys \cup PageKeys

ASSUME ValuesAssumption == Unstated \notin Values /\ Values \cap Observations = {}
ASSUME MarkersAssumption ==
    NoObservation \notin Observations /\ NoPage \notin Pages
ASSUME InputsAssumption ==
    /\ ListingOf \in [Links -> Listings] /\ LinkOf \in [Observations -> Links]
    /\ ObservedAt \in [Observations -> Nat \ {0}]
    /\ ContentHash \in [Observations -> Nat]
    /\ ObservedFacts \in [Observations -> [ObservedKeys -> Values \cup {Unstated}]]
    /\ PageFacts \in [Pages -> [PageKeys -> Values \cup {Unstated}]]
    /\ OverrideKeys \subseteq FactKeys /\ OverrideValues \subseteq Values

Value == Values \cup {Unstated}
Override == [value : OverrideValues, review : BOOLEAN]
ASSUME OverrideAssumption == NoOverride \notin Override

\* Events, keyed by what caused them: an observation, or a new page price.
Event == [type : Columns \cup {"CREATED"}, cause : Observations \cup Values,
          before : Value, after : Value]

Phases == {"idle", "selecting", "reading", "ended"}
Outcomes == {"none", "done", "RATE_LIMITED"}
Job == [phase : Phases, todo : SUBSET Listings, force : BOOLEAN,
        at : Listings, page : Pages \cup {NoPage}, seen : [Columns -> Value],
        marker : Pages \cup {NoPage}, outcome : Outcomes]

VARIABLES
    column,     \* canonical_listing: the materialised columns
    lastSeen,   \* canonical_listing.last_seen_at, 0 before it exists
    latest,     \* listing_source_link.latest_observation_id
    processed,  \* observations normalized at least once (history)
    resolved,   \* value of the current fact_resolution, per fact key
    override,   \* the ACTIVE human_override, per field
    conflicts,  \* number of OPEN CONFLICT review issues, per fact key
    events,     \* listing_event
    extracted,  \* latest detail_extract_hash assertion
    job,        \* detail enrichment processes
    backfill    \* listings the amenity backfill has selected and not reached

factVars == <<column, lastSeen, resolved, override, conflicts, events, extracted>>
vars == <<column, lastSeen, latest, processed, resolved, override, conflicts,
          events, extracted, job, backfill>>

Silent == [c \in Columns |-> Unstated]
IdleJob(l) == [phase |-> "idle", todo |-> {}, force |-> FALSE, at |-> l,
               page |-> NoPage, seen |-> Silent, marker |-> NoPage,
               outcome |-> "none"]

Init ==
    /\ column = [l \in Listings |-> Silent]
    /\ lastSeen = [l \in Listings |-> 0]
    /\ latest = [k \in Links |-> NoObservation]
    /\ processed = {}
    /\ resolved = [l \in Listings |-> [f \in FactKeys |-> Unstated]]
    /\ override = [l \in Listings |-> [f \in FactKeys |-> NoOverride]]
    /\ conflicts = [l \in Listings |-> [f \in FactKeys |-> 0]]
    /\ events = [l \in Listings |-> {}]
    /\ extracted = [l \in Listings |-> NoPage]
    /\ job \in [Jobs -> {IdleJob(l) : l \in Listings}]
    /\ backfill = {}

Exists(l) == lastSeen[l] > 0
Overridden(l, f) == override[l][f] # NoOverride

-----------------------------------------------------------------------------
(* canonical/facts.py                                                       *)

\* A slip: a key that has a resolution keeps it.
RecordOnce(l, keys, value) ==
    resolved' = [resolved EXCEPT ![l] =
        [f \in FactKeys |-> IF f \in keys /\ resolved[l][f] = Unstated
                            THEN value[f] ELSE resolved[l][f]]]

\* FactRecorder.record for every key in `keys`: the assertion becomes the one
\* current resolution, unless an override holds the key.
Record(l, keys, value) ==
    resolved' = [resolved EXCEPT ![l] =
        [f \in FactKeys |-> IF f \in keys /\ ~Overridden(l, f)
                            THEN value[f] ELSE resolved[l][f]]]

\* raise_conflict_with_override for every key in `keys`: one open issue each.
RaiseConflicts(l, keys) ==
    conflicts' = [conflicts EXCEPT ![l] =
        [f \in FactKeys |-> IF /\ f \in keys
                               /\ override[l][f].review
                               /\ conflicts[l][f] = 0
                            THEN conflicts[l][f] + 1 ELSE conflicts[l][f]]]

-----------------------------------------------------------------------------
(* Normalization of one observation (canonical/normalization.py)            *)

Stated(facts) == {f \in DOMAIN facts : facts[f] # Unstated}

\* _emit_event: the key names the observation; a second insert does nothing.
EventOf(c, o, before, after) ==
    [type |-> c, cause |-> o, before |-> before, after |-> after]
SameKey(e1, e2) == e1.type = e2.type /\ e1.cause = e2.cause
Emit(l, new) ==
    events' = [events EXCEPT ![l] =
        @ \cup {e \in new : \A old \in events[l] : ~SameKey(e, old)}]

\* _create_canonical, no listing of this identity yet.
Create(o) ==
    LET k == LinkOf[o]  l == ListingOf[k] IN
    /\ latest[k] = NoObservation /\ ~Exists(l)
    /\ column' = [column EXCEPT ![l] = [c \in Columns |-> ObservedFacts[o][c]]]
    /\ lastSeen' = [lastSeen EXCEPT ![l] = ObservedAt[o]]
    /\ latest' = [latest EXCEPT ![k] = o]
    /\ processed' = processed \cup {o}
    /\ Record(l, Stated(ObservedFacts[o]), ObservedFacts[o])
    /\ Emit(l, {EventOf("CREATED", o, Unstated, Unstated)})
    /\ UNCHANGED <<override, conflicts, extracted, job, backfill>>

\* _attach_cross_source_link: another source of a known listing; its first
\* observation records no facts.
Attach(o) ==
    LET k == LinkOf[o]  l == ListingOf[k] IN
    /\ latest[k] = NoObservation /\ Exists(l)
    /\ latest' = [latest EXCEPT ![k] = o]
    /\ lastSeen' = [lastSeen EXCEPT ![l] = IF ObservedAt[o] > @ THEN ObservedAt[o] ELSE @]
    /\ processed' = processed \cup {o}
    /\ UNCHANGED <<column, resolved, override, conflicts, events, extracted, job, backfill>>

\* A slip: whatever is normalized last is the latest.
TouchBlindly(o) ==
    LET k == LinkOf[o]  l == ListingOf[k] IN
    /\ latest' = [latest EXCEPT ![k] = o]
    /\ lastSeen' = [lastSeen EXCEPT ![l] = IF ObservedAt[o] > @ THEN ObservedAt[o] ELSE @]

\* _touch_freshness: an older observation moves nothing.
TouchFreshness(o) ==
    LET k == LinkOf[o]  l == ListingOf[k] IN
    /\ latest' = [latest EXCEPT ![k] =
           IF ObservedAt[o] >= ObservedAt[latest[k]] THEN o ELSE @]
    /\ lastSeen' = [lastSeen EXCEPT ![l] = IF ObservedAt[o] > @ THEN ObservedAt[o] ELSE @]

\* _update_existing, identical content: freshness only.
Refresh(o) ==
    LET k == LinkOf[o] IN
    /\ latest[k] \notin {NoObservation, o}
    /\ ContentHash[latest[k]] = ContentHash[o]
    /\ TouchFreshness(o)
    /\ processed' = processed \cup {o}
    /\ UNCHANGED <<column, resolved, override, conflicts, events, extracted, job, backfill>>

Differing(l, facts) == {c \in Columns \cap Stated(facts) : facts[c] # column[l][c]}

Applied(l, facts) == {c \in Differing(l, facts) : ~Overridden(l, c)}

\* A slip: a value that was unknown before is no change.
ChangesOfStated(l, o) ==
    {EventOf(c, o, column[l][c], ObservedFacts[o][c]) :
         c \in {x \in Applied(l, ObservedFacts[o]) : column[l][x] # Unstated}}

Changes(l, o) ==
    {EventOf(c, o, column[l][c], ObservedFacts[o][c]) : c \in Applied(l, ObservedFacts[o])}

\* _update_existing, changed content: the columns that differ and that no
\* override blocks are assigned and evented; a blocked value that disagrees
\* with its override opens an issue.
Update(o) ==
    LET k == LinkOf[o]  l == ListingOf[k]  facts == ObservedFacts[o]
        applied == Applied(l, facts)
        disputed == {c \in Differing(l, facts) \ applied : facts[c] # override[l][c].value}
    IN
    /\ latest[k] \notin {NoObservation, o}
    /\ ContentHash[latest[k]] # ContentHash[o]
    /\ TouchFreshness(o)
    /\ processed' = processed \cup {o}
    /\ Record(l, Stated(facts), facts)
    /\ RaiseConflicts(l, disputed)
    /\ column' = [column EXCEPT ![l] =
           [c \in Columns |-> IF c \in applied THEN facts[c] ELSE column[l][c]]]
    /\ Emit(l, Changes(l, o))
    /\ UNCHANGED <<override, extracted, job, backfill>>

Normalize(o) == Create(o) \/ Attach(o) \/ Refresh(o) \/ Update(o)

-----------------------------------------------------------------------------
(* Detail enrichment (jobs/detail_enrichment.py, listing_content/service.py) *)

\* run_detail_enrichment: the listings are selected up front.
StartJob(j, force) ==
    /\ job[j].phase = "idle"
    /\ job' = [job EXCEPT ![j] = [@ EXCEPT !.phase = "selecting", !.force = force,
                                  !.todo = {l \in Listings : Exists(l)}]]
    /\ UNCHANGED <<factVars, latest, processed, backfill>>

\* enrich, up to the model's answer: the listing row is loaded first, then the
\* page is read.  An unchanged page is skipped unless the run is forced.
Read(j, l, p) ==
    /\ job[j].phase = "selecting" /\ l \in job[j].todo
    /\ job' = [job EXCEPT ![j] =
           IF ~job[j].force /\ extracted[l] = p
           THEN [@ EXCEPT !.todo = job[j].todo \ {l}]        \* SKIPPED_UNCHANGED
           ELSE [@ EXCEPT !.phase = "reading", !.todo = job[j].todo \ {l}, !.at = l,
                          !.page = p, !.seen = column[l], !.marker = extracted[l]]]
    /\ UNCHANGED <<factVars, latest, processed, backfill>>

\* The session of one listing is closed and the job goes on to the next.
CloseSession(j) ==
    job' = [job EXCEPT ![j] = [@ EXCEPT !.phase = "selecting", !.page = NoPage,
                                        !.seen = Silent, !.marker = NoPage]]

\* NO_LINK, EXTRACT_FAILED and LLM_FAILED: the next listing.
GiveUp(j) ==
    /\ job[j].phase = "reading"
    /\ CloseSession(j)
    /\ UNCHANGED <<factVars, latest, processed, backfill>>

\* TavilyQuotaError: rolled back, and the batch is over.
QuotaRefused(j, l) ==
    /\ job[j].phase = "selecting" /\ l \in job[j].todo
    /\ job' = [job EXCEPT ![j] = [@ EXCEPT !.phase = "ended", !.outcome = "RATE_LIMITED"]]
    /\ UNCHANGED <<factVars, latest, processed, backfill>>

\* _apply and the idempotency marker, committed together.  The rent is looked
\* up for overrides, and recorded, as "monthly_rent"; it is compared with the
\* row LOADED before the page was read.
RentDiffers(j) ==
    /\ PageFacts[job[j].page]["monthly_rent"] # Unstated
    /\ PageFacts[job[j].page]["monthly_rent"] # job[j].seen["monthly_rent_minor"]
RentApplied(j) == RentDiffers(j) /\ ~Overridden(job[j].at, "monthly_rent")

\* A slip: the stated laundry is written whoever overrode it.
LaundryStated(j) == PageFacts[job[j].page]["laundry_type"] # Unstated

LaundryApplied(j) ==
    /\ PageFacts[job[j].page]["laundry_type"] # Unstated
    /\ ~Overridden(job[j].at, "laundry_type")

RecordedKeys(j) ==
    {f \in Stated(PageFacts[job[j].page]) : f = "monthly_rent" => RentDiffers(j)}

\* The columns the session wants, of which only the changed ones are written.
WantedColumns(j) ==
    LET facts == PageFacts[job[j].page] IN
    [c \in Columns |->
        CASE c = "monthly_rent_minor" /\ RentApplied(j) -> facts["monthly_rent"]
          [] c = "laundry_type" /\ LaundryApplied(j)    -> facts["laundry_type"]
          [] OTHER                                      -> job[j].seen[c]]

\* The price event is keyed by the new price only.
PageEvent(j) ==
    EventOf("monthly_rent_minor", PageFacts[job[j].page]["monthly_rent"],
            job[j].seen["monthly_rent_minor"], PageFacts[job[j].page]["monthly_rent"])
Collides(j) ==
    RentApplied(j) /\ \E e \in events[job[j].at] : SameKey(e, PageEvent(j))

Apply(j) ==
    LET l == job[j].at  facts == PageFacts[job[j].page] IN
    /\ job[j].phase = "reading" /\ ~Collides(j)
    /\ Record(l, RecordedKeys(j), facts)
    /\ RaiseConflicts(l, {f \in RecordedKeys(j) \cap {"monthly_rent", "laundry_type"} :
                              Overridden(l, f)})
    /\ column' = [column EXCEPT ![l] = Flush(@, job[j].seen, WantedColumns(j))]
    /\ events' = [events EXCEPT ![l] = @ \cup (IF RentApplied(j) THEN {PageEvent(j)} ELSE {})]
    \* assertions are ordered by the start of their transaction: one that
    \* another job committed meanwhile may count as the later of the two
    /\ \E page \in {job[j].page} \cup
                   (IF extracted[l] = job[j].marker THEN {} ELSE {extracted[l]}) :
           extracted' = [extracted EXCEPT ![l] = page]
    /\ CloseSession(j)
    /\ UNCHANGED <<lastSeen, latest, processed, override, backfill>>

\* The second event of one price violates the unique key: all is rolled back.
ApplyFails(j) ==
    /\ job[j].phase = "reading" /\ Collides(j)
    /\ CloseSession(j)
    /\ UNCHANGED <<factVars, latest, processed, backfill>>

EndJob(j) ==
    /\ job[j].phase = "selecting" /\ job[j].todo = {}
    /\ job' = [job EXCEPT ![j] = [@ EXCEPT !.phase = "ended", !.outcome = "done"]]
    /\ UNCHANGED <<factVars, latest, processed, backfill>>

\* A later launch of the job.
Relaunch(j) ==
    /\ job[j].phase = "ended"
    /\ job' = [job EXCEPT ![j] = IdleJob(job[j].at)]
    /\ UNCHANGED <<factVars, latest, processed, backfill>>

JobStep(j) ==
    \/ \E l \in Listings : QuotaRefused(j, l) \/ \E p \in Pages : Read(j, l, p)
    \/ GiveUp(j) \/ Apply(j) \/ ApplyFails(j) \/ EndJob(j)

-----------------------------------------------------------------------------
(* Amenity backfill (jobs/amenity_backfill.py): listings without a current  *)
(* amenities resolution, selected once.                                     *)

SelectBackfill ==
    /\ backfill = {}
    /\ backfill' = {l \in Listings : Exists(l) /\ resolved[l]["amenities"] = Unstated}
    /\ UNCHANGED <<factVars, latest, processed, job>>

\* record_listing_fact, or no sources, no data, an error.
Backfill(l, v) ==
    /\ l \in backfill
    /\ backfill' = backfill \ {l}
    /\ Record(l, {"amenities"} \ {f \in FactKeys : v = Unstated}, [f \in FactKeys |-> v])
    /\ UNCHANGED <<column, lastSeen, latest, processed, override, conflicts,
                   events, extracted, job>>

-----------------------------------------------------------------------------
(* People                                                                   *)

\* human_override rows are entered outside the program (one ACTIVE per field).
PlaceOverride(l, f, o) ==
    /\ Exists(l) /\ f \in OverrideKeys /\ ~Overridden(l, f)
    /\ override' = [override EXCEPT ![l][f] = o]
    /\ UNCHANGED <<column, lastSeen, latest, processed, resolved, conflicts,
                   events, extracted, job, backfill>>

WithdrawOverride(l, f) ==
    /\ Overridden(l, f)
    /\ override' = [override EXCEPT ![l][f] = NoOverride]
    /\ UNCHANGED <<column, lastSeen, latest, processed, resolved, conflicts,
                   events, extracted, job, backfill>>

\* A slip: an issue is closed a second time.
ResolveAgain(l, f) ==
    /\ conflicts' = [conflicts EXCEPT ![l][f] = @ - 1]
    /\ UNCHANGED <<column, lastSeen, latest, processed, resolved, override,
                   events, extracted, job, backfill>>

\* resolve_issue in the web interface closes an open issue.
ResolveIssue(l, f) ==
    /\ conflicts[l][f] > 0
    /\ conflicts' = [conflicts EXCEPT ![l][f] = @ - 1]
    /\ UNCHANGED <<column, lastSeen, latest, processed, resolved, override,
                   events, extracted, job, backfill>>

-----------------------------------------------------------------------------
Next ==
    \/ \E o \in Observations : Normalize(o)
    \/ \E j \in Jobs : JobStep(j) \/ Relaunch(j) \/ \E force \in BOOLEAN : StartJob(j, force)
    \/ SelectBackfill
    \/ \E l \in Listings, v \in Value : Backfill(l, v)
    \/ \E l \in Listings, f \in FactKeys :
           WithdrawOverride(l, f) \/ ResolveIssue(l, f) \/ \E o \in Override : PlaceOverride(l, f, o)

Spec == Init /\ [][Next]_vars

-----------------------------------------------------------------------------
(* Properties                                                               *)

\* Every table holds rows of its type.
TypeOK ==
    /\ column \in [Listings -> [Columns -> Value]]
    /\ lastSeen \in [Listings -> Nat]
    /\ latest \in [Links -> Observations \cup {NoObservation}]
    /\ processed \subseteq Observations
    /\ resolved \in [Listings -> [FactKeys -> Value]]
    /\ override \in [Listings -> [FactKeys -> Override \cup {NoOverride}]]
    /\ conflicts \in [Listings -> [FactKeys -> Nat]]
    /\ events \in [Listings -> SUBSET Event]
    /\ extracted \in [Listings -> Pages \cup {NoPage}]
    /\ job \in [Jobs -> Job]
    /\ backfill \subseteq Listings

\* "The resolution chain is the audit source": what a listing shows as its
\* availability is its current resolution, and the rent it shows is the current
\* resolution of one of the two keys the writers file rents under, whatever
\* the order of late observations, pages, overrides and withdrawals.
ShownFactsAreResolved ==
    \A l \in Listings : Exists(l) =>
        /\ column[l]["availability_status"] = resolved[l]["availability_status"]
        /\ column[l]["monthly_rent_minor"] \in
               {resolved[l]["monthly_rent_minor"], resolved[l]["monthly_rent"]}

\* A shown rent or availability can be traced: it is what the observation that
\* created the listing said, or some change event ended in it.
ShownFactsAreEvented ==
    \A l \in Listings, c \in {"monthly_rent_minor", "availability_status"} :
        Exists(l) => \E e \in events[l] :
            \/ e.type = "CREATED" /\ ObservedFacts[e.cause][c] = column[l][c]
            \/ e.type = c /\ e.after = column[l][c]

\* Freshness never moves back: the latest observation of a link is the newest
\* of those normalized, however late an older one arrives.
LatestIsNewest ==
    \A o \in processed :
        /\ ObservedAt[o] <= ObservedAt[latest[LinkOf[o]]]
        /\ ObservedAt[o] <= lastSeen[ListingOf[LinkOf[o]]]

\* "Open ONE review issue (deduped while open)": at most one open conflict per
\* listing and fact, over two writers and any order of resolutions.
OneOpenConflict ==
    \A l \in Listings, f \in FactKeys : conflicts[l][f] <= 1

\* While an override stands, no writer moves the field it was placed on nor
\* its resolution (laundry and availability; the rent has two names).
OverriddenFieldsStand ==
    [][\A l \in Listings, f \in {"laundry_type", "availability_status"} :
           Overridden(l, f) /\ override'[l][f] = override[l][f] =>
               /\ column'[l][f] = column[l][f]
               /\ resolved'[l][f] = resolved[l][f]]_vars

=============================================================================
