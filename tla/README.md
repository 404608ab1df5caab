# TLA+ models of the NYC rental listing agent

The program keeps an inventory of rental listings. Separate operating-system
processes share one PostgreSQL database and no other state: a scheduled or
manual inventory refresh, a company-portfolio refresh, a detail-enrichment and
an amenity job, and a web application that launches these jobs and records what
its user decides. What makes them hard to get right is not any one function but
the order in which their transactions meet: work is resumed after a crash, two
processes run the same job, a worker reports late, a human decision and an
automatic one touch the same row.

## 1. Inventory

| Part (`src/src/rental_agent/`) | State it keeps | Operations | Interacts with | What must be right |
| --- | --- | --- | --- | --- |
| Leased job queue, `jobs/queue.py` | `ops.job`, `ops.job_attempt` | enqueue, claim, heartbeat, complete, recover_expired_leases | enqueued by acquisition, drained by `drain_normalize_jobs` | one owner per lease, retries bounded, settled is settled, one live row per identity |
| Acquisition runner, `acquisition/runner.py` | `ops.source_run`, `ops.adapter_checkpoint`, `raw.source_observation` | run_source, _run_partition, _finalize | adapters (network), queue | HEALTHY means complete, nothing falls between partitions, a rerun is idempotent |
| Normalization, `canonical/normalization.py` | canonical listings, source links, events, duplicate candidates | process_observation | queue worker, facts, merges | identity is stable, replays change nothing, events once |
| Merges, `canonical/merge_service.py` | `canonical_merge`, links, candidates | merge, reverse, resolve candidate | web UI against normalization | a merged listing stays empty, a merge can be reversed, verdicts are durable |
| Disappearance, `canonical/disappearance.py` | link status, lifecycle | process_source_run, _inactivate_unsupported | source runs and their gate | absence only from healthy runs, misses consecutive, caps hold |
| Admission, `canonical/admission.py` | lifecycle, exclusion reasons | evaluate_candidates | after geocoding and boundaries | admitted only with evidence |
| Facts and overrides, `canonical/facts.py` | assertions, resolutions, overrides | record, active_override | normalization, enrichment, UI | a human override outranks every source |
| Selection, `canonical/selection_service.py` | selections, shortlists, entries | set_selection, presets, entries, restore | web UI | only humans select; audits complete |
| Detail enrichment, `enrichment/listing_content/`, `jobs/detail_enrichment.py` | listing fields, facts, events | enrich, _apply | page fetches, LLM quota | event keys unique, overrides kept, abort on quota |
| Commute research, `enrichment/commute/`, `enrichment/llm/` | `commute_result`, `model_execution` | research, get_fresh_result, tiering | web UI, company job | cached inside the window, researched again after it |
| Company refresh, `enrichment/company/`, `jobs/company_refresh.py` | company properties, check log, status file | check, commutes, upload, delete | web UI, weekday discard | a limited batch resumes, deletes hold |
| Weekday refresh, `jobs/weekday_refresh.py` | refresh run; truncates the inventory | discard_inventory, stage sequence | everything above | the restore loses nothing nobody touched; a refresh never waits for ever |
| Location and transit, `enrichment/location/`, `enrichment/transit/` | addresses, boundaries, nearby stops | geocode, validate scope, enrich stops | stages of the weekday job, before admission | conclusions follow the location on record; nothing is placed or admitted at a guess |
| Media, `enrichment/media/` | assets, duplicate groups | ingest_reference | tests only | - |
| Schema, `migrations/` | foreign keys | - | the TRUNCATE cascade of the weekday job | owner tables outside the cascade, or restored |

The hazards of this code, each at its line, are the `hazards` list of
`PROJECT.json`; a hazard no property covers says why.

## 2. Modules

* `JobLifecycle` is the abstract promise of the queue: a job is absent,
  waiting, running or settled with an outcome that stays, it moves only along
  submit, start, yield and settle, and each run is counted.
* `JobQueue` is `jobs/queue.py` with its workers. `job` and `attempt` are the
  two tables, `held` is what each worker process remembers between its claim
  and its report, `issued` numbers the lease tokens (a `uuid4` is a token never
  issued before). Every method is one action, because every method runs in one
  short transaction on rows it locks. Time is the two comparisons the code
  makes: `LeaseExpires` and `BecomesDue` let a lease or a retry delay run out
  at any moment. A worker may crash between claim and report. An aborted claim
  that makes a concurrent claim skip a locked row is not modelled.
* `JobQueueProofs` holds its theorems, `MCJobQueue` the instance for TLC.
* `Acquisition` is one source run: `sourceRun`, `completed` (the checkpoint
  rows) and `captures` (observations per listing, each with its job) are the
  database, `runner` is the memory of each call of `run_source`. Its actions
  are the transactions of an invocation and the network calls between them.
  Any number of processes may join the run, one after another or at once, which
  is what the logical run key is for. `truncated` is a history variable: the
  partitions whose checkpoint came from a degraded page.
* `SourceScan` is what `Acquisition` promises of all invocations together: one
  scan of the plan, without retries or memory, in which listings are found,
  scopes are done once, whole or in part, a scope done whole has left no listing
  to a later one, and HEALTHY is said of the whole plan only.
* `AcquisitionProofs` holds its theorems, `MCAcquisition` the instance for TLC.
* `CanonicalIdentity` decides which listing an advertisement belongs to. It
  composes the three writers of links and `lifecycle_status`: normalization
  (`process_observation` and what it calls), human merges
  (`resolve_duplicate_candidate`, `merge_listings`, `reverse_merge`) and
  admission. `listing`, `link`, `unitRows`, `verdict` and `merges` are tables;
  `work` is what a worker has read and not yet written. Normalization and
  admission read without locking under READ COMMITTED, so each is a read step
  and a write step, and a commit in between makes the write stale; `raced`
  remembers that this happened. A human action is a single step: it is the
  other side of each race. `origin` and `tangled` are history.
* `CanonicalIdentityProofs` holds its theorems, `MCCanonicalIdentity` the
  instance for TLC.
* `Disappearance` takes a listing out of the inventory when its ads are no
  longer found. It composes the runner (a run and its captures are one step),
  the normalization jobs (`pending`, worked off late and in any order),
  admission and `process_source_run`, for one source. `runs`, `link`, `life`
  and `events` are tables. Nothing in the repository calls
  `process_source_run` but its tests, so the model lets it be applied to any
  run at any time; `disorderly` remembers that it was applied to a run that is
  not the latest or whose captures still waited, and the properties about
  absence are claimed where it was not. A run may miss the health gate, as
  every search-index run does. Time is a counter; a run and what it observes
  have the same time, because the code compares with `started_at > last_seen_at`
  and a run starts before it observes.
* `Presence` is what `Disappearance` promises, told with a counter the code does
  not have: the healthy scans in a row that missed an advertisement. The code
  counts runs by their start time from the observation a link points to
  instead; that the two agree while runs are processed in turn is the
  refinement `ImplementsPresence`. After a pass out of turn (`lax`) `Presence`
  promises nothing.
* `DisappearanceProofs` holds its theorems, `MCDisappearance` the instance for
  TLC.
* `UnitOfWork` is what a long session writes back: the ORM updates only the
  columns whose assigned value differs from the value loaded, so a column
  another transaction changed meanwhile is kept or overwritten by that rule.
  The long jobs of this program all work like this: load, ask a provider for
  seconds, assign, commit.
* `ListingFacts` is what a listing shows and why: its columns, the current
  resolution of each fact (`canonical/facts.py`), change events, human
  overrides and conflict issues, with the three writers that meet on them.
  Normalization applies any observation at any time and again (the queue
  delivers at least once, and a worker that lost its lease still commits);
  detail enrichment loads a listing, reads a page and writes later, in any
  number of processes; the amenity backfill selects its listings up front.
  The two writers file rents under different fact keys, and the model keeps
  both names. Overrides come from outside the program.
* `CompanyPortfolio` is the company's own property list: upload and deletion in
  the web interface, the refresh job in its four modes, on-demand and batch
  commute research with the unique identity of a model execution, and the
  amenity backfill of company rows, each with the row it loaded.
* `Schema` is the foreign keys of all migrations, in their order, and the set of
  tables a `TRUNCATE ... CASCADE` of the discarded ones reaches (`Truncated`).
* `Workspace` is what people decide and how it outlives a full re-acquisition:
  selections with their toggles, shortlist entries, clients, and
  `discard_inventory`, which reads the owner's tables one after the other,
  waits for the locks of its TRUNCATE and inserts again. What TRUNCATE empties
  comes from `Schema`. A foreign key violated by the inserts rolls the discard
  back; a deadlock ends one of the sessions in it. `touched` is history: the
  properties anything was written about since the discard began.
* `Geography` is the road from an address to an advertised listing: the stages
  of `run_weekday_refresh` as sessions that read, ask and commit, in any number
  of scheduled and manual refreshes, with boundaries loaded by an operator at
  any time and processes that die in any stage. It is also what
  `CanonicalIdentity` and `Disappearance` leave open about admission.
  `overlapped` is history: two sessions of one stage were open at once since
  the inventory was discarded last.
* `ListingFactsProofs`, `CompanyPortfolioProofs`, `WorkspaceProofs` and
  `GeographyProofs` hold their theorems; each has an `MC` module for TLC.

How the modules meet. Each one leaves open what another decides:
`Acquisition` enqueues what the workers of `JobQueue` run; what such a job does
is `CanonicalIdentity` (which listing), `ListingFacts` (what it shows) and
`Disappearance` (how fresh it is). `Geography` runs admission after the stages
it depends on, `Workspace` discards what all of them have written. The modules
share names for shared tables (`lifecycle`, `link`, `commute`), and every
writer of a variable in the code is an action of the module that holds it.

Each module also contains a few definitions marked as slips: plausible bugs of
the definition that follows them. Every property of a passing run is broken by
the slip paired with it in `PROJECT.json`.

## 3. What the runs show

| Run | Instance | Shows |
| --- | --- | --- |
| `job_queue` | 2 rows, 2 identities, 2 priorities, 2 attempts, 2 workers (69,005 states) | leases, ownership, identity index and ledger stay consistent; the queue implements `JobLifecycle`; a job that is not settled is claimable, worked on or abandoned; a waiting job settles unless its last claim is abandoned |
| `job_queue_recovery` | 1 row, 1 worker | *violation*: a sweep after the last attempt leaves a job claimable in status that no claim can select |
| `acquisition` | 2 partitions sharing a listing, 2 processes, 2 invocations (94,175 states) | HEALTHY is complete, a clean scope is captured, one capture per invocation, the run implements `SourceScan`, every invocation ends |
| `acquisition_rejoin` | 1 process, 2 invocations | *violation*: a degraded partition is clean again after a rerun |
| `canonical_identity` | 3 ads (2 of one source), 1 unit, 3 listings, 2 merges, 2 workers and a human (728,826 states) | unraced: a merged listing stays empty, a unit is one listing, two ads of a source stay apart, an ad is where the standing merges end; always: an ad is somewhere on the way of the standing merges, verdicts are durable and only humans move links |
| `canonical_identity_race` | the same | *violation*: a merge that commits inside the window of a job or of admission is undone |
| `disappearance` | 2 ads of one unit and 1 of another, 3 runs, grace of 3 of 4 time units (921,784 states) | removal only after two healthy misses in a row and the grace period, the breaker is all or nothing, the history is complete; processing in turn implements `Presence` |
| `disappearance_reappear` | 1 ad, 4 runs | *violation*: an ad that was removed and comes back stays REMOVED, its listing INACTIVE |
| `listing_facts` | 1 listing of 2 sources, 4 observations, 2 page texts, 1 enrichment process relaunched at will, 1 override key (1,031,807 states) | what is shown is resolved and evented, freshness is the newest, overridden fields stand |
| `company_portfolio` | 1 property, 1 place, 1 destination, 2 refresh processes, the backfill (112,905 states) | references stay whole, only forced checks discard a snapshot, a launched job ends |
| `workspace` | 1 property, listing, client and destination, 2 discards, 1 toggle at once (310,581 states) | what nobody touched survives a discard, references stay whole, a discard comes to an end |
| `geography` | 1 address with 2 listings, 1 placeholder with 1, a scheduled and a manual refresh, a point inside and one outside (369,612 states) | admission needs evidence; without overlapping sessions, conclusions follow the location on record |

Three stronger statements were tried and are false of the code, so that the
properties say less. A replay of the observation before the last moves the
columns back, whatever the freshness says; a rent override holds against one of
the two writers only, because each looks it up under its own fact key; and a
laundry type can be shown that is not the resolved one, when a column is
assigned the value it had when loaded. Under overlapping geocoding sessions a
point can move under a verdict that nothing judges again, which is why
`VerdictsFollowPoint` is qualified by `overlapped`. A comment of
`jobs/weekday_refresh.py` (lines 42-43) counts the model-execution audit among
what a discard preserves; the code preserves the executions that commutes of
company properties cite, and the property says that.

The identity run also shows why reversal is qualified: a merge that is reversed
under a newer one (A into B, B into C, then the first is reversed) takes its
links back at once, and the reversal of the newer one moves them to B again, so
that with no merge standing the advertisement is not where it started.
`LinksFollowMerges` holds exactly where no merge is reversed in this order
(`tangled`). No page of the UI calls `reverse_merge` today.

Bounds. `Capacity`, `MaxAttempts`, `MaxInvocations`, `MaxListings` and
`MaxMerges` are named constants. Two
rows suffice for the queue because a lease concerns one row, and two rows let
an identity be enqueued again beside its dead row and let claims choose by
priority; two attempts distinguish the first, a middle and the last one. Two
partitions with one shared listing are the smallest plan in which a listing can
be skipped; two invocations include both a rerun after a crash and two
processes at once. Three listings and two merges are the smallest chain of
merges; `Admissions` is a single outcome because nothing in the module tells
ACTIVE from EXCLUDED; after the first race the instance lets no worker start
again (`MCOneRace`), which leaves every race of two open windows and any human
action after it. Workers, and the two ads of one source, are interchangeable
(`MCSymmetry`; only invariants and action properties are checked there). Three
runs are one that captures an ad and two that miss it, in every order of gated
and ungated; four time units let the grace period of three end or not before
the second miss. Two listings let a pass propose more than the cap, which is
one for fewer than eight active listings; the absolute cap of 50 is never the
smaller one. `MCShortQueue` lets at most three captures wait, and none once
processing was disorderly, when the properties about absence claim nothing any
more. No listing is `Overridden` in the instance: with one of two overridden
the breaker could not trip. Four observations are the first of a link, a later
one that differs, one that repeats it, and one of another source; two page
texts let a page change and change back. One property suffices where rows do
not meet (`CompanyPortfolio`, `Workspace`); two processes or two discards are
the smallest number that meets, and each process is launched once. `Offers`
names the choices people make: one kind of target per kind of list, one lost
and one restored by a discard. `MaxToggles` is one toggle under way. `Limit` is
2 where at most 2 rows wait for any stage but transit and admission, which
cannot take all three listings at once. The proofs remove these bounds for
safety.

Deadlock checking is off where the bounds let the system come to rest.

Fairness. The queue assumes that a worker keeps claiming while jobs are due
(the drain loop of `runner.py` does) and reports what it claimed unless it
dies, and that a retry delay runs out. It assumes nothing of heartbeats, and
nothing of the sweep of expired leases, because no job calls it; `Abandoned`
names the cases this leaves open. Acquisition assumes that an invocation that
is not killed keeps running. The portfolio assumes that a launched process
keeps running; its steps include every way to fail. The workspace assumes that
a discard that began is carried on, since its waiting is ended by the database
(locks granted or deadlock detected), and that a request of the web interface
that read a choice commits or fails. Nobody has to upload, choose or launch
anything.

## 4. What is proved

All theorems hold for every value of the constants that satisfies the named
assumption of the module.

Queue. `IInv` adds to typing that a token is present exactly on RUNNING rows,
that the tokens held by different workers differ, that tokens are at most
`issued`, and that an absent row has no attempts. Ownership alone is not
inductive: without distinct tokens a new claim could revive an old one. From
`IInv` follow `SingleOwner`, `SettledForGood`, `IdentityLiveOnce` and
`QueueImplementsLifecycle`. `LedgerIsConsistent` needs a strengthening of its
own (`LedgerRow`): a RUNNING row has counted its attempt, and a row that is
FAILED_RETRYABLE with all attempts used has an attempt that never ended.
`StrandingNeedsLoss` follows from the latter: only a lost worker leaves such an
attempt, so no job is stranded by anything that is reported.

Acquisition. `IInv` says of each invocation that the partitions behind it are
done or failed, that done ones are checkpointed, and that every listing it has
seen is captured or belongs to an earlier partition, which is answerable for
it; and of each cleanly checkpointed partition that every listing of it is
captured or belongs to an earlier one. `HealthyIsComplete` follows directly;
`CleanScopeCaptured` follows by taking the first partition that covers a
listing, whose existence is a well-foundedness argument (`LeastElement`).
`CountInv` bounds the captures of a listing by the invocations that have it in
their seen set; `CapturedOncePerInvocation` is that bound. The refinement
`SourceRunImplementsScan` rests on the same `IInv`: a checkpoint of a whole page
is written only where `IInv` says that every listing of it is found or belongs
to an earlier scope, and a run is finalized HEALTHY only when every partition
has its checkpoint (`VerdictIsEarned`). Crashes, replays and the loser of the
race on a checkpoint are stutters.

Identity. `IInv` says that while nothing has raced, what each worker has read
is still so: the listing it will attach to is not merged and, without a unit,
has no ad of the same source; the unit it will create a listing for has none;
the candidate it will admit is one. This is what a serializable isolation level
would guarantee, and it is needed because the tables alone are not inductive.
It also says that links, merges and candidate pairs refer to existing listings.
`SupersededForGood`, `UnitIdentity` and `SourcesApart` follow from it;
`DurableVerdicts` and `LinksMovedByHumans` hold step by step, races included.
`LinksFollowTheMerges` needs `ChainInv`: the standing merges that moved an ad
form, in their order, the way from its first listing to its present one. That
holds whatever races, as long as no merge was reversed under a newer one; that
the way ends there (`Survivor`) needs a superseded listing to be empty, and so
`~raced`.

Disappearance. `IInv` says that runs start in order, that whatever a run
captured still waits for its job or has reached the link (`Fresh`), that what
waits was captured, and that nothing waits after an orderly pass. `Fresh` is
what makes removal safe: with no job waiting, a link points to the last run
that captured it, so the runs the code counts by time are exactly the ones that
missed it (`RemovalJustified`), and being observed by the latest run is the
same as being captured by it (`LatestRunTells`). `CountsAgree` states the
first. `HistoryIsComplete` and `BreakerHolds` hold for any set of overrides and
any cap. `DisappearanceImplementsPresence` maps every step: a run is a scan,
which adds to the counter of every ad it misses (`ScanCounts`), the job of a
first observation takes an ad in, all other jobs are stutters, and a pass in
turn judges as the counters would (`JudgedAlike`, from `CountsAgree`).

Facts. `IInv` adds that nothing is on record about a listing before its first
observation (so that the first one writes column and resolution alike), that an
observed link shows an observation of its own, that an open session has a page
and a listing that exists, and that a change event keyed by an observation ends
in what that observation states. The last is what makes `ShownIsEvented`
inductive: an event that is dropped because its key is taken is one that says
the same. It needs values and observations to be different things
(`ValuesAssumption`), as their keys are in the code. `OverridesStand` is a step
property on top of it; its core is `Written`: a session assigns an overridden
column the value it loaded, which `UnitOfWork` does not write.

Portfolio. `IInv` adds that a session that checks or researches has loaded a
row. `FlushedRow` says what a flush leaves; `SnapshotsStand` follows step by
step, `ReferencesAlwaysHold` because estimates leave with their row and
executions never leave.

Workspace. `IInv` adds what the snapshots of a discard mean: they hold choices
about company properties only and of clients on record (`ReadChoices`), and
what they say of a property nobody touched is on record still (`ReadStands`).
From it follow `ReferencesAlwaysHold`, with the foreign keys that roll a
discard back where snapshots of several moments do not fit together, and
`OwnerDataSurvives`. They rest on which tables the cascade reaches
(`DiscardReaches`), which is proved from the foreign keys: `Schema` computes the
cascade with a recursive function, whose equation is proved by explicit paths,
and the number of tables bounds the steps it can grow. `CascadeIsExact` says that the
result contains the discarded tables, is closed under references and is the
least such set.

Geography. `IInv` adds that nothing a session read is taken back
(`ReadStands`), and that without overlap a session is alone in its stage and
what its stage will not write is as it was read (`AloneInStage`,
`ReadIsCurrent`). Without the last, neither a verdict nor the stops of a
listing could be related to the location at the time they are committed.

Only model-checked: liveness (`WaitingJobsSettle`, `InvocationsEnd`,
`LaunchedJobsEnd`, `DiscardsEnd`), which is out of the prover's reach. Every
invariant, action property and refinement of a passing run is a theorem. Three
properties are theorems only: `SettledIsFinal`, whose core (outcome and number
of runs) the refinement of `JobLifecycle` checks as well;
`StatusTellsTheLatestRun`, which the rules of `Presence` contain; and
`OneOpenConflict`, that two writers never open a second conflict on a fact.

## 5. Plan

In this order, the most consequential behaviour first; each module is written
to be proved about (constants with named assumptions, one action per operation,
no recursive operator).

1. `JobQueue` under `JobLifecycle`, `Acquisition`, `CanonicalIdentity`,
   `Disappearance`: done, with proofs.
2. `ListingFacts`, `CompanyPortfolio`, `Workspace` with `Schema`, `Geography`:
   done, with proofs.
3. The refinements of `SourceScan` and `Presence`, and the proofs that were
   missing: done.
4. Left: the composition of `CanonicalIdentity` with `Disappearance`, whose
   merges and cross-source links may give an INACTIVE listing an active ad; an
   abstract specification of a listing's life (candidate, advertised, gone,
   merged) that `CanonicalIdentity`, `Disappearance` and `Geography` each
   implement on their part; that `CanonicalIdentity`, while nothing races,
   implements an identity service whose operations are atomic.

## 6. Not modelled, and why

* Search adapters and extraction: parsing of text. Their outcome (whole page,
  truncated, failed, exception) is an input of `Acquisition`.
* Layout, address and amenity rules, the page and search prompts: classifications
  of one value, without state. Their outcomes are inputs (`ObservedFacts`,
  `PageFacts`, `Oversized`, the answers of a geocoder).
* The escalation between language models and the checks of their answers: one
  call with an outcome; the outcomes are alternatives of the actions.
* Audit rows, log lines, status files, review issues other than conflicts,
  rendering, queries, translation and exports: written, never read by a
  decision.
* The media pipeline and `WalkingEnrichmentService`: called by no job, page or
  command of the repository.
* PostgreSQL itself: a transaction is one step, or two where its reads and
  writes can be separated by another commit; unique indexes and foreign keys
  are part of the actions that meet them.
