--------------------------- MODULE Disappearance ---------------------------
(***************************************************************************)
(* How the absence of an advertisement takes its listing out of the        *)
(* inventory: canonical/disappearance.py on the observations that source   *)
(* runs capture and normalization (canonical/normalization.py) applies to  *)
(* source links, with admission of new listings.                           *)
(*                                                                         *)
(* One source.  A source run and its captures are one step; each capture   *)
(* is normalized by a job of its own, at any later time and in any order.  *)
(* No job calls process_source_run, so it may be applied to any finished   *)
(* run, late or twice.  disorderly remembers that it was applied to a run  *)
(* that is not the latest, or while captures still waited.                 *)
(***************************************************************************)
EXTENDS Naturals, Sequences, FiniteSets

CONSTANTS Links,             \* advertisements of the source
          Listings,          \* the canonical listings they belong to
          ListingOf,         \* by unit, see CanonicalIdentity
          Overridden,        \* listings with an active lifecycle override
          MinElapsed,        \* REMOVAL_MIN_ELAPSED
          BreakerAbsoluteMax,
          MaxRuns,           \* bound: source runs
          MaxTime            \* bound: the clock

ASSUME DisappearanceAssumption ==
    /\ ListingOf \in [Links -> Listings]
    /\ Overridden \subseteq Listings
    /\ MinElapsed \in Nat /\ BreakerAbsoluteMax \in Nat
    /\ MaxRuns \in Nat /\ MaxTime \in Nat

VARIABLES now,
          runs,          \* source_run: start, gate, and the links it captured
          pending,       \* captures whose NORMALIZE job has not run: <<run, link>>
          link,          \* listing_source_link: status and run of its latest observation
          life,          \* canonical_listing.lifecycle_status
          events,        \* listing_event idempotency keys
          processed,     \* history: the run processed last, 0 if none
          disorderly     \* history

disappearanceVars == <<now, runs, pending, link, life, events, processed, disorderly>>

NoLink == [status |-> "none", run |-> 0]
RemovalConsecutiveMisses == 2

Init ==
    /\ now = 0
    /\ runs = <<>>
    /\ pending = {}
    /\ link = [l \in Links |-> NoLink]
    /\ life = [x \in Listings |-> "none"]
    /\ events = {}
    /\ processed = 0
    /\ disorderly = FALSE

Tick ==
    /\ now < MaxTime
    /\ now' = now + 1
    /\ UNCHANGED <<runs, pending, link, life, events, processed, disorderly>>

\* A slip: the jobs are those of the run before.
JobsOfPreviousRun(seen) == {Len(runs)} \X seen

\* One NORMALIZE job for each capture of the next run.
Jobs(seen) == {Len(runs) + 1} \X seen

\* run_source: the captures of one run; each enqueues its NORMALIZE job.
RunSource(seen, passed) ==
    /\ now < MaxTime /\ Len(runs) < MaxRuns
    /\ now' = now + 1
    /\ runs' = Append(runs, [at |-> now', passed |-> passed, seen |-> seen])
    /\ pending' = pending \cup Jobs(seen)
    /\ UNCHANGED <<link, life, events, processed, disorderly>>

\* A slip: whatever is normalized last counts as the latest observation.
TouchedBlindly(l, r) == [link[l] EXCEPT !.run = r]

\* _touch_freshness: an older observation does not move the link back.
Touched(l, r) == IF r >= link[l].run THEN [link[l] EXCEPT !.run = r] ELSE link[l]

\* process_observation: a new link, with its listing unless a link of the same
\* unit brought it already, or an update that leaves both statuses alone.
Normalize(r, l) ==
    /\ <<r, l>> \in pending
    /\ pending' = pending \ {<<r, l>>}
    /\ IF link[l] = NoLink
         THEN /\ link' = [link EXCEPT ![l] = [status |-> "ACTIVE", run |-> r]]
              /\ life' = [life EXCEPT ![ListingOf[l]] = IF @ = "none" THEN "CANDIDATE" ELSE @]
         ELSE /\ link' = [link EXCEPT ![l] = Touched(l, r)]
              /\ UNCHANGED life
    /\ UNCHANGED <<now, runs, events, processed, disorderly>>

LinksOfListing(x) == {l \in Links : ListingOf[l] = x /\ link[l] # NoLink}

\* evaluate_candidates, for a listing in scope.
Admit(x) ==
    /\ life[x] = "CANDIDATE"
    /\ \E l \in LinksOfListing(x) : link[l].status = "ACTIVE"
    /\ life' = [life EXCEPT ![x] = "ACTIVE"]
    /\ UNCHANGED <<now, runs, pending, link, events, processed, disorderly>>

-----------------------------------------------------------------------------
(* process_source_run.                                                      *)

\* A slip: the run that saw the link last counts as a miss.
HealthyRunsFrom(l) ==
    Cardinality({r \in 1 .. Len(runs) : runs[r].passed /\ runs[r].at >= runs[link[l].run].at})

HealthyRunsSince(l) ==
    Cardinality({r \in 1 .. Len(runs) : runs[r].passed /\ runs[r].at > runs[link[l].run].at})

Considered(l) == link[l].status \in {"ACTIVE", "MISSING"}

\* Of the run, judged by the latest observation of the link.
Observed(l, r) == link[l].run = r

Removable(l) ==
    /\ HealthyRunsSince(l) >= RemovalConsecutiveMisses
    /\ now - runs[link[l].run].at >= MinElapsed

StatusAfter(l, r) ==
    IF ~Considered(l) THEN link[l].status
    ELSE IF Observed(l, r) THEN "ACTIVE"
    ELSE IF Removable(l) THEN "REMOVED" ELSE "MISSING"

\* _inactivate_unsupported, on the links as the run leaves them.
Eligible(r) ==
    {x \in Listings : /\ life[x] \in {"ACTIVE", "CANDIDATE"}
                      /\ \A l \in LinksOfListing(x) : StatusAfter(l, r) = "REMOVED"
                      /\ x \notin Overridden}

\* The breaker's cap: a quarter of the active inventory, but at least one.
Cap ==
    LET quarter == Cardinality({x \in Listings : life[x] = "ACTIVE"}) \div 4
        share == IF quarter < 1 THEN 1 ELSE quarter
    IN IF share < BreakerAbsoluteMax THEN share ELSE BreakerAbsoluteMax

\* A slip: as many as the cap allows are inactivated.
InactivatedUpToCap(r) ==
    IF Cardinality(Eligible(r)) <= Cap THEN Eligible(r)
    ELSE CHOOSE some \in SUBSET Eligible(r) : Cardinality(some) = Cap

\* The breaker lets all of them go, or none.
Inactivated(r) == IF Cardinality(Eligible(r)) <= Cap THEN Eligible(r) ELSE {}

WentMissing(r) == {l \in Links : link[l].status = "ACTIVE" /\ StatusAfter(l, r) = "MISSING"}

\* A slip: only inactivation is recorded.
EmittedForInactive(r) == {<<x, "INACTIVATED", 0>> : x \in Inactivated(r)}

\* The rows added: MISSING_STARTED is keyed by the run, INACTIVATED by the rule.
Emitted(r) ==
    {<<ListingOf[l], "MISSING_STARTED", r>> : l \in WentMissing(r)}
        \cup {<<x, "INACTIVATED", 0>> : x \in Inactivated(r)}

ProcessSourceRun(r) ==
    /\ runs[r].passed
    /\ link' = [l \in Links |-> [link[l] EXCEPT !.status = StatusAfter(l, r)]]
    /\ life' = [x \in Listings |-> IF x \in Inactivated(r) THEN "INACTIVE" ELSE life[x]]
    /\ events' = events \cup Emitted(r)
    /\ processed' = r
    /\ disorderly' = (disorderly \/ r # Len(runs) \/ pending # {})
    /\ UNCHANGED <<now, runs, pending>>

Next ==
    \/ Tick
    \/ \E seen \in SUBSET Links, passed \in BOOLEAN : RunSource(seen, passed)
    \/ \E r \in 1 .. Len(runs), l \in Links : Normalize(r, l)
    \/ \E x \in Listings : Admit(x)
    \/ \E r \in 1 .. Len(runs) : ProcessSourceRun(r)

Spec == Init /\ [][Next]_disappearanceVars

-----------------------------------------------------------------------------
(* What disappearance has to guarantee.                                     *)

TypeOK ==
    /\ now \in 0 .. MaxTime
    /\ runs \in Seq([at : 1 .. MaxTime, passed : BOOLEAN, seen : SUBSET Links])
    /\ pending \subseteq (1 .. Len(runs)) \X Links
    /\ link \in [Links -> [status : {"none", "ACTIVE", "MISSING", "REMOVED"},
                          run : 0 .. Len(runs)]]
    /\ \A l \in Links : IF link[l].status = "none" THEN link[l].run = 0
                        ELSE link[l].run # 0 /\ l \in runs[link[l].run].seen
    /\ life \in [Listings -> {"none", "CANDIDATE", "ACTIVE", "INACTIVE"}]
    /\ events \subseteq Listings \X {"MISSING_STARTED", "INACTIVATED"} \X (0 .. Len(runs))
    /\ processed \in 0 .. Len(runs)
    /\ disorderly \in BOOLEAN

\* The healthy runs since the one that captured the link last.
MissedBy(l) ==
    {r \in 1 .. Len(runs) : runs[r].passed /\ \A q \in r .. Len(runs) : l \notin runs[q].seen}

LastCapture(l) == CHOOSE r \in 1 .. Len(runs) :
    l \in runs[r].seen /\ \A q \in r + 1 .. Len(runs) : l \notin runs[q].seen

\* When a run captured the link last, and what the latest run captured.
FoundAt(l) ==
    IF \E r \in 1 .. Len(runs) : l \in runs[r].seen THEN runs[LastCapture(l)].at ELSE 0
Latest ==
    IF Len(runs) = 0 THEN [found |-> {}, healthy |-> FALSE]
    ELSE [found |-> runs[Len(runs)].seen, healthy |-> runs[Len(runs)].passed]

\* disappearance.py:5-17: the code counts runs by the time they started, from
\* the observation a link points to; while it is applied in turn that is as good
\* as a counter of misses kept for every link, late and reordered normalization
\* notwithstanding.
Promise == INSTANCE Presence
    WITH latest <- Latest,
         missed <- [l \in Links |-> Cardinality(MissedBy(l))],
         lastFound <- [l \in Links |-> FoundAt(l)],
         status <- [l \in Links |-> link[l].status],
         lax <- disorderly

ImplementsPresence == Promise!PresenceSpec

\* disappearance.py:8-9, a link is removed only when two healthy runs in a row
\* did not capture it and 36 hours have passed since one did, whatever was
\* normalized in which order in between.
RemovedAfterTwoMisses ==
    [][\A l \in Links :
          /\ link[l].status # "REMOVED" /\ link'[l].status = "REMOVED" /\ ~disorderly'
          => /\ Cardinality(MissedBy(l)) >= RemovalConsecutiveMisses
             /\ now - runs[LastCapture(l)].at >= MinElapsed]_disappearanceVars

\* disappearance.py:7, once the latest run is processed and its jobs are done,
\* a link that is not removed is ACTIVE exactly if that run captured it.
StatusTellsTheLatestRun ==
    ~disorderly /\ processed # 0 /\ processed = Len(runs) /\ pending = {} =>
        \A l \in Links : Considered(l) =>
            (link[l].status = "ACTIVE" <=> l \in runs[processed].seen)

\* disappearance.py:15-17, the breaker: one pass that would inactivate more than
\* the cap inactivates nothing, however its misses came together.
AllOrNothing ==
    [][LET gone == {x \in Listings : life[x] # "INACTIVE" /\ life'[x] = "INACTIVE"}
           left == {x \in Listings : /\ life'[x] \in {"ACTIVE", "CANDIDATE"}
                                     /\ x \notin Overridden
                                     /\ \A l \in LinksOfListing(x) : link'[l].status = "REMOVED"}
       IN gone # {} => left = {}]_disappearanceVars

\* disappearance.py:12, everything is evented: a listing went INACTIVE exactly
\* if its history says so, and so did every link that is missing.
HistoryTellsEverything ==
    /\ \A x \in Listings : life[x] = "INACTIVE" <=> <<x, "INACTIVATED", 0>> \in events
    /\ \A l \in Links : link[l].status = "MISSING" =>
          \E r \in 1 .. Len(runs) : <<ListingOf[l], "MISSING_STARTED", r>> \in events

\* disappearance.py:12-13, everything is reversible: an advertisement that the
\* latest processed run has captured is an active link again.
ReappearedLinksAreActive ==
    ~disorderly /\ processed # 0 /\ processed = Len(runs) /\ pending = {} =>
        \A l \in runs[processed].seen : link[l].status = "ACTIVE"
=============================================================================
