------------------------- MODULE CanonicalIdentity -------------------------
(***************************************************************************)
(* Which canonical listing an advertisement belongs to: the identity half  *)
(* of canonical/normalization.py, the human merges of                      *)
(* canonical/merge_service.py, and canonical/admission.py, the other       *)
(* writer of lifecycle_status.                                             *)
(*                                                                         *)
(* A normalization job, and an admission pass, reads before it writes in   *)
(* one READ COMMITTED transaction without row locks, so both are two       *)
(* steps: what was decided on (work) may be stale when it is applied.      *)
(* A human action is one step.  raced remembers that some transaction      *)
(* committed inside the read-to-write window of another: what identity     *)
(* promises only while that never happens is stated under ~raced.          *)
(*                                                                         *)
(* One building and one layout: listings of different buildings or layouts *)
(* never meet in this code.  Timestamps are left out.                      *)
(***************************************************************************)
EXTENDS Naturals, Sequences, FiniteSets

CONSTANTS Ads,           \* (source, source_native_id) pairs
          SourceOf,      \* the source of each
          Units,         \* unit fingerprints of the building
          Rents,         \* monthly_rent_minor values
          Workers,       \* drain_normalize_jobs and admission processes
          Admissions,    \* lifecycles admission may decide on; nothing here tells them apart
          MaxListings,   \* bound: canonical listings
          MaxMerges      \* bound: merge records

NoUnit == "no unit"

ASSUME IdentityAssumption ==
    /\ NoUnit \notin Units
    /\ Rents \subseteq Nat \ {0}
    /\ Admissions \subseteq {"ACTIVE", "EXCLUDED"}
    /\ MaxListings \in Nat
    /\ MaxMerges \in Nat

VARIABLES listing,       \* canonical_listing, by id
          link,          \* listing_source_link: the listing of each ad, 0 if none
          unitRows,      \* how many unit rows each fingerprint has
          verdict,       \* duplicate_candidate.status, by pair of listings
          merges,        \* canonical_merge, in the order performed
          work,          \* what each worker has read and is about to write
          origin,        \* history: the listing each ad was first given to
          tangled,       \* history: an older merge was reversed under a newer one
          raced          \* history: a commit fell between the reads and writes of another

identityVars == <<listing, link, unitRows, verdict, merges, work, origin, tangled, raced>>

Ids == 1 .. MaxListings
NoRent == 0
NoWork == [kind |-> "none"]

Lives == {"CANDIDATE", "ACTIVE", "EXCLUDED", "MERGED", "REVIEW_REQUIRED"}
Absent == [life |-> "ABSENT", unit |-> NoUnit, rent |-> NoRent]
Pairs == {pair \in SUBSET Ids : \E k, l \in Ids : k # l /\ pair = {k, l}}

-----------------------------------------------------------------------------

Init ==
    /\ listing = [l \in Ids |-> Absent]
    /\ link = [a \in Ads |-> 0]
    /\ unitRows = [u \in Units |-> 0]
    /\ verdict = [pair \in Pairs |-> "none"]
    /\ merges = <<>>
    /\ work = [w \in Workers |-> NoWork]
    /\ origin = [a \in Ads |-> 0]
    /\ tangled = FALSE
    /\ raced = FALSE

Present(l) == listing[l].life # "ABSENT"
LinksOf(l) == {a \in Ads : link[a] = l}

\* A commit of the worker (or of a human: no worker) while others have read.
CommitsAmid(others) == raced' = (raced \/ \E v \in others : work[v] # NoWork)

\* A slip: merged listings are matched too.
HoldersOfUnitWithMerged(unit) == {l \in Ids : Present(l) /\ listing[l].unit = unit}

\* The listings an exact unit match may attach to; the code takes the one seen last.
HoldersOfUnit(unit) ==
    {l \in Ids : Present(l) /\ listing[l].unit = unit /\ listing[l].life # "MERGED"}

\* A slip: a listing the same source already advertises can match.
StrongMatchesAnySource(a, rent) ==
    {l \in Ids : /\ Present(l)
                 /\ listing[l].life # "MERGED"
                 /\ listing[l].unit = NoUnit
                 /\ rent # NoRent
                 /\ listing[l].rent = rent}

\* _strong_multi_field_match, before the test that there is exactly one.
StrongMatches(a, rent) ==
    {l \in Ids : /\ Present(l)
                 /\ listing[l].life # "MERGED"
                 /\ listing[l].unit = NoUnit
                 /\ rent # NoRent
                 /\ listing[l].rent = rent
                 /\ \A b \in LinksOf(l) : SourceOf[b] # SourceOf[a]}

Read(w, item) ==
    /\ work[w] = NoWork
    /\ work' = [work EXCEPT ![w] = item]
    /\ UNCHANGED <<listing, link, unitRows, verdict, merges, origin, tangled, raced>>

\* process_observation finds a link: the observation updates its listing.
ReadLinked(w, a, rent) ==
    /\ link[a] # 0
    /\ Read(w, [kind |-> "update", ad |-> a, rent |-> rent, at |-> link[a]])

\* _create_canonical, hierarchy step 2: exact building and unit.  Two unit rows
\* with one fingerprint raise, and the job fails without an effect.
ReadSameUnit(w, a, unit, l) ==
    /\ link[a] = 0
    /\ unitRows[unit] = 1
    /\ l \in HoldersOfUnit(unit)
    /\ Read(w, [kind |-> "attach", ad |-> a, at |-> l])

\* Hierarchy step 3: no unit, and exactly one strong match.
ReadStrongMatch(w, a, rent, l) ==
    /\ link[a] = 0
    /\ StrongMatches(a, rent) = {l}
    /\ Read(w, [kind |-> "attach", ad |-> a, at |-> l])

\* A slip: the unit is never looked up.
ReadNoMatchAnyUnit(w, a, unit, rent) ==
    /\ link[a] = 0
    /\ unit = NoUnit => Cardinality(StrongMatches(a, rent)) # 1
    /\ Read(w, [kind |-> "create", ad |-> a, unit |-> unit, rent |-> rent,
                newRow |-> unit # NoUnit /\ unitRows[unit] = 0])

\* A slip: every new listing brings a unit row of its own.
ReadNoMatchNewRow(w, a, unit, rent) ==
    /\ link[a] = 0
    /\ IF unit = NoUnit THEN Cardinality(StrongMatches(a, rent)) # 1
                        ELSE HoldersOfUnit(unit) = {}
    /\ Read(w, [kind |-> "create", ad |-> a, unit |-> unit, rent |-> rent,
                newRow |-> unit # NoUnit])

\* No match: a new listing, with the unit row found or a new one.
ReadNoMatch(w, a, unit, rent) ==
    /\ link[a] = 0
    /\ IF unit = NoUnit THEN Cardinality(StrongMatches(a, rent)) # 1
                        ELSE unitRows[unit] <= 1 /\ HoldersOfUnit(unit) = {}
    /\ Read(w, [kind |-> "create", ad |-> a, unit |-> unit, rent |-> rent,
                newRow |-> unit # NoUnit /\ unitRows[unit] = 0])

\* evaluate_candidates reads a candidate; layout and geography decide.
ReadCandidate(w, l, life) ==
    /\ listing[l].life = "CANDIDATE"
    /\ life = "ACTIVE" => LinksOf(l) # {}
    /\ Read(w, [kind |-> "admit", at |-> l, life |-> life])

Done(w) == work' = [work EXCEPT ![w] = NoWork]
Commit(w) == Done(w) /\ CommitsAmid(Workers \ {w})

\* _update_existing, as far as identity depends on it: the rent, unless the page
\* is unchanged, names none or an override stands against it (NoRent).
ApplyUpdate(w) ==
    /\ work[w].kind = "update"
    /\ listing' = IF work[w].rent = NoRent THEN listing
                  ELSE [listing EXCEPT ![work[w].at].rent = work[w].rent]
    /\ Commit(w)
    /\ UNCHANGED <<link, unitRows, verdict, merges, origin, tangled>>

\* A slip: the link is written over whoever wrote it meanwhile.
ApplyAttachUpserting(w) ==
    /\ work[w].kind = "attach"
    /\ link' = [link EXCEPT ![work[w].ad] = work[w].at]
    /\ origin' = [origin EXCEPT ![work[w].ad] = work[w].at]
    /\ Commit(w)
    /\ UNCHANGED <<listing, unitRows, verdict, merges, tangled>>

\* _attach_cross_source_link.
ApplyAttach(w) ==
    /\ work[w].kind = "attach"
    /\ link[work[w].ad] = 0
    /\ link' = [link EXCEPT ![work[w].ad] = work[w].at]
    /\ origin' = [origin EXCEPT ![work[w].ad] = work[w].at]
    /\ Commit(w)
    /\ UNCHANGED <<listing, unitRows, verdict, merges, tangled>>

\* Within RENT_SIMILARITY_TOLERANCE (2%) of the new listing's rent.
Similar(rent, other) ==
    /\ rent # NoRent /\ other # NoRent
    /\ 50 * (IF rent > other THEN rent - other ELSE other - rent) <= rent

\* A slip: the candidate row is written again whatever became of it.
ProposedAgain(l, rent) ==
    [pair \in Pairs |->
       IF /\ l \in pair
          /\ \E k \in pair \ {l} : /\ Present(k)
                                   /\ listing[k].life # "MERGED"
                                   /\ Similar(rent, listing[k].rent)
       THEN "PENDING" ELSE IF verdict[pair] = "DISTINCT" THEN "none" ELSE verdict[pair]]

\* _generate_duplicate_candidates: a pair is proposed once (ON CONFLICT DO NOTHING).
Proposed(l, rent) ==
    [pair \in Pairs |->
       IF /\ l \in pair
          /\ verdict[pair] = "none"
          /\ \E k \in pair \ {l} : /\ Present(k)
                                   /\ listing[k].life # "MERGED"
                                   /\ Similar(rent, listing[k].rent)
       THEN "PENDING" ELSE verdict[pair]]

\* _create_canonical: address chain, listing, link, candidates.
ApplyCreate(w, l) ==
    /\ work[w].kind = "create"
    /\ link[work[w].ad] = 0
    /\ ~Present(l) /\ \A k \in Ids : k < l => Present(k)
    /\ listing' = [listing EXCEPT ![l] = [life |-> "CANDIDATE", unit |-> work[w].unit,
                                          rent |-> work[w].rent]]
    /\ link' = [link EXCEPT ![work[w].ad] = l]
    /\ origin' = [origin EXCEPT ![work[w].ad] = l]
    /\ unitRows' = IF work[w].newRow THEN [unitRows EXCEPT ![work[w].unit] = @ + 1] ELSE unitRows
    /\ verdict' = Proposed(l, work[w].rent)
    /\ Commit(w)
    /\ UNCHANGED <<merges, tangled>>

\* uq_listing_source_link_native: another worker linked the ad meanwhile, the
\* transaction rolls back and the job will be retried.
ApplyConflicts(w) ==
    /\ work[w].kind \in {"attach", "create"}
    /\ link[work[w].ad] # 0
    /\ Done(w)
    /\ UNCHANGED <<listing, link, unitRows, verdict, merges, origin, tangled, raced>>

\* _evaluate_one writes the lifecycle of the row it read.
ApplyAdmit(w) ==
    /\ work[w].kind = "admit"
    /\ listing' = [listing EXCEPT ![work[w].at].life = work[w].life]
    /\ Commit(w)
    /\ UNCHANGED <<link, unitRows, verdict, merges, origin, tangled>>

\* The process dies between its reads and its commit.
Abort(w) ==
    /\ work[w] # NoWork
    /\ Done(w)
    /\ UNCHANGED <<listing, link, unitRows, verdict, merges, origin, tangled, raced>>

-----------------------------------------------------------------------------
(* Human decisions.                                                         *)

Human == CommitsAmid(Workers)

\* merge_listings: links move, the source becomes MERGED, the record says what moved.
MergeListings(s, t) ==
    /\ listing[s].life # "MERGED" /\ listing[t].life # "MERGED"
    /\ Len(merges) < MaxMerges
    /\ merges' = Append(merges, [source |-> s, target |-> t, moved |-> LinksOf(s),
                                 standing |-> TRUE])
    /\ link' = [a \in Ads |-> IF link[a] = s THEN t ELSE link[a]]
    /\ listing' = [listing EXCEPT ![s].life = "MERGED"]

\* resolve_duplicate_candidate(confirmed_duplicate=True).
ConfirmDuplicate(s, t) ==
    /\ Human
    /\ {s, t} \in Pairs /\ verdict[{s, t}] = "PENDING"
    /\ MergeListings(s, t)
    /\ verdict' = [verdict EXCEPT ![{s, t}] = "DUPLICATE"]
    /\ UNCHANGED <<unitRows, work, origin, tangled>>

\* resolve_duplicate_candidate(confirmed_duplicate=False).
ConfirmDistinct(pair) ==
    /\ Human
    /\ verdict[pair] = "PENDING"
    /\ verdict' = [verdict EXCEPT ![pair] = "DISTINCT"]
    /\ UNCHANGED <<listing, link, unitRows, merges, work, origin, tangled>>

\* A slip: the links of the whole target go to the restored listing.
ReturnedAll(m) ==
    [a \in Ads |-> IF link[a] = merges[m].target THEN merges[m].source ELSE link[a]]

\* Only the links the merge moved return, wherever they are by now.
Returned(m) ==
    [a \in Ads |-> IF a \in merges[m].moved THEN merges[m].source ELSE link[a]]

ReverseMerge(m) ==
    /\ Human
    /\ merges[m].standing
    /\ link' = Returned(m)
    /\ listing' = [listing EXCEPT ![merges[m].source].life = "REVIEW_REQUIRED"]
    /\ merges' = [merges EXCEPT ![m].standing = FALSE]
    /\ tangled' = (tangled \/ \E n \in m + 1 .. Len(merges) :
                                 merges[n].standing /\ merges[n].moved \cap merges[m].moved # {})
    /\ UNCHANGED <<unitRows, verdict, work, origin>>

Next ==
    \/ \E w \in Workers, a \in Ads, rent \in Rents \cup {NoRent} : ReadLinked(w, a, rent)
    \/ \E w \in Workers, a \in Ads, unit \in Units, l \in Ids : ReadSameUnit(w, a, unit, l)
    \/ \E w \in Workers, a \in Ads, rent \in Rents, l \in Ids : ReadStrongMatch(w, a, rent, l)
    \/ \E w \in Workers, a \in Ads, unit \in Units \cup {NoUnit},
          rent \in Rents \cup {NoRent} : ReadNoMatch(w, a, unit, rent)
    \/ \E w \in Workers, l \in Ids, life \in Admissions : ReadCandidate(w, l, life)
    \/ \E w \in Workers : ApplyUpdate(w)
    \/ \E w \in Workers : ApplyAttach(w)
    \/ \E w \in Workers, l \in Ids : ApplyCreate(w, l)
    \/ \E w \in Workers : ApplyConflicts(w)
    \/ \E w \in Workers : ApplyAdmit(w)
    \/ \E w \in Workers : Abort(w)
    \/ \E s, t \in Ids : ConfirmDuplicate(s, t)
    \/ \E pair \in Pairs : ConfirmDistinct(pair)
    \/ \E m \in 1 .. Len(merges) : ReverseMerge(m)

Spec == Init /\ [][Next]_identityVars

-----------------------------------------------------------------------------
(* What identity has to guarantee.                                          *)

Job ==
    [kind : {"none"}]
    \cup [kind : {"update"}, ad : Ads, rent : Rents \cup {NoRent}, at : Ids]
    \cup [kind : {"attach"}, ad : Ads, at : Ids]
    \cup [kind : {"create"}, ad : Ads, unit : Units \cup {NoUnit}, rent : Rents \cup {NoRent},
          newRow : BOOLEAN]
    \cup [kind : {"admit"}, at : Ids, life : Admissions]

TypeOK ==
    /\ listing \in [Ids -> [life : Lives \cup {"ABSENT"}, unit : Units \cup {NoUnit},
                            rent : Rents \cup {NoRent}]]
    /\ link \in [Ads -> Ids \cup {0}]
    /\ unitRows \in [Units -> IF raced THEN Nat ELSE {0, 1}]
    /\ verdict \in [Pairs -> {"none", "PENDING", "DUPLICATE", "DISTINCT"}]
    /\ merges \in Seq([source : Ids, target : Ids, moved : SUBSET Ads, standing : BOOLEAN])
    /\ work \in [Workers -> Job]
    /\ origin \in [Ads -> Ids \cup {0}]
    /\ tangled \in BOOLEAN
    /\ raced \in BOOLEAN

Standing == {m \in 1 .. Len(merges) : merges[m].standing}

\* merge_service.py:5-9, a manual merge survives later refreshes and the
\* superseded listing stays with lifecycle MERGED: no advertisement is ever
\* attached to it, nothing brings it back but its own reversal, and it was
\* merged away only once.
MergesSurviveRefreshes ==
    /\ \A m \in Standing : /\ listing[merges[m].source].life = "MERGED"
                           /\ LinksOf(merges[m].source) = {}
    /\ \A m, n \in Standing : merges[m].source = merges[n].source => m = n

\* The promise holds as long as no merge, attachment or admission commits
\* between the reads and the writes of another.
SupersededStaysEmpty == ~raced => MergesSurviveRefreshes

\* One unit is one listing, across sources, merges and reversals; only a listing
\* a reversal restored may stand beside the one its unit got meanwhile.
OneListingPerUnit ==
    ~raced => \A k, l \in Ids :
        /\ k # l
        /\ Present(k) /\ Present(l)
        /\ listing[k].unit # NoUnit /\ listing[k].unit = listing[l].unit
        => \E x \in {k, l} : listing[x].life \in {"MERGED", "REVIEW_REQUIRED"}

\* Two ads of one source without a unit are two units of the building: only a
\* human puts them into one listing.
SameSourceKeptApart ==
    ~raced => \A a, b \in Ads :
        /\ a # b /\ SourceOf[a] = SourceOf[b]
        /\ link[a] # 0 /\ link[a] = link[b]
        /\ listing[link[a]].unit = NoUnit
        => \E m \in 1 .. Len(merges) : link[a] \in {merges[m].source, merges[m].target}

\* The listings the standing merges lead to from l, in any number of steps.
Reached(l) ==
    {k \in Ids : \A S \in SUBSET Ids :
        l \in S /\ (\A m \in Standing : merges[m].source \in S => merges[m].target \in S)
        => k \in S}

\* The one at the end of the way.
Survivor(l) == CHOOSE k \in Reached(l) : \A m \in Standing : merges[m].source # k

\* Merges and reversals in any number put every ad where the standing merges
\* say, however many listings were merged into each other on the way, as long
\* as no merge was reversed under a newer one that moved the same link: it is
\* on the way, whatever raced, and at its end if nothing did.
LinksFollowMerges ==
    ~tangled => \A a \in Ads : link[a] # 0 =>
        /\ link[a] \in Reached(origin[a])
        /\ ~raced => link[a] = Survivor(origin[a])

\* merge_service.py:3-4, decisions on identity are durable: a pair once decided
\* is never proposed again and its verdict never changes.
VerdictsAreDurable ==
    [][\A pair \in Pairs : verdict[pair] \in {"DUPLICATE", "DISTINCT"}
                              => verdict'[pair] = verdict[pair]]_identityVars

\* normalization.py:109-116, a link found is never rewritten: whatever jobs,
\* admissions and people do at the same time, an advertisement changes its
\* listing only by a merge or by the reversal of one.
OnlyHumansMoveLinks ==
    [][\A a \in Ads : link[a] # 0 /\ link'[a] # link[a] => merges' # merges]_identityVars
=============================================================================
