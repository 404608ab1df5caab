------------------------------ MODULE Geography ------------------------------
(***************************************************************************)
(* From an address to an advertised listing: the stages of a refresh       *)
(* (run_weekday_refresh in jobs/weekday_refresh.py) that place addresses    *)
(* (enrichment/location/service.py), hold them against the polygons of the  *)
(* supported regions (location/boundaries.py), list the stops nearby        *)
(* (transit/nearby.py) and admit candidates (canonical/admission.py).  Each *)
(* stage is one session that reads what there is to do, asks providers, and *)
(* commits; a scheduled and a manual refresh may be in one stage at once.   *)
(***************************************************************************)
EXTENDS FiniteSets, Naturals

CONSTANTS
    Addresses,    \* app.address, by fingerprint
    Unresolved,   \* those inserted for a page that withholds its address
    Listings,     \* canonical_listing identities
    Oversized,    \* those whose layout_class is OUT_OF_SCOPE
    AddressOf,    \* listing -> the address of its building
    Points,       \* coordinates a geocoder may answer
    Regions,      \* region codes of the supported regions
    RegionOf,     \* point -> the region it lies in, or Elsewhere
    LocalityOf,   \* address -> the region its locality names, or Elsewhere
    Jersey,       \* addresses whose locality is in NJ_LOCALITIES
    Elsewhere,    \* no supported region
    Refreshes,    \* processes, each a whole refresh
    Manual,       \* those started by hand: they discard the inventory first
    Limit         \* the rows a stage takes (500 or 1000 in the code)

ASSUME GeographyAssumption ==
    /\ Unresolved \subseteq Addresses /\ Jersey \subseteq Addresses
    /\ Oversized \subseteq Listings /\ Manual \subseteq Refreshes
    /\ AddressOf \in [Listings -> Addresses]
    /\ Elsewhere \notin Regions
    /\ RegionOf \in [Points -> Regions \cup {Elsewhere}]
    /\ LocalityOf \in [Addresses -> Regions \cup {Elsewhere}]
    /\ "NULL" \notin Points
    /\ Limit \in Nat \ {0}

\* location_point and location_precision, which are written together: FINE is
\* any of ACCEPTABLE_PRECISION.  Transit rows carry their hash.
Places == [point : Points, precision : {"FINE", "COARSE"}]
Nowhere == [point |-> "NULL", precision |-> "UNKNOWN"]

Absent == [place |-> Nowhere, status |-> "NULL", scope |-> "UNRESOLVED"]
NewAddress == [Absent EXCEPT !.status = "PENDING"]
AddressRows == [place : Places \cup {Nowhere},
                status : {"NULL", "PENDING", "VALID", "FAILED"},
                scope : {"UNRESOLVED", "IN_SCOPE", "OUT_OF_SCOPE"}]

\* The transit_access rows one refresh inserts for a listing count as one; no
\* located address is out of reach of every stop.
AccessRows == [by : Refreshes, place : Places]

Stages == {"geocode", "scope", "transit", "admission"}
Ends == {"SUCCEEDED", "PARTIAL_SUCCESS", "died"}

VARIABLES
    address,     \* app.address
    lifecycle,   \* canonical_listing.lifecycle_status; NULL stands for no row
    access,      \* transit_access of each listing
    boundary,    \* config.geographic_boundary: the regions loaded
    stage,       \* where each refresh is, or how it ended
    session,     \* what the open session of each refresh read
    overlapped   \* history: two sessions of one stage were open at once, since
                 \* the inventory was discarded last

vars == <<address, lifecycle, access, boundary, stage, session, overlapped>>
inventory == <<address, lifecycle, access>>

NoAddress == [a \in Addresses |-> Absent]
NoListing == [l \in Listings |-> "NULL"]
NoAccess == [l \in Listings |-> {}]
Closed == [open |-> FALSE, address |-> NoAddress, lifecycle |-> NoListing,
           access |-> NoAccess, boundary |-> {}]

Init ==
    /\ address = NoAddress /\ lifecycle = NoListing /\ access = NoAccess
    /\ boundary = {}
    /\ stage = [r \in Refreshes |-> "idle"]
    /\ session = [r \in Refreshes |-> Closed]
    /\ overlapped = FALSE

Open(r) == session[r].open
Located(a) == a.place # Nowhere

-----------------------------------------------------------------------------
(* Before the stages                                                        *)

\* upsert_boundary, by an operator: a code that exists stays as it is.
LoadBoundary(g) ==
    /\ g \notin boundary
    /\ boundary' = boundary \cup {g}
    /\ UNCHANGED <<inventory, stage, session, overlapped>>

\* A manual refresh waits until no session is open and truncates (Workspace).
Begin(r) ==
    /\ stage[r] = "idle"
    /\ IF r \in Manual
       THEN /\ \A s \in Refreshes : ~Open(s)
            /\ address' = NoAddress /\ lifecycle' = NoListing /\ access' = NoAccess
            /\ overlapped' = FALSE
       ELSE UNCHANGED <<inventory, overlapped>>
    /\ stage' = [stage EXCEPT ![r] = "acquire"]
    /\ UNCHANGED <<boundary, session>>

\* drain_normalize_jobs: a candidate, at a new or a known address.
Normalize(r, l) ==
    /\ stage[r] = "acquire" /\ lifecycle[l] = "NULL"
    /\ lifecycle' = [lifecycle EXCEPT ![l] = "CANDIDATE"]
    /\ address' = [address EXCEPT ![AddressOf[l]] = IF @ = Absent THEN NewAddress ELSE @]
    /\ UNCHANGED <<access, boundary, stage, session, overlapped>>

Acquired(r) ==
    /\ stage[r] = "acquire"
    /\ stage' = [stage EXCEPT ![r] = "geocode"]
    /\ UNCHANGED <<inventory, boundary, session, overlapped>>

-----------------------------------------------------------------------------
(* The stages: a session reads, and later commits                           *)

Read(r) ==
    /\ stage[r] \in Stages /\ ~Open(r)
    /\ session' = [session EXCEPT ![r] =
           [open |-> TRUE, address |-> address, lifecycle |-> lifecycle,
            access |-> access, boundary |-> boundary]]
    /\ overlapped' = (overlapped \/ \E s \in Refreshes : Open(s) /\ stage[s] = stage[r])
    /\ UNCHANGED <<inventory, boundary, stage>>

Commit(r, this, next) ==
    /\ stage[r] = this /\ Open(r)
    /\ stage' = [stage EXCEPT ![r] = next]
    /\ session' = [session EXCEPT ![r] = Closed]
    /\ UNCHANGED <<boundary, overlapped>>

\* No ORDER BY: the database takes any `Limit` of the rows.
Batches(rows) ==
    {b \in SUBSET rows : Cardinality(b) = Limit \/ (b = rows /\ Cardinality(b) < Limit)}

\* A slip: whatever has not failed is geocoded again.
NotFailed(read) ==
    {a \in Addresses : read.address[a].status \notin {"NULL", "FAILED"}}

\* "All addresses lacking coordinates", the placeholders among them.
Pending(read) ==
    {a \in Addresses : ~Located(read.address[a])
                       /\ read.address[a].status \notin {"NULL", "FAILED"}}

\* What the geocoders may answer for an address: the first result inside the
\* polygon of its locality, where one is loaded; none outside New York from
\* the NYC service, so that a New Jersey result is always interpolated.
Answers(a) ==
    {p \in Places : /\ LocalityOf[a] \in boundary => RegionOf[p.point] = LocalityOf[a]
                    /\ a \in Jersey => p.precision = "FINE"}

Geocoded(row, answer) ==
    IF answer = Nowhere THEN [row EXCEPT !.status = "FAILED"]
                        ELSE [row EXCEPT !.place = answer, !.status = "VALID"]

\* A slip: the placeholders are looked up by what text there is.
TryAll(batch) == batch

\* "An unresolved address must never be placed at a guess."
Tried(batch) == batch \ Unresolved

\* geocode_pending: only what changed against the row read is written.
Geocode(r) ==
    /\ \E batch \in Batches(Pending(session[r])) :
       \E answer \in [Tried(batch) -> Places \cup {Nowhere}] :
           /\ \A a \in Tried(batch) : answer[a] \in Answers(a) \cup {Nowhere}
           /\ address' = [a \in Addresses |->
                  IF a \in Tried(batch) THEN Geocoded(address[a], answer[a]) ELSE address[a]]
    /\ Commit(r, "geocode", "scope")
    /\ UNCHANGED <<lifecycle, access>>

Undecided(read) ==
    {a \in Addresses : Located(read.address[a]) /\ read.address[a].scope = "UNRESOLVED"}

Verdict(read, a) ==
    IF RegionOf[read.address[a].place.point] \in read.boundary
    THEN "IN_SCOPE" ELSE "OUT_OF_SCOPE"

\* validate_boundaries refuses an empty registry.
Scope(r) ==
    /\ \E batch \in Batches(IF session[r].boundary = {} THEN {} ELSE Undecided(session[r])) :
           address' = [a \in Addresses |->
               IF a \in batch THEN [address[a] EXCEPT !.scope = Verdict(session[r], a)]
                              ELSE address[a]]
    /\ Commit(r, "scope", "transit")
    /\ UNCHANGED <<lifecycle, access>>

WithOrigin(read) ==
    {l \in Listings : read.lifecycle[l] # "NULL" /\ Located(read.address[AddressOf[l]])}

\* enrich_listing looks at one of the rows; if it tells another origin all the
\* rows seen are deleted.
Renewed(r, l, looked) ==
    LET seen == session[r].access[l]
        origin == session[r].address[AddressOf[l]].place
    IN IF seen # {} /\ looked.place = origin THEN access[l]
       ELSE (access[l] \ seen) \cup {[by |-> r, place |-> origin]}

\* enrich_all_geocoded, with a row it looks at for each listing that has any.
Transit(r) ==
    /\ \E batch \in Batches(WithOrigin(session[r])) :
       \E looked \in [batch -> AccessRows] :
           /\ \A l \in batch : session[r].access[l] # {} => looked[l] \in session[r].access[l]
           /\ access' = [l \in Listings |->
                  IF l \in batch THEN Renewed(r, l, looked[l]) ELSE access[l]]
    /\ Commit(r, "transit", "admission")
    /\ UNCHANGED <<address, lifecycle>>

Candidates(read) == {l \in Listings : read.lifecycle[l] = "CANDIDATE"}

\* A slip: the outcome is written as it is counted.
OutcomeByName(read, l, hold) ==
    LET a == read.address[AddressOf[l]] IN
    IF l \in Oversized \/ a.scope = "OUT_OF_SCOPE" THEN "EXCLUDED"
    ELSE IF a.scope = "IN_SCOPE" /\ a.place.precision = "FINE" /\ ~hold THEN "ACTIVATED"
    ELSE "CANDIDATE"

\* _evaluate_one; held are an open layout, a blocked identity and a listing
\* that no link supports.
Outcome(read, l, hold) ==
    LET a == read.address[AddressOf[l]] IN
    IF l \in Oversized \/ a.scope = "OUT_OF_SCOPE" THEN "EXCLUDED"
    ELSE IF a.scope = "IN_SCOPE" /\ a.place.precision = "FINE" /\ ~hold THEN "ACTIVE"
    ELSE "CANDIDATE"

\* evaluate_candidates: a listing that is held is not written.
Admission(r) ==
    /\ \E batch \in Batches(Candidates(session[r])), held \in SUBSET Listings :
           lifecycle' = [l \in Listings |->
               LET outcome == Outcome(session[r], l, l \in held)
               IN IF l \in batch /\ outcome # "CANDIDATE" THEN outcome ELSE lifecycle[l]]
    /\ Commit(r, "admission", "finish")
    /\ UNCHANGED <<address, access>>

\* The refresh_run row tells whether every source was HEALTHY; in a manual
\* refresh detail enrichment (ListingFacts) comes before.
Finish(r, status) ==
    /\ stage[r] = "finish"
    /\ stage' = [stage EXCEPT ![r] = status]
    /\ UNCHANGED <<inventory, boundary, session, overlapped>>

\* Any exception ends the process and rolls its session back.
Die(r) ==
    /\ stage[r] \notin {"idle"} \cup Ends
    /\ stage' = [stage EXCEPT ![r] = "died"]
    /\ session' = [session EXCEPT ![r] = Closed]
    /\ UNCHANGED <<inventory, boundary, overlapped>>

Next ==
    \/ \E g \in Regions : LoadBoundary(g)
    \/ \E r \in Refreshes :
           \/ Begin(r) \/ Acquired(r) \/ Read(r)
           \/ \E l \in Listings : Normalize(r, l)
           \/ Geocode(r) \/ Scope(r) \/ Transit(r) \/ Admission(r)
           \/ \E status \in {"SUCCEEDED", "PARTIAL_SUCCESS"} : Finish(r, status)
           \/ Die(r)

Spec == Init /\ [][Next]_vars

-----------------------------------------------------------------------------
(* Properties                                                               *)

\* Every table and session holds values of its type.
TypeOK ==
    /\ address \in [Addresses -> AddressRows]
    /\ lifecycle \in [Listings -> {"NULL", "CANDIDATE", "ACTIVE", "EXCLUDED"}]
    /\ access \in [Listings -> SUBSET AccessRows]
    /\ boundary \subseteq Regions
    /\ stage \in [Refreshes -> {"idle", "acquire", "finish"} \cup Stages \cup Ends]
    /\ session \in [Refreshes ->
           [open : BOOLEAN, address : [Addresses -> AddressRows],
            lifecycle : [Listings -> {"NULL", "CANDIDATE", "ACTIVE", "EXCLUDED"}],
            access : [Listings -> SUBSET AccessRows], boundary : SUBSET Regions]]
    /\ overlapped \in BOOLEAN

\* "Unknowns stay CANDIDATE, never admitted optimistically": however refreshes
\* interleave, a listing is advertised or excluded for its geography only at an
\* address that is no placeholder, was located and held against a registry that
\* was not empty, and stops are listed near located addresses only.
AdmittedOnEvidence ==
    /\ \A a \in Addresses :
           /\ address[a].scope # "UNRESOLVED" => Located(address[a]) /\ boundary # {}
           /\ Located(address[a]) => a \notin Unresolved
    /\ \A l \in Listings :
           /\ lifecycle[l] = "ACTIVE" => l \notin Oversized
           /\ lifecycle[l] \in {"ACTIVE", "EXCLUDED"} /\ l \notin Oversized
                  => address[AddressOf[l]].scope # "UNRESOLVED"
           /\ access[l] # {} => Located(address[AddressOf[l]])

\* Unless two refreshes had one stage open at once, everything concluded from a
\* location still follows from the location on record: the verdict on its
\* scope, what the listing was admitted or excluded for, and the one set of
\* stops near it; and an address whose geocoding failed has no location.
VerdictsFollowPoint ==
    ~overlapped =>
    /\ \A a \in Addresses :
           /\ address[a].scope = "IN_SCOPE" => RegionOf[address[a].place.point] \in boundary
           /\ Located(address[a]) <=> address[a].status = "VALID"
    /\ \A l \in Listings : LET a == address[AddressOf[l]] IN
           /\ lifecycle[l] = "ACTIVE" => a.scope = "IN_SCOPE" /\ a.place.precision = "FINE"
           /\ lifecycle[l] = "EXCLUDED" /\ l \notin Oversized => a.scope = "OUT_OF_SCOPE"
           /\ \A row \in access[l] : row.place = a.place
           /\ \A one, other \in access[l] : one = other

=============================================================================
