--------------------------- MODULE GeographyProofs ---------------------------
(***************************************************************************)
(* Proofs about the stages of a refresh, for any addresses, listings and   *)
(* any number of refreshes at once.                                        *)
(***************************************************************************)
EXTENDS Geography, TLAPS

-----------------------------------------------------------------------------
(* The inductive invariant.  What a session read may be out of date, but   *)
(* what it says of a location or a verdict is there still.                  *)

Lifecycles == {"NULL", "CANDIDATE", "ACTIVE", "EXCLUDED"}
Sessions == [open : BOOLEAN, address : [Addresses -> AddressRows],
             lifecycle : [Listings -> Lifecycles],
             access : [Listings -> SUBSET AccessRows], boundary : SUBSET Regions]

\* Nothing read is taken back, however sessions overlap.
ReadStands ==
    \A r \in Refreshes : Open(r) =>
        /\ session[r].boundary \subseteq boundary
        /\ \A a \in Addresses :
               /\ Located(session[r].address[a]) => Located(address[a])
               /\ session[r].address[a].scope # "UNRESOLVED" => address[a].scope # "UNRESOLVED"

\* Without overlap a session is alone in its stage; the locations and verdicts
\* it read are those on record, and what its stage will write is as it was.
AloneInStage ==
    ~overlapped => \A r, s \in Refreshes : Open(r) /\ Open(s) /\ stage[r] = stage[s] => r = s

ReadIsCurrent ==
    ~overlapped => \A r \in Refreshes : Open(r) =>
        /\ \A a \in Addresses :
               LET seen == session[r].address[a] IN
               /\ Located(seen) \/ stage[r] = "geocode" => address[a].place = seen.place
               /\ seen.scope # "UNRESOLVED" \/ stage[r] = "scope" => address[a].scope = seen.scope
        /\ stage[r] = "transit" => access = session[r].access

\* A session is open in a stage only.
OpenInStage == \A r \in Refreshes : Open(r) => stage[r] \in Stages

IInv ==
    /\ TypeOK
    /\ OpenInStage
    /\ ReadStands
    /\ AdmittedOnEvidence
    /\ AloneInStage
    /\ ReadIsCurrent
    /\ VerdictsFollowPoint

-----------------------------------------------------------------------------
(* Types.                                                                   *)

LEMMA Rows ==
    /\ Nowhere \notin Places /\ Absent \in AddressRows /\ NewAddress \in AddressRows
    /\ ~Located(Absent) /\ ~Located(NewAddress)
    /\ Absent.place = Nowhere /\ NewAddress.place = Nowhere
    /\ Absent.scope = "UNRESOLVED" /\ NewAddress.scope = "UNRESOLVED"
    /\ Absent.status = "NULL" /\ NewAddress.status = "PENDING"
BY GeographyAssumption DEF GeographyAssumption, Nowhere, Places, Absent, NewAddress, AddressRows, Located

LEMMA EmptyTables ==
    /\ NoAddress \in [Addresses -> AddressRows]
    /\ NoListing \in [Listings -> Lifecycles]
    /\ NoAccess \in [Listings -> SUBSET AccessRows]
    /\ Closed \in Sessions /\ Closed.open = FALSE
BY Rows DEF NoAddress, NoListing, NoAccess, Closed, Sessions, Lifecycles

LEMMA InitIInv == Init => IInv
<1> SUFFICES ASSUME Init PROVE IInv
  OBVIOUS
<1>1. TypeOK
  BY EmptyTables DEF Init, TypeOK, Sessions, Lifecycles
<1>2. \A r \in Refreshes : ~Open(r)
  BY EmptyTables DEF Init, Open
<1>3. /\ \A a \in Addresses : address[a] = Absent
      /\ \A l \in Listings : lifecycle[l] = "NULL" /\ access[l] = {}
  BY DEF Init, NoAddress, NoListing, NoAccess
<1>4. AdmittedOnEvidence /\ VerdictsFollowPoint
  BY <1>3, Rows, GeographyAssumption
  DEF AdmittedOnEvidence, VerdictsFollowPoint, GeographyAssumption
<1> QED BY <1>1, <1>2, <1>4 DEF IInv, OpenInStage, ReadStands, AloneInStage, ReadIsCurrent

\* What a geocoder's answer makes of a row.
LEMMA GeocodedRow ==
    ASSUME NEW row \in AddressRows, NEW answer \in Places \cup {Nowhere}
    PROVE  /\ Geocoded(row, answer) \in AddressRows
           /\ Geocoded(row, answer).scope = row.scope
           /\ answer = Nowhere => /\ Geocoded(row, answer).place = row.place
                                  /\ Geocoded(row, answer).status = "FAILED"
           /\ answer # Nowhere => /\ Geocoded(row, answer).place = answer
                                  /\ Geocoded(row, answer).status = "VALID"
BY DEF Geocoded, AddressRows

-----------------------------------------------------------------------------
(* What each commit does.                                                   *)

\* A session that commits is closed, and no other changes.
LEMMA Committed ==
    ASSUME TypeOK, NEW r \in Refreshes, NEW this \in Stages,
           NEW next \in Stages \cup {"finish"}, Commit(r, this, next)
    PROVE  /\ Open(r) /\ stage[r] = this
           /\ stage' \in [Refreshes -> {"idle", "acquire", "finish"} \cup Stages \cup Ends]
           /\ session' \in [Refreshes -> Sessions]
           /\ boundary' = boundary /\ overlapped' = overlapped
           /\ \A s \in Refreshes : Open(s)' =>
                  s # r /\ Open(s) /\ session'[s] = session[s] /\ stage'[s] = stage[s]
BY EmptyTables DEF Commit, TypeOK, Open, Sessions, Lifecycles, Stages

LEMMA GeocodeEffect ==
    ASSUME TypeOK, NEW r \in Refreshes, Geocode(r)
    PROVE  /\ address' \in [Addresses -> AddressRows]
           /\ \A a \in Addresses :
                  /\ address'[a].scope = address[a].scope
                  /\ Located(address[a]) => Located(address'[a])
                  /\ address'[a] # address[a] =>
                         /\ ~Located(session[r].address[a]) /\ a \notin Unresolved
                         /\ \/ address'[a].status = "VALID" /\ Located(address'[a])
                            \/ /\ address'[a].status = "FAILED"
                               /\ address'[a].place = address[a].place
<1> PICK batch \in Batches(Pending(session[r])) :
       \E answer \in [Tried(batch) -> Places \cup {Nowhere}] :
           /\ \A a \in Tried(batch) : answer[a] \in Answers(a) \cup {Nowhere}
           /\ address' = [a \in Addresses |->
                  IF a \in Tried(batch) THEN Geocoded(address[a], answer[a]) ELSE address[a]]
  BY DEF Geocode
<1> PICK answer \in [Tried(batch) -> Places \cup {Nowhere}] :
           address' = [a \in Addresses |->
                  IF a \in Tried(batch) THEN Geocoded(address[a], answer[a]) ELSE address[a]]
  OBVIOUS
<1>1. ASSUME NEW a \in Tried(batch)
      PROVE  a \in Addresses /\ a \notin Unresolved /\ ~Located(session[r].address[a])
  BY DEF Tried, Batches, Pending
<1>2. ASSUME NEW a \in Addresses
      PROVE  /\ address'[a] \in AddressRows
             /\ address'[a].scope = address[a].scope
             /\ Located(address[a]) => Located(address'[a])
             /\ address'[a] # address[a] =>
                    /\ ~Located(session[r].address[a]) /\ a \notin Unresolved
                    /\ \/ address'[a].status = "VALID" /\ Located(address'[a])
                       \/ /\ address'[a].status = "FAILED"
                          /\ address'[a].place = address[a].place
  <2>0. address[a] \in AddressRows
    BY DEF TypeOK
  <2>1. CASE a \in Tried(batch)
    <3>1. address'[a] = Geocoded(address[a], answer[a]) /\ answer[a] \in Places \cup {Nowhere}
      BY <2>1
    <3> QED BY <2>0, <2>1, <3>1, <1>1, GeocodedRow DEF Located
  <2>2. CASE a \notin Tried(batch)
    BY <2>0, <2>2
  <2> QED BY <2>1, <2>2
<1>3. address' \in [Addresses -> AddressRows]
  BY <1>2
<1> QED BY <1>2, <1>3

LEMMA ScopeEffect ==
    ASSUME TypeOK, NEW r \in Refreshes, Scope(r)
    PROVE  /\ address' \in [Addresses -> AddressRows]
           /\ \A a \in Addresses :
                  /\ address'[a].place = address[a].place /\ address'[a].status = address[a].status
                  /\ address'[a].scope # address[a].scope =>
                         /\ Located(session[r].address[a]) /\ session[r].boundary # {}
                         /\ session[r].address[a].scope = "UNRESOLVED"
                         /\ address'[a].scope = Verdict(session[r], a)
                         /\ address'[a].scope # "UNRESOLVED"
                  /\ address[a].scope # "UNRESOLVED" => address'[a].scope # "UNRESOLVED"
<1> PICK batch \in Batches(IF session[r].boundary = {} THEN {} ELSE Undecided(session[r])) :
           address' = [a \in Addresses |->
               IF a \in batch THEN [address[a] EXCEPT !.scope = Verdict(session[r], a)]
                              ELSE address[a]]
  BY DEF Scope
<1>1. ASSUME NEW a \in batch
      PROVE  /\ a \in Addresses /\ Located(session[r].address[a]) /\ session[r].boundary # {}
             /\ session[r].address[a].scope = "UNRESOLVED"
  BY DEF Batches, Undecided
<1>2. \A a \in Addresses : Verdict(session[r], a) \in {"IN_SCOPE", "OUT_OF_SCOPE"}
  BY DEF Verdict
<1>3. ASSUME NEW a \in Addresses
      PROVE  /\ address'[a] \in AddressRows
             /\ address'[a].place = address[a].place /\ address'[a].status = address[a].status
             /\ address'[a].scope # address[a].scope =>
                    /\ Located(session[r].address[a]) /\ session[r].boundary # {}
                    /\ session[r].address[a].scope = "UNRESOLVED"
                    /\ address'[a].scope = Verdict(session[r], a)
                    /\ address'[a].scope # "UNRESOLVED"
             /\ address[a].scope # "UNRESOLVED" => address'[a].scope # "UNRESOLVED"
  <2>0. address[a] \in AddressRows
    BY DEF TypeOK
  <2>1. CASE a \in batch
    <3>1. address'[a] = [address[a] EXCEPT !.scope = Verdict(session[r], a)]
      BY <2>1
    <3>2. PICK scope \in {"IN_SCOPE", "OUT_OF_SCOPE"} : scope = Verdict(session[r], a)
      BY <1>2
    <3>3. address'[a] = [address[a] EXCEPT !.scope = scope]
      BY <3>1, <3>2
    <3>4. /\ address'[a] \in AddressRows /\ address'[a].scope = scope
          /\ address'[a].place = address[a].place /\ address'[a].status = address[a].status
      BY <2>0, <3>3 DEF AddressRows
    <3> QED BY <2>1, <3>2, <3>4, <1>1
  <2>2. CASE a \notin batch
    BY <2>0, <2>2
  <2> QED BY <2>1, <2>2
<1>4. address' \in [Addresses -> AddressRows]
  BY <1>3
<1> QED BY <1>3, <1>4

LEMMA TransitEffect ==
    ASSUME TypeOK, NEW r \in Refreshes, Transit(r)
    PROVE  /\ access' \in [Listings -> SUBSET AccessRows]
           /\ \A l \in Listings :
                  LET origin == session[r].address[AddressOf[l]] IN
                  \/ access'[l] = access[l]
                  \/ /\ Located(origin)
                     /\ access'[l] = (access[l] \ session[r].access[l])
                                         \cup {[by |-> r, place |-> origin.place]}
<1> PICK batch \in Batches(WithOrigin(session[r])) : \E looked \in [batch -> AccessRows] :
           access' = [l \in Listings |->
                  IF l \in batch THEN Renewed(r, l, looked[l]) ELSE access[l]]
  BY DEF Transit
<1> PICK looked \in [batch -> AccessRows] :
           access' = [l \in Listings |->
                  IF l \in batch THEN Renewed(r, l, looked[l]) ELSE access[l]]
  OBVIOUS
<1>1. ASSUME NEW l \in batch
      PROVE  l \in Listings /\ Located(session[r].address[AddressOf[l]])
  BY DEF Batches, WithOrigin
<1>2. ASSUME NEW l \in Listings
      PROVE  LET origin == session[r].address[AddressOf[l]] IN
             /\ access'[l] \in SUBSET AccessRows
             /\ \/ access'[l] = access[l]
                \/ /\ Located(origin)
                   /\ access'[l] = (access[l] \ session[r].access[l])
                                       \cup {[by |-> r, place |-> origin.place]}
  <2> DEFINE origin == session[r].address[AddressOf[l]]
  <2>0. access[l] \in SUBSET AccessRows /\ AddressOf[l] \in Addresses
    BY GeographyAssumption DEF TypeOK, GeographyAssumption
  <2>1. origin \in AddressRows
    BY <2>0 DEF TypeOK
  <2>2. CASE l \in batch
    <3>1. access'[l] = Renewed(r, l, looked[l])
      BY <2>2
    <3>2. origin.place \in Places
      BY <2>1, <2>2, <1>1 DEF AddressRows, Located
    <3>3. [by |-> r, place |-> origin.place] \in AccessRows
      BY <3>2 DEF AccessRows
    <3> QED BY <2>0, <2>2, <3>1, <3>3, <1>1 DEF Renewed
  <2>3. CASE l \notin batch
    BY <2>0, <2>3
  <2> QED BY <2>2, <2>3
<1>3. access' \in [Listings -> SUBSET AccessRows]
  BY <1>2
<1> QED BY <1>2, <1>3

LEMMA AdmissionEffect ==
    ASSUME TypeOK, NEW r \in Refreshes, Admission(r)
    PROVE  /\ lifecycle' \in [Listings -> Lifecycles]
           /\ \A l \in Listings :
                  LET seen == session[r].address[AddressOf[l]] IN
                  \/ lifecycle'[l] = lifecycle[l]
                  \/ /\ lifecycle'[l] = "ACTIVE" /\ l \notin Oversized
                     /\ seen.scope = "IN_SCOPE" /\ seen.place.precision = "FINE"
                  \/ /\ lifecycle'[l] = "EXCLUDED"
                     /\ l \in Oversized \/ seen.scope = "OUT_OF_SCOPE"
<1> PICK batch \in Batches(Candidates(session[r])), held \in SUBSET Listings :
           lifecycle' = [l \in Listings |->
               LET outcome == Outcome(session[r], l, l \in held)
               IN IF l \in batch /\ outcome # "CANDIDATE" THEN outcome ELSE lifecycle[l]]
  BY DEF Admission
<1>1. ASSUME NEW l \in Listings
      PROVE  LET seen == session[r].address[AddressOf[l]] IN
             /\ lifecycle'[l] \in Lifecycles
             /\ \/ lifecycle'[l] = lifecycle[l]
                \/ /\ lifecycle'[l] = "ACTIVE" /\ l \notin Oversized
                   /\ seen.scope = "IN_SCOPE" /\ seen.place.precision = "FINE"
                \/ /\ lifecycle'[l] = "EXCLUDED"
                   /\ l \in Oversized \/ seen.scope = "OUT_OF_SCOPE"
  <2>1. lifecycle[l] \in Lifecycles
    BY DEF TypeOK, Lifecycles
  <2>2. CASE l \in batch /\ Outcome(session[r], l, l \in held) # "CANDIDATE"
    <3>1. lifecycle'[l] = Outcome(session[r], l, l \in held)
      BY <2>2
    <3> QED BY <2>2, <3>1 DEF Outcome, Lifecycles
  <2>3. CASE ~(l \in batch /\ Outcome(session[r], l, l \in held) # "CANDIDATE")
    BY <2>1, <2>3
  <2> QED BY <2>2, <2>3
<1>2. lifecycle' \in [Listings -> Lifecycles]
  BY <1>1
<1> QED BY <1>1, <1>2

-----------------------------------------------------------------------------
(* The invariant is preserved.                                              *)

LEMMA AddressOfListing == \A l \in Listings : AddressOf[l] \in Addresses
BY GeographyAssumption DEF GeographyAssumption

LEMMA Typed ==
    ASSUME TypeOK
    PROVE  /\ session \in [Refreshes -> Sessions]
           /\ \A a \in Addresses : address[a] \in AddressRows
           /\ \A r \in Refreshes : session[r].address \in [Addresses -> AddressRows]
BY DEF TypeOK, Sessions, Lifecycles

\* Sessions open after a step were open before, and read what they had read.
Fewer == \A s \in Refreshes :
             Open(s)' => Open(s) /\ session'[s] = session[s] /\ stage'[s] = stage[s]

LEMMA SessionsCarriedOn ==
    ASSUME IInv, Fewer, overlapped' = overlapped, boundary \subseteq boundary',
           \A a \in Addresses :
               /\ Located(address[a]) => Located(address'[a])
               /\ address[a].scope # "UNRESOLVED" => address'[a].scope # "UNRESOLVED"
    PROVE  OpenInStage' /\ ReadStands' /\ AloneInStage'
<1>1. OpenInStage'
  BY DEF IInv, OpenInStage, Fewer
<1>2. ReadStands'
  <2> SUFFICES ASSUME NEW r \in Refreshes, Open(r)'
               PROVE  /\ session'[r].boundary \subseteq boundary'
                      /\ \A a \in Addresses :
                             /\ Located(session'[r].address[a]) => Located(address'[a])
                             /\ session'[r].address[a].scope # "UNRESOLVED"
                                    => address'[a].scope # "UNRESOLVED"
    BY DEF ReadStands, Located
  <2>1. Open(r) /\ session'[r] = session[r]
    BY DEF Fewer
  <2> QED BY <2>1 DEF IInv, ReadStands
<1>3. AloneInStage'
  BY DEF IInv, AloneInStage, Fewer
<1> QED BY <1>1, <1>2, <1>3

LEMMA InventoryUntouched ==
    ASSUME IInv, Fewer, UNCHANGED <<inventory, overlapped>>, boundary \subseteq boundary'
    PROVE  /\ OpenInStage' /\ ReadStands' /\ AdmittedOnEvidence' /\ AloneInStage'
           /\ ReadIsCurrent' /\ VerdictsFollowPoint'
<1> USE DEF inventory
<1>1. OpenInStage' /\ ReadStands' /\ AloneInStage'
  BY SessionsCarriedOn
<1>2. AdmittedOnEvidence'
  BY DEF IInv, AdmittedOnEvidence
<1>3. ReadIsCurrent'
  BY DEF IInv, ReadIsCurrent, Fewer
<1>4. VerdictsFollowPoint'
  BY DEF IInv, VerdictsFollowPoint
<1> QED BY <1>1, <1>2, <1>3, <1>4

LEMMA LoadBoundaryIInv ==
    ASSUME IInv, NEW g \in Regions, LoadBoundary(g)
    PROVE  IInv'
<1>1. TypeOK'
  BY DEF IInv, TypeOK, LoadBoundary, inventory
<1>2. Fewer /\ UNCHANGED <<inventory, overlapped>> /\ boundary \subseteq boundary'
  BY DEF LoadBoundary, Fewer, Open
<1> QED BY <1>1, <1>2, InventoryUntouched DEF IInv

LEMMA BeginIInv ==
    ASSUME IInv, NEW r \in Refreshes, Begin(r)
    PROVE  IInv'
<1> USE DEF Begin
<1>1. stage' \in [Refreshes -> {"idle", "acquire", "finish"} \cup Stages \cup Ends]
  BY DEF IInv, TypeOK
<1>2. CASE r \in Manual
  <2>1. TypeOK'
    BY <1>1, <1>2, EmptyTables DEF IInv, TypeOK, Lifecycles
  <2>2. \A s \in Refreshes : ~Open(s)'
    BY <1>2 DEF Open
  <2>3. /\ \A a \in Addresses : address'[a] = Absent
        /\ \A l \in Listings : lifecycle'[l] = "NULL" /\ access'[l] = {}
    BY <1>2 DEF NoAddress, NoListing, NoAccess
  <2>4. AdmittedOnEvidence' /\ VerdictsFollowPoint'
    BY <2>3, Rows, AddressOfListing DEF AdmittedOnEvidence, VerdictsFollowPoint
  <2> QED BY <2>1, <2>2, <2>4 DEF IInv, OpenInStage, ReadStands, AloneInStage, ReadIsCurrent
<1>3. CASE r \notin Manual
  <2>1. UNCHANGED <<inventory, boundary, session, overlapped>>
    BY <1>3
  <2>2. TypeOK'
    BY <1>1, <2>1 DEF IInv, TypeOK, inventory
  <2>3. Fewer
    BY <2>1, Rows DEF IInv, OpenInStage, TypeOK, Fewer, Open, Stages
  <2> QED BY <2>1, <2>2, <2>3, InventoryUntouched DEF IInv
<1> QED BY <1>2, <1>3

LEMMA AcquiredIInv ==
    ASSUME IInv, NEW r \in Refreshes, Acquired(r)
    PROVE  IInv'
<1>1. TypeOK'
  BY DEF IInv, TypeOK, Acquired, inventory, Stages
<1>2. Fewer
  BY DEF IInv, OpenInStage, TypeOK, Fewer, Open, Acquired, Stages
<1> QED BY <1>1, <1>2, InventoryUntouched DEF IInv, Acquired

LEMMA FinishIInv ==
    ASSUME IInv, NEW r \in Refreshes, NEW status \in {"SUCCEEDED", "PARTIAL_SUCCESS"},
           Finish(r, status)
    PROVE  IInv'
<1>1. TypeOK'
  BY DEF IInv, TypeOK, Finish, inventory, Ends
<1>2. Fewer
  BY DEF IInv, OpenInStage, TypeOK, Fewer, Open, Finish, Stages
<1> QED BY <1>1, <1>2, InventoryUntouched DEF IInv, Finish

LEMMA DieIInv ==
    ASSUME IInv, NEW r \in Refreshes, Die(r)
    PROVE  IInv'
<1>1. session' \in [Refreshes -> Sessions]
  BY Typed, EmptyTables DEF IInv, Die
<1>2. TypeOK'
  BY <1>1 DEF IInv, TypeOK, Die, inventory, Ends, Sessions, Lifecycles
<1>3. Fewer
  BY EmptyTables, Typed DEF IInv, TypeOK, Fewer, Open, Die
<1> QED BY <1>2, <1>3, InventoryUntouched DEF IInv, Die

LEMMA NormalizeIInv ==
    ASSUME IInv, NEW r \in Refreshes, NEW l \in Listings, Normalize(r, l)
    PROVE  IInv'
<1>1. \A a \in Addresses : /\ address'[a] \in AddressRows
                           /\ address'[a].place = address[a].place
                           /\ address'[a].scope = address[a].scope
                           /\ address'[a].status = address[a].status
                                  \/ (/\ address'[a].status = "PENDING" /\ ~Located(address'[a])
                                      /\ address[a].status = "NULL")
  <2> SUFFICES ASSUME NEW a \in Addresses
               PROVE  /\ address'[a] \in AddressRows
                      /\ address'[a].place = address[a].place
                      /\ address'[a].scope = address[a].scope
                      /\ address'[a].status = address[a].status
                             \/ (/\ address'[a].status = "PENDING" /\ ~Located(address'[a])
                                 /\ address[a].status = "NULL")
    OBVIOUS
  <2>1. address[a] \in AddressRows
    BY Typed DEF IInv
  <2>2. address \in [Addresses -> AddressRows]
    BY DEF IInv, TypeOK
  <2>3. address'[a] = address[a] \/ (address[a] = Absent /\ address'[a] = NewAddress)
    BY <2>2 DEF Normalize
  <2> QED BY <2>1, <2>3, Rows DEF Located
<1>2. /\ lifecycle' \in [Listings -> Lifecycles]
      /\ \A k \in Listings : lifecycle'[k] \in {"ACTIVE", "EXCLUDED"} => lifecycle'[k] = lifecycle[k]
  BY DEF IInv, TypeOK, Normalize, Lifecycles
<1>3. UNCHANGED <<access, boundary, stage, session, overlapped>>
  BY DEF Normalize
<1>4. address' \in [Addresses -> AddressRows]
  BY <1>1 DEF Normalize, IInv, TypeOK
<1>5. TypeOK'
  BY <1>2, <1>3, <1>4 DEF IInv, TypeOK, Lifecycles
<1>6. Fewer
  BY <1>3 DEF Fewer, Open
<1>7. OpenInStage' /\ ReadStands' /\ AloneInStage'
  BY <1>1, <1>3, <1>6, SessionsCarriedOn DEF Located
<1>8. AdmittedOnEvidence'
  BY <1>1, <1>2, <1>3, AddressOfListing DEF IInv, AdmittedOnEvidence, Located
<1>9. ReadIsCurrent'
  BY <1>1, <1>3 DEF IInv, ReadIsCurrent, Open
<1>10. VerdictsFollowPoint'
  BY <1>1, <1>2, <1>3, AddressOfListing DEF IInv, VerdictsFollowPoint, Located
<1> QED BY <1>5, <1>7, <1>8, <1>9, <1>10 DEF IInv

LEMMA GeocodeIInv ==
    ASSUME IInv, NEW r \in Refreshes, Geocode(r)
    PROVE  IInv'
<1>1. /\ address' \in [Addresses -> AddressRows]
      /\ \A a \in Addresses :
             /\ address'[a].scope = address[a].scope
             /\ Located(address[a]) => Located(address'[a])
             /\ address'[a] # address[a] =>
                    /\ ~Located(session[r].address[a]) /\ a \notin Unresolved
                    /\ \/ address'[a].status = "VALID" /\ Located(address'[a])
                       \/ /\ address'[a].status = "FAILED"
                          /\ address'[a].place = address[a].place
  BY GeocodeEffect DEF IInv
<1>2. /\ Open(r) /\ stage[r] = "geocode" /\ Fewer
      /\ stage' \in [Refreshes -> {"idle", "acquire", "finish"} \cup Stages \cup Ends]
      /\ session' \in [Refreshes -> Sessions]
      /\ \A s \in Refreshes : Open(s)' => s # r
  BY Committed DEF IInv, Geocode, Stages, Fewer
<1>3. UNCHANGED <<lifecycle, access, boundary, overlapped>>
  BY DEF Geocode, Commit
<1>4. TypeOK'
  BY <1>1, <1>2, <1>3 DEF IInv, TypeOK, Sessions, Lifecycles
<1>5. OpenInStage' /\ ReadStands' /\ AloneInStage'
  BY <1>1, <1>2, <1>3, SessionsCarriedOn
<1>6. AdmittedOnEvidence'
  <2>1. \A a \in Addresses : Located(address'[a]) => a \notin Unresolved
    BY <1>1 DEF IInv, AdmittedOnEvidence, Located
  <2>2. \A a \in Addresses :
            address'[a].scope # "UNRESOLVED" => Located(address'[a]) /\ boundary' # {}
    BY <1>1, <1>3 DEF IInv, AdmittedOnEvidence
  <2>3. \A l \in Listings :
           /\ lifecycle'[l] = "ACTIVE" => l \notin Oversized
           /\ lifecycle'[l] \in {"ACTIVE", "EXCLUDED"} /\ l \notin Oversized
                  => address'[AddressOf[l]].scope # "UNRESOLVED"
           /\ access'[l] # {} => Located(address'[AddressOf[l]])
    BY <1>1, <1>3, AddressOfListing DEF IInv, AdmittedOnEvidence
  <2> QED BY <2>1, <2>2, <2>3 DEF AdmittedOnEvidence, Located
\* Alone in the stage, the session places only what has no location.
<1>7. ASSUME ~overlapped, NEW a \in Addresses, address'[a].place # address[a].place
      PROVE  ~Located(address[a])
  BY <1>1, <1>2, <1>7 DEF IInv, ReadIsCurrent, Located
<1>8. ReadIsCurrent'
  <2> SUFFICES ASSUME ~overlapped', NEW s \in Refreshes, Open(s)'
               PROVE  /\ \A a \in Addresses :
                             LET seen == session'[s].address[a] IN
                             /\ Located(seen) \/ stage'[s] = "geocode"
                                    => address'[a].place = seen.place
                             /\ seen.scope # "UNRESOLVED" \/ stage'[s] = "scope"
                                    => address'[a].scope = seen.scope
                      /\ stage'[s] = "transit" => access' = session'[s].access
    BY DEF ReadIsCurrent, Located
  <2>1. ~overlapped /\ s # r /\ Open(s) /\ session'[s] = session[s] /\ stage'[s] = stage[s]
    BY <1>2, <1>3 DEF Fewer
  <2>2. stage[s] # "geocode"
    BY <1>2, <2>1 DEF IInv, AloneInStage
  <2>3. ASSUME NEW a \in Addresses
        PROVE  /\ Located(session[s].address[a]) => address'[a].place = session[s].address[a].place
               /\ session[s].address[a].scope # "UNRESOLVED" \/ stage[s] = "scope"
                      => address'[a].scope = session[s].address[a].scope
    BY <1>1, <1>7, <2>1 DEF IInv, ReadIsCurrent, Located
  <2> QED BY <1>3, <2>1, <2>2, <2>3 DEF IInv, ReadIsCurrent
<1>9. VerdictsFollowPoint'
  <2> SUFFICES ASSUME ~overlapped' PROVE VerdictsFollowPoint'
    BY DEF VerdictsFollowPoint
  <2>0. ~overlapped
    BY <1>3
  <2>1. ASSUME NEW a \in Addresses
        PROVE  /\ address'[a].scope = "IN_SCOPE"
                      => RegionOf[address'[a].place.point] \in boundary'
               /\ Located(address'[a]) <=> address'[a].status = "VALID"
    <3>1. address'[a].scope = "IN_SCOPE" => address'[a].place = address[a].place
      BY <1>1, <1>7, <2>0 DEF IInv, AdmittedOnEvidence
    <3>2. address'[a] # address[a] => ~Located(address[a])
      BY <1>1, <1>2, <2>0 DEF IInv, ReadIsCurrent, Located
    <3> QED BY <1>1, <1>3, <2>0, <3>1, <3>2 DEF IInv, VerdictsFollowPoint, Located
  <2>2. ASSUME NEW l \in Listings
        PROVE  LET a == address'[AddressOf[l]] IN
               /\ lifecycle'[l] = "ACTIVE" => a.scope = "IN_SCOPE" /\ a.place.precision = "FINE"
               /\ lifecycle'[l] = "EXCLUDED" /\ l \notin Oversized => a.scope = "OUT_OF_SCOPE"
               /\ \A row \in access'[l] : row.place = a.place
               /\ \A one, other \in access'[l] : one = other
    <3>1. AddressOf[l] \in Addresses
      BY AddressOfListing
    <3>2. access[l] # {} \/ address[AddressOf[l]].scope # "UNRESOLVED"
              => address'[AddressOf[l]].place = address[AddressOf[l]].place
      BY <1>7, <2>0, <3>1 DEF IInv, AdmittedOnEvidence
    <3> QED BY <1>1, <1>3, <2>0, <3>1, <3>2 DEF IInv, VerdictsFollowPoint
  <2> QED BY <2>1, <2>2 DEF VerdictsFollowPoint, Located
<1> QED BY <1>4, <1>5, <1>6, <1>8, <1>9 DEF IInv

LEMMA ScopeIInv ==
    ASSUME IInv, NEW r \in Refreshes, Scope(r)
    PROVE  IInv'
<1>1. /\ address' \in [Addresses -> AddressRows]
      /\ \A a \in Addresses :
             /\ address'[a].place = address[a].place /\ address'[a].status = address[a].status
             /\ address'[a].scope # address[a].scope =>
                    /\ Located(session[r].address[a]) /\ session[r].boundary # {}
                    /\ session[r].address[a].scope = "UNRESOLVED"
                    /\ address'[a].scope = Verdict(session[r], a)
                    /\ address'[a].scope # "UNRESOLVED"
             /\ address[a].scope # "UNRESOLVED" => address'[a].scope # "UNRESOLVED"
  BY ScopeEffect DEF IInv
<1>2. /\ Open(r) /\ stage[r] = "scope" /\ Fewer
      /\ stage' \in [Refreshes -> {"idle", "acquire", "finish"} \cup Stages \cup Ends]
      /\ session' \in [Refreshes -> Sessions]
      /\ \A s \in Refreshes : Open(s)' => s # r
  BY Committed DEF IInv, Scope, Stages, Fewer
<1>3. UNCHANGED <<lifecycle, access, boundary, overlapped>>
  BY DEF Scope, Commit
<1>4. TypeOK'
  BY <1>1, <1>2, <1>3 DEF IInv, TypeOK, Sessions, Lifecycles
<1>5. OpenInStage' /\ ReadStands' /\ AloneInStage'
  BY <1>1, <1>2, <1>3, SessionsCarriedOn DEF Located
<1>6. session[r].boundary \subseteq boundary
  BY <1>2 DEF IInv, ReadStands
<1>7. AdmittedOnEvidence'
  <2>1. \A a \in Addresses :
            /\ address'[a].scope # "UNRESOLVED" => Located(address'[a]) /\ boundary' # {}
            /\ Located(address'[a]) => a \notin Unresolved
    BY <1>1, <1>2, <1>3, <1>6 DEF IInv, ReadStands, AdmittedOnEvidence, Located
  <2>2. \A l \in Listings :
           /\ lifecycle'[l] = "ACTIVE" => l \notin Oversized
           /\ lifecycle'[l] \in {"ACTIVE", "EXCLUDED"} /\ l \notin Oversized
                  => address'[AddressOf[l]].scope # "UNRESOLVED"
           /\ access'[l] # {} => Located(address'[AddressOf[l]])
    BY <1>1, <1>3, AddressOfListing DEF IInv, AdmittedOnEvidence, Located
  <2> QED BY <2>1, <2>2 DEF AdmittedOnEvidence, Located
\* Alone in the stage, the session judges only what has no verdict.
<1>8. ASSUME ~overlapped, NEW a \in Addresses, address'[a].scope # address[a].scope
      PROVE  /\ address[a].scope = "UNRESOLVED"
             /\ address[a].place = session[r].address[a].place
  BY <1>1, <1>2, <1>8 DEF IInv, ReadIsCurrent
<1>9. ReadIsCurrent'
  <2> SUFFICES ASSUME ~overlapped', NEW s \in Refreshes, Open(s)'
               PROVE  /\ \A a \in Addresses :
                             LET seen == session'[s].address[a] IN
                             /\ Located(seen) \/ stage'[s] = "geocode"
                                    => address'[a].place = seen.place
                             /\ seen.scope # "UNRESOLVED" \/ stage'[s] = "scope"
                                    => address'[a].scope = seen.scope
                      /\ stage'[s] = "transit" => access' = session'[s].access
    BY DEF ReadIsCurrent, Located
  <2>1. ~overlapped /\ s # r /\ Open(s) /\ session'[s] = session[s] /\ stage'[s] = stage[s]
    BY <1>2, <1>3 DEF Fewer
  <2>2. stage[s] # "scope"
    BY <1>2, <2>1 DEF IInv, AloneInStage
  <2>3. ASSUME NEW a \in Addresses
        PROVE  /\ Located(session[s].address[a]) \/ stage[s] = "geocode"
                      => address'[a].place = session[s].address[a].place
               /\ session[s].address[a].scope # "UNRESOLVED"
                      => address'[a].scope = session[s].address[a].scope
    BY <1>1, <1>8, <2>1 DEF IInv, ReadIsCurrent
  <2> QED BY <1>3, <2>1, <2>2, <2>3 DEF IInv, ReadIsCurrent
<1>10. VerdictsFollowPoint'
  <2> SUFFICES ASSUME ~overlapped' PROVE VerdictsFollowPoint'
    BY DEF VerdictsFollowPoint
  <2>0. ~overlapped
    BY <1>3
  <2>1. ASSUME NEW a \in Addresses
        PROVE  /\ address'[a].scope = "IN_SCOPE"
                      => RegionOf[address'[a].place.point] \in boundary'
               /\ Located(address'[a]) <=> address'[a].status = "VALID"
    <3>1. CASE address'[a].scope = address[a].scope
      BY <1>1, <1>3, <2>0, <3>1 DEF IInv, VerdictsFollowPoint, Located
    <3>2. CASE address'[a].scope # address[a].scope
      <4>1. address'[a].scope = Verdict(session[r], a)
            /\ address'[a].place = session[r].address[a].place
        BY <1>1, <1>8, <2>0, <3>2
      <4>2. address'[a].scope = "IN_SCOPE" => RegionOf[address'[a].place.point] \in boundary'
        BY <1>3, <1>6, <4>1 DEF Verdict
      <4> QED BY <1>1, <2>0, <4>2 DEF IInv, VerdictsFollowPoint, Located
    <3> QED BY <3>1, <3>2
  <2>2. ASSUME NEW l \in Listings
        PROVE  LET a == address'[AddressOf[l]] IN
               /\ lifecycle'[l] = "ACTIVE" => a.scope = "IN_SCOPE" /\ a.place.precision = "FINE"
               /\ lifecycle'[l] = "EXCLUDED" /\ l \notin Oversized => a.scope = "OUT_OF_SCOPE"
               /\ \A row \in access'[l] : row.place = a.place
               /\ \A one, other \in access'[l] : one = other
    <3>1. AddressOf[l] \in Addresses
      BY AddressOfListing
    <3>2. address[AddressOf[l]].scope # "UNRESOLVED"
              => address'[AddressOf[l]].scope = address[AddressOf[l]].scope
      BY <1>8, <2>0, <3>1
    <3> QED BY <1>1, <1>3, <2>0, <3>1, <3>2 DEF IInv, VerdictsFollowPoint
  <2> QED BY <2>1, <2>2 DEF VerdictsFollowPoint, Located
<1> QED BY <1>4, <1>5, <1>7, <1>9, <1>10 DEF IInv

LEMMA TransitIInv ==
    ASSUME IInv, NEW r \in Refreshes, Transit(r)
    PROVE  IInv'
<1>1. /\ access' \in [Listings -> SUBSET AccessRows]
      /\ \A l \in Listings :
             LET origin == session[r].address[AddressOf[l]] IN
             \/ access'[l] = access[l]
             \/ /\ Located(origin)
                /\ access'[l] = (access[l] \ session[r].access[l])
                                    \cup {[by |-> r, place |-> origin.place]}
  BY TransitEffect DEF IInv
<1>2. /\ Open(r) /\ stage[r] = "transit" /\ Fewer
      /\ stage' \in [Refreshes -> {"idle", "acquire", "finish"} \cup Stages \cup Ends]
      /\ session' \in [Refreshes -> Sessions]
      /\ \A s \in Refreshes : Open(s)' => s # r
  BY Committed DEF IInv, Transit, Stages, Fewer
<1>3. UNCHANGED <<address, lifecycle, boundary, overlapped>>
  BY DEF Transit, Commit
<1>4. TypeOK'
  BY <1>1, <1>2, <1>3 DEF IInv, TypeOK, Sessions, Lifecycles
<1>5. OpenInStage' /\ ReadStands' /\ AloneInStage'
  BY <1>2, <1>3, SessionsCarriedOn
<1>6. AdmittedOnEvidence'
  <2>1. ASSUME NEW l \in Listings, access'[l] # {}
        PROVE  Located(address[AddressOf[l]])
    <3>1. AddressOf[l] \in Addresses
      BY AddressOfListing
    <3> QED BY <1>1, <1>2, <2>1, <3>1 DEF IInv, AdmittedOnEvidence, ReadStands
  <2> QED BY <1>3, <2>1 DEF IInv, AdmittedOnEvidence, Located
<1>7. ReadIsCurrent'
  <2> SUFFICES ASSUME ~overlapped', NEW s \in Refreshes, Open(s)'
               PROVE  /\ \A a \in Addresses :
                             LET seen == session'[s].address[a] IN
                             /\ Located(seen) \/ stage'[s] = "geocode"
                                    => address'[a].place = seen.place
                             /\ seen.scope # "UNRESOLVED" \/ stage'[s] = "scope"
                                    => address'[a].scope = seen.scope
                      /\ stage'[s] # "transit"
    BY DEF ReadIsCurrent, Located
  <2>1. ~overlapped /\ s # r /\ Open(s) /\ session'[s] = session[s] /\ stage'[s] = stage[s]
    BY <1>2, <1>3 DEF Fewer
  <2>2. stage[s] # "transit"
    BY <1>2, <2>1 DEF IInv, AloneInStage
  <2> QED BY <1>3, <2>1, <2>2 DEF IInv, ReadIsCurrent
<1>8. VerdictsFollowPoint'
  <2> SUFFICES ASSUME ~overlapped' PROVE VerdictsFollowPoint'
    BY DEF VerdictsFollowPoint
  <2>0. ~overlapped /\ access = session[r].access
    BY <1>2, <1>3 DEF IInv, ReadIsCurrent
  <2>1. ASSUME NEW l \in Listings
        PROVE  /\ \A row \in access'[l] : row.place = address[AddressOf[l]].place
               /\ \A one, other \in access'[l] : one = other
    <3> DEFINE origin == session[r].address[AddressOf[l]]
    <3>1. AddressOf[l] \in Addresses
      BY AddressOfListing
    <3>2. CASE access'[l] = access[l]
      BY <2>0, <3>2 DEF IInv, VerdictsFollowPoint
    <3>3. CASE access'[l] # access[l]
      <4>1. Located(origin) /\ access'[l] = {[by |-> r, place |-> origin.place]}
        BY <1>1, <2>0, <3>3
      <4>2. address[AddressOf[l]].place = origin.place
        BY <1>2, <2>0, <3>1, <4>1 DEF IInv, ReadIsCurrent
      <4> QED BY <4>1, <4>2
    <3> QED BY <3>2, <3>3
  <2> QED BY <1>3, <2>0, <2>1 DEF IInv, VerdictsFollowPoint, Located
<1> QED BY <1>4, <1>5, <1>6, <1>7, <1>8 DEF IInv

LEMMA AdmissionIInv ==
    ASSUME IInv, NEW r \in Refreshes, Admission(r)
    PROVE  IInv'
<1>1. /\ lifecycle' \in [Listings -> Lifecycles]
      /\ \A l \in Listings :
             LET seen == session[r].address[AddressOf[l]] IN
             \/ lifecycle'[l] = lifecycle[l]
             \/ /\ lifecycle'[l] = "ACTIVE" /\ l \notin Oversized
                /\ seen.scope = "IN_SCOPE" /\ seen.place.precision = "FINE"
             \/ /\ lifecycle'[l] = "EXCLUDED"
                /\ l \in Oversized \/ seen.scope = "OUT_OF_SCOPE"
  BY AdmissionEffect DEF IInv
<1>2. /\ Open(r) /\ Fewer
      /\ stage' \in [Refreshes -> {"idle", "acquire", "finish"} \cup Stages \cup Ends]
      /\ session' \in [Refreshes -> Sessions]
  BY Committed DEF IInv, Admission, Stages, Fewer
<1>3. UNCHANGED <<address, access, boundary, overlapped>>
  BY DEF Admission, Commit
<1>4. TypeOK'
  BY <1>1, <1>2, <1>3 DEF IInv, TypeOK, Sessions, Lifecycles
<1>5. OpenInStage' /\ ReadStands' /\ AloneInStage'
  BY <1>2, <1>3, SessionsCarriedOn
<1>6. AdmittedOnEvidence'
  <2>1. ASSUME NEW l \in Listings
        PROVE  /\ lifecycle'[l] = "ACTIVE" => l \notin Oversized
               /\ lifecycle'[l] \in {"ACTIVE", "EXCLUDED"} /\ l \notin Oversized
                      => address[AddressOf[l]].scope # "UNRESOLVED"
    BY <1>1, <1>2, AddressOfListing DEF IInv, AdmittedOnEvidence, ReadStands
  <2> QED BY <1>3, <2>1 DEF IInv, AdmittedOnEvidence, Located
<1>7. ReadIsCurrent'
  BY <1>2, <1>3 DEF IInv, ReadIsCurrent, Fewer
<1>8. VerdictsFollowPoint'
  <2> SUFFICES ASSUME ~overlapped' PROVE VerdictsFollowPoint'
    BY DEF VerdictsFollowPoint
  <2>1. ASSUME NEW l \in Listings
        PROVE  LET a == address[AddressOf[l]] IN
               /\ lifecycle'[l] = "ACTIVE" => a.scope = "IN_SCOPE" /\ a.place.precision = "FINE"
               /\ lifecycle'[l] = "EXCLUDED" /\ l \notin Oversized => a.scope = "OUT_OF_SCOPE"
    <3> DEFINE seen == session[r].address[AddressOf[l]]
    <3>1. AddressOf[l] \in Addresses
      BY AddressOfListing
    <3>2. /\ seen.scope # "UNRESOLVED" => address[AddressOf[l]].scope = seen.scope
          /\ Located(seen) => address[AddressOf[l]].place = seen.place
      BY <1>2, <1>3, <3>1 DEF IInv, ReadIsCurrent
    <3>3. seen.place.precision = "FINE" => Located(seen)
      BY DEF Located, Nowhere
    <3>4. CASE lifecycle'[l] = lifecycle[l]
      BY <1>3, <3>4 DEF IInv, VerdictsFollowPoint
    <3>5. CASE lifecycle'[l] # lifecycle[l]
      BY <1>1, <3>2, <3>3, <3>5
    <3> QED BY <3>4, <3>5
  <2> QED BY <1>3, <2>1 DEF IInv, VerdictsFollowPoint, Located
<1> QED BY <1>4, <1>5, <1>6, <1>7, <1>8 DEF IInv

LEMMA ReadIInv ==
    ASSUME IInv, NEW r \in Refreshes, Read(r)
    PROVE  IInv'
<1> DEFINE now == [open |-> TRUE, address |-> address, lifecycle |-> lifecycle,
                   access |-> access, boundary |-> boundary]
<1>0. /\ stage[r] \in Stages /\ session' = [session EXCEPT ![r] = now]
      /\ overlapped' = (overlapped \/ \E s \in Refreshes : Open(s) /\ stage[s] = stage[r])
      /\ UNCHANGED <<address, lifecycle, access, boundary, stage>>
  BY DEF Read, inventory
<1>1. now \in Sessions
  BY DEF IInv, TypeOK, Sessions, Lifecycles
<1>2. TypeOK'
  <2>1. session' \in [Refreshes -> Sessions]
    BY <1>0, <1>1, Typed DEF IInv
  <2>2. overlapped' \in BOOLEAN
    BY <1>0 DEF IInv, TypeOK
  <2> QED BY <1>0, <2>1, <2>2 DEF IInv, TypeOK, Sessions, Lifecycles
<1>3. /\ session'[r] = now /\ now.open = TRUE /\ now.address = address
      /\ now.access = access /\ now.boundary = boundary
      /\ \A s \in Refreshes : s # r => session'[s] = session[s]
  BY <1>0, Typed DEF IInv
<1> HIDE DEF now
<1>4. \A s \in Refreshes : s # r /\ Open(s)' => Open(s)
  BY <1>3 DEF Open
<1>5. OpenInStage'
  BY <1>0, <1>4 DEF IInv, OpenInStage
<1>6. ReadStands'
  BY <1>0, <1>3, <1>4 DEF IInv, ReadStands, Located
<1>7. AdmittedOnEvidence'
  BY <1>0 DEF IInv, AdmittedOnEvidence, Located
<1>8. ~overlapped' => ~overlapped /\ \A s \in Refreshes : Open(s) => stage[s] # stage[r]
  BY <1>0
<1>9. AloneInStage'
  BY <1>0, <1>4, <1>8 DEF IInv, AloneInStage
<1>10. ReadIsCurrent'
  BY <1>0, <1>3, <1>4, <1>8 DEF IInv, ReadIsCurrent, Located
<1>11. VerdictsFollowPoint'
  BY <1>0, <1>8 DEF IInv, VerdictsFollowPoint, Located
<1> QED BY <1>2, <1>5, <1>6, <1>7, <1>9, <1>10, <1>11 DEF IInv

LEMMA NextIInv == IInv /\ [Next]_vars => IInv'
<1> SUFFICES ASSUME IInv, [Next]_vars PROVE IInv'
  OBVIOUS
<1>1. ASSUME NEW r \in Refreshes,
             \/ Begin(r) \/ Acquired(r) \/ Read(r)
             \/ \E l \in Listings : Normalize(r, l)
             \/ Geocode(r) \/ Scope(r) \/ Transit(r) \/ Admission(r)
             \/ \E status \in {"SUCCEEDED", "PARTIAL_SUCCESS"} : Finish(r, status)
             \/ Die(r)
      PROVE  IInv'
  BY <1>1, BeginIInv, AcquiredIInv, ReadIInv, NormalizeIInv, GeocodeIInv, ScopeIInv,
     TransitIInv, AdmissionIInv, FinishIInv, DieIInv
<1>2. CASE UNCHANGED vars
  <2>1. Fewer /\ UNCHANGED <<inventory, overlapped>> /\ boundary \subseteq boundary'
    BY <1>2 DEF vars, inventory, Fewer, Open
  <2>2. TypeOK'
    BY <1>2 DEF vars, IInv, TypeOK
  <2> QED BY <2>1, <2>2, InventoryUntouched DEF IInv
<1> QED BY <1>1, <1>2, LoadBoundaryIInv DEF Next

\* The invariant holds of every behaviour: admission, scope and the stops near
\* a listing rest on what is on record (run_weekday_refresh and its stages).
THEOREM Invariant == Spec => []IInv
<1> QED BY InitIInv, NextIInv, PTL DEF Spec

\* Every table and session holds values of its type.
THEOREM TypeCorrect == Spec => []TypeOK
<1>1. IInv => TypeOK
  BY DEF IInv
<1> QED BY <1>1, Invariant, PTL

\* A listing is advertised or excluded for its geography only at an address
\* that is no placeholder, was located and judged (_evaluate_one), however many
\* refreshes overlap.
THEOREM AdmissionNeedsEvidence == Spec => []AdmittedOnEvidence
<1>1. IInv => AdmittedOnEvidence
  BY DEF IInv
<1> QED BY <1>1, Invariant, PTL

\* Without two sessions in one stage what was concluded from a location agrees
\* with the location on record.
THEOREM ConclusionsFollowLocations == Spec => []VerdictsFollowPoint
<1>1. IInv => VerdictsFollowPoint
  BY DEF IInv
<1> QED BY <1>1, Invariant, PTL

=============================================================================
