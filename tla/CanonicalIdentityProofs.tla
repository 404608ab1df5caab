---------------------- MODULE CanonicalIdentityProofs ----------------------
(***************************************************************************)
(* Proofs about listing identity, for any advertisements, units, workers   *)
(* and human decisions.                                                    *)
(***************************************************************************)
EXTENDS CanonicalIdentity, FiniteSetTheorems, WellFoundedInduction, TLAPS

-----------------------------------------------------------------------------
(* Typing.                                                                  *)

Row == [life : Lives \cup {"ABSENT"}, unit : Units \cup {NoUnit}, rent : Rents \cup {NoRent}]
Merge == [source : Ids, target : Ids, moved : SUBSET Ads, standing : BOOLEAN]
VerdictValues == {"none", "PENDING", "DUPLICATE", "DISTINCT"}

Typed ==
    /\ listing \in [Ids -> Row]
    /\ link \in [Ads -> Ids \cup {0}]
    /\ unitRows \in [Units -> Nat]
    /\ verdict \in [Pairs -> VerdictValues]
    /\ merges \in Seq(Merge)
    /\ work \in [Workers -> Job]
    /\ origin \in [Ads -> Ids \cup {0}]
    /\ tangled \in BOOLEAN
    /\ raced \in BOOLEAN

LEMMA KindOfWork ==
    ASSUME NEW x \in Job
    PROVE  /\ x.kind = "update" => x.at \in Ids /\ x.ad \in Ads /\ x.rent \in Rents \cup {NoRent}
           /\ x.kind = "attach" => x.at \in Ids /\ x.ad \in Ads
           /\ x.kind = "create" => /\ x.ad \in Ads /\ x.unit \in Units \cup {NoUnit}
                                   /\ x.rent \in Rents \cup {NoRent} /\ x.newRow \in BOOLEAN
           /\ x.kind = "admit" => x.at \in Ids /\ x.life \in {"ACTIVE", "EXCLUDED"}
BY IdentityAssumption DEF Job, IdentityAssumption

LEMMA ReadTyped == ASSUME Typed, NEW w \in Workers, NEW item \in Job, Read(w, item)
                   PROVE  Typed'
BY DEF Typed, Read

LEMMA NoWorkIsJob == NoWork \in Job
BY DEF NoWork, Job

LEMMA AppendTyped == ASSUME NEW S, NEW s \in Seq(S), NEW e \in S
                     PROVE  /\ Append(s, e) \in Seq(S)
                            /\ Len(Append(s, e)) = Len(s) + 1
                            /\ \A n \in 1 .. Len(s) : Append(s, e)[n] = s[n]
                            /\ Append(s, e)[Len(s) + 1] = e
OBVIOUS

LEMMA DistinctPair == ASSUME NEW s, NEW t, {s, t} \in Pairs
                      PROVE  s # t /\ s \in Ids /\ t \in Ids
BY DEF Pairs

LEMMA InitTyped == Init => Typed
<1> SUFFICES ASSUME Init PROVE Typed
  OBVIOUS
<1>1. Absent \in Row
  BY DEF Absent, Row, NoRent
<1>2. merges \in Seq(Merge)
  BY DEF Init
<1> QED BY <1>1, <1>2, NoWorkIsJob DEF Init, Typed, VerdictValues

LEMMA NextTyped == Typed /\ [Next]_identityVars => Typed'
<1> SUFFICES ASSUME Typed, [Next]_identityVars PROVE Typed'
  OBVIOUS
<1>1. ASSUME NEW w \in Workers, NEW a \in Ads, NEW rent \in Rents \cup {NoRent},
             ReadLinked(w, a, rent)
      PROVE  Typed'
  <2> DEFINE item == [kind |-> "update", ad |-> a, rent |-> rent, at |-> link[a]]
  <2>1. item \in Job
    BY <1>1 DEF Typed, ReadLinked, Job
  <2> QED BY <1>1, <2>1, ReadTyped DEF ReadLinked
<1>2. ASSUME NEW w \in Workers, NEW a \in Ads, NEW unit \in Units, NEW l \in Ids,
             ReadSameUnit(w, a, unit, l)
      PROVE  Typed'
  <2>1. [kind |-> "attach", ad |-> a, at |-> l] \in Job
    BY DEF Job
  <2> QED BY <1>2, <2>1, ReadTyped DEF ReadSameUnit
<1>3. ASSUME NEW w \in Workers, NEW a \in Ads, NEW rent \in Rents, NEW l \in Ids,
             ReadStrongMatch(w, a, rent, l)
      PROVE  Typed'
  <2>1. [kind |-> "attach", ad |-> a, at |-> l] \in Job
    BY DEF Job
  <2> QED BY <1>3, <2>1, ReadTyped DEF ReadStrongMatch
<1>4. ASSUME NEW w \in Workers, NEW a \in Ads, NEW unit \in Units \cup {NoUnit},
             NEW rent \in Rents \cup {NoRent}, ReadNoMatch(w, a, unit, rent)
      PROVE  Typed'
  <2> DEFINE newRow == unit # NoUnit /\ unitRows[unit] = 0
  <2>1. newRow \in BOOLEAN
    OBVIOUS
  <2>2. [kind |-> "create", ad |-> a, unit |-> unit, rent |-> rent, newRow |-> newRow] \in Job
    <3> HIDE DEF newRow
    <3> QED BY <2>1 DEF Job
  <2> QED BY <1>4, <2>2, ReadTyped DEF ReadNoMatch
<1>5. ASSUME NEW w \in Workers, NEW l \in Ids, NEW life \in Admissions,
             ReadCandidate(w, l, life)
      PROVE  Typed'
  <2>1. [kind |-> "admit", at |-> l, life |-> life] \in Job
    BY DEF Job
  <2> QED BY <1>5, <2>1, ReadTyped DEF ReadCandidate
<1>6. ASSUME NEW w \in Workers, ApplyUpdate(w)
      PROVE  Typed'
  <2>1. work[w].at \in Ids /\ work[w].rent \in Rents \cup {NoRent}
    BY <1>6, KindOfWork DEF Typed, ApplyUpdate
  <2>2. listing' \in [Ids -> Row]
    BY <1>6, <2>1 DEF Typed, ApplyUpdate, Row
  <2> QED BY <1>6, <2>2, NoWorkIsJob DEF Typed, ApplyUpdate, Commit, Done, CommitsAmid
<1>7. ASSUME NEW w \in Workers, ApplyAttach(w)
      PROVE  Typed'
  <2>1. work[w].at \in Ids
    BY <1>7, KindOfWork DEF Typed, ApplyAttach
  <2> QED BY <1>7, <2>1, NoWorkIsJob DEF Typed, ApplyAttach, Commit, Done, CommitsAmid
<1>8. ASSUME NEW w \in Workers, NEW l \in Ids, ApplyCreate(w, l)
      PROVE  Typed'
  <2>1. work[w].unit \in Units \cup {NoUnit} /\ work[w].rent \in Rents \cup {NoRent}
    BY <1>8, KindOfWork DEF Typed, ApplyCreate
  <2>2. [life |-> "CANDIDATE", unit |-> work[w].unit, rent |-> work[w].rent] \in Row
    BY <2>1 DEF Row, Lives
  <2>3. listing' \in [Ids -> Row]
    BY <1>8, <2>2 DEF Typed, ApplyCreate
  <2>4. unitRows' \in [Units -> Nat]
    <3>1. CASE work[w].newRow
      <4>1. unitRows' = [unitRows EXCEPT ![work[w].unit] = @ + 1]
        BY <1>8, <3>1 DEF ApplyCreate
      <4>2. \A u \in Units : unitRows[u] \in Nat /\ unitRows[u] + 1 \in Nat
        BY DEF Typed
      <4> QED BY <4>1, <4>2 DEF Typed
    <3>2. CASE ~work[w].newRow
      BY <1>8, <3>2 DEF Typed, ApplyCreate
    <3> QED BY <3>1, <3>2
  <2>5. verdict' \in [Pairs -> VerdictValues]
    BY <1>8 DEF Typed, ApplyCreate, Proposed, VerdictValues
  <2> QED BY <1>8, <2>3, <2>4, <2>5, NoWorkIsJob
          DEF Typed, ApplyCreate, Commit, Done, CommitsAmid
<1>9. ASSUME NEW w \in Workers, ApplyConflicts(w) \/ Abort(w)
      PROVE  Typed'
  BY <1>9, NoWorkIsJob DEF Typed, ApplyConflicts, Abort, Done
<1>10. ASSUME NEW w \in Workers, ApplyAdmit(w)
       PROVE  Typed'
  <2>1. work[w].at \in Ids /\ work[w].life \in Lives
    BY <1>10, KindOfWork DEF Typed, ApplyAdmit, Lives
  <2>2. listing' \in [Ids -> Row]
    BY <1>10, <2>1 DEF Typed, ApplyAdmit, Row
  <2> QED BY <1>10, <2>2, NoWorkIsJob DEF Typed, ApplyAdmit, Commit, Done, CommitsAmid
<1>11. ASSUME NEW s \in Ids, NEW t \in Ids, ConfirmDuplicate(s, t)
       PROVE  Typed'
  <2> DEFINE record == [source |-> s, target |-> t, moved |-> LinksOf(s), standing |-> TRUE]
  <2>1. record \in Merge
    BY DEF Merge, LinksOf
  <2>2. merges' \in Seq(Merge)
    BY <1>11, <2>1, AppendTyped DEF Typed, ConfirmDuplicate, MergeListings
  <2>3. listing' \in [Ids -> Row]
    BY <1>11 DEF Typed, ConfirmDuplicate, MergeListings, Row, Lives
  <2>4. link' \in [Ads -> Ids \cup {0}]
    BY <1>11 DEF Typed, ConfirmDuplicate, MergeListings
  <2> QED BY <1>11, <2>2, <2>3, <2>4
          DEF Typed, ConfirmDuplicate, Human, CommitsAmid, VerdictValues
<1>12. ASSUME NEW pair \in Pairs, ConfirmDistinct(pair)
       PROVE  Typed'
  BY <1>12 DEF Typed, ConfirmDistinct, Human, CommitsAmid, VerdictValues
<1>13. ASSUME NEW m \in 1 .. Len(merges), ReverseMerge(m)
       PROVE  Typed'
  <2>1. merges[m] \in Merge
    BY DEF Typed
  <2>2. merges' \in Seq(Merge)
    <3>1. [merges[m] EXCEPT !.standing = FALSE] \in Merge
      BY <2>1 DEF Merge
    <3> QED BY <1>13, <3>1 DEF Typed, ReverseMerge
  <2>3. listing' \in [Ids -> Row]
    <3>1. merges[m].source \in Ids
      BY <2>1 DEF Merge
    <3>2. [listing[merges[m].source] EXCEPT !.life = "REVIEW_REQUIRED"] \in Row
      BY <3>1, Zenon DEF Typed, Row, Lives
    <3> QED BY <1>13, <3>1, <3>2 DEF Typed, ReverseMerge
  <2>4. link' \in [Ads -> Ids \cup {0}]
    BY <1>13, <2>1 DEF Typed, ReverseMerge, Returned, Merge
  <2>5. tangled' \in BOOLEAN
    BY <1>13 DEF Typed, ReverseMerge
  <2> QED BY <1>13, <2>2, <2>3, <2>4, <2>5
          DEF Typed, ReverseMerge, Human, CommitsAmid
<1>14. ASSUME UNCHANGED identityVars
       PROVE  Typed'
  BY <1>14 DEF identityVars, Typed
<1> QED BY <1>1, <1>2, <1>3, <1>4, <1>5, <1>6, <1>7, <1>8, <1>9, <1>10, <1>11, <1>12,
           <1>13, <1>14 DEF Next

-----------------------------------------------------------------------------
(* As long as nothing raced, what a worker has read is still so.            *)

\* What worker w is about to write agrees with the database.
Current(w) ==
    /\ work[w].kind = "attach" =>
         /\ Present(work[w].at) /\ listing[work[w].at].life # "MERGED"
         /\ listing[work[w].at].unit = NoUnit =>
              \A b \in LinksOf(work[w].at) : SourceOf[b] # SourceOf[work[w].ad]
    /\ work[w].kind = "create" =>
         /\ work[w].unit # NoUnit => HoldersOfUnit(work[w].unit) = {}
         /\ work[w].newRow => work[w].unit \in Units /\ unitRows[work[w].unit] = 0
    /\ work[w].kind = "admit" => listing[work[w].at].life = "CANDIDATE"
    /\ work[w].kind = "update" => Present(work[w].at)

\* Nothing refers to a listing that does not exist.
Grounded ==
    /\ \A a \in Ads : link[a] # 0 => Present(link[a])
    /\ \A m \in 1 .. Len(merges) : Present(merges[m].source) /\ Present(merges[m].target)
    /\ \A pair \in Pairs : verdict[pair] # "none" => \A l \in pair : Present(l)

UnitHeldOnce ==
    \A k, l \in Ids :
        /\ k # l
        /\ Present(k) /\ Present(l)
        /\ listing[k].unit # NoUnit /\ listing[k].unit = listing[l].unit
        => \E x \in {k, l} : listing[x].life \in {"MERGED", "REVIEW_REQUIRED"}

KeptApart ==
    \A a, b \in Ads :
        /\ a # b /\ SourceOf[a] = SourceOf[b]
        /\ link[a] # 0 /\ link[a] = link[b]
        /\ listing[link[a]].unit = NoUnit
        => \E m \in 1 .. Len(merges) : link[a] \in {merges[m].source, merges[m].target}

OneRow == \A u \in Units : unitRows[u] \in {0, 1}

Clean ==
    /\ \A w \in Workers : Current(w)
    /\ Grounded
    /\ OneRow
    /\ MergesSurviveRefreshes
    /\ UnitHeldOnce
    /\ KeptApart

IInv == Typed /\ (~raced => Clean)

\* The database, without what the workers have read.
databaseVars == <<listing, link, unitRows, verdict, merges>>

\* A step that changes only work keeps the rest.
LEMMA DatabaseKept ==
    ASSUME Clean, UNCHANGED databaseVars
    PROVE  /\ Grounded' /\ OneRow' /\ MergesSurviveRefreshes' /\ UnitHeldOnce' /\ KeptApart'
           /\ \A w \in Workers : work'[w] = work[w] => Current(w)'
BY DEF Clean, databaseVars, Grounded, OneRow, MergesSurviveRefreshes, UnitHeldOnce, KeptApart,
       Current, Present, LinksOf, HoldersOfUnit, Standing

LEMMA IdleIsCurrent == ASSUME NEW w \in Workers, work'[w] = NoWork PROVE Current(w)'
BY DEF Current, NoWork

\* A commit that races with nobody leaves no other work behind.
LEMMA AloneIsCurrent ==
    ASSUME Typed, NEW w \in Workers, Commit(w), ~raced'
    PROVE  ~raced /\ \A v \in Workers : Current(v)'
<1>1. ~raced /\ \A v \in Workers \ {w} : work[v] = NoWork
  BY DEF Commit, CommitsAmid
<1>2. \A v \in Workers : work'[v] = NoWork
  BY <1>1 DEF Commit, Done, Typed
<1> QED BY <1>1, <1>2, IdleIsCurrent

LEMMA HumanAlone ==
    ASSUME Typed, Human, UNCHANGED work, ~raced'
    PROVE  ~raced /\ \A v \in Workers : Current(v)'
BY IdleIsCurrent DEF Human, CommitsAmid

\* A read leaves the database alone.
LEMMA ReadKeepsClean ==
    ASSUME Typed, Clean, NEW w \in Workers, NEW item, Read(w, item), Current(w)'
    PROVE  Clean'
<1>1. UNCHANGED databaseVars
  BY DEF Read, databaseVars
<1>2. \A v \in Workers \ {w} : work'[v] = work[v]
  BY DEF Read, Typed
<1> QED BY <1>1, <1>2, DatabaseKept DEF Clean

LEMMA ReadItem == ASSUME Typed, NEW w \in Workers, NEW item, Read(w, item)
                  PROVE  work'[w] = item /\ raced' = raced /\ UNCHANGED databaseVars
BY DEF Read, Typed, databaseVars

LEMMA InitClean == Init => Clean
BY DEF Init, Clean, Grounded, OneRow, MergesSurviveRefreshes, UnitHeldOnce, KeptApart, Current,
       Present, Absent, NoWork, Standing

\* Reads: what was read is so.
LEMMA ReadsKeepClean ==
    ASSUME Typed, Clean, NEW w \in Workers,
           \/ \E a \in Ads, rent \in Rents \cup {NoRent} : ReadLinked(w, a, rent)
           \/ \E a \in Ads, unit \in Units, l \in Ids : ReadSameUnit(w, a, unit, l)
           \/ \E a \in Ads, rent \in Rents, l \in Ids : ReadStrongMatch(w, a, rent, l)
           \/ \E a \in Ads, unit \in Units \cup {NoUnit}, rent \in Rents \cup {NoRent} :
                 ReadNoMatch(w, a, unit, rent)
           \/ \E l \in Ids, life \in Admissions : ReadCandidate(w, l, life)
    PROVE  Clean'
<1>1. ASSUME NEW a \in Ads, NEW rent \in Rents \cup {NoRent}, ReadLinked(w, a, rent)
      PROVE  Clean'
  <2> DEFINE item == [kind |-> "update", ad |-> a, rent |-> rent, at |-> link[a]]
  <2>1. Read(w, item) /\ Present(link[a])
    BY <1>1 DEF ReadLinked, Clean, Grounded
  <2>2. work'[w] = item /\ UNCHANGED databaseVars
    BY <2>1, ReadItem
  <2>3. Current(w)'
    BY <2>1, <2>2 DEF Current, databaseVars, Present
  <2> QED BY <2>1, <2>3, ReadKeepsClean
<1>2. ASSUME NEW a \in Ads, NEW unit \in Units, NEW l \in Ids, ReadSameUnit(w, a, unit, l)
      PROVE  Clean'
  <2> DEFINE item == [kind |-> "attach", ad |-> a, at |-> l]
  <2>1. Read(w, item) /\ Present(l) /\ listing[l].life # "MERGED" /\ listing[l].unit # NoUnit
    BY <1>2, IdentityAssumption DEF ReadSameUnit, HoldersOfUnit, IdentityAssumption
  <2>2. work'[w] = item /\ UNCHANGED databaseVars
    BY <2>1, ReadItem
  <2>3. Current(w)'
    BY <2>1, <2>2 DEF Current, databaseVars, Present
  <2> QED BY <2>1, <2>3, ReadKeepsClean
<1>3. ASSUME NEW a \in Ads, NEW rent \in Rents, NEW l \in Ids, ReadStrongMatch(w, a, rent, l)
      PROVE  Clean'
  <2> DEFINE item == [kind |-> "attach", ad |-> a, at |-> l]
  <2>1. /\ Read(w, item) /\ Present(l) /\ listing[l].life # "MERGED"
        /\ \A b \in LinksOf(l) : SourceOf[b] # SourceOf[a]
    BY <1>3 DEF ReadStrongMatch, StrongMatches
  <2>2. work'[w] = item /\ UNCHANGED databaseVars
    BY <2>1, ReadItem
  <2>3. Current(w)'
    BY <2>1, <2>2 DEF Current, databaseVars, Present, LinksOf
  <2> QED BY <2>1, <2>3, ReadKeepsClean
<1>4. ASSUME NEW a \in Ads, NEW unit \in Units \cup {NoUnit}, NEW rent \in Rents \cup {NoRent},
             ReadNoMatch(w, a, unit, rent)
      PROVE  Clean'
  <2> DEFINE newRow == unit # NoUnit /\ unitRows[unit] = 0
             item == [kind |-> "create", ad |-> a, unit |-> unit, rent |-> rent,
                      newRow |-> newRow]
  <2>1. Read(w, item) /\ (unit # NoUnit => HoldersOfUnit(unit) = {})
    BY <1>4 DEF ReadNoMatch
  <2>2. work'[w] = item /\ UNCHANGED databaseVars
    BY <2>1, ReadItem
  <2>3. work'[w].kind = "create" /\ work'[w].unit = unit /\ work'[w].newRow = newRow
    <3> HIDE DEF newRow
    <3> QED BY <2>2
  <2>4. HoldersOfUnit(unit)' = HoldersOfUnit(unit) /\ unitRows' = unitRows
    BY <2>2 DEF databaseVars, HoldersOfUnit, Present
  <2>5. newRow => unit \in Units /\ unitRows[unit] = 0
    OBVIOUS
  <2>6. Current(w)'
    <3> HIDE DEF newRow, item
    <3> QED BY <2>1, <2>3, <2>4, <2>5 DEF Current, HoldersOfUnit, Present
  <2> QED BY <2>1, <2>6, ReadKeepsClean
<1>5. ASSUME NEW l \in Ids, NEW life \in Admissions, ReadCandidate(w, l, life)
      PROVE  Clean'
  <2> DEFINE item == [kind |-> "admit", at |-> l, life |-> life]
  <2>1. Read(w, item) /\ listing[l].life = "CANDIDATE"
    BY <1>5 DEF ReadCandidate
  <2>2. work'[w] = item /\ UNCHANGED databaseVars
    BY <2>1, ReadItem
  <2>3. Current(w)'
    BY <2>1, <2>2 DEF Current, databaseVars
  <2> QED BY <2>1, <2>3, ReadKeepsClean
<1> QED BY <1>1, <1>2, <1>3, <1>4, <1>5

LEMMA References ==
    ASSUME Typed
    PROVE  /\ \A a \in Ads : link[a] # 0 => link[a] \in Ids
           /\ \A m \in 1 .. Len(merges) : merges[m] \in Merge
           /\ \A m \in 1 .. Len(merges) : merges[m].source \in Ids /\ merges[m].target \in Ids
           /\ \A pair \in Pairs : pair \subseteq Ids
           /\ 0 \notin Ids
<1>1. \A a \in Ads : link[a] # 0 => link[a] \in Ids
  BY DEF Typed
<1>2. \A m \in 1 .. Len(merges) : merges[m] \in Merge
  BY DEF Typed
<1>3. \A x \in Merge : x.source \in Ids /\ x.target \in Ids
  BY DEF Merge
<1>4. \A pair \in Pairs : pair \subseteq Ids
  BY Zenon DEF Pairs
<1>5. 0 \notin Ids
  BY IdentityAssumption DEF Ids, IdentityAssumption
<1> QED BY <1>1, <1>2, <1>3, <1>4, <1>5

\* What the workers write.
LEMMA UpdateKeepsClean ==
    ASSUME Typed, Clean, ~raced', NEW w \in Workers, ApplyUpdate(w)
    PROVE  Clean'
<1>1. \A v \in Workers : Current(v)'
  BY AloneIsCurrent DEF ApplyUpdate
<1>2. work[w].at \in Ids
  BY KindOfWork DEF Typed, ApplyUpdate
<1>3. \A l \in Ids : listing'[l].life = listing[l].life /\ listing'[l].unit = listing[l].unit
  BY <1>2 DEF Typed, ApplyUpdate, Row
<1>4. UNCHANGED <<link, unitRows, verdict, merges>>
  BY DEF ApplyUpdate
<1>5. /\ \A a \in Ads : link[a] # 0 => link[a] \in Ids
      /\ \A m \in 1 .. Len(merges) : merges[m].source \in Ids /\ merges[m].target \in Ids
      /\ \A pair \in Pairs : pair \subseteq Ids
  BY References
<1>6. Grounded' /\ OneRow'
  BY <1>3, <1>4, <1>5 DEF Clean, Grounded, OneRow, Present
<1>7. MergesSurviveRefreshes'
  BY <1>3, <1>4, <1>5 DEF Clean, MergesSurviveRefreshes, Standing, LinksOf
<1>8. UnitHeldOnce'
  BY <1>3 DEF Clean, UnitHeldOnce, Present
<1>9. KeptApart'
  BY <1>3, <1>4, <1>5 DEF Clean, KeptApart
<1> QED BY <1>1, <1>6, <1>7, <1>8, <1>9 DEF Clean

LEMMA AttachKeepsClean ==
    ASSUME Typed, Clean, ~raced', NEW w \in Workers, ApplyAttach(w)
    PROVE  Clean'
<1> DEFINE ad == work[w].ad
           at == work[w].at
<1>1. \A v \in Workers : Current(v)'
  BY AloneIsCurrent DEF ApplyAttach
<1>2. at \in Ids /\ ad \in Ads
  BY KindOfWork DEF Typed, ApplyAttach
<1>3. /\ Present(at) /\ listing[at].life # "MERGED"
      /\ listing[at].unit = NoUnit => \A b \in LinksOf(at) : SourceOf[b] # SourceOf[ad]
  BY DEF Clean, Current, ApplyAttach
<1>4. /\ link[ad] = 0 /\ UNCHANGED <<listing, unitRows, verdict, merges>>
      /\ \A a \in Ads : link'[a] = IF a = ad THEN at ELSE link[a]
  BY <1>2 DEF Typed, ApplyAttach
<1> HIDE DEF ad, at
<1>5. Grounded' /\ OneRow' /\ UnitHeldOnce'
  BY <1>3, <1>4 DEF Clean, Grounded, OneRow, UnitHeldOnce, Present
<1>6. MergesSurviveRefreshes'
  BY <1>3, <1>4 DEF Clean, MergesSurviveRefreshes, Standing, LinksOf
<1>7. KeptApart'
  BY <1>2, <1>3, <1>4 DEF Clean, KeptApart, LinksOf
<1> QED BY <1>1, <1>5, <1>6, <1>7 DEF Clean

LEMMA CreateKeepsClean ==
    ASSUME Typed, Clean, ~raced', NEW w \in Workers, NEW l \in Ids, ApplyCreate(w, l)
    PROVE  Clean'
<1> DEFINE ad == work[w].ad
           unit == work[w].unit
           rent == work[w].rent
           newRow == work[w].newRow
<1>1. \A v \in Workers : Current(v)'
  BY AloneIsCurrent DEF ApplyCreate
<1>2. ad \in Ads
  BY KindOfWork DEF Typed, ApplyCreate
<1>3. /\ unit # NoUnit => HoldersOfUnit(unit) = {}
      /\ newRow => unit \in Units /\ unitRows[unit] = 0
  BY DEF Clean, Current, ApplyCreate
<1>4. /\ ~Present(l) /\ link[ad] = 0 /\ UNCHANGED merges
      /\ \A k \in Ids \ {l} : listing'[k] = listing[k]
      /\ listing'[l].life = "CANDIDATE" /\ listing'[l].unit = unit
      /\ \A a \in Ads : link'[a] = IF a = ad THEN l ELSE link[a]
      /\ verdict' = Proposed(l, rent)
  BY <1>2 DEF Typed, ApplyCreate
<1>5. unitRows' = IF newRow THEN [unitRows EXCEPT ![unit] = @ + 1] ELSE unitRows
  BY DEF ApplyCreate
<1> HIDE DEF ad, unit, rent, newRow
<1>6. Present(l)' /\ \A k \in Ids : Present(k) => Present(k)' /\ listing'[k] = listing[k]
  BY <1>4 DEF Present
<1>7. Grounded'
  <2>1. \A a \in Ads : link'[a] # 0 => Present(link[a])' \/ link'[a] = l
    BY <1>4, <1>6, References DEF Clean, Grounded
  <2>2. \A a \in Ads : link'[a] # 0 => listing'[link'[a]].life # "ABSENT"
    BY <1>4, <1>6, References DEF Clean, Grounded, Present
  <2>3. \A m \in 1 .. Len(merges) : Present(merges[m].source)' /\ Present(merges[m].target)'
    BY <1>4, <1>6, References DEF Clean, Grounded, Present
  <2>4. ASSUME NEW pair \in Pairs, verdict'[pair] # "none", NEW k \in pair
        PROVE  listing'[k].life # "ABSENT"
    <3>1. k \in Ids
      BY References
    <3>2. CASE verdict[pair] # "none"
      BY <1>6, <3>1, <3>2 DEF Clean, Grounded, Present
    <3>3. CASE verdict[pair] = "none"
      <4>1. l \in pair /\ \E j \in pair \ {l} : Present(j)
        BY <1>4, <2>4, <3>3 DEF Proposed
      <4>2. PICK j \in pair \ {l} : Present(j)
        BY <4>1
      <4>3. pair = {l, j}
        BY <4>1, <4>2 DEF Pairs
      <4>4. j \in Ids
        BY <4>2, References
      <4> QED BY <1>6, <4>2, <4>3, <4>4 DEF Present
    <3> QED BY <3>2, <3>3
  <2> QED BY <1>4, <2>2, <2>3, <2>4 DEF Grounded, Present
<1>8. OneRow'
  BY <1>3, <1>5 DEF Clean, OneRow, Typed
<1>9. MergesSurviveRefreshes'
  BY <1>4, <1>6, References DEF Clean, Grounded, MergesSurviveRefreshes, Standing, LinksOf
<1>10. UnitHeldOnce'
  BY <1>3, <1>4, <1>6 DEF Clean, UnitHeldOnce, HoldersOfUnit, Present
<1>11. KeptApart'
  BY <1>2, <1>4, <1>6, References DEF Clean, Grounded, KeptApart
<1> QED BY <1>1, <1>7, <1>8, <1>9, <1>10, <1>11 DEF Clean

LEMMA AdmitKeepsClean ==
    ASSUME Typed, Clean, ~raced', NEW w \in Workers, ApplyAdmit(w)
    PROVE  Clean'
<1> DEFINE at == work[w].at
<1>1. \A v \in Workers : Current(v)'
  BY AloneIsCurrent DEF ApplyAdmit
<1>2. at \in Ids /\ work[w].life \in {"ACTIVE", "EXCLUDED"} /\ listing[at].life = "CANDIDATE"
  BY KindOfWork DEF Typed, ApplyAdmit, Clean, Current
<1>3. /\ \A l \in Ids \ {at} : listing'[l] = listing[l]
      /\ listing'[at].life \in {"ACTIVE", "EXCLUDED"} /\ listing'[at].unit = listing[at].unit
      /\ UNCHANGED <<link, unitRows, verdict, merges>>
  BY <1>2 DEF Typed, ApplyAdmit, Row
<1> HIDE DEF at
<1>4. \A l \in Ids : /\ Present(l) <=> Present(l)'
                     /\ listing'[l].unit = listing[l].unit
                     /\ listing[l].life \in {"MERGED", "REVIEW_REQUIRED"} => l # at
  BY <1>2, <1>3 DEF Present
<1>5. Grounded' /\ OneRow'
  BY <1>3, <1>4, References DEF Clean, Grounded, OneRow, Present
<1>6. MergesSurviveRefreshes'
  BY <1>3, <1>4, References DEF Clean, MergesSurviveRefreshes, Standing, LinksOf
<1>7. UnitHeldOnce'
  BY <1>3, <1>4 DEF Clean, UnitHeldOnce
<1>8. KeptApart'
  BY <1>3, <1>4, References DEF Clean, KeptApart
<1> QED BY <1>1, <1>5, <1>6, <1>7, <1>8 DEF Clean

\* What a human decides.
LEMMA ConfirmDuplicateKeepsClean ==
    ASSUME Typed, Clean, ~raced', NEW s \in Ids, NEW t \in Ids, ConfirmDuplicate(s, t)
    PROVE  Clean'
<1> DEFINE record == [source |-> s, target |-> t, moved |-> LinksOf(s), standing |-> TRUE]
           new == Len(merges) + 1
<1>1. \A v \in Workers : Current(v)'
  BY HumanAlone DEF ConfirmDuplicate
<1>2. s # t /\ Present(s) /\ Present(t)
  BY DistinctPair DEF ConfirmDuplicate, Clean, Grounded
<1>3. /\ listing[s].life # "MERGED" /\ listing[t].life # "MERGED"
      /\ listing'[s].life = "MERGED" /\ listing'[s].unit = listing[s].unit
      /\ \A l \in Ids \ {s} : listing'[l] = listing[l]
      /\ \A a \in Ads : link'[a] = IF link[a] = s THEN t ELSE link[a]
      /\ UNCHANGED unitRows
      /\ \A pair \in Pairs : verdict'[pair] # "none" => verdict[pair] # "none"
  BY DEF Typed, Row, ConfirmDuplicate, MergeListings
<1>4. /\ Len(merges) \in Nat /\ Len(merges') = new
      /\ \A m \in 1 .. Len(merges) : merges'[m] = merges[m]
      /\ merges'[new].source = s /\ merges'[new].target = t /\ merges'[new].standing
  <2>1. record \in Merge
    BY DEF Merge, LinksOf
  <2>2. merges' = Append(merges, record)
    BY DEF ConfirmDuplicate, MergeListings
  <2>3. merges \in Seq(Merge)
    BY DEF Typed
  <2> HIDE DEF record
  <2>4. merges'[new] = record /\ Len(merges') = new
        /\ \A m \in 1 .. Len(merges) : merges'[m] = merges[m]
    BY <2>1, <2>2, <2>3, AppendTyped
  <2>5. record.source = s /\ record.target = t /\ record.standing
    BY DEF record
  <2> QED BY <2>3, <2>4, <2>5
<1>5. \A l \in Ids : /\ Present(l) => Present(l)'
                     /\ listing'[l].unit = listing[l].unit
                     /\ Present(l)' => Present(l)
  BY <1>2, <1>3 DEF Present
<1>6. 1 .. Len(merges') = (1 .. Len(merges)) \cup {new}
  BY <1>4
<1> HIDE DEF record, new
<1>7. Grounded'
  <2>1. \A a \in Ads : link'[a] # 0 => listing'[link'[a]].life # "ABSENT"
    BY <1>2, <1>3, <1>5, References DEF Clean, Grounded, Present
  <2>2. \A m \in 1 .. Len(merges') : /\ listing'[merges'[m].source].life # "ABSENT"
                                     /\ listing'[merges'[m].target].life # "ABSENT"
    BY <1>2, <1>4, <1>5, <1>6, References DEF Clean, Grounded, Present
  <2>3. \A pair \in Pairs : verdict'[pair] # "none" =>
          \A l \in pair : listing'[l].life # "ABSENT"
    BY <1>3, <1>5, References DEF Clean, Grounded, Present
  <2> QED BY <2>1, <2>2, <2>3 DEF Grounded, Present
<1>8. OneRow'
  BY <1>3 DEF Clean, OneRow
<1>9. MergesSurviveRefreshes'
  <2>1. Standing' = Standing \cup {new}
    BY <1>4, <1>6 DEF Standing
  <2>2. \A m \in Standing : /\ merges'[m] = merges[m] /\ merges[m].source \in Ids
                            /\ merges[m].source # s /\ merges[m].source # t
    BY <1>3, <1>4, References DEF Clean, MergesSurviveRefreshes, Standing
  <2>3. \A m \in Standing : /\ listing'[merges'[m].source].life = "MERGED"
                            /\ \A a \in Ads : link'[a] # merges'[m].source
    BY <1>3, <2>2 DEF Clean, MergesSurviveRefreshes, LinksOf
  <2>4. listing'[merges'[new].source].life = "MERGED"
        /\ \A a \in Ads : link'[a] # merges'[new].source
    BY <1>2, <1>3, <1>4
  <2>5. \A m, n \in Standing' : merges'[m].source = merges'[n].source => m = n
    BY <1>4, <2>1, <2>2 DEF Clean, MergesSurviveRefreshes
  <2> QED BY <2>1, <2>3, <2>4, <2>5 DEF MergesSurviveRefreshes, LinksOf
<1>10. UnitHeldOnce'
  BY <1>3, <1>5 DEF Clean, UnitHeldOnce
<1>11. KeptApart'
  <2> SUFFICES ASSUME NEW a \in Ads, NEW b \in Ads, a # b, SourceOf[a] = SourceOf[b],
                      link'[a] # 0, link'[a] = link'[b], listing'[link'[a]].unit = NoUnit
               PROVE  \E m \in 1 .. Len(merges') :
                        link'[a] \in {merges'[m].source, merges'[m].target}
    BY DEF KeptApart
  <2>1. CASE link'[a] = t
    BY <1>4, <1>6, <2>1
  <2>2. CASE link'[a] # t
    <3>1. link[a] = link'[a] /\ link[b] = link'[b] /\ listing[link[a]].unit = NoUnit
      BY <1>3, <1>5, <2>2, References
    <3>2. PICK m \in 1 .. Len(merges) : link[a] \in {merges[m].source, merges[m].target}
      BY <3>1 DEF Clean, KeptApart
    <3> QED BY <1>4, <1>6, <3>1, <3>2
  <2> QED BY <2>1, <2>2
<1> QED BY <1>1, <1>7, <1>8, <1>9, <1>10, <1>11 DEF Clean

LEMMA ConfirmDistinctKeepsClean ==
    ASSUME Typed, Clean, ~raced', NEW pair \in Pairs, ConfirmDistinct(pair)
    PROVE  Clean'
<1>1. \A v \in Workers : Current(v)'
  BY HumanAlone DEF ConfirmDistinct
<1>2. /\ UNCHANGED <<listing, link, unitRows, merges>>
      /\ \A p \in Pairs : verdict'[p] # "none" => verdict[p] # "none"
  BY DEF Typed, ConfirmDistinct
<1>3. Grounded'
  BY <1>2 DEF Clean, Grounded, Present
<1>4. OneRow' /\ MergesSurviveRefreshes' /\ UnitHeldOnce' /\ KeptApart'
  BY <1>2 DEF Clean, OneRow, MergesSurviveRefreshes, UnitHeldOnce, KeptApart, Present, LinksOf,
              Standing
<1> QED BY <1>1, <1>3, <1>4 DEF Clean

LEMMA ReverseMergeKeepsClean ==
    ASSUME Typed, Clean, ~raced', NEW m \in 1 .. Len(merges), ReverseMerge(m)
    PROVE  Clean'
<1> DEFINE s == merges[m].source
<1>1. \A v \in Workers : Current(v)'
  BY HumanAlone DEF ReverseMerge
<1>2. s \in Ids /\ m \in Standing /\ listing[s].life = "MERGED"
  BY References DEF ReverseMerge, Clean, MergesSurviveRefreshes, Standing
<1>3. /\ listing'[s].life = "REVIEW_REQUIRED" /\ listing'[s].unit = listing[s].unit
      /\ \A l \in Ids \ {s} : listing'[l] = listing[l]
      /\ \A a \in Ads : link'[a] = s \/ link'[a] = link[a]
      /\ UNCHANGED <<unitRows, verdict>>
  BY <1>2 DEF Typed, Row, ReverseMerge, Returned
<1>4. /\ Len(merges') = Len(merges)
      /\ \A n \in 1 .. Len(merges) : /\ merges'[n].source = merges[n].source
                                     /\ merges'[n].target = merges[n].target
                                     /\ merges'[n].standing <=> merges[n].standing /\ n # m
  <2>1. merges' = [merges EXCEPT ![m] = [merges[m] EXCEPT !.standing = FALSE]]
    BY DEF ReverseMerge
  <2>2. merges \in Seq(Merge) /\ merges[m] \in Merge
    BY References DEF Typed
  <2>3. LET x == [merges[m] EXCEPT !.standing = FALSE]
        IN  x.source = merges[m].source /\ x.target = merges[m].target /\ x.standing = FALSE
    BY <2>2 DEF Merge
  <2> QED BY <2>1, <2>2, <2>3
<1>5. \A l \in Ids : Present(l) => Present(l)' /\ listing'[l].unit = listing[l].unit
  BY <1>3 DEF Present
<1>6. \A l \in Ids : Present(l)' => Present(l)
  BY <1>2, <1>3 DEF Present
<1> HIDE DEF s
<1>7. Grounded'
  BY <1>2, <1>3, <1>4, <1>5, References DEF Clean, Grounded, Present
<1>8. OneRow'
  BY <1>3 DEF Clean, OneRow
<1>9. MergesSurviveRefreshes'
  <2>1. Standing' = Standing \ {m}
    BY <1>4 DEF Standing
  <2>2. \A n \in Standing \ {m} : /\ merges'[n].source = merges[n].source
                                  /\ merges[n].source # s /\ merges[n].source \in Ids
    BY <1>2, <1>4, References DEF Clean, MergesSurviveRefreshes, Standing, s
  <2> QED BY <1>3, <2>1, <2>2 DEF Clean, MergesSurviveRefreshes, LinksOf
<1>10. UnitHeldOnce'
  BY <1>3, <1>5, <1>6 DEF Clean, UnitHeldOnce
<1>11. KeptApart'
  <2>1. s = merges'[m].source
    BY <1>4 DEF s
  <2> QED BY <1>3, <1>4, <1>5, <2>1, References DEF Clean, KeptApart
<1> QED BY <1>1, <1>7, <1>8, <1>9, <1>10, <1>11 DEF Clean

\* Workers and humans cannot unrace what raced.
LEMMA RacedForGood == ASSUME Typed, Next, raced PROVE raced'
BY DEF Next, ReadLinked, ReadSameUnit, ReadStrongMatch, ReadNoMatch, ReadCandidate, Read,
       ApplyUpdate, ApplyAttach, ApplyCreate, ApplyConflicts, ApplyAdmit, Abort,
       Commit, ConfirmDuplicate, ConfirmDistinct, ReverseMerge, Human, CommitsAmid

LEMMA NextKeepsClean == ASSUME Typed, ~raced => Clean, Next, ~raced' PROVE Clean'
<1>1. Clean
  BY RacedForGood
<1>2. CASE \E w \in Workers, a \in Ads, rent \in Rents \cup {NoRent} : ReadLinked(w, a, rent)
  BY <1>1, <1>2, ReadsKeepClean
<1>3. CASE \E w \in Workers, a \in Ads, unit \in Units, l \in Ids : ReadSameUnit(w, a, unit, l)
  BY <1>1, <1>3, ReadsKeepClean
<1>4. CASE \E w \in Workers, a \in Ads, rent \in Rents, l \in Ids :
             ReadStrongMatch(w, a, rent, l)
  BY <1>1, <1>4, ReadsKeepClean
<1>5. CASE \E w \in Workers, a \in Ads, unit \in Units \cup {NoUnit},
              rent \in Rents \cup {NoRent} : ReadNoMatch(w, a, unit, rent)
  BY <1>1, <1>5, ReadsKeepClean
<1>6. CASE \E w \in Workers, l \in Ids, life \in Admissions : ReadCandidate(w, l, life)
  BY <1>1, <1>6, ReadsKeepClean
<1>7. ASSUME NEW w \in Workers, ApplyConflicts(w) \/ Abort(w)
      PROVE  Clean'
  <2>1. UNCHANGED databaseVars /\ Done(w)
    BY <1>7 DEF ApplyConflicts, Abort, databaseVars
  <2>2. /\ \A v \in Workers \ {w} : work'[v] = work[v]
        /\ work'[w] = NoWork
    BY <2>1 DEF Done, Typed
  <2>3. \A v \in Workers : Current(v)'
    BY <1>1, <2>1, <2>2, DatabaseKept, IdleIsCurrent
  <2> QED BY <1>1, <2>1, <2>3, DatabaseKept DEF Clean
<1> QED BY <1>1, <1>2, <1>3, <1>4, <1>5, <1>6, <1>7, UpdateKeepsClean, AttachKeepsClean,
           CreateKeepsClean, AdmitKeepsClean, ConfirmDuplicateKeepsClean,
           ConfirmDistinctKeepsClean, ReverseMergeKeepsClean DEF Next

-----------------------------------------------------------------------------
(* The results.                                                             *)

\* Every reachable state of the identity tables is well typed, and what is
\* read stays true until it is written unless something commits in between
\* (normalization.py, merge_service.py, admission.py).
THEOREM Invariance == Spec => []IInv
<1>1. Init => IInv
  BY InitTyped, InitClean DEF IInv
<1>2. IInv /\ [Next]_identityVars => IInv'
  <2> SUFFICES ASSUME IInv, [Next]_identityVars PROVE IInv'
    OBVIOUS
  <2>1. Typed'
    BY NextTyped DEF IInv
  <2>2. CASE Next
    BY <2>1, <2>2, NextKeepsClean DEF IInv
  <2>3. CASE UNCHANGED identityVars
    <3>1. ~raced => Clean'
      BY <2>3, DatabaseKept DEF IInv, Clean, identityVars, databaseVars
    <3> QED BY <2>1, <2>3, <3>1 DEF IInv, identityVars
  <2> QED BY <2>2, <2>3
<1> QED BY <1>1, <1>2, PTL DEF Spec

\* Types, and at most one row for each unit of a building (normalization.py:199-226).
THEOREM TypeCorrect == Spec => []TypeOK
<1>1. IInv => TypeOK
  <2> SUFFICES ASSUME IInv PROVE TypeOK
    OBVIOUS
  <2>1. unitRows \in [Units -> IF raced THEN Nat ELSE {0, 1}]
    BY DEF IInv, Typed, Clean, OneRow
  <2> QED BY <2>1 DEF IInv, Typed, TypeOK, Row, Merge, VerdictValues
<1> QED BY <1>1, Invariance, PTL

\* A listing merged away keeps no advertisement and gets none, for any number
\* of merges and reversals (merge_service.py:5-9), while nothing races.
THEOREM SupersededForGood == Spec => []SupersededStaysEmpty
<1>1. IInv => SupersededStaysEmpty
  BY DEF IInv, Clean, SupersededStaysEmpty
<1> QED BY <1>1, Invariance, PTL

\* No two current listings describe one unit (normalization.py:207-218).
THEOREM UnitIdentity == Spec => []OneListingPerUnit
<1>1. IInv => OneListingPerUnit
  BY DEF IInv, Clean, OneListingPerUnit, UnitHeldOnce
<1> QED BY <1>1, Invariance, PTL

\* A match on rent and layout never puts two ads of one source together
\* (normalization.py:353-358).
THEOREM SourcesApart == Spec => []SameSourceKeptApart
<1>1. IInv => SameSourceKeptApart
  BY DEF IInv, Clean, SameSourceKeptApart, KeptApart
<1> QED BY <1>1, Invariance, PTL

\* A human verdict on a pair is never proposed again or changed
\* (normalization.py:469, merge_service.py:184-185), races or not.
THEOREM DurableVerdicts == Spec => VerdictsAreDurable
<1> DEFINE Kept == \A pair \in Pairs : verdict[pair] \in {"DUPLICATE", "DISTINCT"}
                                          => verdict'[pair] = verdict[pair]
<1>1. Typed /\ Next => Kept
  <2> SUFFICES ASSUME Typed, Next, NEW pair \in Pairs, verdict[pair] \in {"DUPLICATE", "DISTINCT"}
               PROVE  verdict'[pair] = verdict[pair]
    OBVIOUS
  <2>1. ASSUME NEW w \in Workers, NEW l \in Ids, ApplyCreate(w, l)
        PROVE  verdict'[pair] = verdict[pair]
    BY <2>1 DEF ApplyCreate, Proposed
  <2>2. ASSUME NEW s \in Ids, NEW t \in Ids, ConfirmDuplicate(s, t)
        PROVE  verdict'[pair] = verdict[pair]
    BY <2>2 DEF ConfirmDuplicate, Typed
  <2>3. ASSUME NEW p \in Pairs, ConfirmDistinct(p)
        PROVE  verdict'[pair] = verdict[pair]
    BY <2>3 DEF ConfirmDistinct, Typed
  <2>4. CASE UNCHANGED verdict
    BY <2>4
  <2> QED BY <2>1, <2>2, <2>3, <2>4
          DEF Next, ReadLinked, ReadSameUnit, ReadStrongMatch, ReadNoMatch, ReadCandidate, Read,
              ApplyUpdate, ApplyAttach, ApplyConflicts, ApplyAdmit, Abort, ReverseMerge
<1>2. Typed /\ [Next]_identityVars => [Kept]_identityVars
  BY <1>1
<1>3. IInv => Typed
  BY DEF IInv
<1> QED BY <1>2, <1>3, Invariance, PTL DEF Spec, VerdictsAreDurable

\* No job and no admission pass ever moves an advertisement from one listing to
\* another (normalization.py:109-116, uq_listing_source_link_native), races or not.
THEOREM LinksMovedByHumans == Spec => OnlyHumansMoveLinks
<1> DEFINE Moved == \A a \in Ads : link[a] # 0 /\ link'[a] # link[a] => merges' # merges
<1>1. Typed /\ Next => Moved
  <2> SUFFICES ASSUME Typed, Next, NEW a \in Ads, link[a] # 0, link'[a] # link[a]
               PROVE  merges' # merges
    OBVIOUS
  <2>1. ASSUME NEW w \in Workers, ApplyAttach(w) PROVE FALSE
    BY <2>1 DEF ApplyAttach, Typed
  <2>2. ASSUME NEW w \in Workers, NEW l \in Ids, ApplyCreate(w, l) PROVE FALSE
    BY <2>2 DEF ApplyCreate, Typed
  <2>3. ASSUME NEW s \in Ids, NEW t \in Ids, ConfirmDuplicate(s, t) PROVE merges' # merges
    <3>1. [source |-> s, target |-> t, moved |-> LinksOf(s), standing |-> TRUE] \in Merge
      BY DEF Merge, LinksOf
    <3>2. Len(merges') = Len(merges) + 1 /\ Len(merges) \in Nat
      BY <2>3, <3>1, AppendTyped DEF Typed, ConfirmDuplicate, MergeListings
    <3> QED BY <3>2
  <2>4. ASSUME NEW m \in 1 .. Len(merges), ReverseMerge(m) PROVE merges' # merges
    <3>1. merges[m].standing /\ merges[m] \in Merge /\ merges \in Seq(Merge)
      BY <2>4, References DEF ReverseMerge, Typed
    <3>2. merges'[m].standing = FALSE
      BY <2>4, <3>1 DEF ReverseMerge, Merge
    <3> QED BY <3>1, <3>2
  <2>5. CASE UNCHANGED link
    BY <2>5
  <2> QED BY <2>1, <2>2, <2>3, <2>4, <2>5
          DEF Next, ReadLinked, ReadSameUnit, ReadStrongMatch, ReadNoMatch, ReadCandidate, Read,
              ApplyUpdate, ApplyConflicts, ApplyAdmit, Abort, ConfirmDistinct
<1>2. Typed /\ [Next]_identityVars => [Moved]_identityVars
  BY <1>1
<1>3. IInv => Typed
  BY DEF IInv
<1> QED BY <1>2, <1>3, Invariance, PTL DEF Spec, OnlyHumansMoveLinks

-----------------------------------------------------------------------------
(* Where merges and reversals take an advertisement.                        *)

\* The standing merges that moved ad a.
Moving(a) == {m \in Standing : a \in merges[m].moved}

\* After those of them older than merge n, ad a is with listing l.
CameFrom(a, n, l) ==
    \/ l = origin[a] /\ \A k \in Moving(a) : k >= n
    \/ \E k \in Moving(a) : /\ k < n /\ merges[k].target = l
                            /\ \A j \in Moving(a) : j <= k \/ j >= n

\* Each of them took the ad from where the ones before had left it.
Chained(a) ==
    /\ \A m \in Moving(a) : CameFrom(a, m, merges[m].source)
    /\ CameFrom(a, Len(merges) + 1, link[a])

ChainInv ==
    /\ \A a \in Ads : link[a] # 0 => origin[a] \in Ids
    /\ \A m \in 1 .. Len(merges) : \A a \in merges[m].moved : link[a] # 0
    /\ ~tangled => \A a \in Ads : link[a] # 0 => Chained(a)

LEMMA InitChain == Init => ChainInv
BY DEF Init, ChainInv

\* What Chained says depends on the merges, the origin and the link alone.
LEMMA ChainedKept ==
    ASSUME NEW a \in Ads, Chained(a), UNCHANGED merges, origin'[a] = origin[a],
           link'[a] = link[a]
    PROVE  Chained(a)'
BY DEF Chained, CameFrom, Moving, Standing

LEMMA UntouchedKeepsChain ==
    ASSUME ChainInv, UNCHANGED <<link, merges, origin, tangled>>
    PROVE  ChainInv'
BY ChainedKept DEF ChainInv

\* A job gives an ad without a listing its first one.
LEMMA FirstLinkKeepsChain ==
    ASSUME Typed, ChainInv, NEW ad \in Ads, NEW at \in Ids, link[ad] = 0,
           link' = [link EXCEPT ![ad] = at], origin' = [origin EXCEPT ![ad] = at],
           UNCHANGED <<merges, tangled>>
    PROVE  ChainInv'
<1>1. /\ link'[ad] = at /\ origin'[ad] = at /\ at # 0
      /\ \A a \in Ads \ {ad} : link'[a] = link[a] /\ origin'[a] = origin[a]
  BY References DEF Typed
<1>2. Moving(ad)' = {}
  BY DEF ChainInv, Moving, Standing
<1>3. Chained(ad)'
  BY <1>1, <1>2 DEF Chained, CameFrom
<1>4. \A a \in Ads : link'[a] # 0 => origin'[a] \in Ids
  BY <1>1 DEF ChainInv
<1>5. \A m \in 1 .. Len(merges') : \A a \in merges'[m].moved : link'[a] # 0
  <2>1. \A m \in 1 .. Len(merges) : merges[m].moved \subseteq Ads
    BY References DEF Merge
  <2> QED BY <1>1, <2>1 DEF ChainInv
<1>6. ASSUME ~tangled', NEW a \in Ads, link'[a] # 0
      PROVE  Chained(a)'
  <2>1. CASE a = ad
    BY <1>3, <2>1
  <2>2. CASE a # ad
    BY <1>1, <1>6, <2>2, ChainedKept DEF ChainInv
  <2> QED BY <2>1, <2>2
<1> QED BY <1>4, <1>5, <1>6 DEF ChainInv

LEMMA ConfirmDuplicateKeepsChain ==
    ASSUME Typed, ChainInv, NEW s \in Ids, NEW t \in Ids, ConfirmDuplicate(s, t)
    PROVE  ChainInv'
<1> DEFINE record == [source |-> s, target |-> t, moved |-> LinksOf(s), standing |-> TRUE]
<1>0. PICK new \in Nat : new = Len(merges) + 1
  BY DEF Typed
<1>1. /\ Len(merges) \in Nat /\ Len(merges') = new
      /\ \A m \in 1 .. Len(merges) : merges'[m] = merges[m]
      /\ merges'[new].source = s /\ merges'[new].target = t /\ merges'[new].standing
      /\ merges'[new].moved = LinksOf(s)
  <2>1. record \in Merge
    BY DEF Merge, LinksOf
  <2>2. merges' = Append(merges, record)
    BY DEF ConfirmDuplicate, MergeListings
  <2>3. merges \in Seq(Merge)
    BY DEF Typed
  <2> HIDE DEF record
  <2>4. merges'[new] = record /\ Len(merges') = new
        /\ \A m \in 1 .. Len(merges) : merges'[m] = merges[m]
    BY <1>0, <2>1, <2>2, <2>3, AppendTyped
  <2>5. /\ record.source = s /\ record.target = t /\ record.standing
        /\ record.moved = LinksOf(s)
    BY DEF record
  <2> QED BY <1>0, <2>3, <2>4, <2>5
<1>2. 1 .. Len(merges') = (1 .. Len(merges)) \cup {new}
  BY <1>0, <1>1
<1>3. /\ \A a \in Ads : link'[a] = IF link[a] = s THEN t ELSE link[a]
      /\ UNCHANGED <<origin, tangled>> /\ s # 0 /\ t # 0
  BY References DEF Typed, ConfirmDuplicate, MergeListings
<1>4. \A a \in Ads : Moving(a)' = IF link[a] = s THEN Moving(a) \cup {new} ELSE Moving(a)
  BY <1>1, <1>2 DEF Moving, Standing, LinksOf
<1>5. \A a \in Ads : Moving(a) \subseteq 1 .. Len(merges)
  BY DEF Moving, Standing
<1> HIDE DEF record
<1>6. \A a \in Ads : link'[a] # 0 => origin'[a] \in Ids
  BY <1>3 DEF ChainInv
<1>7. \A m \in 1 .. Len(merges') : \A a \in merges'[m].moved : link'[a] # 0
  <2>1. \A m \in 1 .. Len(merges) : merges[m].moved \subseteq Ads
    BY References DEF Merge
  <2> QED BY <1>1, <1>2, <1>3, <2>1 DEF ChainInv, LinksOf
<1>8. ASSUME ~tangled', NEW a \in Ads, link'[a] # 0
      PROVE  Chained(a)'
  <2>1. Chained(a)
    BY <1>3, <1>8 DEF ChainInv
  <2>2. ASSUME NEW m \in Moving(a), NEW l, CameFrom(a, m, l)
        PROVE  CameFrom(a, m, l)'
    BY <1>0, <1>1, <1>3, <1>4, <1>5, <2>2 DEF CameFrom
  <2>3. CASE link[a] = s
    <3>1. Moving(a)' = Moving(a) \cup {new} /\ link'[a] = t
      BY <1>3, <1>4, <2>3
    <3>2. CameFrom(a, new, s)
      BY <1>0, <2>1, <2>3 DEF Chained
    <3>3. CameFrom(a, new, s)'
      BY <1>0, <1>1, <1>3, <1>5, <3>1, <3>2 DEF CameFrom
    <3>4. CameFrom(a, new + 1, t)'
      BY <1>0, <1>1, <1>5, <3>1 DEF CameFrom
    <3>5. \A m \in Moving(a) : merges'[m] = merges[m]
      BY <1>1, <1>5
    <3>6. ASSUME NEW m \in Moving(a)' PROVE CameFrom(a, m, merges[m].source)'
      <4>1. CASE m = new
        BY <1>1, <3>3, <4>1
      <4>2. CASE m # new
        <5>1. m \in Moving(a) /\ merges'[m].source = merges[m].source
          BY <3>1, <3>5, <4>2
        <5>2. PICK l : l = merges[m].source
          OBVIOUS
        <5>3. CameFrom(a, m, l)'
          BY <2>1, <2>2, <5>1, <5>2 DEF Chained
        <5> QED BY <5>1, <5>2, <5>3
      <4> QED BY <4>1, <4>2
    <3>7. CameFrom(a, Len(merges) + 1, link[a])'
      BY <1>1, <3>1, <3>4
    <3> QED BY <3>6, <3>7 DEF Chained
  <2>4. CASE link[a] # s
    <3>1. Moving(a)' = Moving(a) /\ link'[a] = link[a]
      BY <1>3, <1>4, <2>4
    <3>2. CameFrom(a, new, link[a])
      BY <1>0, <2>1 DEF Chained
    <3>3. CameFrom(a, Len(merges) + 1, link[a])'
      BY <1>0, <1>1, <1>3, <1>5, <3>1, <3>2 DEF CameFrom
    <3>4. \A m \in Moving(a) : merges'[m] = merges[m]
      BY <1>1, <1>5
    <3>5. ASSUME NEW m \in Moving(a)' PROVE CameFrom(a, m, merges[m].source)'
      <4>1. m \in Moving(a) /\ merges'[m].source = merges[m].source
        BY <3>1, <3>4
      <4>2. PICK l : l = merges[m].source
        OBVIOUS
      <4>3. CameFrom(a, m, l)'
        BY <2>1, <2>2, <4>1, <4>2 DEF Chained
      <4> QED BY <4>1, <4>2, <4>3
    <3> QED BY <3>3, <3>5 DEF Chained
  <2> QED BY <2>3, <2>4
<1> QED BY <1>6, <1>7, <1>8 DEF ChainInv

LEMMA ReverseMergeKeepsChain ==
    ASSUME Typed, ChainInv, NEW m \in 1 .. Len(merges), ReverseMerge(m)
    PROVE  ChainInv'
<1>0. PICK s : s = merges[m].source
  OBVIOUS
<1>1. /\ s \in Ids /\ m \in Standing /\ Len(merges) \in Nat
      /\ \A a \in Ads : link'[a] = IF a \in merges[m].moved THEN s ELSE link[a]
      /\ UNCHANGED origin
  BY <1>0, References DEF Typed, ReverseMerge, Returned, Standing
<1>2. /\ Len(merges') = Len(merges)
      /\ \A n \in 1 .. Len(merges) : /\ merges'[n].source = merges[n].source
                                     /\ merges'[n].target = merges[n].target
                                     /\ merges'[n].moved = merges[n].moved
                                     /\ merges'[n].standing <=> merges[n].standing /\ n # m
  <2>1. merges' = [merges EXCEPT ![m] = [merges[m] EXCEPT !.standing = FALSE]]
    BY DEF ReverseMerge
  <2>2. merges \in Seq(Merge) /\ merges[m] \in Merge
    BY References DEF Typed
  <2>3. LET x == [merges[m] EXCEPT !.standing = FALSE]
        IN  /\ x.source = merges[m].source /\ x.target = merges[m].target
            /\ x.moved = merges[m].moved /\ x.standing = FALSE
    BY <2>2 DEF Merge
  <2> QED BY <2>1, <2>2, <2>3
<1>3. \A a \in Ads : Moving(a)' = Moving(a) \ {m}
  BY <1>2 DEF Moving, Standing
<1>4. \A n \in 1 .. Len(merges) : merges[n].moved \subseteq Ads
  BY References DEF Merge
<1>5. \A a \in Ads : link'[a] # 0 => origin'[a] \in Ids
  BY <1>1, <1>4 DEF ChainInv
<1>6. \A n \in 1 .. Len(merges') : \A a \in merges'[n].moved : link'[a] # 0
  BY <1>1, <1>2, <1>4, References DEF ChainInv
<1>7. ASSUME ~tangled', NEW a \in Ads, link'[a] # 0
      PROVE  Chained(a)'
  <2>1. /\ ~tangled
        /\ \A n \in m + 1 .. Len(merges) : merges[n].standing =>
              merges[n].moved \cap merges[m].moved = {}
    BY <1>7 DEF ReverseMerge, Typed
  <2>2. Chained(a) /\ Moving(a) \subseteq 1 .. Len(merges)
    BY <1>1, <1>7, <2>1 DEF ChainInv, Moving, Standing
  <2>3. CASE a \in merges[m].moved
    <3>1. link'[a] = s /\ m \in Moving(a) /\ Moving(a)' = Moving(a) \ {m}
      BY <1>1, <1>3, <2>3 DEF Moving
    <3>2. \A n \in Moving(a) : n <= m
      BY <2>1, <2>2, <2>3 DEF Moving, Standing
    <3>3. CameFrom(a, m, s)
      BY <1>0, <2>2, <3>1 DEF Chained
    <3>4. CameFrom(a, Len(merges) + 1, s)'
      BY <1>1, <1>2, <2>2, <3>1, <3>2, <3>3 DEF CameFrom
    <3>5. link[a]' = s /\ Len(merges)' = Len(merges)
      BY <1>2, <3>1
    <3>6. ASSUME NEW n \in Moving(a)' PROVE CameFrom(a, n, merges[n].source)'
      <4>1. n \in Moving(a) /\ merges'[n].source = merges[n].source
        BY <1>2, <2>2, <3>1
      <4>2. CameFrom(a, n, merges[n].source)
        BY <2>2, <4>1 DEF Chained
      <4> QED BY <1>1, <1>2, <2>2, <3>1, <3>2, <4>1, <4>2 DEF CameFrom
    <3> QED BY <3>4, <3>5, <3>6 DEF Chained
  <2>4. CASE a \notin merges[m].moved
    <3>1. link'[a] = link[a] /\ Moving(a)' = Moving(a) /\ origin'[a] = origin[a]
      BY <1>1, <1>3, <2>4 DEF Moving
    <3>2. ASSUME NEW n \in Moving(a)' PROVE CameFrom(a, n, merges[n].source)'
      <4>1. n \in Moving(a) /\ merges'[n].source = merges[n].source
        BY <1>2, <2>2, <3>1
      <4>2. CameFrom(a, n, merges[n].source)
        BY <2>2, <4>1 DEF Chained
      <4> QED BY <1>2, <2>2, <3>1, <4>1, <4>2 DEF CameFrom
    <3>3. CameFrom(a, Len(merges) + 1, link[a])'
      <4>1. CameFrom(a, Len(merges) + 1, link[a])
        BY <2>2 DEF Chained
      <4> QED BY <1>2, <2>2, <3>1, <4>1 DEF CameFrom
    <3> QED BY <3>2, <3>3 DEF Chained
  <2> QED BY <2>3, <2>4
<1> QED BY <1>5, <1>6, <1>7 DEF ChainInv

LEMMA NextChain == ASSUME Typed, ChainInv, [Next]_identityVars PROVE ChainInv'
<1>1. ASSUME NEW w \in Workers, ApplyAttach(w)
      PROVE  ChainInv'
  <2>1. work[w].ad \in Ads /\ work[w].at \in Ids
    BY <1>1, KindOfWork DEF Typed, ApplyAttach
  <2> QED BY <1>1, <2>1, FirstLinkKeepsChain DEF ApplyAttach
<1>2. ASSUME NEW w \in Workers, NEW l \in Ids, ApplyCreate(w, l)
      PROVE  ChainInv'
  <2>1. work[w].ad \in Ads
    BY <1>2, KindOfWork DEF Typed, ApplyCreate
  <2> QED BY <1>2, <2>1, FirstLinkKeepsChain DEF ApplyCreate
<1>3. CASE UNCHANGED <<link, merges, origin, tangled>>
  BY <1>3, UntouchedKeepsChain
<1> QED BY <1>1, <1>2, <1>3, ConfirmDuplicateKeepsChain, ReverseMergeKeepsChain
        DEF Next, ReadLinked, ReadSameUnit, ReadStrongMatch, ReadNoMatch, ReadCandidate, Read,
            ApplyUpdate, ApplyConflicts, ApplyAdmit, Abort, ConfirmDistinct, identityVars

LEMMA LeastElement ==
    ASSUME NEW T, T \subseteq Nat, T # {} PROVE \E m \in T : \A k \in T : m <= k
<1> DEFINE Initial == {1 .. m : m \in T}
           Order == StrictSubsetOrdering(Nat)
<1>1. IsWellFoundedOn(Order, FiniteSubsetsOf(Nat))
  BY FS_StrictSubsetOrderingWellFounded
<1>2. Initial \subseteq FiniteSubsetsOf(Nat)
  BY FS_Interval DEF FiniteSubsetsOf
<1>3. Initial # {}
  OBVIOUS
<1>4. PICK x \in Initial : \A y \in Initial : ~ (<<y, x>> \in Order)
  <2> HIDE DEF Order, Initial
  <2> QED BY <1>1, <1>2, <1>3, WFMin
<1>5. PICK m \in T : x = 1 .. m
  OBVIOUS
<1>6. ASSUME NEW k \in T, k < m PROVE FALSE
  <2>1. 1 .. k \in Initial /\ 1 .. k \subseteq 1 .. m /\ m \in 1 .. m /\ m \notin 1 .. k
    BY <1>6
  <2>2. <<1 .. k, 1 .. m>> \in Order
    BY <2>1 DEF StrictSubsetOrdering
  <2> QED BY <2>1, <2>2, <1>4, <1>5
<1> QED BY <1>6

\* The listings an ad has been with, on its way through the standing merges.
Stations(a) == {origin[a]} \cup {merges[m].target : m \in Moving(a)}

\* From each but the last a standing merge of the ad led on.
LEMMA StationsLeadOn ==
    ASSUME Typed, NEW a \in Ads, Chained(a), NEW l \in Stations(a), l # link[a]
    PROVE  \E j \in Moving(a) : merges[j].source = l
<1>1. Moving(a) \subseteq 1 .. Len(merges) /\ Len(merges) \in Nat
  BY DEF Moving, Standing, Typed
<1>2. CameFrom(a, Len(merges) + 1, link[a])
  BY DEF Chained
<1>3. CASE l = origin[a]
  <2>1. Moving(a) # {}
    BY <1>2, <1>3 DEF CameFrom
  <2>2. PICK j \in Moving(a) : \A k \in Moving(a) : j <= k
    <3>1. Moving(a) \subseteq Nat
      BY <1>1
    <3> QED BY <2>1, <3>1, LeastElement
  <2>3. CameFrom(a, j, merges[j].source)
    BY DEF Chained
  <2>4. merges[j].source = origin[a]
    BY <1>1, <2>2, <2>3 DEF CameFrom
  <2> QED BY <1>3, <2>4
<1>4. ASSUME NEW k \in Moving(a), l = merges[k].target
      PROVE  \E j \in Moving(a) : merges[j].source = l
  <2> DEFINE Later == {j \in Moving(a) : j > k}
  <2>1. Later # {}
    <3> SUFFICES ASSUME Later = {} PROVE FALSE
      OBVIOUS
    <3>1. \A j \in Moving(a) : j <= k
      BY <1>1
    <3>2. PICK i \in Moving(a) : /\ merges[i].target = link[a]
                                 /\ \A j \in Moving(a) : j <= i \/ j >= Len(merges) + 1
      BY <1>1, <1>2, <1>4 DEF CameFrom
    <3>3. i = k
      BY <1>1, <3>1, <3>2
    <3> QED BY <1>4, <3>2, <3>3
  <2>2. PICK j \in Later : \A i \in Later : j <= i
    <3>1. Later \subseteq Nat
      BY <1>1
    <3> HIDE DEF Later
    <3> QED BY <2>1, <3>1, LeastElement
  <2>3. CameFrom(a, j, merges[j].source)
    BY DEF Chained
  <2>4. PICK i \in Moving(a) : /\ i < j /\ merges[i].target = merges[j].source
                               /\ \A n \in Moving(a) : n <= i \/ n >= j
    BY <1>1, <1>4, <2>2, <2>3 DEF CameFrom
  <2>5. i = k
    BY <1>1, <1>4, <2>2, <2>4
  <2> QED BY <1>4, <2>4, <2>5
<1> QED BY <1>3, <1>4 DEF Stations

\* Every set that holds the first listing and follows the merges holds them all.
LEMMA LinkIsReached ==
    ASSUME Typed, ChainInv, NEW a \in Ads, link[a] # 0, Chained(a)
    PROVE  link[a] \in Reached(origin[a])
<1> SUFFICES ASSUME NEW S \in SUBSET Ids, origin[a] \in S,
                    \A m \in Standing : merges[m].source \in S => merges[m].target \in S
             PROVE  link[a] \in S
  BY References DEF Reached
<1>1. Moving(a) \subseteq 1 .. Len(merges) /\ Moving(a) \subseteq Standing /\ Len(merges) \in Nat
  BY DEF Moving, Standing, Typed
<1> DEFINE Outside == {m \in Moving(a) : merges[m].target \notin S}
<1>2. Outside = {}
  <2> SUFFICES ASSUME Outside # {} PROVE FALSE
    OBVIOUS
  <2>1. PICK m \in Outside : \A k \in Outside : m <= k
    <3>1. Outside \subseteq Nat
      BY <1>1
    <3> HIDE DEF Outside
    <3> QED BY <3>1, LeastElement
  <2>2. CameFrom(a, m, merges[m].source)
    BY DEF Chained
  <2>3. merges[m].source \in S
    BY <1>1, <2>1, <2>2 DEF CameFrom
  <2> QED BY <1>1, <2>1, <2>3
<1> QED BY <1>2 DEF Chained, CameFrom

\* Unraced, the way has one end.
LEMMA LinkIsSurvivor ==
    ASSUME Typed, Clean, ChainInv, NEW a \in Ads, link[a] # 0, Chained(a)
    PROVE  link[a] = Survivor(origin[a])
<1>1. link[a] \in Reached(origin[a]) /\ \A m \in Standing : merges[m].source # link[a]
  BY LinkIsReached DEF Clean, MergesSurviveRefreshes, LinksOf
<1>2. ASSUME NEW k \in Reached(origin[a]), \A m \in Standing : merges[m].source # k
      PROVE  k = link[a]
  <2>1. Stations(a) \in SUBSET Ids /\ origin[a] \in Stations(a)
    BY References DEF ChainInv, Stations, Moving, Standing
  <2>2. ASSUME NEW m \in Standing, merges[m].source \in Stations(a)
        PROVE  merges[m].target \in Stations(a)
    <3>1. PICK j \in Moving(a) : merges[j].source = merges[m].source
      BY <1>1, <2>2, StationsLeadOn
    <3>2. j = m
      BY <2>2, <3>1 DEF Clean, MergesSurviveRefreshes, Moving
    <3> QED BY <3>1, <3>2 DEF Stations
  <2>3. k \in Stations(a)
    BY <2>1, <2>2 DEF Reached
  <2> QED BY <1>2, <2>3, StationsLeadOn DEF Moving
<1> QED BY <1>1, <1>2 DEF Survivor

\* Wherever merges and reversals went, an ad is where the standing merges lead
\* from its first listing (merge_service.py:49-83, 120-160), as long as none was
\* reversed under a newer one that moved the same ad.
THEOREM LinksFollowTheMerges == Spec => []LinksFollowMerges
<1>1. IInv /\ ChainInv => LinksFollowMerges
  BY LinkIsReached, LinkIsSurvivor DEF IInv, ChainInv, LinksFollowMerges
<1>2. IInv /\ ChainInv /\ [Next]_identityVars => ChainInv'
  BY NextChain DEF IInv
<1> QED BY <1>1, <1>2, InitChain, Invariance, PTL DEF Spec
=============================================================================
