------------------------- MODULE ListingFactsProofs -------------------------
(***************************************************************************)
(* Proofs about what a listing shows, for any listings, links,             *)
(* observations, page texts, overrides and any number of jobs at once.     *)
(***************************************************************************)
EXTENDS ListingFacts, TLAPS

-----------------------------------------------------------------------------
(* The inductive invariant.                                                 *)

\* Nothing is on record about a listing before its first observation.
Unborn ==
    \A l \in Listings : ~Exists(l) =>
        /\ events[l] = {}
        /\ \A f \in FactKeys : resolved[l][f] = Unstated /\ override[l][f] = NoOverride

\* Jobs work on listings that exist, with a page they have read.
WorkOnKnown ==
    /\ \A j \in Jobs : /\ job[j].phase = "reading" => Exists(job[j].at) /\ job[j].page \in Pages
                       /\ \A l \in job[j].todo : Exists(l)
    /\ \A l \in backfill : Exists(l)

\* A link that was observed shows an observation of its own.
LinksKnown ==
    /\ \A k \in Links : latest[k] # NoObservation =>
           LinkOf[latest[k]] = k /\ Exists(ListingOf[k])
    /\ \A o \in processed : latest[LinkOf[o]] # NoObservation

\* A change event of an observation ends in what the observation states, so that
\* a second one that is dropped is not missed.
Tells(e) == e.type \in Columns /\ e.cause \in Observations => e.after = ObservedFacts[e.cause][e.type]
EventsTell == \A l \in Listings : \A e \in events[l] : Tells(e)

IInv ==
    /\ TypeOK
    /\ Unborn
    /\ WorkOnKnown
    /\ LinksKnown
    /\ EventsTell
    /\ ShownFactsAreResolved
    /\ ShownFactsAreEvented
    /\ LatestIsNewest
    /\ OneOpenConflict

-----------------------------------------------------------------------------
(* Names and inputs.                                                        *)

LEMMA Names ==
    /\ Columns \subseteq ObservedKeys /\ ObservedKeys \subseteq FactKeys /\ PageKeys \subseteq FactKeys
    /\ {"monthly_rent_minor", "availability_status", "laundry_type"} \subseteq Columns
    /\ {"monthly_rent", "laundry_type", "amenities"} \subseteq PageKeys
    /\ "monthly_rent_minor" \notin PageKeys /\ "availability_status" \notin PageKeys
    /\ "monthly_rent" \notin ObservedKeys /\ "CREATED" \notin Columns
BY DEF Columns, ObservedKeys, PageKeys, FactKeys

LEMMA Inputs ==
    /\ \A o \in Observations :
           /\ LinkOf[o] \in Links /\ ListingOf[LinkOf[o]] \in Listings
           /\ ObservedAt[o] \in Nat \ {0} /\ o # NoObservation
           /\ DOMAIN ObservedFacts[o] = ObservedKeys
           /\ \A f \in ObservedKeys : ObservedFacts[o][f] \in Value
    /\ \A k \in Links : ListingOf[k] \in Listings
    /\ \A p \in Pages :
           /\ DOMAIN PageFacts[p] = PageKeys
           /\ \A f \in PageKeys : PageFacts[p][f] \in Value
BY InputsAssumption, MarkersAssumption DEF InputsAssumption, MarkersAssumption, Value

LEMMA InitIInv == Init => IInv
<1> SUFFICES ASSUME Init PROVE IInv
  OBVIOUS
<1>1. Silent \in [Columns -> Value]
  BY DEF Silent, Value
<1>2. \A l \in Listings : IdleJob(l) \in Job /\ IdleJob(l).phase = "idle" /\ IdleJob(l).todo = {}
  BY <1>1 DEF IdleJob, Job, Phases, Outcomes
<1>3. \A j \in Jobs : job[j] \in Job /\ job[j].phase = "idle" /\ job[j].todo = {}
  BY <1>2 DEF Init
<1>4. job \in [Jobs -> Job]
  BY <1>3 DEF Init
<1>5. \A l \in Listings : ~Exists(l)
  BY DEF Init, Exists
<1>6. TypeOK
  BY <1>1, <1>4 DEF Init, TypeOK, Value
<1>7. Unborn /\ WorkOnKnown /\ LinksKnown
  BY <1>3 DEF Init, Unborn, WorkOnKnown, LinksKnown
<1>8. EventsTell /\ ShownFactsAreResolved /\ ShownFactsAreEvented /\ LatestIsNewest /\ OneOpenConflict
  BY <1>5 DEF Init, EventsTell, ShownFactsAreResolved, ShownFactsAreEvented, LatestIsNewest,
              OneOpenConflict
<1> QED BY <1>6, <1>7, <1>8 DEF IInv

-----------------------------------------------------------------------------
(* Facts and conflicts (canonical/facts.py).                                *)

LEMMA Recorded ==
    ASSUME TypeOK, NEW l \in Listings, NEW keys, NEW value,
           \A f \in keys : value[f] \in Value, Record(l, keys, value)
    PROVE  /\ resolved' \in [Listings -> [FactKeys -> Value]]
           /\ \A m \in Listings : m # l => resolved'[m] = resolved[m]
           /\ \A f \in FactKeys : resolved'[l][f] =
                  IF f \in keys /\ ~Overridden(l, f) THEN value[f] ELSE resolved[l][f]
<1> DEFINE new == [f \in FactKeys |-> IF f \in keys /\ ~Overridden(l, f)
                                      THEN value[f] ELSE resolved[l][f]]
<1>1. resolved \in [Listings -> [FactKeys -> Value]]
  BY DEF TypeOK
<1>2. resolved' = [resolved EXCEPT ![l] = new]
  BY DEF Record
<1>3. new \in [FactKeys -> Value]
  BY <1>1
<1>4. \A f \in FactKeys : new[f] =
          IF f \in keys /\ ~Overridden(l, f) THEN value[f] ELSE resolved[l][f]
  OBVIOUS
<1> HIDE DEF new
<1> QED BY <1>1, <1>2, <1>3, <1>4

LEMMA Raised ==
    ASSUME TypeOK, OneOpenConflict, NEW l \in Listings, NEW keys, RaiseConflicts(l, keys)
    PROVE  conflicts' \in [Listings -> [FactKeys -> Nat]] /\ OneOpenConflict'
<1> DEFINE new == [f \in FactKeys |-> IF /\ f \in keys
                                         /\ override[l][f].review
                                         /\ conflicts[l][f] = 0
                                      THEN conflicts[l][f] + 1 ELSE conflicts[l][f]]
<1>1. conflicts \in [Listings -> [FactKeys -> Nat]]
  BY DEF TypeOK
<1>2. conflicts' = [conflicts EXCEPT ![l] = new]
  BY DEF RaiseConflicts
<1>3. \A f \in FactKeys : new[f] \in Nat /\ new[f] <= 1
  BY <1>1 DEF OneOpenConflict
<1>4. new \in [FactKeys -> Nat]
  BY <1>3
<1> HIDE DEF new
<1>5. conflicts' \in [Listings -> [FactKeys -> Nat]]
  BY <1>1, <1>2, <1>4
<1>6. \A m \in Listings : conflicts'[m] = IF m = l THEN new ELSE conflicts[m]
  BY <1>1, <1>2
<1> QED BY <1>3, <1>5, <1>6 DEF OneOpenConflict

-----------------------------------------------------------------------------
(* What one step says of one listing.                                       *)

ShownAt(l) ==
    /\ column[l]["availability_status"] = resolved[l]["availability_status"]
    /\ column[l]["monthly_rent_minor"] \in
           {resolved[l]["monthly_rent_minor"], resolved[l]["monthly_rent"]}
EventedAt(l, c) ==
    \E e \in events[l] :
        \/ e.type = "CREATED" /\ ObservedFacts[e.cause][c] = column[l][c]
        \/ e.type = c /\ e.after = column[l][c]
Traced == {"monthly_rent_minor", "availability_status"}

\* The other listings keep what is on record about them.
LEMMA FactsAt ==
    ASSUME IInv, NEW l \in Listings, Exists(l)', UNCHANGED override,
           \A m \in Listings : m # l =>
               /\ column'[m] = column[m] /\ resolved'[m] = resolved[m]
               /\ events'[m] = events[m] /\ lastSeen'[m] = lastSeen[m],
           ShownAt(l)', \A c \in Traced : EventedAt(l, c)', \A e \in events'[l] : Tells(e)
    PROVE  Unborn' /\ EventsTell' /\ ShownFactsAreResolved' /\ ShownFactsAreEvented'
<1>1. Unborn'
  BY DEF IInv, Unborn, Exists
<1>2. EventsTell'
  BY DEF IInv, EventsTell, Tells
<1>3. ShownFactsAreResolved'
  BY DEF IInv, ShownFactsAreResolved, ShownAt, Exists
<1>4. ShownFactsAreEvented'
  <2> SUFFICES ASSUME NEW m \in Listings, NEW c \in Traced, Exists(m)'
               PROVE  EventedAt(m, c)'
    BY DEF ShownFactsAreEvented, EventedAt, Traced
  <2>1. CASE m # l
    <3>1. Exists(m)
      BY <2>1 DEF Exists
    <3>2. EventedAt(m, c)
      BY <3>1 DEF IInv, ShownFactsAreEvented, EventedAt, Traced
    <3> QED BY <2>1, <3>2 DEF EventedAt
  <2> QED BY <2>1
<1> QED BY <1>1, <1>2, <1>3, <1>4

\* Listings do not go back into nothing, and work goes on beside a step that
\* changes no process.
LEMMA WorkGoesOn ==
    ASSUME IInv, \A l \in Listings : Exists(l) => Exists(l)', UNCHANGED <<job, backfill>>
    PROVE  WorkOnKnown'
<1>1. /\ \A j \in Jobs : job[j].at \in Listings /\ job[j].todo \subseteq Listings
      /\ backfill \subseteq Listings
  BY DEF IInv, TypeOK, Job
<1> QED BY <1>1 DEF IInv, WorkOnKnown

\* An observation o is normalized; q is the latest of its link then and t the
\* time its listing was last seen.
LEMMA Newer ==
    ASSUME IInv, NEW o \in Observations, NEW q \in Observations, NEW t \in Nat,
           LinkOf[q] = LinkOf[o], ObservedAt[o] <= ObservedAt[q],
           latest[LinkOf[o]] # NoObservation => ObservedAt[latest[LinkOf[o]]] <= ObservedAt[q],
           ObservedAt[o] <= t, lastSeen[ListingOf[LinkOf[o]]] <= t,
           latest' = [latest EXCEPT ![LinkOf[o]] = q],
           lastSeen' = [lastSeen EXCEPT ![ListingOf[LinkOf[o]]] = t],
           processed' = processed \cup {o}
    PROVE  /\ lastSeen' \in [Listings -> Nat]
           /\ latest' \in [Links -> Observations \cup {NoObservation}]
           /\ processed' \subseteq Observations
           /\ LinksKnown' /\ LatestIsNewest'
           /\ Exists(ListingOf[LinkOf[o]])'
           /\ \A l \in Listings : Exists(l) => Exists(l)'
           /\ \A l \in Listings : l # ListingOf[LinkOf[o]] => lastSeen'[l] = lastSeen[l]
<1> DEFINE k == LinkOf[o]
           l == ListingOf[k]
<1>1. /\ k \in Links /\ l \in Listings /\ ObservedAt[o] \in Nat \ {0} /\ q # NoObservation
      /\ lastSeen \in [Listings -> Nat]
      /\ latest \in [Links -> Observations \cup {NoObservation}]
      /\ processed \subseteq Observations
  BY Inputs DEF IInv, TypeOK
<1>2. /\ lastSeen' \in [Listings -> Nat]
      /\ latest' \in [Links -> Observations \cup {NoObservation}]
      /\ processed' \subseteq Observations
  BY <1>1
<1>3. /\ latest'[k] = q /\ \A n \in Links : n # k => latest'[n] = latest[n]
      /\ lastSeen'[l] = t /\ \A m \in Listings : m # l => lastSeen'[m] = lastSeen[m]
      /\ \A m \in Listings : lastSeen[m] <= lastSeen'[m]
  BY <1>1
<1>4. Exists(l)' /\ \A m \in Listings : Exists(m) => Exists(m)'
  <2>1. t > 0
    BY <1>1
  <2> QED BY <1>1, <1>2, <1>3, <2>1 DEF Exists
<1>5. LinksKnown'
  <2>1. \A n \in Links : latest'[n] # NoObservation =>
            LinkOf[latest'[n]] = n /\ Exists(ListingOf[n])'
    BY <1>1, <1>3, <1>4, Inputs DEF IInv, LinksKnown
  <2>2. \A p \in processed' : latest'[LinkOf[p]] # NoObservation
    BY <1>1, <1>3, Inputs DEF IInv, LinksKnown
  <2> QED BY <2>1, <2>2 DEF LinksKnown
<1>6. LatestIsNewest'
  <2> SUFFICES ASSUME NEW p \in processed'
               PROVE  /\ ObservedAt[p] <= ObservedAt[latest'[LinkOf[p]]]
                      /\ ObservedAt[p] <= lastSeen'[ListingOf[LinkOf[p]]]
    BY DEF LatestIsNewest
  <2>0. p \in Observations /\ LinkOf[p] \in Links /\ ListingOf[LinkOf[p]] \in Listings
        /\ ObservedAt[p] \in Nat
    BY <1>2, Inputs
  <2>1. CASE p = o
    BY <1>3, <2>1
  <2>2. CASE p # o
    <3>1. /\ p \in processed /\ latest[LinkOf[p]] # NoObservation
          /\ ObservedAt[p] <= ObservedAt[latest[LinkOf[p]]]
          /\ ObservedAt[p] <= lastSeen[ListingOf[LinkOf[p]]]
      BY <2>2 DEF IInv, LinksKnown, LatestIsNewest
    <3>2. /\ latest[LinkOf[p]] \in Observations
          /\ ObservedAt[latest[LinkOf[p]]] \in Nat /\ ObservedAt[q] \in Nat
      BY <1>1, <2>0, <3>1, Inputs
    <3>3. ObservedAt[p] <= ObservedAt[latest'[LinkOf[p]]]
      BY <1>3, <2>0, <3>1, <3>2
    <3>4. ObservedAt[p] <= lastSeen'[ListingOf[LinkOf[p]]]
      BY <1>1, <1>2, <1>3, <2>0, <3>1
    <3> QED BY <3>3, <3>4
  <2> QED BY <2>1, <2>2
<1> QED BY <1>2, <1>3, <1>4, <1>5, <1>6

\* Freshness moves forward only.
LEMMA Touched ==
    ASSUME IInv, NEW o \in Observations, latest[LinkOf[o]] # NoObservation, TouchFreshness(o),
           processed' = processed \cup {o}
    PROVE  /\ lastSeen' \in [Listings -> Nat]
           /\ latest' \in [Links -> Observations \cup {NoObservation}]
           /\ processed' \subseteq Observations
           /\ LinksKnown' /\ LatestIsNewest'
           /\ Exists(ListingOf[LinkOf[o]]) /\ Exists(ListingOf[LinkOf[o]])'
           /\ \A l \in Listings : Exists(l) => Exists(l)'
           /\ \A l \in Listings : l # ListingOf[LinkOf[o]] => lastSeen'[l] = lastSeen[l]
<1> DEFINE k == LinkOf[o]
           l == ListingOf[k]
           q == IF ObservedAt[o] >= ObservedAt[latest[k]] THEN o ELSE latest[k]
           t == IF ObservedAt[o] > lastSeen[l] THEN ObservedAt[o] ELSE lastSeen[l]
<1>1. /\ k \in Links /\ l \in Listings /\ latest[k] \in Observations
      /\ lastSeen[l] \in Nat /\ ObservedAt[o] \in Nat /\ ObservedAt[latest[k]] \in Nat
      /\ LinkOf[latest[k]] = k /\ Exists(l)
  BY Inputs DEF IInv, TypeOK, LinksKnown
<1>2. /\ q \in Observations /\ LinkOf[q] = k /\ ObservedAt[o] <= ObservedAt[q]
      /\ ObservedAt[latest[k]] <= ObservedAt[q]
      /\ t \in Nat /\ ObservedAt[o] <= t /\ lastSeen[l] <= t
  BY <1>1
<1>3. latest' = [latest EXCEPT ![k] = q] /\ lastSeen' = [lastSeen EXCEPT ![l] = t]
  BY DEF TouchFreshness
<1> HIDE DEF q, t
<1> QED BY <1>1, <1>2, <1>3, Newer

-----------------------------------------------------------------------------
(* Normalization.                                                           *)

\* Of each new event, or one with the same key was there, or it is now.
LEMMA Emitted ==
    ASSUME TypeOK, NEW l \in Listings, NEW new \in SUBSET Event, Emit(l, new)
    PROVE  /\ events' \in [Listings -> SUBSET Event]
           /\ \A m \in Listings : m # l => events'[m] = events[m]
           /\ events[l] \subseteq events'[l] /\ events'[l] \subseteq events[l] \cup new
           /\ \A e \in new : e \in events'[l] \/ \E old \in events[l] : SameKey(e, old)
BY DEF TypeOK, Emit

LEMMA CreateIInv ==
    ASSUME IInv, NEW o \in Observations, Create(o)
    PROVE  IInv'
<1> DEFINE k == LinkOf[o]
           l == ListingOf[k]
           facts == ObservedFacts[o]
           shown == [c \in Columns |-> facts[c]]
           created == EventOf("CREATED", o, Unstated, Unstated)
<1>1. /\ TypeOK /\ k \in Links /\ l \in Listings /\ ~Exists(l) /\ lastSeen[l] \in Nat
      /\ ObservedAt[o] \in Nat \ {0} /\ DOMAIN facts = ObservedKeys
      /\ \A f \in ObservedKeys : facts[f] \in Value
      /\ column \in [Listings -> [Columns -> Value]]
  BY Inputs DEF IInv, TypeOK, Create
<1>2. /\ lastSeen' \in [Listings -> Nat]
      /\ latest' \in [Links -> Observations \cup {NoObservation}]
      /\ processed' \subseteq Observations
      /\ LinksKnown' /\ LatestIsNewest' /\ Exists(l)'
      /\ \A m \in Listings : Exists(m) => Exists(m)'
      /\ \A m \in Listings : m # l => lastSeen'[m] = lastSeen[m]
  <2>1. lastSeen[l] <= ObservedAt[o]
    BY <1>1 DEF Exists
  <2>2. /\ latest[k] = NoObservation
        /\ latest' = [latest EXCEPT ![k] = o]
        /\ lastSeen' = [lastSeen EXCEPT ![l] = ObservedAt[o]]
        /\ processed' = processed \cup {o}
    BY DEF Create
  <2>3. ObservedAt[o] \in Nat /\ ObservedAt[o] <= ObservedAt[o]
    BY <1>1
  <2> QED BY <2>1, <2>2, <2>3, Newer
<1>3. /\ resolved' \in [Listings -> [FactKeys -> Value]]
      /\ \A m \in Listings : m # l => resolved'[m] = resolved[m]
      /\ \A f \in FactKeys : resolved'[l][f] =
             IF f \in Stated(facts) /\ ~Overridden(l, f) THEN facts[f] ELSE resolved[l][f]
  <2>1. \A f \in Stated(facts) : facts[f] \in Value
    BY <1>1 DEF Stated
  <2> QED BY <1>1, <2>1, Recorded DEF Create
<1>4. \A c \in Columns : shown[c] = facts[c] /\ resolved'[l][c] = facts[c]
  BY <1>1, <1>3, Names DEF IInv, Unborn, Overridden, Stated
<1>5. created \in Event /\ created.type = "CREATED" /\ created.cause = o /\ events[l] = {}
  BY <1>1 DEF EventOf, Event, Value, IInv, Unborn
<1> HIDE DEF created
<1>6. /\ events' \in [Listings -> SUBSET Event]
      /\ \A m \in Listings : m # l => events'[m] = events[m]
      /\ events'[l] = {created}
  <2>1. Emit(l, {created})
    BY DEF Create, created
  <2> QED BY <1>1, <1>5, <2>1, Emitted
<1>7. /\ column' \in [Listings -> [Columns -> Value]] /\ column'[l] = shown
      /\ \A m \in Listings : m # l => column'[m] = column[m]
  <2>1. shown \in [Columns -> Value]
    BY <1>1, Names
  <2> HIDE DEF shown
  <2>2. column' = [column EXCEPT ![l] = shown]
    BY DEF Create, shown
  <2> QED BY <1>1, <2>1, <2>2
<1> HIDE DEF shown
<1>8. ShownAt(l)' /\ (\A c \in Traced : EventedAt(l, c)') /\ \A e \in events'[l] : Tells(e)
  BY <1>4, <1>5, <1>6, <1>7, Names DEF ShownAt, EventedAt, Traced, Tells
<1>9. Unborn' /\ EventsTell' /\ ShownFactsAreResolved' /\ ShownFactsAreEvented'
  <2>1. UNCHANGED override
    BY DEF Create
  <2>2. \A m \in Listings : m # l =>
            /\ column'[m] = column[m] /\ resolved'[m] = resolved[m]
            /\ events'[m] = events[m] /\ lastSeen'[m] = lastSeen[m]
    BY <1>2, <1>3, <1>6, <1>7
  <2> QED BY <1>1, <1>2, <1>8, <2>1, <2>2, FactsAt
<1>10. WorkOnKnown' /\ OneOpenConflict'
  BY <1>2, WorkGoesOn DEF Create, IInv, OneOpenConflict
<1>11. TypeOK'
  BY <1>1, <1>2, <1>3, <1>6, <1>7 DEF TypeOK, Create
<1> QED BY <1>2, <1>9, <1>10, <1>11 DEF IInv

\* A step that moves freshness and no fact.
LEMMA OnlyFreshness ==
    ASSUME IInv,
           /\ lastSeen' \in [Listings -> Nat]
           /\ latest' \in [Links -> Observations \cup {NoObservation}]
           /\ processed' \subseteq Observations
           /\ LinksKnown' /\ LatestIsNewest'
           /\ \A l \in Listings : Exists(l) <=> Exists(l)',
           UNCHANGED <<column, resolved, override, conflicts, events, extracted, job, backfill>>
    PROVE  IInv'
<1>1. TypeOK'
  BY DEF IInv, TypeOK
<1>2. Unborn' /\ EventsTell' /\ ShownFactsAreResolved' /\ ShownFactsAreEvented' /\ OneOpenConflict'
  BY DEF IInv, Unborn, EventsTell, ShownFactsAreResolved, ShownFactsAreEvented, OneOpenConflict
<1>3. WorkOnKnown'
  BY WorkGoesOn
<1> QED BY <1>1, <1>2, <1>3 DEF IInv

LEMMA AttachIInv ==
    ASSUME IInv, NEW o \in Observations, Attach(o)
    PROVE  IInv'
<1> DEFINE k == LinkOf[o]
           l == ListingOf[k]
           t == IF ObservedAt[o] > lastSeen[l] THEN ObservedAt[o] ELSE lastSeen[l]
<1>1. k \in Links /\ l \in Listings /\ lastSeen[l] \in Nat /\ ObservedAt[o] \in Nat /\ Exists(l)
  BY Inputs DEF IInv, TypeOK, Attach
<1>2. t \in Nat /\ ObservedAt[o] <= t /\ lastSeen[l] <= t /\ ObservedAt[o] <= ObservedAt[o]
  BY <1>1
<1>3. /\ latest[k] = NoObservation /\ latest' = [latest EXCEPT ![k] = o]
      /\ lastSeen' = [lastSeen EXCEPT ![l] = t] /\ processed' = processed \cup {o}
      /\ UNCHANGED <<column, resolved, override, conflicts, events, extracted, job, backfill>>
  BY DEF Attach
<1> HIDE DEF t
<1>4. /\ lastSeen' \in [Listings -> Nat]
      /\ latest' \in [Links -> Observations \cup {NoObservation}]
      /\ processed' \subseteq Observations
      /\ LinksKnown' /\ LatestIsNewest' /\ Exists(l)'
      /\ \A m \in Listings : m # l => lastSeen'[m] = lastSeen[m]
  BY <1>1, <1>2, <1>3, Newer
<1>5. \A m \in Listings : Exists(m) <=> Exists(m)'
  BY <1>1, <1>4 DEF Exists
<1> QED BY <1>3, <1>4, <1>5, OnlyFreshness

LEMMA RefreshIInv ==
    ASSUME IInv, NEW o \in Observations, Refresh(o)
    PROVE  IInv'
<1>1. /\ latest[LinkOf[o]] # NoObservation /\ TouchFreshness(o) /\ processed' = processed \cup {o}
      /\ UNCHANGED <<column, resolved, override, conflicts, events, extracted, job, backfill>>
  BY DEF Refresh
<1>2. /\ lastSeen' \in [Listings -> Nat]
      /\ latest' \in [Links -> Observations \cup {NoObservation}]
      /\ processed' \subseteq Observations
      /\ LinksKnown' /\ LatestIsNewest'
      /\ Exists(ListingOf[LinkOf[o]]) /\ Exists(ListingOf[LinkOf[o]])'
      /\ \A l \in Listings : l # ListingOf[LinkOf[o]] => lastSeen'[l] = lastSeen[l]
  BY <1>1, Touched
<1>3. \A l \in Listings : Exists(l) <=> Exists(l)'
  BY <1>2 DEF Exists
<1> QED BY <1>1, <1>2, <1>3, OnlyFreshness

LEMMA UpdateIInv ==
    ASSUME IInv, NEW o \in Observations, Update(o)
    PROVE  IInv'
<1> DEFINE k == LinkOf[o]
           l == ListingOf[k]
           facts == ObservedFacts[o]
           applied == Applied(l, facts)
           disputed == {c \in Differing(l, facts) \ applied : facts[c] # override[l][c].value}
           shown == [c \in Columns |-> IF c \in applied THEN facts[c] ELSE column[l][c]]
<1>1. /\ TypeOK /\ OneOpenConflict /\ k \in Links /\ l \in Listings /\ DOMAIN facts = ObservedKeys
      /\ \A f \in ObservedKeys : facts[f] \in Value
      /\ column \in [Listings -> [Columns -> Value]]
      /\ override \in [Listings -> [FactKeys -> Override \cup {NoOverride}]]
  BY Inputs DEF IInv, TypeOK
<1>2. /\ lastSeen' \in [Listings -> Nat]
      /\ latest' \in [Links -> Observations \cup {NoObservation}]
      /\ processed' \subseteq Observations
      /\ LinksKnown' /\ LatestIsNewest' /\ Exists(l) /\ Exists(l)'
      /\ \A m \in Listings : Exists(m) => Exists(m)'
      /\ \A m \in Listings : m # l => lastSeen'[m] = lastSeen[m]
  <2>1. /\ latest[k] # NoObservation /\ TouchFreshness(o) /\ processed' = processed \cup {o}
    BY DEF Update
  <2> QED BY <2>1, Touched
<1>3. /\ resolved' \in [Listings -> [FactKeys -> Value]]
      /\ \A m \in Listings : m # l => resolved'[m] = resolved[m]
      /\ \A f \in FactKeys : resolved'[l][f] =
             IF f \in Stated(facts) /\ ~Overridden(l, f) THEN facts[f] ELSE resolved[l][f]
  <2>1. \A f \in Stated(facts) : facts[f] \in Value
    BY <1>1 DEF Stated
  <2> QED BY <1>1, <2>1, Recorded DEF Update
<1>4. conflicts' \in [Listings -> [FactKeys -> Nat]] /\ OneOpenConflict'
  <2>1. RaiseConflicts(l, disputed)
    BY DEF Update
  <2> HIDE DEF disputed
  <2> QED BY <1>1, <2>1, Raised
<1>5. \A c \in Columns :
          /\ c \in ObservedKeys /\ c \in FactKeys
          /\ c \in applied <=> /\ facts[c] # Unstated /\ facts[c] # column[l][c]
                               /\ ~Overridden(l, c)
  BY <1>1, Names DEF Applied, Differing, Stated
<1> HIDE DEF applied
<1>6. /\ column' \in [Listings -> [Columns -> Value]]
      /\ \A c \in Columns : column'[l][c] = IF c \in applied THEN facts[c] ELSE column[l][c]
      /\ \A m \in Listings : m # l => column'[m] = column[m]
  <2>1. shown \in [Columns -> Value]
    BY <1>1, <1>5
  <2>2. \A c \in Columns : shown[c] = IF c \in applied THEN facts[c] ELSE column[l][c]
    OBVIOUS
  <2>3. column' = [column EXCEPT ![l] = shown]
    BY DEF Update, applied
  <2> HIDE DEF shown
  <2> QED BY <1>1, <2>1, <2>2, <2>3
<1>7. \A e \in Changes(l, o) : e \in Event /\ Tells(e)
  <2> SUFFICES ASSUME NEW c \in applied
               PROVE  /\ EventOf(c, o, column[l][c], facts[c]) \in Event
                      /\ Tells(EventOf(c, o, column[l][c], facts[c]))
    BY DEF Changes, applied
  <2>1. c \in Columns
    BY DEF applied, Applied, Differing
  <2> QED BY <1>1, <1>5, <2>1 DEF EventOf, Event, Tells
<1>8. /\ events' \in [Listings -> SUBSET Event]
      /\ \A m \in Listings : m # l => events'[m] = events[m]
      /\ events[l] \subseteq events'[l] /\ events'[l] \subseteq events[l] \cup Changes(l, o)
      /\ \A e \in Changes(l, o) : e \in events'[l] \/ \E old \in events[l] : SameKey(e, old)
  <2>1. Changes(l, o) \in SUBSET Event
    BY <1>7
  <2> QED BY <1>1, <2>1, Emitted DEF Update
<1>9. \A e \in events'[l] : Tells(e)
  BY <1>1, <1>7, <1>8 DEF IInv, EventsTell
<1>10. ShownAt(l)'
  <2>1. ShownAt(l)
    BY <1>1, <1>2 DEF IInv, ShownFactsAreResolved, ShownAt
  <2>2. \A c \in Columns :
            \/ column'[l][c] = resolved'[l][c]
            \/ column'[l][c] = column[l][c] /\ resolved'[l][c] = resolved[l][c]
    BY <1>1, <1>3, <1>5, <1>6 DEF Stated
  <2>3. resolved'[l]["monthly_rent"] = resolved[l]["monthly_rent"]
    BY <1>1, <1>3, Names DEF Stated
  <2> QED BY <2>1, <2>2, <2>3, Names DEF ShownAt
<1>11. \A c \in Traced : EventedAt(l, c)'
  <2> SUFFICES ASSUME NEW c \in Traced PROVE EventedAt(l, c)'
    OBVIOUS
  <2>0. c \in Columns /\ c # "CREATED"
    BY Names DEF Traced
  <2>1. CASE c \notin applied
    <3>1. EventedAt(l, c)
      BY <1>1, <1>2 DEF IInv, ShownFactsAreEvented, EventedAt, Traced
    <3> QED BY <1>6, <1>8, <2>0, <2>1, <3>1 DEF EventedAt
  <2>2. CASE c \in applied
    <3> DEFINE new == EventOf(c, o, column[l][c], facts[c])
    <3>1. new \in Changes(l, o) /\ new.type = c /\ new.cause = o /\ new.after = facts[c]
      BY <2>2 DEF Changes, EventOf, applied
    <3> HIDE DEF new
    <3>2. PICK e \in events'[l] : e.type = c /\ e.cause = o
      BY <1>8, <3>1 DEF SameKey
    <3>3. e.after = facts[c]
      BY <1>9, <2>0, <3>2 DEF Tells
    <3> QED BY <1>6, <2>0, <2>2, <3>2, <3>3 DEF EventedAt
  <2> QED BY <2>1, <2>2
<1>12. Unborn' /\ EventsTell' /\ ShownFactsAreResolved' /\ ShownFactsAreEvented'
  <2>1. UNCHANGED override
    BY DEF Update
  <2>2. \A m \in Listings : m # l =>
            /\ column'[m] = column[m] /\ resolved'[m] = resolved[m]
            /\ events'[m] = events[m] /\ lastSeen'[m] = lastSeen[m]
    BY <1>2, <1>3, <1>6, <1>8
  <2> QED BY <1>1, <1>2, <1>9, <1>10, <1>11, <2>1, <2>2, FactsAt
<1>13. WorkOnKnown'
  BY <1>2, WorkGoesOn DEF Update
<1>14. TypeOK'
  BY <1>1, <1>2, <1>3, <1>4, <1>6, <1>8 DEF TypeOK, Update
<1> QED BY <1>2, <1>4, <1>12, <1>13, <1>14 DEF IInv

-----------------------------------------------------------------------------
(* Detail enrichment.                                                       *)

LEMMA JobMoved ==
    ASSUME IInv, NEW j \in Jobs, NEW new \in Job, job' = [job EXCEPT ![j] = new],
           \A l \in new.todo : Exists(l),
           new.phase = "reading" => Exists(new.at) /\ new.page \in Pages,
           UNCHANGED <<lastSeen, backfill>>
    PROVE  job' \in [Jobs -> Job] /\ WorkOnKnown'
BY DEF IInv, TypeOK, WorkOnKnown, Exists

LEMMA Closed ==
    ASSUME IInv, NEW j \in Jobs, CloseSession(j), UNCHANGED <<lastSeen, backfill>>
    PROVE  job' \in [Jobs -> Job] /\ WorkOnKnown'
<1> DEFINE new == [job[j] EXCEPT !.phase = "selecting", !.page = NoPage,
                                 !.seen = Silent, !.marker = NoPage]
<1>1. job[j] \in Job /\ \A l \in job[j].todo : Exists(l)
  BY DEF IInv, TypeOK, WorkOnKnown
<1>2. Silent \in [Columns -> Value] /\ "selecting" \in Phases
  BY DEF Silent, Value, Phases
<1>3. new \in Job
  BY <1>1, <1>2, Zenon DEF Job
<1>4. new.phase = "selecting" /\ new.todo = job[j].todo
  BY <1>1 DEF Job
<1>5. job' = [job EXCEPT ![j] = new]
  BY DEF CloseSession
<1> HIDE DEF new
<1> QED BY <1>1, <1>3, <1>4, <1>5, JobMoved

\* A step of a process that records nothing.
LEMMA JobAlone ==
    ASSUME IInv, job' \in [Jobs -> Job], WorkOnKnown', backfill' \subseteq Listings,
           UNCHANGED <<factVars, latest, processed>>
    PROVE  IInv'
<1>1. TypeOK'
  BY DEF IInv, TypeOK, factVars
<1>2. Unborn' /\ LinksKnown' /\ EventsTell' /\ LatestIsNewest' /\ OneOpenConflict'
  BY DEF IInv, Unborn, LinksKnown, EventsTell, LatestIsNewest, OneOpenConflict, factVars, Exists
<1>3. ShownFactsAreResolved' /\ ShownFactsAreEvented'
  BY DEF IInv, ShownFactsAreResolved, ShownFactsAreEvented, factVars, Exists
<1> QED BY <1>1, <1>2, <1>3 DEF IInv

LEMMA VisitIInv ==
    ASSUME IInv, NEW j \in Jobs,
           \/ \E l \in Listings : QuotaRefused(j, l) \/ \E p \in Pages : Read(j, l, p)
           \/ GiveUp(j) \/ ApplyFails(j) \/ EndJob(j) \/ Relaunch(j)
           \/ \E force \in BOOLEAN : StartJob(j, force)
    PROVE  IInv'
<1>0. /\ job[j] \in Job /\ (\A l \in job[j].todo : Exists(l)) /\ job[j].at \in Listings
      /\ backfill \subseteq Listings /\ job[j].todo \subseteq Listings
      /\ column \in [Listings -> [Columns -> Value]] /\ extracted \in [Listings -> Pages \cup {NoPage}]
  BY DEF IInv, TypeOK, WorkOnKnown, Job
<1>1. {"idle", "selecting", "reading", "ended"} = Phases /\ {"none", "done", "RATE_LIMITED"} = Outcomes
  BY DEF Phases, Outcomes
<1>2. CASE GiveUp(j) \/ ApplyFails(j)
  BY <1>0, <1>2, Closed, JobAlone DEF GiveUp, ApplyFails, factVars
<1>3. ASSUME NEW l \in Listings, QuotaRefused(j, l) PROVE IInv'
  <2> DEFINE new == [job[j] EXCEPT !.phase = "ended", !.outcome = "RATE_LIMITED"]
  <2>1. new \in Job
    BY <1>0, <1>1, Zenon DEF Job
  <2>2. new.phase = "ended" /\ new.todo = job[j].todo
    BY <1>0 DEF Job
  <2>3. job' = [job EXCEPT ![j] = new] /\ UNCHANGED <<factVars, latest, processed, backfill>>
    BY <1>3 DEF QuotaRefused
  <2> HIDE DEF new
  <2> QED BY <1>0, <2>1, <2>2, <2>3, JobMoved, JobAlone DEF factVars
<1>4. CASE EndJob(j)
  <2> DEFINE new == [job[j] EXCEPT !.phase = "ended", !.outcome = "done"]
  <2>1. new \in Job
    BY <1>0, <1>1, Zenon DEF Job
  <2>2. new.phase = "ended" /\ new.todo = job[j].todo
    BY <1>0 DEF Job
  <2>3. job' = [job EXCEPT ![j] = new] /\ UNCHANGED <<factVars, latest, processed, backfill>>
    BY <1>4 DEF EndJob
  <2> HIDE DEF new
  <2> QED BY <1>0, <2>1, <2>2, <2>3, JobMoved, JobAlone DEF factVars
<1>5. CASE Relaunch(j)
  <2> DEFINE new == IdleJob(job[j].at)
  <2>1. Silent \in [Columns -> Value]
    BY DEF Silent, Value
  <2>2. new \in Job /\ new.phase = "idle" /\ new.todo = {}
    BY <1>0, <1>1, <2>1 DEF IdleJob, Job
  <2>3. job' = [job EXCEPT ![j] = new] /\ UNCHANGED <<factVars, latest, processed, backfill>>
    BY <1>5 DEF Relaunch
  <2> HIDE DEF new
  <2> QED BY <1>0, <2>2, <2>3, JobMoved, JobAlone DEF factVars
<1>6. ASSUME NEW force \in BOOLEAN, StartJob(j, force) PROVE IInv'
  <2> DEFINE todo == {l \in Listings : Exists(l)}
             new == [job[j] EXCEPT !.phase = "selecting", !.force = force, !.todo = todo]
  <2>1. todo \in SUBSET Listings /\ \A l \in todo : Exists(l)
    OBVIOUS
  <2>2. job' = [job EXCEPT ![j] = new] /\ UNCHANGED <<factVars, latest, processed, backfill>>
    BY <1>6 DEF StartJob
  <2> HIDE DEF todo
  <2>3. new \in Job
    BY <1>0, <1>1, <2>1, Zenon DEF Job
  <2>4. new.phase = "selecting" /\ new.todo = todo
    BY <1>0 DEF Job
  <2> HIDE DEF new
  <2> QED BY <1>0, <2>1, <2>2, <2>3, <2>4, JobMoved, JobAlone DEF factVars
<1>7. ASSUME NEW l \in Listings, NEW p \in Pages, Read(j, l, p) PROVE IInv'
  <2> DEFINE todo == job[j].todo \ {l}
             skipped == [job[j] EXCEPT !.todo = todo]
             opened == [job[j] EXCEPT !.phase = "reading", !.todo = todo, !.at = l,
                            !.page = p, !.seen = column[l], !.marker = extracted[l]]
  <2>1. todo \in SUBSET Listings /\ (\A m \in todo : Exists(m)) /\ Exists(l)
        /\ column[l] \in [Columns -> Value] /\ extracted[l] \in Pages \cup {NoPage}
        /\ p \in Pages \cup {NoPage} /\ job[j].phase = "selecting"
    BY <1>0, <1>7 DEF Read
  <2>2. /\ \/ job' = [job EXCEPT ![j] = skipped]
           \/ job' = [job EXCEPT ![j] = opened]
        /\ UNCHANGED <<factVars, latest, processed, backfill>>
    BY <1>7 DEF Read
  <2> HIDE DEF todo
  <2>3. skipped \in Job /\ opened \in Job
    BY <1>0, <1>1, <2>1, Zenon DEF Job
  <2>4. /\ skipped.phase = "selecting" /\ skipped.todo = todo
        /\ opened.at = l /\ opened.page = p /\ opened.todo = todo
    BY <1>0, <2>1 DEF Job
  <2> HIDE DEF skipped, opened
  <2>5. job' \in [Jobs -> Job] /\ WorkOnKnown'
    BY <2>1, <2>2, <2>3, <2>4, JobMoved DEF factVars
  <2> QED BY <1>0, <2>2, <2>5, JobAlone
<1> QED BY <1>2, <1>3, <1>4, <1>5, <1>6, <1>7

\* What a session writes about the columns of its listing.
LEMMA Written ==
    ASSUME TypeOK, NEW j \in Jobs, job[j].page \in Pages
    PROVE  LET written == Flush(column[job[j].at], job[j].seen, WantedColumns(j)) IN
           /\ written \in [Columns -> Value]
           /\ written["availability_status"] = column[job[j].at]["availability_status"]
           /\ written["monthly_rent_minor"] =
                  IF RentApplied(j) THEN PageFacts[job[j].page]["monthly_rent"]
                                    ELSE column[job[j].at]["monthly_rent_minor"]
           /\ ~LaundryApplied(j) => written["laundry_type"] = column[job[j].at]["laundry_type"]
<1> DEFINE stored == column[job[j].at]
           seen == job[j].seen
           facts == PageFacts[job[j].page]
           wanted == WantedColumns(j)
<1>1. /\ stored \in [Columns -> Value] /\ seen \in [Columns -> Value]
      /\ facts["monthly_rent"] \in Value /\ facts["laundry_type"] \in Value
  BY Inputs, Names DEF TypeOK, Job
<1>2. /\ wanted \in [Columns -> Value]
      /\ wanted["availability_status"] = seen["availability_status"]
      /\ wanted["monthly_rent_minor"] = IF RentApplied(j) THEN facts["monthly_rent"]
                                                         ELSE seen["monthly_rent_minor"]
      /\ ~LaundryApplied(j) => wanted["laundry_type"] = seen["laundry_type"]
  BY <1>1, Names DEF WantedColumns
<1>3. RentApplied(j) => facts["monthly_rent"] # seen["monthly_rent_minor"]
  BY DEF RentApplied, RentDiffers
<1> HIDE DEF wanted, stored, seen, facts
<1>4. /\ Flush(stored, seen, wanted) \in [Columns -> Value]
      /\ \A c \in Columns : Flush(stored, seen, wanted)[c] =
             IF wanted[c] = seen[c] THEN stored[c] ELSE wanted[c]
  BY <1>1, <1>2 DEF Flush
<1>5. /\ Flush(stored, seen, wanted)["availability_status"] = stored["availability_status"]
      /\ Flush(stored, seen, wanted)["monthly_rent_minor"] =
             IF RentApplied(j) THEN facts["monthly_rent"] ELSE stored["monthly_rent_minor"]
      /\ ~LaundryApplied(j) => Flush(stored, seen, wanted)["laundry_type"] = stored["laundry_type"]
  BY <1>2, <1>3, <1>4, Names
<1> QED BY <1>4, <1>5 DEF wanted, stored, seen, facts

\* The price event of a page names a value, never an observation.
LEMMA PriceEvent ==
    ASSUME TypeOK, NEW j \in Jobs, job[j].page \in Pages, RentApplied(j)
    PROVE  /\ PageEvent(j) \in Event /\ Tells(PageEvent(j))
           /\ PageEvent(j).type = "monthly_rent_minor"
           /\ PageEvent(j).after = PageFacts[job[j].page]["monthly_rent"]
<1>1. /\ PageFacts[job[j].page]["monthly_rent"] \in Values
      /\ job[j].seen["monthly_rent_minor"] \in Value
  BY Inputs, Names DEF RentApplied, RentDiffers, Value, TypeOK, Job
<1> QED BY <1>1, ValuesAssumption, Names DEF PageEvent, EventOf, Event, Tells, Value, ValuesAssumption

LEMMA ApplyIInv ==
    ASSUME IInv, NEW j \in Jobs, Apply(j)
    PROVE  IInv'
<1>0. PICK l \in Listings : l = job[j].at
  BY DEF IInv, TypeOK, Job
<1> DEFINE facts == PageFacts[job[j].page]
           written == Flush(column[l], job[j].seen, WantedColumns(j))
           keys == RecordedKeys(j)
           emitted == IF RentApplied(j) THEN {PageEvent(j)} ELSE {}
<1>1. /\ TypeOK /\ OneOpenConflict /\ l \in Listings /\ Exists(l) /\ job[j].page \in Pages
      /\ column \in [Listings -> [Columns -> Value]] /\ events \in [Listings -> SUBSET Event]
      /\ extracted \in [Listings -> Pages \cup {NoPage}]
      /\ DOMAIN facts = PageKeys /\ \A f \in PageKeys : facts[f] \in Value
  BY <1>0, Inputs DEF IInv, TypeOK, Job, WorkOnKnown, Apply
<1>2. /\ column' = [column EXCEPT ![l] = written]
      /\ events' = [events EXCEPT ![l] = events[l] \cup emitted]
      /\ CloseSession(j) /\ UNCHANGED <<lastSeen, latest, processed, override, backfill>>
  BY <1>0 DEF Apply
<1>3. /\ written \in [Columns -> Value]
      /\ written["availability_status"] = column[l]["availability_status"]
      /\ written["monthly_rent_minor"] = IF RentApplied(j) THEN facts["monthly_rent"]
                                                          ELSE column[l]["monthly_rent_minor"]
  BY <1>0, <1>1, Written
<1>4. \A f \in keys : f \in PageKeys /\ facts[f] \in Value /\ (f = "monthly_rent" => RentDiffers(j))
  BY <1>1 DEF RecordedKeys, Stated
<1>5. /\ resolved' \in [Listings -> [FactKeys -> Value]]
      /\ \A m \in Listings : m # l => resolved'[m] = resolved[m]
      /\ \A f \in FactKeys : resolved'[l][f] =
             IF f \in keys /\ ~Overridden(l, f) THEN facts[f] ELSE resolved[l][f]
  <2>1. Record(l, keys, facts)
    BY <1>0 DEF Apply
  <2> QED BY <1>1, <1>4, <2>1, Recorded
<1>6. conflicts' \in [Listings -> [FactKeys -> Nat]] /\ OneOpenConflict'
  <2> DEFINE disputed == {f \in RecordedKeys(j) \cap {"monthly_rent", "laundry_type"} :
                              Overridden(l, f)}
  <2>1. RaiseConflicts(l, disputed)
    BY <1>0 DEF Apply
  <2> HIDE DEF disputed
  <2> QED BY <1>1, <2>1, Raised
<1>7. RentApplied(j) => "monthly_rent" \in keys /\ ~Overridden(l, "monthly_rent")
  BY <1>0, <1>1, Names DEF RentApplied, RentDiffers, RecordedKeys, Stated
<1>8. ~RentApplied(j) => "monthly_rent" \notin keys \/ Overridden(l, "monthly_rent")
  BY <1>0, <1>4 DEF RentApplied
<1>9. \A e \in emitted : e \in Event /\ Tells(e)
  BY <1>1, PriceEvent
<1> HIDE DEF keys, written
<1>10. /\ column' \in [Listings -> [Columns -> Value]] /\ column'[l] = written
       /\ \A m \in Listings : m # l => column'[m] = column[m]
  BY <1>1, <1>2, <1>3
<1>11. /\ events' \in [Listings -> SUBSET Event] /\ events'[l] = events[l] \cup emitted
       /\ \A m \in Listings : m # l => events'[m] = events[m]
  <2> HIDE DEF emitted
  <2> QED BY <1>1, <1>2, <1>9
<1>12. ShownAt(l)'
  <2>1. ShownAt(l)
    BY <1>1 DEF IInv, ShownFactsAreResolved, ShownAt
  <2>2. /\ resolved'[l]["availability_status"] = resolved[l]["availability_status"]
        /\ resolved'[l]["monthly_rent_minor"] = resolved[l]["monthly_rent_minor"]
    BY <1>4, <1>5, Names
  <2>3. resolved'[l]["monthly_rent"] = IF RentApplied(j) THEN facts["monthly_rent"]
                                                        ELSE resolved[l]["monthly_rent"]
    BY <1>5, <1>7, <1>8, Names
  <2> HIDE DEF facts
  <2> QED BY <1>3, <1>10, <2>1, <2>2, <2>3 DEF ShownAt
<1>13. \A c \in Traced : EventedAt(l, c)'
  <2> SUFFICES ASSUME NEW c \in Traced PROVE EventedAt(l, c)'
    OBVIOUS
  <2>1. CASE c = "monthly_rent_minor" /\ RentApplied(j)
    <3>1. PageEvent(j) \in events'[l]
      BY <1>11, <2>1
    <3> QED BY <1>1, <1>3, <1>10, <2>1, <3>1, PriceEvent DEF EventedAt
  <2>2. CASE ~(c = "monthly_rent_minor" /\ RentApplied(j))
    <3>1. EventedAt(l, c)
      BY <1>1 DEF IInv, ShownFactsAreEvented, EventedAt, Traced
    <3>2. column'[l][c] = column[l][c]
      BY <1>3, <1>10, <2>2 DEF Traced
    <3> HIDE DEF emitted
    <3> QED BY <1>11, <3>1, <3>2 DEF EventedAt
  <2> QED BY <2>1, <2>2
<1>14. \A e \in events'[l] : Tells(e)
  BY <1>1, <1>9, <1>11 DEF IInv, EventsTell
<1>15. Unborn' /\ EventsTell' /\ ShownFactsAreResolved' /\ ShownFactsAreEvented'
  <2>1. Exists(l)' /\ UNCHANGED override
    BY <1>1, <1>2 DEF Exists
  <2>2. \A m \in Listings : m # l =>
            /\ column'[m] = column[m] /\ resolved'[m] = resolved[m]
            /\ events'[m] = events[m] /\ lastSeen'[m] = lastSeen[m]
    BY <1>2, <1>5, <1>10, <1>11
  <2> QED BY <1>1, <1>12, <1>13, <1>14, <2>1, <2>2, FactsAt
<1>16. job' \in [Jobs -> Job] /\ WorkOnKnown'
  BY <1>2, Closed
<1>17. extracted' \in [Listings -> Pages \cup {NoPage}]
  <2>1. PICK page \in {job[j].page} \cup
                 (IF extracted[l] = job[j].marker THEN {} ELSE {extracted[l]}) :
                 extracted' = [extracted EXCEPT ![l] = page]
    BY <1>0 DEF Apply
  <2>2. page \in Pages \cup {NoPage}
    BY <1>1
  <2> QED BY <1>1, <2>1, <2>2
<1>18. TypeOK'
  BY <1>1, <1>2, <1>5, <1>6, <1>10, <1>11, <1>16, <1>17 DEF TypeOK
<1>19. LinksKnown' /\ LatestIsNewest'
  BY <1>2 DEF IInv, LinksKnown, LatestIsNewest, Exists
<1> QED BY <1>6, <1>15, <1>16, <1>18, <1>19 DEF IInv

-----------------------------------------------------------------------------
(* The backfill and people.                                                 *)

LEMMA BackfillIInv ==
    ASSUME IInv, NEW l \in Listings, NEW v \in Value, Backfill(l, v)
    PROVE  IInv'
<1> DEFINE keys == {"amenities"} \ {f \in FactKeys : v = Unstated}
           value == [f \in FactKeys |-> v]
<1>1. /\ TypeOK /\ Exists(l)
      /\ UNCHANGED <<column, lastSeen, latest, processed, override, conflicts,
                     events, extracted, job>>
      /\ backfill' = backfill \ {l}
  BY DEF IInv, WorkOnKnown, Backfill
<1>2. /\ resolved' \in [Listings -> [FactKeys -> Value]]
      /\ \A m \in Listings : m # l => resolved'[m] = resolved[m]
      /\ \A f \in FactKeys : f # "amenities" => resolved'[l][f] = resolved[l][f]
  <2>1. Record(l, keys, value)
    BY DEF Backfill
  <2>2. \A f \in keys : value[f] \in Value
    BY Names
  <2>3. \A f \in FactKeys : f # "amenities" => f \notin keys
    OBVIOUS
  <2> HIDE DEF keys, value
  <2> QED BY <1>1, <2>1, <2>2, <2>3, Recorded
<1>3. \A m \in Listings, f \in {"monthly_rent", "monthly_rent_minor", "availability_status"} :
          resolved'[m][f] = resolved[m][f]
  BY <1>2, Names
<1>4. ShownFactsAreResolved'
  BY <1>1, <1>3 DEF IInv, ShownFactsAreResolved, Exists
<1>5. Unborn'
  BY <1>1, <1>2 DEF IInv, Unborn, Exists
<1>6. /\ WorkOnKnown' /\ LinksKnown' /\ EventsTell' /\ ShownFactsAreEvented'
      /\ LatestIsNewest' /\ OneOpenConflict'
  BY <1>1 DEF IInv, WorkOnKnown, LinksKnown, EventsTell, ShownFactsAreEvented, LatestIsNewest,
              OneOpenConflict, Exists
<1>7. TypeOK'
  BY <1>1, <1>2 DEF TypeOK
<1> QED BY <1>4, <1>5, <1>6, <1>7 DEF IInv

LEMMA SelectBackfillIInv ==
    ASSUME IInv, SelectBackfill
    PROVE  IInv'
<1>0. /\ job' = job /\ lastSeen' = lastSeen /\ job \in [Jobs -> Job]
      /\ \A l \in backfill' : l \in Listings /\ Exists(l)
  BY DEF SelectBackfill, IInv, TypeOK, factVars
<1>1. job' \in [Jobs -> Job] /\ backfill' \subseteq Listings /\ WorkOnKnown'
  BY <1>0 DEF IInv, WorkOnKnown, Exists
<1> QED BY <1>1, JobAlone DEF SelectBackfill

\* Overrides and issues of people touch nothing a writer records.
LEMMA PeopleIInv ==
    ASSUME IInv, NEW l \in Listings, NEW f \in FactKeys,
           \/ WithdrawOverride(l, f) \/ ResolveIssue(l, f)
           \/ \E o \in Override : PlaceOverride(l, f, o)
    PROVE  IInv'
<1>1. UNCHANGED <<column, lastSeen, latest, processed, resolved, events, extracted, job, backfill>>
  BY DEF WithdrawOverride, ResolveIssue, PlaceOverride
<1>2. override' \in [Listings -> [FactKeys -> Override \cup {NoOverride}]]
  <2> DEFINE Rows == Override \cup {NoOverride}
  <2>1. override \in [Listings -> [FactKeys -> Rows]]
    BY DEF IInv, TypeOK
  <2>2. override' = override \/ \E v \in Rows : override' = [override EXCEPT ![l][f] = v]
    BY DEF WithdrawOverride, ResolveIssue, PlaceOverride
  <2> HIDE DEF Rows
  <2>3. override' \in [Listings -> [FactKeys -> Rows]]
    BY <2>1, <2>2
  <2> QED BY <2>3 DEF Rows
<1>3. conflicts' \in [Listings -> [FactKeys -> Nat]] /\ OneOpenConflict'
  <2>1. CASE ResolveIssue(l, f)
    <3>1. conflicts[l][f] \in Nat /\ conflicts[l][f] > 0 /\ conflicts[l][f] <= 1
      BY <2>1 DEF IInv, TypeOK, OneOpenConflict, ResolveIssue
    <3>2. conflicts[l][f] - 1 \in Nat /\ conflicts[l][f] - 1 <= 1
      BY <3>1
    <3> QED BY <2>1, <3>2 DEF IInv, TypeOK, OneOpenConflict, ResolveIssue
  <2>2. CASE ~ResolveIssue(l, f)
    BY <2>2 DEF IInv, TypeOK, OneOpenConflict, WithdrawOverride, PlaceOverride
  <2> QED BY <2>1, <2>2
<1>4. Unborn'
  <2>1. \A m \in Listings, g \in FactKeys :
            ~Exists(m) /\ override[m][g] = NoOverride => override'[m][g] = NoOverride
    BY DEF IInv, TypeOK, WithdrawOverride, ResolveIssue, PlaceOverride
  <2> QED BY <1>1, <2>1 DEF IInv, Unborn, Exists
<1>5. /\ WorkOnKnown' /\ LinksKnown' /\ EventsTell' /\ ShownFactsAreResolved'
      /\ ShownFactsAreEvented' /\ LatestIsNewest'
  BY <1>1 DEF IInv, WorkOnKnown, LinksKnown, EventsTell, ShownFactsAreResolved,
              ShownFactsAreEvented, LatestIsNewest, Exists
<1>6. TypeOK'
  BY <1>1, <1>2, <1>3 DEF IInv, TypeOK
<1> QED BY <1>3, <1>4, <1>5, <1>6 DEF IInv

-----------------------------------------------------------------------------
(* The theorems.                                                            *)

LEMMA NextIInv == IInv /\ [Next]_vars => IInv'
<1> SUFFICES ASSUME IInv, [Next]_vars PROVE IInv'
  OBVIOUS
<1>1. CASE UNCHANGED vars
  <2>1. job' \in [Jobs -> Job] /\ backfill' \subseteq Listings /\ WorkOnKnown'
    BY <1>1 DEF vars, IInv, TypeOK, WorkOnKnown, Exists
  <2> QED BY <1>1, <2>1, JobAlone DEF vars, factVars
<1> QED BY <1>1, CreateIInv, AttachIInv, RefreshIInv, UpdateIInv, VisitIInv, ApplyIInv,
           BackfillIInv, SelectBackfillIInv, PeopleIInv DEF Next, Normalize, JobStep

\* The invariant holds of every behaviour of normalization, enrichment, backfill
\* and people.
THEOREM Invariant == Spec => []IInv
<1> QED BY InitIInv, NextIInv, PTL DEF Spec

\* Every table and process holds values of its type.
THEOREM TypeCorrect == Spec => []TypeOK
<1>1. IInv => TypeOK
  BY DEF IInv
<1> QED BY <1>1, Invariant, PTL

\* The availability and the rent a listing shows are resolved facts, whatever
\* the order in which observations and pages are applied (FactRecorder.record).
THEOREM ShownIsResolved == Spec => []ShownFactsAreResolved
<1>1. IInv => ShownFactsAreResolved
  BY DEF IInv
<1> QED BY <1>1, Invariant, PTL

\* Every shown rent or availability has an event that ends in it, although an
\* event whose key is taken is dropped (_emit_event).
THEOREM ShownIsEvented == Spec => []ShownFactsAreEvented
<1>1. IInv => ShownFactsAreEvented
  BY DEF IInv
<1> QED BY <1>1, Invariant, PTL

\* However late an observation arrives, freshness is that of the newest one
\* normalized (_touch_freshness).
THEOREM FreshnessIsNewest == Spec => []LatestIsNewest
<1>1. IInv => LatestIsNewest
  BY DEF IInv
<1> QED BY <1>1, Invariant, PTL

\* Two writers never open a second issue on one fact
\* (raise_conflict_with_override).
THEOREM ConflictsOpenOnce == Spec => []OneOpenConflict
<1>1. IInv => OneOpenConflict
  BY DEF IInv
<1> QED BY <1>1, Invariant, PTL

\* A field that was overridden and stays so keeps what it shows and its
\* resolution.
LEMMA StepsRespectOverrides ==
    ASSUME IInv, [Next]_vars, NEW l \in Listings, NEW f \in {"laundry_type", "availability_status"},
           Overridden(l, f), override'[l][f] = override[l][f]
    PROVE  column'[l][f] = column[l][f] /\ resolved'[l][f] = resolved[l][f]
<1>0. /\ TypeOK /\ f \in Columns /\ f \in FactKeys /\ Exists(l)
      /\ f # "amenities" /\ f # "monthly_rent_minor"
      /\ column \in [Listings -> [Columns -> Value]]
      /\ resolved \in [Listings -> [FactKeys -> Value]]
  BY Names DEF IInv, TypeOK, Unborn, Overridden
<1>1. ASSUME NEW o \in Observations, Normalize(o)
      PROVE  column'[l][f] = column[l][f] /\ resolved'[l][f] = resolved[l][f]
  <2>0. LinkOf[o] \in Links /\ ListingOf[LinkOf[o]] \in Listings
    BY Inputs
  <2>1. CASE Create(o)
    <3>1. l # ListingOf[LinkOf[o]]
      BY <1>0, <2>1 DEF Create
    <3> QED BY <1>0, <2>0, <2>1, <3>1 DEF Create, Record
  <2>2. CASE Attach(o) \/ Refresh(o)
    BY <2>2 DEF Attach, Refresh
  <2>3. CASE Update(o)
    BY <1>0, <2>0, <2>3 DEF Update, Record, Applied
  <2> QED BY <1>1, <2>1, <2>2, <2>3 DEF Normalize
<1>2. ASSUME NEW j \in Jobs, Apply(j)
      PROVE  column'[l][f] = column[l][f] /\ resolved'[l][f] = resolved[l][f]
  <2>1. job[j].at \in Listings /\ job[j].page \in Pages
    BY <1>2 DEF IInv, TypeOK, Job, WorkOnKnown, Apply
  <2>2. resolved'[l][f] = resolved[l][f]
    BY <1>0, <1>2, <2>1 DEF Apply, Record
  <2>3. column'[l][f] = column[l][f]
    <3> DEFINE written == Flush(column[job[j].at], job[j].seen, WantedColumns(j))
    <3>1. column' = [column EXCEPT ![job[j].at] = written]
      BY <1>2 DEF Apply
    <3>2. job[j].at = l => written[f] = column[l][f]
      BY <1>0, <2>1, Written DEF LaundryApplied
    <3> HIDE DEF written
    <3> QED BY <1>0, <2>1, <3>1, <3>2
  <2> QED BY <2>2, <2>3
<1>3. ASSUME NEW m \in Listings, NEW v \in Value, Backfill(m, v)
      PROVE  column'[l][f] = column[l][f] /\ resolved'[l][f] = resolved[l][f]
  BY <1>0, <1>3 DEF Backfill, Record
<1>4. CASE UNCHANGED <<column, resolved>>
  BY <1>4
<1>5. \/ \E o \in Observations : Normalize(o)
      \/ \E j \in Jobs : Apply(j)
      \/ \E m \in Listings, v \in Value : Backfill(m, v)
      \/ UNCHANGED <<column, resolved>>
  BY DEF Next, vars, JobStep, Relaunch, StartJob, QuotaRefused, Read, GiveUp, ApplyFails, EndJob,
         SelectBackfill, WithdrawOverride, ResolveIssue, PlaceOverride, factVars
<1> QED BY <1>1, <1>2, <1>3, <1>4, <1>5

\* No writer moves an overridden laundry or availability, nor its resolution
\* (active_override), whenever it loaded the listing.
THEOREM OverridesStand == Spec => OverriddenFieldsStand
<1>1. IInv /\ [Next]_vars =>
          [\A l \in Listings, f \in {"laundry_type", "availability_status"} :
               Overridden(l, f) /\ override'[l][f] = override[l][f] =>
                   /\ column'[l][f] = column[l][f]
                   /\ resolved'[l][f] = resolved[l][f]]_vars
  BY StepsRespectOverrides
<1> QED BY <1>1, Invariant, PTL DEF Spec, OverriddenFieldsStand

=============================================================================
