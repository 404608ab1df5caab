--------------------------- MODULE WorkspaceProofs ---------------------------
(***************************************************************************)
(* Proofs about choices and discards, for any properties, listings,        *)
(* clients and any number of discards at once, and about the tables that a *)
(* TRUNCATE ... CASCADE reaches along the foreign keys of Schema.          *)
(***************************************************************************)
EXTENDS Workspace, FiniteSetTheorems, WellFoundedInduction, TLAPS

-----------------------------------------------------------------------------
(* What TRUNCATE ... CASCADE reaches.                                       *)

\* The tables that refer to one of S are added to it.
Grown(S) == S \cup {key[1] : key \in {k \in ForeignKeys : k[2] \in S}}

LEMMA KeysArePairs == \A k \in ForeignKeys : k = <<k[1], k[2]>>
<1>1. ASSUME NEW t, NEW S, NEW k \in From(t, S) PROVE k = <<k[1], k[2]>>
  BY DEF From
<1>2. \A k \in PlaceKeys \cup RunKeys \cup BuildingKeys : k = <<k[1], k[2]>>
  BY <1>1, Zenon DEF PlaceKeys, RunKeys, BuildingKeys
<1>3. \A k \in ObservationKeys \cup ListingKeys \cup ChoiceKeys : k = <<k[1], k[2]>>
  BY <1>1, Zenon DEF ObservationKeys, ListingKeys, ChoiceKeys
<1>4. \A k \in CommuteKeys \cup LinkKeys \cup AccessKeys : k = <<k[1], k[2]>>
  BY <1>1, Zenon DEF CommuteKeys, LinkKeys, AccessKeys
<1>5. \A k \in JobKeys \cup ExecutionKeys \cup AssetKeys : k = <<k[1], k[2]>>
  BY <1>1, Zenon DEF JobKeys, ExecutionKeys, AssetKeys
<1>6. \A k \in AssertionKeys \cup AnalysisKeys \cup MediaKeys : k = <<k[1], k[2]>>
  BY <1>1, Zenon DEF AssertionKeys, AnalysisKeys, MediaKeys
<1>7. \A k \in HistoryKeys \cup CompanyKeys \cup ResearchKeys \cup CompanyTargetKeys :
        k = <<k[1], k[2]>>
  BY <1>1, Zenon DEF HistoryKeys, CompanyKeys, ResearchKeys, CompanyTargetKeys
<1> QED BY <1>2, <1>3, <1>4, <1>5, <1>6, <1>7 DEF ForeignKeys

LEMMA GrownBy ==
    ASSUME NEW S, NEW t
    PROVE  t \in Grown(S) <=> t \in S \/ \E u \in S : <<t, u>> \in ForeignKeys
<1>1. ASSUME NEW k \in ForeignKeys, k[2] \in S
      PROVE  \E u \in S : <<k[1], u>> \in ForeignKeys
  BY <1>1, KeysArePairs
<1>2. ASSUME NEW u \in S, <<t, u>> \in ForeignKeys PROVE t \in Grown(S)
  <2>1. <<t, u>>[1] = t /\ <<t, u>>[2] = u
    OBVIOUS
  <2> QED BY <1>2, <2>1 DEF Grown
<1>3. ASSUME t \in Grown(S), t \notin S PROVE \E u \in S : <<t, u>> \in ForeignKeys
  BY <1>1, <1>3 DEF Grown
<1> QED BY <1>2, <1>3 DEF Grown

\* A way from a discarded table to one that depends on it, n references at most.
Path(s, n) ==
    /\ s \in [0 .. n -> Tables]
    /\ s[0] \in DiscardTables
    /\ \A i \in 1 .. n : s[i] = s[i - 1] \/ <<s[i], s[i - 1]>> \in ForeignKeys

ReachedIn(n) == {s[n] : s \in {p \in [0 .. n -> Tables] : Path(p, n)}}

LEMMA TablesRefer == \A t, u : <<t, u>> \in ForeignKeys => t \in Tables
<1> SUFFICES ASSUME NEW t, NEW u, <<t, u>> \in ForeignKeys PROVE t \in Tables
  OBVIOUS
<1>1. <<t, u>>[1] = t
  OBVIOUS
<1> QED BY <1>1 DEF Tables

LEMMA DiscardedAreTables == DiscardTables \subseteq Tables
<1>1. /\ <<"address", "source">> \in ForeignKeys
      /\ <<"canonical_listing", "building">> \in ForeignKeys
      /\ <<"source_observation", "source">> \in ForeignKeys
  BY DEF ForeignKeys, PlaceKeys, ListingKeys, ObservationKeys, From
<1>2. /\ <<"media_asset", "source">> \in ForeignKeys
      /\ <<"fact_assertion", "media_asset">> \in ForeignKeys
      /\ <<"fact_resolution", "fact_assertion">> \in ForeignKeys
      /\ <<"job", "refresh_run">> \in ForeignKeys
  BY DEF ForeignKeys, AssetKeys, AssertionKeys, HistoryKeys, JobKeys, From
<1>3. {"review_issue", "human_override"} \subseteq Tables
  BY DEF Tables, RootTables
<1> QED BY <1>1, <1>2, <1>3, TablesRefer DEF DiscardTables

LEMMA ReachedInGrows ==
    /\ ReachedIn(0) = DiscardTables
    /\ \A n \in Nat \ {0} : ReachedIn(n) = Grown(ReachedIn(n - 1))
<1>1. ASSUME NEW t \in DiscardTables PROVE t \in ReachedIn(0)
  <2> DEFINE s == [i \in 0 .. 0 |-> t]
  <2>1. s \in [0 .. 0 -> Tables] /\ s[0] = t /\ Path(s, 0)
    BY DiscardedAreTables DEF Path
  <2> QED BY <2>1 DEF ReachedIn
<1>2. ReachedIn(0) \subseteq DiscardTables
  BY DEF ReachedIn, Path
<1>3. ASSUME NEW n \in Nat \ {0}, NEW t \in ReachedIn(n) PROVE t \in Grown(ReachedIn(n - 1))
  <2>1. PICK s \in [0 .. n -> Tables] : Path(s, n) /\ t = s[n]
    BY DEF ReachedIn
  <2> DEFINE p == [i \in 0 .. n - 1 |-> s[i]]
  <2>2. p \in [0 .. n - 1 -> Tables] /\ Path(p, n - 1)
    BY <2>1 DEF Path
  <2>3. s[n - 1] \in ReachedIn(n - 1)
    BY <2>2 DEF ReachedIn
  <2>4. s[n] = s[n - 1] \/ <<s[n], s[n - 1]>> \in ForeignKeys
    BY <2>1 DEF Path
  <2> QED BY <2>1, <2>3, <2>4, GrownBy
<1>4. ASSUME NEW n \in Nat \ {0}, NEW t \in Grown(ReachedIn(n - 1)) PROVE t \in ReachedIn(n)
  <2>1. PICK u \in ReachedIn(n - 1) : t = u \/ <<t, u>> \in ForeignKeys
    BY GrownBy
  <2>2. PICK p \in [0 .. n - 1 -> Tables] : Path(p, n - 1) /\ u = p[n - 1]
    BY DEF ReachedIn
  <2>3. t \in Tables
    BY <2>1, <2>2, TablesRefer
  <2> DEFINE s == [i \in 0 .. n |-> IF i = n THEN t ELSE p[i]]
  <2>4. /\ s \in [0 .. n -> Tables] /\ s[n] = t
        /\ \A i \in 0 .. n - 1 : s[i] = p[i]
    BY <2>3
  <2> HIDE DEF s
  <2>5. Path(s, n)
    BY <2>1, <2>2, <2>4 DEF Path
  <2> QED BY <2>4, <2>5 DEF ReachedIn
<1> QED BY <1>1, <1>2, <1>3, <1>4

LEMMA CascadeEquation ==
    /\ Cascade[0] = DiscardTables
    /\ \A n \in Nat \ {0} : Cascade[n] = Grown(Cascade[n - 1])
<1> DEFINE W == [n \in Nat |-> ReachedIn(n)]
           Body(f) == [n \in Nat |->
                         IF n = 0 THEN DiscardTables
                         ELSE LET reached == f[n - 1] IN
                              reached \cup {key[1] : key \in {k \in ForeignKeys : k[2] \in reached}}]
<1>1. W = Body(W)
  <2>1. \A n \in Nat : ReachedIn(n) = IF n = 0 THEN DiscardTables ELSE Grown(W[n - 1])
    BY ReachedInGrows
  <2> QED BY <2>1 DEF Grown
<1>2. Cascade = CHOOSE f : f = Body(f)
  BY DEF Cascade
<1>3. Cascade = Body(Cascade)
  <2> HIDE DEF Body, W
  <2> QED BY <1>1, <1>2
<1> QED BY <1>3 DEF Grown

LEMMA LeastElement ==
    ASSUME NEW T, T \subseteq Nat, T # {} PROVE \E m \in T : \A k \in T : m <= k
<1> DEFINE Initial == {1 .. m : m \in T}
           Order == StrictSubsetOrdering(Nat)
<1>1. IsWellFoundedOn(Order, FiniteSubsetsOf(Nat))
  BY FS_StrictSubsetOrderingWellFounded
<1>2. Initial \subseteq FiniteSubsetsOf(Nat)
  BY FS_Interval DEF FiniteSubsetsOf
<1>3. Initial # {}
  OBVIOUS
<1>4. PICK x \in Initial : \A y \in Initial : ~ (<<y, x>> \in Order)
  <2> HIDE DEF Order, Initial
  <2> QED BY <1>1, <1>2, <1>3, WFMin
<1>5. PICK m \in T : x = 1 .. m
  OBVIOUS
<1>6. ASSUME NEW k \in T, k < m PROVE FALSE
  <2>1. 1 .. k \in Initial /\ 1 .. k \subseteq 1 .. m /\ m \in 1 .. m /\ m \notin 1 .. k
    BY <1>6
  <2>2. <<1 .. k, 1 .. m>> \in Order
    BY <2>1 DEF StrictSubsetOrdering
  <2> QED BY <2>1, <2>2, <1>4, <1>5
<1> QED BY <1>6

\* TRUNCATE ... CASCADE leaves no reference from outside S into S.
Closed(S) == \A k \in ForeignKeys : k[2] \in S => k[1] \in S

LEMMA CascadeWithin ==
    ASSUME NEW S, DiscardTables \subseteq S, Closed(S)
    PROVE  \A n \in Nat : Cascade[n] \subseteq S
<1> SUFFICES ASSUME NEW n \in Nat, ~ Cascade[n] \subseteq S PROVE FALSE
  OBVIOUS
<1> DEFINE Bad == {m \in Nat : ~ Cascade[m] \subseteq S}
<1>1. PICK m \in Bad : \A k \in Bad : m <= k
  BY LeastElement
<1>2. m \in Nat \ {0}
  BY CascadeEquation
<1>3. Cascade[m - 1] \subseteq S
  BY <1>1, <1>2
<1>4. Cascade[m] \subseteq S
  BY <1>2, <1>3, CascadeEquation DEF Grown, Closed
<1> QED BY <1>1, <1>4

LEMMA CascadeInTables == \A n \in Nat : Cascade[n] \subseteq Tables
BY CascadeWithin, DiscardedAreTables, TablesRefer, KeysArePairs DEF Closed

LEMMA CascadeKeeps ==
    ASSUME NEW m \in Nat, NEW n \in Nat, m <= n PROVE Cascade[m] \subseteq Cascade[n]
<1> SUFFICES ASSUME ~ Cascade[m] \subseteq Cascade[n] PROVE FALSE
  OBVIOUS
<1> DEFINE Bad == {k \in Nat : m <= k /\ ~ Cascade[m] \subseteq Cascade[k]}
<1>1. PICK b \in Bad : \A k \in Bad : b <= k
  BY LeastElement
<1>2. b \in Nat \ {0} /\ m <= b - 1
  BY <1>1
<1>3. Cascade[m] \subseteq Cascade[b - 1]
  BY <1>1, <1>2
<1> QED BY <1>1, <1>2, <1>3, CascadeEquation DEF Grown

LEMMA FewAreFinite == \A a, b, c, d : IsFiniteSet({a, b, c, d})
<1> TAKE a, b, c, d
<1>1. IsFiniteSet({a}) /\ IsFiniteSet({b}) /\ IsFiniteSet({c}) /\ IsFiniteSet({d})
  BY FS_Singleton
<1>2. IsFiniteSet({a} \cup {b}) /\ IsFiniteSet({c} \cup {d})
  BY <1>1, FS_Union
<1>3. IsFiniteSet(({a} \cup {b}) \cup ({c} \cup {d}))
  BY <1>2, FS_Union
<1>4. {a, b, c, d} = ({a} \cup {b}) \cup ({c} \cup {d})
  OBVIOUS
<1> QED BY <1>3, <1>4

\* No table has more than four foreign keys in a migration.
LEMMA FromIsFinite ==
    \A t, a, b, c, d : /\ IsFiniteSet(From(t, {a})) /\ IsFiniteSet(From(t, {a, b}))
                      /\ IsFiniteSet(From(t, {a, b, c}))
                      /\ IsFiniteSet(From(t, {a, b, c, d}))
<1> TAKE t, a, b, c, d
<1>1. /\ {a} = {a, a, a, a} /\ {a, b} = {a, b, b, b} /\ {a, b, c} = {a, b, c, c}
  OBVIOUS
<1>2. IsFiniteSet({t}) /\ IsFiniteSet({a})
  BY FS_Singleton
<1>3. IsFiniteSet({a, b})
  BY <1>1, FewAreFinite
<1>4. IsFiniteSet({a, b, c})
  BY <1>1, FewAreFinite
<1> QED BY <1>2, <1>3, <1>4, FewAreFinite, FS_Product DEF From

LEMMA KeysAreFinite == IsFiniteSet(ForeignKeys)
<1>1. IsFiniteSet(PlaceKeys) /\ IsFiniteSet(RunKeys) /\ IsFiniteSet(BuildingKeys)
  BY FromIsFinite, FS_Union DEF PlaceKeys, RunKeys, BuildingKeys
<1>2. IsFiniteSet(ObservationKeys) /\ IsFiniteSet(ListingKeys) /\ IsFiniteSet(ChoiceKeys)
  BY FromIsFinite, FS_Union DEF ObservationKeys, ListingKeys, ChoiceKeys
<1>3. IsFiniteSet(CommuteKeys) /\ IsFiniteSet(LinkKeys) /\ IsFiniteSet(AccessKeys)
  BY FromIsFinite, FS_Union DEF CommuteKeys, LinkKeys, AccessKeys
<1>4. IsFiniteSet(JobKeys) /\ IsFiniteSet(ExecutionKeys) /\ IsFiniteSet(AssetKeys)
  BY FromIsFinite, FS_Union DEF JobKeys, ExecutionKeys, AssetKeys
<1>5. IsFiniteSet(AssertionKeys) /\ IsFiniteSet(AnalysisKeys) /\ IsFiniteSet(MediaKeys)
  BY FromIsFinite, FS_Union DEF AssertionKeys, AnalysisKeys, MediaKeys
<1>6. IsFiniteSet(HistoryKeys) /\ IsFiniteSet(CompanyKeys) /\ IsFiniteSet(ResearchKeys) /\ IsFiniteSet(CompanyTargetKeys)
  BY FromIsFinite, FS_Union DEF HistoryKeys, CompanyKeys, ResearchKeys, CompanyTargetKeys
<1>7. IsFiniteSet(PlaceKeys \cup RunKeys \cup BuildingKeys)
  BY <1>1, FS_Union
<1>8. IsFiniteSet(ObservationKeys \cup ListingKeys \cup ChoiceKeys)
  BY <1>2, FS_Union
<1>9. IsFiniteSet(CommuteKeys \cup LinkKeys \cup AccessKeys)
  BY <1>3, FS_Union
<1>10. IsFiniteSet(JobKeys \cup ExecutionKeys \cup AssetKeys)
  BY <1>4, FS_Union
<1>11. IsFiniteSet(AssertionKeys \cup AnalysisKeys \cup MediaKeys)
  BY <1>5, FS_Union
<1>12. IsFiniteSet(HistoryKeys \cup CompanyKeys \cup ResearchKeys \cup CompanyTargetKeys)
  BY <1>6, FS_Union
<1> DEFINE early == ((PlaceKeys \cup RunKeys \cup BuildingKeys) \cup (ObservationKeys \cup ListingKeys \cup ChoiceKeys)) \cup (CommuteKeys \cup LinkKeys \cup AccessKeys)
           late == ((JobKeys \cup ExecutionKeys \cup AssetKeys) \cup (AssertionKeys \cup AnalysisKeys \cup MediaKeys)) \cup (HistoryKeys \cup CompanyKeys \cup ResearchKeys \cup CompanyTargetKeys)
<1>13. IsFiniteSet(early) /\ IsFiniteSet(late)
  BY <1>7, <1>8, <1>9, <1>10, <1>11, <1>12, FS_Union
<1>14. IsFiniteSet(early \cup late)
  <2> HIDE DEF early, late
  <2> QED BY <1>13, FS_Union
<1>15. ForeignKeys = early \cup late
  BY Zenon DEF ForeignKeys
<1> QED BY <1>14, <1>15

LEMMA TablesAreFinite == IsFiniteSet(Tables)
<1> DEFINE referring == {key[1] : key \in ForeignKeys}
           table == [key \in ForeignKeys |-> key[1]]
<1>1. table \in Surjection(ForeignKeys, referring)
  BY DEF Surjection
<1>2. IsFiniteSet(referring)
  <2> HIDE DEF referring, table
  <2> QED BY <1>1, KeysAreFinite, FS_Surjection DEF ExistsSurjection
<1>3. RootTables = {"amenity_definition", "client_search_preset", "human_override", "review_issue"}
                   \cup {"source", "action_log", "refresh_run", "refresh_run"}
  BY DEF RootTables
<1>4. IsFiniteSet(RootTables)
  BY <1>3, FewAreFinite, FS_Union
<1>5. IsFiniteSet({"geographic_boundary"})
  BY FS_Singleton
<1>6. IsFiniteSet(RootTables \cup {"geographic_boundary"})
  BY <1>4, <1>5, FS_Union
<1>7. IsFiniteSet(RootTables \cup {"geographic_boundary"} \cup referring)
  <2> HIDE DEF referring
  <2> QED BY <1>2, <1>6, FS_Union
<1> QED BY <1>7 DEF Tables

\* Once a step of the cascade adds no table, no later one does.
LEMMA CascadeSettles ==
    ASSUME NEW m \in Nat, Cascade[m + 1] = Cascade[m], NEW n \in Nat, m <= n
    PROVE  Cascade[n] = Cascade[m]
<1> SUFFICES ASSUME Cascade[n] # Cascade[m] PROVE FALSE
  OBVIOUS
<1> DEFINE Bad == {k \in Nat : m <= k /\ Cascade[k] # Cascade[m]}
<1>1. PICK b \in Bad : \A k \in Bad : b <= k
  BY LeastElement
<1>2. b \in Nat \ {0} /\ m <= b - 1 /\ b - 1 \in Nat
  BY <1>1
<1>3. Cascade[b - 1] = Cascade[m]
  BY <1>1, <1>2
<1>4. Cascade[b] = Grown(Cascade[m]) /\ Cascade[m + 1] = Grown(Cascade[m])
  BY <1>2, <1>3, CascadeEquation
<1> QED BY <1>1, <1>4

\* While steps of the cascade add tables, the n-th has reached n at least.
LEMMA CascadeCounts ==
    ASSUME NEW N \in Nat, Cascade[N + 1] # Cascade[N]
    PROVE  \A n \in 0 .. N + 1 : Cardinality(Cascade[n]) >= n
<1>1. \A n \in Nat : IsFiniteSet(Cascade[n]) /\ Cardinality(Cascade[n]) \in Nat
  BY CascadeInTables, TablesAreFinite, FS_Subset, FS_CardinalityType
<1> SUFFICES ASSUME NEW n \in 0 .. N + 1, ~ (Cardinality(Cascade[n]) >= n) PROVE FALSE
  OBVIOUS
<1> DEFINE Bad == {m \in Nat : m <= N + 1 /\ ~ (Cardinality(Cascade[m]) >= m)}
<1>2. PICK m \in Bad : \A k \in Bad : m <= k
  <2>1. n \in Bad /\ Bad \subseteq Nat
    OBVIOUS
  <2> HIDE DEF Bad
  <2> QED BY <2>1, LeastElement
<1>3. m \in Nat \ {0} /\ m - 1 \in Nat /\ m - 1 <= N /\ (m - 1) + 1 = m
  BY <1>1, <1>2
<1>4. Cardinality(Cascade[m - 1]) >= m - 1
  BY <1>2, <1>3
<1>5. Cascade[m - 1] \subseteq Cascade[m] /\ Cascade[m - 1] # Cascade[m]
  <2>1. Cascade[m - 1] # Cascade[m]
    <3> SUFFICES ASSUME Cascade[m - 1] = Cascade[m] PROVE FALSE
      OBVIOUS
    <3>1. Cascade[N] = Cascade[m - 1] /\ Cascade[N + 1] = Cascade[m - 1]
      BY <1>3, CascadeSettles
    <3> QED BY <3>1
  <2> QED BY <1>3, <2>1, CascadeKeeps
<1>6. Cardinality(Cascade[m - 1]) <= Cardinality(Cascade[m])
      /\ Cardinality(Cascade[m - 1]) # Cardinality(Cascade[m])
  BY <1>1, <1>3, <1>5, FS_Subset
<1> QED BY <1>1, <1>2, <1>3, <1>4, <1>6

\* TRUNCATE ... CASCADE as Schema computes it reaches exactly what it must: the
\* listed tables, everything that refers to a truncated table, and no more.
THEOREM CascadeIsExact ==
    /\ DiscardTables \subseteq Truncated
    /\ Closed(Truncated)
    /\ \A S : DiscardTables \subseteq S /\ Closed(S) => Truncated \subseteq S
<1> DEFINE N == Cardinality(Tables)
<1>1. N \in Nat
  BY TablesAreFinite, FS_CardinalityType
<1>2. DiscardTables \subseteq Truncated
  BY <1>1, CascadeKeeps, CascadeEquation DEF Truncated
<1>3. Cascade[N + 1] = Cascade[N]
  <2> SUFFICES ASSUME Cascade[N + 1] # Cascade[N] PROVE FALSE
    OBVIOUS
  <2>1. Cardinality(Cascade[N + 1]) >= N + 1
    BY <1>1, CascadeCounts
  <2>2. Cascade[N + 1] \subseteq Tables
    BY <1>1, CascadeInTables
  <2>3. Cardinality(Cascade[N + 1]) <= N /\ Cardinality(Cascade[N + 1]) \in Nat
    BY <2>2, TablesAreFinite, FS_Subset, FS_CardinalityType
  <2> QED BY <1>1, <2>1, <2>3
<1>4. Grown(Truncated) = Truncated
  BY <1>1, <1>3, CascadeEquation DEF Truncated
<1>5. Closed(Truncated)
  BY <1>4 DEF Closed, Grown
<1> QED BY <1>1, <1>2, <1>5, CascadeWithin DEF Truncated

\* A table that refers to none and is not discarded is spared.
LEMMA SparedTable ==
    ASSUME NEW t, t \notin DiscardTables, \A u : <<t, u>> \notin ForeignKeys
    PROVE  t \notin Truncated
<1>1. \A k \in ForeignKeys : k[1] # t
  BY KeysArePairs
<1>2. Closed(Truncated \ {t})
  BY <1>1, CascadeIsExact DEF Closed
<1> QED BY <1>2, CascadeIsExact

\* A truncated table takes along those that refer to it.
LEMMA TakenAlong ==
    ASSUME NEW t, NEW u \in Truncated, <<t, u>> \in ForeignKeys PROVE t \in Truncated
<1>1. <<t, u>>[1] = t /\ <<t, u>>[2] = u
  OBVIOUS
<1> QED BY <1>1, CascadeIsExact DEF Closed

\* Clients and the audit of actions refer to nothing.
LEMMA KeyOwners ==
    \A t \in {"client_search_preset", "action_log"} : \A u : <<t, u>> \notin ForeignKeys
<1> SUFFICES ASSUME NEW t \in {"client_search_preset", "action_log"}, NEW u
             PROVE  <<t, u>> \notin ForeignKeys
  OBVIOUS
<1>0. ASSUME NEW o, NEW S, o # t PROVE <<t, u>> \notin From(o, S)
  BY <1>0 DEF From
<1>1. <<t, u>> \notin PlaceKeys \cup RunKeys \cup BuildingKeys
  BY <1>0 DEF PlaceKeys, RunKeys, BuildingKeys
<1>2. <<t, u>> \notin ObservationKeys \cup ListingKeys \cup ChoiceKeys
  BY <1>0 DEF ObservationKeys, ListingKeys, ChoiceKeys
<1>3. <<t, u>> \notin CommuteKeys \cup LinkKeys \cup AccessKeys
  BY <1>0 DEF CommuteKeys, LinkKeys, AccessKeys
<1>4. <<t, u>> \notin JobKeys \cup ExecutionKeys \cup AssetKeys
  BY <1>0 DEF JobKeys, ExecutionKeys, AssetKeys
<1>5. <<t, u>> \notin AssertionKeys \cup AnalysisKeys \cup MediaKeys
  BY <1>0 DEF AssertionKeys, AnalysisKeys, MediaKeys
<1>6. <<t, u>> \notin HistoryKeys \cup CompanyKeys \cup ResearchKeys \cup CompanyTargetKeys
  BY <1>0 DEF HistoryKeys, CompanyKeys, ResearchKeys, CompanyTargetKeys
<1> QED BY <1>1, <1>2, <1>3, <1>4, <1>5, <1>6, Zenon DEF ForeignKeys

\* Of the tables of this module a discard truncates all but the clients, who
\* refer to nothing, and with them the audit of people's actions.
LEMMA DiscardReaches ==
    /\ {"canonical_listing", "company_property", "destination", "client_shortlist_entry",
        "marketing_selection", "commute_result", "model_execution"} \subseteq Truncated
    /\ Truncated \cap {"client_search_preset", "action_log"} = {}
<1>1. {"canonical_listing", "address", "job"} \subseteq Truncated
  BY CascadeIsExact DEF DiscardTables
<1>2. <<"building", "address">> \in ForeignKeys /\ <<"destination", "address">> \in ForeignKeys
  BY DEF ForeignKeys, BuildingKeys, From
<1>3. /\ <<"client_shortlist_entry", "canonical_listing">> \in ForeignKeys
      /\ <<"commute_result", "canonical_listing">> \in ForeignKeys
      /\ <<"marketing_selection", "canonical_listing">> \in ForeignKeys
  BY DEF ForeignKeys, ChoiceKeys, CommuteKeys, AccessKeys, From
<1>4. <<"model_execution", "job">> \in ForeignKeys
  BY DEF ForeignKeys, ExecutionKeys, From
<1>5. <<"company_property", "building">> \in ForeignKeys
  BY DEF ForeignKeys, CompanyKeys, From
<1>6. "company_property" \in Truncated
  BY <1>1, <1>2, <1>5, TakenAlong
<1>7. ASSUME NEW t \in {"client_search_preset", "action_log"} PROVE t \notin Truncated
  <2>1. \A u : <<t, u>> \notin ForeignKeys
    BY KeyOwners
  <2> QED BY <2>1, SparedTable DEF DiscardTables
<1> QED BY <1>1, <1>2, <1>3, <1>4, <1>6, <1>7, TakenAlong

-----------------------------------------------------------------------------
(* The inductive invariant.                                                 *)

Statuses == {"NULL", "IN", "REMOVED"}

\* A discard keeps choices about company properties only, and of clients that
\* are on record: clients are archived, never deleted.
ReadChoices ==
    \A r \in Discards :
        /\ \A k \in Lists, l \in Listings : discard[r].choice[k][l] = "NULL"
        /\ \A p \in Clients, t \in Targets :
               discard[r].choice[p][t] # "NULL" => client[p] # "NULL"

\* What it has read of a property nobody wrote about since is on record still.
ReadStands ==
    \A r \in Discards : Reading(r) =>
        /\ discard[r].destination = destination
        /\ \A c \in Companies \ discard[r].touched :
               /\ discard[r].company[c] = company[c]
               /\ discard[r].phase # "companies"
                      => \A p \in Clients : discard[r].choice[p][c] = choice[p][c]
               /\ discard[r].phase \in {"selections", "waiting"}
                      => discard[r].choice[Ads][c] = choice[Ads][c]
               /\ discard[r].phase = "waiting"
                      => \A d \in Destinations :
                             <<c, d>> \in discard[r].commute <=> <<c, d>> \in commute

IInv ==
    /\ TypeOK
    /\ ReferencesHold
    /\ ReadChoices
    /\ ReadStands

-----------------------------------------------------------------------------
(* Types.                                                                   *)

LEMMA Disjoint ==
    /\ \A c \in Companies : c \notin Listings
    /\ \A p \in Clients : p # Ads /\ p \in Lists
    /\ Ads \in Lists
    /\ \A k \in Lists : k # Ads => k \in Clients
    /\ \A t \in Targets : t \notin Companies => t \in Listings
    /\ \A c \in Companies : c \in Targets
    /\ \A l \in Listings : l \in Targets
BY WorkspaceAssumption DEF WorkspaceAssumption, Lists, Targets

LEMMA Empty ==
    /\ Undecided \in Choices /\ NoCompany \in Portfolio
    /\ \A k \in Lists, t \in Targets : Undecided[k][t] = "NULL"
    /\ \A c \in Companies : NoCompany[c] = "NULL"
BY DEF Undecided, Choices, NoCompany, Portfolio

LEMMA EmptySnapshot ==
    ASSUME NEW phase \in Phases
    PROVE  /\ Nothing(phase) \in Snapshot
           /\ Nothing(phase).phase = phase
           /\ Nothing(phase).choice = Undecided
BY Empty DEF Nothing, Snapshot

LEMMA InitIInv == Init => IInv
<1> SUFFICES ASSUME Init PROVE IInv
  OBVIOUS
<1>1. "idle" \in Phases /\ "idle" \notin Readings
  BY DEF Phases, Readings
<1>2. \A r \in Discards : discard[r] = Nothing("idle") /\ ~Reading(r)
  BY <1>1, EmptySnapshot DEF Init, Reading
<1>3. TypeOK
  BY <1>1, EmptySnapshot, Empty DEF Init, TypeOK, Commutes
<1>4. ReferencesHold
  BY Empty DEF Init, ReferencesHold
<1>5. ReadChoices
  BY <1>1, <1>2, EmptySnapshot, Empty, Disjoint DEF ReadChoices
<1>6. ReadStands
  BY <1>2 DEF ReadStands
<1> QED BY <1>3, <1>4, <1>5, <1>6 DEF IInv

LEMMA Typed ==
    ASSUME TypeOK
    PROVE  /\ \A k \in Lists : choice[k] \in [Targets -> Statuses]
           /\ \A r \in Discards :
                  /\ discard[r] \in Snapshot
                  /\ discard[r].company \in Portfolio
                  /\ discard[r].choice \in Choices
                  /\ discard[r].touched \subseteq Companies
                  /\ discard[r].commute \subseteq Commutes
                  /\ discard[r].destination \subseteq Destinations
BY DEF TypeOK, Snapshot, Choices, Statuses

-----------------------------------------------------------------------------
(* Writing about a target.                                                  *)

\* Every discard under way notes it, and keeps what it has read.
LEMMA Touched ==
    ASSUME TypeOK, NEW t, Touch(t)
    PROVE  /\ discard' \in [Discards -> Snapshot]
           /\ \A r \in Discards :
                  /\ discard'[r].phase = discard[r].phase
                  /\ discard'[r].company = discard[r].company
                  /\ discard'[r].destination = discard[r].destination
                  /\ discard'[r].choice = discard[r].choice
                  /\ discard'[r].commute = discard[r].commute
                  /\ discard[r].touched \subseteq discard'[r].touched
                  /\ Reading(r) /\ t \in Companies => t \in discard'[r].touched
<1>1. ASSUME NEW r \in Discards
      PROVE  /\ discard'[r] \in Snapshot
             /\ discard'[r].phase = discard[r].phase
             /\ discard'[r].company = discard[r].company
             /\ discard'[r].destination = discard[r].destination
             /\ discard'[r].choice = discard[r].choice
             /\ discard'[r].commute = discard[r].commute
             /\ discard[r].touched \subseteq discard'[r].touched
             /\ Reading(r) /\ t \in Companies => t \in discard'[r].touched
  <2>1. discard[r] \in Snapshot
    BY DEF TypeOK
  <2>2. PICK touched \in SUBSET Companies :
            /\ discard'[r] = [discard[r] EXCEPT !.touched = touched]
            /\ discard[r].touched \subseteq touched
            /\ Reading(r) /\ t \in Companies => t \in touched
    <3>1. discard[r].touched \in SUBSET Companies
      BY <2>1 DEF Snapshot
    <3>2. CASE Reading(r)
      <4>1. discard'[r] = [discard[r] EXCEPT
                               !.touched = discard[r].touched \cup ({t} \cap Companies)]
        BY <2>1, <3>2 DEF Touch, Snapshot
      <4> QED BY <3>1, <4>1
    <3>3. CASE ~Reading(r)
      <4>1. discard'[r] = [discard[r] EXCEPT !.touched = discard[r].touched]
        BY <2>1, <3>3 DEF Touch, Snapshot
      <4> QED BY <3>1, <3>3, <4>1
    <3> QED BY <3>2, <3>3
  <2> QED BY <2>1, <2>2 DEF Snapshot
<1>2. discard' \in [Discards -> Snapshot]
  BY <1>1 DEF Touch
<1> QED BY <1>1, <1>2

\* A step that writes about one target leaves what was read of the others.
LEMMA WritesKeepReads ==
    ASSUME IInv, NEW t \in Targets, Touch(t), destination' = destination, client' = client,
           \A c \in Companies : c # t =>
               /\ company'[c] = company[c]
               /\ \A k \in Lists : choice'[k][c] = choice[k][c]
               /\ \A d \in Destinations : <<c, d>> \in commute' <=> <<c, d>> \in commute
    PROVE  ReadChoices' /\ ReadStands'
<1>1. TypeOK
  BY DEF IInv
<1>2. ReadChoices'
  BY <1>1, Touched DEF IInv, ReadChoices
<1>3. ASSUME NEW r \in Discards, Reading(r)'
      PROVE  /\ discard'[r].destination = destination'
             /\ \A c \in Companies \ discard'[r].touched :
                    /\ discard'[r].company[c] = company'[c]
                    /\ discard'[r].phase # "companies"
                           => \A p \in Clients : discard'[r].choice[p][c] = choice'[p][c]
                    /\ discard'[r].phase \in {"selections", "waiting"}
                           => discard'[r].choice[Ads][c] = choice'[Ads][c]
                    /\ discard'[r].phase = "waiting"
                           => \A d \in Destinations :
                                  <<c, d>> \in discard'[r].commute <=> <<c, d>> \in commute'
  <2>1. Reading(r)
    BY <1>1, <1>3, Touched DEF Reading
  <2>2. ASSUME NEW c \in Companies \ discard'[r].touched
        PROVE  c \in Companies \ discard[r].touched /\ c # t
    BY <1>1, <2>1, Touched
  <2> QED BY <1>1, <2>1, <2>2, Touched, Disjoint DEF IInv, ReadStands
<1>4. ReadStands'
  BY <1>3 DEF ReadStands
<1> QED BY <1>2, <1>4

LEMMA UploadIInv ==
    ASSUME IInv, NEW c \in Companies, Upload(c)
    PROVE  IInv'
<1> USE DEF Upload
<1>0. c \in Targets /\ TypeOK
  BY Disjoint DEF IInv
<1>1. /\ company' \in Portfolio /\ company'[c] = "PENDING"
      /\ \A b \in Companies : b # c => company'[b] = company[b]
  BY DEF IInv, TypeOK, Portfolio
<1>2. discard' \in [Discards -> Snapshot]
  BY <1>0, Touched
<1>3. TypeOK'
  BY <1>0, <1>1, <1>2 DEF TypeOK
<1>4. ReferencesHold'
  BY <1>1 DEF IInv, ReferencesHold, Exists
<1>5. ReadChoices' /\ ReadStands'
  BY <1>0, <1>1, WritesKeepReads
<1> QED BY <1>3, <1>4, <1>5 DEF IInv

LEMMA CheckIInv ==
    ASSUME IInv, NEW c \in Companies, NEW status \in {"PENDING", "CHECKED"}, Check(c, status)
    PROVE  IInv'
<1> USE DEF Check
<1>0. c \in Targets /\ TypeOK
  BY Disjoint DEF IInv
<1>1. /\ company' \in Portfolio /\ company'[c] # "NULL"
      /\ \A b \in Companies : b # c => company'[b] = company[b]
  BY DEF IInv, TypeOK, Portfolio
<1>2. discard' \in [Discards -> Snapshot]
  BY <1>0, Touched
<1>3. TypeOK'
  BY <1>0, <1>1, <1>2 DEF TypeOK
<1>4. ReferencesHold'
  BY <1>1 DEF IInv, ReferencesHold, Exists
<1>5. ReadChoices' /\ ReadStands'
  BY <1>0, <1>1, WritesKeepReads
<1> QED BY <1>3, <1>4, <1>5 DEF IInv

LEMMA DeleteIInv ==
    ASSUME IInv, NEW c \in Companies, Delete(c)
    PROVE  IInv'
<1> USE DEF Delete
<1>0. c \in Targets /\ TypeOK
  BY Disjoint DEF IInv
<1>1. /\ company' \in Portfolio
      /\ \A b \in Companies : b # c => company'[b] = company[b]
  BY DEF IInv, TypeOK, Portfolio
<1>2. /\ choice' \in Choices
      /\ \A k \in Lists : /\ choice'[k][c] = "NULL"
                          /\ \A t \in Targets : t # c => choice'[k][t] = choice[k][t]
  <2>1. \A k \in Lists : choice'[k] = [choice[k] EXCEPT ![c] = "NULL"]
    OBVIOUS
  <2>2. \A k \in Lists : /\ choice'[k] \in [Targets -> Statuses]
                         /\ choice'[k][c] = "NULL"
                         /\ \A t \in Targets : t # c => choice'[k][t] = choice[k][t]
    BY <1>0, <2>1, Typed DEF Statuses
  <2> QED BY <2>2 DEF Choices, Statuses
<1>3. discard' \in [Discards -> Snapshot]
  BY <1>0, Touched
<1>4. TypeOK'
  BY <1>0, <1>1, <1>2, <1>3 DEF TypeOK
<1>5. ReferencesHold'
  <2>1. \A t \in Targets : t # c => (Exists(t) => Exists(t)')
    BY <1>1 DEF Exists
  <2>2. \A k \in Lists, t \in Targets :
           choice'[k][t] # "NULL" => Exists(t)' /\ (k # Ads => client'[k] # "NULL")
    BY <1>2, <2>1 DEF IInv, ReferencesHold
  <2>3. ASSUME NEW m \in commute'
        PROVE  Exists(m[1])' /\ m[2] \in destination' /\ m \in execution'
    <3>1. m \in commute /\ m[1] # c /\ m[1] \in Companies
      BY <1>0 DEF TypeOK, Commutes
    <3> QED BY <2>1, <3>1, Disjoint DEF IInv, ReferencesHold
  <2> QED BY <2>2, <2>3 DEF ReferencesHold, Exists
<1>6. ReadChoices' /\ ReadStands'
  BY <1>0, <1>1, <1>2, WritesKeepReads, Disjoint
<1> QED BY <1>4, <1>5, <1>6 DEF IInv

LEMMA ResearchIInv ==
    ASSUME IInv, NEW c \in Companies, NEW d \in Destinations, Research(c, d)
    PROVE  IInv'
<1> USE DEF Research
<1>0. c \in Targets /\ TypeOK
  BY Disjoint DEF IInv
<1>1. discard' \in [Discards -> Snapshot]
  BY <1>0, Touched
<1>2. TypeOK'
  BY <1>0, <1>1 DEF TypeOK, Commutes
<1>3. ReferencesHold'
  BY DEF IInv, ReferencesHold, Exists
<1>4. ReadChoices' /\ ReadStands'
  BY <1>0, WritesKeepReads
<1> QED BY <1>2, <1>3, <1>4 DEF IInv

\* A step that leaves the discards and what they read alone.
LEMMA NothingRead ==
    ASSUME IInv, UNCHANGED <<company, destination, commute, choice, discard>>,
           \A p \in Clients : client[p] # "NULL" => client'[p] # "NULL"
    PROVE  ReadChoices' /\ ReadStands'
BY DEF IInv, ReadChoices, ReadStands, Reading

LEMMA AcquireIInv ==
    ASSUME IInv, NEW l \in Listings, Acquire(l)
    PROVE  IInv'
<1> USE DEF Acquire
<1>1. TypeOK'
  BY Disjoint DEF IInv, TypeOK
<1>2. ReferencesHold'
  BY DEF IInv, ReferencesHold, Exists
<1>3. ReadChoices' /\ ReadStands'
  BY NothingRead
<1> QED BY <1>1, <1>2, <1>3 DEF IInv

\* A choice about a target that exists, on a list that is on record.
LEMMA ChosenKeeps ==
    ASSUME IInv, NEW k \in Lists, NEW t \in Targets, NEW status \in {"IN", "REMOVED"},
           Choose(k, t, status), k # Ads => client[k] # "NULL", toggling' \subseteq toggling
    PROVE  IInv'
<1> USE DEF Choose
<1>0. TypeOK
  BY DEF IInv
<1>1. /\ choice' \in Choices
      /\ choice'[k][t] = status
      /\ \A j \in Lists, u \in Targets : j # k \/ u # t => choice'[j][u] = choice[j][u]
  <2>1. choice'[k] = [choice[k] EXCEPT ![t] = status]
        /\ \A j \in Lists : j # k => choice'[j] = choice[j]
    BY <1>0 DEF TypeOK, Choices
  <2>2. \A j \in Lists : choice'[j] \in [Targets -> Statuses]
    BY <1>0, <2>1, Typed DEF Statuses
  <2>3. choice' \in Choices
    BY <1>0, <2>2 DEF TypeOK, Choices, Statuses
  <2> QED BY <1>0, <2>1, <2>3, Typed
<1>2. discard' \in [Discards -> Snapshot]
  BY <1>0, Touched
<1>3. TypeOK'
  BY <1>0, <1>1, <1>2 DEF TypeOK
<1>4. ReferencesHold'
  BY <1>1 DEF IInv, ReferencesHold, Exists
<1>5. ReadChoices' /\ ReadStands'
  <2>1. \A c \in Companies : c # t => \A j \in Lists : choice'[j][c] = choice[j][c]
    BY <1>1, Disjoint
  <2> QED BY <2>1, WritesKeepReads
<1> QED BY <1>3, <1>4, <1>5 DEF IInv

LEMMA BeginToggleIInv ==
    ASSUME IInv, NEW t \in Targets, BeginToggle(t)
    PROVE  IInv'
<1> USE DEF BeginToggle, tables
<1>1. choice[Ads][t] \in Statuses
  BY Typed, Disjoint DEF IInv
<1>2. TypeOK'
  BY <1>1 DEF IInv, TypeOK, Statuses
<1>3. ReferencesHold'
  BY DEF IInv, ReferencesHold, Exists
<1>4. ReadChoices' /\ ReadStands'
  BY NothingRead
<1> QED BY <1>2, <1>3, <1>4 DEF IInv

LEMMA CommitToggleIInv ==
    ASSUME IInv, NEW q \in toggling, CommitToggle(q)
    PROVE  IInv'
<1>1. q[1] \in Targets
  BY DEF IInv, TypeOK
<1>2. PICK status \in {"IN", "REMOVED"} : Choose(Ads, q[1], status)
  BY DEF CommitToggle
<1>3. toggling' \subseteq toggling
  BY DEF CommitToggle
<1> QED BY <1>1, <1>2, <1>3, ChosenKeeps, Disjoint

LEMMA FailToggleIInv ==
    ASSUME IInv, NEW q \in toggling, FailToggle(q)
    PROVE  IInv'
<1> USE DEF FailToggle, tables
<1>1. TypeOK'
  BY DEF IInv, TypeOK
<1>2. ReferencesHold'
  BY DEF IInv, ReferencesHold, Exists
<1>3. ReadChoices' /\ ReadStands'
  BY NothingRead
<1> QED BY <1>1, <1>2, <1>3 DEF IInv

LEMMA SetEntryIInv ==
    ASSUME IInv, NEW p \in Clients, NEW t \in Targets, NEW status \in {"IN", "REMOVED"},
           SetEntry(p, t, status)
    PROVE  IInv'
BY ChosenKeeps, Disjoint DEF SetEntry

LEMMA ClientIInv ==
    ASSUME IInv, NEW p \in Clients, CreateClient(p) \/ ArchiveClient(p)
    PROVE  IInv'
<1> USE DEF CreateClient, ArchiveClient
<1>1. TypeOK'
  BY DEF IInv, TypeOK
<1>2. \A q \in Clients : client[q] # "NULL" => client'[q] # "NULL"
  BY DEF IInv, TypeOK
<1>3. ReferencesHold'
  BY <1>2, Disjoint DEF IInv, ReferencesHold, Exists
<1>4. ReadChoices' /\ ReadStands'
  BY <1>2, NothingRead
<1> QED BY <1>1, <1>3, <1>4 DEF IInv

-----------------------------------------------------------------------------
(* The discard.                                                             *)

\* A step of one discard that changes no table: what it has read then is what
\* the invariant asks of it.
LEMMA ReadsOn ==
    ASSUME IInv, NEW r \in Discards, NEW s \in Snapshot,
           discard' = [discard EXCEPT ![r] = s], UNCHANGED <<tables, toggling, used>>,
           \A k \in Lists, l \in Listings : s.choice[k][l] = "NULL",
           \A p \in Clients, t \in Targets : s.choice[p][t] # "NULL" => client[p] # "NULL",
           s.phase \in Readings =>
               /\ s.destination = destination
               /\ \A c \in Companies \ s.touched :
                      /\ s.company[c] = company[c]
                      /\ s.phase # "companies"
                             => \A p \in Clients : s.choice[p][c] = choice[p][c]
                      /\ s.phase \in {"selections", "waiting"} => s.choice[Ads][c] = choice[Ads][c]
                      /\ s.phase = "waiting"
                             => \A d \in Destinations : <<c, d>> \in s.commute <=> <<c, d>> \in commute
    PROVE  IInv'
<1> USE DEF tables
<1>1. /\ discard' \in [Discards -> Snapshot] /\ discard'[r] = s
      /\ \A q \in Discards : q # r => discard'[q] = discard[q]
  BY DEF IInv, TypeOK
<1>2. TypeOK'
  BY <1>1 DEF IInv, TypeOK
<1>3. ReferencesHold'
  BY DEF IInv, ReferencesHold, Exists
<1>4. ReadChoices'
  BY <1>1 DEF IInv, ReadChoices
<1>5. ReadStands'
  <2> SUFFICES ASSUME NEW q \in Discards, Reading(q)'
               PROVE  /\ discard'[q].destination = destination
                      /\ \A c \in Companies \ discard'[q].touched :
                             /\ discard'[q].company[c] = company[c]
                             /\ discard'[q].phase # "companies"
                                    => \A p \in Clients : discard'[q].choice[p][c] = choice[p][c]
                             /\ discard'[q].phase \in {"selections", "waiting"}
                                    => discard'[q].choice[Ads][c] = choice[Ads][c]
                             /\ discard'[q].phase = "waiting"
                                    => \A d \in Destinations :
                                           <<c, d>> \in discard'[q].commute <=> <<c, d>> \in commute
    BY DEF ReadStands
  <2>1. CASE q = r
    BY <1>1, <2>1 DEF Reading
  <2>2. CASE q # r
    BY <1>1, <2>2 DEF IInv, ReadStands, Reading
  <2> QED BY <2>1, <2>2
<1> QED BY <1>2, <1>3, <1>4, <1>5 DEF IInv

\* A discard that ends without a change forgets what it read.
LEMMA EndsUnchanged ==
    ASSUME IInv, NEW r \in Discards, discard' = [discard EXCEPT ![r] = Nothing("ended")],
           UNCHANGED <<tables, toggling, used>>
    PROVE  IInv'
<1>1. "ended" \in Phases /\ "ended" \notin Readings
  BY DEF Phases, Readings
<1>2. \A k \in Lists, t \in Targets : Nothing("ended").choice[k][t] = "NULL"
  BY <1>1, EmptySnapshot, Empty
<1> DEFINE s == Nothing("ended")
<1>3. s \in Snapshot /\ s.phase = "ended" /\ discard' = [discard EXCEPT ![r] = s]
  BY <1>1, EmptySnapshot
<1>4. /\ \A k \in Lists, l \in Listings : s.choice[k][l] = "NULL"
      /\ \A p \in Clients, t \in Targets : s.choice[p][t] # "NULL" => client[p] # "NULL"
  BY <1>2, Disjoint
<1>5. s.phase \notin Readings
  BY <1>1, <1>3
<1> HIDE DEF s
<1> QED BY <1>3, <1>4, <1>5, ReadsOn

LEMMA ReadCompaniesIInv ==
    ASSUME IInv, NEW r \in Discards, ReadCompanies(r)
    PROVE  IInv'
<1> DEFINE s == [discard[r] EXCEPT !.phase = "companies",
                    !.destination = destination, !.company = company]
<1>0. discard[r] \in Snapshot
  BY Typed DEF IInv
<1>1. discard' = [discard EXCEPT ![r] = s] /\ UNCHANGED <<tables, toggling, used>>
  BY DEF ReadCompanies
<1>2. "companies" \in Phases /\ destination \in SUBSET Destinations /\ company \in Portfolio
  BY DEF Phases, Readings, IInv, TypeOK
<1>3. s \in Snapshot
  BY <1>0, <1>2, Zenon DEF Snapshot
<1>4. /\ s.phase = "companies" /\ s.destination = destination /\ s.company = company
      /\ s.choice = discard[r].choice
  BY <1>0 DEF Snapshot
<1> HIDE DEF s
<1> QED BY <1>1, <1>3, <1>4, ReadsOn DEF IInv, ReadChoices

\* The choices of some lists, read anew.
LEMMA OfLists ==
    ASSUME TypeOK, NEW lists \in SUBSET Lists, NEW read \in Choices
    PROVE  /\ Of(lists, read) \in Choices
           /\ \A k \in Lists, t \in Targets :
                  Of(lists, read)[k][t] = IF k \in lists /\ t \in Companies
                                          THEN choice[k][t] ELSE read[k][t]
<1>1. \A k \in Lists, t \in Targets :
          choice[k][t] \in Statuses /\ read[k][t] \in Statuses
  BY Typed DEF Choices, Statuses
<1> QED BY <1>1 DEF Of, Choices, Statuses

LEMMA ReadEntriesIInv ==
    ASSUME IInv, NEW r \in Discards, ReadEntries(r)
    PROVE  IInv'
<1> DEFINE s == [discard[r] EXCEPT !.phase = "entries", !.choice = Of(Clients, discard[r].choice)]
<1>0. TypeOK /\ discard[r] \in Snapshot /\ discard[r].choice \in Choices
  BY Typed DEF IInv
<1>1. /\ discard' = [discard EXCEPT ![r] = s] /\ UNCHANGED <<tables, toggling, used>>
      /\ discard[r].phase = "companies"
  BY DEF ReadEntries
<1>2. /\ Of(Clients, discard[r].choice) \in Choices
      /\ \A k \in Lists, t \in Targets : Of(Clients, discard[r].choice)[k][t] =
             IF k \in Clients /\ t \in Companies THEN choice[k][t] ELSE discard[r].choice[k][t]
  <2>1. Clients \in SUBSET Lists
    BY Disjoint
  <2> QED BY <1>0, <2>1, OfLists
<1>3. "entries" \in Phases
  BY DEF Phases, Readings
<1>4. s \in Snapshot
  BY <1>0, <1>2, <1>3, Zenon DEF Snapshot
<1>5. /\ s.phase = "entries" /\ s.destination = discard[r].destination
      /\ s.company = discard[r].company /\ s.touched = discard[r].touched
      /\ s.choice = Of(Clients, discard[r].choice)
  BY <1>0 DEF Snapshot
<1> HIDE DEF s
<1>6. \A k \in Lists, l \in Listings : s.choice[k][l] = "NULL"
  BY <1>2, <1>5, Disjoint DEF IInv, ReadChoices
<1>7. \A p \in Clients, t \in Targets : s.choice[p][t] # "NULL" => client[p] # "NULL"
  BY <1>2, <1>5, Disjoint DEF IInv, ReadChoices, ReferencesHold
<1>8. /\ s.destination = destination
      /\ \A c \in Companies \ s.touched :
             /\ s.company[c] = company[c]
             /\ \A p \in Clients : s.choice[p][c] = choice[p][c]
  BY <1>1, <1>2, <1>5, Disjoint DEF IInv, ReadStands, Reading, Readings
<1> QED BY <1>1, <1>4, <1>5, <1>6, <1>7, <1>8, ReadsOn

LEMMA ReadSelectionsIInv ==
    ASSUME IInv, NEW r \in Discards, ReadSelections(r)
    PROVE  IInv'
<1> DEFINE s == [discard[r] EXCEPT !.phase = "selections", !.choice = Of({Ads}, discard[r].choice)]
<1>0. TypeOK /\ discard[r] \in Snapshot /\ discard[r].choice \in Choices
  BY Typed DEF IInv
<1>1. /\ discard' = [discard EXCEPT ![r] = s] /\ UNCHANGED <<tables, toggling, used>>
      /\ discard[r].phase = "entries"
  BY DEF ReadSelections
<1>2. /\ Of({Ads}, discard[r].choice) \in Choices
      /\ \A k \in Lists, t \in Targets : Of({Ads}, discard[r].choice)[k][t] =
             IF k = Ads /\ t \in Companies THEN choice[k][t] ELSE discard[r].choice[k][t]
  <2>1. {Ads} \in SUBSET Lists
    BY Disjoint
  <2> QED BY <1>0, <2>1, OfLists
<1>3. "selections" \in Phases
  BY DEF Phases, Readings
<1>4. s \in Snapshot
  BY <1>0, <1>2, <1>3, Zenon DEF Snapshot
<1>5. /\ s.phase = "selections" /\ s.destination = discard[r].destination
      /\ s.company = discard[r].company /\ s.touched = discard[r].touched
      /\ s.choice = Of({Ads}, discard[r].choice)
  BY <1>0 DEF Snapshot
<1> HIDE DEF s
<1>6. \A k \in Lists, l \in Listings : s.choice[k][l] = "NULL"
  <2> SUFFICES ASSUME NEW k \in Lists, NEW l \in Listings PROVE s.choice[k][l] = "NULL"
    OBVIOUS
  <2>1. l \in Targets /\ l \notin Companies /\ discard[r].choice[k][l] = "NULL"
    BY Disjoint DEF IInv, ReadChoices
  <2> QED BY <1>2, <1>5, <2>1
<1>7. \A p \in Clients, t \in Targets : s.choice[p][t] = discard[r].choice[p][t]
  <2> SUFFICES ASSUME NEW p \in Clients, NEW t \in Targets
               PROVE  s.choice[p][t] = discard[r].choice[p][t]
    OBVIOUS
  <2>1. p \in Lists /\ p # Ads
    BY Disjoint
  <2> QED BY <1>2, <1>5, <2>1
<1>8. \A p \in Clients, t \in Targets : s.choice[p][t] # "NULL" => client[p] # "NULL"
  BY <1>7 DEF IInv, ReadChoices
<1>9. \A c \in Companies : s.choice[Ads][c] = choice[Ads][c]
  <2> SUFFICES ASSUME NEW c \in Companies PROVE s.choice[Ads][c] = choice[Ads][c]
    OBVIOUS
  <2>1. Ads \in Lists /\ c \in Targets
    BY Disjoint
  <2> QED BY <1>2, <1>5, <2>1
<1>10. /\ discard[r].destination = destination
       /\ \A c \in Companies \ discard[r].touched :
              /\ discard[r].company[c] = company[c]
              /\ \A p \in Clients : discard[r].choice[p][c] = choice[p][c]
  BY <1>1 DEF IInv, ReadStands, Reading, Readings
<1>11. /\ s.destination = destination
       /\ \A c \in Companies \ s.touched :
              /\ s.company[c] = company[c]
              /\ \A p \in Clients : s.choice[p][c] = choice[p][c]
              /\ s.choice[Ads][c] = choice[Ads][c]
  <2>1. \A c \in Companies : c \in Targets
    BY Disjoint
  <2> QED BY <1>5, <1>7, <1>9, <1>10, <2>1
<1> QED BY <1>1, <1>4, <1>5, <1>6, <1>8, <1>11, ReadsOn

LEMMA ReadCommutesIInv ==
    ASSUME IInv, NEW r \in Discards, ReadCommutes(r)
    PROVE  IInv'
<1> DEFINE s == [discard[r] EXCEPT !.phase = "waiting", !.commute = commute]
<1>0. TypeOK /\ discard[r] \in Snapshot
  BY Typed DEF IInv
<1>1. /\ discard' = [discard EXCEPT ![r] = s] /\ UNCHANGED <<tables, toggling, used>>
      /\ discard[r].phase = "selections"
  BY <1>0 DEF ReadCommutes, TypeOK, Snapshot
<1>2. "waiting" \in Phases /\ commute \in SUBSET Commutes
  BY <1>0 DEF Phases, Readings, TypeOK
<1>3. s \in Snapshot
  BY <1>0, <1>2, Zenon DEF Snapshot
<1>4. /\ s.phase = "waiting" /\ s.destination = discard[r].destination
      /\ s.company = discard[r].company /\ s.touched = discard[r].touched
      /\ s.choice = discard[r].choice /\ s.commute = commute
  BY <1>0 DEF Snapshot
<1> HIDE DEF s
<1>5. /\ s.destination = destination
      /\ \A c \in Companies \ s.touched :
             /\ s.company[c] = company[c]
             /\ \A p \in Clients : s.choice[p][c] = choice[p][c]
             /\ s.choice[Ads][c] = choice[Ads][c]
  BY <1>1, <1>4 DEF IInv, ReadStands, Reading, Readings
<1>6. /\ \A k \in Lists, l \in Listings : s.choice[k][l] = "NULL"
      /\ \A p \in Clients, t \in Targets : s.choice[p][t] # "NULL" => client[p] # "NULL"
  BY <1>4 DEF IInv, ReadChoices
<1> QED BY <1>1, <1>3, <1>4, <1>5, <1>6, ReadsOn

\* What the tables hold after TRUNCATE and the inserts.
LEMMA Restored ==
    ASSUME TypeOK, NEW r \in Discards, Discard(r)
    PROVE  /\ company' = discard[r].company /\ inventory' = {}
           /\ destination' = discard[r].destination
           /\ commute' = discard[r].commute /\ execution' = discard[r].commute
           /\ choice' = discard[r].choice
           /\ discard' = [discard EXCEPT ![r] = Nothing("ended")]
           /\ UNCHANGED <<client, toggling, used>>
<1>1. /\ {"canonical_listing", "company_property", "destination", "client_shortlist_entry",
          "marketing_selection", "commute_result", "model_execution"} \subseteq Truncated
      /\ discard[r].choice \in Choices
  BY DiscardReaches, Typed
<1>2. choice' = [k \in Lists |-> discard[r].choice[k]]
  BY <1>1 DEF Discard, After, RestoreChoices
<1>3. choice' = discard[r].choice
  BY <1>1, <1>2 DEF Choices
<1> QED BY <1>1, <1>3 DEF Discard, After, RestoreExecutions

LEMMA DiscardIInv ==
    ASSUME IInv, NEW r \in Discards, Discard(r)
    PROVE  IInv'
<1> DEFINE s == discard[r]
<1>0. TypeOK /\ Restorable(s) /\ Alone(r) /\ Reading(r)
  BY DEF IInv, Discard, Reading, Waiting, Readings
<1>1. /\ company' = s.company /\ inventory' = {} /\ destination' = s.destination
      /\ commute' = s.commute /\ execution' = s.commute /\ choice' = s.choice
      /\ discard' = [discard EXCEPT ![r] = Nothing("ended")]
      /\ UNCHANGED <<client, toggling, used>>
  BY <1>0, Restored
<1>2. "ended" \in Phases /\ "ended" \notin Readings
  BY DEF Phases, Readings
<1>3. /\ discard' \in [Discards -> Snapshot] /\ discard'[r] = Nothing("ended")
      /\ \A q \in Discards : q # r => discard'[q] = discard[q]
  BY <1>0, <1>1, <1>2, EmptySnapshot DEF TypeOK
<1>4. TypeOK'
  BY <1>0, <1>1, <1>3, Typed DEF TypeOK
<1>5. ReferencesHold'
  <2>1. ASSUME NEW k \in Lists, NEW t \in Targets, choice'[k][t] # "NULL"
        PROVE  Exists(t)' /\ (k # Ads => client'[k] # "NULL")
    <3>1. t \in Companies
      BY <1>1, <2>1, Disjoint DEF IInv, ReadChoices
    <3>2. company'[t] # "NULL"
      BY <1>0, <1>1, <2>1, <3>1 DEF Restorable
    <3>3. k # Ads => client'[k] # "NULL"
      BY <1>1, <2>1, Disjoint DEF IInv, ReadChoices
    <3> QED BY <3>1, <3>2, <3>3 DEF Exists
  <2>2. ASSUME NEW m \in commute'
        PROVE  Exists(m[1])' /\ m[2] \in destination' /\ m \in execution'
    <3>1. m[1] \in Companies
      BY <1>0, <1>1, Typed DEF Commutes
    <3> QED BY <1>0, <1>1, <3>1 DEF Restorable, Exists
  <2> QED BY <2>1, <2>2 DEF ReferencesHold, Exists
<1>6. ReadChoices'
  BY <1>1, <1>2, <1>3, EmptySnapshot, Empty, Disjoint DEF IInv, ReadChoices
<1>7. ReadStands'
  <2>1. \A q \in Discards : ~Reading(q)'
    BY <1>0, <1>2, <1>3, EmptySnapshot DEF Alone, Reading
  <2> QED BY <2>1 DEF ReadStands
<1> QED BY <1>4, <1>5, <1>6, <1>7 DEF IInv

LEMMA DiscardStepIInv ==
    ASSUME IInv, NEW r \in Discards, DiscardStep(r)
    PROVE  IInv'
<1>1. RestoreFails(r) \/ DeadlockVictim(r) => IInv'
  BY EndsUnchanged DEF RestoreFails, DeadlockVictim
<1> QED BY <1>1, ReadCompaniesIInv, ReadEntriesIInv, ReadSelectionsIInv, ReadCommutesIInv,
           DiscardIInv DEF DiscardStep

LEMMA NextIInv == IInv /\ [Next]_vars => IInv'
<1> SUFFICES ASSUME IInv, [Next]_vars PROVE IInv'
  OBVIOUS
<1>1. CASE Next
  BY <1>1, UploadIInv, CheckIInv, DeleteIInv, ResearchIInv, AcquireIInv, BeginToggleIInv,
     CommitToggleIInv, FailToggleIInv, SetEntryIInv, ClientIInv, DiscardStepIInv DEF Next
<1>2. CASE UNCHANGED vars
  <2>1. TypeOK'
    BY <1>2 DEF vars, IInv, TypeOK
  <2>2. ReferencesHold'
    BY <1>2 DEF vars, IInv, ReferencesHold, Exists
  <2>3. ReadChoices' /\ ReadStands'
    BY <1>2, NothingRead DEF vars
  <2> QED BY <2>1, <2>2, <2>3 DEF IInv
<1> QED BY <1>1, <1>2

-----------------------------------------------------------------------------
(* The theorems.                                                            *)

\* The invariant holds of every behaviour of people, jobs and discards.
THEOREM Invariant == Spec => []IInv
<1> QED BY InitIInv, NextIInv, PTL DEF Spec

\* Every table and snapshot holds values of its type.
THEOREM TypeCorrect == Spec => []TypeOK
<1>1. IInv => TypeOK
  BY DEF IInv
<1> QED BY <1>1, Invariant, PTL

\* No delete and no discard (discard_inventory), whatever moments its reads come
\* from, leaves a choice or a commute without what it refers to.
THEOREM ReferencesAlwaysHold == Spec => []ReferencesHold
<1>1. IInv => ReferencesHold
  BY DEF IInv
<1> QED BY <1>1, Invariant, PTL

\* A step that ends a discard spares what nobody wrote about meanwhile.
LEMMA EndSpares ==
    ASSUME IInv, [Next]_vars, NEW r \in Discards, Waiting(r), ~Waiting(r)'
    PROVE  /\ destination' = destination
           /\ \A c \in Companies \ discard[r].touched :
                  /\ company'[c] = company[c]
                  /\ \A k \in Lists : choice'[k][c] = choice[k][c]
                  /\ \A d \in Destinations :
                         /\ <<c, d>> \in commute' <=> <<c, d>> \in commute
                         /\ <<c, d>> \in commute => <<c, d>> \in execution'
<1>0. TypeOK /\ Reading(r) /\ discard[r].phase = "waiting"
  BY DEF IInv, Waiting, Reading, Readings
<1>1. CASE Discard(r)
  <2>1. /\ company' = discard[r].company /\ destination' = discard[r].destination
        /\ commute' = discard[r].commute /\ execution' = discard[r].commute
        /\ choice' = discard[r].choice
    BY <1>0, <1>1, Restored
  <2> QED BY <1>0, <2>1, Disjoint DEF IInv, ReadStands
<1>2. CASE UNCHANGED tables
  BY <1>2 DEF tables, IInv, ReferencesHold
<1>3. ASSUME NEW s \in Discards, DiscardStep(s), ~Discard(r)
      PROVE  UNCHANGED tables
  <2>1. CASE s = r
    BY <1>0, <1>3, <2>1 DEF DiscardStep, ReadCompanies, ReadEntries, ReadSelections,
       ReadCommutes, RestoreFails, DeadlockVictim
  <2>2. CASE s # r
    <3>1. ~Discard(s)
      BY <1>0, <2>2 DEF Discard, Alone
    <3> QED BY <1>3, <3>1 DEF DiscardStep, ReadCompanies, ReadEntries, ReadSelections,
               ReadCommutes, RestoreFails, DeadlockVictim
  <2> QED BY <2>1, <2>2
<1>4. ASSUME \E t : Touch(t)
      PROVE  FALSE
  BY <1>0, <1>4, Touched DEF Waiting
<1>5. CASE discard' = discard
  BY <1>5 DEF Waiting
<1>6. \/ \E s \in Discards : DiscardStep(s)
      \/ \E t : Touch(t)
      \/ discard' = discard
  BY Zenon DEF Next, vars, Upload, Check, Delete, Research, Acquire, BeginToggle, CommitToggle,
     FailToggle, CreateClient, ArchiveClient, SetEntry, Choose
<1> QED BY <1>1, <1>2, <1>3, <1>4, <1>5, <1>6

\* "Owner reference data must survive" (discard_inventory): the destinations, and
\* of each property nobody wrote about since the reads began its row, the choices
\* about it, its commutes and their executions.
THEOREM OwnerDataSurvives == Spec => UntouchedSurvive
<1>1. IInv /\ [Next]_vars =>
          [\A r \in Discards : Waiting(r) /\ ~Waiting(r)' =>
               /\ destination' = destination
               /\ \A c \in Companies \ discard[r].touched :
                      /\ company'[c] = company[c]
                      /\ \A k \in Lists : choice'[k][c] = choice[k][c]
                      /\ \A d \in Destinations :
                             /\ <<c, d>> \in commute' <=> <<c, d>> \in commute
                             /\ <<c, d>> \in commute => <<c, d>> \in execution']_vars
  BY EndSpares
<1> QED BY <1>1, Invariant, PTL DEF Spec, UntouchedSurvive

=============================================================================
