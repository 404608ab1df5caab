------------------------------- MODULE Schema -------------------------------
(***************************************************************************)
(* The foreign keys of the database, table by table in the order of the    *)
(* migrations, and what follows from them for a TRUNCATE ... CASCADE:      *)
(* every table that refers to a truncated one is truncated too, rows that  *)
(* hold no reference included.  discard_inventory (jobs/weekday_refresh.py) *)
(* lists nine tables and has to restore whatever else the cascade reaches. *)
(* Columns, indexes and checks are left out.                               *)
(***************************************************************************)
EXTENDS Naturals, FiniteSets

\* The foreign keys of one table: <<table, the table it refers to>>.
From(table, referenced) == {table} \X referenced

\* migrations/versions/9bb44a1b5855_baseline_schema.py
RootTables ==
    {"amenity_definition", "client_search_preset", "human_override", "review_issue",
     "source", "action_log", "refresh_run"}
PlaceKeys ==
    From("address", {"source"}) \cup From("transit_route", {"source"})
    \cup From("transit_stop", {"source", "transit_stop"})
RunKeys ==
    From("provider_request", {"source"}) \cup From("source_run", {"refresh_run", "source"})
BuildingKeys ==
    From("building", {"address"}) \cup From("destination", {"address"})
    \cup From("transit_stop_route", {"transit_route", "transit_stop"})
ObservationKeys ==
    From("adapter_checkpoint", {"source_run"})
    \cup From("source_observation", {"source", "source_run"})
    \cup From("address_assertion", {"address", "source_observation"})
    \cup From("unit", {"building"})
ListingKeys ==
    From("canonical_listing", {"building", "unit"})
    \cup From("canonical_merge", {"canonical_listing"})
ChoiceKeys ==
    From("client_shortlist_entry", {"canonical_listing", "client_search_preset"})
CommuteKeys ==
    From("commute_result", {"canonical_listing", "destination", "provider_request"})
    \cup From("duplicate_candidate", {"canonical_listing"})
LinkKeys ==
    From("listing_event", {"canonical_listing", "refresh_run", "source_observation"})
    \cup From("listing_source_link", {"canonical_listing", "source", "source_observation"})
AccessKeys ==
    From("marketing_selection", {"canonical_listing"})
    \cup From("transit_access", {"canonical_listing", "provider_request", "transit_stop"})
JobKeys ==
    From("job", {"canonical_listing", "refresh_run"})
    \cup From("transit_access_route", {"transit_access", "transit_route"})
    \cup From("job_attempt", {"job"}) \cup From("job_dependency", {"job"})
ExecutionKeys ==
    From("model_execution", {"job", "model_execution"})
AssetKeys ==
    From("media_asset", {"model_execution", "source", "source_observation"})
AssertionKeys ==
    From("fact_assertion",
         {"media_asset", "model_execution", "provider_request", "source_observation"})
AnalysisKeys ==
    From("media_analysis", {"media_asset", "model_execution"})
    \cup From("media_association", {"building", "canonical_listing", "media_asset", "unit"})
MediaKeys ==
    From("media_duplicate_group", {"media_asset"}) \cup From("media_variant", {"media_asset"})
    \cup From("amenity_assertion", {"amenity_definition", "canonical_listing", "fact_assertion"})
HistoryKeys ==
    From("fact_resolution", {"fact_assertion"})
    \cup From("media_duplicate_member", {"media_asset", "media_duplicate_group"})
    \cup From("listing_field_history", {"canonical_listing", "fact_resolution", "listing_event"})

\* The later migrations.
CompanyKeys == From("company_property", {"building"})
ResearchKeys == From("commute_result", {"model_execution"})
CompanyTargetKeys ==
    From("commute_result", {"company_property"})
    \cup From("client_shortlist_entry", {"company_property"})
    \cup From("marketing_selection", {"company_property"})

ForeignKeys ==
    UNION {PlaceKeys, RunKeys, BuildingKeys, ObservationKeys, ListingKeys, ChoiceKeys,
           CommuteKeys, LinkKeys, AccessKeys, JobKeys, ExecutionKeys, AssetKeys,
           AssertionKeys, AnalysisKeys, MediaKeys, HistoryKeys,
           CompanyKeys, ResearchKeys, CompanyTargetKeys}

Tables == RootTables \cup {"geographic_boundary"} \cup {key[1] : key \in ForeignKeys}

-----------------------------------------------------------------------------
\* _DISCARD_TABLES.
DiscardTables ==
    {"address", "canonical_listing", "source_observation", "media_asset",
     "fact_assertion", "fact_resolution", "review_issue", "human_override", "job"}

\* The tables that refer to one of `tables`, directly or through `n` - 1 others.
Cascade[n \in Nat] ==
    IF n = 0 THEN DiscardTables
    ELSE LET reached == Cascade[n - 1] IN
         reached \cup {key[1] : key \in {k \in ForeignKeys : k[2] \in reached}}

\* TRUNCATE ... CASCADE.
Truncated == Cascade[Cardinality(Tables)]

=============================================================================
