SPECIFICATION FairSpec
CONSTANTS
    Companies = {c1}
    Places = {p1}
    NoPlace = NoPlace
    Destinations = {d1}
    Jobs = {j1, j2}
    NoRow = NoRow
INVARIANTS TypeOK ReferencesHold
PROPERTIES OnlyForcedChecksDiscard LaunchedJobsEnd
CHECK_DEADLOCK FALSE
