SPECIFICATION Spec
CONSTANTS
    Ads <- MCAds
    SourceOf <- MCSourceOf
    Units <- MCUnits
    Rents <- MCRents
    a1 = a1
    a2 = a2
    a3 = a3
    Workers = {w1, w2}
    Admissions = {"ACTIVE"}
    MaxListings = 3
    MaxMerges = 2
INVARIANT MergesSurviveRefreshes
ACTION_CONSTRAINT MCOneRace
SYMMETRY MCSymmetry
CHECK_DEADLOCK FALSE
