SPECIFICATION Spec
CONSTANTS
    l1 = l1
    l2 = l2
    l3 = l3
    x1 = x1
    x2 = x2
    Links <- MCLinks
    Listings = {x1, x2}
    ListingOf <- MCListingOf
    Overridden = {}
    MinElapsed = 3
    BreakerAbsoluteMax = 50
    MaxRuns = 3
    MaxTime = 4
INVARIANTS
    TypeOK
    
PROPERTIES
    
    AllOrNothing
    
CONSTRAINT MCShortQueue
SYMMETRY MCSymmetry
CHECK_DEADLOCK FALSE
