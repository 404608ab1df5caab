SPECIFICATION Spec
CONSTANTS
    l1 = l1
    l2 = l2
    l3 = l3
    x1 = x1
    x2 = x2
    Links <- MCOneLink
    Listings = {x1}
    ListingOf <- MCOneListingOf
    Overridden = {}
    MinElapsed = 3
    BreakerAbsoluteMax = 50
    MaxRuns = 4
    MaxTime = 5
INVARIANT ReappearedLinksAreActive
CHECK_DEADLOCK FALSE
