SPECIFICATION Spec
CONSTANTS
    listing = listing k1 = k1 k2 = k2
    first = first second = second again = again other = other
    p1 = p1 p2 = p2
    low = low high = high washer = washer shared = shared open = open
    Listings = {listing}
    Links = {k1, k2}
    Observations = {first, second, again, other}
    Pages = {p1, p2}
    Jobs = {j1}
    Values = {low, high, washer, shared, open}
    Unstated = Unstated
    NoObservation = NoObservation
    NoPage = NoPage
    NoOverride = NoOverride
    ListingOf <- MCListingOf
    LinkOf <- MCLinkOf
    ObservedAt <- MCObservedAt
    ContentHash <- MCContentHash
    ObservedFacts <- MCObservedFacts
    PageFacts <- MCPageFacts
    OverrideKeys = {"laundry_type"}
    OverrideValues = {shared}
INVARIANTS TypeOK  ShownFactsAreEvented 
PROPERTIES OverriddenFieldsStand
