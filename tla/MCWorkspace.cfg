SPECIFICATION FairSpec
CONSTANTS
    Companies = {c1}
    Listings = {l1}
    Clients = {amy}
    Destinations = {d1}
    Discards = {r1, r2}
    Ads = Ads
    Offers <- MCOffers
    MaxToggles = 1
INVARIANTS TypeOK ReferencesHold
PROPERTIES UntouchedSurvive DiscardsEnd
CHECK_DEADLOCK FALSE
