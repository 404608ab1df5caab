SPECIFICATION Spec
CONSTANTS
    a1 = a1
    u1 = u1
    l1 = l1
    l2 = l2
    l3 = l3
    in = in
    out = out
    nj = nj
    Addresses = {a1, u1}
    Unresolved = {u1}
    Listings = {l1, l2, l3}
    Oversized = {l2}
    AddressOf <- MCAddressOf
    Points = {in, out}
    Regions = {nj}
    RegionOf <- MCRegionOf
    LocalityOf <- MCLocalityOf
    Jersey = {}
    Elsewhere = Elsewhere
    Refreshes = {r1, r2}
    Manual = {r2}
    Limit = 2
INVARIANTS TypeOK AdmittedOnEvidence VerdictsFollowPoint
CHECK_DEADLOCK FALSE
