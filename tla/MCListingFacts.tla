--------------------------- MODULE MCListingFacts ---------------------------
(***************************************************************************)
(* One listing advertised by two sources: the first is observed three      *)
(* times (a price change, then no change; late or again), the second once  *)
(* after it was attached.  Two texts of its page, one enrichment process.  *)
(***************************************************************************)
EXTENDS ListingFacts

CONSTANTS listing, k1, k2, first, second, again, other, p1, p2, low, high, washer, shared, open

MCListingOf == [k \in Links |-> listing]
MCLinkOf == [o \in Observations |-> IF o # other THEN k1 ELSE k2]
MCObservedAt == [o \in Observations |-> CASE o = again -> 3 [] o = second -> 2 [] OTHER -> 1]
MCContentHash == [o \in Observations |-> IF o \in {first, other} THEN 1 ELSE 2]

Says(rent, laundry, availability) ==
    [f \in ObservedKeys |-> CASE f = "monthly_rent_minor"  -> rent
                              [] f = "laundry_type"        -> laundry
                              [] f = "availability_status" -> availability
                              [] OTHER                     -> Unstated]
MCObservedFacts ==
    [o \in Observations |-> CASE o = first  -> Says(low, shared, Unstated)
                              [] o = other  -> Says(low, Unstated, open)
                              [] OTHER      -> Says(high, washer, open)]

Reads(rent, laundry, amenity) ==
    [f \in PageKeys |-> CASE f = "monthly_rent" -> rent
                          [] f = "laundry_type" -> laundry
                          [] f = "amenities"    -> amenity
                          [] OTHER              -> Unstated]
MCPageFacts ==
    [p \in Pages |-> IF p = p1 THEN Reads(high, shared, open) ELSE Reads(low, Unstated, Unstated)]
=============================================================================
