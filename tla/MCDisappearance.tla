-------------------------- MODULE MCDisappearance --------------------------
(***************************************************************************)
(* Two ads of one unit and one of another, three runs.                     *)
(***************************************************************************)
EXTENDS Disappearance, TLC

CONSTANTS l1, l2, l3, x1, x2

MCLinks == {l1, l2, l3}
MCListingOf == [l \in MCLinks |-> IF l = l3 THEN x2 ELSE x1]
MCOneLink == {l1}
MCOneListingOf == [l \in MCOneLink |-> x1]

\* At most three captures wait, and none once processing was disorderly.
MCShortQueue == Cardinality(pending) <= IF disorderly THEN 0 ELSE 3
MCSymmetry == Permutations({l1, l2})
=============================================================================
