------------------------ MODULE MCCanonicalIdentity ------------------------
(***************************************************************************)
(* Three ads, two of them of one source, one unit fingerprint, one rent,   *)
(* two workers and a human.  After the first race no worker reads again.   *)
(***************************************************************************)
EXTENDS CanonicalIdentity, TLC

CONSTANTS a1, a2, a3

MCAds == {a1, a2, a3}
MCSourceOf == [a \in MCAds |-> IF a = a3 THEN "apartments_com" ELSE "streeteasy"]
MCUnits == {"4A"}
MCRents == {1000}
MCOneRace == raced => \A w \in Workers : work[w] = NoWork => work'[w] = NoWork
MCSymmetry == Permutations({a1, a2}) \cup Permutations(Workers)
=============================================================================
