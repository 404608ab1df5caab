---------------------------- MODULE MCGeography ------------------------------
(***************************************************************************)
(* One address with two listings and one placeholder, a scheduled and a    *)
(* manual refresh, a point inside the supported region and one outside.    *)
(***************************************************************************)
EXTENDS Geography, TLC

CONSTANTS a1, u1, l1, l2, l3, in, out, nj

MCAddressOf == (l1 :> a1) @@ (l2 :> u1) @@ (l3 :> a1)
MCRegionOf == (in :> nj) @@ (out :> Elsewhere)
MCLocalityOf == [a \in Addresses |-> nj]

=============================================================================
