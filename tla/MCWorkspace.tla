---------------------------- MODULE MCWorkspace -----------------------------
(***************************************************************************)
(* One property, one listing, one client, one destination, two discards at *)
(* once or one after the other.                                            *)
(***************************************************************************)
EXTENDS Workspace

\* Clients are offered listings and companies advertised: one choice of each
\* kind of list and of target, one lost and one restored by a discard.
MCOffers == {Ads} \X Companies \cup Clients \X Listings

=============================================================================
