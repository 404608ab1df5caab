--------------------------- MODULE MCAcquisition ---------------------------
(***************************************************************************)
(* Two partitions that share a listing, and two processes.                 *)
(***************************************************************************)
EXTENDS Acquisition

CONSTANTS shared, left

MCItems == {shared, left}
MCPage == [k \in 1 .. 2 |-> IF k = 1 THEN {shared, left} ELSE {shared}]
=============================================================================
