----------------------------- MODULE MCJobQueue -----------------------------
(***************************************************************************)
(* A queue of two rows for one or two identities, two workers, two         *)
(* attempts: enough for a lease to expire, be recovered and be claimed by  *)
(* the other worker while the first still holds its old token, and for an  *)
(* identity to be enqueued again after its first row failed for good.      *)
(***************************************************************************)
EXTENDS JobQueue

MCPriorities == {0, 10}
=============================================================================
