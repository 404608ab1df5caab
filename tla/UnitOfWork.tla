----------------------------- MODULE UnitOfWork -----------------------------
(***************************************************************************)
(* What a long session writes back.  The jobs load a row, call a provider  *)
(* for seconds, assign attributes and commit.  The ORM then updates only   *)
(* the attributes whose assigned value differs from the value LOADED:      *)
(* an attribute assigned the loaded value is not written at all, and one   *)
(* that another transaction changed meanwhile is overwritten or kept by    *)
(* that rule alone.  (External: SQLAlchemy's Session.flush as the jobs of  *)
(* this program use it, at PostgreSQL's READ COMMITTED.)                   *)
(***************************************************************************)

\* The stored row after a session that loaded `loaded` and wants `wanted`.
Flush(stored, loaded, wanted) ==
    [f \in DOMAIN stored |-> IF wanted[f] = loaded[f] THEN stored[f]
                                                      ELSE wanted[f]]
=============================================================================
