------------------------ MODULE MCCompanyPortfolio -------------------------
(***************************************************************************)
(* One property, one place, one destination, two refresh processes beside  *)
(* the backfill, on-demand research, uploads and deletion.                 *)
(***************************************************************************)
EXTENDS CompanyPortfolio

=============================================================================
