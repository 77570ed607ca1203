-------------------------- MODULE MC_FilteredHead --------------------------
(***************************************************************************)
(* A filter of four numbers and numbers too large that follow one another  *)
(* closely.                                                                *)
(***************************************************************************)
EXTENDS FilteredHead
=============================================================================
