------------------------ MODULE MC_SecurityBlocker --------------------------
(***************************************************************************)
(* SecurityBlocker with three right shares, two of which are enough, and a *)
(* wrong one.                                                              *)
(***************************************************************************)
EXTENDS SecurityBlocker

CONSTANTS s1, s2, s3, wrong
=============================================================================
