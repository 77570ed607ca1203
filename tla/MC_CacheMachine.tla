-------------------------- MODULE MC_CacheMachine --------------------------
(***************************************************************************)
(* CacheMachine on two calls and two keys, one with a time-out (as         *)
(* BLOCK_KEY and the ABI keys have) and one without (a contract's          *)
(* decimals).                                                              *)
(***************************************************************************)
EXTENDS CacheMachine

CONSTANTS block, decimals

MCTimeOut == [k \in Keys |-> IF k = block THEN 2 ELSE 0]
============================================================================
