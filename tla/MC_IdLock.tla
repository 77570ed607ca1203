----------------------------- MODULE MC_IdLock -----------------------------
(***************************************************************************)
(* IdLock on four tasks, three of them with the same id.                   *)
(***************************************************************************)
EXTENDS IdLock

CONSTANTS t1, t2, t3, t4, a, b

MCIdOf == [t \in Tasks |-> IF t = t4 THEN b ELSE a]
============================================================================
