--------------------------- MODULE MC_SyncEngine ---------------------------
(***************************************************************************)
(* The monitoring worker with two others, which messages reach too: one    *)
(* that may throw, on every second tick, and one on every third.           *)
(***************************************************************************)
EXTENDS SyncEngine

CONSTANTS monitoring, indexer, db

MCTickDivider == [w \in Workers |->
    IF w = monitoring THEN 1 ELSE IF w = indexer THEN 2 ELSE 3]
============================================================================
