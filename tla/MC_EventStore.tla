--------------------------- MODULE MC_EventStore ---------------------------
(***************************************************************************)
(* Savers s1 and s2 are at work on one event; s3 on another event of the   *)
(* same transaction that has the same topic0.                              *)
(***************************************************************************)
EXTENDS EventStore

CONSTANTS s1, s2, s3, t1, b1, topic

e1 == [transaction |-> t1, topic0 |-> topic, logIndex |-> 0]
e2 == [transaction |-> t1, topic0 |-> topic, logIndex |-> 1]

MCEvents == {e1, e2}
MCEventOf == [s \in Savers |-> IF s = s3 THEN e2 ELSE e1]
MCBlockOf == [t \in {t1} |-> b1]
=============================================================================
