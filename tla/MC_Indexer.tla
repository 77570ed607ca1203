----------------------------- MODULE MC_Indexer -----------------------------
(***************************************************************************)
(* Events e1 and e2 have one primary key: the same topic0 twice in a       *)
(* transaction.                                                            *)
(***************************************************************************)
EXTENDS Indexer, TLC

CONSTANTS c1, c2, e1, e2, e3, k1, k3, g1, g2

MCContractOf == [e \in Events |-> IF e = e3 /\ c2 \in Contracts THEN c2 ELSE c1]
MCBlockOf == [e \in Events |-> IF e = e3 THEN 2 ELSE 1]
MCKeyOf == [e \in Events |-> IF e = e3 THEN k3 ELSE k1]

\* The loops of a contract are alike, and so are the events of one primary key: their
\* contract and block are the same as well.
Alike == Permutations(Loops) \cup Permutations({e1, e2})
=============================================================================
