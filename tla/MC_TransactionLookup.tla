----------------------- MODULE MC_TransactionLookup -------------------------
(***************************************************************************)
(* TransactionLookup with two requests about one contract: requests about  *)
(* different contracts share nothing.                                      *)
(***************************************************************************)
EXTENDS TransactionLookup

CONSTANTS r1, r2, c1

\* The second client asks for a transaction, too, that the ABI cannot decode.
MCAskedFor == [r \in Requests |->
    {[to |-> c1, legible |-> l] : l \in IF r = r1 THEN {TRUE} ELSE BOOLEAN}]
=============================================================================
