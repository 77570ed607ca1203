------------------------ MODULE MC_SignatureService ------------------------
(***************************************************************************)
(* SignatureService on the requests r1, r2 and r3.                         *)
(***************************************************************************)
EXTENDS SignatureService

CONSTANTS r1, r2, r3, gateway, proRata, user1

\* Two deposits of the same user on the same contract.
SameUser == [r \in Requests |-> "deposit"]
SameContract == [r \in Requests |-> gateway]
SameHolder == [r \in Requests |-> user1]

\* A deposit on one contract, an instant one on the other, a read.
MixedKind == [r \in Requests |->
    IF r = r1 THEN "deposit" ELSE IF r = r2 THEN "instant" ELSE "read"]
MixedContract == [r \in Requests |-> IF r = r2 THEN proRata ELSE gateway]
MixedHolder == [r \in Requests |-> user1]

\* The decimals differ between contracts.
MCDecimals == [c \in Contracts |-> IF c = gateway THEN 2 ELSE 1]
============================================================================
