------------------------------ MODULE EventLog ------------------------------
(***************************************************************************)
(* What an indexer promises to whoever reads its tables.  Entries come and *)
(* stay; the cursor of a contract moves only where every event up to it,   *)
(* from the block on that the cursor vouches from, has its key in the log, *)
(* and the chain can no longer change what it has passed.  Nothing is said *)
(* of runs, loops, ranges and block numbers that are wrong.                *)
(***************************************************************************)
EXTENDS Integers

CONSTANTS
    Contracts, Events, ContractOf, BlockOf,
    KeyOf, Keys,  \* under which key an event is entered
    Depth,        \* how many blocks below the head the chain may replace
    Top,          \* the last block
    Cursors       \* the cursors that the operator gives

VARIABLES
    head,    \* the last block of the chain
    log,     \* the keys that have an entry
    cursor,  \* cursor[c]: the first block of c that is still to be read
    since    \* since[c]: the first block that the cursor of c vouches for

vars == <<head, log, cursor, since>>

Init ==
    /\ head \in 0 .. Top
    /\ log = {}
    /\ cursor = [c \in Contracts |-> 0]
    /\ since = [c \in Contracts |-> 0]

Grow ==
    /\ head' \in head + 1 .. Top
    /\ UNCHANGED <<log, cursor, since>>

Enter(k) ==
    /\ log' = log \cup {k}
    /\ UNCHANGED <<head, cursor, since>>

Complete(c, b) ==
    \A e \in Events : ContractOf[e] = c /\ BlockOf[e] \in since[c] .. b - 1 => KeyOf[e] \in log

Vouch(c, b) ==
    /\ b - 1 <= head - Depth
    /\ cursor' = [cursor EXCEPT ![c] = b]
    /\ Complete(c, b)
    /\ UNCHANGED <<head, log, since>>

\* The operator has c start at b: the cursor vouches for no block before b, and
\* for none before it did when something is under way.
Give(c, b) ==
    /\ cursor' = [cursor EXCEPT ![c] = b]
    /\ \E s \in {b, since[c]} : s >= b /\ since' = [since EXCEPT ![c] = s]
    /\ UNCHANGED <<head, log>>

Next ==
    \/ Grow
    \/ \E k \in Keys : Enter(k)
    \/ \E c \in Contracts : \/ \E b \in 0 .. Top + 1 : Vouch(c, b)
                            \/ \E b \in Cursors : Give(c, b)

Spec == Init /\ [][Next]_vars
=============================================================================
