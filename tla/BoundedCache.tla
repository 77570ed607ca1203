---------------------------- MODULE BoundedCache ----------------------------
(***************************************************************************)
(* What a read-through cache promises its callers: a call that ends        *)
(* returns what the cache holds, which is not older than Bound ticks, or   *)
(* an answer the source has given since the call was made, which the cache *)
(* then holds.  A key without bound is held until another answer comes.    *)
(* Nothing is said of timers, nor of what else is held or dropped when.    *)
(***************************************************************************)
EXTENDS Integers

CONSTANTS
    Callers, Keys,
    Timed,   \* the keys that have a bound
    Bound    \* Bound[k]: how old an entry of a timed key k may get

VARIABLES
    source,  \* the version each source is at
    held,    \* what the cache holds of each key, and for how long
    calls    \* where each call stands

vars == <<source, held, calls>>

Nothing == [set |-> FALSE]
Holding(v) == [set |-> TRUE, value |-> v, age |-> 0]
NoCall == [st |-> "idle", key |-> CHOOSE k \in Keys : TRUE, value |-> 0, since |-> 0]

Init ==
    /\ source \in [Keys -> Nat]
    /\ held = [k \in Keys |-> Nothing]
    /\ calls = [c \in Callers |-> NoCall]

\* key[c] is the key of each call c that is made in this step.
Begin(key) ==
    /\ \A c \in DOMAIN key : calls[c].st # "pending"
    /\ calls' = [c \in Callers |->
         IF c \in DOMAIN key
         THEN [st |-> "pending", key |-> key[c], value |-> 0, since |-> source[key[c]]]
         ELSE calls[c]]
    /\ UNCHANGED <<source, held>>

End(c, st, v) ==
    /\ calls[c].st = "pending"
    /\ calls' = [calls EXCEPT ![c] =
         [st |-> st, key |-> calls[c].key, value |-> v, since |-> 0]]

Serve(c) ==
    LET k == calls[c].key
    IN  /\ held[k].set
        /\ End(c, "done", held[k].value)
        /\ UNCHANGED <<source, held>>

Ask(c) ==
    LET k == calls[c].key
    IN  /\ \E v \in calls[c].since .. source[k] :
             End(c, "done", v) /\ held' = [held EXCEPT ![k] = Holding(v)]
        /\ UNCHANGED source

Fail(c) == End(c, "failed", 0) /\ UNCHANGED <<source, held>>

Drop(k) ==
    /\ k \in Timed
    /\ held' = [held EXCEPT ![k] = Nothing]
    /\ UNCHANGED <<source, calls>>

\* A tick: what would get too old must have been dropped.
Age ==
    /\ \A k \in Timed : held[k].set => held[k].age < Bound[k]
    /\ held' = [k \in Keys |-> IF k \in Timed /\ held[k].set
                               THEN [held[k] EXCEPT !.age = @ + 1] ELSE held[k]]
    /\ UNCHANGED <<source, calls>>

Move ==
    /\ source' \in [Keys -> Nat]
    /\ \A k \in Keys : source'[k] >= source[k]
    /\ UNCHANGED <<held, calls>>

Next ==
    \/ \E c \in Callers : Serve(c) \/ Ask(c) \/ Fail(c)
    \/ \E C \in SUBSET Callers : \E key \in [C -> Keys] : Begin(key)
    \/ \E k \in Keys : Drop(k)
    \/ Age \/ Move

\* Every call ends.
Spec == Init /\ [][Next]_vars /\ \A c \in Callers : WF_vars(Serve(c) \/ Ask(c) \/ Fail(c))
=============================================================================
