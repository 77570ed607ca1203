----------------------------- MODULE FifoMutex -----------------------------
(***************************************************************************)
(* What a lock by id promises: the tasks of each id form a line, the head  *)
(* of the line, and only the head, may be inside, and leaves it for the    *)
(* next.  Lines of different ids do not touch each other.                  *)
(***************************************************************************)
EXTENDS Integers, Sequences

CONSTANTS Tasks, Ids, IdOf

VARIABLES
    line,   \* line[i]: the tasks that came for i and have not left, in order
    inside  \* the tasks that run

vars == <<line, inside>>

Init ==
    /\ line = [i \in Ids |-> <<>>]
    /\ inside = {}

InLine(t) == \E n \in DOMAIN line[IdOf[t]] : line[IdOf[t]][n] = t
IsHead(t) == line[IdOf[t]] # <<>> /\ Head(line[IdOf[t]]) = t

Join(t) ==
    /\ ~ InLine(t)
    /\ line' = [line EXCEPT ![IdOf[t]] = Append(@, t)]
    /\ UNCHANGED inside

Start(t) ==
    /\ IsHead(t)
    /\ t \notin inside
    /\ inside' = inside \cup {t}
    /\ UNCHANGED line

Leave(t) ==
    /\ IsHead(t)
    /\ t \in inside
    /\ inside' = inside \ {t}
    /\ line' = [line EXCEPT ![IdOf[t]] = Tail(@)]

Next == \E t \in Tasks : Join(t) \/ Start(t) \/ Leave(t)

Spec == Init /\ [][Next]_vars /\ \A t \in Tasks : WF_vars(Start(t) \/ Leave(t))
=============================================================================
