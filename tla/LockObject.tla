----------------------------- MODULE LockObject -----------------------------
(***************************************************************************)
(* common/utils/Lock.ts, class Lock: the state of one lock object and what *)
(* its methods do to it.  The queue holds the tasks whose promise has not  *)
(* been resolved yet.                                                      *)
(***************************************************************************)
EXTENDS Integers, Sequences

\* constructor()
New == [locked |-> FALSE, queue |-> <<>>]

\* acquire(), called by task t; its promise resolves at once iff l was free.
Acquired(l, t) ==
    IF l.locked THEN [l EXCEPT !.queue = Append(@, t)] ELSE [l EXCEPT !.locked = TRUE]

\* Deviation of Released: the lock is opened before the next task takes it over.
ReleasedOpen(l) ==
    [locked |-> FALSE, queue |-> IF l.queue = <<>> THEN <<>> ELSE Tail(l.queue)]

\* release(): the lock goes to the head of the queue, or becomes free.
Released(l) ==
    IF l.queue # <<>> THEN [l EXCEPT !.queue = Tail(@)] ELSE [l EXCEPT !.locked = FALSE]

\* Deviation of Woken: the last waiter is resumed, not the first.
WokenLast(l) == IF l.queue # <<>> THEN {l.queue[Len(l.queue)]} ELSE {}

\* Deviation of Woken: a waiter is taken off the queue and not resolved.
WokenNone(l) == {}

\* The tasks whose promise that release() resolves.
Woken(l) == IF l.queue # <<>> THEN {Head(l.queue)} ELSE {}

\* Deviation of IsEmpty: the negation is missing.
IsEmptyHeld(l) == l.queue = <<>> /\ l.locked

\* isEmpty()
IsEmpty(l) == l.queue = <<>> /\ ~ l.locked
=============================================================================
