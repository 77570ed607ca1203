----------------------------- MODULE WaitUntil -----------------------------
(***************************************************************************)
(* One call of waitUntil (common/utils/time.ts): a predicate is asked at   *)
(* once and, by a timer armed beside it, once more; each answer that is    *)
(* falsy arms a timer of its own.  So two polls go on, and clearTimers     *)
(* knows the timer that was armed last only.  All have one interval: they  *)
(* fire in the order they were armed in.                                   *)
(***************************************************************************)
EXTENDS Integers

VARIABLES
    wait,  \* the call
    truth  \* what the predicate answers

vars == <<wait, truth>>

\* asking: calls of the predicate under way; armed: timers of polls; live: the
\* variable timer holds one of these, the youngest; deadline: timeoutTimer is
\* armed; timed: the call was given a timeout
Idle == [st |-> "idle", asking |-> 0, armed |-> 0, live |-> FALSE,
         deadline |-> FALSE, timed |-> FALSE]

TypeOK ==
    /\ wait \in [st : {"idle", "waiting", "resolved", "rejected", "timedOut"},
                 asking : Nat, armed : Nat, live : BOOLEAN,
                 deadline : BOOLEAN, timed : BOOLEAN]
    /\ truth \in BOOLEAN

Init == wait = Idle /\ truth = FALSE

-----------------------------------------------------------------------------

Call ==
    /\ wait.st = "idle"
    /\ \E timed \in BOOLEAN :
         wait' = [st |-> "waiting", asking |-> 1, armed |-> 1, live |-> TRUE,
                  deadline |-> timed, timed |-> timed]
    /\ UNCHANGED truth

\* The predicate throws before its first await: there is nothing to clear yet, and
\* both timers are armed although the call has rejected.
CallThrows ==
    /\ wait.st = "idle"
    /\ \E timed \in BOOLEAN :
         wait' = [st |-> "rejected", asking |-> 0, armed |-> 1, live |-> TRUE,
                  deadline |-> timed, timed |-> timed]
    /\ UNCHANGED truth

\* clearTimers, then resolve or reject, which only the first of them does.
Settled(w, st) ==
    [w EXCEPT !.st = IF @ = "waiting" THEN st ELSE @,
              !.armed = IF w.live THEN @ - 1 ELSE @,
              !.live = FALSE,
              !.deadline = FALSE]

\* Deviation of Fire: polls are made by setInterval.
FireInterval ==
    /\ wait.armed > 0
    /\ wait' = [wait EXCEPT !.asking = @ + 1]
    /\ UNCHANGED truth

\* The oldest timer fires: doStep.
Fire ==
    /\ wait.armed > 0
    /\ wait' = [wait EXCEPT !.armed = @ - 1, !.asking = @ + 1,
                            !.live = @ /\ wait.armed > 1]
    /\ UNCHANGED truth

\* Deviation of Truthy: the next poll is armed, whatever the answer.
TruthyGoesOn ==
    /\ wait.asking > 0
    /\ truth
    /\ wait' = [Settled(wait, "resolved") EXCEPT !.asking = @ - 1, !.armed = @ + 1]
    /\ UNCHANGED truth

Truthy ==
    /\ wait.asking > 0
    /\ truth
    /\ wait' = [Settled(wait, "resolved") EXCEPT !.asking = @ - 1]
    /\ UNCHANGED truth

\* Deviation of Falsy: the timers are cleared before one is armed.
FalsyClears ==
    /\ wait.asking > 0
    /\ ~truth
    /\ wait' = [Settled(wait, "waiting") EXCEPT !.asking = @ - 1, !.armed = @ + 1,
                                                !.live = TRUE]
    /\ UNCHANGED truth

\* A poll goes on, also when the promise has settled meanwhile.
Falsy ==
    /\ wait.asking > 0
    /\ ~truth
    /\ wait' = [wait EXCEPT !.asking = @ - 1, !.armed = @ + 1, !.live = TRUE]
    /\ UNCHANGED truth

Throws ==
    /\ wait.asking > 0
    /\ wait' = [Settled(wait, "rejected") EXCEPT !.asking = @ - 1]
    /\ UNCHANGED truth

TimeOut ==
    /\ wait.deadline
    /\ wait' = Settled(wait, "timedOut")
    /\ UNCHANGED truth

\* What is waited for comes about, or passes.
Turn == truth' = ~truth /\ UNCHANGED wait

Next == Call \/ CallThrows \/ Fire \/ Truthy \/ Falsy \/ Throws \/ TimeOut \/ Turn

\* Timers fire.  The predicate need not answer.
Fairness == WF_vars(Fire) /\ WF_vars(TimeOut)

Spec == Init /\ [][Next]_vars /\ Fairness

-----------------------------------------------------------------------------
(* Properties *)

\* However answers, throws and the timeout interleave, there are never more than
\* two polls, under way or armed (doStep arms its next one itself).
PollsBounded == wait.asking + wait.armed <= 2

\* A call with a timeout settles, also when the predicate hangs or is never true.
WaitTimesOut == (wait.st = "waiting" /\ wait.timed) ~> (wait.st # "waiting")

\* Once the predicate stays true, and as long as it answers, the call settles and
\* no poll outlives it, though clearTimers leaves one armed.  (One that stays
\* false goes on being polled after the timeout.)
PollsEnd ==
    (<>[]truth /\ []<>(wait.asking = 0)) =>
      <>[](wait.st # "waiting" /\ wait.asking + wait.armed = 0)
=============================================================================
