----------------------------- MODULE AsyncUtils -----------------------------
(***************************************************************************)
(* One call of waitUntil (WaitUntil) and one of waitTx (Attempts), side by *)
(* side: they share no state.                                              *)
(***************************************************************************)
EXTENDS Integers

CONSTANT attempts

VARIABLES wait, truth, call, tx

waitVars == <<wait, truth>>
triesVars == <<call, tx>>

Wait == INSTANCE WaitUntil
Tries == INSTANCE Attempts

\* However answers, throws and the timeout of a waitUntil interleave, it never has
\* more than two polls, under way or armed.
PollsBounded == Wait!PollsBounded

\* A waitUntil with a timeout settles, also when its predicate hangs.
WaitTimesOut == Wait!WaitTimesOut

\* Once the predicate stays true, the waitUntil settles and no poll of it goes on.
PollsEnd == Wait!PollsEnd

\* A waitTx makes no attempt too many, and gives up after the last one only, unless
\* the report of an error throws (of one without data in the first attempt only).
GivesUpInTime == Tries!GivesUpInTime
=============================================================================
