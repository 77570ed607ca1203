------------------------------ MODULE Attempts ------------------------------
(***************************************************************************)
(* One call of waitTx (common/utils/web3.ts) on a transaction that is      *)
(* being sent: txAttempt calls its function again, after a delay, when it  *)
(* throws, and gives up at a limit.  Before it does so it reports the      *)
(* error, and what throws there ends the call at once.  attempt            *)
(* (common/utils/misc.ts) and retry (common/utils/retry.ts) do the same to *)
(* any function, without such a report; retry counts upwards.              *)
(***************************************************************************)
EXTENDS Integers

CONSTANT attempts \* how often a call that threw is made again

VARIABLES
    call, \* where the call stands, how many attempts are left, calls made, if
          \* contractFactory is at hand, what the last of them threw
    tx    \* the promise of the response, made once by the caller: once it is
          \* refused, the error

vars == <<call, tx>>

\* What may be thrown: an object whose data can be reported, one whose data is null
\* (as that of a reverted transaction), no object at all.
Errors == {"plain", "noData", "primitive"}

\* calling: awaits the promise; mining: awaits tx.wait()
TypeOK ==
    /\ call \in [st : {"idle", "calling", "mining", "sleeping", "done", "failed"},
                 left : 0 .. attempts, calls : Nat,
                 factory : BOOLEAN, error : Errors \cup {"none"}]
    /\ tx \in {"none", "pending", "sent"} \cup Errors

Init ==
    /\ call = [st |-> "idle", left |-> attempts, calls |-> 0, factory |-> FALSE, error |-> "none"]
    /\ tx = "none"

\* The caller sends the transaction and hands its promise over.
Send ==
    /\ call.st = "idle"
    /\ \E factory \in BOOLEAN :
         call' = [call EXCEPT !.st = "calling", !.calls = 1, !.factory = factory]
    /\ tx' = "pending"

Settle ==
    /\ tx = "pending"
    /\ tx' \in {"sent"} \cup Errors
    /\ UNCHANGED call

Mine ==
    /\ call.st = "calling"
    /\ tx = "sent"
    /\ call' = [call EXCEPT !.st = "mining"]
    /\ UNCHANGED tx

Mined ==
    /\ call.st = "mining"
    /\ call' = [call EXCEPT !.st = "done"]
    /\ UNCHANGED tx

\* The report throws in its turn: "in" asks for an object, getError for data.
Unreported(e) == e = "primitive" \/ (e = "noData" /\ call.factory)

\* The function throws: the transaction was refused, or did not come through.
Thrown(e) ==
    \/ call.st = "calling" /\ tx = e
    \/ call.st = "mining"

\* Deviation of Fail: the last of the attempts is not made.
FailEarly ==
    /\ \E e \in Errors :
         /\ Thrown(e)
         /\ call' = [call EXCEPT !.error = e,
              !.st = IF call.left > 1 /\ ~Unreported(e) THEN "sleeping" ELSE "failed"]
    /\ UNCHANGED tx

\* The catch block: with attempts left the error is reported and the delay awaited.
Fail ==
    /\ \E e \in Errors :
         /\ Thrown(e)
         /\ call' = [call EXCEPT !.error = e,
              !.st = IF call.left > 0 /\ ~Unreported(e) THEN "sleeping" ELSE "failed"]
    /\ UNCHANGED tx

\* The delay is over: the function is called again, on the same promise, and
\* contractFactory is not handed on.
Wake ==
    /\ call.st = "sleeping"
    /\ call' = [st |-> "calling", left |-> call.left - 1, calls |-> call.calls + 1,
                factory |-> FALSE, error |-> "none"]
    /\ UNCHANGED tx

Next == Send \/ Settle \/ Mine \/ Mined \/ Fail \/ Wake

Spec == Init /\ [][Next]_vars

-----------------------------------------------------------------------------
(* Properties *)

\* A call makes no attempt too many, and gives up after the last one only, unless the
\* report of an error throws: that of one that is no object, in any attempt, or
\* that of one without data, in the first and with a contractFactory.
GivesUpInTime ==
    /\ call.calls <= attempts + 1
    /\ call.st = "failed" =>
         \/ call.calls = attempts + 1
         \/ call.error = "primitive"
         \/ call.error = "noData" /\ call.factory /\ call.calls = 1
    /\ call.st \in {"calling", "mining", "sleeping"} =>
         call.calls + call.left = attempts + 1
=============================================================================
