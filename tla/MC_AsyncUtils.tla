--------------------------- MODULE MC_AsyncUtils ---------------------------
(***************************************************************************)
(* The asynchronous utilities of common/utils: four tasks on an IdLock,    *)
(* three of them with one id, a call of waitUntil and a call of waitTx.    *)
(* They share no state, so one is at work at a time.                       *)
(***************************************************************************)
EXTENDS IdLock, AsyncUtils

CONSTANTS t1, t2, t3, t4, a, b

MCIdOf == [t \in Tasks |-> IF t = t4 THEN b ELSE a]

LocksIdle == \A t \in Tasks : task[t].st = "idle"
WaitIdle == wait.st = "idle"
TriesIdle == call.st = "idle"

MCInit == Init /\ Wait!Init /\ Tries!Init

MCNext ==
    \/ /\ WaitIdle /\ TriesIdle
       /\ Next
       /\ UNCHANGED <<waitVars, triesVars>>
    \/ /\ LocksIdle /\ TriesIdle
       /\ Wait!Next
       /\ UNCHANGED <<vars, triesVars>>
    \/ /\ LocksIdle /\ WaitIdle
       /\ Tries!Next
       /\ UNCHANGED <<vars, waitVars>>

MCSpec ==
    /\ MCInit
    /\ [][MCNext]_<<vars, waitVars, triesVars>>
    /\ Fairness
    /\ Wait!Fairness
============================================================================
