------------------------------- MODULE IdLock -------------------------------
(***************************************************************************)
(* common/utils/Lock.ts, class IdLock: tryInvoke(id, fn) runs fn under a   *)
(* lock found, or made, in a map under id.  The release function deletes   *)
(* the map's entry when it leaves its lock empty.                          *)
(*                                                                         *)
(* A task whose fn throws releases twice: the catch block does, and the    *)
(* finally block does again.  Failing holds the tasks that may throw.      *)
(***************************************************************************)
EXTENDS LockObject, FiniteSets

CONSTANTS
    Tasks, Ids,
    IdOf,     \* IdOf[t]: the id the task locks
    Failing,  \* the tasks whose fn may throw
    Objects,  \* identities of Lock objects
    NoObject

ASSUME IdLockAssumption ==
    /\ IdOf \in [Tasks -> Ids]
    /\ Failing \subseteq Tasks
    /\ NoObject \notin Objects

VARIABLES
    locks,  \* the Map of the IdLock: an object or NoObject for each id
    heap,   \* the state of each Lock object
    task    \* where each task stands, and the Lock object it was given

vars == <<locks, heap, task>>

\* waiting: queued; granted: its promise is resolved; running: inside fn
TaskStates == {"idle", "waiting", "granted", "running"}

TypeOK ==
    /\ locks \in [Ids -> Objects \cup {NoObject}]
    /\ heap \in [Objects -> [locked : BOOLEAN, queue : Seq(Tasks)]]
    /\ task \in [Tasks -> [st : TaskStates, lock : Objects \cup {NoObject}]]

Init ==
    /\ locks = [i \in Ids |-> NoObject]
    /\ heap = [o \in Objects |-> New]
    /\ task = [t \in Tasks |-> [st |-> "idle", lock |-> NoObject]]

\* Nothing refers to the object: it stands for one that was never made.
Unused(o) ==
    /\ \A i \in Ids : locks[i] # o
    /\ \A t \in Tasks : task[t].lock # o

\* new Lock(): any unused object will do.
Fresh(o) == Unused(o) /\ o = CHOOSE x \in Objects : Unused(x)

-----------------------------------------------------------------------------

\* tryInvoke(id, fn) is called: find or make the lock, acquire it.
Acquire(t) ==
    /\ task[t].st = "idle"
    /\ \E o \in Objects :
         /\ IF locks[IdOf[t]] = NoObject THEN Fresh(o) ELSE o = locks[IdOf[t]]
         /\ LET l == IF locks[IdOf[t]] = NoObject THEN New ELSE heap[o]
            IN  /\ heap' = [heap EXCEPT ![o] = Acquired(l, t)]
                /\ task' = [task EXCEPT ![t] =
                     [st |-> IF l.locked THEN "waiting" ELSE "granted", lock |-> o]]
         /\ locks' = [locks EXCEPT ![IdOf[t]] = o]

\* The promise was resolved: the task resumes and calls fn.
Enter(t) ==
    /\ task[t].st = "granted"
    /\ task' = [task EXCEPT ![t].st = "running"]
    /\ UNCHANGED <<locks, heap>>

\* The task is over; the tasks in woken have their promise resolved.
Finish(t, woken) ==
    task' = [u \in Tasks |->
               IF u = t THEN [st |-> "idle", lock |-> NoObject]
               ELSE IF u \in woken THEN [task[u] EXCEPT !.st = "granted"]
               ELSE task[u]]

\* if (lock.isEmpty()) locks.delete(id): whatever object is there by now.
Drop(t, l) ==
    locks' = IF IsEmpty(l) THEN [locks EXCEPT ![IdOf[t]] = NoObject] ELSE locks

\* fn returns: finally releases.
Return(t) ==
    LET o == task[t].lock
        l == heap[o]
    IN  /\ task[t].st = "running"
        /\ heap' = [heap EXCEPT ![o] = Released(l)]
        /\ Drop(t, Released(l))
        /\ Finish(t, Woken(l))

\* fn throws: catch releases, then finally releases again.
Throw(t) ==
    LET o == task[t].lock
        l == heap[o]
        l1 == Released(l)
    IN  /\ task[t].st = "running"
        /\ t \in Failing
        /\ heap' = [heap EXCEPT ![o] = Released(l1)]
        /\ Drop(t, Released(l1))
        /\ Finish(t, Woken(l) \cup Woken(l1))

Step(t) == Enter(t) \/ Return(t) \/ Throw(t)

Next == \E t \in Tasks : Acquire(t) \/ Step(t)

\* The event loop resumes resolved promises, and every fn settles.
Fairness == \A t \in Tasks : WF_vars(Step(t))

Spec == Init /\ [][Next]_vars /\ Fairness

-----------------------------------------------------------------------------
(* Properties *)

Inside == {t \in Tasks : task[t].st = "running"}

\* Two tasks of one id are never inside their fn together.
MutualExclusion ==
    \A t, u \in Inside : IdOf[t] = IdOf[u] => t = u

\* When nobody uses an id, the map has no entry for it: the map does not grow.
NoLeak ==
    \A i \in Ids : (\A t \in Tasks : IdOf[t] = i => task[t].st = "idle")
                     => locks[i] = NoObject

-----------------------------------------------------------------------------
(* Each id is one first-in first-out line.                                  *)

Owner(i) == {t \in Tasks : IdOf[t] = i /\ task[t].st \in {"granted", "running"}}

LineOf(i) ==
    IF locks[i] = NoObject THEN <<>>
    ELSE <<CHOOSE t \in Owner(i) : TRUE>> \o heap[locks[i]].queue

Line == INSTANCE FifoMutex WITH line <- [i \in Ids |-> LineOf(i)], inside <- Inside

\* As long as no task throws that shares its id, IdLock implements FifoMutex,
\* fairness included.
ImplementsFifoMutex == Line!Spec
=============================================================================
