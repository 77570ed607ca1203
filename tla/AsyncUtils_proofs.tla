------------------------- MODULE AsyncUtils_proofs -------------------------
(***************************************************************************)
(* Proofs about the asynchronous utilities, for any tasks, ids and         *)
(* interleaving.  When no fn of a task that shares its id throws, IdLock   *)
(* keeps the tasks of an id apart and serves them in the order they came   *)
(* in; a call of waitUntil never has more than two polls; a retried call   *)
(* is made exactly as often as asked.                                      *)
(***************************************************************************)
EXTENDS IdLock, AsyncUtils, TLAPS

-----------------------------------------------------------------------------
(* IdLock *)

Active(t) == task[t].st # "idle"
Owns(t) == task[t].st \in {"granted", "running"}

\* Every active task holds the object the map has under its id.
SameObject ==
    \A t \in Tasks :
        /\ Active(t) => task[t].lock = locks[IdOf[t]] /\ locks[IdOf[t]] \in Objects
        /\ ~ Active(t) => task[t].lock = NoObject

\* No two ids share an object.
OwnObject ==
    \A i, j \in Ids : locks[i] = locks[j] /\ locks[i] # NoObject => i = j

\* An id has at most one owner, and its object is locked then.
OneOwner ==
    /\ \A t, u \in Tasks : Owns(t) /\ Owns(u) /\ IdOf[t] = IdOf[u] => t = u
    /\ \A t \in Tasks : Owns(t) => heap[locks[IdOf[t]]].locked

\* The queue of an id's object is made of its waiting tasks, each of them once.
QueueOf(i) == heap[locks[i]].queue
QueueIsWaiting ==
    \A i \in Ids : locks[i] # NoObject =>
        /\ \A n \in 1..Len(QueueOf(i)) :
              /\ task[QueueOf(i)[n]].st = "waiting"
              /\ IdOf[QueueOf(i)[n]] = i
        /\ \A m, n \in 1..Len(QueueOf(i)) : QueueOf(i)[m] = QueueOf(i)[n] => m = n
        /\ \A t \in Tasks : task[t].st = "waiting" /\ IdOf[t] = i =>
              \E n \in 1..Len(QueueOf(i)) : QueueOf(i)[n] = t

IInv == TypeOK /\ SameObject /\ OwnObject /\ OneOwner /\ QueueIsWaiting

-----------------------------------------------------------------------------

\* Every step keeps the types, also of tasks that throw: release() and acquire()
\* map lock objects to lock objects.
LockType == [locked : BOOLEAN, queue : Seq(Tasks)]

LEMMA AcquiredType ==
    ASSUME NEW l \in LockType, NEW t \in Tasks
    PROVE  Acquired(l, t) \in LockType
<1>1. l.locked \in BOOLEAN /\ l.queue \in Seq(Tasks)
  BY DEF LockType
<1>2. Append(l.queue, t) \in Seq(Tasks)
  BY <1>1
<1>3. l = [locked |-> l.locked, queue |-> l.queue]
  BY DEF LockType
<1> QED
  BY <1>1, <1>2, <1>3 DEF Acquired, LockType

LEMMA AcquiredFields ==
    ASSUME NEW l \in LockType, NEW t \in Tasks
    PROVE  /\ Acquired(l, t).locked = TRUE
           /\ Acquired(l, t).queue = IF l.locked THEN Append(l.queue, t) ELSE l.queue
<1>1. l = [locked |-> l.locked, queue |-> l.queue] /\ l.locked \in BOOLEAN
  BY DEF LockType
<1>2. CASE l.locked = TRUE
  BY <1>1, <1>2 DEF Acquired
<1>3. CASE l.locked = FALSE
  BY <1>1, <1>3 DEF Acquired
<1> QED
  BY <1>1, <1>2, <1>3

LEMMA ReleasedFields ==
    ASSUME NEW l \in LockType
    PROVE  /\ l.queue # <<>> => /\ Released(l).locked = l.locked
                               /\ Released(l).queue = Tail(l.queue)
           /\ l.queue = <<>> => /\ Released(l).locked = FALSE
                               /\ Released(l).queue = <<>>
<1>1. l = [locked |-> l.locked, queue |-> l.queue]
  BY DEF LockType
<1> QED
  BY <1>1 DEF Released

LEMMA ReleasedType ==
    ASSUME NEW l \in LockType
    PROVE  Released(l) \in LockType
<1>1. l.locked \in BOOLEAN /\ l.queue \in Seq(Tasks)
  BY DEF LockType
<1>2. l.queue # <<>> => Tail(l.queue) \in Seq(Tasks)
  BY <1>1
<1>3. l = [locked |-> l.locked, queue |-> l.queue]
  BY DEF LockType
<1> QED
  BY <1>1, <1>2, <1>3 DEF Released, LockType

\* THEOREM: the states stay well typed (class IdLock, with or without throws).
THEOREM TypeCorrect == Spec => []TypeOK
<1> USE IdLockAssumption
<1>1. Init => TypeOK
  BY DEF Init, TypeOK, New, TaskStates
<1>2. TypeOK /\ [Next]_vars => TypeOK'
  <2> SUFFICES ASSUME TypeOK, [Next]_vars PROVE TypeOK'
    OBVIOUS
  <2>1. \A o \in Objects : heap[o] \in LockType
    BY DEF TypeOK, LockType
  <2>2. ASSUME NEW t \in Tasks, Acquire(t) PROVE TypeOK'
    <3>1. PICK o \in Objects :
            /\ LET l == IF locks[IdOf[t]] = NoObject THEN New ELSE heap[o]
               IN  /\ heap' = [heap EXCEPT ![o] = Acquired(l, t)]
                   /\ task' = [task EXCEPT ![t] =
                        [st |-> IF l.locked THEN "waiting" ELSE "granted", lock |-> o]]
            /\ locks' = [locks EXCEPT ![IdOf[t]] = o]
      BY <2>2 DEF Acquire
    <3>2. New \in LockType
      BY DEF New, LockType
    <3>3. heap' \in [Objects -> LockType]
      BY <2>1, <3>1, <3>2, AcquiredType DEF TypeOK
    <3> QED
      BY <3>1, <3>3 DEF TypeOK, LockType, TaskStates
  <2>3. ASSUME NEW t \in Tasks, Enter(t) PROVE TypeOK'
    BY <2>3 DEF Enter, TypeOK, TaskStates
  <2>4. ASSUME NEW t \in Tasks, NEW W, Finish(t, W)
        PROVE  task' \in [Tasks -> [st : TaskStates, lock : Objects \cup {NoObject}]]
    BY <2>4 DEF Finish, TypeOK, TaskStates
  <2>5. ASSUME NEW t \in Tasks, NEW l, Drop(t, l)
        PROVE  locks' \in [Ids -> Objects \cup {NoObject}]
    BY <2>5 DEF Drop, TypeOK
  <2>6. ASSUME NEW o, NEW l, heap' = [heap EXCEPT ![o] = l],
               o \in Objects => l \in LockType
        PROVE  heap' \in [Objects -> LockType]
    BY <2>6 DEF TypeOK, LockType
  <2>7. ASSUME NEW t \in Tasks, Return(t) PROVE TypeOK'
    <3>1. heap' \in [Objects -> LockType]
      BY <2>1, <2>6, <2>7, ReleasedType DEF Return
    <3> QED
      BY <2>4, <2>5, <2>7, <3>1 DEF Return, TypeOK, LockType
  <2>8. ASSUME NEW t \in Tasks, Throw(t) PROVE TypeOK'
    <3>1. heap' \in [Objects -> LockType]
      BY <2>1, <2>6, <2>8, ReleasedType DEF Throw
    <3> QED
      BY <2>4, <2>5, <2>8, <3>1 DEF Throw, TypeOK, LockType
  <2>9. CASE UNCHANGED vars
    BY <2>9 DEF vars, TypeOK
  <2> QED
    BY <2>2, <2>3, <2>7, <2>8, <2>9 DEF Next, Step
<1> QED
  BY <1>1, <1>2, PTL DEF Spec

-----------------------------------------------------------------------------

\* acquire() keeps the invariant: a new object is nobody else's, a free object
\* has no owner, and a locked one takes the task at the end of its queue.
LEMMA AcquireKeepsIInv ==
    ASSUME IInv, TypeOK', NEW t \in Tasks, Acquire(t)
    PROVE  IInv'
<1> DEFINE i == IdOf[t]
           fresh == locks[i] = NoObject
<1> USE IdLockAssumption
<1>1. i \in Ids
  OBVIOUS
<1>2. PICK o \in Objects :
        /\ IF fresh THEN Unused(o) ELSE o = locks[i]
        /\ LET l == IF fresh THEN New ELSE heap[o]
           IN  /\ heap' = [heap EXCEPT ![o] = Acquired(l, t)]
               /\ task' = [task EXCEPT ![t] =
                    [st |-> IF l.locked THEN "waiting" ELSE "granted", lock |-> o]]
        /\ locks' = [locks EXCEPT ![i] = o]
  BY DEF Acquire, Fresh
<1> DEFINE l == IF fresh THEN New ELSE heap[o]
<1>3. /\ heap' = [heap EXCEPT ![o] = Acquired(l, t)]
      /\ task' = [task EXCEPT ![t] =
                    [st |-> IF l.locked THEN "waiting" ELSE "granted", lock |-> o]]
      /\ locks' = [locks EXCEPT ![i] = o]
      /\ o \in Objects
      /\ fresh => Unused(o)
      /\ ~ fresh => o = locks[i]
      /\ task[t].st = "idle"
  BY <1>2 DEF Acquire
<1>4. /\ locks'[i] = o
      /\ \A j \in Ids \ {i} : locks'[j] = locks[j] /\ locks[j] # o
      /\ \A p \in Objects \ {o} : heap'[p] = heap[p]
      /\ heap'[o] = Acquired(l, t)
      /\ \A u \in Tasks \ {t} : task'[u] = task[u]
      /\ task'[t].lock = o
      /\ task'[t].st = IF l.locked THEN "waiting" ELSE "granted"
  BY <1>1, <1>3 DEF IInv, TypeOK, OwnObject, Unused
<1>5. l.queue \in Seq(Tasks) /\ l.locked \in BOOLEAN
  <2>1. CASE fresh
    BY <2>1 DEF New
  <2>2. CASE ~ fresh
    BY <2>2, <1>3 DEF IInv, TypeOK
  <2> QED
    BY <2>1, <2>2
<1>6. /\ Acquired(l, t).locked = TRUE
      /\ Acquired(l, t).queue = IF l.locked THEN Append(l.queue, t) ELSE l.queue
  <2>1. l \in LockType
    BY <1>3 DEF IInv, TypeOK, New, LockType
  <2> HIDE DEF l
  <2> QED
    BY <2>1, AcquiredFields
\* Nobody else with the id is active when the lock is new or free but waiting tasks.
<1>7. \A u \in Tasks : IdOf[u] = i /\ Active(u) => ~ fresh
  BY <1>3 DEF IInv, SameObject
<1>8. ~ l.locked => \A u \in Tasks : IdOf[u] = i => ~ Owns(u)
  BY <1>3, <1>7 DEF IInv, OneOwner, Owns, Active
<1>9. SameObject'
  <2>1. SUFFICES ASSUME NEW u \in Tasks
        PROVE  /\ Active(u)' => task'[u].lock = locks'[IdOf[u]] /\ locks'[IdOf[u]] \in Objects
               /\ ~ Active(u)' => task'[u].lock = NoObject
    BY DEF SameObject
  <2>2. CASE u = t
    BY <2>2, <1>1, <1>3, <1>4 DEF Active
  <2>3. CASE u # t /\ IdOf[u] = i
    BY <2>3, <1>3, <1>4, <1>7 DEF Active, IInv, SameObject
  <2>4. CASE u # t /\ IdOf[u] # i
    <3>1. IdOf[u] \in Ids \ {i}
      BY <2>4
    <3> QED
      BY <2>4, <3>1, <1>4 DEF Active, IInv, SameObject
  <2> QED
    BY <2>2, <2>3, <2>4
<1>10. OwnObject'
  BY <1>1, <1>3, <1>4 DEF IInv, OwnObject
<1>11. OneOwner'
  <2>1. ASSUME NEW u \in Tasks, NEW v \in Tasks, Owns(u)', Owns(v)', IdOf[u] = IdOf[v]
        PROVE  u = v
    <3>1. CASE u # t /\ v # t
      BY <3>1, <2>1, <1>4 DEF IInv, OneOwner, Owns
    <3>2. CASE u = t \/ v = t
      BY <3>2, <2>1, <1>4, <1>5, <1>8 DEF Owns
    <3> QED
      BY <3>1, <3>2
  <2>2. ASSUME NEW u \in Tasks, Owns(u)' PROVE heap'[locks'[IdOf[u]]].locked
    <3>1. CASE IdOf[u] = i
      BY <3>1, <1>4, <1>6
    <3>2. CASE IdOf[u] # i
      <4>1. IdOf[u] \in Ids \ {i} /\ u # t /\ Owns(u)
        BY <3>2, <2>2, <1>4 DEF Owns
      <4>2. locks[IdOf[u]] \in Objects \ {o}
        BY <4>1, <1>4 DEF IInv, SameObject, Owns, Active
      <4> QED
        BY <4>1, <4>2, <1>4 DEF IInv, OneOwner
    <3> QED
      BY <3>1, <3>2
  <2> QED
    BY <2>1, <2>2 DEF OneOwner
<1>12. QueueIsWaiting'
  <2>1. SUFFICES ASSUME NEW j \in Ids, locks'[j] # NoObject
        PROVE  /\ \A n \in 1..Len(QueueOf(j)') :
                     /\ task'[QueueOf(j)'[n]].st = "waiting"
                     /\ IdOf[QueueOf(j)'[n]] = j
               /\ \A m, n \in 1..Len(QueueOf(j)') : QueueOf(j)'[m] = QueueOf(j)'[n] => m = n
               /\ \A u \in Tasks : task'[u].st = "waiting" /\ IdOf[u] = j =>
                     \E n \in 1..Len(QueueOf(j)') : QueueOf(j)'[n] = u
    BY DEF QueueIsWaiting
  <2>2. CASE j # i
    <3>1. locks'[j] = locks[j] /\ locks[j] \in Objects \ {o}
      BY <2>1, <2>2, <1>3, <1>4 DEF IInv, TypeOK
    <3>2. QueueOf(j)' = QueueOf(j) /\ QueueOf(j) \in Seq(Tasks)
      BY <3>1, <1>4 DEF QueueOf, IInv, TypeOK
    <3>3. \A n \in 1..Len(QueueOf(j)) : QueueOf(j)[n] \in Tasks \ {t}
      BY <2>2, <3>1, <3>2 DEF IInv, QueueIsWaiting
    <3> QED
      BY <2>2, <3>1, <3>2, <3>3, <1>4 DEF IInv, QueueIsWaiting
  <2>3. CASE j = i
    <3> DEFINE q == l.queue
    <3>1. QueueOf(j)' = IF l.locked THEN Append(q, t) ELSE q
      BY <2>3, <1>4, <1>6 DEF QueueOf
    <3>2. /\ \A n \in 1..Len(q) : q[n] \in Tasks /\ task[q[n]].st = "waiting" /\ IdOf[q[n]] = i
          /\ \A m, n \in 1..Len(q) : q[m] = q[n] => m = n
          /\ \A u \in Tasks : task[u].st = "waiting" /\ IdOf[u] = i => \E n \in 1..Len(q) : q[n] = u
      <4>1. CASE fresh
        <5>1. q = <<>>
          BY <4>1 DEF New
        <5> QED
          BY <4>1, <5>1, <1>7 DEF Active
      <4>2. CASE ~ fresh
        <5>1. q = QueueOf(i)
          BY <4>2, <1>3 DEF QueueOf
        <5> HIDE DEF q, l
        <5>2. q \in Seq(Tasks)
          BY <1>5 DEF q
        <5> QED
          BY <4>2, <5>1, <5>2, <1>1 DEF IInv, QueueIsWaiting
      <4> QED
        BY <4>1, <4>2
    <3>3. \A n \in 1..Len(q) : q[n] # t
      BY <3>2, <1>3
    <3>4. q \in Seq(Tasks)
      BY <1>5
    <3> HIDE DEF q, l, i
    <3>5. CASE ~ l.locked
      <4>1. QueueOf(j)' = q /\ task'[t].st = "granted"
        BY <3>1, <3>5, <1>4
      <4> QED
        BY <2>3, <3>2, <3>3, <3>4, <4>1, <1>4
    <3>6. CASE l.locked
      <4>1. /\ QueueOf(j)' = Append(q, t) /\ task'[t].st = "waiting"
            /\ Len(Append(q, t)) = Len(q) + 1
            /\ Append(q, t)[Len(q) + 1] = t
            /\ \A n \in 1..Len(q) : Append(q, t)[n] = q[n]
            /\ Len(q) \in Nat
        BY <3>1, <3>4, <3>6, <1>4
      <4>2. \A n \in 1..Len(q) + 1 : n \in 1..Len(q) \/ n = Len(q) + 1
        BY <4>1
      <4>3. IdOf[t] = j
        BY <2>3 DEF i
      <4>4. \A n \in 1..Len(QueueOf(j)') :
                task'[QueueOf(j)'[n]].st = "waiting" /\ IdOf[QueueOf(j)'[n]] = j
        BY <2>3, <3>2, <3>3, <4>1, <4>2, <4>3, <1>4
      <4>5. \A m, n \in 1..Len(QueueOf(j)') : QueueOf(j)'[m] = QueueOf(j)'[n] => m = n
        BY <3>2, <3>3, <4>1, <4>2
      <4>6. ASSUME NEW u \in Tasks, task'[u].st = "waiting", IdOf[u] = j
            PROVE  \E n \in 1..Len(QueueOf(j)') : QueueOf(j)'[n] = u
        <5>1. CASE u = t
          BY <5>1, <4>1
        <5>2. CASE u # t
          <6>1. PICK n \in 1..Len(q) : q[n] = u
            BY <2>3, <3>2, <4>6, <5>2, <1>4
          <6> QED
            BY <6>1, <4>1
        <5> QED
          BY <5>1, <5>2
      <4> QED
        BY <4>4, <4>5, <4>6
    <3> QED
      BY <3>5, <3>6
  <2> QED
    BY <2>2, <2>3
<1> QED
  BY <1>9, <1>10, <1>11, <1>12 DEF IInv

\* The release at the end of fn keeps the invariant: the head of the queue is the
\* only new owner, and the map's entry goes only when nobody holds its object.
LEMMA ReturnKeepsIInv ==
    ASSUME IInv, TypeOK', NEW t \in Tasks, Return(t)
    PROVE  IInv'
<1> DEFINE i == IdOf[t]
           o == locks[i]
           q == heap[o].queue
<1> USE IdLockAssumption
<1>1. /\ i \in Ids
      /\ o \in Objects
      /\ task[t].lock = o
      /\ task[t].st = "running"
      /\ heap[o] \in LockType
  BY DEF Return, IInv, TypeOK, SameObject, Active, LockType
<1>2. /\ heap' = [heap EXCEPT ![o] = Released(heap[o])]
      /\ Drop(t, Released(heap[o]))
      /\ Finish(t, Woken(heap[o]))
  BY <1>1 DEF Return
<1>3. /\ q \in Seq(Tasks)
      /\ heap[o].locked = TRUE
  BY <1>1 DEF IInv, OneOwner, Owns, LockType
<1>4. /\ \A n \in 1..Len(q) : q[n] \in Tasks /\ task[q[n]].st = "waiting" /\ IdOf[q[n]] = i
      /\ \A m, n \in 1..Len(q) : q[m] = q[n] => m = n
      /\ \A u \in Tasks : task[u].st = "waiting" /\ IdOf[u] = i => \E n \in 1..Len(q) : q[n] = u
  BY <1>1, <1>3 DEF IInv, QueueIsWaiting, QueueOf
<1>5. \A j \in Ids \ {i} : locks[j] # NoObject => locks[j] \in Objects \ {o}
  BY <1>1 DEF IInv, TypeOK, OwnObject
<1>6. /\ \A p \in Objects \ {o} : heap'[p] = heap[p]
      /\ heap'[o] = Released(heap[o])
      /\ \A j \in Ids \ {i} : locks'[j] = locks[j]
      /\ task'[t].st = "idle" /\ task'[t].lock = NoObject
      /\ \A u \in Tasks \ {t} : task'[u].lock = task[u].lock
  BY <1>1, <1>2 DEF IInv, TypeOK, Drop, Finish
<1>7. \A u \in Tasks : Owns(u) /\ IdOf[u] = i => u = t
  BY <1>1 DEF IInv, OneOwner, Owns
<1>8. \A u \in Tasks : IdOf[u] # i => task'[u] = task[u]
  <2>1. \A w \in Woken(heap[o]) : IdOf[w] = i
    <3>1. q # <<>> => 1 \in 1..Len(q) /\ Head(q) = q[1]
      BY <1>3
    <3> QED
      BY <3>1, <1>4 DEF Woken
  <2> QED
    BY <2>1, <1>2 DEF Finish, IInv, TypeOK
<1> HIDE DEF q, o, i
\* With an empty queue nobody else is active for the id, and the entry goes.
<1>9. CASE q = <<>>
  <2>1. \A u \in Tasks \ {t} : task'[u] = task[u]
    BY <1>2, <1>9 DEF Finish, Woken, q
  <2>2. \A u \in Tasks : IdOf[u] = i => task'[u].st = "idle"
    BY <1>4, <1>6, <1>7, <1>9, <2>1 DEF Owns, IInv, TypeOK, TaskStates
  <2>3. locks'[i] = NoObject
    <3>1. IsEmpty(Released(heap[o]))
      BY <1>1, <1>9, ReleasedFields DEF q, IsEmpty
    <3> QED
      BY <1>1, <1>2, <3>1 DEF Drop, i, IInv, TypeOK
  <2>4. SameObject'
    <3>1. SUFFICES ASSUME NEW u \in Tasks
          PROVE  /\ Active(u)' => task'[u].lock = locks'[IdOf[u]] /\ locks'[IdOf[u]] \in Objects
                 /\ ~ Active(u)' => task'[u].lock = NoObject
      BY DEF SameObject
    <3>2. CASE IdOf[u] = i
      BY <3>2, <2>1, <2>2, <1>6 DEF Active, IInv, SameObject
    <3>3. CASE IdOf[u] # i
      BY <3>3, <1>6, <1>8 DEF Active, IInv, SameObject
    <3> QED
      BY <3>2, <3>3
  <2>5. OwnObject'
    BY <1>6, <2>3 DEF IInv, OwnObject
  <2>6. OneOwner'
    <3>1. \A u \in Tasks : Owns(u)' => Owns(u) /\ IdOf[u] # i
      BY <2>2, <1>8 DEF Owns
    <3>2. \A u \in Tasks : Owns(u) /\ IdOf[u] # i => locks[IdOf[u]] \in Objects \ {o}
      BY <1>5 DEF IInv, SameObject, Owns, Active
    <3> QED
      BY <3>1, <3>2, <1>6 DEF IInv, OneOwner
  <2>7. QueueIsWaiting'
    <3>1. SUFFICES ASSUME NEW j \in Ids, locks'[j] # NoObject
          PROVE  /\ \A n \in 1..Len(QueueOf(j)') :
                     /\ task'[QueueOf(j)'[n]].st = "waiting"
                     /\ IdOf[QueueOf(j)'[n]] = j
                 /\ \A m, n \in 1..Len(QueueOf(j)') : QueueOf(j)'[m] = QueueOf(j)'[n] => m = n
                 /\ \A u \in Tasks : task'[u].st = "waiting" /\ IdOf[u] = j =>
                     \E n \in 1..Len(QueueOf(j)') : QueueOf(j)'[n] = u
      BY DEF QueueIsWaiting
    <3>2. j # i /\ locks'[j] = locks[j] /\ locks[j] \in Objects \ {o}
      BY <3>1, <2>3, <1>5, <1>6
    <3>3. QueueOf(j)' = QueueOf(j) /\ QueueOf(j) \in Seq(Tasks)
      BY <3>2, <1>6 DEF QueueOf, IInv, TypeOK
    <3>4. \A n \in 1..Len(QueueOf(j)) : QueueOf(j)[n] \in Tasks
      BY <3>3
    <3> QED
      BY <3>2, <3>3, <3>4, <1>8 DEF IInv, QueueIsWaiting
  <2> QED
    BY <2>4, <2>5, <2>6, <2>7 DEF IInv
\* Otherwise the head of the queue is the new owner and the object stays.
<1>10. CASE q # <<>>
  <2> DEFINE h == Head(q)
             r == Tail(q)
  <2>1. /\ h \in Tasks /\ h = q[1] /\ 1 \in 1..Len(q)
        /\ r \in Seq(Tasks) /\ Len(r) = Len(q) - 1 /\ Len(q) \in Nat
        /\ \A n \in 1..Len(r) : r[n] = q[n + 1] /\ n + 1 \in 1..Len(q) /\ r[n] \in Tasks
    BY <1>3, <1>10
  <2>2. task[h].st = "waiting" /\ IdOf[h] = i /\ h # t
    BY <2>1, <1>1, <1>4
  <2>3. /\ task'[h].st = "granted"
        /\ \A u \in Tasks \ {t, h} : task'[u] = task[u]
    <3>1. Woken(heap[o]) = {h}
      BY <1>10 DEF Woken, q
    <3> QED
      BY <1>2, <2>1, <2>2, <3>1 DEF Finish, IInv, TypeOK
  <2>4. /\ heap'[o].locked = TRUE
        /\ heap'[o].queue = r
    <3>1. /\ Released(heap[o]).locked = heap[o].locked
          /\ Released(heap[o]).queue = Tail(heap[o].queue)
      BY <1>1, <1>10, ReleasedFields DEF q
    <3> QED
      BY <3>1, <1>3, <1>6 DEF q
  <2>5. locks' = locks
    <3>1. ~ IsEmpty(Released(heap[o]))
      BY <2>4, <1>6 DEF IsEmpty
    <3> QED
      BY <3>1, <1>2 DEF Drop
  <2> HIDE DEF h, r
  <2>6. SameObject'
    <3>1. \A u \in Tasks : Active(u)' => Active(u)
      BY <2>2, <2>3, <1>6 DEF Active
    <3>2. \A u \in Tasks \ {t} : ~ Active(u)' => ~ Active(u)
      BY <2>2, <2>3 DEF Active
    <3>3. ~ Active(t)'
      BY <1>6 DEF Active
    <3> QED
      BY <3>1, <3>2, <2>5, <1>6 DEF IInv, SameObject, Active
  <2>7. OwnObject'
    BY <2>5 DEF IInv, OwnObject
  <2>8. OneOwner'
    <3>1. \A u \in Tasks : Owns(u)' => u = h \/ (Owns(u) /\ IdOf[u] # i)
      BY <2>3, <1>6, <1>7 DEF Owns
    <3>2. \A u \in Tasks : Owns(u) /\ IdOf[u] # i => locks[IdOf[u]] \in Objects \ {o}
      BY <1>5 DEF IInv, SameObject, Owns, Active
    <3>3. heap'[locks'[IdOf[h]]].locked
      BY <2>2, <2>4, <2>5 DEF o
    <3> QED
      BY <3>1, <3>2, <3>3, <2>2, <2>5, <1>6 DEF IInv, OneOwner
  <2>9. QueueIsWaiting'
    <3>1. SUFFICES ASSUME NEW j \in Ids, locks'[j] # NoObject
          PROVE  /\ \A n \in 1..Len(QueueOf(j)') :
                     /\ task'[QueueOf(j)'[n]].st = "waiting"
                     /\ IdOf[QueueOf(j)'[n]] = j
                 /\ \A m, n \in 1..Len(QueueOf(j)') : QueueOf(j)'[m] = QueueOf(j)'[n] => m = n
                 /\ \A u \in Tasks : task'[u].st = "waiting" /\ IdOf[u] = j =>
                     \E n \in 1..Len(QueueOf(j)') : QueueOf(j)'[n] = u
      BY DEF QueueIsWaiting
    <3>2. CASE j # i
      <4>1. locks'[j] = locks[j] /\ locks[j] \in Objects \ {o}
        BY <3>1, <3>2, <2>5, <1>5
      <4>2. QueueOf(j)' = QueueOf(j) /\ QueueOf(j) \in Seq(Tasks)
        BY <4>1, <1>6 DEF QueueOf, IInv, TypeOK
      <4>3. \A n \in 1..Len(QueueOf(j)) : QueueOf(j)[n] \in Tasks
        BY <4>2
      <4> QED
        BY <3>2, <4>1, <4>2, <4>3, <1>8 DEF IInv, QueueIsWaiting
    <3>3. CASE j = i
      <4>1. QueueOf(j)' = r
        BY <3>3, <2>4, <2>5 DEF QueueOf, o
      <4>2. \A n \in 1..Len(r) : r[n] # h /\ r[n] # t /\ task'[r[n]].st = "waiting" /\ IdOf[r[n]] = i
        <5>1. SUFFICES ASSUME NEW n \in 1..Len(r)
              PROVE  /\ r[n] # h /\ r[n] # t
                     /\ task'[r[n]].st = "waiting" /\ IdOf[r[n]] = i
          OBVIOUS
        <5>2. n + 1 \in 1..Len(q) /\ n + 1 # 1 /\ r[n] = q[n + 1] /\ r[n] \in Tasks
          BY <2>1
        <5>3. r[n] # h
          BY <5>2, <2>1, <1>4
        <5>4. task[r[n]].st = "waiting" /\ IdOf[r[n]] = i
          BY <5>2, <1>4
        <5> QED
          BY <5>2, <5>3, <5>4, <2>3, <1>1
      <4>3. ASSUME NEW m \in 1..Len(r), NEW n \in 1..Len(r), r[m] = r[n]
            PROVE  m = n
        <5>1. m + 1 \in 1..Len(q) /\ n + 1 \in 1..Len(q) /\ q[m + 1] = q[n + 1]
          BY <4>3, <2>1
        <5>2. m + 1 = n + 1
          BY <5>1, <1>4
        <5> QED
          BY <5>2, <2>1
      <4>4. ASSUME NEW u \in Tasks, task'[u].st = "waiting", IdOf[u] = j
            PROVE  \E n \in 1..Len(r) : r[n] = u
        <5>1. u # h /\ u # t /\ task[u].st = "waiting"
          BY <4>4, <2>3, <1>6
        <5>2. PICK n \in 1..Len(q) : q[n] = u
          BY <3>3, <4>4, <5>1, <1>4
        <5>3. n - 1 \in 1..Len(r) /\ r[n - 1] = u
          BY <2>1, <5>1, <5>2
        <5> QED
          BY <5>3
      <4> QED
        BY <3>3, <4>1, <4>2, <4>3, <4>4
    <3> QED
      BY <3>2, <3>3
  <2> QED
    BY <2>6, <2>7, <2>8, <2>9 DEF IInv
<1> QED
  BY <1>9, <1>10

\* When nobody shares the id of a task that throws, its second release finds a
\* free lock without a queue, and changes nothing.
LEMMA ThrowAloneReturns ==
    ASSUME IInv, NEW t \in Tasks, Throw(t),
           \A u \in Tasks : IdOf[t] = IdOf[u] => t = u
    PROVE  Return(t)
<1> DEFINE o == task[t].lock
           l == heap[o]
<1>1. o = locks[IdOf[t]] /\ o \in Objects /\ IdOf[t] \in Ids /\ task[t].st = "running"
  BY IdLockAssumption DEF Throw, IInv, SameObject, Active
<1>2. l \in LockType /\ l.queue \in Seq(Tasks) /\ o # NoObject
  BY <1>1, IdLockAssumption DEF IInv, TypeOK, LockType
<1>3. \A n \in 1..Len(l.queue) : l.queue[n] \in Tasks
                                /\ task[l.queue[n]].st = "waiting"
                                /\ IdOf[l.queue[n]] = IdOf[t]
  BY <1>1, <1>2 DEF IInv, QueueIsWaiting, QueueOf
<1>4. l.queue = <<>>
  <2>1. SUFFICES ASSUME l.queue # <<>> PROVE FALSE
    OBVIOUS
  <2>2. 1 \in 1..Len(l.queue)
    BY <1>2, <2>1
  <2>3. l.queue[1] = t
    BY <1>3, <2>2
  <2> QED
    BY <1>1, <1>3, <2>2, <2>3
<1>5. Released(l).locked = FALSE /\ Released(l).queue = <<>> /\ Released(l) \in LockType
  BY <1>2, <1>4, ReleasedFields, ReleasedType
<1>6. Released(Released(l)) = Released(l)
  BY <1>5 DEF Released, LockType
<1>7. Woken(l) = {} /\ Woken(Released(l)) = {}
  BY <1>4, <1>5 DEF Woken
<1> QED
  BY <1>6, <1>7 DEF Throw, Return

\* No task throws that shares its id with another.
ThrowersAlone == \A t \in Failing, u \in Tasks : IdOf[t] = IdOf[u] => t = u

LEMMA IInvBegins == Init => IInv
<1> USE IdLockAssumption
<1> SUFFICES ASSUME Init PROVE IInv
  OBVIOUS
<1>1. TypeOK
  BY DEF Init, TypeOK, New, TaskStates
<1> QED
  BY <1>1 DEF Init, IInv, SameObject, OwnObject, OneOwner, QueueIsWaiting, Active, Owns

LEMMA EnterEffect ==
    ASSUME TypeOK, NEW t \in Tasks, Enter(t)
    PROVE  /\ task[t].st = "granted" /\ task'[t].st = "running"
           /\ \A u \in Tasks : task'[u].lock = task[u].lock
           /\ \A u \in Tasks \ {t} : task'[u] = task[u]
           /\ locks' = locks /\ heap' = heap
           /\ \A u \in Tasks : /\ Active(u)' <=> Active(u)
                               /\ Owns(u)' <=> Owns(u)
                               /\ task'[u].st = "waiting" <=> task[u].st = "waiting"
<1>1. /\ task[t].st = "granted" /\ task'[t].st = "running"
      /\ \A u \in Tasks : task'[u].lock = task[u].lock
      /\ \A u \in Tasks \ {t} : task'[u] = task[u]
      /\ locks' = locks /\ heap' = heap
  BY DEF Enter, TypeOK
<1> QED
  BY <1>1 DEF Active, Owns

LEMMA NextKeepsIInv ==
    ASSUME ThrowersAlone PROVE IInv /\ TypeOK' /\ [Next]_vars => IInv'
<1> USE IdLockAssumption
<1> SUFFICES ASSUME IInv, TypeOK', [Next]_vars PROVE IInv'
  OBVIOUS
<1>1. ASSUME NEW t \in Tasks, Enter(t) PROVE IInv'
  <2>1. /\ locks' = locks /\ heap' = heap
        /\ \A u \in Tasks : /\ task'[u].lock = task[u].lock
                            /\ Active(u)' <=> Active(u)
                            /\ Owns(u)' <=> Owns(u)
                            /\ task'[u].st = "waiting" <=> task[u].st = "waiting"
    BY <1>1, EnterEffect DEF IInv
  <2>2. SameObject' /\ OwnObject' /\ OneOwner'
    BY <2>1 DEF IInv, SameObject, OwnObject, OneOwner
  <2>3. \A j \in Ids : locks[j] # NoObject =>
          QueueOf(j) \in Seq(Tasks) /\ \A n \in 1..Len(QueueOf(j)) : QueueOf(j)[n] \in Tasks
    BY DEF IInv, TypeOK, QueueOf
  <2>4. QueueIsWaiting'
    BY <2>1, <2>3 DEF IInv, QueueIsWaiting, QueueOf
  <2> QED
    BY <2>2, <2>4 DEF IInv
<1>2. \A t \in Tasks : Throw(t) => Return(t)
  BY ThrowAloneReturns DEF Throw, ThrowersAlone
<1>3. CASE UNCHANGED vars
  BY <1>3 DEF vars, IInv, SameObject, OwnObject, OneOwner, QueueIsWaiting, QueueOf,
             Active, Owns
<1> QED
  BY <1>1, <1>2, <1>3, AcquireKeepsIInv, ReturnKeepsIInv DEF Next, Step

LEMMA IInvInductive == ASSUME ThrowersAlone PROVE Spec => []IInv
  BY IInvBegins, NextKeepsIInv, TypeCorrect, PTL DEF Spec

\* THEOREM: as long as no task throws that shares its id with another, two tasks
\* of one id are never inside together.
THEOREM Exclusion ==
    ASSUME \A t \in Failing, u \in Tasks : IdOf[t] = IdOf[u] => t = u
    PROVE  Spec => []MutualExclusion
<1>1. ThrowersAlone
  BY DEF ThrowersAlone
<1>2. IInv => MutualExclusion
  BY DEF IInv, OneOwner, Owns, MutualExclusion, Inside
<1> QED
  BY <1>1, <1>2, IInvInductive, PTL

-----------------------------------------------------------------------------
(* IdLock is a line for each id *)

\* An object that the map has under an id has an owner.
Held == \A i \in Ids : locks[i] # NoObject => \E t \in Tasks : IdOf[t] = i /\ Owns(t)

\* Two sequences that begin with w.
LEMMA FirstInLine ==
    ASSUME NEW w \in Tasks, NEW q \in Seq(Tasks)
    PROVE  /\ <<w>> \o q \in Seq(Tasks) /\ <<w>> \o q # <<>>
           /\ Head(<<w>> \o q) = w /\ Tail(<<w>> \o q) = q
           /\ Len(<<w>> \o q) = Len(q) + 1 /\ Len(q) \in Nat
           /\ \A n \in 1..Len(q) + 1 : (<<w>> \o q)[n] = IF n = 1 THEN w ELSE q[n - 1]
  OBVIOUS

LEMMA LastInLine ==
    ASSUME NEW w \in Tasks, NEW q \in Seq(Tasks), NEW t \in Tasks
    PROVE  <<w>> \o Append(q, t) = Append(<<w>> \o q, t)
  OBVIOUS

\* What acquire() changes.
LEMMA AcquireEffect ==
    ASSUME IInv, Held, NEW t \in Tasks, Acquire(t)
    PROVE  LET i == IdOf[t] IN
           /\ task[t].st = "idle"
           /\ \A u \in Tasks \ {t} : task'[u] = task[u]
           /\ \A j \in Ids \ {i} : locks'[j] = locks[j]
           /\ \A j \in Ids \ {i} : locks[j] # NoObject => QueueOf(j)' = QueueOf(j)
           /\ locks'[i] \in Objects
           /\ locks[i] = NoObject => QueueOf(i)' = <<>> /\ task'[t].st = "granted"
           /\ locks[i] # NoObject => QueueOf(i)' = Append(QueueOf(i), t) /\ task'[t].st = "waiting"
<1> DEFINE i == IdOf[t]
           fresh == locks[i] = NoObject
<1> USE IdLockAssumption
<1>1. PICK o \in Objects :
        /\ IF fresh THEN Unused(o) ELSE o = locks[i]
        /\ LET l == IF fresh THEN New ELSE heap[o]
           IN  /\ heap' = [heap EXCEPT ![o] = Acquired(l, t)]
               /\ task' = [task EXCEPT ![t] =
                    [st |-> IF l.locked THEN "waiting" ELSE "granted", lock |-> o]]
        /\ locks' = [locks EXCEPT ![i] = o]
  BY DEF Acquire, Fresh
<1> DEFINE l == IF fresh THEN New ELSE heap[o]
<1>2. /\ i \in Ids /\ task[t].st = "idle"
      /\ locks \in [Ids -> Objects \cup {NoObject}]
      /\ \A p \in Objects : heap[p] \in LockType
  BY DEF Acquire, IInv, TypeOK, LockType
<1>3. \A j \in Ids \ {i} : locks[j] # o
  BY <1>1, <1>2 DEF IInv, OwnObject, Unused
<1>4. /\ locks'[i] = o
      /\ \A j \in Ids \ {i} : locks'[j] = locks[j]
      /\ \A p \in Objects \ {o} : heap'[p] = heap[p]
      /\ heap'[o] = Acquired(l, t)
      /\ \A u \in Tasks \ {t} : task'[u] = task[u]
      /\ task'[t].st = IF l.locked THEN "waiting" ELSE "granted"
  BY <1>1, <1>2 DEF IInv, TypeOK
<1>5. QueueOf(i)' = IF l.locked THEN Append(l.queue, t) ELSE l.queue
  <2>1. l \in LockType
    BY <1>2 DEF New, LockType
  <2>2. Acquired(l, t).queue = IF l.locked THEN Append(l.queue, t) ELSE l.queue
    <3> HIDE DEF l
    <3> QED
      BY <2>1, AcquiredFields
  <2>3. QueueOf(i)' = Acquired(l, t).queue
    BY <1>4 DEF QueueOf
  <2> QED
    BY <2>2, <2>3
<1>6. \A j \in Ids \ {i} : locks[j] # NoObject => QueueOf(j)' = QueueOf(j)
  BY <1>2, <1>3, <1>4 DEF QueueOf
<1>7. CASE fresh
  BY <1>2, <1>4, <1>5, <1>6, <1>7 DEF New
<1>8. CASE ~fresh
  <2>1. l = heap[locks[i]] /\ l.queue = QueueOf(i) /\ locks[i] \in Objects
    BY <1>1, <1>2, <1>8 DEF QueueOf
  <2>2. l.locked = TRUE
    BY <1>2, <1>8, <2>1 DEF Held, IInv, OneOwner, LockType
  <2>3. QueueOf(i)' = Append(QueueOf(i), t) /\ task'[t].st = "waiting"
    BY <1>4, <1>5, <2>1, <2>2
  <2> HIDE DEF l
  <2> QED
    BY <1>2, <1>4, <1>6, <1>8, <2>3
<1> QED
  BY <1>7, <1>8

\* What the release at the end of fn changes.
LEMMA ReturnEffect ==
    ASSUME IInv, NEW t \in Tasks, Return(t)
    PROVE  LET i == IdOf[t]
               q == QueueOf(i) IN
           /\ task[t].st = "running" /\ task'[t].st = "idle"
           /\ locks[i] \in Objects /\ q \in Seq(Tasks)
           /\ \A u \in Tasks : IdOf[u] # i => task'[u] = task[u]
           /\ \A j \in Ids \ {i} : locks'[j] = locks[j]
           /\ \A j \in Ids \ {i} : locks[j] # NoObject => QueueOf(j)' = QueueOf(j)
           /\ q = <<>> => locks'[i] = NoObject /\ \A u \in Tasks \ {t} : task'[u] = task[u]
           /\ q # <<>> => /\ locks'[i] = locks[i] /\ QueueOf(i)' = Tail(q)
                          /\ Head(q) \in Tasks \ {t} /\ IdOf[Head(q)] = i
                          /\ task[Head(q)].st = "waiting" /\ task'[Head(q)].st = "granted"
                          /\ \A u \in Tasks \ {t, Head(q)} : task'[u] = task[u]
<1> DEFINE i == IdOf[t]
           o == locks[i]
           q == QueueOf(i)
<1> USE IdLockAssumption
<1>1. /\ i \in Ids /\ o \in Objects /\ o # NoObject
      /\ task[t].lock = o /\ task[t].st = "running"
      /\ heap[o] \in LockType /\ heap[o].locked = TRUE /\ q = heap[o].queue
      /\ q \in Seq(Tasks)
  BY DEF Return, IInv, TypeOK, SameObject, OneOwner, Owns, Active, LockType, QueueOf
<1>2. /\ heap' = [heap EXCEPT ![o] = Released(heap[o])]
      /\ Drop(t, Released(heap[o]))
      /\ Finish(t, Woken(heap[o]))
  BY <1>1 DEF Return
<1>3. /\ \A p \in Objects \ {o} : heap'[p] = heap[p]
      /\ heap'[o] = Released(heap[o])
      /\ \A j \in Ids \ {i} : locks'[j] = locks[j]
      /\ task'[t].st = "idle"
  BY <1>1, <1>2 DEF IInv, TypeOK, Drop, Finish
<1>4. \A j \in Ids \ {i} : locks[j] # NoObject => locks[j] \in Objects \ {o}
  BY <1>1 DEF IInv, TypeOK, OwnObject
<1>5. \A j \in Ids \ {i} : locks[j] # NoObject => QueueOf(j)' = QueueOf(j)
  BY <1>3, <1>4 DEF QueueOf
<1>6. CASE q = <<>>
  <2>1. \A u \in Tasks \ {t} : task'[u] = task[u]
    BY <1>1, <1>2, <1>6 DEF Finish, Woken
  <2>2. locks'[i] = NoObject
    <3>1. IsEmpty(Released(heap[o]))
      BY <1>1, <1>6, ReleasedFields DEF IsEmpty
    <3> QED
      BY <1>1, <1>2, <3>1 DEF Drop, IInv, TypeOK
  <2> QED
    BY <1>1, <1>3, <1>5, <1>6, <2>1, <2>2
<1>7. CASE q # <<>>
  <2> DEFINE h == Head(q)
  <2>1. h = q[1] /\ 1 \in 1..Len(q) /\ h \in Tasks
    BY <1>1, <1>7
  <2>2. task[h].st = "waiting" /\ IdOf[h] = i /\ h # t
    BY <1>1, <2>1 DEF IInv, QueueIsWaiting
  <2>3. /\ task'[h].st = "granted"
        /\ \A u \in Tasks \ {t, h} : task'[u] = task[u]
    <3>1. Woken(heap[o]) = {h}
      BY <1>1, <1>7 DEF Woken
    <3> QED
      BY <1>2, <2>1, <2>2, <3>1 DEF Finish, IInv, TypeOK
  <2>4. Released(heap[o]).locked = TRUE /\ Released(heap[o]).queue = Tail(q)
    BY <1>1, <1>7, ReleasedFields
  <2>5. locks' = locks
    BY <1>2, <2>4 DEF Drop, IsEmpty
  <2>6. QueueOf(i)' = Tail(q)
    BY <1>3, <2>4, <2>5 DEF QueueOf
  <2> QED
    BY <1>1, <1>3, <1>5, <1>7, <2>1, <2>2, <2>3, <2>5, <2>6
<1> QED
  BY <1>6, <1>7

LEMMA HeldKeeps ==
    ASSUME ThrowersAlone
    PROVE  IInv /\ Held /\ TypeOK' /\ [Next]_vars => Held'
<1> USE IdLockAssumption
<1> SUFFICES ASSUME IInv, Held, TypeOK', [Next]_vars PROVE Held'
  OBVIOUS
<1>1. ASSUME NEW t \in Tasks, Acquire(t) PROVE Held'
  <2> DEFINE i == IdOf[t]
  <2>1. /\ task[t].st = "idle"
        /\ \A u \in Tasks \ {t} : task'[u] = task[u]
        /\ \A j \in Ids \ {i} : locks'[j] = locks[j]
        /\ locks[i] = NoObject => task'[t].st = "granted"
    BY <1>1, AcquireEffect
  <2> SUFFICES ASSUME NEW j \in Ids, locks'[j] # NoObject
               PROVE  \E u \in Tasks : IdOf[u] = j /\ Owns(u)'
    BY DEF Held
  <2>2. CASE j = i /\ locks[j] = NoObject
    BY <2>1, <2>2 DEF Owns
  <2>3. CASE locks[j] # NoObject
    <3>1. PICK u \in Tasks : IdOf[u] = j /\ Owns(u)
      BY <2>3 DEF Held
    <3> QED
      BY <2>1, <3>1 DEF Owns
  <2> QED
    BY <2>1, <2>2, <2>3
<1>2. ASSUME NEW t \in Tasks, Enter(t) PROVE Held'
  BY <1>2, EnterEffect DEF IInv, Held
<1>3. ASSUME NEW t \in Tasks, Return(t) PROVE Held'
  <2> DEFINE i == IdOf[t]
             q == QueueOf(i)
  <2>1. /\ \A u \in Tasks : IdOf[u] # i => task'[u] = task[u]
        /\ \A j \in Ids \ {i} : locks'[j] = locks[j]
        /\ q = <<>> => locks'[i] = NoObject
        /\ q # <<>> => /\ Head(q) \in Tasks /\ IdOf[Head(q)] = i
                       /\ task'[Head(q)].st = "granted"
    BY <1>3, ReturnEffect
  <2> HIDE DEF q
  <2> SUFFICES ASSUME NEW j \in Ids, locks'[j] # NoObject
               PROVE  \E u \in Tasks : IdOf[u] = j /\ Owns(u)'
    BY DEF Held
  <2>2. CASE j = i
    BY <2>1, <2>2 DEF Owns
  <2>3. CASE j # i
    <3>1. PICK u \in Tasks : IdOf[u] = j /\ Owns(u)
      BY <2>1, <2>3 DEF Held
    <3> QED
      BY <2>1, <2>3, <3>1 DEF Owns
  <2> QED
    BY <2>2, <2>3
<1>4. CASE UNCHANGED vars
  BY <1>4 DEF vars, Held, Owns
<1> QED
  BY <1>1, <1>2, <1>3, <1>4, ThrowAloneReturns DEF Next, Step, Throw, ThrowersAlone

LEMMA HeldInductive == ASSUME ThrowersAlone PROVE Spec => []Held
<1>1. Init => Held
  BY DEF Init, Held
<1> QED
  BY <1>1, HeldKeeps, IInvInductive, TypeCorrect, PTL DEF Spec

\* The line of an id is its owner, then the queue of its object.
LineIs(i) ==
    /\ locks[i] = NoObject => LineOf(i) = <<>> /\ \A t \in Tasks : IdOf[t] = i => ~Active(t)
    /\ locks[i] # NoObject => QueueOf(i) \in Seq(Tasks)
    /\ \A w \in Tasks : IdOf[w] = i /\ Owns(w) =>
         locks[i] # NoObject /\ LineOf(i) = <<w>> \o QueueOf(i)

LEMMA LineForm == IInv => \A i \in Ids : LineIs(i)
<1> USE IdLockAssumption
<1> SUFFICES ASSUME IInv, NEW i \in Ids PROVE LineIs(i)
  OBVIOUS
<1>1. locks[i] = NoObject => LineOf(i) = <<>> /\ \A t \in Tasks : IdOf[t] = i => ~Active(t)
  BY DEF LineOf, IInv, SameObject
<1>2. locks[i] # NoObject => QueueOf(i) \in Seq(Tasks)
  BY DEF IInv, TypeOK, QueueOf
<1>3. ASSUME NEW w \in Tasks, IdOf[w] = i, Owns(w)
      PROVE  locks[i] # NoObject /\ LineOf(i) = <<w>> \o QueueOf(i)
  <2>1. Owner(i) = {w}
    BY <1>3 DEF IInv, OneOwner, Owner, Owns
  <2>2. (CHOOSE t \in Owner(i) : TRUE) = w
    BY <2>1
  <2>3. locks[i] # NoObject
    BY <1>1, <1>3 DEF Owns, Active
  <2> QED
    BY <2>2, <2>3 DEF LineOf, QueueOf
<1> QED
  BY <1>1, <1>2, <1>3 DEF LineIs

LEMMA LineFormNext == IInv' => (\A i \in Ids : LineIs(i))'
  BY LineForm, PTL

\* A line stays when its object, its queue and who owns it stay.
LEMMA LineStays ==
    ASSUME IInv, Held, IInv', NEW i \in Ids,
           locks'[i] = locks[i],
           locks[i] # NoObject => QueueOf(i)' = QueueOf(i),
           \A t \in Tasks : IdOf[t] = i => (Owns(t) => Owns(t)')
    PROVE  LineOf(i)' = LineOf(i)
<1>1. LineIs(i) /\ LineIs(i)'
  BY LineForm, LineFormNext
<1>2. CASE locks[i] = NoObject
  BY <1>1, <1>2 DEF LineIs
<1>3. CASE locks[i] # NoObject
  <2>1. PICK w \in Tasks : IdOf[w] = i /\ Owns(w)
    BY <1>3 DEF Held
  <2>2. Owns(w)'
    BY <2>1
  <2> QED
    BY <1>1, <1>3, <2>1, <2>2 DEF LineIs
<1> QED
  BY <1>2, <1>3

Lines == [i \in Ids |-> LineOf(i)]

\* A task that comes joins its line at the end: it gets a lock of its own, or the
\* one that somebody has.
LEMMA AcquireJoins ==
    ASSUME IInv, Held, IInv', NEW t \in Tasks, Acquire(t)
    PROVE  Line!Join(t)
<1> DEFINE i == IdOf[t]
<1> USE IdLockAssumption
<1>1. /\ i \in Ids /\ task[t].st = "idle"
      /\ \A u \in Tasks \ {t} : task'[u] = task[u]
      /\ \A j \in Ids \ {i} : locks'[j] = locks[j]
      /\ \A j \in Ids \ {i} : locks[j] # NoObject => QueueOf(j)' = QueueOf(j)
      /\ locks'[i] \in Objects /\ locks'[i] # NoObject
      /\ locks[i] = NoObject => QueueOf(i)' = <<>> /\ task'[t].st = "granted"
      /\ locks[i] # NoObject => QueueOf(i)' = Append(QueueOf(i), t) /\ task'[t].st = "waiting"
  BY AcquireEffect
<1>2. LineIs(i) /\ LineIs(i)'
  BY <1>1, LineForm, LineFormNext
<1>3. Inside' = Inside
  BY <1>1 DEF Inside
<1>4. ASSUME NEW j \in Ids \ {i} PROVE LineOf(j)' = LineOf(j)
  BY <1>1, <1>4, LineStays DEF Owns
<1>5. ~(\E n \in DOMAIN LineOf(i) : LineOf(i)[n] = t) /\ LineOf(i)' = Append(LineOf(i), t)
  <2>1. CASE locks[i] = NoObject
    <3>1. LineOf(i) = <<>>
      BY <1>2, <2>1 DEF LineIs
    <3>2. LineOf(i)' = <<t>> \o <<>>
      BY <1>1, <1>2, <2>1 DEF LineIs, Owns
    <3> QED
      BY <3>1, <3>2
  <2>2. CASE locks[i] # NoObject
    <3> DEFINE q == QueueOf(i)
    <3>1. PICK w \in Tasks : IdOf[w] = i /\ Owns(w)
      BY <1>1, <2>2 DEF Held
    <3>2. w # t /\ Owns(w)' /\ q \in Seq(Tasks)
      BY <1>1, <1>2, <2>2, <3>1 DEF Owns, LineIs
    <3>3. LineOf(i) = <<w>> \o q /\ LineOf(i)' = <<w>> \o Append(q, t)
      BY <1>1, <1>2, <2>2, <3>1, <3>2 DEF LineIs
    <3>4. \A n \in 1..Len(q) : q[n] # t
      BY <1>1, <2>2 DEF IInv, QueueIsWaiting
    <3> HIDE DEF q
    <3>5. DOMAIN (<<w>> \o q) = 1..Len(q) + 1 /\ Len(q) \in Nat
      BY <3>2, FirstInLine
    <3>6. \A n \in 1..Len(q) + 1 : (<<w>> \o q)[n] = IF n = 1 THEN w ELSE q[n - 1]
      BY <3>2, FirstInLine
    <3>7. \A n \in 1..Len(q) + 1 : n = 1 \/ n - 1 \in 1..Len(q)
      BY <3>5
    <3>8. \A n \in DOMAIN (<<w>> \o q) : (<<w>> \o q)[n] # t
      BY <3>2, <3>4, <3>5, <3>6, <3>7
    <3> QED
      BY <3>2, <3>3, <3>8, LastInLine
  <2> QED
    BY <2>1, <2>2
<1>6. Lines' = [Lines EXCEPT ![i] = Append(Lines[i], t)]
  BY <1>1, <1>4, <1>5 DEF Lines
<1>7. ~(\E n \in DOMAIN Lines[i] : Lines[i][n] = t)
  BY <1>1, <1>5 DEF Lines
<1> QED
  BY <1>3, <1>6, <1>7 DEF Line!Join, Line!InLine, Lines

\* A task that resumes is the head of its line.
LEMMA EnterStarts ==
    ASSUME IInv, Held, IInv', NEW t \in Tasks, Enter(t)
    PROVE  Line!Start(t)
<1> DEFINE i == IdOf[t]
<1> USE IdLockAssumption
<1>1. /\ i \in Ids /\ task[t].st = "granted" /\ task'[t].st = "running"
      /\ \A u \in Tasks \ {t} : task'[u] = task[u]
      /\ locks' = locks /\ heap' = heap
      /\ \A u \in Tasks : Owns(u)' <=> Owns(u)
  BY EnterEffect DEF IInv
<1>2. \A j \in Ids : LineOf(j)' = LineOf(j)
  BY <1>1, LineStays DEF QueueOf
<1>3. LineOf(i) = <<t>> \o QueueOf(i) /\ QueueOf(i) \in Seq(Tasks)
  BY <1>1, LineForm DEF LineIs, Owns
<1>4. Lines[i] # <<>> /\ Head(Lines[i]) = t
  BY <1>1, <1>3, FirstInLine DEF Lines
<1>5. t \notin Inside /\ Inside' = Inside \cup {t}
  BY <1>1 DEF Inside
<1>6. Lines' = Lines
  BY <1>2 DEF Lines
<1> QED
  BY <1>4, <1>5, <1>6 DEF Line!Start, Line!IsHead, Lines

\* A task that is done leaves the line to the one that came after it.
LEMMA ReturnLeaves ==
    ASSUME IInv, Held, IInv', NEW t \in Tasks, Return(t)
    PROVE  Line!Leave(t)
<1> DEFINE i == IdOf[t]
           q == QueueOf(i)
<1> USE IdLockAssumption
<1>1. /\ i \in Ids /\ task[t].st = "running" /\ task'[t].st = "idle"
      /\ locks[i] \in Objects /\ locks[i] # NoObject /\ q \in Seq(Tasks)
      /\ \A u \in Tasks : IdOf[u] # i => task'[u] = task[u]
      /\ \A j \in Ids \ {i} : locks'[j] = locks[j]
      /\ \A j \in Ids \ {i} : locks[j] # NoObject => QueueOf(j)' = QueueOf(j)
      /\ q = <<>> => locks'[i] = NoObject /\ \A u \in Tasks \ {t} : task'[u] = task[u]
      /\ q # <<>> => /\ locks'[i] = locks[i] /\ QueueOf(i)' = Tail(q)
                     /\ Head(q) \in Tasks \ {t} /\ IdOf[Head(q)] = i
                     /\ task[Head(q)].st = "waiting" /\ task'[Head(q)].st = "granted"
                     /\ \A u \in Tasks \ {t, Head(q)} : task'[u] = task[u]
  BY ReturnEffect
<1> HIDE DEF q
<1>2. LineIs(i) /\ LineIs(i)'
  BY <1>1, LineForm, LineFormNext
<1>3. t \in Inside /\ Inside' = Inside \ {t}
  <2>1. ASSUME NEW u \in Tasks, u # t PROVE task'[u].st = "running" <=> task[u].st = "running"
    BY <1>1, <2>1
  <2> QED
    BY <1>1, <2>1 DEF Inside
<1>4. ASSUME NEW j \in Ids \ {i} PROVE LineOf(j)' = LineOf(j)
  BY <1>1, <1>4, LineStays DEF Owns
<1>5. LineOf(i) = <<t>> \o q
  BY <1>1, <1>2 DEF LineIs, Owns, q
<1>6. LineOf(i)' = q
  <2>1. CASE q = <<>>
    BY <1>1, <1>2, <2>1 DEF LineIs
  <2>2. CASE q # <<>>
    <3>1. LineOf(i)' = <<Head(q)>> \o Tail(q)
      BY <1>1, <1>2, <2>2 DEF LineIs, Owns
    <3>2. q = <<Head(q)>> \o Tail(q)
      BY <1>1, <2>2
    <3> QED
      BY <3>1, <3>2
  <2> QED
    BY <2>1, <2>2
<1>7. Lines[i] = <<t>> \o q /\ Lines[i] # <<>> /\ Head(Lines[i]) = t /\ Tail(Lines[i]) = q
  BY <1>1, <1>5, FirstInLine DEF Lines
<1>8. Lines' = [Lines EXCEPT ![i] = Tail(Lines[i])]
  BY <1>1, <1>4, <1>6, <1>7 DEF Lines
<1> QED
  BY <1>3, <1>7, <1>8 DEF Line!Leave, Line!IsHead, Lines

\* THEOREM: as long as no task throws that shares its id with another, every step of
\* an IdLock is one of FifoMutex or leaves its lines alone: tasks of an id run one
\* at a time, in the order of their calls of tryInvoke, and lines of different ids
\* do not touch each other.  (The fairness of ImplementsFifoMutex is left to TLC.)
THEOREM Refinement ==
    ASSUME \A t \in Failing, u \in Tasks : IdOf[t] = IdOf[u] => t = u
    PROVE  Spec => Line!Init /\ [][Line!Next]_(Line!vars)
<1>1. ThrowersAlone
  BY DEF ThrowersAlone
<1>2. Init => Line!Init
  <2> SUFFICES ASSUME Init PROVE Line!Init
    OBVIOUS
  <2>1. \A i \in Ids : LineOf(i) = <<>>
    BY DEF Init, LineOf
  <2>2. Inside = {}
    BY DEF Init, Inside
  <2> QED
    BY <2>1, <2>2 DEF Line!Init
<1>3. IInv /\ Held /\ IInv' /\ [Next]_vars => [Line!Next]_(Line!vars)
  <2> SUFFICES ASSUME IInv, Held, IInv', [Next]_vars PROVE [Line!Next]_(Line!vars)
    OBVIOUS
  <2>1. CASE UNCHANGED vars
    <3>1. \A i \in Ids : LineOf(i)' = LineOf(i)
      BY <2>1 DEF vars, LineOf, Owner
    <3>2. Inside' = Inside
      BY <2>1 DEF vars, Inside
    <3> QED
      BY <3>1, <3>2 DEF Line!vars
  <2>2. ASSUME NEW t \in Tasks, Acquire(t) \/ Step(t)
        PROVE  Line!Join(t) \/ Line!Start(t) \/ Line!Leave(t)
    <3>1. Throw(t) => Return(t)
      BY <1>1, ThrowAloneReturns DEF Throw, ThrowersAlone
    <3> QED
      BY <2>2, <3>1, AcquireJoins, EnterStarts, ReturnLeaves DEF Step
  <2> QED
    BY <2>1, <2>2 DEF Next, Line!Next
<1> QED
  BY <1>1, <1>2, <1>3, IInvInductive, HeldInductive, PTL DEF Spec

-----------------------------------------------------------------------------
(* WaitUntil *)

\* The variable timer and the time-out are armed only while the counts say so.
LiveArmed == wait.live => wait.armed > 0

WaitInv == Wait!TypeOK /\ Wait!PollsBounded /\ LiveArmed

WaitState ==
    [st : {"idle", "waiting", "resolved", "rejected", "timedOut"},
     asking : Nat, armed : Nat, live : BOOLEAN, deadline : BOOLEAN, timed : BOOLEAN]

LEMMA WaitInit == Wait!Init => WaitInv
<1> SUFFICES ASSUME Wait!Init PROVE WaitInv
  OBVIOUS
<1>1. Wait!Idle \in WaitState
  BY DEF Wait!Idle, WaitState
<1>2. wait = Wait!Idle /\ truth = FALSE
  BY DEF Wait!Init
<1>3. wait.asking = 0 /\ wait.armed = 0 /\ wait.live = FALSE
  BY <1>2 DEF Wait!Idle
<1>4. Wait!TypeOK
  BY <1>1, <1>2 DEF Wait!TypeOK, WaitState
<1> QED BY <1>3, <1>4 DEF WaitInv, Wait!PollsBounded, LiveArmed

\* clearTimers takes the armed timer that it knows, if any, off the count.
LEMMA SettledTyped ==
    ASSUME NEW w \in WaitState, w.live => w.armed > 0, w.asking + w.armed <= 2,
           NEW st \in {"waiting", "resolved", "rejected", "timedOut"}
    PROVE  /\ Wait!Settled(w, st) \in WaitState
           /\ Wait!Settled(w, st).asking = w.asking
           /\ Wait!Settled(w, st).armed <= w.armed
           /\ Wait!Settled(w, st).live = FALSE
<1> DEFINE n == IF w.live THEN w.armed - 1 ELSE w.armed
           s == IF w.st = "waiting" THEN st ELSE w.st
<1>1. n \in Nat /\ n <= w.armed
  BY DEF WaitState
<1>2. s \in {"idle", "waiting", "resolved", "rejected", "timedOut"}
  BY DEF WaitState
<1>3. Wait!Settled(w, st) = [w EXCEPT !.st = s, !.armed = n, !.live = FALSE,
                                      !.deadline = FALSE]
  BY Zenon DEF Wait!Settled
<1> HIDE DEF n, s
<1> QED BY <1>1, <1>2, <1>3 DEF WaitState

\* What WaitInv says of a value of wait.
Bounded(w) ==
    /\ w \in WaitState
    /\ w.asking + w.armed <= 2
    /\ w.live => w.armed > 0

\* A step of the polls leaves a bounded call bounded.
LEMMA PolledBounded ==
    ASSUME NEW w \in WaitState, NEW a \in Nat, NEW n \in Nat, NEW l \in BOOLEAN,
           a + n <= 2, l => n > 0
    PROVE  Bounded([w EXCEPT !.asking = a, !.armed = n, !.live = l])
<1> DEFINE r == [w EXCEPT !.asking = a, !.armed = n, !.live = l]
<1>1. r \in WaitState /\ r.asking = a /\ r.armed = n /\ r.live = l
  BY DEF WaitState
<1> HIDE DEF r
<1>2. r.live => r.armed > 0
  BY <1>1
<1>3. r.asking + r.armed <= 2
  BY <1>1
<1>4. Bounded(r)
  BY <1>1, <1>2, <1>3 DEF Bounded
<1> QED BY <1>4 DEF r

\* An answer that ends the call leaves it bounded.
LEMMA AnsweredBounded ==
    ASSUME Bounded(wait), wait.asking > 0,
           NEW st \in {"waiting", "resolved", "rejected", "timedOut"}
    PROVE  Bounded([Wait!Settled(wait, st) EXCEPT !.asking = @ - 1])
<1> DEFINE s == Wait!Settled(wait, st)
<1>1. wait \in WaitState /\ wait.asking \in Nat /\ wait.armed \in Nat
      /\ wait.asking + wait.armed <= 2
  BY DEF Bounded, WaitState
<1>2. /\ s \in WaitState /\ s.asking = wait.asking
      /\ s.armed <= wait.armed /\ s.live = FALSE
  BY <1>1, SettledTyped DEF Bounded
<1> HIDE DEF s
<1>3. s.armed \in Nat
  BY <1>2 DEF WaitState
<1> DEFINE r == [s EXCEPT !.asking = s.asking - 1]
<1>4. s.asking - 1 \in Nat
  BY <1>1, <1>2
<1>5. r \in WaitState /\ r.asking = s.asking - 1 /\ r.armed = s.armed /\ r.live = s.live
  BY <1>2, <1>4 DEF WaitState
<1> HIDE DEF r
<1>6. r.asking + r.armed <= 2
  BY <1>1, <1>2, <1>3, <1>5
<1>7. Bounded(r)
  BY <1>2, <1>5, <1>6 DEF Bounded
<1> QED BY <1>7 DEF r, s

LEMMA WaitStep == WaitInv /\ [Wait!Next]_(Wait!vars) => WaitInv'
<1> SUFFICES ASSUME WaitInv, [Wait!Next]_(Wait!vars) PROVE WaitInv'
  OBVIOUS
<1>1. Bounded(wait) /\ truth \in BOOLEAN
  BY DEF WaitInv, Wait!TypeOK, Wait!PollsBounded, LiveArmed, Bounded, WaitState
<1>b. /\ wait \in WaitState /\ wait.asking \in Nat /\ wait.armed \in Nat
      /\ wait.live \in BOOLEAN /\ wait.asking + wait.armed <= 2
      /\ wait.live => wait.armed > 0
  BY <1>1 DEF Bounded, WaitState
<1> SUFFICES Bounded(wait') /\ truth' \in BOOLEAN
  BY DEF WaitInv, Wait!TypeOK, Wait!PollsBounded, LiveArmed, Bounded, WaitState
<1>2. CASE Wait!Call
  <2>1. PICK timed \in BOOLEAN :
          wait' = [st |-> "waiting", asking |-> 1, armed |-> 1, live |-> TRUE,
                   deadline |-> timed, timed |-> timed]
    BY <1>2 DEF Wait!Call
  <2>2. wait' \in WaitState
    BY <2>1 DEF WaitState
  <2>3. wait'.asking = 1 /\ wait'.armed = 1
    BY <2>1
  <2> QED BY <1>1, <1>2, <2>2, <2>3 DEF Wait!Call, Bounded
<1>10. CASE Wait!CallThrows
  <2>1. PICK timed \in BOOLEAN :
          wait' = [st |-> "rejected", asking |-> 0, armed |-> 1, live |-> TRUE,
                   deadline |-> timed, timed |-> timed]
    BY <1>10 DEF Wait!CallThrows
  <2>2. wait' \in WaitState
    BY <2>1 DEF WaitState
  <2>3. wait'.asking = 0 /\ wait'.armed = 1
    BY <2>1
  <2> QED BY <1>1, <1>10, <2>2, <2>3 DEF Wait!CallThrows, Bounded
<1>3. CASE Wait!Fire
  <2> DEFINE l == wait.live /\ wait.armed > 1
  <2>1. wait' = [wait EXCEPT !.armed = wait.armed - 1, !.asking = wait.asking + 1,
                             !.live = l]
    BY <1>3, Zenon DEF Wait!Fire
  <2>2. /\ wait.armed - 1 \in Nat /\ wait.asking + 1 \in Nat
        /\ (wait.asking + 1) + (wait.armed - 1) <= 2
    BY <1>3, <1>b DEF Wait!Fire
  <2>3. l \in BOOLEAN
    OBVIOUS
  <2>4. l => wait.armed - 1 > 0
    BY <1>b
  <2> HIDE DEF l
  <2>5. wait' = [wait EXCEPT !.asking = wait.asking + 1, !.armed = wait.armed - 1,
                             !.live = l]
    BY <2>1
  <2>6. Bounded([wait EXCEPT !.asking = wait.asking + 1, !.armed = wait.armed - 1,
                             !.live = l])
    BY <1>b, <2>2, <2>3, <2>4, PolledBounded
  <2> QED BY <1>1, <1>3, <2>5, <2>6 DEF Wait!Fire
<1>4. CASE Wait!Truthy
  BY <1>1, <1>4, AnsweredBounded DEF Wait!Truthy
<1>5. CASE Wait!Falsy
  <2>1. wait' = [wait EXCEPT !.asking = wait.asking - 1, !.armed = wait.armed + 1,
                             !.live = TRUE]
    BY <1>5 DEF Wait!Falsy
  <2>2. /\ wait.asking - 1 \in Nat /\ wait.armed + 1 \in Nat /\ wait.armed + 1 > 0
        /\ (wait.asking - 1) + (wait.armed + 1) <= 2
    BY <1>5, <1>b DEF Wait!Falsy
  <2>3. Bounded([wait EXCEPT !.asking = wait.asking - 1, !.armed = wait.armed + 1,
                             !.live = TRUE])
    BY <1>b, <2>2, PolledBounded
  <2> QED BY <1>1, <1>5, <2>1, <2>3 DEF Wait!Falsy
<1>6. CASE Wait!Throws
  BY <1>1, <1>6, AnsweredBounded DEF Wait!Throws
<1>7. CASE Wait!TimeOut
  <2> DEFINE s == Wait!Settled(wait, "timedOut")
  <2>1. /\ s \in WaitState /\ s.asking = wait.asking
        /\ s.armed <= wait.armed /\ s.live = FALSE
    BY <1>b, SettledTyped
  <2>2. wait' = s /\ truth' = truth
    BY <1>7 DEF Wait!TimeOut
  <2> HIDE DEF s
  <2>3. s.armed \in Nat
    BY <2>1 DEF WaitState
  <2>4. Bounded(s)
    BY <1>b, <2>1, <2>3 DEF Bounded
  <2> QED BY <1>1, <2>2, <2>4
<1>8. CASE Wait!Turn
  BY <1>1, <1>8 DEF Wait!Turn
<1>9. CASE UNCHANGED Wait!vars
  BY <1>1, <1>9 DEF Wait!vars
<1> QED
  BY <1>2, <1>3, <1>4, <1>5, <1>6, <1>7, <1>8, <1>9, <1>10 DEF Wait!Next

LEMMA WaitInvariant == Wait!Spec => []WaitInv
  BY WaitInit, WaitStep, PTL DEF Wait!Spec

\* The state of waitUntil stays well typed.
THEOREM WaitTypeCorrect == Wait!Spec => []Wait!TypeOK
  BY WaitInvariant, PTL DEF WaitInv

\* However answers, throws and the time-out interleave, waitUntil never has more
\* than two polls under way or armed.
THEOREM Polls == Wait!Spec => []PollsBounded
  BY WaitInvariant, PTL DEF WaitInv, PollsBounded

-----------------------------------------------------------------------------
(* Attempts *)

Call ==
    [st : {"idle", "calling", "mining", "sleeping", "done", "failed"},
     left : 0 .. attempts, calls : Nat,
     factory : BOOLEAN, error : Tries!Errors \cup {"none"}]

\* Why a call with attempts left has failed: the report of its error threw.
Unreported(c) ==
    \/ c.error = "primitive"
    \/ c.error = "noData" /\ c.factory

\* While the call goes on every attempt has been made or is left; contractFactory
\* is at hand in the first only; none is left once the call has failed, or the
\* report threw.
SpentBy(c) ==
    /\ c.st = "idle" => c.calls = 0 /\ c.left = attempts
    /\ c.st # "idle" => c.calls + c.left = attempts + 1
    /\ c.st = "idle" => ~c.factory
    /\ c.st # "idle" /\ c.factory => c.calls = 1
    /\ c.st = "sleeping" => c.left > 0
    /\ c.st = "failed" => c.left = 0 \/ Unreported(c)

Promised == {"none", "pending", "sent"} \cup Tries!Errors

TriesInv == call \in Call /\ SpentBy(call) /\ tx \in Promised

LEMMA TriesInit == ASSUME attempts \in Nat PROVE Tries!Init => TriesInv
<1> SUFFICES ASSUME Tries!Init PROVE TriesInv
  OBVIOUS
<1>1. call = [st |-> "idle", left |-> attempts, calls |-> 0, factory |-> FALSE, error |-> "none"]
      /\ tx = "none"
  BY DEF Tries!Init
<1>2. call \in Call
  BY <1>1 DEF Call
<1>3. call.st = "idle" /\ call.calls = 0 /\ call.left = attempts /\ ~call.factory
  BY <1>1
<1> QED BY <1>1, <1>2, <1>3 DEF TriesInv, SpentBy, Promised

\* A change of the state and of the error, once the call has been made.
LEMMA MovedSpent ==
    ASSUME NEW c \in Call, SpentBy(c), c.st # "idle",
           NEW st \in {"calling", "mining", "sleeping", "done", "failed"},
           NEW e \in Tries!Errors \cup {"none"},
           st = "sleeping" => c.left > 0,
           st = "failed" => c.left = 0 \/ e = "primitive" \/ (e = "noData" /\ c.factory)
    PROVE  [c EXCEPT !.st = st, !.error = e] \in Call
           /\ SpentBy([c EXCEPT !.st = st, !.error = e])
<1> DEFINE d == [c EXCEPT !.st = st, !.error = e]
<1>1. /\ d \in Call /\ d.st = st /\ d.left = c.left /\ d.calls = c.calls
      /\ d.factory = c.factory /\ d.error = e
  BY DEF Call
<1> HIDE DEF d
<1>2. d.st # "idle"
  BY <1>1
<1>3. SpentBy(d)
  BY <1>1, <1>2 DEF SpentBy, Unreported
<1> QED BY <1>1, <1>3 DEF d

\* The same when the error stays what it was.
LEMMA MovedOnly ==
    ASSUME NEW c \in Call, SpentBy(c), c.st # "idle",
           NEW st \in {"calling", "mining", "done"}
    PROVE  [c EXCEPT !.st = st] \in Call /\ SpentBy([c EXCEPT !.st = st])
<1>1. c.error \in Tries!Errors \cup {"none"}
      /\ [c EXCEPT !.st = st] = [c EXCEPT !.st = st, !.error = c.error]
  BY DEF Call
<1> QED BY <1>1, MovedSpent

LEMMA TriesStep ==
    ASSUME attempts \in Nat
    PROVE  TriesInv /\ [Tries!Next]_(Tries!vars) => TriesInv'
<1> SUFFICES ASSUME TriesInv, [Tries!Next]_(Tries!vars) PROVE TriesInv'
  OBVIOUS
<1>1. call \in Call /\ SpentBy(call) /\ tx \in Promised
  BY DEF TriesInv
<1>b. call.left \in 0 .. attempts /\ call.calls \in Nat
  BY <1>1 DEF Call
<1> SUFFICES call' \in Call /\ SpentBy(call') /\ tx' \in Promised
  BY DEF TriesInv, SpentBy, Unreported
<1>2. CASE Tries!Send
  <2>1. PICK f \in BOOLEAN : call' = [call EXCEPT !.st = "calling", !.calls = 1, !.factory = f]
    BY <1>2 DEF Tries!Send
  <2>2. /\ call' \in Call
        /\ call'.st = "calling" /\ call'.calls = 1 /\ call'.left = call.left
    BY <1>1, <2>1 DEF Call
  <2>3. call.left = attempts
    BY <1>1, <1>2 DEF Tries!Send, SpentBy
  <2>4. SpentBy(call')
    BY <2>2, <2>3 DEF SpentBy
  <2> QED BY <1>2, <2>2, <2>4 DEF Tries!Send, Promised
<1>3. CASE Tries!Settle
  BY <1>1, <1>3 DEF Tries!Settle, Promised
<1>4. CASE Tries!Mine
  BY <1>1, <1>4, MovedOnly DEF Tries!Mine
<1>5. CASE Tries!Mined
  BY <1>1, <1>5, MovedOnly DEF Tries!Mined
<1>6. CASE Tries!Fail
  <2>1. PICK e \in Tries!Errors :
          /\ Tries!Thrown(e)
          /\ call' = [call EXCEPT !.error = e,
               !.st = IF call.left > 0 /\ ~Tries!Unreported(e) THEN "sleeping" ELSE "failed"]
    BY <1>6 DEF Tries!Fail
  <2>2. call.st # "idle" /\ tx' = tx
    BY <1>6, <2>1 DEF Tries!Fail, Tries!Thrown
  <2>3. CASE call.left > 0 /\ ~Tries!Unreported(e)
    <3>1. call' = [call EXCEPT !.st = "sleeping", !.error = e]
      BY <2>1, <2>3
    <3> QED BY <1>1, <2>2, <2>3, <3>1, MovedSpent
  <2>4. CASE call.left = 0 \/ Tries!Unreported(e)
    <3>0. ~(call.left > 0 /\ ~Tries!Unreported(e))
      BY <2>4
    <3>1. call' = [call EXCEPT !.st = "failed", !.error = e]
      BY <2>1, <3>0
    <3>2. call.left = 0 \/ e = "primitive" \/ (e = "noData" /\ call.factory)
      BY <2>4 DEF Tries!Unreported
    <3> QED BY <1>1, <2>2, <3>1, <3>2, MovedSpent
  <2> QED BY <1>b, <2>3, <2>4
<1>7. CASE Tries!Wake
  <2>1. call' = [st |-> "calling", left |-> call.left - 1, calls |-> call.calls + 1,
                 factory |-> FALSE, error |-> "none"]
    BY <1>7 DEF Tries!Wake
  <2>2. call.left > 0 /\ call.calls + call.left = attempts + 1
    BY <1>1, <1>7 DEF Tries!Wake, SpentBy
  <2>3. call.left - 1 \in 0 .. attempts /\ call.calls + 1 \in Nat
    BY <1>b, <2>2
  <2>4. call' \in Call
    BY <2>1, <2>3 DEF Call
  <2>5. call'.st = "calling" /\ ~call'.factory /\ call'.calls + call'.left = attempts + 1
    BY <1>b, <2>1, <2>2
  <2>6. SpentBy(call')
    BY <2>5 DEF SpentBy
  <2> QED BY <1>1, <1>7, <2>4, <2>6 DEF Tries!Wake
<1>8. CASE UNCHANGED Tries!vars
  BY <1>1, <1>8 DEF Tries!vars
<1> QED BY <1>2, <1>3, <1>4, <1>5, <1>6, <1>7, <1>8 DEF Tries!Next

LEMMA TriesInvariant ==
    ASSUME attempts \in Nat PROVE Tries!Spec => []TriesInv
  BY TriesInit, TriesStep, PTL DEF Tries!Spec

LEMMA SpentGivesUp ==
    ASSUME attempts \in Nat PROVE TriesInv => Tries!GivesUpInTime
<1> SUFFICES ASSUME TriesInv PROVE Tries!GivesUpInTime
  OBVIOUS
<1>1. call \in Call /\ SpentBy(call)
  BY DEF TriesInv
<1>2. call.left \in 0 .. attempts /\ call.calls \in Nat
  BY <1>1 DEF Call
<1> QED BY <1>1, <1>2 DEF SpentBy, Unreported, Tries!GivesUpInTime

\* A call that is retried makes its first attempt and as many more as asked, unless
\* it succeeds, or an error of which the report throws ends it.
THEOREM GivesUp ==
    ASSUME attempts \in Nat PROVE Tries!Spec => []GivesUpInTime
  BY TriesInvariant, SpentGivesUp, PTL DEF GivesUpInTime

\* The state of a retried call stays well typed.
THEOREM TriesTypeCorrect ==
    ASSUME attempts \in Nat PROVE Tries!Spec => []Tries!TypeOK
<1>1. TriesInv => Tries!TypeOK
  BY DEF TriesInv, Call, Promised, Tries!TypeOK
<1> QED
  BY <1>1, TriesInvariant, PTL
=============================================================================
