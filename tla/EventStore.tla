----------------------------- MODULE EventStore -----------------------------
(***************************************************************************)
(* common-service/db/DataStorageBase.ts, inside saveEvents: how an event   *)
(* gets its block row, its transaction row and its own row.  Each callback *)
(* of Bluebird.map (a saver) goes through the three in turn, each under an *)
(* IdLock; what the other savers and the operator do falls in between.     *)
(*                                                                         *)
(* Two savers may be at work on one event: a loop that a failed run left   *)
(* behind, and the loop of the next run.                                   *)
(*                                                                         *)
(* External: Repository.save selects the row by its primary key, then      *)
(* inserts or updates; PostgreSQL refuses an insert whose key is taken or  *)
(* whose foreign key is missing, and an update of a row that is gone does  *)
(* nothing.                                                                *)
(***************************************************************************)
EXTENDS Integers, FiniteSets

CONSTANTS
    Savers,
    EventOf,        \* EventOf[s]: the event, as the node answered it
    Events,         \* each with its transaction, topic0 and logIndex
    BlockOf,        \* BlockOf[t]: the block of a transaction
    Placeholders,   \* transactions stored beforehand with the genesis block
    Objects, NoObject,
    MaxFailures, MaxDeletes

Transactions == {e.transaction : e \in Events}
Topics == {e.topic0 : e \in Events}
Stages == {"block", "transaction", "event"}

ASSUME StoreAssumption ==
    /\ EventOf \in [Savers -> Events]
    /\ Placeholders \subseteq Transactions
    /\ NoObject \notin Objects
    /\ {MaxFailures, MaxDeletes} \subseteq Nat

BlockRow(t) == <<"block", BlockOf[t]>>
TransactionRow(t) == <<"transaction", t>>
EventRow(t, topic) == <<"event", t, topic>>

EventRows == {EventRow(t, topic) : t \in Transactions, topic \in Topics}
Rows == {BlockRow(t) : t \in Transactions} \cup {TransactionRow(t) : t \in Transactions}
          \cup EventRows

Jobs == Savers \X Stages

\* Deviation of LockId: every saver locks for itself.
LockIdOwn(j) == j

\* What each tryInvoke locks.  The primary key of an event leaves out logIndex,
\* which its lock has.
LockId(j) ==
    LET e == EventOf[j[1]]
    IN  CASE j[2] = "block" -> BlockRow(e.transaction)
          [] j[2] = "transaction" -> TransactionRow(e.transaction)
          [] j[2] = "event" -> <<"event", e>>

VARIABLES
    rows,              \* what is stored under each primary key
    savers,            \* where each saver stands
    spent,             \* failures and deletions so far
    locks, heap, task  \* the IdLock

lockVars == <<locks, heap, task>>
vars == <<rows, savers, spent, lockVars>>

Lock == INSTANCE IdLock WITH
    Tasks <- Jobs, Ids <- {LockId(j) : j \in Jobs},
    IdOf <- [j \in Jobs |-> LockId(j)], Failing <- Jobs

\* ready: about to lock for its stage; queued: awaits the lock; finding: awaits
\* findOneBy; saving, writing: await (the provider and) the two queries of
\* Repository.save
Steps == {"idle", "ready", "queued", "finding", "saving", "writing", "failed", "done"}

TypeOK ==
    /\ rows \in [Rows -> {"none", "genesis", "stored"}]
    /\ savers \in [Savers -> [stage : Stages, step : Steps, found : BOOLEAN]]
    /\ spent \in [failures : 0 .. MaxFailures, deletes : 0 .. MaxDeletes]
    /\ Lock!TypeOK

Init ==
    /\ rows = [r \in Rows |-> IF \E t \in Placeholders : r = TransactionRow(t)
                              THEN "genesis" ELSE "none"]
    /\ savers = [s \in Savers |-> [stage |-> "block", step |-> "idle", found |-> FALSE]]
    /\ spent = [failures |-> 0, deletes |-> 0]
    /\ Lock!Init

-----------------------------------------------------------------------------

TransactionOf(s) == EventOf[s].transaction
Job(s) == <<s, savers[s].stage>>
At(s, step) == savers[s].step = step

RowOf(s) ==
    CASE savers[s].stage = "block" -> BlockRow(TransactionOf(s))
      [] savers[s].stage = "transaction" -> TransactionRow(TransactionOf(s))
      [] savers[s].stage = "event" -> EventRow(TransactionOf(s), EventOf[s].topic0)

\* The row that the saver's row refers to is there.
ParentStored(s) ==
    CASE savers[s].stage = "block" -> TRUE
      [] savers[s].stage = "transaction" -> rows[BlockRow(TransactionOf(s))] # "none"
      [] savers[s].stage = "event" -> rows[TransactionRow(TransactionOf(s))] # "none"

Go(s, step) == savers' = [savers EXCEPT ![s].step = step]

\* The run asks for the event (again): getOrSaveBlock.
Start(s) ==
    /\ savers[s].step \in {"idle", "failed"}
    /\ savers' = [savers EXCEPT ![s] = [stage |-> "block", step |-> "queued", found |-> FALSE]]
    /\ Lock!Acquire(<<s, "block">>)
    /\ UNCHANGED <<rows, spent>>

\* getOrSaveTransaction, saveEvent
Queue(s) ==
    /\ At(s, "ready")
    /\ Go(s, "queued")
    /\ Lock!Acquire(Job(s))
    /\ UNCHANGED <<rows, spent>>

Enter(s) ==
    /\ At(s, "queued")
    /\ Go(s, IF savers[s].stage = "event" THEN "saving" ELSE "finding")
    /\ Lock!Enter(Job(s))
    /\ UNCHANGED <<rows, spent>>

\* The stage is over: the lock is released and the next one begins.
Advance(s) ==
    /\ savers' = [savers EXCEPT ![s] =
         [stage |-> IF @.stage = "block" THEN "transaction" ELSE "event",
          step |-> IF @.stage = "event" THEN "done" ELSE "ready",
          found |-> FALSE]]
    /\ Lock!Return(Job(s))

\* Something threw: the saver is over, and its run with it.
Abort(s) ==
    /\ Go(s, "failed")
    /\ Lock!Throw(Job(s))

\* Deviation of Missing: a placeholder is taken for the transaction.
MissingOnly(s) == rows[RowOf(s)] = "none"

\* findOneBy has no row, or one that was stored with the genesis block.
Missing(s) == rows[RowOf(s)] \in {"none", "genesis"}

Find(s) ==
    /\ At(s, "finding")
    /\ IF Missing(s) THEN Go(s, "saving") /\ UNCHANGED lockVars ELSE Advance(s)
    /\ UNCHANGED <<rows, spent>>

\* getBlockFn or getTransactionByHashFn fails.
FetchFails(s) ==
    /\ At(s, "saving")
    /\ savers[s].stage # "event"
    /\ spent.failures < MaxFailures
    /\ Abort(s)
    /\ spent' = [spent EXCEPT !.failures = @ + 1]
    /\ UNCHANGED rows

\* The provider answers, which depends on nothing here; Repository.save selects.
Select(s) ==
    /\ At(s, "saving")
    /\ savers' = [savers EXCEPT ![s].step = "writing",
                                ![s].found = rows[RowOf(s)] # "none"]
    /\ UNCHANGED <<rows, spent, lockVars>>

Update(s) ==
    /\ savers[s].found
    /\ rows' = [rows EXCEPT ![RowOf(s)] = IF @ = "none" THEN @ ELSE "stored"]
    /\ Advance(s)

Insert(s) ==
    /\ ~savers[s].found
    /\ IF rows[RowOf(s)] = "none" /\ ParentStored(s)
       THEN rows' = [rows EXCEPT ![RowOf(s)] = "stored"] /\ Advance(s)
       ELSE Abort(s) /\ UNCHANGED rows

Write(s) ==
    /\ At(s, "writing")
    /\ Update(s) \/ Insert(s)
    /\ UNCHANGED spent

\* deleteUnlinkedTransactions, after a contract was deleted
DeleteUnlinked ==
    /\ spent.deletes < MaxDeletes
    /\ rows' = [r \in Rows |->
         IF \E t \in Transactions : /\ r = TransactionRow(t)
                                    /\ \A topic \in Topics : rows[EventRow(t, topic)] = "none"
         THEN "none" ELSE rows[r]]
    /\ spent' = [spent EXCEPT !.deletes = @ + 1]
    /\ UNCHANGED <<savers, lockVars>>

Step(s) ==
    \/ Start(s) \/ Queue(s) \/ Enter(s)
    \/ Find(s) \/ FetchFails(s) \/ Select(s) \/ Write(s)

Next == (\E s \in Savers : Step(s)) \/ DeleteUnlinked

\* What failed is asked for again by the next run; the provider and the
\* database answer in the end.
Fairness == \A s \in Savers : WF_vars(Step(s))

Spec == Init /\ [][Next]_vars /\ Fairness

-----------------------------------------------------------------------------
(* Properties *)

\* A stored event has its transaction, as the chain has it, and its block: no
\* event hangs on a placeholder, whatever is deleted or fails meanwhile.
Linked ==
    \A t \in Transactions, topic \in Topics : rows[EventRow(t, topic)] = "stored" =>
        rows[TransactionRow(t)] = "stored" /\ rows[BlockRow(t)] = "stored"

\* While the provider has not failed, no save of a block or of a transaction is
\* refused: the locks keep the savers of one row apart.
NoConflict ==
    [][\A s \in Savers :
         /\ spent.failures = 0
         /\ At(s, "writing")
         /\ savers[s].stage # "event"
         => savers'[s].step # "failed"]_vars

\* The map of locks holds no lock that nobody uses, although failures release
\* twice and a lock may be found again in between: it does not grow for ever.
LocksDropped == Lock!NoLeak

\* Every event is saved in the end, asked for again where it failed: the savers
\* do not wait for one another for ever, also when some throw.
AllSaved == <>[](\A s \in Savers : At(s, "done"))
=============================================================================
