------------------------------ MODULE Indexer ------------------------------
(***************************************************************************)
(* Storing the events of contracts, one network:                           *)
(*   common-service/core/WorkerBase/IndexerWorkerBase.ts   the runs        *)
(*   common-service/db/DataStorageBase.ts                  the database    *)
(*   common-service/handlers/index.ts   contracts.create-item,             *)
(*                                      update-item, delete-item           *)
(*                                                                         *)
(* A run lists the contracts, asks for the block number, filters it (all   *)
(* as in FilteredHead, whose variables and actions these are) and starts   *)
(* one loop (processContract) for each contract.  When a loop       *)
(* throws, Bluebird.map rejects and the run is over, but the other loops   *)
(* go on: the next run may meet them, so that two loops may be at work on  *)
(* one contract.  So do, when the save of one event throws, the saves of   *)
(* the others.  Every await of a loop is a step.                           *)
(*                                                                         *)
(* Every contract list fits in DB_CONTRACT_CONCURRENCY_COUNT, and a range  *)
(* has no more events than DB_EVENT_CONCURRENCY_COUNT.                     *)
(***************************************************************************)
EXTENDS FilteredHead

CONSTANTS
    Contracts, Events,
    ContractOf, BlockOf, \* where each event is on the chain
    KeyOf,               \* its primary key: transactionHash and topic0
    Keys, NoEvent,
    Depth,               \* blocks below the head a node may lack, or replace
    BlockNumberRange, BlockNumberOffset,
    Cursors,             \* the cursors that the operator gives
    Loops,               \* bounds how many loops work on one contract
    MaxFailures, MaxEdits, MaxReboots,
    MaxTrouble           \* bounds failures and edits together

ASSUME IndexerAssumption ==
    /\ ContractOf \in [Events -> Contracts]
    /\ BlockOf \in [Events -> 0 .. Top]
    /\ KeyOf \in [Events -> Keys]
    /\ NoEvent \notin Events
    /\ FilterSize > 1
    /\ {BlockNumberRange, BlockNumberOffset} \subseteq Nat
    /\ {MaxFailures, MaxEdits, MaxReboots, MaxTrouble} \subseteq Nat
    /\ Depth \in 0 .. BlockNumberOffset
    /\ Cursors \subseteq 0 .. Top + 1

VARIABLES
    run,     \* the run of the worker: its contracts and its loops
    loop,    \* the loops of each contract
    rows,    \* the contracts table
    table,   \* the events table: the event under each primary key
    since,   \* from which block on the cursor of each contract vouches for its
             \* events (see Given); only the properties read it
    spent    \* what has gone wrong or been edited so far

vars == <<feedVars, run, loop, rows, table, since, spent>>

\* The row of a contract, or of its address while it has none.  A row that is
\* created gets an id of its own.
Row == [exists : BOOLEAN, id : 0 .. MaxEdits, disable : BOOLEAN,
        syncBlockNumber : 0 .. Top + 1]

\* looking: awaits getContractByAddress; fetching: awaits getEvents; opening:
\* saveEvents awaits the contract it will save; saving: events are saved;
\* leaving: it has thrown, and the events that are left are saved all the same
LoopStates == {"none", "looking", "fetching", "opening", "saving", "leaving"}
Blocks == 0 .. Top
Loop == [st : LoopStates, current : Blocks, from : Blocks, to : Blocks,
         todo : SUBSET Events, contract : Row]

NewRow(id, cursor) ==
    [exists |-> TRUE, id |-> id, disable |-> FALSE, syncBlockNumber |-> cursor]
NoLoop == [st |-> "none", current |-> 0, from |-> 0, to |-> 0, todo |-> {},
           contract |-> NewRow(0, 0)]
Looking(current) == [NoLoop EXCEPT !.st = "looking", !.current = current]
Leaving(l, es) ==
    IF es = {} THEN NoLoop
    ELSE [NoLoop EXCEPT !.st = "leaving", !.todo = es, !.contract = l.contract]
NoRun == [st |-> "none", contracts |-> {}, loops |-> {}]

TypeOK ==
    /\ FeedTypeOK
    /\ run \in [st : {"none", "numbering", "mapping"}, contracts : SUBSET Contracts,
                loops : SUBSET (Contracts \X Loops)]
    /\ loop \in [Contracts \X Loops -> Loop]
    /\ rows \in [Contracts -> Row]
    /\ table \in [Keys -> Events \cup {NoEvent}]
    /\ since \in [Contracts -> 0 .. Top + 1]
    /\ spent \in [failures : 0 .. MaxFailures, edits : 0 .. MaxEdits,
                  reboots : 0 .. MaxReboots]

Init ==
    /\ FeedInit
    /\ run = NoRun
    /\ loop = [p \in Contracts \X Loops |-> NoLoop]
    /\ rows = [c \in Contracts |-> NewRow(0, 0)]
    /\ table = [k \in Keys |-> NoEvent]
    /\ since = [c \in Contracts |-> 0]
    /\ spent = [failures |-> 0, edits |-> 0, reboots |-> 0]

-----------------------------------------------------------------------------
(* The run *)

\* Deviation of Begin: a run does not wait for the one before it.
BeginAnyway ==
    /\ run' = [NoRun EXCEPT !.st = "numbering",
                 !.contracts = {c \in Contracts : rows[c].exists /\ ~rows[c].disable}]
    /\ UNCHANGED <<feedVars, loop, rows, table, since, spent>>

\* execute, and getContracts({network})
Begin ==
    /\ run.st = "none"
    /\ run' = [NoRun EXCEPT !.st = "numbering",
                 !.contracts = {c \in Contracts : rows[c].exists /\ ~rows[c].disable}]
    /\ UNCHANGED <<feedVars, loop, rows, table, since, spent>>

\* Deviation of CurrentBlock: the offset is left out.
CurrentBlockHead(v) == v

CurrentBlock(v) == v - BlockNumberOffset

\* The loops of the run are free: g[c] is to work on c.
Started(g) == \A c \in run.contracts : loop[c, g[c]].st = "none"

\* getBlockNumber has answered: what does not pass the filter ends the run.  With
\* fewer blocks than the offset every loop would end where it begins.
Numbered ==
    /\ IF filter'.status = "success" /\ CurrentBlock(last') >= 0
       THEN \E g \in [run.contracts -> Loops] :
              LET ps == {<<c, g[c]>> : c \in run.contracts}
              IN  /\ Started(g)
                  /\ run' = [run EXCEPT !.st = "mapping", !.loops = ps]
                  /\ loop' = [p \in Contracts \X Loops |->
                                IF p \in ps THEN Looking(CurrentBlock(last')) ELSE loop[p]]
       ELSE run' = NoRun /\ UNCHANGED loop
    /\ UNCHANGED <<rows, table, since, spent>>

NumberTrue == run.st = "numbering" /\ Answer /\ Numbered

NumberSpurious == run.st = "numbering" /\ Err /\ Numbered

\* All loops of the run are over.
Done ==
    /\ run.st = "mapping"
    /\ \A p \in run.loops : loop[p].st = "none"
    /\ run' = NoRun
    /\ UNCHANGED <<feedVars, loop, rows, table, since, spent>>

-----------------------------------------------------------------------------
(* processContract *)

\* Deviation of Look: the last block of the range is taken for done.
LookShort(p) ==
    LET r == rows[p[1]]
        l == loop[p]
    IN  /\ l.st = "looking"
        /\ loop' = [loop EXCEPT ![p] =
             IF ~r.exists \/ r.syncBlockNumber >= l.current THEN NoLoop
             ELSE [l EXCEPT !.st = "fetching", !.from = r.syncBlockNumber,
                            !.to = IF r.syncBlockNumber + BlockNumberRange > l.current
                                   THEN l.current
                                   ELSE r.syncBlockNumber + BlockNumberRange]]
        /\ UNCHANGED <<feedVars, run, rows, table, since, spent>>

\* getContractByAddress answers: the loop ends or asks for the next range.
Look(p) ==
    LET r == rows[p[1]]
        l == loop[p]
    IN  /\ l.st = "looking"
        /\ loop' = [loop EXCEPT ![p] =
             IF ~r.exists \/ r.syncBlockNumber > l.current THEN NoLoop
             ELSE [l EXCEPT !.st = "fetching",
                            !.from = r.syncBlockNumber,
                            !.to = IF r.syncBlockNumber + BlockNumberRange > l.current
                                   THEN l.current
                                   ELSE r.syncBlockNumber + BlockNumberRange]]
        /\ UNCHANGED <<feedVars, run, rows, table, since, spent>>

\* The events of a range that a node may answer: all it has for certain, and
\* any of those near the head.
Answers(c, from, to) ==
    LET there == {e \in Events : /\ ContractOf[e] = c
                                 /\ BlockOf[e] \in from .. to
                                 /\ BlockOf[e] <= head}
    IN  {{e \in there : BlockOf[e] <= head - Depth} \cup S : S \in SUBSET there}

\* getEvents answers.
Fetch(p) ==
    /\ loop[p].st = "fetching"
    /\ \E es \in Answers(p[1], loop[p].from, loop[p].to) :
         loop' = [loop EXCEPT ![p].st = "opening", ![p].todo = es]
    /\ UNCHANGED <<feedVars, run, rows, table, since, spent>>

\* saveEvents reads the contract that it will save; without it, it returns.
Open(p) ==
    LET r == rows[p[1]]
        l == loop[p]
    IN  /\ l.st = "opening"
        /\ loop' = [loop EXCEPT ![p] =
             IF r.exists THEN [l EXCEPT !.st = "saving", !.contract = r]
             ELSE Looking(l.current)]
        /\ UNCHANGED <<feedVars, run, rows, table, since, spent>>

Saving(l) == l.st \in {"saving", "leaving"}

\* A loop throws, or the save of one of its events does: the saves of the others go
\* on.  The run ends with its first loop that throws; what a loop of an earlier
\* run, or another save, throws is heard by nobody.
Throws(p) ==
    LET l == loop[p]
    IN  /\ \/ /\ ~Saving(l) \/ l.todo = {}
              /\ loop' = [loop EXCEPT ![p] = NoLoop]
           \/ /\ Saving(l)
              /\ \E e \in l.todo : loop' = [loop EXCEPT ![p] = Leaving(l, l.todo \ {e})]
        /\ run' = IF p \in run.loops THEN NoRun ELSE run

\* The row that saveEvents read is still there.
Current(p) == rows[p[1]].exists /\ rows[p[1]].id = loop[p].contract.id

\* saveEvent: the row is found by its primary key, and the event put there.
SaveEvent(p) ==
    LET l == loop[p]
    IN  /\ Saving(l)
        /\ Current(p)
        /\ \E e \in l.todo :
             /\ table' = [table EXCEPT ![KeyOf[e]] = e]
             /\ loop' = [loop EXCEPT ![p] = IF l.st = "leaving" THEN Leaving(l, l.todo \ {e})
                                            ELSE [l EXCEPT !.todo = @ \ {e}]]
        /\ UNCHANGED <<feedVars, run, rows, since, spent>>

\* The event would refer to a contract that is gone: the database refuses it.
SaveRefused(p) ==
    /\ Saving(loop[p])
    /\ loop[p].todo # {}
    /\ ~Current(p)
    /\ Throws(p)
    /\ UNCHANGED <<feedVars, rows, table, since, spent>>

\* Deviation of Saved: the cursor is taken for the last block that is done.
SavedNext(r, to) == [r EXCEPT !.syncBlockNumber = to + 2]

\* The contract that was read is saved whole, under its id: a row that is gone
\* by then comes back, and a change made since is lost.
Saved(r, to) == [r EXCEPT !.syncBlockNumber = to + 1]

\* Deviation of Commit: it does not wait for the events.
CommitEarly(p) ==
    LET l == loop[p]
    IN  /\ l.st = "saving"
        /\ rows[p[1]].exists => Current(p)
        /\ rows' = [rows EXCEPT ![p[1]] = Saved(l.contract, l.to)]
        /\ loop' = [loop EXCEPT ![p] = Looking(l.current)]
        /\ UNCHANGED <<feedVars, run, table, since, spent>>

\* All events are saved: the cursor moves.
Commit(p) ==
    LET l == loop[p]
    IN  /\ l.st = "saving"
        /\ l.todo = {}
        /\ rows[p[1]].exists => Current(p)
        /\ rows' = [rows EXCEPT ![p[1]] = Saved(l.contract, l.to)]
        /\ loop' = [loop EXCEPT ![p] = Looking(l.current)]
        /\ UNCHANGED <<feedVars, run, table, since, spent>>

\* The contract was created again meanwhile: one address has one row only.
CommitRefused(p) ==
    /\ loop[p].st = "saving"
    /\ loop[p].todo = {}
    /\ rows[p[1]].exists
    /\ ~Current(p)
    /\ Throws(p)
    /\ UNCHANGED <<feedVars, rows, table, since, spent>>

Step(p) ==
    \/ Look(p) \/ Fetch(p) \/ Open(p)
    \/ SaveEvent(p) \/ SaveRefused(p) \/ Commit(p) \/ CommitRefused(p)

Bearable == spent.failures + spent.edits < MaxTrouble

\* The provider or the database fails, or refuses the second of two inserts of one
\* primary key.
FailLoop(p) ==
    /\ spent.failures < MaxFailures /\ Bearable
    /\ loop[p].st # "none"
    /\ Throws(p)
    /\ spent' = [spent EXCEPT !.failures = @ + 1]
    /\ UNCHANGED <<feedVars, rows, table, since>>

\* getContracts or getBlockNumber fails.
FailRun ==
    /\ spent.failures < MaxFailures /\ Bearable
    /\ run.st = "numbering"
    /\ run' = NoRun
    /\ spent' = [spent EXCEPT !.failures = @ + 1]
    /\ UNCHANGED <<feedVars, loop, rows, table, since>>

-----------------------------------------------------------------------------
(* The chain, the operator and the process *)

Extend == Grow /\ UNCHANGED <<run, loop, rows, table, since, spent>>

\* No loop of c is between reading the cursor and moving it.
AtRest(c) == \A g \in Loops : loop[c, g].st \in {"none", "looking", "leaving"}

\* The operator gives c the cursor b, and has it vouch from b on.  But a loop that is
\* at work will overwrite the cursor: one that was to go back is lost then, and the
\* cursor vouches from no earlier block than before.
Given(c, b) ==
    since' = [since EXCEPT ![c] = IF AtRest(c) \/ b > @ THEN b ELSE @]

\* contracts.update-item: disable, or a cursor to start again from
Update(c) ==
    /\ rows[c].exists
    /\ \/ /\ rows' = [rows EXCEPT ![c].disable = ~@]
          /\ UNCHANGED since
       \/ \E b \in Cursors :
            /\ rows' = [rows EXCEPT ![c].syncBlockNumber = b]
            /\ Given(c, b)

\* contracts.delete-item: the events refer to their contract, so that it goes
\* only while it has none.
Delete(c) ==
    /\ rows[c].exists
    /\ \A k \in Keys : table[k] # NoEvent => ContractOf[table[k]] # c
    /\ rows' = [rows EXCEPT ![c].exists = FALSE]
    /\ UNCHANGED since

\* contracts.create-item: refused while the address has a row.
Create(c) ==
    /\ ~rows[c].exists
    /\ \E b \in Cursors :
         /\ rows' = [rows EXCEPT ![c] = NewRow(spent.edits + 1, b)]
         /\ Given(c, b)

Edit(c) ==
    /\ spent.edits < MaxEdits /\ Bearable
    /\ Update(c) \/ Delete(c) \/ Create(c)
    /\ spent' = [spent EXCEPT !.edits = @ + 1]
    /\ UNCHANGED <<feedVars, run, loop, table>>

\* The process exits and starts again: the database is what is left.
Reboot ==
    /\ spent.reboots < MaxReboots
    /\ filter' = NewFilter
    /\ last' = NaN
    /\ run' = NoRun
    /\ loop' = [p \in Contracts \X Loops |-> NoLoop]
    /\ spent' = [spent EXCEPT !.reboots = @ + 1]
    /\ UNCHANGED <<head, bogus, rows, table, since>>

Next ==
    \/ Begin \/ NumberTrue \/ NumberSpurious \/ Done \/ FailRun \/ Extend \/ Reboot
    \/ \E p \in Contracts \X Loops : Step(p) \/ FailLoop(p)
    \/ \E c \in Contracts : Edit(c)

\* The worker is executed again and again, the provider and the database
\* answer in the end.
Fairness ==
    /\ WF_vars(Begin) /\ WF_vars(NumberTrue) /\ WF_vars(Done)
    /\ \A p \in Contracts \X Loops : WF_vars(Step(p))

Spec == Init /\ [][Next]_vars /\ Fairness

-----------------------------------------------------------------------------
(* Properties *)

Stored(e) == table[KeyOf[e]] = e

\* Another event of the transaction and the topic has been saved in its place.
Overwritten(e) == \E f \in Events \ {e} : KeyOf[f] = KeyOf[e] /\ table[KeyOf[e]] = f

\* Below the cursor of its contract no event is missing, other than one that another
\* event of its primary key has overwritten, from the block on that the cursor
\* vouches for: where the operator last made it start, unless it was made to go
\* back under a loop at work, for that is lost.  Whatever fails, overlaps, is
\* edited, deleted and created again, or restarts between the steps.
NothingSkipped ==
    \A e \in Events :
      LET c == ContractOf[e]
      IN  BlockOf[e] \in since[c] .. rows[c].syncBlockNumber - 1 => Stored(e) \/ Overwritten(e)

\* A cursor vouches for no block that the chain may still replace, also when the
\* provider's block numbers are spurious.
CursorFinal ==
    \A c \in Contracts :
      rows[c].syncBlockNumber <= since[c] \/ rows[c].syncBlockNumber - 1 <= head - Depth

Log == INSTANCE EventLog WITH
    log <- {k \in Keys : table[k] # NoEvent},
    cursor <- [c \in Contracts |-> rows[c].syncBlockNumber]

\* Whoever reads the tables sees an EventLog: whatever runs, fails, overlaps and
\* restarts, entries stay, and a cursor moves only by the operator's hand or to a
\* block below which, as far as it vouches, all is entered and final.
ImplementsEventLog == Log!Spec

\* While no call has failed and nobody has edited, a cursor only moves forward:
\* runs do not overlap, reboots included.
CursorForward ==
    [][spent'.failures = 0 /\ spent'.edits = 0 =>
         \A c \in Contracts : rows'[c].syncBlockNumber >= rows[c].syncBlockNumber]_vars

\* Every event that is deep enough is stored in the end (or overwritten by another of
\* its primary key), after whatever failed, provided that block numbers stop
\* being spurious.
EventuallyStored ==
    <>[](bogus = 0) =>
      \A e \in Events :
        BlockOf[e] <= head - BlockNumberOffset ~> Stored(e) \/ Overwritten(e)
=============================================================================
