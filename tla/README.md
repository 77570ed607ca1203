# Verification of sqr-signature-service

This directory keeps TLA+ models of the service beside its code, the TLC
configurations that check them and TLAPS proofs about them. Paths below are
those of the repository.

## 1. The system

The service answers HTTP requests of users of two contracts (a payment gateway
and a pro-rata sale) with signatures that the contracts accept as permission to
deposit. It runs in one Node.js process: nothing runs in parallel, but every
`await` is a point where other requests, timers and answers come in between.
Around that core the repository carries a template of a blockchain service:
workers, an indexer with its database, a blocker that waits for shares of a
key, and utilities.

| Component | State it keeps | Operations | Talks to |
|---|---|---|---|
| deposit-signature handlers, `src/handlers/web3.handler.ts` | what each request has read so far | deposit-signature (gateway, pro-rata, instant), nonce reads, `network.tx`, babt, balance | cache, contracts, statistics |
| CacheMachine, `src/common-service/utils/CacheMachine.ts` | map of entries, armed timers | `call` | provider, contracts |
| Workers and sync engine, `src/common-service/core`, `src/core`, `.../utils/services.ts` | `executing`, counts, `tickId`, statistics, sockets | `execute`, `start`, `sync`, hard and soft reset, `changeStats`, `bootstrapService`, `reboot` | schedule, provider messages, broker |
| Lock and IdLock, `src/common/utils/Lock.ts` | queue of a lock, map of locks | `acquire`, `release`, `tryInvoke` | data storage |
| Block number filter, `src/common-service/core/BlockNumberFilter.ts` | last numbers, status | `analyze` | indexer |
| Indexer worker, `.../WorkerBase/IndexerWorkerBase.ts` | its run and loops | `work` | provider, data storage |
| Data storage, `src/common-service/db/DataStorageBase.ts` | tables of contracts, blocks, transactions, events | `saveEvents`, get-or-save, contract edits | PostgreSQL |
| JSON-RPC provider, `src/common-service/providers` | a socket | RPC calls, `subscribe` | nodes |
| Security blocker, `src/common-service/core/SecurityBlocker.ts` | shares, status | `setShare`, `stop` | services |
| Asynchronous utilities, `src/common/utils` | attempts, timers | `waitUntil`, `waitTx`, `attempt`, `retry` | any promise |
| Configuration, routing, generated bindings | none that changes | | |

This deployment constructs the handlers, the cache, one sync engine for the
network `bsc` and its MonitoringWorker. Indexer, data storage and security
blocker are library code that no file constructs here (the routes `security.*`
call `services.securityBlocker`, which nothing assigns); they are modelled
because they hold the hardest behaviour of the repository.

What makes each part correct, and hard:

* **Handlers.** A request fixes its nonce and its limits from three answers
  that come at different times, one of them from a cache. Correct: the nonce
  was true while the request was under way; once the response's `dateLimit` has
  passed, the chain is past the `timestampLimit` that was signed; decimals are
  those of the contract; each request ends in one answer and is counted once.
* **Cache.** Overlapping misses, answers stored out of order, timers of an
  earlier fill that delete a later entry. Correct: no entry outlives its
  time-out, an overtaken answer does not stay, settings without time-out are
  never lost, every call settles.
* **Engine.** Ticks, resets and messages call `execute` and do not wait.
  A start waits for sockets that may hang, err or be closed, and the process
  may exit. Correct: a worker never overlaps itself, none runs before it has
  started, one that hangs does not starve the others, the statistics stay
  exact, a start ends unless a socket hangs for ever or the process breaks for
  ever.
* **IdLock.** Throws, hand-over of a lock, deletion of its map entry. Correct:
  first-in first-out mutual exclusion for each id, no waiter lost, no leak.
* **Data storage.** Savers of one block, transaction or event look for a row
  and insert it, while placeholders are replaced and unlinked transactions
  deleted. Correct: what is stored has what it refers to, inserts of one row
  do not meet, everything is saved in the end.
* **Security blocker.** A stop may overtake a start that is awaited. Correct:
  the service runs only by the key or by a full set of right shares, and never
  claims to run when it does not.
* **Utilities.** A predicate is polled twice over while a time-out and answers
  race; a call that throws is made again. Correct: a call settles, no poll
  outlives it, no attempt too many is made, and the last is not left out unless
  the report of an error throws.
* **Filter and indexer.** Wrong or lagging nodes, failures that leave loops of
  an earlier run behind, edits, deletions, re-creations and reboots in the
  middle of a range. Correct: as far as a cursor vouches, no event below it is
  missing that no other has overwritten, no cursor passes a block that may be
  replaced, every final event is stored in the end.

`PROJECT.json` lists the hazards at their lines and the properties on them.

## 2. Modules

| Module | Models |
|---|---|
| `CacheMachine` | `CacheMachine.call`, its timers, the sources behind the keys |
| `BoundedCache` | what a cache promises its callers: answers of a bounded age, or new ones (abstract) |
| `SignatureService` | the handlers, composed with `CacheMachine` by INSTANCE, the chain, the statistics |
| `TransactionLookup` | `network.tx` with `decodeFunctionParams` and `fetchAbi`, composed with `CacheMachine` |
| `SyncEngine` | `bootstrapService`, `WorkerBase`, `SyncEngineBase`, `MultiSyncEngine`, `Services.start`, `App`, `subscribe`, `MonitoringWorker` |
| `LockObject`, `IdLock` | the operations on one `Lock`, and `IdLock` over a heap of them |
| `FifoMutex` | what an id of `IdLock` promises: one first-in first-out line (abstract) |
| `BlockNumberFilter` | `analyze` and `History` as operators |
| `FilteredHead` | the filter fed by a provider |
| `Indexer` | `IndexerWorkerBase.work`, `saveEvents`, contracts created, edited and deleted, reboots; extends `FilteredHead`, whose variables and actions are its block number |
| `EventLog` | what an indexer promises to whoever reads its tables: entries that stay, and cursors that vouch for them (abstract) |
| `EventStore` | `getOrSaveBlock`, `getOrSaveTransaction`, `saveEvent`, `deleteUnlinkedTransactions` with their tables, composed with `IdLock` |
| `SecurityBlocker` | `SecurityBlocker` and the start and stop of `Services` behind it |
| `WaitUntil` | one call of `waitUntil` with its two polls and its time-out |
| `Attempts` | one call of `waitTx` with `txAttempt`, whose loop `attempt` and `retry` repeat |
| `AsyncUtils` | these two side by side, with their properties |
| `*_proofs` | theorems about the module of that name; `AsyncUtils_proofs` is about what `MC_AsyncUtils` runs (`IdLock`, `WaitUntil` and `Attempts`), `Indexer_proofs` about `FilteredHead` as well; `SignatureService_proofs` and `TransactionLookup_proofs` take from `CacheMachine_proofs` what holds of the cache they share |
| `MC_*` | small instances for TLC; `MC_AsyncUtils` runs `IdLock`, `WaitUntil` and `Attempts`, which share no state, one at a time |

State and actions follow the code: a step is what happens between two awaits.
Where the event loop runs microtasks before it looks at the next callback, the
guard `Quiet` says so (`SignatureService`, `SyncEngine`, `TransactionLookup`).

* `CacheMachine`: `map` is the Map; `calls` are the calls under way (`keyed`
  before the look-up, `asked`, `answered`, `done` or `failed`); `timers` counts
  the armed timers by the ticks that are left. Time is relative, so that the
  state space is finite without a bound on the clock. An entry stores its age,
  which the code does not: it is what the properties compare.
* `SignatureService`: `requests` records for each handler its state and what it
  read; a request is a deposit, an instant deposit or a read (nonce, account
  owns token, erc20 balance); `source[BLOCK_KEY]` is the timestamp of the head
  block. All key time-outs are in ticks of one unit. The code passes `CACHE_TIME_OUT` (30) and
  `ABI_CACHE_TIME_OUT` to a function that takes milliseconds: the cached block
  lives 30 ms, not 30 s. The model takes the time-out as a constant and
  `DateLimitCovers` holds for each value of it, as the proof shows, so that
  neither reading is relied on. The instant handler signs the largest uint32 as
  its limit and a nonce of 0, and computes `dateLimit` after signing: it
  bounds nothing, and the property on limits is about the other two.
* `SyncEngine`: `executing` is the flag of the code, `running` the calls of
  `work` that are really under way; `OneRun` relates them. `tickId` counts modulo
  `Period`, a multiple of all dividers, and the counters modulo `Wrap`. `socket`
  is that of a worker's provider: opening until `subscribe` resolves, which it
  never does when the socket does not open. An error of a socket, or a message
  that does not parse, is an uncaught exception: it ends the process (`Break`)
  until `bootstrapService` has registered its handler, and is counted after.
  The model ends the socket then (`Close`) and connects no other, as the code.
  `broker` is the broker and with it the routes; when it fails to start, the
  schedule goes on (`BrokerStart`). The process may exit and be started again as often
  as it likes.
* `IdLock`: `locks` is the Map from ids to objects of `heap`; a task whose `fn`
  throws releases in `catch` and again in `finally`, as written.
* `Indexer`: `loop[c, g]` is one call of `processContract`; a contract may have
  several, of different runs. The row that `saveEvents` read is kept in the
  loop, for `Repository.save` writes it back whole. Events are stored under
  their primary key (transactionHash, topic0): two events with one key
  overwrite one another, in the model as in the code; `Stored` asks for the event
  itself and `Overwritten` for another in its place. When the save of one event
  throws, the loop is over and `Bluebird.map` lets the other saves go on: the loop
  is `leaving` until they are through.
  A row of the contracts table has an id and an address, and the address is
  unique: `Create` after `Delete` gives a new id, so that a loop at work on the
  old row meets the foreign key of its events (`SaveRefused`) or the unique index
  (`CommitRefused`). `since[c]` is history: the
  block from which on the cursor of the contract vouches for its events, which
  is where the operator last made it start. When he sets it back while a loop is at
  work, the loop may overwrite what he set, and `since` stays where it was: such an
  edit is lost, and no property claims otherwise. The code keeps nothing of the kind; only the properties read it.
* `EventStore`: a saver is one callback of `Bluebird.map` in `saveEvents`; it
  goes through the stages block, transaction, event, each a `tryInvoke`. `rows`
  holds what is stored under each primary key; a placeholder is a transaction
  that hangs on the genesis block. `Repository.save` is two queries, a select
  and an insert or update, with a step between them.
* `SecurityBlocker`: `epoch` counts the stops and `sent` the shares since the
  last one, so that properties can tell a start by new shares from one that a
  stop overtook; the code has neither.
* `TransactionLookup`: the source of an ABI key is 0 while the explorer refuses
  (with status 200, so that the refusal is cached) and 1 when it has the ABI. A
  transaction is the contract it was sent to and whether its ABI can decode the
  input: that of a proxy knows the selector of no call, and a plain transfer has none.
* `WaitUntil`: the timers of the polls have one interval, so that they fire in
  the order in which they were armed; `live` says that the variable `timer`
  holds one of them, the youngest, which is all that `clearTimers` can clear.
  `truth` is what the predicate would answer. A predicate that throws before its
  first await (`CallThrows`) is caught before the timers are armed.
* `Attempts`: `tx` is the promise that `waitTx` is handed: each attempt awaits
  the same one. `left` is the parameter `attempts` of `txAttempt`. What is thrown is
  an object whose data can be reported, one whose data is null, or no object
  (`Errors`): the catch block looks into it before it waits, and may throw there
  (`Unreported`).

Definitions named "Deviation of X" are no part of the models. Each is X with a
plausible mistake, kept to show that the properties notice it.

## 3. Runs

| Run | Instance | Shows |
|---|---|---|
| `cache` | two calls, a key with time-out and one without, two versions | `EntryAgeBounded`: no entry outlives its time-out; `MissFresh`: a call that asks returns nothing older than its start; `SettingsKept`; `Converges`: an overtaken answer goes; `ImplementsBoundedCache` |
| `limits` | two deposits, moving clocks | `DateLimitCovers` with the clocks as far apart as `INDEXER_OFFSET` allows |
| `requests` | a deposit, an instant deposit on another contract, a read; a deposit landing, failures, a reset | `NonceFresh`, `StatsCount`, `OwnDecimals`, `RequestSettles`, also with nonces too large to encode |
| `lookup` | two clients, one contract, transactions that its ABI can decode and one that it cannot, two failures | `ParametersKnown`: parameters only by the ABI of the transaction's own contract, never by a cached refusal; `AnsweredUnlessMissing`: only what the provider lacks costs an answer; `AbiHeals`: a cached refusal goes, and what can be decoded is |
| `engine` | dividers 1, 2, 3; two sockets that hang, err or are closed; messages; throws; a failed start, a failed broker; exits without bound | `OneRun`, `LaunchedFirst`, `Counted`, `MonitorCurrent`; `Served`: a worker that settles keeps being run; `ComesUp`: a start ends, unless a socket never opens or one start after the other breaks |
| `async` | four tasks on two ids, the one that is alone on its id throws; a `waitUntil` with or without time-out, its predicate turning, hanging or throwing, at once as well; a `waitTx` of three retries, with three kinds of errors | `MutualExclusion`, `ImplementsFifoMutex`; `PollsBounded`: never more than two polls; `WaitTimesOut`; `PollsEnd`: no poll goes on once the predicate stays true; `GivesUpInTime`: no attempt too many, and none too few but by a report that throws |
| `idlock_exclusion` | a task that shares its id throws | **violated**: see the finding below |
| `events` | three savers, two of them on one event and all on one transaction, a placeholder, a provider failure, a deletion | `Linked`, `NoConflict` while nothing failed, `LocksDropped`, `AllSaved` |
| `security` | three right shares of which two are enough, a wrong one, two stops | `KeyNeeded`, `StatusTrue`, `StartedOnce` |
| `filter` | four numbers, lag 1, two spurious numbers that follow one another, stalls and leaps | `AcceptedIsReal`, `Recovers` |
| `indexer` | two contracts, two loops each, four blocks, two events of one primary key; a failure and an edit, two failures or two edits, so that a contract is deleted and created again under a loop | `NothingSkipped` and `CursorFinal` with overlapping loops, and saves that go on after their loop threw; `ImplementsEventLog`, edits of the cursor included |
| `indexer_live` | two contracts, a failure, a reboot | `EventuallyStored`; `CursorForward` as long as nothing failed |

Every module with a state of its own has a type invariant `TypeOK`, which TLAPS
proves (the run `indexer` checks that of `Indexer` as well).

**Finding.** `IdLock.tryInvoke` releases twice when `fn` throws (`Lock.ts:89`
and `:93`). With two tasks queued, the first release hands the lock to one and
the second to the other, and both run `fn` together; with one queued, the lock
is open while its new owner runs. `Lock.spec.ts:75` states that the tasks of a
lock end one after the other. `Lock.tryInvoke` has the same two releases.
What the double release costs the data storage is seen in `events`: rows stay
linked, locks are dropped and everything is saved, but once something failed
two inserts may meet and one of them be refused, to be asked for again. So
`NoConflict` speaks of the time before the first failure.

**Observations** made while modelling, about which no text of the repository
says otherwise:

* The cursor that an operator sets (`contracts.update-item`) while a loop of the
  contract is between its look and `saveEvents` is overwritten by that loop, and
  what was to be read again is not. The properties of `Indexer` hold relative
  to what was asked for and not lost in this way (`since`).
* Of two events of a transaction with one topic0 the one saved first is lost
  (`Event.ts:30`), which `NothingSkipped` has to except (`Overwritten`).
* The catch block of `txAttempt` may throw: `'data' in e` when what was thrown is
  no object, and `getError(e.data)` when a `contractFactory` is given and the data
  are null, as ethers has it of a transaction that was mined and reverted. The
  call then ends with attempts left and another error than the one it met.
  The factory is not handed on, so that the second happens in the first attempt only.
* A `waitUntil` whose predicate throws before its first await rejects and then arms
  its poll and its time-out, which nothing clears: the predicate is asked again.
* `network.tx` tells no parameters of an input that the ABI cannot decode,
  also when the ABI is there.
* Two requests of one account sign the same nonce until a deposit lands.
* Nothing connects a closed socket again: its worker lives on by ticks alone.
  A socket that never opens keeps the service starting for ever, and so do sockets
  that err in one start after the other, each error ending the process before the
  handler of uncaught exceptions is registered: hence the premises of `ComesUp`.
* When `broker.start()` rejects, the schedule stays and the workers go on.
* A `waitUntil` that timed out leaves one poll armed, and that goes on for as
  long as the predicate stays false.
* `attempt`, `txAttempt` and `retry` call at most one time more than the number
  they are given says (`attempts`, `maxAttempts`). `waitTx` awaits one promise:
  a transaction that was refused fails in every attempt, at once.
* `getContractByAddress`, the lock of a block and the primary key of a block do
  not name the network, which is harmless while `deployNetworks` has one.
* `network.tx` reads the block by number after the receipt: between the two
  the chain may be reorganised.

**Bounds.** Handlers meet only through the cache and the statistics, and each
property relates one request to another, to a deposit or to a timer: two
requests with the block and one of each kind otherwise make all of the races.
`RoomFor` keeps a call waiting when more timers would be due together than
`MaxArmed`; a timer more of one tick deletes nothing that the first has not. Two
overlapping calls of one key make the out-of-order fills, a third would repeat
one of them. One contract is enough for `lookup` to see a refusal cached, shared
and gone; that the entry of another contract is never taken is proved for any
contracts (`ParametersAlways`). Four tasks give a lock an owner, two waiters and a task elsewhere.
A divider of 2 and one of 3 make a worker miss a turn and two turns coincide.
The filter's window of 4 (5 in the code) leaves room for spurious numbers
on both sides of a true one. Two loops on one contract are what a failure
leaves, and two savers on one event. Two shares of three, with a wrong and a
repeated one, make every order of a set that is right, wrong or too large.
Cursors are edited to either end of the chain (`Cursors`); `MaxTrouble` bounds
failures and edits together, two of them being what one loop can meet between
its look and its commit. How often the process exits is not
bounded: an exit leaves nothing behind that would count. Two workers with sockets
let one be closed, or end the process, while the other is opening. Three retries have a first, an inner and a last.
Counters that would grow without bound are capped by the constants named
`Max...` and `Top`, or counted modulo `Period` and `Wrap`.

Deadlock is checked except where the system may stop: the requests of
`SignatureService` are finite and its clock bounded, the tasks of `IdLock`
may all be inside or over, calls of the utilities end, a start that failed leaves `SyncEngine` with nothing to do,
`EventStore` stops when all is saved, and shares, stops, failures, edits and
versions are bounded.

**Fairness.** Timers fire, resolved promises are resumed and the schedule ticks:
the event loop guarantees it. `TransactionLookup` uses strong fairness where a
timer or a socket is disabled again and again by microtasks of other requests:
the event loop comes back to both. That a call to the provider or the database
settles is assumed where a property needs it: axios requests and queries settle
by an answer or an error. `SyncEngine` does not assume it: `Served` asks of a
worker only that its own work settles again and again, for no timeout bounds
it. Of a start it assumes that what is awaited settles but for sockets: `ComesUp`
has as premises that none stays opening for ever, and that the process breaks only
finitely often. Where failures are bounded by a constant (`Max...`), a
liveness property speaks of what happens once they have stopped. `WaitUntil` assumes that its timers fire and not
that its predicate answers; `PollsEnd` has that as a premise. `Recovers` and `EventuallyStored` require that the provider is wrong only
finitely often; and `Recovers` that its nodes agree, because block numbers that
go up and down keep the filter preparing.

## 4. Proofs

For every value of the constants that the named assumptions admit:

* `CacheMachine_proofs` is about the cache in the hands of a service: in
  `InService` several calls begin in one step, at any state of the service, and
  the owner of a source advances it as he likes; calls, timers and the map change
  only as `CacheMachine` lets them. The runs' `Spec` is such a behaviour
  (`Served`), and so are both services below. `TypeCorrect`; `AgeBound`
  (`EntryAgeBounded`), by the invariant `TimerCovers`: an entry of age a has a
  timer with at most Deadline - a ticks left. Timers of other fills may end an
  entry earlier, never later. `Own`: the key's own source has been at whatever is
  held and returned. `Kept` (`SettingsKept`), as nothing is armed
  for a key without time-out (`NoTimer`). `Fresh` (`MissFresh`), as a call has
  read its source no earlier than it was made (`ReadSince`). `Refinement`: all
  of these together make every behaviour of the cache one of `BoundedCache`,
  which has no timers and in which a call under way has read nothing yet,
  fairness aside. A tick finds no entry that would get too old (`TickAges`, from
  `TimerCovers`), a timer drops only what has a time-out (`ExpireDrops`), an
  answer lies between what the source was at when the call was made and what it is
  at (`ResolveAsks`), and a look-up that misses is seen by nobody
  (`AskingUnseen`). `CacheAssumption` asks for no bound on versions or timers:
  `MaxVersion` and `MaxArmed` serve TLC alone.
* `SignatureService_proofs`: `TypeCorrect`. `CacheServes`: all that the handlers
  do with the cache is `InService`. It is shown step by step: `UsesCache` finds
  for each step of the service the step of the cache that it contains, none or one
  in which several calls begin. The cache's constants are instantiated by
  expressions over those of the service, which meet its assumption
  (`CacheAssumed`). So what is proved of the cache holds in the service:
  `BlockAge`, `SettingsStay`, `MissesFresh` are the age bound, the kept settings
  and the fresh answers of the cache that the handlers share, and `BoundedBlock`
  composes the refinement: the whole service implements `BoundedCache`.
  `DateLimitHolds` (`DateLimitCovers`) from `ClockAssumption`: the invariant says
  that cached answers and answers of calls are timestamps the head has had (the
  cache's `OwnAnswers`, taken over), that calls carry the keys of their branches
  and contracts (`CallsKeyed`), how far the clocks are apart (`Clocks`), and how a
  request's limit stands to its date limit (`LimitBelow`). It does not speak of
  the age of the cached block: an old block only makes the limit smaller.
  `NonceAlways` (`NonceFresh`): what is known of a nonce at each point of its
  request (`Known`). `DecimalsAlways` (`OwnDecimals`): what the cache and its
  calls hold under a settings key are the decimals of its contract
  (`SettingsTrue`). `StatsAlways` (`StatsCount`), for a finite set of requests: a
  request ends once, and none in an epoch still to come (`ServedBefore`), so that
  a hard reset starts from nothing.
* `TransactionLookup_proofs`: `TypeCorrect`; `CacheServes`, as above, with
  `RefusalAge`: a refusal stays cached no longer than `ABI_CACHE_TIME_OUT` and the
  lag. `ParametersAlways` (`ParametersKnown`), for any clients and contracts: a
  handler that looks has a call of its own with the key of its own contract
  (`Looking`), an answer is no newer than the source of its key (`OwnAnswers`),
  and no ABI is taken back (`SourceGrows`).
* `SyncEngine_proofs`: `TypeCorrect`, `Once` (`OneRun`) and `Launched`
  (`LaunchedFirst`). The invariant says that the flag and the runs under way
  agree (`FlagIsRun`), that the service is up only when all workers have
  started (`AllLaunched`), that a socket that is open belongs to a worker that
  has started (`SocketLaunched`) and that the broker comes last (`BrokerLast`).
  `CountsAddUp` (`Counted`) and `MonitorAlways` (`MonitorCurrent`) are about
  counters that wrap around: lemmas on % carry them, and only a worker that
  subscribes has a socket (`SocketSubscribed`).
* `EventStore_proofs`: `TypeCorrect`; `LinkedAlways` (`Linked`). The invariant
  says that a stored transaction has its block and a stored event its transaction
  (`TransactionLinked`, `EventLinked`), that only transactions are placeholders
  (`NoOtherPlaceholder`), that a saver past its block stage, or about to update
  the block it found, has the block stored (`PastBlock`), and that a saver at
  its event stage has no placeholder as its transaction (`PastTransaction`):
  it is stored or was deleted since, and then the foreign key refuses the
  event. No fact about the locks is used.
  `Undisputed` (`NoConflict`) is what the locks add. The property speaks of
  the time before the first failure of the provider, so the invariant does too
  (`CalmInv`): until then no task of a block or a transaction throws, its
  lock is the one that the map has (`Mapped`), with one owner (`OneOwner`) and
  closed while it is owned (`OwnedLocked`). Saves of events may be refused all
  the while, by a foreign key, and release twice: their locks are others
  (`QuietIds`). A saver at work is inside its lock (`Inside`), hence
  alone with its row (`OneWriter`), and the row that it did not find is still
  missing when it writes (`StillMissing`). `DroppedAlways` (`LocksDropped`) is
  about the locks alone, and about tasks that may all throw: exclusion is lost
  then, but a lock in the map still has a task of its id that uses it (`Used`),
  since a release either wakes a task of the same lock or leaves the lock empty,
  and its entry with it. It needs that a queue holds waiting tasks of its lock,
  each once (`Queued`), and that the tasks of one lock have one id, also when
  the map has another lock by now (`OneId`, `MapId`).
* `Indexer_proofs`, about `FilteredHead`: `FeedTypeCorrect`; `RealAlways` (`AcceptedIsReal`) for every
  `FilterSize` and `ValueMaxDiff`. The invariant says where in the history the
  numbers that are too large are: behind the last true one, and no more than were
  answered since (`Trail`). A history that is full then has a true number in it,
  and the step from there to the next is too large for it to be steady
  (`SteadyEndsTrue`). While the filter is settled its history ends with the
  number accepted last (`Settled`), so that a refused answer hides no true one.
* `AsyncUtils_proofs`: `WaitTypeCorrect` and `TriesTypeCorrect`; `Polls`
  (`PollsBounded`), with the fact that the variable `timer` holds a timer only
  while one is armed (`LiveArmed`); `GivesUp` (`GivesUpInTime`), for every number
  of attempts: the calls made and the attempts left add up (`SpentBy`), whoever has
  a `contractFactory` is in the first attempt, and a call that failed with attempts
  left met an error whose report throws (`TriesInv`).
* `SecurityBlocker_proofs`: `TypeCorrect`; `KeyAlways` (`KeyNeeded`) and
  `StatusAlways` (`StatusTrue`). The invariant says that `shares` are the
  shares sent since the last stop, that a start of the present epoch under way
  means a full set, and that a status of running means that the flag is set.
  `StartsOnce` (`StartedOnce`) needs of it only that `shares` are those sent.
* `AsyncUtils_proofs`, about `IdLock`: `TypeCorrect` for all tasks; `Exclusion`
  (`MutualExclusion`) when no task throws that shares its id with another,
  which the finding shows is needed: the second release of a task that is alone
  changes nothing (`ThrowAloneReturns`).
  The invariant says that all tasks of an id hold the same object
  (`SameObject`), that two ids never share one (`OwnObject`), that a locked
  object has one owner (`OneOwner`) and that its queue holds exactly the
  waiting tasks, once each (`QueueIsWaiting`).
  `Refinement`, under the same hypothesis: every behaviour of `IdLock` is one of
  `FifoMutex`, fairness aside. The line of an id is its owner followed by the
  queue of its object; the invariant adds that an object in the map has an owner
  (`Held`), so that a line is empty only when the map has no lock. `LineForm` says what the
  refinement mapping, a CHOOSE over sequences, comes to, and each step of `IdLock` has a
  lemma that names the step of `FifoMutex` it is, or none (`AcquireJoins`, `EnterStarts`,
  `ReturnLeaves`, `LineStays`).
* `Indexer_proofs`, about `Indexer`: `TypeCorrect`,
  `NothingLost` (`NothingSkipped`) and `Final` (`CursorFinal`), for any contracts,
  events, ranges, and any number of loops on a contract. What carries
  them is what a loop knows between two awaits (`Sound`): its blocks are at least
  `BlockNumberOffset` below the head (`Deep`, from `AcceptedIsReal`), its range
  ends no later (`Ranged`), the primary keys of the events of the contract below the range are in the table
  (`Below`, `Kept`), and those of the range are or the events are among those still to
  save (`Fetched`). It holds of each loop by itself, since `since` only rises while a
  loop is at work, keys stay in the table and the chain only grows: so a loop that a failed run
  left behind may write its cursor, with the row it read before.
  What is under a key is an event of that key (`Filed`), hence the event asked for or
  one that overwrote it (`KeptOrOverwritten`).
  `Forward` (`CursorForward`) is the one that needs loops to be alone, and holds
  only while nothing has failed and nobody has edited: then the loops are those of the
  run (`OfRun`), one for each contract (`OneEach`), on rows that are the
  original ones (`Original`), and the cursor is still where the loop found it (`Unmoved`).
  A reboot forgets all loops.
  `LogKept` (`ImplementsEventLog`): the tables are an `EventLog` for whoever reads
  them. A commit is the one step of a loop that moves a cursor, and what its loop
  knows is what `EventLog` asks of it (`CommitVouches`); a saved event is an
  entry, or was one already (`SaveEnters`, two events may share a key); what the
  operator does is a cursor given, or not to be seen (`EditGives`). All else
  leaves the log as it is: runs, loops that throw, refusals of the database and restarts.

Eight modules hold the proofs. Only model-checked:

* Liveness (`Converges`, `RequestSettles`, `AnsweredUnlessMissing`, `AbiHeals`,
  `Served`, `ComesUp`, `WaitTimesOut`, `PollsEnd`, `AllSaved`, `Recovers`,
  `EventuallyStored`), and so the fairness half of
  `ImplementsFifoMutex` and of `ImplementsBoundedCache`: it is out of TLAPS's reach.

Every other property of a passing run is proved.

## 5. Not modelled, and the plan

Left out because nothing in them changes state: configuration, routing, the
read-only handlers, mapping of RPC fields. Addresses, amounts and signatures are
not data the properties tell apart. The generated bindings (`typechain-types`,
some 9000 of the repository's 14700 lines) have no behaviour of their own: what
this service uses of them, calls of two contracts, is external to the models.
The `fillProcessData` half of the indexer calls an interface that has no
implementation here; `updateContractsFromConfig` is switched off by a constant
(`DataStorageBase.ts:42`). `PendingCalculator`, `trigger`, `runConcurrently`
and `DiffArray` are called by no code of the service.

Next: the connection life cycle of the data storage and its statistics.
