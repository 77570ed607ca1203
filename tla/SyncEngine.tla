----------------------------- MODULE SyncEngine -----------------------------
(***************************************************************************)
(* The workers of a network and what runs them:                            *)
(*   common-service/core/WorkerBase/WorkerBase.ts    execute               *)
(*   common-service/core/SyncEngineBase.ts           start, reset, sync    *)
(*   core/MultiSyncEngine.ts, services/Services.ts   start, the resets     *)
(*   core/App.ts                                     the tick each second  *)
(*   common-service/utils/services.ts                the broker            *)
(*   common-service/providers/JsonRpcProvider.ts     subscribe             *)
(*   core/MonitoringWorker.ts                        the only worker this  *)
(*                                  service registers: its work is         *)
(*                                  synchronous and its divider 1          *)
(* The base classes are written for several workers, some of them called   *)
(* on messages of a provider's socket too (IndexerWorkerBase.start), so    *)
(* the monitoring worker is modelled among others.                         *)
(*                                                                         *)
(* A step is one callback of the event loop.  sync does not await execute: *)
(* a worker goes on while ticks come.  tickId counts modulo Period, which  *)
(* every divider divides; the run counters count modulo Wrap.              *)
(***************************************************************************)
EXTENDS Integers

CONSTANTS
    Workers,
    Monitoring,     \* the MonitoringWorker
    Subscribed,     \* workers whose start opens a socket (the wsUrl of their
                    \* provider is a wss one): its messages execute them too
    Failing,        \* workers whose start and work may throw
    TickDivider,    \* TickDivider[w]: w is due on every so manieth tick
    Period, Wrap,
    MaxSignatures   \* bound on the signatures counted between two resets

ASSUME SyncEngineAssumption ==
    /\ Monitoring \in Workers
    /\ Subscribed \subseteq Workers \ {Monitoring}
    /\ Failing \subseteq Workers \ {Monitoring}
    /\ TickDivider \in [Workers -> Nat \ {0}]
    /\ TickDivider[Monitoring] = 1
    /\ Period \in Nat \ {0, 1}
    /\ \A w \in Workers : Period % TickDivider[w] = 0
    /\ Wrap \in Nat \ {0}
    /\ MaxSignatures \in Nat

VARIABLES
    phase,      \* Services: starting, running (isStarted) or failed
    broker,     \* the routes: down, up or, when the broker does not start, failed
    socket,     \* the socket of each worker's provider
    launched,   \* the workers whose start() is over
    tickId,
    executing,  \* statsDataBase.executing of each worker
    running,    \* how many calls of its work are under way
    begun,      \* how many there have been
    successCount, errorCount,
    monitor     \* statsData and signatureCounter of the MonitoringWorker

workerVars == <<executing, running, begun, successCount, errorCount>>
vars == <<phase, broker, socket, launched, tickId, workerVars, monitor>>

Monitor == [tickId : 0 .. Period - 1, signatures : 0 .. MaxSignatures,
            counter : 0 .. MaxSignatures]

TypeOK ==
    /\ phase \in {"starting", "running", "failed"}
    /\ broker \in {"down", "up", "failed"}
    /\ socket \in [Workers -> {"none", "opening", "open", "closed"}]
    /\ launched \subseteq Workers
    /\ tickId \in 0 .. Period - 1
    /\ executing \in [Workers -> BOOLEAN]
    /\ running \in [Workers -> Nat]
    /\ begun \in [Workers -> 0 .. Wrap - 1]
    /\ successCount \in [Workers -> 0 .. Wrap - 1]
    /\ errorCount \in [Workers -> 0 .. Wrap - 1]
    /\ monitor \in Monitor

ForAll(x) == [w \in Workers |-> x]
NewMonitor == [tickId |-> 0, signatures |-> 0, counter |-> 0]

Init ==
    /\ phase = "starting"
    /\ broker = "down"
    /\ socket = ForAll("none")
    /\ launched = {}
    /\ tickId = 0
    /\ executing = ForAll(FALSE)
    /\ running = ForAll(0)
    /\ begun = ForAll(0)
    /\ successCount = ForAll(0)
    /\ errorCount = ForAll(0)
    /\ monitor = NewMonitor

-----------------------------------------------------------------------------
(* Executing workers *)

\* MonitoringWorker.work: shows the tick, stores the signatures for the speed.
MonitoringWork(m, tick) == [m EXCEPT !.tickId = tick, !.counter = m.signatures]

\* MonitoringWorker.reset: the signatureCounter is not reset with statsData.
MonitoringReset(m) == [m EXCEPT !.tickId = 0, !.signatures = 0]

\* Deviation of Due: executing is not looked at.
DueAlways(tick) == {w \in Workers : tick % TickDivider[w] = 0}

\* The workers that execute(tick) does not turn away.
Due(tick) == {w \in Workers : ~executing[w] /\ tick % TickDivider[w] = 0}

\* execute(tick) of each worker in ws, up to the await of its work; m is the
\* state the monitoring worker is in by then.
Execute(ws, tick, m) ==
    LET due == ws \cap Due(tick)
    IN  /\ executing' = [w \in Workers |-> executing[w] \/ w \in due]
        /\ running' = [w \in Workers |->
                         IF w \in due THEN running[w] + 1 ELSE running[w]]
        /\ begun' = [w \in Workers |->
                       IF w \in due THEN (begun[w] + 1) % Wrap ELSE begun[w]]
        /\ monitor' = IF Monitoring \in due THEN MonitoringWork(m, tick) ELSE m
        /\ UNCHANGED <<successCount, errorCount>>

\* Deviation of Sync: it awaits execute, so that a tick waits for all workers.
SyncAwaits(m) ==
    /\ \A w \in Workers : ~executing[w]
    /\ Execute(Workers, tickId, m)
    /\ tickId' = (tickId + 1) % Period

\* SyncEngineBase.sync
Sync(m) ==
    /\ Execute(Workers, tickId, m)
    /\ tickId' = (tickId + 1) % Period

\* The monitoring worker's execute ends in a microtask, so it is over before
\* the next timer, message or request is looked at.
Quiet == ~executing[Monitoring]

\* The work of w has settled: the rest of execute.
Settle(w, count) ==
    /\ running[w] > 0
    /\ running' = [running EXCEPT ![w] = @ - 1]
    /\ executing' = [executing EXCEPT ![w] = FALSE]
    /\ count' = [count EXCEPT ![w] = (@ + 1) % Wrap]
    /\ UNCHANGED <<phase, broker, socket, launched, tickId, begun, monitor>>

Succeed(w) ==
    /\ Settle(w, successCount)
    /\ UNCHANGED errorCount

\* Deviation of Fail: successCount is counted in a finally block.
FailCountsBoth(w) ==
    /\ w \in Failing
    /\ Settle(w, errorCount)
    /\ successCount' = [successCount EXCEPT ![w] = (@ + 1) % Wrap]

Fail(w) ==
    /\ w \in Failing
    /\ Settle(w, errorCount)
    /\ UNCHANGED successCount

-----------------------------------------------------------------------------
(* Starting: MultiSyncEngine.start awaits the start of one worker after the *)
(* other, then syncs; Services.start then sets started, App its schedule,  *)
(* and the broker is started last.                                         *)

\* The start of a worker that is awaited: its socket is not open yet.
Waiting == \E w \in Workers : socket[w] = "opening"

Startable(w) == Quiet /\ phase = "starting" /\ ~Waiting /\ w \notin launched

Launch(w) ==
    /\ Startable(w)
    /\ w \notin Subscribed
    /\ launched' = launched \cup {w}
    /\ UNCHANGED <<phase, broker, socket, tickId, workerVars, monitor>>

\* subscribe opens a socket and is over when that is open, if ever.
Connect(w) ==
    /\ Startable(w)
    /\ w \in Subscribed
    /\ socket[w] = "none"
    /\ socket' = [socket EXCEPT ![w] = "opening"]
    /\ UNCHANGED <<phase, broker, launched, tickId, workerVars, monitor>>

\* Deviation of Opened: nobody resolves the promise of subscribe.
OpenedUnheard(w) ==
    /\ Quiet
    /\ socket[w] = "opening"
    /\ socket' = [socket EXCEPT ![w] = "open"]
    /\ UNCHANGED <<phase, broker, launched, tickId, workerVars, monitor>>

\* The socket is open: subscribe resolves, start sets onMessage and is over.
Opened(w) ==
    /\ Quiet
    /\ socket[w] = "opening"
    /\ socket' = [socket EXCEPT ![w] = "open"]
    /\ launched' = launched \cup {w}
    /\ UNCHANGED <<phase, broker, tickId, workerVars, monitor>>

\* start() rejects, and init with it: the broker is stopped, not the process.
LaunchFails(w) ==
    /\ Startable(w)
    /\ w \in Failing
    /\ phase' = "failed"
    /\ UNCHANGED <<broker, socket, launched, tickId, workerVars, monitor>>

\* Deviation of Start: the start of the workers is not awaited.
StartEarly ==
    /\ Quiet
    /\ phase = "starting"
    /\ Sync(monitor)
    /\ phase' = "running"
    /\ UNCHANGED <<broker, socket, launched>>

Start ==
    /\ Quiet
    /\ phase = "starting"
    /\ launched = Workers
    /\ Sync(monitor)
    /\ phase' = "running"
    /\ UNCHANGED <<broker, socket, launched>>

\* broker.start() resolves or rejects.  The schedule is not stopped by that.
BrokerStart ==
    /\ Quiet
    /\ phase = "running"
    /\ broker = "down"
    /\ broker' \in {"up", "failed"}
    /\ UNCHANGED <<phase, socket, launched, tickId, workerVars, monitor>>

-----------------------------------------------------------------------------
(* Running *)

\* App: scheduleJob's callback, each second
Tick ==
    /\ Quiet
    /\ phase = "running"
    /\ Sync(monitor)
    /\ UNCHANGED <<phase, broker, socket, launched>>

\* Deviation of HardReset: the statistics are reset and no tick follows.
HardResetOnly ==
    /\ Quiet
    /\ broker = "up"
    /\ monitor' = MonitoringReset(monitor)
    /\ UNCHANGED <<phase, broker, socket, launched, tickId, workerVars>>

\* indexer.soft-reset does what a tick does; indexer.hard-reset resets first.
HardReset ==
    /\ Quiet
    /\ broker = "up"
    /\ Sync(MonitoringReset(monitor))
    /\ UNCHANGED <<phase, broker, socket, launched>>

\* changeStats: a handler counts a signature.
CountSignature ==
    /\ Quiet
    /\ broker = "up"
    /\ monitor.signatures < MaxSignatures
    /\ monitor' = [monitor EXCEPT !.signatures = @ + 1]
    /\ UNCHANGED <<phase, broker, socket, launched, tickId, workerVars>>

\* A message of the provider: execute(0), whether or not the service is up.
Message(w) ==
    /\ Quiet
    /\ socket[w] = "open"
    /\ Execute({w}, 0, monitor)
    /\ UNCHANGED <<phase, broker, socket, launched, tickId>>

\* The socket is closed.  Nobody listens for that, and nobody connects again.
Close(w) ==
    /\ Quiet
    /\ socket[w] = "open"
    /\ socket' = [socket EXCEPT ![w] = "closed"]
    /\ UNCHANGED <<phase, broker, launched, tickId, workerVars, monitor>>

\* The process exits, and whoever runs it starts it again, as often as it exits.
Exit ==
    /\ phase' = "starting"
    /\ broker' = "down"
    /\ socket' = ForAll("none")
    /\ launched' = {}
    /\ tickId' = 0
    /\ executing' = ForAll(FALSE)
    /\ running' = ForAll(0)
    /\ begun' = ForAll(0)
    /\ successCount' = ForAll(0)
    /\ errorCount' = ForAll(0)
    /\ monitor' = NewMonitor

\* The socket errs, or a message does not parse, for which there is no handler
\* but that of catchAllExceptions.  It is there once startFn has resolved;
\* before, and after a start that failed, the process exits.
Break(w) ==
    /\ Quiet
    /\ phase # "running"
    /\ socket[w] \in {"opening", "open"}
    /\ Exit

\* The route reboot
Reboot == Quiet /\ broker = "up" /\ Exit

Next ==
    \/ Start \/ BrokerStart \/ Tick \/ HardReset \/ CountSignature \/ Reboot
    \/ \E w \in Workers :
         \/ Launch(w) \/ Connect(w) \/ Opened(w) \/ LaunchFails(w)
         \/ Message(w) \/ Close(w) \/ Break(w) \/ Succeed(w) \/ Fail(w)

\* The timer of the schedule and the microtasks run, and what a start awaits
\* but for its socket settles.  Nothing is assumed of the other workers' work:
\* no timeout ends it.
Fairness ==
    /\ WF_vars(Tick)
    /\ WF_vars(Succeed(Monitoring))
    /\ WF_vars(Start)
    /\ \A w \in Workers : WF_vars(Launch(w)) /\ WF_vars(Connect(w))

Spec == Init /\ [][Next]_vars /\ Fairness

-----------------------------------------------------------------------------
(* Properties *)

\* Ticks, resets and messages never make the work of a worker overlap itself.
OneRun == \A w \in Workers : running[w] <= 1

\* No work runs before the start() of its worker is over, also not for the
\* workers that messages reach before the service is up.
LaunchedFirst == \A w \in Workers : running[w] > 0 => w \in launched

\* The counts of getStats add up to the runs there were, whatever the resets.
Counted ==
    \A w \in Workers :
      (successCount[w] + errorCount[w] + running[w]) % Wrap = begun[w]

\* While the service runs the statistics show the tick that was last, and the
\* speed counter is never ahead of the signatures it will next be given: only
\* the reading taken by the hard reset itself can be negative.
MonitorCurrent ==
    phase = "running" =>
      /\ monitor.tickId = (tickId + Period - 1) % Period
      /\ monitor.counter <= monitor.signatures

\* A worker whose work keeps settling keeps being run: neither another worker
\* that hangs, nor the extra ticks of the resets, nor a broker that failed, nor a
\* socket that was closed make it miss all its turns.
Served ==
    \A w \in Workers :
      (<>[](phase = "running") /\ []<>(~executing[w])) => []<>(running[w] > 0)

\* A start ends, with the service running or failed, unless a socket never opens or
\* sockets err in one start after the other and end the process each time.
\* Errors of earlier starts, sockets that are closed while the next one is still
\* opening, messages and reboots do not keep the service starting.
ComesUp ==
    (/\ \A w \in Subscribed : []<>(socket[w] # "opening")
     /\ <>[][\A w \in Workers : ~Break(w)]_vars)
      => []<>(phase # "starting")

=============================================================================
