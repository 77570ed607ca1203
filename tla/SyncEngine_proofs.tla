------------------------- MODULE SyncEngine_proofs -------------------------
(***************************************************************************)
(* Proofs about SyncEngine, for any workers and dividers: type             *)
(* correctness, that the work of a worker never overlaps itself, and that  *)
(* none runs before its worker has started.                                *)
(***************************************************************************)
EXTENDS SyncEngine, TLAPS

\* What a remainder by Period or Wrap is in.
LEMMA Remainder == ASSUME NEW x \in Int, NEW n \in Nat \ {0}
                   PROVE  x % n \in 0 .. n - 1
  BY SMT

\* The monitoring worker's statistics stay in Monitor through a tick.
LEMMA WorkTyped ==
    ASSUME NEW m \in Monitor, NEW tick \in 0 .. Period - 1
    PROVE  MonitoringWork(m, tick) \in Monitor
  BY DEF Monitor, MonitoringWork

LEMMA ResetTyped ==
    ASSUME NEW m \in Monitor
    PROVE  MonitoringReset(m) \in Monitor
<1>1. 0 \in 0 .. Period - 1 /\ 0 \in 0 .. MaxSignatures
  BY SyncEngineAssumption DEF SyncEngineAssumption
<1> QED BY <1>1 DEF Monitor, MonitoringReset

\* The flag of the code and the runs under way say the same.
FlagIsRun == \A w \in Workers : running[w] = IF executing[w] THEN 1 ELSE 0

\* The service is up only when the start() of every worker is over.
AllLaunched == phase = "running" => launched = Workers

\* A socket is open only when the start() that waited for it is over.
SocketLaunched == \A w \in Workers : socket[w] = "open" => w \in launched

\* The broker is started by a service that runs.
BrokerLast == broker = "up" => phase = "running"

IInv ==
    /\ TypeOK
    /\ FlagIsRun
    /\ AllLaunched
    /\ LaunchedFirst
    /\ SocketLaunched
    /\ BrokerLast

-----------------------------------------------------------------------------

\* What Execute does keeps the parts of IInv it can disturb, when it reaches
\* only workers that have started.
LEMMA ExecuteKeeps ==
    ASSUME IInv, NEW ws \in SUBSET Workers, NEW tick \in 0 .. Period - 1,
           NEW m \in Monitor, ws \subseteq launched', launched' = launched,
           Execute(ws, tick, m)
    PROVE  /\ executing' \in [Workers -> BOOLEAN]
           /\ running' \in [Workers -> Nat]
           /\ begun' \in [Workers -> 0 .. Wrap - 1]
           /\ monitor' \in Monitor
           /\ successCount' \in [Workers -> 0 .. Wrap - 1]
           /\ errorCount' \in [Workers -> 0 .. Wrap - 1]
           /\ FlagIsRun'
           /\ LaunchedFirst'
<1> DEFINE due == ws \cap Due(tick)
<1>1. /\ executing' = [w \in Workers |-> executing[w] \/ w \in due]
      /\ running' = [w \in Workers |->
                       IF w \in due THEN running[w] + 1 ELSE running[w]]
      /\ begun' = [w \in Workers |->
                     IF w \in due THEN (begun[w] + 1) % Wrap ELSE begun[w]]
      /\ monitor' = IF Monitoring \in due THEN MonitoringWork(m, tick) ELSE m
      /\ UNCHANGED <<successCount, errorCount>>
  BY DEF Execute
<1>2. \A w \in due : w \in launched /\ ~executing[w]
  BY DEF Due
<1> HIDE DEF due
<1>3. TypeOK /\ FlagIsRun /\ LaunchedFirst
  BY DEF IInv
<1>4. executing' \in [Workers -> BOOLEAN]
  <2>1. ASSUME NEW w \in Workers PROVE (executing[w] \/ w \in due) \in BOOLEAN
    BY <1>3 DEF TypeOK
  <2> QED BY <1>1, <2>1
<1>5. running' \in [Workers -> Nat]
  <2>1. ASSUME NEW w \in Workers
        PROVE  (IF w \in due THEN running[w] + 1 ELSE running[w]) \in Nat
    <3>1. running[w] \in Nat BY <1>3 DEF TypeOK
    <3> QED BY <3>1
  <2> QED BY <1>1, <2>1
<1>6. begun' \in [Workers -> 0 .. Wrap - 1]
  <2>1. ASSUME NEW w \in Workers
        PROVE  (IF w \in due THEN (begun[w] + 1) % Wrap ELSE begun[w]) \in 0 .. Wrap - 1
    <3>1. begun[w] \in 0 .. Wrap - 1 BY <1>3 DEF TypeOK
    <3>2. begun[w] + 1 \in Int BY <3>1
    <3>3. Wrap \in Nat \ {0} BY SyncEngineAssumption DEF SyncEngineAssumption
    <3>4. (begun[w] + 1) % Wrap \in 0 .. Wrap - 1 BY <3>2, <3>3, Remainder
    <3> QED BY <3>1, <3>4
  <2> QED BY <1>1, <2>1
<1>7. monitor' \in Monitor
  BY <1>1, WorkTyped
<1>8. FlagIsRun'
  <2>1. ASSUME NEW w \in Workers
        PROVE  running'[w] = IF executing'[w] THEN 1 ELSE 0
    <3>1. running[w] = IF executing[w] THEN 1 ELSE 0 BY <1>3 DEF FlagIsRun
    <3>2. executing'[w] <=> executing[w] \/ w \in due BY <1>1
    <3>3. running'[w] = IF w \in due THEN running[w] + 1 ELSE running[w] BY <1>1
    <3>4. w \in due => ~executing[w] BY <1>2
    <3>5. CASE w \in due
      BY <3>1, <3>2, <3>3, <3>4, <3>5
    <3>6. CASE w \notin due
      <4>1. executing'[w] <=> executing[w] BY <3>2, <3>6
      <4>2. running'[w] = running[w] BY <3>3, <3>6
      <4> QED BY <3>1, <4>1, <4>2
    <3> QED BY <3>5, <3>6
  <2> QED BY <2>1 DEF FlagIsRun
<1>9. LaunchedFirst'
  <2>1. ASSUME NEW w \in Workers, running'[w] > 0 PROVE w \in launched'
    <3>1. running'[w] = IF w \in due THEN running[w] + 1 ELSE running[w] BY <1>1
    <3>2. CASE w \in due BY <1>2, <3>2
    <3>3. CASE w \notin due
      <4>1. running[w] > 0 BY <2>1, <3>1, <3>3
      <4> QED BY <1>3, <4>1 DEF LaunchedFirst
    <3> QED BY <3>2, <3>3
  <2> QED BY <2>1 DEF LaunchedFirst
<1>10. /\ successCount' \in [Workers -> 0 .. Wrap - 1]
       /\ errorCount' \in [Workers -> 0 .. Wrap - 1]
  BY <1>1, <1>3 DEF TypeOK
<1> QED BY <1>4, <1>5, <1>6, <1>7, <1>8, <1>9, <1>10

\* A tick executes all workers, which have all started by then.
LEMMA SyncKeeps ==
    ASSUME IInv, NEW m \in Monitor, Sync(m), launched = Workers,
           UNCHANGED <<launched, broker, socket>>, phase' = "running"
    PROVE  IInv'
<1>1. tickId \in 0 .. Period - 1
  BY DEF IInv, TypeOK
<1>2. Execute(Workers, tickId, m) /\ tickId' = (tickId + 1) % Period
  BY DEF Sync
<1>3. /\ executing' \in [Workers -> BOOLEAN]
      /\ running' \in [Workers -> Nat]
      /\ begun' \in [Workers -> 0 .. Wrap - 1]
      /\ monitor' \in Monitor
      /\ successCount' \in [Workers -> 0 .. Wrap - 1]
      /\ errorCount' \in [Workers -> 0 .. Wrap - 1]
      /\ FlagIsRun'
      /\ LaunchedFirst'
  BY <1>1, <1>2, ExecuteKeeps
<1>4. tickId' \in 0 .. Period - 1
  <2>1. tickId + 1 \in Int BY <1>1
  <2>2. Period \in Nat \ {0} BY SyncEngineAssumption DEF SyncEngineAssumption
  <2> QED BY <1>2, <2>1, <2>2, Remainder
<1>5. /\ broker' \in {"down", "up", "failed"}
      /\ socket' \in [Workers -> {"none", "opening", "open", "closed"}]
      /\ launched' \subseteq Workers
  BY DEF IInv, TypeOK
<1>6. TypeOK'
  BY <1>3, <1>4, <1>5 DEF TypeOK
<1>7. AllLaunched' /\ SocketLaunched' /\ BrokerLast'
  BY DEF IInv, AllLaunched, SocketLaunched, BrokerLast
<1> QED BY <1>3, <1>6, <1>7 DEF IInv

\* The rest of execute clears the flag and ends the run.
LEMMA SettleKeeps ==
    ASSUME IInv, NEW w \in Workers, Succeed(w) \/ Fail(w)
    PROVE  IInv'
<1>1. /\ running[w] > 0
      /\ running' = [running EXCEPT ![w] = @ - 1]
      /\ executing' = [executing EXCEPT ![w] = FALSE]
      /\ UNCHANGED <<phase, broker, socket, launched, tickId, begun, monitor>>
  BY DEF Succeed, Fail, Settle
<1>2. TypeOK /\ FlagIsRun /\ AllLaunched /\ LaunchedFirst /\ SocketLaunched /\ BrokerLast
  BY DEF IInv
<1>3. running[w] = 1
  BY <1>1, <1>2 DEF FlagIsRun
<1>4. \A c \in 0 .. Wrap - 1 : (c + 1) % Wrap \in 0 .. Wrap - 1
  <2>1. Wrap \in Nat \ {0} BY SyncEngineAssumption DEF SyncEngineAssumption
  <2>2. \A c \in 0 .. Wrap - 1 : c + 1 \in Int OBVIOUS
  <2> QED BY <2>1, <2>2, Remainder
<1>5. successCount' \in [Workers -> 0 .. Wrap - 1]
  <2>1. \/ successCount' = successCount
        \/ successCount' = [successCount EXCEPT ![w] = (@ + 1) % Wrap]
    BY DEF Succeed, Fail, Settle
  <2>2. successCount \in [Workers -> 0 .. Wrap - 1]
    BY <1>2 DEF TypeOK
  <2>3. (successCount[w] + 1) % Wrap \in 0 .. Wrap - 1
    BY <1>4, <2>2
  <2> QED BY <2>1, <2>2, <2>3
<1>6. errorCount' \in [Workers -> 0 .. Wrap - 1]
  <2>1. \/ errorCount' = errorCount
        \/ errorCount' = [errorCount EXCEPT ![w] = (@ + 1) % Wrap]
    BY DEF Succeed, Fail, Settle
  <2>2. errorCount \in [Workers -> 0 .. Wrap - 1]
    BY <1>2 DEF TypeOK
  <2>3. (errorCount[w] + 1) % Wrap \in 0 .. Wrap - 1
    BY <1>4, <2>2
  <2> QED BY <2>1, <2>2, <2>3
<1>7. running' \in [Workers -> Nat] /\ executing' \in [Workers -> BOOLEAN]
  BY <1>1, <1>2, <1>3 DEF TypeOK
<1>8. FlagIsRun'
  <2>1. ASSUME NEW v \in Workers
        PROVE  running'[v] = IF executing'[v] THEN 1 ELSE 0
    <3>1. CASE v = w
      BY <1>1, <1>2, <1>3, <3>1 DEF TypeOK
    <3>2. CASE v # w
      BY <1>1, <1>2, <3>2 DEF TypeOK, FlagIsRun
    <3> QED BY <3>1, <3>2
  <2> QED BY <2>1 DEF FlagIsRun
<1>9. LaunchedFirst'
  BY <1>1, <1>2 DEF TypeOK, LaunchedFirst
<1>10. TypeOK'
  BY <1>1, <1>2, <1>5, <1>6, <1>7 DEF TypeOK
<1>11. AllLaunched' /\ SocketLaunched' /\ BrokerLast'
  BY <1>1, <1>2 DEF AllLaunched, SocketLaunched, BrokerLast
<1> QED BY <1>8, <1>9, <1>10, <1>11 DEF IInv

\* A step that leaves the workers alone, launches more of them and opens only
\* sockets of those.
LEMMA StartKeeps ==
    ASSUME IInv, UNCHANGED <<tickId, workerVars>>, monitor' \in Monitor,
           phase' \in {"starting", "running", "failed"},
           broker' \in {"down", "up", "failed"},
           socket' \in [Workers -> {"none", "opening", "open", "closed"}],
           launched \subseteq launched', launched' \subseteq Workers,
           AllLaunched', SocketLaunched', BrokerLast'
    PROVE  IInv'
<1>1. UNCHANGED <<tickId, executing, running, begun, successCount, errorCount>>
  BY DEF workerVars
<1>2. TypeOK /\ FlagIsRun /\ LaunchedFirst
  BY DEF IInv
<1>3. TypeOK'
  BY <1>1, <1>2 DEF TypeOK
<1>4. FlagIsRun'
  BY <1>1, <1>2 DEF FlagIsRun
<1>5. LaunchedFirst'
  BY <1>1, <1>2 DEF LaunchedFirst
<1> QED BY <1>3, <1>4, <1>5 DEF IInv

\* A process that has just started.
LEMMA FreshKeeps ==
    ASSUME phase' = "starting", broker' = "down",
           socket' = ForAll("none"), launched' = {}, tickId' = 0,
           executing' = ForAll(FALSE), running' = ForAll(0), begun' = ForAll(0),
           successCount' = ForAll(0), errorCount' = ForAll(0), monitor' = NewMonitor
    PROVE  IInv'
<1>1. 0 \in 0 .. Period - 1 /\ 0 \in 0 .. MaxSignatures /\ 0 \in 0 .. Wrap - 1
  BY SyncEngineAssumption DEF SyncEngineAssumption
<1>2. monitor' \in Monitor
  BY <1>1 DEF NewMonitor, Monitor
<1>3. TypeOK'
  BY <1>1, <1>2 DEF TypeOK, ForAll
<1>4. FlagIsRun' /\ AllLaunched' /\ LaunchedFirst' /\ SocketLaunched' /\ BrokerLast'
  BY DEF FlagIsRun, AllLaunched, LaunchedFirst, SocketLaunched, BrokerLast, ForAll
<1> QED BY <1>3, <1>4 DEF IInv

-----------------------------------------------------------------------------

LEMMA InitIInv == Init => IInv
<1> SUFFICES ASSUME Init PROVE IInv
  OBVIOUS
<1>1. 0 \in 0 .. Period - 1 /\ 0 \in 0 .. MaxSignatures /\ 0 \in 0 .. Wrap - 1
  BY SyncEngineAssumption DEF SyncEngineAssumption
<1>2. monitor \in Monitor
  BY <1>1 DEF Init, NewMonitor, Monitor
<1>3. TypeOK
  BY <1>1, <1>2 DEF Init, TypeOK, ForAll
<1>4. FlagIsRun /\ AllLaunched /\ LaunchedFirst /\ SocketLaunched /\ BrokerLast
  BY DEF Init, FlagIsRun, AllLaunched, LaunchedFirst, SocketLaunched, BrokerLast, ForAll
<1> QED BY <1>3, <1>4 DEF IInv

LEMMA NextIInv == IInv /\ [Next]_vars => IInv'
<1> SUFFICES ASSUME IInv, [Next]_vars PROVE IInv'
  OBVIOUS
<1>1. TypeOK /\ FlagIsRun /\ AllLaunched /\ LaunchedFirst /\ SocketLaunched /\ BrokerLast
  BY DEF IInv
<1>2. /\ monitor \in Monitor
      /\ phase \in {"starting", "running", "failed"}
      /\ broker \in {"down", "up", "failed"}
      /\ socket \in [Workers -> {"none", "opening", "open", "closed"}]
      /\ launched \subseteq Workers
  BY <1>1 DEF TypeOK
<1>3. CASE Start
  BY <1>2, <1>3, SyncKeeps DEF Start
<1>4. CASE Tick
  <2>1. phase' = "running" /\ launched = Workers
        /\ UNCHANGED <<launched, broker, socket>>
    BY <1>1, <1>4 DEF Tick, AllLaunched
  <2>2. Sync(monitor)
    BY <1>4 DEF Tick
  <2> QED BY <1>2, <2>1, <2>2, SyncKeeps
<1>5. CASE HardReset
  <2>1. Sync(MonitoringReset(monitor)) /\ UNCHANGED <<phase, broker, socket, launched>>
    BY <1>5 DEF HardReset
  <2>2. MonitoringReset(monitor) \in Monitor
    BY <1>2, ResetTyped
  <2>3. phase = "running"
    BY <1>1, <1>5 DEF HardReset, BrokerLast
  <2>4. launched = Workers
    BY <1>1, <2>3 DEF AllLaunched
  <2> QED BY <2>1, <2>2, <2>3, <2>4, SyncKeeps
<1>6. CASE CountSignature
  <2>1. monitor' \in Monitor
    <3>1. monitor.signatures + 1 \in 0 .. MaxSignatures
      BY <1>2, <1>6, SyncEngineAssumption
      DEF CountSignature, Monitor, SyncEngineAssumption
    <3>2. monitor' = [monitor EXCEPT !.signatures = @ + 1]
      BY <1>6 DEF CountSignature
    <3> QED BY <1>2, <3>1, <3>2 DEF Monitor
  <2>2. UNCHANGED <<phase, broker, socket, launched, tickId, workerVars>>
    BY <1>6 DEF CountSignature
  <2>3. AllLaunched' /\ SocketLaunched' /\ BrokerLast'
    BY <1>1, <2>2 DEF AllLaunched, SocketLaunched, BrokerLast
  <2> QED BY <1>2, <2>1, <2>2, <2>3, StartKeeps
<1>7. CASE BrokerStart
  <2>1. UNCHANGED <<phase, socket, launched, tickId, workerVars, monitor>>
        /\ broker' \in {"up", "failed"} /\ phase = "running"
    BY <1>7 DEF BrokerStart
  <2>2. AllLaunched' /\ SocketLaunched' /\ BrokerLast'
    BY <1>1, <2>1 DEF AllLaunched, SocketLaunched, BrokerLast
  <2> QED BY <1>2, <2>1, <2>2, StartKeeps
<1>8. CASE Exit
  BY <1>8, FreshKeeps DEF Exit
<1>9. ASSUME NEW w \in Workers, Launch(w) PROVE IInv'
  <2>1. /\ UNCHANGED <<phase, broker, socket, tickId, workerVars, monitor>>
        /\ launched' = launched \cup {w}
        /\ phase = "starting"
    BY <1>9 DEF Launch, Startable
  <2>2. AllLaunched' /\ SocketLaunched' /\ BrokerLast'
    BY <1>1, <2>1 DEF AllLaunched, SocketLaunched, BrokerLast
  <2> QED BY <1>2, <2>1, <2>2, StartKeeps
<1>10. ASSUME NEW w \in Workers, Connect(w) PROVE IInv'
  <2>1. /\ UNCHANGED <<phase, broker, launched, tickId, workerVars, monitor>>
        /\ socket' = [socket EXCEPT ![w] = "opening"]
    BY <1>10 DEF Connect
  <2>2. AllLaunched' /\ BrokerLast'
    BY <1>1, <2>1 DEF AllLaunched, BrokerLast
  <2>3. SocketLaunched'
    BY <1>1, <1>2, <2>1 DEF SocketLaunched
  <2> QED BY <1>2, <2>1, <2>2, <2>3, StartKeeps
<1>11. ASSUME NEW w \in Workers, Opened(w) PROVE IInv'
  <2>1. /\ UNCHANGED <<phase, broker, tickId, workerVars, monitor>>
        /\ socket' = [socket EXCEPT ![w] = "open"]
        /\ launched' = launched \cup {w}
    BY <1>11 DEF Opened
  <2>2. AllLaunched' /\ BrokerLast'
    BY <1>1, <1>2, <2>1 DEF AllLaunched, BrokerLast
  <2>3. SocketLaunched'
    BY <1>1, <1>2, <2>1 DEF SocketLaunched
  <2> QED BY <1>2, <2>1, <2>2, <2>3, StartKeeps
<1>12. ASSUME NEW w \in Workers, LaunchFails(w) PROVE IInv'
  <2>1. /\ UNCHANGED <<broker, socket, launched, tickId, workerVars, monitor>>
        /\ phase = "starting" /\ phase' = "failed"
    BY <1>12 DEF LaunchFails, Startable
  <2>2. AllLaunched' /\ SocketLaunched' /\ BrokerLast'
    BY <1>1, <2>1 DEF AllLaunched, SocketLaunched, BrokerLast
  <2> QED BY <1>2, <2>1, <2>2, StartKeeps
<1>13. ASSUME NEW w \in Workers, Close(w) PROVE IInv'
  <2>1. /\ UNCHANGED <<phase, broker, launched, tickId, workerVars, monitor>>
        /\ socket' = [socket EXCEPT ![w] = "closed"]
    BY <1>13 DEF Close
  <2>2. AllLaunched' /\ BrokerLast'
    BY <1>1, <2>1 DEF AllLaunched, BrokerLast
  <2>3. SocketLaunched'
    BY <1>1, <1>2, <2>1 DEF SocketLaunched
  <2> QED BY <1>2, <2>1, <2>2, <2>3, StartKeeps
<1>14. ASSUME NEW w \in Workers, Message(w) PROVE IInv'
  <2>1. Execute({w}, 0, monitor) /\ socket[w] = "open"
    BY <1>14 DEF Message
  <2>2. UNCHANGED <<phase, broker, socket, launched, tickId>>
    BY <1>14 DEF Message
  <2>3. 0 \in 0 .. Period - 1
    BY SyncEngineAssumption DEF SyncEngineAssumption
  <2>4. {w} \in SUBSET Workers /\ {w} \subseteq launched'
    BY <1>1, <2>1, <2>2 DEF SocketLaunched
  <2>5. /\ executing' \in [Workers -> BOOLEAN]
        /\ running' \in [Workers -> Nat]
        /\ begun' \in [Workers -> 0 .. Wrap - 1]
        /\ monitor' \in Monitor
        /\ successCount' \in [Workers -> 0 .. Wrap - 1]
        /\ errorCount' \in [Workers -> 0 .. Wrap - 1]
        /\ FlagIsRun'
        /\ LaunchedFirst'
    BY <1>2, <2>1, <2>2, <2>3, <2>4, ExecuteKeeps
  <2>6. TypeOK'
    BY <1>1, <2>2, <2>5 DEF TypeOK
  <2>7. AllLaunched' /\ SocketLaunched' /\ BrokerLast'
    BY <1>1, <2>2 DEF AllLaunched, SocketLaunched, BrokerLast
  <2> QED BY <2>5, <2>6, <2>7 DEF IInv
<1>15. ASSUME NEW w \in Workers, Succeed(w) \/ Fail(w) PROVE IInv'
  BY <1>15, SettleKeeps
<1>16. CASE UNCHANGED vars
  <2>1. UNCHANGED <<phase, broker, socket, launched, tickId, workerVars, monitor>>
    BY <1>16 DEF vars
  <2>2. AllLaunched' /\ SocketLaunched' /\ BrokerLast'
    BY <1>1, <2>1 DEF AllLaunched, SocketLaunched, BrokerLast
  <2> QED BY <1>2, <2>1, <2>2, StartKeeps
<1> QED
  BY <1>3, <1>4, <1>5, <1>6, <1>7, <1>8, <1>9, <1>10, <1>11, <1>12, <1>13, <1>14,
     <1>15, <1>16 DEF Next, Reboot, Break

LEMMA Always == Spec => []IInv
<1> QED BY InitIInv, NextIInv, PTL DEF Spec

\* The state of the engine stays well typed.
THEOREM TypeCorrect == Spec => []TypeOK
<1>1. IInv => TypeOK BY DEF IInv
<1> QED BY Always, <1>1, PTL

\* The work of a worker never overlaps itself (WorkerBase.execute).
THEOREM Once == Spec => []OneRun
<1>1. ASSUME IInv PROVE OneRun
  <2>1. ASSUME NEW w \in Workers PROVE running[w] <= 1
    <3>1. running[w] = 0 \/ running[w] = 1 BY <1>1 DEF IInv, FlagIsRun
    <3> QED BY <3>1
  <2> QED BY <2>1 DEF OneRun
<1> QED BY Always, <1>1, PTL

\* No work runs before the start() of its worker is over.
THEOREM Launched == Spec => []LaunchedFirst
<1>1. IInv => LaunchedFirst BY DEF IInv
<1> QED BY Always, <1>1, PTL

-----------------------------------------------------------------------------
(* Counting: each step takes a run from under way to one of the counts *)

\* A run begins: the number of runs is counted on.
LEMMA BeginCounted ==
    ASSUME NEW n \in Nat \ {0}, NEW s \in 0 .. n - 1, NEW e \in 0 .. n - 1
    PROVE  (((s + e) % n) + 1) % n = (s + e + 1) % n
<1>1. /\ s \in Int /\ e \in Int /\ n \in Int /\ n > 0
      /\ s >= 0 /\ s < n /\ e >= 0 /\ e < n
  OBVIOUS
<1>2. (s + e) % n = IF s + e < n THEN s + e ELSE s + e - n
  BY <1>1, Z3
<1>3. (s + e + 1) % n = IF s + e + 1 < n THEN s + e + 1 ELSE s + e + 1 - n
  BY <1>1, Z3
<1> DEFINE x == (s + e) % n
<1>4. x \in Int /\ x >= 0 /\ x < n /\ (x = s + e \/ x = s + e - n)
  BY <1>1, <1>2
<1> HIDE DEF x
<1>5. (x + 1) % n = IF x + 1 < n THEN x + 1 ELSE x + 1 - n
  BY <1>1, <1>4, Z3
<1>6. (x + 1) % n = (s + e + 1) % n
  BY <1>1, <1>3, <1>4, <1>5
<1> QED BY <1>6 DEF x

\* A run ends: one of the two counts goes on.
LEMMA EndCounted ==
    ASSUME NEW n \in Nat \ {0}, NEW s \in 0 .. n - 1, NEW e \in 0 .. n - 1
    PROVE  (((s + 1) % n) + e) % n = (s + e + 1) % n
<1>1. /\ s \in Int /\ e \in Int /\ n \in Int /\ n > 0
      /\ s >= 0 /\ s < n /\ e >= 0 /\ e < n
  OBVIOUS
<1> QED BY <1>1, Z3

\* execute counts each run that it begins.
LEMMA ExecuteCounted ==
    ASSUME IInv, Counted, NEW ws, NEW tick, NEW m, Execute(ws, tick, m)
    PROVE  Counted'
<1>1. TypeOK /\ FlagIsRun
  BY DEF IInv
<1>2. ASSUME NEW w \in Workers
      PROVE  (successCount'[w] + errorCount'[w] + running'[w]) % Wrap = begun'[w]
  <2> DEFINE s == successCount[w]
             e == errorCount[w]
  <2>1. s \in 0 .. Wrap - 1 /\ e \in 0 .. Wrap - 1 /\ running[w] \in Nat
    BY <1>1 DEF TypeOK
  <2>2. (s + e + running[w]) % Wrap = begun[w]
    BY DEF Counted
  <2>3. successCount'[w] = s /\ errorCount'[w] = e
    BY DEF Execute
  <2>4. CASE w \in ws \cap Due(tick)
    <3>1. running'[w] = running[w] + 1 /\ begun'[w] = (begun[w] + 1) % Wrap
      BY <2>4 DEF Execute
    <3>2. ~executing[w]
      BY <2>4 DEF Due
    <3>3. running[w] = 0
      BY <1>1, <3>2 DEF FlagIsRun
    <3> HIDE DEF s, e
    <3>4. s + e + 0 = s + e /\ s + e + running[w] = s + e
      BY <2>1, <3>3
    <3>5. Wrap \in Nat \ {0}
      BY SyncEngineAssumption DEF SyncEngineAssumption
    <3>6. (((s + e) % Wrap) + 1) % Wrap = (s + e + 1) % Wrap
      BY <2>1, <3>5, BeginCounted
    <3>7. begun[w] = (s + e) % Wrap
      BY <2>2, <3>4
    <3>8. successCount'[w] + errorCount'[w] + running'[w] = s + e + 1
      BY <2>3, <3>1, <3>3
    <3> QED BY <3>1, <3>6, <3>7, <3>8, Zenon
  <2>5. CASE w \notin ws \cap Due(tick)
    <3>1. running'[w] = running[w] /\ begun'[w] = begun[w]
      BY <2>5 DEF Execute
    <3> QED BY <2>2, <2>3, <3>1
  <2> QED BY <2>4, <2>5
<1> QED BY <1>2 DEF Counted

\* A run that ends is counted once.
LEMMA SettleCounted ==
    ASSUME IInv, Counted, NEW w \in Workers, Succeed(w) \/ Fail(w)
    PROVE  Counted'
<1>1. /\ running[w] > 0
      /\ running' = [running EXCEPT ![w] = @ - 1]
      /\ begun' = begun
  BY DEF Succeed, Fail, Settle
<1>2. TypeOK /\ FlagIsRun
  BY DEF IInv
<1>3. running[w] = 1
  BY <1>1, <1>2 DEF FlagIsRun
<1>4. \/ /\ successCount' = [successCount EXCEPT ![w] = (@ + 1) % Wrap]
         /\ errorCount' = errorCount
      \/ /\ errorCount' = [errorCount EXCEPT ![w] = (@ + 1) % Wrap]
         /\ successCount' = successCount
  BY DEF Succeed, Fail, Settle
<1>5. ASSUME NEW v \in Workers
      PROVE  (successCount'[v] + errorCount'[v] + running'[v]) % Wrap = begun'[v]
  <2> DEFINE s == successCount[v]
             e == errorCount[v]
  <2>1. s \in 0 .. Wrap - 1 /\ e \in 0 .. Wrap - 1
    BY <1>2 DEF TypeOK
  <2>2. (s + e + running[v]) % Wrap = begun[v]
    BY DEF Counted
  <2>3. CASE v # w
    <3>1. successCount'[v] = s /\ errorCount'[v] = e
      BY <1>2, <1>4, <2>3 DEF TypeOK
    <3>2. running'[v] = running[v]
      BY <1>1, <1>2, <2>3 DEF TypeOK
    <3> QED BY <1>1, <2>2, <3>1, <3>2
  <2>4. CASE v = w
    <3>1. running'[v] = 0
      BY <1>1, <1>2, <1>3, <2>4 DEF TypeOK
    <3>2. begun'[v] = (s + e + 1) % Wrap
      BY <1>1, <1>3, <2>2, <2>4
    <3>3. \/ successCount'[v] = (s + 1) % Wrap /\ errorCount'[v] = e
          \/ errorCount'[v] = (e + 1) % Wrap /\ successCount'[v] = s
      BY <1>2, <1>4, <2>4 DEF TypeOK
    <3>4. Wrap \in Nat \ {0}
      BY SyncEngineAssumption DEF SyncEngineAssumption
    <3> HIDE DEF s, e
    <3>5. (((s + 1) % Wrap) + e) % Wrap = (s + e + 1) % Wrap
      BY <2>1, <3>4, EndCounted
    <3>6. (((e + 1) % Wrap) + s) % Wrap = (e + s + 1) % Wrap
      BY <2>1, <3>4, EndCounted
    <3>7. /\ (s + 1) % Wrap \in Int /\ (e + 1) % Wrap \in Int
          /\ e + s + 1 = s + e + 1
      BY <2>1, <3>4
    <3>8. \/ successCount'[v] + errorCount'[v] + running'[v] = ((s + 1) % Wrap) + e
          \/ successCount'[v] + errorCount'[v] + running'[v] = ((e + 1) % Wrap) + s
      BY <2>1, <3>1, <3>3, <3>7
    <3> QED BY <3>2, <3>5, <3>6, <3>7, <3>8
  <2> QED BY <2>3, <2>4
<1> QED BY <1>5 DEF Counted

LEMMA InitCounted == Init => Counted
<1> SUFFICES ASSUME Init PROVE Counted
  OBVIOUS
<1>1. Wrap \in Nat \ {0}
  BY SyncEngineAssumption DEF SyncEngineAssumption
<1>2. 0 % Wrap = 0
  BY <1>1, Z3
<1>3. ASSUME NEW w \in Workers
      PROVE  (successCount[w] + errorCount[w] + running[w]) % Wrap = begun[w]
  <2>1. successCount[w] = 0 /\ errorCount[w] = 0 /\ running[w] = 0 /\ begun[w] = 0
    BY DEF Init, ForAll
  <2>2. successCount[w] + errorCount[w] + running[w] = 0
    BY <2>1
  <2> QED BY <1>2, <2>1, <2>2, Zenon
<1> QED BY <1>3 DEF Counted

LEMMA NextCounted == IInv /\ Counted /\ [Next]_vars => Counted'
<1> SUFFICES ASSUME IInv, Counted, [Next]_vars PROVE Counted'
  OBVIOUS
<1>1. CASE Start \/ Tick \/ HardReset
  <2>1. PICK m : Execute(Workers, tickId, m)
    BY <1>1 DEF Start, Tick, HardReset, Sync
  <2> QED BY <2>1, ExecuteCounted
<1>2. ASSUME NEW w \in Workers, Message(w) PROVE Counted'
  BY <1>2, ExecuteCounted DEF Message
<1>3. ASSUME NEW w \in Workers, Succeed(w) \/ Fail(w) PROVE Counted'
  BY <1>3, SettleCounted
<1>4. CASE Exit
  <2>1. Wrap \in Nat \ {0}
    BY SyncEngineAssumption DEF SyncEngineAssumption
  <2>2. 0 % Wrap = 0
    BY <2>1, Z3
  <2>3. ASSUME NEW w \in Workers
        PROVE  (successCount'[w] + errorCount'[w] + running'[w]) % Wrap = begun'[w]
    <3>1. successCount'[w] = 0 /\ errorCount'[w] = 0 /\ running'[w] = 0 /\ begun'[w] = 0
      BY <1>4 DEF Exit, ForAll
    <3>2. successCount'[w] + errorCount'[w] + running'[w] = 0
      BY <3>1
    <3> QED BY <2>2, <3>1, <3>2, Zenon
  <2> QED BY <2>3 DEF Counted
<1>5. CASE UNCHANGED workerVars
  BY <1>5 DEF workerVars, Counted
<1> QED
  BY <1>1, <1>2, <1>3, <1>4, <1>5
  DEF Next, Reboot, Break, vars, BrokerStart, CountSignature, Launch, Connect,
      Opened, LaunchFails, Close

\* The counts of getStats add up to the runs there were (WorkerBase.execute).
THEOREM CountsAddUp == Spec => []Counted
BY InitCounted, NextCounted, Always, PTL DEF Spec

-----------------------------------------------------------------------------
(* The statistics show the last tick *)

\* Only workers that subscribe ever have a socket.
SocketSubscribed == \A w \in Workers : socket[w] # "none" => w \in Subscribed

MInv == SocketSubscribed /\ MonitorCurrent

\* The tick before the next is the one that the monitoring worker was given.
LEMMA LastTick ==
    ASSUME NEW n \in Nat \ {0}, NEW t \in 0 .. n - 1
    PROVE  (((t + 1) % n) + n - 1) % n = t
<1>1. t \in Int /\ n \in Int /\ n > 0 /\ t >= 0 /\ t < n
  OBVIOUS
<1> QED BY <1>1, Z3

\* A tick that finds the monitoring worker idle is shown.
LEMMA SyncCurrent ==
    ASSUME IInv, NEW m \in Monitor, Sync(m), Quiet
    PROVE  MonitorCurrent'
<1>1. tickId \in 0 .. Period - 1
  BY DEF IInv, TypeOK
<1>2. Monitoring \in Workers /\ TickDivider[Monitoring] = 1
  BY SyncEngineAssumption DEF SyncEngineAssumption
<1>3. tickId % 1 = 0
  BY <1>1
<1>4. Monitoring \in Workers \cap Due(tickId)
  BY <1>2, <1>3 DEF Quiet, Due
<1>5. monitor' = MonitoringWork(m, tickId) /\ tickId' = (tickId + 1) % Period
  BY <1>4 DEF Sync, Execute
<1>6. monitor'.tickId = tickId /\ monitor'.counter = m.signatures
      /\ monitor'.signatures = m.signatures
  BY <1>5 DEF MonitoringWork, Monitor
<1>7. m.signatures \in 0 .. MaxSignatures
  BY DEF Monitor
<1>8. monitor'.counter <= monitor'.signatures
  BY <1>6, <1>7
<1>9. monitor'.tickId = (tickId' + Period - 1) % Period
  <2>1. Period \in Nat \ {0}
    BY SyncEngineAssumption DEF SyncEngineAssumption
  <2>2. (((tickId + 1) % Period) + Period - 1) % Period = tickId
    BY <1>1, <2>1, LastTick
  <2> QED BY <1>5, <1>6, <2>2, Zenon
<1> QED BY <1>8, <1>9 DEF MonitorCurrent

LEMMA InitMInv == Init => MInv
  BY DEF Init, MInv, SocketSubscribed, MonitorCurrent, ForAll

LEMMA NextMInv == IInv /\ MInv /\ [Next]_vars => MInv'
<1> SUFFICES ASSUME IInv, MInv, [Next]_vars PROVE MInv'
  OBVIOUS
<1>1. /\ monitor \in Monitor
      /\ socket \in [Workers -> {"none", "opening", "open", "closed"}]
  BY DEF IInv, TypeOK
<1>2. SocketSubscribed /\ MonitorCurrent
  BY DEF MInv
<1>3. SocketSubscribed'
  <2>1. ASSUME NEW w \in Workers, Connect(w) PROVE SocketSubscribed'
    BY <1>1, <1>2, <2>1 DEF Connect, SocketSubscribed
  <2>2. ASSUME NEW w \in Workers, Opened(w) \/ Close(w) PROVE SocketSubscribed'
    BY <1>1, <1>2, <2>2 DEF Opened, Close, SocketSubscribed
  <2>3. CASE Exit
    BY <2>3 DEF Exit, ForAll, SocketSubscribed
  <2>4. CASE UNCHANGED socket
    BY <1>2, <2>4 DEF SocketSubscribed
  <2>5. ASSUME NEW w \in Workers, Succeed(w) \/ Fail(w) PROVE UNCHANGED socket
    BY <2>5 DEF Succeed, Fail, Settle
  <2> QED
    BY <2>1, <2>2, <2>3, <2>4, <2>5
    DEF Next, Reboot, Break, vars, Start, Tick, HardReset, BrokerStart,
        CountSignature, Launch, LaunchFails, Message
<1>4. MonitorCurrent'
  <2>1. CASE Start \/ Tick
    BY <1>1, <2>1, SyncCurrent DEF Start, Tick
  <2>2. CASE HardReset
    BY <1>1, <2>2, SyncCurrent, ResetTyped DEF HardReset
  <2>3. CASE CountSignature
    <3>1. monitor' = [monitor EXCEPT !.signatures = @ + 1]
          /\ phase' = phase /\ tickId' = tickId
      BY <2>3 DEF CountSignature
    <3>2. monitor'.tickId = monitor.tickId /\ monitor'.counter = monitor.counter
          /\ monitor'.signatures = monitor.signatures + 1
      BY <1>1, <3>1 DEF Monitor
    <3>3. monitor.counter \in Int /\ monitor.signatures \in Int
      BY <1>1 DEF Monitor
    <3> QED BY <1>2, <3>1, <3>2, <3>3 DEF MonitorCurrent
  <2>4. ASSUME NEW w \in Workers, Message(w) PROVE MonitorCurrent'
    <3>1. w \in Subscribed
      BY <1>2, <2>4 DEF Message, SocketSubscribed
    <3>2. Monitoring \notin {w}
      BY <3>1, SyncEngineAssumption DEF SyncEngineAssumption
    <3>3. UNCHANGED <<phase, tickId, monitor>>
      BY <2>4, <3>2 DEF Message, Execute
    <3> QED BY <1>2, <3>3 DEF MonitorCurrent
  <2>5. CASE phase' # "running"
    BY <2>5 DEF MonitorCurrent
  <2>6. CASE UNCHANGED <<phase, tickId, monitor>>
    BY <1>2, <2>6 DEF MonitorCurrent
  <2>7. ASSUME NEW w \in Workers, Succeed(w) \/ Fail(w)
        PROVE  UNCHANGED <<phase, tickId, monitor>>
    BY <2>7 DEF Succeed, Fail, Settle
  <2> QED
    BY <2>1, <2>2, <2>3, <2>4, <2>5, <2>6, <2>7
    DEF Next, Reboot, Break, Exit, vars, BrokerStart, Launch, Connect, Opened,
        LaunchFails, Close
<1> QED BY <1>3, <1>4 DEF MInv

\* While the service runs the statistics show the tick that was last, and the
\* speed counter is not ahead of the signatures (MonitoringWorker).
THEOREM MonitorAlways == Spec => []MonitorCurrent
<1>1. Spec => []MInv
  BY InitMInv, NextMInv, Always, PTL DEF Spec
<1> QED BY <1>1, PTL DEF MInv
=============================================================================
