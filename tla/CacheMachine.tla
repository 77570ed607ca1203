---------------------------- MODULE CacheMachine ----------------------------
(***************************************************************************)
(* common-service/utils/CacheMachine.ts: the read-through cache between    *)
(* the web3 handlers and the chain.  A call computes its key, looks it up, *)
(* and on a miss asks the source, stores the answer and arms a timer that  *)
(* will drop the entry.  Nothing makes two calls for one key wait for each *)
(* other: every await is a point where the other calls, the timers and the *)
(* source move on.                                                         *)
(*                                                                         *)
(* The source of a key is a version that only grows (for BLOCK_KEY the     *)
(* timestamp of the chain head); an answer is the version read while the   *)
(* callback was under way.  Time is relative: an armed timer counts the    *)
(* ticks that are left before it must have fired.                          *)
(***************************************************************************)
EXTENDS Integers, FiniteSets

CONSTANTS
    Callers,    \* calls that may be under way at the same time
    Keys,       \* cache keys
    TimeOut,    \* TimeOut[k]: the timeOut argument used with key k, 0 if none
    Horizon,    \* no timer has more ticks left than this
    Lag,        \* how many ticks after its due time a timer may still fire
    MaxVersion, \* bound on the versions a source goes through
    MaxArmed    \* bound on the timers of a key that are due in the same tick

ASSUME CacheAssumption ==
    /\ Keys # {}
    /\ TimeOut \in [Keys -> Nat]
    /\ Lag \in Nat
    /\ Horizon \in Nat
    /\ \A k \in Keys : TimeOut[k] + Lag <= Horizon

VARIABLES
    source,  \* the version each source is at
    map,     \* the Map of the cache: an entry or NoEntry for each key
    calls,   \* where each call stands
    timers   \* timers[k][l]: how many timers of k have l ticks left

vars == <<source, map, calls, timers>>

NoEntry == [set |-> FALSE]

\* age: the ticks since the entry was set, counted as far as Horizon + 1 (0 for
\* ever when it has no time-out)
Entries == [set : {TRUE}, value : Nat, age : Nat]

\* value: the answer, once there is one; since: while a call has not settled,
\* the version the source was at when it was made
CallStates == {"idle", "keyed", "asked", "answered", "done", "failed"}
Call == [st : CallStates, key : Keys, value : Nat, since : Nat]
NoCall == [st |-> "idle", key |-> CHOOSE k \in Keys : TRUE, value |-> 0,
           since |-> 0]

InFlight == {"keyed", "asked", "answered"}
Deadline(k) == TimeOut[k] + Lag

TypeOK ==
    /\ source \in [Keys -> Nat]
    /\ map \in [Keys -> Entries \cup {NoEntry}]
    /\ calls \in [Callers -> Call]
    /\ timers \in [Keys -> [0..Horizon -> Nat]]

\* const cacheMachine = new CacheMachine()
Empty ==
    /\ map = [k \in Keys |-> NoEntry]
    /\ calls = [c \in Callers |-> NoCall]
    /\ timers = [k \in Keys |-> [l \in 0..Horizon |-> 0]]

Init ==
    /\ source = [k \in Keys |-> 0]
    /\ Empty

-----------------------------------------------------------------------------

\* Bound: a new call waits until the timers due together cannot exceed MaxArmed.
RoomFor(k) ==
    timers[k][Deadline(k)]
      + Cardinality({c \in Callers : calls[c].st \in InFlight /\ calls[c].key = k})
      < MaxArmed

\* call() is entered and awaits keyFn(); key[c] is the key of each caller c that
\* enters in this step (a Promise.all starts several calls at once).
EnterAll(key) ==
    /\ \A c \in DOMAIN key : calls[c].st \notin InFlight
    /\ calls' = [c \in Callers |->
                   IF c \in DOMAIN key
                   THEN [st |-> "keyed", key |-> key[c], value |-> 0,
                         since |-> source[key[c]]]
                   ELSE calls[c]]
    /\ UNCHANGED <<source, map, timers>>

Enter(c, k) == RoomFor(k) /\ EnterAll([x \in {c} |-> k])

\* Deviation of Arm: the time-out is given in the wrong unit.
ArmLonger(k) ==
    IF TimeOut[k] = 0 THEN timers ELSE [timers EXCEPT ![k][Horizon] = @ + 1]

\* Deviation of Arm: no timer at all.
ArmNever(k) == timers

\* Deviation of Resolve: the first fill of an entry wins.
ResolveFirstWins(c) ==
    LET k == calls[c].key
        v == IF map[k].set THEN map[k].value ELSE calls[c].value
    IN  /\ calls[c].st = "answered"
        /\ map' = [map EXCEPT ![k] = [set |-> TRUE, value |-> v, age |-> 0]]
        /\ timers' = IF TimeOut[k] = 0 THEN timers
                     ELSE [timers EXCEPT ![k][Deadline(k)] = @ + 1]
        /\ calls' = [calls EXCEPT ![c].st = "done", ![c].since = 0,
                                  ![c].value = v]
        /\ UNCHANGED source

\* Deviation of Hit: an entry that is used lives on.
HitSlides(c) ==
    LET k == calls[c].key
    IN  /\ calls[c].st = "keyed"
        /\ map[k].set
        /\ calls' = [calls EXCEPT ![c].st = "done", ![c].since = 0,
                                  ![c].value = map[k].value]
        /\ map' = [map EXCEPT ![k].age = 0]
        /\ timers' = IF TimeOut[k] = 0 THEN timers
                     ELSE [timers EXCEPT ![k] = [l \in 0..Horizon |->
                             IF l = Deadline(k) THEN 1 ELSE 0]]
        /\ UNCHANGED source

\* Deviation of Reject: an error invalidates the key.
RejectInvalidates(c) ==
    /\ calls[c].st \in {"asked", "answered"}
    /\ calls' = [calls EXCEPT ![c].st = "failed", ![c].since = 0,
                              ![c].value = 0]
    /\ map' = [map EXCEPT ![calls[c].key] = NoEntry]
    /\ UNCHANGED <<source, timers>>

-----------------------------------------------------------------------------

\* The key is there: return what the map holds.
Hit(c) ==
    LET k == calls[c].key
    IN  /\ calls[c].st = "keyed"
        /\ map[k].set
        /\ calls' = [calls EXCEPT ![c].st = "done", ![c].since = 0,
                                  ![c].value = map[k].value]
        /\ UNCHANGED <<source, map, timers>>

\* The key is not there: callbackFn() is invoked and awaited.
Miss(c) ==
    /\ calls[c].st = "keyed"
    /\ ~ map[calls[c].key].set
    /\ calls' = [calls EXCEPT ![c].st = "asked"]
    /\ UNCHANGED <<source, map, timers>>

\* The remote end of the callback reads the version its answer will carry.
Read(c) ==
    /\ calls[c].st = "asked"
    /\ calls' = [calls EXCEPT ![c].st = "answered",
                              ![c].value = source[calls[c].key]]
    /\ UNCHANGED <<source, map, timers>>

\* setTimeout(..., timeOut), armed only when there is a time-out.
Arm(k) ==
    IF TimeOut[k] = 0 THEN timers
    ELSE [timers EXCEPT ![k][Deadline(k)] = @ + 1]

\* The callback resolves: store the answer, arm the timer, return the answer.
Resolve(c) ==
    LET k == calls[c].key
    IN  /\ calls[c].st = "answered"
        /\ map' = [map EXCEPT ![k] = [set |-> TRUE, value |-> calls[c].value,
                                      age |-> 0]]
        /\ timers' = Arm(k)
        /\ calls' = [calls EXCEPT ![c].st = "done", ![c].since = 0]
        /\ UNCHANGED source

\* The callback rejects: the call rejects and leaves the map alone.
Reject(c) ==
    /\ calls[c].st \in {"asked", "answered"}
    /\ calls' = [calls EXCEPT ![c].st = "failed", ![c].since = 0,
                              ![c].value = 0]
    /\ UNCHANGED <<source, map, timers>>

\* A due timer of k fires and deletes whatever the map holds under k by now.
Expire(k) ==
    \E l \in 0..Lag :
        /\ timers[k][l] > 0
        /\ timers' = [timers EXCEPT ![k][l] = @ - 1]
        /\ map' = [map EXCEPT ![k] = NoEntry]
        /\ UNCHANGED <<source, calls>>

\* Time passes; no timer is more than Lag ticks late.
Older(k) ==
    IF map[k].set /\ TimeOut[k] # 0 /\ map[k].age <= Horizon
    THEN [map[k] EXCEPT !.age = @ + 1] ELSE map[k]

Tick ==
    /\ \A k \in Keys : timers[k][0] = 0
    /\ timers' = [k \in Keys |-> [l \in 0..Horizon |->
                    IF l < Horizon THEN timers[k][l + 1] ELSE 0]]
    /\ map' = [k \in Keys |-> Older(k)]
    /\ UNCHANGED <<source, calls>>

\* The source moves on, whatever the cache does.
Advance(k) ==
    /\ source[k] < MaxVersion
    /\ source' = [source EXCEPT ![k] = @ + 1]
    /\ UNCHANGED <<map, calls, timers>>

Step(c) == Hit(c) \/ Miss(c) \/ Read(c) \/ Resolve(c) \/ Reject(c)

Next ==
    \/ \E c \in Callers : Step(c) \/ \E k \in Keys : Enter(c, k)
    \/ \E k \in Keys : Expire(k) \/ Advance(k)
    \/ Tick

\* The event loop runs what is ready and time passes.  That a source answers
\* or rejects at all is an assumption: no request of the code has a time-out.
Fairness ==
    /\ \A c \in Callers : WF_vars(Step(c))
    /\ \A k \in Keys : WF_vars(Expire(k))
    /\ WF_vars(Tick)

Spec == Init /\ [][Next]_vars /\ Fairness

-----------------------------------------------------------------------------
(* The cache in a service: without the bounds, whose only purpose is a finite *)
(* state space, and with whatever its users and their sources may do.         *)

\* A user starts calls, any number at once.
Begin == \E C \in SUBSET Callers : \E key \in [C -> Keys] : EnterAll(key)

\* Sources move on, any of them and any way.
Move ==
    /\ source' \in [Keys -> Nat]
    /\ \A k \in Keys : source'[k] >= source[k]
    /\ UNCHANGED <<map, calls, timers>>

Use ==
    \/ \E c \in Callers : Step(c)
    \/ \E k \in Keys : Expire(k)
    \/ Begin \/ Move \/ Tick

InService == source \in [Keys -> Nat] /\ Empty /\ [][Use]_vars

-----------------------------------------------------------------------------
(* Safety *)

\* An entry that has a time-out is always covered by an armed timer that will
\* fire before the entry is older than the time-out and the timers' lag.
TimerCovers ==
    \A k \in Keys : TimeOut[k] # 0 /\ map[k].set =>
        \E l \in 0..Horizon : timers[k][l] > 0 /\ l + map[k].age <= Deadline(k)

\* What a hit returns was stored at most a time-out (and the lag) ago, even when
\* fills overlap and one fill's timer drops another fill's entry.
EntryAgeBounded ==
    \A k \in Keys : TimeOut[k] # 0 /\ map[k].set => map[k].age <= Deadline(k)

\* What the map holds and what a call returns is an answer of the key's own
\* source, never a version that source has not reached.
OwnAnswers ==
    /\ \A k \in Keys : map[k].set => map[k].value <= source[k]
    /\ \A c \in Callers : calls[c].st \in {"answered", "done"} =>
           calls[c].value <= source[calls[c].key]

\* A call that missed returns nothing older than the moment it was made.
MissFresh ==
    [][\A c \in Callers : calls[c].st = "answered" /\ calls'[c].st = "done" =>
         calls'[c].value >= calls[c].since]_calls

\* A key without time-out, once filled, is never asked for again by a call
\* that looks it up later: its entry can be overwritten but not dropped.
SettingsKept ==
    [][\A k \in Keys : TimeOut[k] = 0 /\ map[k].set => map'[k].set]_map

-----------------------------------------------------------------------------
(* What the callers rely on *)

\* How a call gets its answer is its own affair until it ends.
Seen(c) ==
    IF calls[c].st \in InFlight
    THEN [st |-> "pending", key |-> calls[c].key, value |-> 0, since |-> calls[c].since]
    ELSE calls[c]

Bounded == INSTANCE BoundedCache WITH
    held <- map,
    calls <- [c \in Callers |-> Seen(c)],
    Timed <- {k \in Keys : TimeOut[k] # 0},
    Bound <- [k \in Keys |-> Deadline(k)]

\* The cache implements BoundedCache, fairness included: what a call returns was
\* read from its source since the call was made, or had been stored at most a
\* time-out (and the lag) before, and no call is left without an end.
ImplementsBoundedCache == Bounded!Spec

-----------------------------------------------------------------------------
(* Liveness *)

\* Once the source has stopped moving, the cache comes to hold its last version
\* or nothing: an answer overtaken by a newer one does not stay in the map.
Converges ==
    \A k \in Keys : TimeOut[k] # 0 =>
        <>[](map[k].set => map[k].value = source[k])
=============================================================================
