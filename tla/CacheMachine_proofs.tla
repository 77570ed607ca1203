------------------------ MODULE CacheMachine_proofs ------------------------
(***************************************************************************)
(* For every set of keys and of overlapping calls: the age of a cached     *)
(* entry is bounded by its time-out, and the cache returns only what a     *)
(* key's own source has answered.  What is proved is proved of the cache   *)
(* in service (InService), so that it holds of the cache in each module    *)
(* that uses it; Spec is the smallest service.                             *)
(***************************************************************************)
EXTENDS CacheMachine, TLAPS

Timers == [Keys -> [0..Horizon -> Nat]]

LEMMA DeadlineType ==
    ASSUME NEW k \in Keys
    PROVE  Deadline(k) \in 0..Horizon /\ TimeOut[k] \in Nat
BY CacheAssumption DEF Deadline

LEMMA ArmType ==
    ASSUME TypeOK, NEW k \in Keys
    PROVE  Arm(k) \in Timers
<1>1. Deadline(k) \in 0..Horizon
  BY DeadlineType
<1>2. timers[k] \in [0..Horizon -> Nat]
  BY DEF TypeOK
<1> DEFINE f == timers[k]
           d == Deadline(k)
<1>3. f[d] + 1 \in Nat
  <2>1. f[d] \in Nat
    BY <1>1, <1>2
  <2> QED
    BY <2>1
<1> HIDE DEF d, f
<1>4. [f EXCEPT ![d] = f[d] + 1] \in [0..Horizon -> Nat]
  BY <1>1, <1>2, <1>3 DEF f
<1> QED
  BY <1>1, <1>4 DEF Arm, TypeOK, Timers, d, f

LEMMA EntryType ==
    ASSUME NEW v \in Nat, NEW n \in Nat
    PROVE  [set |-> TRUE, value |-> v, age |-> n] \in Entries
BY DEF Entries

LEMMA SetEntry ==
    ASSUME TypeOK, NEW k \in Keys, map[k].set
    PROVE  /\ map[k] \in Entries
           /\ map[k].value \in Nat /\ map[k].age \in Nat
<1>1. map[k] \in Entries \/ map[k] = NoEntry
  BY DEF TypeOK
<1>2. ~ NoEntry.set
  BY DEF NoEntry
<1>3. map[k] \in Entries
  BY <1>1, <1>2
<1> QED
  BY <1>3 DEF Entries

LEMMA StartTyped ==
    ASSUME source \in [Keys -> Nat], Empty
    PROVE  TypeOK
<1>1. NoCall \in Call
  BY CacheAssumption DEF NoCall, Call, CallStates
<1> QED
  BY <1>1 DEF Empty, TypeOK

LEMMA TypeStep ==
    ASSUME TypeOK, [Use]_vars
    PROVE  TypeOK'
<1>1. ASSUME Begin PROVE TypeOK'
  <2>1. PICK C \in SUBSET Callers : \E key \in [C -> Keys] : EnterAll(key)
    BY <1>1 DEF Begin
  <2>2. PICK key \in [C -> Keys] : EnterAll(key)
    BY <2>1
  <2> QED
    BY <2>2 DEF EnterAll, TypeOK, Call, CallStates
<1>2. ASSUME NEW c \in Callers, Hit(c) PROVE TypeOK'
  <2>1. calls[c].key \in Keys
    BY DEF TypeOK, Call
  <2>2. map[calls[c].key].value \in Nat
    BY <1>2, <2>1, SetEntry DEF Hit
  <2>3. calls' \in [Callers -> Call]
    <3> DEFINE v == map[calls[c].key].value
               r == [calls[c] EXCEPT !.st = "done", !.since = 0, !.value = v]
    <3>1. calls' = [calls EXCEPT ![c] = r]
      BY <1>2 DEF Hit, TypeOK
    <3>2. calls[c] \in Call /\ v \in Nat
      BY <2>2 DEF TypeOK
    <3> HIDE DEF v
    <3>3. r \in Call
      BY <3>2 DEF Call, CallStates
    <3> HIDE DEF r
    <3> QED
      BY <3>1, <3>3 DEF TypeOK
  <2> QED
    BY <1>2, <2>3 DEF Hit, TypeOK
<1>3. ASSUME NEW c \in Callers, Miss(c) PROVE TypeOK'
  BY <1>3 DEF Miss, TypeOK, Call, CallStates
<1>4. ASSUME NEW c \in Callers, Read(c) PROVE TypeOK'
  BY <1>4 DEF Read, TypeOK, Call, CallStates
<1>5. ASSUME NEW c \in Callers, Resolve(c) PROVE TypeOK'
  <2>1. calls[c].key \in Keys /\ calls[c].value \in Nat
    BY DEF TypeOK, Call
  <2>2. [set |-> TRUE, value |-> calls[c].value, age |-> 0] \in Entries
    BY <2>1, EntryType
  <2>3. timers' \in Timers
    BY <1>5, <2>1, ArmType DEF Resolve
  <2>4. map' \in [Keys -> Entries \cup {NoEntry}] /\ source' = source
    BY <1>5, <2>1, <2>2 DEF Resolve, TypeOK
  <2>5. calls' \in [Callers -> Call]
    <3> DEFINE r == [calls[c] EXCEPT !.st = "done", !.since = 0]
    <3>1. calls' = [calls EXCEPT ![c] = r] /\ calls[c] \in Call
      BY <1>5 DEF Resolve, TypeOK
    <3>2. r \in Call
      BY <3>1 DEF Call, CallStates
    <3> HIDE DEF r
    <3> QED
      BY <3>1, <3>2 DEF TypeOK
  <2> QED
    BY <2>3, <2>4, <2>5 DEF TypeOK, Timers
<1>6. ASSUME NEW c \in Callers, Reject(c) PROVE TypeOK'
  <2> DEFINE r == [calls[c] EXCEPT !.st = "failed", !.since = 0, !.value = 0]
  <2>1. calls' = [calls EXCEPT ![c] = r] /\ calls[c] \in Call
    BY <1>6 DEF Reject, TypeOK
  <2>2. r \in Call
    BY <2>1 DEF Call, CallStates
  <2> HIDE DEF r
  <2> QED
    BY <1>6, <2>1, <2>2 DEF Reject, TypeOK
<1>7. ASSUME NEW k \in Keys, Expire(k) PROVE TypeOK'
  <2>1. PICK l \in 0..Lag : /\ timers[k][l] > 0
                            /\ timers' = [timers EXCEPT ![k][l] = @ - 1]
    BY <1>7 DEF Expire
  <2>2. l \in 0..Horizon /\ timers[k] \in [0..Horizon -> Nat]
    <3>1. TimeOut[k] \in Nat /\ Lag \in Nat /\ Horizon \in Nat /\ TimeOut[k] + Lag <= Horizon
      BY CacheAssumption
    <3>2. l \in 0..Horizon
      BY <2>1, <3>1
    <3> QED
      BY <3>2 DEF TypeOK
  <2>3. timers[k][l] - 1 \in Nat
    <3>1. timers[k][l] \in Nat
      BY <2>2
    <3> QED
      BY <2>1, <3>1
  <2>4. [timers[k] EXCEPT ![l] = @ - 1] \in [0..Horizon -> Nat]
    BY <2>2, <2>3
  <2>5. timers' \in Timers
    BY <2>1, <2>4 DEF TypeOK, Timers
  <2> QED
    BY <1>7, <2>5 DEF Expire, TypeOK, Timers
<1>8. ASSUME Tick PROVE TypeOK'
  <2>1. timers' \in Timers
    <3>1. \A k \in Keys : [l \in 0..Horizon |-> IF l < Horizon THEN timers[k][l + 1] ELSE 0]
                            \in [0..Horizon -> Nat]
      BY CacheAssumption DEF TypeOK
    <3> QED
      BY <1>8, <3>1 DEF Tick, Timers
  <2>2. \A k \in Keys : Older(k) \in Entries \cup {NoEntry}
    <3>1. SUFFICES ASSUME NEW k \in Keys PROVE Older(k) \in Entries \cup {NoEntry}
      OBVIOUS
    <3>2. CASE map[k].set /\ TimeOut[k] # 0
      <4>1. map[k] \in Entries /\ map[k].age + 1 \in Nat
        BY <3>2, SetEntry
      <4> QED
        BY <3>2, <4>1 DEF Older, Entries
    <3> QED
      BY <3>2 DEF Older, TypeOK
  <2> QED
    BY <1>8, <2>1, <2>2 DEF Tick, TypeOK, Timers
<1>9. ASSUME Move PROVE TypeOK'
  BY <1>9 DEF Move, TypeOK
<1>10. CASE UNCHANGED vars
  BY <1>10 DEF vars, TypeOK
<1> QED
  BY <1>1, <1>2, <1>3, <1>4, <1>5, <1>6, <1>7, <1>8, <1>9, <1>10 DEF Use, Step

\* A step of a call leaves its key, and the other calls.
LEMMA StepKeepsKeys ==
    ASSUME TypeOK, NEW c \in Callers, Step(c)
    PROVE  /\ calls[c].st # "idle" /\ calls'[c].key = calls[c].key
           /\ \A d \in Callers \ {c} : calls'[d] = calls[d]
           /\ UNCHANGED source
<1>1. calls[c] \in Call
  BY DEF TypeOK
<1> QED
  BY <1>1 DEF Step, Hit, Miss, Read, Resolve, Reject, TypeOK, Call

-----------------------------------------------------------------------------

LEMMA TimerType ==
    ASSUME TypeOK, NEW k \in Keys, NEW l \in 0..Horizon
    PROVE  timers[k][l] \in Nat /\ timers[k] \in [0..Horizon -> Nat]
BY DEF TypeOK

LEMMA TimerCoversStep ==
    ASSUME TypeOK, TypeOK', TimerCovers, [Use]_vars
    PROVE  TimerCovers'
<1> SUFFICES ASSUME NEW k \in Keys, TimeOut[k] # 0, map'[k].set
             PROVE  \E l \in 0..Horizon : timers'[k][l] > 0 /\ l + map'[k].age <= Deadline(k)
  BY DEF TimerCovers, Deadline
<1>1. Deadline(k) \in 0..Horizon /\ Deadline(k) \in Nat /\ Horizon \in Nat
  BY DeadlineType, CacheAssumption
<1>2. ASSUME map'[k] = map[k], timers'[k] = timers[k]
      PROVE  \E l \in 0..Horizon : timers'[k][l] > 0 /\ l + map'[k].age <= Deadline(k)
  BY <1>2 DEF TimerCovers
<1>3. ASSUME NEW c \in Callers, Resolve(c)
      PROVE  \E l \in 0..Horizon : timers'[k][l] > 0 /\ l + map'[k].age <= Deadline(k)
  <2>1. CASE calls[c].key = k
    <3>1. map'[k].age = 0
      BY <1>3, <2>1 DEF Resolve, TypeOK
    <3>2. timers'[k][Deadline(k)] = timers[k][Deadline(k)] + 1
      BY <1>1, <1>3, <2>1, TimerType DEF Resolve, Arm, TypeOK
    <3>3. timers[k][Deadline(k)] \in Nat
      BY <1>1, TimerType
    <3> QED
      BY <1>1, <3>1, <3>2, <3>3
  <2>2. CASE calls[c].key # k
    BY <1>2, <1>3, <2>2 DEF Resolve, Arm, TypeOK
  <2> QED
    BY <2>1, <2>2
<1>4. ASSUME NEW j \in Keys, Expire(j)
      PROVE  \E l \in 0..Horizon : timers'[k][l] > 0 /\ l + map'[k].age <= Deadline(k)
  <2>1. j # k
    BY <1>4 DEF Expire, TypeOK, NoEntry
  <2> QED
    BY <1>2, <1>4, <2>1 DEF Expire, TypeOK
<1>5. ASSUME Tick
      PROVE  \E l \in 0..Horizon : timers'[k][l] > 0 /\ l + map'[k].age <= Deadline(k)
  <2>1. map'[k] = Older(k) /\ timers[k][0] = 0
    BY <1>5 DEF Tick
  <2>2. map[k].set
    BY <2>1 DEF Older
  <2>3. map[k] \in Entries /\ map[k].age \in Nat
    BY <2>2, SetEntry
  <2>4. map'[k].age \in {map[k].age, map[k].age + 1}
    BY <2>1, <2>2, <2>3 DEF Older, Entries
  <2>5. PICK l \in 0..Horizon : timers[k][l] > 0 /\ l + map[k].age <= Deadline(k)
    BY <2>2 DEF TimerCovers
  <2>6. l # 0
    BY <2>1, <2>5
  <2>7. l - 1 \in 0..Horizon /\ l - 1 < Horizon /\ (l - 1) + 1 = l
    BY <1>1, <2>5, <2>6
  <2>8. timers'[k][l - 1] = timers[k][l]
    BY <1>5, <2>7 DEF Tick
  <2> QED
    BY <1>1, <2>3, <2>4, <2>5, <2>7, <2>8
<1>6. CASE \/ \E c \in Callers : Hit(c) \/ Miss(c) \/ Read(c) \/ Reject(c)
           \/ Begin \/ Move \/ UNCHANGED vars
  <2>1. UNCHANGED <<map, timers>>
    BY <1>6 DEF Hit, Miss, Read, Reject, Begin, EnterAll, Move, vars
  <2> QED
    BY <1>2, <2>1
<1> QED
  BY <1>3, <1>4, <1>5, <1>6 DEF Use, Step

LEMMA CoveredIsBounded ==
    ASSUME TypeOK, TimerCovers
    PROVE  EntryAgeBounded
<1> SUFFICES ASSUME NEW k \in Keys, TimeOut[k] # 0, map[k].set
             PROVE  map[k].age <= Deadline(k)
  BY DEF EntryAgeBounded
<1>1. PICK l \in 0..Horizon : l + map[k].age <= Deadline(k)
  BY DEF TimerCovers
<1>2. map[k].age \in Nat /\ Deadline(k) \in Nat /\ Horizon \in Nat
  BY SetEntry, DeadlineType, CacheAssumption
<1> QED
  BY <1>1, <1>2

-----------------------------------------------------------------------------

\* Time changes the age of an entry, not its value.
LEMMA TickKeepsValues ==
    ASSUME TypeOK, Tick, NEW k \in Keys, map'[k].set
    PROVE  map[k].set /\ map'[k].value = map[k].value
<1>1. map'[k] = Older(k)
  BY DEF Tick
<1>2. map[k].set
  BY <1>1 DEF Older
<1>3. map[k] \in Entries
  BY <1>2, SetEntry
<1> QED
  BY <1>1, <1>2, <1>3 DEF Older, Entries

LEMMA OwnStep ==
    ASSUME TypeOK, OwnAnswers, [Use]_vars
    PROVE  OwnAnswers'
<1>1. /\ \A c \in Callers : calls[c].key \in Keys /\ calls[c].value \in Nat
      /\ \A k \in Keys : source[k] \in Nat
  BY DEF TypeOK, Call
<1>2. ASSUME Begin PROVE OwnAnswers'
  BY <1>2 DEF Begin, EnterAll, OwnAnswers
<1>3. ASSUME NEW c \in Callers, Hit(c) PROVE OwnAnswers'
  BY <1>1, <1>3 DEF Hit, OwnAnswers, TypeOK, Call
<1>4. ASSUME NEW c \in Callers, Miss(c) PROVE OwnAnswers'
  BY <1>4 DEF Miss, OwnAnswers, TypeOK, Call
<1>5. ASSUME NEW c \in Callers, Read(c) PROVE OwnAnswers'
  BY <1>1, <1>5 DEF Read, OwnAnswers, TypeOK, Call
<1>6. ASSUME NEW c \in Callers, Resolve(c) PROVE OwnAnswers'
  BY <1>1, <1>6 DEF Resolve, OwnAnswers, TypeOK, Call
<1>7. ASSUME NEW c \in Callers, Reject(c) PROVE OwnAnswers'
  BY <1>7 DEF Reject, OwnAnswers, TypeOK, Call
<1>8. ASSUME NEW k \in Keys, Expire(k) PROVE OwnAnswers'
  BY <1>8 DEF Expire, OwnAnswers, TypeOK, NoEntry
<1>9. ASSUME Tick PROVE OwnAnswers'
  BY <1>9, TickKeepsValues DEF Tick, OwnAnswers
<1>10. ASSUME Move PROVE OwnAnswers'
  <2>1. \A j \in Keys : source'[j] >= source[j] /\ source'[j] \in Nat
    BY <1>10 DEF Move
  <2>2. \A j \in Keys : map[j].set => map[j].value \in Nat
    BY SetEntry
  <2> QED
    BY <1>1, <1>10, <2>1, <2>2 DEF Move, OwnAnswers
<1>11. CASE UNCHANGED vars
  BY <1>11 DEF vars, OwnAnswers
<1> QED
  BY <1>2, <1>3, <1>4, <1>5, <1>6, <1>7, <1>8, <1>9, <1>10, <1>11 DEF Use, Step

-----------------------------------------------------------------------------

\* v is all that the source of k has ever been at, as far as the cache knows.
Steady(k, v) ==
    /\ source[k] = v
    /\ map[k].set => map[k].value = v
    /\ \A c \in Callers :
         calls[c].st \in {"answered", "done"} /\ calls[c].key = k => calls[c].value = v

LEMMA SteadyStep ==
    ASSUME TypeOK, NEW k \in Keys, NEW v, Steady(k, v), [Use]_vars, source'[k] = source[k]
    PROVE  Steady(k, v)'
<1>1. source'[k] = v
  BY DEF Steady
<1>2. ASSUME NEW c \in Callers, Step(c) PROVE Steady(k, v)'
  <2>1. calls[c] \in Call /\ calls'[c].key = calls[c].key
    BY <1>2, StepKeepsKeys DEF TypeOK
  <2>2. ASSUME calls'[c].st \in {"answered", "done"}, calls[c].key = k
        PROVE  calls'[c].value = v
    <3>1. CASE Hit(c)
      BY <2>1, <2>2, <3>1 DEF Hit, Steady, TypeOK, Call
    <3>2. ~ Miss(c)
      BY <2>1, <2>2 DEF Miss, TypeOK, Call
    <3>3. CASE Read(c)
      BY <2>1, <2>2, <3>3 DEF Read, Steady, TypeOK, Call
    <3>4. CASE Resolve(c)
      BY <2>1, <2>2, <3>4 DEF Resolve, Steady, TypeOK, Call
    <3>5. ~ Reject(c)
      BY <2>1, <2>2 DEF Reject, TypeOK, Call
    <3> QED
      BY <1>2, <3>1, <3>2, <3>3, <3>4, <3>5 DEF Step
  <2>3. \A d \in Callers :
          calls'[d].st \in {"answered", "done"} /\ calls'[d].key = k => calls'[d].value = v
    BY <1>2, <2>1, <2>2, StepKeepsKeys DEF Steady
  <2>4. map'[k].set => map'[k].value = v
    <3>1. CASE Resolve(c)
      BY <2>1, <3>1 DEF Resolve, Steady, TypeOK, Call
    <3>2. CASE UNCHANGED map
      BY <3>2 DEF Steady
    <3> QED
      BY <1>2, <3>1, <3>2 DEF Step, Hit, Miss, Read, Reject
  <2> QED
    BY <1>1, <2>3, <2>4 DEF Steady
<1>3. CASE Begin
  BY <1>1, <1>3 DEF Begin, EnterAll, Steady
<1>4. ASSUME NEW j \in Keys, Expire(j) PROVE Steady(k, v)'
  BY <1>1, <1>4 DEF Expire, Steady, TypeOK, NoEntry
<1>5. CASE Tick
  BY <1>1, <1>5, TickKeepsValues DEF Tick, Steady
<1>6. CASE Move
  BY <1>1, <1>6 DEF Move, Steady
<1>7. CASE UNCHANGED vars
  BY <1>7 DEF vars, Steady
<1> QED
  BY <1>2, <1>3, <1>4, <1>5, <1>6, <1>7 DEF Use

-----------------------------------------------------------------------------

\* Nothing is armed for a key without time-out.
NoTimer == \A k \in Keys : TimeOut[k] = 0 => \A l \in 0..Horizon : timers[k][l] = 0

LEMMA NoTimerStep ==
    ASSUME TypeOK, NoTimer, [Use]_vars
    PROVE  NoTimer'
<1> SUFFICES ASSUME NEW k \in Keys, TimeOut[k] = 0, NEW l \in 0..Horizon
             PROVE  timers'[k][l] = 0
  BY DEF NoTimer
<1>1. timers[k] \in [0..Horizon -> Nat] /\ timers[k][l] = 0
  BY DEF TypeOK, NoTimer
<1>2. ASSUME NEW c \in Callers, Resolve(c) PROVE timers'[k][l] = 0
  BY <1>1, <1>2 DEF Resolve, Arm, TypeOK
<1>3. ASSUME NEW j \in Keys, Expire(j) PROVE timers'[k][l] = 0
  <2>1. PICK i \in 0..Lag : timers[j][i] > 0 /\ timers' = [timers EXCEPT ![j][i] = @ - 1]
    BY <1>3 DEF Expire
  <2>2. i \in 0..Horizon
    <3>1. TimeOut[j] \in Nat /\ Lag \in Nat /\ Horizon \in Nat /\ TimeOut[j] + Lag <= Horizon
      BY CacheAssumption
    <3> QED
      BY <2>1, <3>1
  <2>3. j # k
    BY <2>1, <2>2 DEF NoTimer
  <2> QED
    BY <1>1, <2>1, <2>3 DEF TypeOK
<1>4. CASE Tick
  <2>1. timers'[k][l] = IF l < Horizon THEN timers[k][l + 1] ELSE 0
    BY <1>4 DEF Tick
  <2>2. l < Horizon => l + 1 \in 0..Horizon
    BY CacheAssumption
  <2> QED
    BY <2>1, <2>2 DEF NoTimer
<1>5. CASE UNCHANGED timers
  BY <1>1, <1>5
<1> QED
  BY <1>2, <1>3, <1>4, <1>5
     DEF Use, Step, Begin, EnterAll, Hit, Miss, Read, Reject, Move, vars

\* What a key without time-out holds stays.
Stays == \A k \in Keys : TimeOut[k] = 0 /\ map[k].set => map'[k].set

LEMMA StaysStep ==
    ASSUME TypeOK, NoTimer, [Use]_vars
    PROVE  Stays
<1> SUFFICES ASSUME NEW k \in Keys, TimeOut[k] = 0, map[k].set
             PROVE  map'[k].set
  BY DEF Stays
<1>1. ASSUME NEW c \in Callers, Resolve(c) PROVE map'[k].set
  BY <1>1 DEF Resolve, TypeOK
<1>2. ASSUME NEW j \in Keys, Expire(j) PROVE map'[k].set
  <2>1. PICK i \in 0..Lag : timers[j][i] > 0
    BY <1>2 DEF Expire
  <2>2. i \in 0..Horizon
    <3>1. TimeOut[j] \in Nat /\ Lag \in Nat /\ Horizon \in Nat /\ TimeOut[j] + Lag <= Horizon
      BY CacheAssumption
    <3> QED
      BY <2>1, <3>1
  <2>3. j # k
    BY <2>1, <2>2 DEF NoTimer
  <2> QED
    BY <1>2, <2>3 DEF Expire, TypeOK
<1>3. CASE Tick
  BY <1>3 DEF Tick, Older
<1>4. CASE UNCHANGED map
  BY <1>4
<1> QED
  BY <1>1, <1>2, <1>3, <1>4
     DEF Use, Step, Begin, EnterAll, Hit, Miss, Read, Reject, Move, vars

-----------------------------------------------------------------------------

\* A call has seen its source no earlier than it was made.
ReadSince ==
    \A c \in Callers :
        /\ calls[c].st \in InFlight => calls[c].since <= source[calls[c].key]
        /\ calls[c].st = "answered" => calls[c].since <= calls[c].value

LEMMA ReadSinceStep ==
    ASSUME TypeOK, ReadSince, [Use]_vars
    PROVE  ReadSince'
<1>1. \A c \in Callers : /\ calls[c].key \in Keys /\ calls[c].value \in Nat
                         /\ calls[c].since \in Nat
  BY DEF TypeOK, Call
<1>2. \A k \in Keys : source[k] \in Nat
  BY DEF TypeOK
<1>3. ASSUME Begin PROVE ReadSince'
  BY <1>1, <1>2, <1>3 DEF Begin, EnterAll, ReadSince, InFlight
<1>4. ASSUME NEW c \in Callers, Hit(c) \/ Resolve(c) \/ Reject(c) PROVE ReadSince'
  <2>1. \A d \in Callers : d # c => calls'[d] = calls[d]
    BY <1>4 DEF Hit, Resolve, Reject, TypeOK
  <2>2. calls'[c].st \in {"done", "failed"}
    <3>1. CASE Hit(c)
      BY <3>1 DEF Hit, TypeOK, Call
    <3>2. CASE Resolve(c)
      BY <3>2 DEF Resolve, TypeOK, Call
    <3>3. CASE Reject(c)
      BY <3>3 DEF Reject, TypeOK, Call
    <3> QED
      BY <1>4, <3>1, <3>2, <3>3
  <2>3. UNCHANGED source
    BY <1>4 DEF Hit, Resolve, Reject
  <2> QED
    BY <2>1, <2>2, <2>3 DEF ReadSince, InFlight
<1>5. ASSUME NEW c \in Callers, Miss(c) PROVE ReadSince'
  BY <1>1, <1>5 DEF Miss, ReadSince, InFlight, TypeOK, Call
<1>6. ASSUME NEW c \in Callers, Read(c) PROVE ReadSince'
  BY <1>1, <1>2, <1>6 DEF Read, ReadSince, InFlight, TypeOK, Call
<1>7. ASSUME Move PROVE ReadSince'
  <2>1. \A j \in Keys : source'[j] >= source[j] /\ source'[j] \in Nat
    BY <1>7 DEF Move
  <2> QED
    BY <1>1, <1>2, <1>7, <2>1 DEF Move, ReadSince
<1>8. CASE UNCHANGED <<source, calls>>
  BY <1>8 DEF ReadSince
<1> QED
  BY <1>3, <1>4, <1>5, <1>6, <1>7, <1>8 DEF Use, Step, Expire, Tick, vars

\* An answer that was asked for is returned, and is not older than the call.
Newer == \A c \in Callers : calls[c].st = "answered" /\ calls'[c].st = "done" =>
             calls'[c].value >= calls[c].since

LEMMA NewerStep ==
    ASSUME TypeOK, ReadSince, [Use]_vars
    PROVE  Newer
<1> SUFFICES ASSUME NEW c \in Callers, calls[c].st = "answered", calls'[c].st = "done"
             PROVE  calls'[c].value >= calls[c].since
  BY DEF Newer
<1>1. calls[c].value \in Nat /\ calls[c].since \in Nat /\ calls[c].since <= calls[c].value
  BY DEF TypeOK, Call, ReadSince
<1>2. calls'[c].value = calls[c].value
  <2>1. ASSUME NEW d \in Callers, Step(d) PROVE calls'[c].value = calls[c].value
    <3>1. CASE d # c
      BY <2>1, <3>1 DEF Step, Hit, Miss, Read, Resolve, Reject, TypeOK
    <3>2. CASE d = c /\ Resolve(c)
      BY <3>2 DEF Resolve, TypeOK, Call
    <3>3. ~ Reject(c)
      BY DEF Reject, TypeOK, Call
    <3> QED
      BY <2>1, <3>1, <3>2, <3>3 DEF Step, Hit, Miss, Read
  <2>2. ASSUME Begin PROVE calls'[c].value = calls[c].value
    BY <2>2 DEF Begin, EnterAll, InFlight
  <2>3. CASE UNCHANGED calls
    BY <2>3
  <2> QED
    BY <2>1, <2>2, <2>3 DEF Use, Expire, Move, Tick, vars
<1> QED
  BY <1>1, <1>2

-----------------------------------------------------------------------------
(* The invariant of the cache in service, and what follows of Spec *)

CacheInv == TypeOK /\ TimerCovers /\ OwnAnswers /\ NoTimer /\ ReadSince

LEMMA InvInService == InService => []CacheInv
<1>1. ASSUME source \in [Keys -> Nat], Empty PROVE CacheInv
  BY <1>1, StartTyped
     DEF CacheInv, Empty, TimerCovers, OwnAnswers, NoTimer, ReadSince, NoEntry, NoCall, InFlight
<1>2. CacheInv /\ [Use]_vars => CacheInv'
  <2> SUFFICES ASSUME CacheInv, [Use]_vars PROVE CacheInv'
    OBVIOUS
  <2>1. TypeOK'
    BY TypeStep DEF CacheInv
  <2> QED
    BY <2>1, TimerCoversStep, OwnStep, NoTimerStep, ReadSinceStep DEF CacheInv
<1> QED
  BY <1>1, <1>2, PTL DEF InService

\* The bounds that Spec has only restrict what a service may do.
LEMMA Served == Spec => InService
<1> DEFINE Versions == source \in [Keys -> Nat]
<1>1. Init => Versions /\ Empty
  BY DEF Init
<1>2. Versions /\ [Next]_vars => Versions' /\ [Use]_vars
  <2> SUFFICES ASSUME Versions, [Next]_vars PROVE Versions' /\ [Use]_vars
    OBVIOUS
  <2>1. ASSUME NEW c \in Callers, NEW k \in Keys, Enter(c, k) PROVE Versions' /\ Use
    <3>1. EnterAll([x \in {c} |-> k]) /\ {c} \in SUBSET Callers
          /\ [x \in {c} |-> k] \in [{c} -> Keys]
      BY <2>1 DEF Enter
    <3>2. Begin
      BY <3>1 DEF Begin
    <3> QED
      BY <3>1, <3>2 DEF EnterAll, Use
  <2>2. ASSUME NEW k \in Keys, Advance(k) PROVE Versions' /\ Use
    <3>1. Versions' /\ \A j \in Keys : source'[j] >= source[j]
      BY <2>2 DEF Advance
    <3> QED
      BY <2>2, <3>1 DEF Advance, Move, Use
  <2>3. ASSUME NEW c \in Callers, Step(c) PROVE Versions' /\ Use
    BY <2>3 DEF Step, Hit, Miss, Read, Resolve, Reject, Use
  <2>4. ASSUME NEW k \in Keys, Expire(k) PROVE Versions' /\ Use
    BY <2>4 DEF Expire, Use
  <2>5. CASE Tick
    BY <2>5 DEF Tick, Use
  <2>6. CASE UNCHANGED vars
    BY <2>6 DEF vars
  <2> QED
    BY <2>1, <2>2, <2>3, <2>4, <2>5, <2>6 DEF Next
<1> QED
  BY <1>1, <1>2, PTL DEF Spec, InService

\* THEOREM: the states of the cache stay well typed (class CacheMachine).
THEOREM TypeCorrect == Spec => []TypeOK
<1>1. CacheInv => TypeOK
  BY DEF CacheInv
<1> QED
  BY <1>1, InvInService, Served, PTL

\* THEOREM: however fills overlap and whichever timer drops whose entry, an entry
\* with a time-out is never older than it (and than the lag of the timers).
THEOREM AgeBound == Spec => []EntryAgeBounded
<1>1. CacheInv => EntryAgeBounded
  BY CoveredIsBounded DEF CacheInv
<1> QED
  BY <1>1, InvInService, Served, PTL

\* THEOREM: the map holds, and a call returns, only versions that the key's own
\* source has been at.
THEOREM Own == Spec => []OwnAnswers
<1>1. CacheInv => OwnAnswers
  BY DEF CacheInv
<1> QED
  BY <1>1, InvInService, Served, PTL

LEMMA KeptInService == InService => SettingsKept
<1>1. CacheInv /\ [Use]_vars => [Stays]_map
  BY StaysStep DEF CacheInv
<1> QED
  BY <1>1, InvInService, PTL DEF InService, SettingsKept, Stays

\* THEOREM: an entry of a key without time-out (the decimals of a contract) is
\* overwritten at most, whatever calls fail and whichever timers fire.
THEOREM Kept == Spec => SettingsKept
BY KeptInService, Served, PTL

LEMMA FreshInService == InService => MissFresh
<1>1. CacheInv /\ [Use]_vars => [Newer]_calls
  BY NewerStep DEF CacheInv
<1> QED
  BY <1>1, InvInService, PTL DEF InService, MissFresh, Newer

\* THEOREM: a call that missed returns a version read after it was made, however
\* the fills of other calls overlap with its own.
THEOREM Fresh == Spec => MissFresh
BY FreshInService, Served, PTL

-----------------------------------------------------------------------------
(* The cache is a BoundedCache *)

View == [c \in Callers |-> Seen(c)]

Pending(k, n) == [st |-> "pending", key |-> k, value |-> 0, since |-> n]

\* A step that concerns the call c only, as the view has it.
LEMMA OneCall ==
    ASSUME TypeOK, NEW c \in Callers, NEW n, calls' = [calls EXCEPT ![c] = n]
    PROVE  View' = [View EXCEPT ![c] =
                      IF n.st \in InFlight THEN Pending(n.key, n.since) ELSE n]
<1>1. calls'[c] = n /\ \A d \in Callers : d # c => calls'[d] = calls[d]
  BY DEF TypeOK
<1>2. View'[c] = IF n.st \in InFlight THEN Pending(n.key, n.since) ELSE n
  BY <1>1 DEF View, Seen, Pending
<1>3. ASSUME NEW d \in Callers, d # c PROVE View'[d] = View[d]
  BY <1>1, <1>3 DEF View, Seen
<1>4. View' = [d \in Callers |-> View'[d]] /\ View = [d \in Callers |-> View[d]]
  BY DEF View
<1> QED
  BY <1>2, <1>3, <1>4

\* What becomes of a call.
LEMMA CallForm ==
    ASSUME TypeOK, NEW c \in Callers, NEW st \in CallStates, NEW v \in Nat
    PROVE  /\ [calls[c] EXCEPT !.st = st, !.value = v]
                = [st |-> st, key |-> calls[c].key, value |-> v, since |-> calls[c].since]
           /\ [calls[c] EXCEPT !.st = st, !.value = v, !.since = 0]
                = [st |-> st, key |-> calls[c].key, value |-> v, since |-> 0]
<1> DEFINE e == [calls[c] EXCEPT !.st = st, !.value = v]
           l == [st |-> st, key |-> calls[c].key, value |-> v, since |-> calls[c].since]
           f == [calls[c] EXCEPT !.st = st, !.value = v, !.since = 0]
           m == [st |-> st, key |-> calls[c].key, value |-> v, since |-> 0]
<1>1. calls[c] \in Call
  BY DEF TypeOK
<1>2. e \in Call /\ l \in Call /\ f \in Call /\ m \in Call
  BY <1>1 DEF Call
<1>3. e.st = l.st /\ e.key = l.key /\ e.value = l.value /\ e.since = l.since
  BY <1>1 DEF Call
<1>4. f.st = m.st /\ f.key = m.key /\ f.value = m.value /\ f.since = m.since
  BY <1>1 DEF Call
<1> HIDE DEF e, l, f, m
<1>5. e = l /\ f = m
  BY <1>2, <1>3, <1>4 DEF Call
<1> QED
  BY <1>5 DEF e, l, f, m

LEMMA PendingSeen ==
    ASSUME TypeOK, NEW c \in Callers
    PROVE  /\ calls[c].st \in InFlight =>
                /\ View[c] = Pending(calls[c].key, calls[c].since)
                /\ View[c].st = "pending" /\ View[c].key = calls[c].key
                /\ View[c].since = calls[c].since
           /\ calls[c].st \notin InFlight => View[c].st # "pending"
<1>1. View[c] = IF calls[c].st \in InFlight THEN Pending(calls[c].key, calls[c].since)
                ELSE calls[c]
  BY DEF View, Seen, Pending
<1>2. CASE calls[c].st \in InFlight
  <2>1. View[c] = Pending(calls[c].key, calls[c].since)
    BY <1>1, <1>2
  <2> QED
    BY <1>2, <2>1 DEF Pending
<1>3. CASE calls[c].st \notin InFlight
  <2>1. calls[c].st # "pending"
    BY DEF TypeOK, Call, CallStates
  <2> QED
    BY <1>1, <1>3, <2>1
<1> QED
  BY <1>2, <1>3

LEMMA CallsBegin ==
    ASSUME TypeOK, NEW C \in SUBSET Callers, NEW key \in [C -> Keys], EnterAll(key)
    PROVE  Bounded!Begin(key)
<1> DEFINE n == [c \in Callers |-> IF c \in C THEN Pending(key[c], source[key[c]]) ELSE View[c]]
<1>1. (\A c \in C : calls[c].st \notin InFlight) /\ UNCHANGED <<source, map>>
  BY DEF EnterAll
<1>2. \A c \in C : View[c].st # "pending"
  BY <1>1, PendingSeen
<1>3. ASSUME NEW c \in Callers PROVE View'[c] = n[c]
  <2>1. CASE c \in C
    <3>1. calls'[c] = [st |-> "keyed", key |-> key[c], value |-> 0, since |-> source[key[c]]]
      BY <2>1 DEF EnterAll
    <3> QED
      BY <2>1, <3>1 DEF View, Seen, Pending, InFlight
  <2>2. CASE c \notin C
    <3>1. calls'[c] = calls[c]
      BY <2>2 DEF EnterAll
    <3> QED
      BY <2>2, <3>1 DEF View, Seen
  <2> QED
    BY <2>1, <2>2
<1>4. View' = n
  <2>1. View' = [c \in Callers |-> View'[c]]
    BY DEF View
  <2> QED
    BY <1>3, <2>1
<1> QED
  BY <1>1, <1>2, <1>4 DEF Bounded!Begin, View, Pending

\* A call that ends does so as the view has it.
LEMMA EndSeen ==
    ASSUME TypeOK, NEW c \in Callers, calls[c].st \in InFlight,
           NEW st \in {"done", "failed"}, NEW v \in Nat,
           calls' = [calls EXCEPT ![c].st = st, ![c].value = v, ![c].since = 0]
    PROVE  /\ Bounded!End(c, st, v)
           /\ View[c].key = calls[c].key /\ View[c].since = calls[c].since
<1> DEFINE n == [st |-> st, key |-> calls[c].key, value |-> v, since |-> 0]
<1>1. View[c].st = "pending" /\ View[c].key = calls[c].key /\ View[c].since = calls[c].since
  BY PendingSeen
<1>2. calls' = [calls EXCEPT ![c] = n]
  <2>1. calls' = [calls EXCEPT ![c] = [calls[c] EXCEPT !.st = st, !.value = v, !.since = 0]]
    BY DEF TypeOK
  <2>2. st \in CallStates
    BY DEF CallStates
  <2>3. [calls[c] EXCEPT !.st = st, !.value = v, !.since = 0] = n
    BY <2>2, CallForm
  <2> QED
    BY <2>1, <2>3
<1>3. n.st \notin InFlight
  BY DEF InFlight
<1>4. View' = [View EXCEPT ![c] = n]
  <2> HIDE DEF n
  <2> QED
    BY <1>2, <1>3, OneCall
<1> QED
  BY <1>1, <1>4 DEF Bounded!End, View

LEMMA HitServes ==
    ASSUME TypeOK, NEW c \in Callers, Hit(c)
    PROVE  Bounded!Serve(c)
<1> DEFINE v == map[calls[c].key].value
<1>1. /\ calls[c].st \in InFlight /\ calls[c].key \in Keys /\ map[calls[c].key].set
      /\ UNCHANGED <<source, map>>
  BY DEF Hit, InFlight, TypeOK, Call
<1>2. v \in Nat
  BY <1>1, SetEntry
<1>3. calls' = [calls EXCEPT ![c].st = "done", ![c].value = v, ![c].since = 0]
  BY DEF Hit, TypeOK
<1>4. Bounded!End(c, "done", v) /\ View[c].key = calls[c].key
  BY <1>1, <1>2, <1>3, EndSeen
<1> QED
  BY <1>1, <1>4 DEF Bounded!Serve, View

LEMMA ResolveAsks ==
    ASSUME TypeOK, OwnAnswers, ReadSince, NEW c \in Callers, Resolve(c)
    PROVE  Bounded!Ask(c)
<1> DEFINE k == calls[c].key
           v == calls[c].value
<1>1. /\ calls[c].st \in InFlight /\ calls[c].st = "answered"
      /\ map' = [map EXCEPT ![k] = Bounded!Holding(v)]
      /\ UNCHANGED source
  BY DEF Resolve, InFlight, Bounded!Holding
<1>2. v \in Nat /\ calls[c].since \in Nat /\ source[k] \in Nat
  BY DEF TypeOK, Call
<1>3. calls' = [calls EXCEPT ![c].st = "done", ![c].value = v, ![c].since = 0]
  <2>1. calls[c] \in Call
    BY DEF TypeOK
  <2>2. [calls[c] EXCEPT !.st = "done", !.since = 0]
          = [calls[c] EXCEPT !.st = "done", !.value = v, !.since = 0]
    BY <2>1 DEF Call
  <2> QED
    BY <2>2 DEF Resolve, TypeOK
<1>4. Bounded!End(c, "done", v) /\ View[c].key = k /\ View[c].since = calls[c].since
  BY <1>1, <1>2, <1>3, EndSeen
<1>5. v \in calls[c].since .. source[k]
  BY <1>1, <1>2 DEF OwnAnswers, ReadSince
<1> QED
  BY <1>1, <1>4, <1>5 DEF Bounded!Ask, View

LEMMA RejectFails ==
    ASSUME TypeOK, NEW c \in Callers, Reject(c)
    PROVE  Bounded!Fail(c)
<1>1. calls[c].st \in InFlight /\ UNCHANGED <<source, map>>
  BY DEF Reject, InFlight
<1>2. calls' = [calls EXCEPT ![c].st = "failed", ![c].value = 0, ![c].since = 0]
  BY DEF Reject, TypeOK
<1>3. Bounded!End(c, "failed", 0)
  BY <1>1, <1>2, EndSeen
<1> QED
  BY <1>1, <1>3 DEF Bounded!Fail

\* A look-up that misses, and the answer that the source gives, are seen by nobody.
LEMMA AskingUnseen ==
    ASSUME TypeOK, NEW c \in Callers, Miss(c) \/ Read(c)
    PROVE  UNCHANGED <<source, map, View>>
<1>1. calls[c] \in Call /\ calls[c].st \in InFlight /\ UNCHANGED <<source, map>>
  BY DEF TypeOK, Miss, Read, InFlight
<1>2. PICK st \in InFlight, v \in Nat : calls' = [calls EXCEPT ![c].st = st, ![c].value = v]
  <2>1. calls[c].value \in Nat /\ source[calls[c].key] \in Nat
    BY <1>1 DEF TypeOK, Call
  <2>2. ASSUME Miss(c) PROVE calls' = [calls EXCEPT ![c].st = "asked", ![c].value = calls[c].value]
    <3>1. [calls[c] EXCEPT !.st = "asked"]
            = [calls[c] EXCEPT !.st = "asked", !.value = calls[c].value]
      BY <1>1 DEF Call
    <3> QED
      BY <2>2, <3>1 DEF Miss, TypeOK
  <2>3. ASSUME Read(c)
        PROVE  calls' = [calls EXCEPT ![c].st = "answered", ![c].value = source[calls[c].key]]
    BY <2>3 DEF Read, TypeOK
  <2> QED
    BY <2>1, <2>2, <2>3 DEF InFlight
<1> DEFINE n == [st |-> st, key |-> calls[c].key, value |-> v, since |-> calls[c].since]
<1>3. calls' = [calls EXCEPT ![c] = n]
  <2>1. calls' = [calls EXCEPT ![c] = [calls[c] EXCEPT !.st = st, !.value = v]]
    BY <1>2 DEF TypeOK
  <2>2. st \in CallStates
    BY DEF CallStates, InFlight
  <2>3. [calls[c] EXCEPT !.st = st, !.value = v] = n
    BY <2>2, CallForm
  <2> QED
    BY <2>1, <2>3
<1>4. n.st \in InFlight /\ Pending(n.key, n.since) = View[c]
  BY <1>1, PendingSeen
<1>5. View' = [View EXCEPT ![c] = View[c]]
  <2> HIDE DEF n
  <2> QED
    BY <1>3, <1>4, OneCall
<1> QED
  BY <1>1, <1>5 DEF View

\* A timer drops an entry, or finds none.
LEMMA ExpireDrops ==
    ASSUME TypeOK, NoTimer, NEW k \in Keys, Expire(k)
    PROVE  Bounded!Drop(k)
<1>1. PICK l \in 0..Lag : timers[k][l] > 0
  BY DEF Expire
<1>2. l \in 0..Horizon
  <2>1. TimeOut[k] \in Nat /\ Lag \in Nat /\ Horizon \in Nat /\ TimeOut[k] + Lag <= Horizon
    BY CacheAssumption
  <2> QED
    BY <2>1
<1>3. TimeOut[k] # 0
  BY <1>1, <1>2 DEF NoTimer
<1>4. map' = [map EXCEPT ![k] = Bounded!Nothing] /\ UNCHANGED <<source, calls>>
  BY DEF Expire, NoEntry, Bounded!Nothing
<1> QED
  BY <1>3, <1>4 DEF Bounded!Drop, Seen

\* A tick finds no entry that would get too old: its timer is due before.
LEMMA TickAges ==
    ASSUME TypeOK, TimerCovers, Tick
    PROVE  Bounded!Age
<1>1. ASSUME NEW k \in Keys, TimeOut[k] # 0, map[k].set
      PROVE  /\ map[k].age < Deadline(k)
             /\ map'[k] = [map[k] EXCEPT !.age = @ + 1]
  <2>1. PICK l \in 0..Horizon : timers[k][l] > 0 /\ l + map[k].age <= Deadline(k)
    BY <1>1 DEF TimerCovers
  <2>2. l # 0
    BY <2>1 DEF Tick
  <2>3. /\ map[k].age \in Nat /\ Deadline(k) \in 0..Horizon /\ Horizon \in Nat
    BY <1>1, SetEntry, DeadlineType, CacheAssumption
  <2>4. map[k].age < Deadline(k) /\ map[k].age <= Horizon
    BY <2>1, <2>2, <2>3
  <2>5. map'[k] = Older(k)
    BY DEF Tick
  <2> QED
    BY <1>1, <2>4, <2>5 DEF Older
<1>2. ASSUME NEW k \in Keys, ~(TimeOut[k] # 0 /\ map[k].set)
      PROVE  map'[k] = map[k]
  BY <1>2 DEF Tick, Older
<1>3. map' = [k \in Keys |-> IF k \in {j \in Keys : TimeOut[j] # 0} /\ map[k].set
                             THEN [map[k] EXCEPT !.age = @ + 1] ELSE map[k]]
  <2>1. map' = [k \in Keys |-> map'[k]]
    BY DEF Tick
  <2> QED
    BY <1>1, <1>2, <2>1
<1> QED
  BY <1>1, <1>3 DEF Bounded!Age, Tick, Seen

LEMMA BoundedInService == InService => Bounded!Init /\ [][Bounded!Next]_(Bounded!vars)
<1>1. ASSUME source \in [Keys -> Nat], Empty PROVE Bounded!Init
  <2>1. View = [c \in Callers |-> Bounded!NoCall]
    BY <1>1 DEF Empty, View, Seen, NoCall, InFlight, Bounded!NoCall
  <2> QED
    BY <1>1, <2>1 DEF Empty, NoEntry, View, Bounded!Init, Bounded!Nothing
<1>2. ASSUME CacheInv, [Use]_vars
      PROVE  [Bounded!Next]_(Bounded!vars)
  <2>1. ASSUME Begin PROVE Bounded!Next
    BY <1>2, <2>1, CallsBegin DEF Begin, CacheInv, Bounded!Next
  <2>2. ASSUME NEW c \in Callers, Hit(c) \/ Resolve(c) \/ Reject(c) PROVE Bounded!Next
    BY <1>2, <2>2, HitServes, ResolveAsks, RejectFails DEF CacheInv, Bounded!Next
  <2>3. ASSUME NEW c \in Callers, Miss(c) \/ Read(c) PROVE UNCHANGED Bounded!vars
    BY <1>2, <2>3, AskingUnseen DEF CacheInv, Bounded!vars, View
  <2>4. ASSUME NEW k \in Keys, Expire(k) PROVE Bounded!Next
    BY <1>2, <2>4, ExpireDrops DEF CacheInv, Bounded!Next
  <2>5. CASE Move
    BY <2>5 DEF Move, Bounded!Move, Bounded!Next, Seen
  <2>6. CASE Tick
    BY <1>2, <2>6, TickAges DEF CacheInv, Bounded!Next
  <2>7. CASE UNCHANGED vars
    BY <2>7 DEF vars, Bounded!vars, Seen
  <2> QED
    BY <1>2, <2>1, <2>2, <2>3, <2>4, <2>5, <2>6, <2>7 DEF Use, Step
<1> QED
  BY <1>1, <1>2, InvInService, PTL DEF InService

\* THEOREM: however the calls, their answers and the timers interleave, every step of
\* the cache is one of BoundedCache or is seen by nobody: what a call returns was read
\* from its source since the call was made, or had been stored at most a time-out (and
\* the lag) before; what has no time-out is kept.  (That every call ends, the fairness
\* of ImplementsBoundedCache, is left to TLC.)
THEOREM Refinement == Spec => Bounded!Init /\ [][Bounded!Next]_(Bounded!vars)
BY BoundedInService, Served, PTL
============================================================================
