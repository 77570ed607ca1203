---------------------- MODULE TransactionLookup_proofs ----------------------
(***************************************************************************)
(* For any requests and contracts: a transaction is told with parameters   *)
(* only by the ABI of its own contract.  The ABIs come through the         *)
(* CacheMachine, of which what is proved in service holds here.  The       *)
(* invariant adds which key a handler that looks has asked for.            *)
(***************************************************************************)
EXTENDS TransactionLookup, TLAPS

Cached == INSTANCE CacheMachine_proofs WITH
    Callers <- Requests,
    Horizon <- ABI_CACHE_TIME_OUT + Lag,
    MaxVersion <- 1,
    MaxArmed <- Cardinality(Requests)

LEMMA CacheAssumed == Cached!CacheAssumption
<1>1. Keys # {} /\ TimeOut \in [Keys -> Nat]
  BY LookupAssumption DEF Keys, TimeOut
<1>2. \A k \in Keys : TimeOut[k] = ABI_CACHE_TIME_OUT
  BY DEF TimeOut
<1>3. ABI_CACHE_TIME_OUT + Lag \in Nat /\ Lag \in Nat
  BY LookupAssumption
<1> QED
  BY <1>1, <1>2, <1>3 DEF Cached!CacheAssumption

\* Cached is Cache with what CacheMachine_proofs adds to it.
LEMMA SameCache ==
    /\ Cache!TypeOK <=> Cached!TypeOK
    /\ Cache!TypeOK' <=> Cached!TypeOK'
    /\ Cache!Empty <=> Cached!Empty
    /\ Cache!OwnAnswers <=> Cached!OwnAnswers
    /\ Cache!EntryAgeBounded <=> Cached!EntryAgeBounded
    /\ Cache!vars = Cached!vars /\ Cache!vars' = Cached!vars'
    /\ \A r \in Requests : /\ Cache!Hit(r) <=> Cached!Hit(r)
                           /\ Cache!Miss(r) <=> Cached!Miss(r)
                           /\ Cache!Read(r) <=> Cached!Read(r)
                           /\ Cache!Resolve(r) <=> Cached!Resolve(r)
                           /\ Cache!Reject(r) <=> Cached!Reject(r)
    /\ \A k \in Keys : Cache!Expire(k) <=> Cached!Expire(k)
    /\ Cache!Tick <=> Cached!Tick
    /\ Cache!Use <=> Cached!Use
BY DEF Cache!TypeOK, Cached!TypeOK, Cache!Entries, Cached!Entries, Cache!NoEntry, Cached!NoEntry,
       Cache!Call, Cached!Call, Cache!CallStates, Cached!CallStates, Cache!Empty, Cached!Empty,
       Cache!NoCall, Cached!NoCall, Cache!OwnAnswers, Cached!OwnAnswers,
       Cache!EntryAgeBounded, Cached!EntryAgeBounded, Cache!Deadline, Cached!Deadline,
       Cache!vars, Cached!vars, Cache!Hit, Cached!Hit, Cache!Miss, Cached!Miss, Cache!Read,
       Cached!Read, Cache!Resolve, Cached!Resolve, Cache!Arm, Cached!Arm, Cache!Reject,
       Cached!Reject, Cache!Expire, Cached!Expire, Cache!Tick, Cached!Tick, Cache!Older,
       Cached!Older, Cache!Use, Cached!Use, Cache!Step, Cached!Step, Cache!Begin, Cached!Begin,
       Cache!EnterAll, Cached!EnterAll, Cache!InFlight, Cached!InFlight, Cache!Move, Cached!Move

\* The provider's answers and what a handler makes of them leave the cache alone.
LEMMA HandlersApart ==
    ASSUME NEW r \in Requests,
           \/ (\E tx \in Transaction : Ask(r, tx)) \/ Answer(r) \/ NotFound(r)
           \/ \E p \in Parts : Receive(r, p) \/ Lack(r, p)
    PROVE  UNCHANGED cacheVars
BY DEF Ask, Answer, NotFound, Receive, Lack

\* The steps of a handler's own call.
LEMMA CallSteps ==
    ASSUME NEW r \in Requests, LookUp(r) \/ Fetch(r) \/ FetchFails(r)
    PROVE  Cached!Step(r) /\ UNCHANGED requests
BY SameCache DEF LookUp, Fetch, FetchFails, Cached!Step

\* All the steps, by what they do to the cache.
LEMMA Steps ==
    ASSUME [Next]_vars
    PROVE  \/ \E r \in Requests : LookUp(r) \/ Fetch(r) \/ FetchFails(r)
           \/ \E r \in Requests : \/ (\E tx \in Transaction : Ask(r, tx)) \/ Answer(r) \/ NotFound(r)
                                  \/ \E p \in Parts : Receive(r, p) \/ Lack(r, p)
           \/ \E r \in Requests : Look(r)
           \/ Pass \/ Publish \/ UNCHANGED vars
BY LookupAssumption DEF Next, Continue, Arrive

LEMMA KeyOfTransaction == \A tx \in Transaction : AbiKey(tx.to) \in Keys
BY DEF Transaction, Keys

LEMMA UsesCache ==
    ASSUME Cache!TypeOK, requests \in [Requests -> Request], [Next]_vars
    PROVE  [Cached!Use]_(Cached!vars)
<1>1. ASSUME NEW r \in Requests, Look(r) PROVE Cached!Begin
  <2> DEFINE key == [x \in {r} |-> AbiKey(requests[r].tx.to)]
  <2>1. key \in [{r} -> Keys] /\ {r} \in SUBSET Requests
    <3>1. requests[r].tx \in Transaction
      BY DEF Request
    <3> QED
      BY <3>1, KeyOfTransaction
  <2>2. Cached!EnterAll(key)
    BY <1>1 DEF Look, Cache!EnterAll, Cached!EnterAll, Cache!InFlight, Cached!InFlight
  <2> HIDE DEF key
  <2> QED
    BY <2>1, <2>2 DEF Cached!Begin
<1>2. CASE Pass
  BY <1>2, SameCache DEF Pass, Cached!Use
<1>3. CASE Publish
  <2>1. PICK k \in Keys : source[k] < 1 /\ source' = [source EXCEPT ![k] = @ + 1]
                          /\ UNCHANGED <<map, calls, timers>>
    BY <1>3 DEF Publish, Cache!Advance
  <2>2. source \in [Keys -> Nat]
    BY DEF Cache!TypeOK
  <2>3. source' \in [Keys -> Nat] /\ \A j \in Keys : source'[j] >= source[j]
    BY <2>1, <2>2
  <2> QED
    BY <2>1, <2>3 DEF Cached!Use, Cached!Move
<1>4. CASE UNCHANGED cacheVars
  BY <1>4 DEF cacheVars, Cached!vars
<1> QED
  BY <1>1, <1>2, <1>3, <1>4, Steps, CallSteps, HandlersApart DEF Cached!Use, vars

-----------------------------------------------------------------------------
(* Types *)

LEMMA FreshType ==
    ASSUME NEW st \in {"idle", "reading", "looking", "answered", "notFound"}, NEW tx \in Transaction
    PROVE  Fresh(st, tx) \in Request
BY DEF Fresh, Request

\* What a step makes of the requests.
LEMMA RequestsStep ==
    ASSUME requests \in [Requests -> Request], [Next]_vars
    PROVE  requests' \in [Requests -> Request]
<1>1. \A r \in Requests : requests[r] \in Request
  OBVIOUS
<1>2. ASSUME NEW r \in Requests, NEW tx \in Transaction, Ask(r, tx)
      PROVE  requests' \in [Requests -> Request]
  BY <1>2, FreshType DEF Ask
<1>3. ASSUME NEW r \in Requests, NEW p \in Parts, Receive(r, p) \/ Lack(r, p)
      PROVE  requests' \in [Requests -> Request]
  <2>1. PICK a \in {"read", "failed"} :
          requests' = [requests EXCEPT ![r] = [requests[r] EXCEPT !.parts =
                         [requests[r].parts EXCEPT ![p] = a]]]
    BY <1>3 DEF Receive, Lack
  <2> DEFINE ps == [requests[r].parts EXCEPT ![p] = a]
             q == [requests[r] EXCEPT !.parts = ps]
  <2>2. requests[r].parts \in [Parts -> {"none", "asked", "read", "failed"}]
    BY <1>1 DEF Request
  <2>3. ps \in [Parts -> {"none", "asked", "read", "failed"}]
    BY <2>2
  <2> HIDE DEF ps
  <2>4. q \in Request
    BY <1>1, <2>3 DEF Request
  <2> HIDE DEF q
  <2> QED
    BY <2>1, <2>4 DEF q, ps
<1>4. ASSUME NEW r \in Requests, Look(r) PROVE requests' \in [Requests -> Request]
  <2> DEFINE ps == [requests[r].parts EXCEPT !["block"] = "asked"]
             q == [requests[r] EXCEPT !.st = "looking", !.parts = ps]
  <2>1. requests' = [requests EXCEPT ![r] = q]
    BY <1>1, <1>4 DEF Look, Request
  <2>2. requests[r].parts \in [Parts -> {"none", "asked", "read", "failed"}]
    BY <1>1 DEF Request
  <2>3. ps \in [Parts -> {"none", "asked", "read", "failed"}]
    BY <2>2
  <2> HIDE DEF ps
  <2>4. q \in Request
    BY <1>1, <2>3 DEF Request
  <2> HIDE DEF q
  <2> QED
    BY <2>1, <2>4
<1>5. ASSUME NEW r \in Requests, Answer(r) PROVE requests' \in [Requests -> Request]
  <2> DEFINE f == Fresh("answered", requests[r].tx)
             d == Decoded(r)
  <2>1. requests' = [requests EXCEPT ![r] = [f EXCEPT !.extra = d]]
    BY <1>5 DEF Answer
  <2>2. f \in Request /\ d \in BOOLEAN
    BY <1>1, FreshType DEF Request, Decoded
  <2> HIDE DEF f, d
  <2>3. [f EXCEPT !.extra = d] \in Request
    BY <2>2 DEF Request
  <2> QED
    BY <2>1, <2>3
<1>6. ASSUME NEW r \in Requests, NotFound(r) PROVE requests' \in [Requests -> Request]
  <2>1. requests[r].tx \in Transaction
    BY <1>1 DEF Request
  <2> QED
    BY <1>6, <2>1, FreshType DEF NotFound
<1>7. CASE UNCHANGED requests
  BY <1>7
<1> QED
  BY <1>2, <1>3, <1>4, <1>5, <1>6, <1>7, Steps, CallSteps DEF Pass, Publish, vars

\* THEOREM: handlers, cache and the count of failures stay well typed.
THEOREM TypeCorrect == Spec => []TypeOK
<1>1. Init => TypeOK
  <2> SUFFICES ASSUME Init PROVE TypeOK
    OBVIOUS
  <2>1. source \in [Keys -> Nat] /\ Cached!Empty
    BY SameCache DEF Init, Cache!Init
  <2>2. Cache!TypeOK
    BY <2>1, SameCache, CacheAssumed, Cached!StartTyped
  <2>3. (CHOOSE tx \in Transaction : TRUE) \in Transaction
    <3>1. PICK c \in Contracts : TRUE
      BY LookupAssumption
    <3>2. [to |-> c, legible |-> TRUE] \in Transaction
      BY DEF Transaction
    <3> QED
      BY <3>2
  <2>4. requests \in [Requests -> Request]
    BY <2>3, FreshType DEF Init
  <2> QED
    BY <2>2, <2>4, LookupAssumption DEF Init, TypeOK
<1>2. TypeOK /\ [Next]_vars => TypeOK'
  <2> SUFFICES ASSUME TypeOK, [Next]_vars PROVE TypeOK'
    OBVIOUS
  <2>1. Cache!TypeOK'
    BY SameCache, UsesCache, CacheAssumed, Cached!TypeStep DEF TypeOK
  <2>2. requests' \in [Requests -> Request]
    BY RequestsStep DEF TypeOK
  <2>3. failures' \in 0 .. MaxFailures
    <3>1. failures' = failures \/ (failures < MaxFailures /\ failures' = failures + 1)
      <4>1. ASSUME NEW r \in Requests, LookUp(r) \/ Fetch(r) \/ FetchFails(r)
            PROVE  failures' = failures \/ (failures < MaxFailures /\ failures' = failures + 1)
        BY <4>1 DEF LookUp, Fetch, FetchFails
      <4>2. ASSUME NEW r \in Requests,
                   \/ (\E tx \in Transaction : Ask(r, tx)) \/ Answer(r) \/ NotFound(r) \/ Look(r)
                   \/ \E p \in Parts : Receive(r, p) \/ Lack(r, p)
            PROVE  failures' = failures \/ (failures < MaxFailures /\ failures' = failures + 1)
        BY <4>2 DEF Ask, Answer, NotFound, Receive, Lack, Look
      <4>3. CASE Pass \/ Publish \/ UNCHANGED vars
        BY <4>3 DEF Pass, Publish, vars
      <4> QED
        BY <4>1, <4>2, <4>3, Steps
    <3> QED
      BY <3>1, LookupAssumption DEF TypeOK
  <2> QED
    BY <2>1, <2>2, <2>3 DEF TypeOK
<1> QED
  BY <1>1, <1>2, PTL DEF Spec

-----------------------------------------------------------------------------
(* What the cache promises is kept here *)

LEMMA CachedInService == Spec => Cached!InService
<1>1. Init => source \in [Keys -> Nat] /\ Cached!Empty
  BY SameCache DEF Init, Cache!Init
<1>2. TypeOK /\ [Next]_vars => [Cached!Use]_(Cached!vars)
  BY UsesCache DEF TypeOK
<1> QED
  BY <1>1, <1>2, TypeCorrect, PTL DEF Spec, Cached!InService

LEMMA CachedInv == Spec => []Cached!CacheInv
BY CachedInService, CacheAssumed, Cached!InvInService

\* THEOREM: all that the look-ups of transactions do with the cache is what a service
\* may do with one.
THEOREM CacheServes == Spec => Cache!InService
<1>1. (Cached!Empty <=> Cache!Empty) /\ ([Cached!Use]_(Cached!vars) => [Cache!Use]_(Cache!vars))
  BY SameCache
<1> QED
  BY <1>1, CachedInService, PTL DEF Cached!InService, Cache!InService

\* THEOREM: what the explorer answered, a refusal too, is cached for at most
\* ABI_CACHE_TIME_OUT and the lag of the timers, however look-ups overlap.
THEOREM RefusalAge == Spec => []Cache!EntryAgeBounded
<1>1. Cached!CacheInv => Cache!EntryAgeBounded
  BY CacheAssumed, SameCache, Cached!CoveredIsBounded DEF Cached!CacheInv
<1> QED
  BY <1>1, CachedInv, PTL

-----------------------------------------------------------------------------
(* Parameters *)

\* A handler that looks has a call of its own, for its own contract.
Looking ==
    \A r \in Requests :
        requests[r].st = "looking" => calls[r].st # "idle" /\ calls[r].key = AbiKey(requests[r].tx.to)

Published == \A k \in Keys : source[k] \in {0, 1}

PInv == Looking /\ Published /\ ParametersKnown

\* No step takes an ABI back.
LEMMA SourceGrows ==
    ASSUME TypeOK, Published, [Next]_vars
    PROVE  Published' /\ \A k \in Keys : source[k] = 1 => source'[k] = 1
<1>1. CASE Publish
  BY <1>1 DEF Publish, Cache!Advance, Published, TypeOK, Cache!TypeOK
<1>2. CASE UNCHANGED source
  BY <1>2 DEF Published
<1>3. ASSUME NEW r \in Requests, Cached!Step(r) PROVE UNCHANGED source
  BY <1>3, CacheAssumed, SameCache, Cached!StepKeepsKeys DEF TypeOK
<1> QED
  BY <1>1, <1>2, <1>3, Steps, CallSteps, HandlersApart
     DEF Look, Cache!EnterAll, Pass, Cache!Tick, Cache!Expire, cacheVars, vars

\* A step of the handler r that neither looks nor answers.
LEMMA Aside ==
    ASSUME TypeOK, PInv, NEW r \in Requests, UNCHANGED cacheVars,
           \A q \in Requests \ {r} : requests'[q] = requests[q],
           requests'[r].st = "looking" =>
             requests[r].st = "looking" /\ requests'[r].tx = requests[r].tx,
           requests'[r].extra => requests[r].extra /\ requests'[r].tx = requests[r].tx
    PROVE  PInv'
BY DEF PInv, Looking, Published, ParametersKnown, cacheVars

LEMMA LookKeepsPInv ==
    ASSUME TypeOK, PInv, NEW r \in Requests, Look(r)
    PROVE  PInv'
<1>1. requests[r] \in Request /\ requests[r].tx \in Transaction
  BY DEF TypeOK, Request
<1>2. /\ requests'[r].st = "looking" /\ requests'[r].tx = requests[r].tx
      /\ requests'[r].extra = requests[r].extra
      /\ \A q \in Requests \ {r} : requests'[q] = requests[q]
  BY <1>1 DEF Look, TypeOK, Request
<1>3. /\ calls'[r].st = "keyed" /\ calls'[r].key = AbiKey(requests[r].tx.to)
      /\ \A q \in Requests \ {r} : calls'[q] = calls[q]
      /\ UNCHANGED source
  BY DEF Look, Cache!EnterAll
<1> QED
  BY <1>2, <1>3 DEF PInv, Looking, Published, ParametersKnown

\* The ABI an answer has its parameters by is that of its contract.
LEMMA AnswerKeepsPInv ==
    ASSUME TypeOK, Cache!OwnAnswers, PInv, NEW r \in Requests, Answer(r)
    PROVE  PInv'
<1>1. requests[r] \in Request /\ requests[r].tx \in Transaction
  BY DEF TypeOK, Request
<1> DEFINE f == Fresh("answered", requests[r].tx)
<1>2. requests' = [requests EXCEPT ![r] = [f EXCEPT !.extra = Decoded(r)]]
  BY DEF Answer
<1>3. f \in Request /\ f.st = "answered" /\ f.tx = requests[r].tx
  BY <1>1, FreshType DEF Fresh
<1> HIDE DEF f
<1>4. /\ requests'[r].st = "answered" /\ requests'[r].tx = requests[r].tx
      /\ requests'[r].extra = Decoded(r)
      /\ \A q \in Requests \ {r} : requests'[q] = requests[q]
  BY <1>2, <1>3 DEF TypeOK, Request
<1>5. Decoded(r) => source[AbiKey(requests[r].tx.to)] = 1
  <2> SUFFICES ASSUME Decoded(r) PROVE source[AbiKey(requests[r].tx.to)] = 1
    OBVIOUS
  <2>1. calls[r].key = AbiKey(requests[r].tx.to) /\ AbiKey(requests[r].tx.to) \in Keys
    BY <1>1, KeyOfTransaction DEF PInv, Looking, Answer
  <2>2. 1 <= source[calls[r].key]
    BY DEF Decoded, Cache!OwnAnswers
  <2> QED
    BY <2>1, <2>2 DEF PInv, Published
<1>6. UNCHANGED <<source, calls>>
  BY DEF Answer, cacheVars
<1> QED
  BY <1>4, <1>5, <1>6 DEF PInv, Looking, Published, ParametersKnown

\* THEOREM: a transaction is told with parameters only by the ABI of the contract it
\* was sent to, for any contracts and however look-ups, refusals and timers overlap.
THEOREM ParametersAlways == Spec => []ParametersKnown
<1>1. Init => PInv
  BY DEF Init, Cache!Init, Fresh, PInv, Looking, Published, ParametersKnown
<1>2. TypeOK /\ Cache!OwnAnswers /\ PInv /\ [Next]_vars => PInv'
  <2> SUFFICES ASSUME TypeOK, Cache!OwnAnswers, PInv, [Next]_vars PROVE PInv'
    OBVIOUS
  <2>1. \A r \in Requests : requests[r] \in Request /\ requests[r].tx \in Transaction
    BY DEF TypeOK, Request
  <2>2. Published' /\ \A k \in Keys : source[k] = 1 => source'[k] = 1
    BY SourceGrows DEF PInv
  <2>3. \A r \in Requests : AbiKey(requests[r].tx.to) \in Keys
    BY <2>1, KeyOfTransaction
  <2>4. ASSUME UNCHANGED requests, \A r \in Requests : calls[r].st # "idle" =>
                                       calls'[r].st # "idle" /\ calls'[r].key = calls[r].key
        PROVE  PInv'
    BY <2>2, <2>3, <2>4 DEF PInv, Looking, ParametersKnown
  <2>5. ASSUME NEW r \in Requests, Cached!Step(r), UNCHANGED requests PROVE PInv'
    <3>1. /\ calls'[r].key = calls[r].key
          /\ \A q \in Requests \ {r} : calls'[q] = calls[q]
      BY <2>5, CacheAssumed, SameCache, Cached!StepKeepsKeys DEF TypeOK
    <3>2. calls'[r].st # "idle"
      BY <2>5 DEF Cached!Step, Cached!Hit, Cached!Miss, Cached!Read, Cached!Resolve,
                  Cached!Reject, TypeOK, Cache!TypeOK, Cache!Call
    <3> QED
      BY <2>4, <2>5, <3>1, <3>2
  <2>6. CASE Pass \/ Publish \/ UNCHANGED vars
    BY <2>4, <2>6 DEF Pass, Publish, Cache!Tick, Cache!Expire, Cache!Advance, vars, cacheVars
  <2>7. ASSUME NEW r \in Requests, (\E tx \in Transaction : Ask(r, tx)) \/ NotFound(r)
        PROVE  PInv'
    <3>1. /\ requests'[r].st # "looking" /\ ~ requests'[r].extra
          /\ \A q \in Requests \ {r} : requests'[q] = requests[q]
      BY <2>7 DEF Ask, NotFound, Fresh, TypeOK
    <3> QED
      BY <2>7, <3>1, HandlersApart, Aside
  <2>8. ASSUME NEW r \in Requests, NEW p \in Parts, Receive(r, p) \/ Lack(r, p)
        PROVE  PInv'
    <3>1. /\ requests'[r].st = requests[r].st /\ requests'[r].tx = requests[r].tx
          /\ requests'[r].extra = requests[r].extra
          /\ \A q \in Requests \ {r} : requests'[q] = requests[q]
      BY <2>1, <2>8 DEF Receive, Lack, TypeOK, Request
    <3> QED
      BY <2>8, <3>1, HandlersApart, Aside
  <2> QED
    BY <2>5, <2>6, <2>7, <2>8, Steps, CallSteps, LookKeepsPInv, AnswerKeepsPInv
<1>3. Cached!CacheInv => Cache!OwnAnswers
  BY SameCache DEF Cached!CacheInv
<1>4. PInv => ParametersKnown
  BY DEF PInv
<1> QED
  BY <1>1, <1>2, <1>3, <1>4, TypeCorrect, CachedInv, PTL DEF Spec
=============================================================================
