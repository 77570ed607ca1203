---------------------- MODULE SignatureService_proofs ----------------------
(***************************************************************************)
(* For every set of requests and every interleaving: what a deposit is     *)
(* signed with.  The handlers share a CacheMachine, of which what is       *)
(* proved in service holds here; the proofs add what the handlers make of  *)
(* its answers.  The dateLimit a signature is answered with covers the     *)
(* signed timestampLimit, provided the clocks keep within INDEXER_OFFSET.  *)
(***************************************************************************)
EXTENDS SignatureService, FiniteSetTheorems, TLAPS

Calls == Requests \X Branches

LEMMA KeyFacts ==
    /\ BLOCK_KEY \in Keys
    /\ \A r \in Requests : SettingsKey(Contract[r]) \in Keys
    /\ \A k \in Keys : k # BLOCK_KEY => Decimals[k[2]] \in Nat
BY ServiceAssumption DEF Keys, SettingsKeys, SettingsKey

-----------------------------------------------------------------------------
(* The cache: what is proved of it in service holds of it here *)

Cached == INSTANCE CacheMachine_proofs WITH
    Callers <- Requests \X Branches,
    TimeOut <- [k \in Keys |-> IF k = BLOCK_KEY THEN CACHE_TIME_OUT ELSE 0],
    Horizon <- CACHE_TIME_OUT + Lag,
    MaxVersion <- MaxTime + Skew,
    MaxArmed <- 2 * Cardinality(Requests)

LEMMA CacheAssumed == Cached!CacheAssumption
BY ServiceAssumption DEF Cached!CacheAssumption, Keys

\* Cached is Cache with what CacheMachine_proofs adds to it.
LEMMA SameCache ==
    /\ Cache!TypeOK <=> Cached!TypeOK
    /\ Cache!TypeOK' <=> Cached!TypeOK'
    /\ Cache!Empty <=> Cached!Empty
    /\ Cache!OwnAnswers <=> Cached!OwnAnswers
    /\ Cache!EntryAgeBounded <=> Cached!EntryAgeBounded
    /\ Cache!vars = Cached!vars /\ Cache!vars = cacheVars
    /\ \A c \in Calls : /\ Cache!Hit(c) <=> Cached!Hit(c)
                        /\ Cache!Miss(c) <=> Cached!Miss(c)
                        /\ Cache!Read(c) <=> Cached!Read(c)
                        /\ Cache!Resolve(c) <=> Cached!Resolve(c)
                        /\ Cache!Reject(c) <=> Cached!Reject(c)
    /\ \A k \in Keys : Cache!Expire(k) <=> Cached!Expire(k)
    /\ Cache!Tick <=> Cached!Tick
    /\ Cache!Use <=> Cached!Use
BY DEF Cache!TypeOK, Cached!TypeOK, Cache!Entries, Cached!Entries, Cache!NoEntry, Cached!NoEntry,
       Cache!Call, Cached!Call, Cache!CallStates, Cached!CallStates, Cache!Empty, Cached!Empty,
       Cache!NoCall, Cached!NoCall, Cache!OwnAnswers, Cached!OwnAnswers, cacheVars,
       Cache!EntryAgeBounded, Cached!EntryAgeBounded, Cache!Deadline, Cached!Deadline,
       Cache!vars, Cached!vars, Cache!Hit, Cached!Hit, Cache!Miss, Cached!Miss, Cache!Read,
       Cached!Read, Cache!Resolve, Cached!Resolve, Cache!Arm, Cached!Arm, Cache!Reject,
       Cached!Reject, Cache!Expire, Cached!Expire, Cache!Tick, Cached!Tick, Cache!Older,
       Cached!Older, Cache!Use, Cached!Use, Cache!Step, Cached!Step, Cache!Begin, Cached!Begin,
       Cache!EnterAll, Cached!EnterAll, Cache!InFlight, Cached!InFlight, Cache!Move, Cached!Move

\* A handler comes to the cache only when it accepts a request.
LEMMA HandlersApart ==
    ASSUME NEW r \in Requests,
           \/ RefuseNetwork(r) \/ RefuseParams(r) \/ ReadNonce(r) \/ FailNonce(r)
           \/ Answer(r) \/ Continue(r)
    PROVE  UNCHANGED cacheVars
BY DEF RefuseNetwork, RefuseParams, ReadNonce, FailNonce, Answer, Issue, FailSigning,
       Continue, Prepare, PrepareInstant, ReturnRead, FailBranch, Throw

\* What the service does with its cache is what a service may do.
LEMMA UsesCache ==
    ASSUME TypeOK, [Next]_vars
    PROVE  [Cached!Use]_(Cached!vars)
<1>1. ASSUME NEW c \in Calls, LookUp(c) \/ Fill(c) PROVE Cached!Step(c)
  BY <1>1, SameCache DEF LookUp, Fill, Cached!Step
<1>2. ASSUME NEW r \in Requests, Accept(r) PROVE Cached!Begin
  <2> DEFINE key == CachedCalls(r)
  <2>1. key \in [DOMAIN key -> Keys] /\ DOMAIN key \in SUBSET Calls
    BY KeyFacts DEF CachedCalls, Calls, Branches
  <2>2. Cached!EnterAll(key)
    BY <1>2 DEF Accept, Cache!EnterAll, Cached!EnterAll, Cache!InFlight, Cached!InFlight
  <2> HIDE DEF key
  <2> QED
    BY <2>1, <2>2 DEF Cached!Begin, Calls
<1>3. CASE CacheExpire
  BY <1>3, SameCache DEF CacheExpire, Cached!Use
<1>4. CASE Tick
  BY <1>4, SameCache DEF Tick, Cached!Use
<1>5. CASE NewBlock
  <2>1. source \in [Keys -> Nat] /\ now + Skew \in Nat
    BY ServiceAssumption DEF TypeOK, Cache!TypeOK
  <2>2. PICK t \in Head + 1 .. now + Skew : source' = [source EXCEPT ![BLOCK_KEY] = t]
    BY <1>5 DEF NewBlock
  <2>3. t \in Nat /\ t >= Head /\ Head \in Nat
    BY <2>1, <2>2, KeyFacts DEF Head
  <2>4. source' \in [Keys -> Nat] /\ \A k \in Keys : source'[k] >= source[k]
    <3>1. source' \in [Keys -> Nat]
      BY <2>1, <2>2, <2>3
    <3>2. \A k \in Keys : source[k] \in Nat /\ source'[k] = IF k = BLOCK_KEY THEN t ELSE source[k]
      BY <2>1, <2>2
    <3>3. t >= source[BLOCK_KEY]
      BY <2>3 DEF Head
    <3> QED
      BY <3>1, <3>2, <3>3
  <2>5. Cached!Move
    BY <1>5, <2>4 DEF NewBlock, Cached!Move
  <2> QED
    BY <2>5 DEF Cached!Use
<1>6. CASE UNCHANGED cacheVars
  BY <1>6 DEF cacheVars, Cached!vars
<1>7. ASSUME NEW r \in Requests,
             \/ RefuseNetwork(r) \/ RefuseParams(r) \/ ReadNonce(r) \/ FailNonce(r)
             \/ Answer(r) \/ Continue(r)
      PROVE  UNCHANGED cacheVars
  BY <1>7, HandlersApart
<1>8. CASE Reset \/ (\E c \in Contracts, h \in Holders : Deposit(c, h)) \/ UNCHANGED vars
  BY <1>6, <1>8 DEF Reset, Deposit, vars
<1> QED
  BY <1>1, <1>2, <1>3, <1>4, <1>5, <1>6, <1>7, <1>8 DEF Next, Cached!Use, Calls

LEMMA CallStep ==
    ASSUME TypeOK, NEW c \in Calls, LookUp(c) \/ Fill(c)
    PROVE  /\ calls[c].st # "idle" /\ calls'[c].key = calls[c].key
           /\ \A d \in Calls \ {c} : calls'[d] = calls[d]
           /\ UNCHANGED source
<1>1. Cached!TypeOK /\ Cached!Step(c)
  BY SameCache DEF TypeOK, LookUp, Fill, Cached!Step
<1> QED
  BY <1>1, CacheAssumed, Cached!StepKeepsKeys DEF Calls

LEMMA CacheTypeStep ==
    ASSUME TypeOK, [Next]_vars
    PROVE  Cache!TypeOK'
<1>1. Cached!TypeOK
  BY SameCache DEF TypeOK
<1>2. Cached!TypeOK'
  BY <1>1, UsesCache, CacheAssumed, Cached!TypeStep
<1> QED
  BY <1>2, SameCache

-----------------------------------------------------------------------------
(* Types *)

\* THEOREM: the service, its cache included, stays well typed.
THEOREM TypeCorrect == Spec => []TypeOK
<1>1. Init => TypeOK
  <2> SUFFICES ASSUME Init PROVE TypeOK
    OBVIOUS
  <2>1. source \in [Keys -> Nat]
    BY KeyFacts DEF Init
  <2>2. Cached!TypeOK
    BY <2>1, CacheAssumed, SameCache, Cached!StartTyped DEF Init
  <2> QED
    BY <2>2, SameCache DEF Init, TypeOK, Idle, Request, RequestStates
<1>2. TypeOK /\ [Next]_vars => TypeOK'
  <2> SUFFICES ASSUME TypeOK, [Next]_vars PROVE TypeOK'
    OBVIOUS
  <2>1. Cache!TypeOK'
    BY CacheTypeStep
  <2>2. ASSUME NEW r \in Requests, Throw(r) PROVE TypeOK'
    <3>1. requests' \in [Requests -> Request]
      <4> DEFINE q == [requests[r] EXCEPT !.st = "failed", !.served = resets]
      <4>1. requests' = [requests EXCEPT ![r] = q] /\ requests[r] \in Request
        BY <2>2 DEF Throw, TypeOK
      <4>2. q \in Request
        BY <4>1 DEF Request, RequestStates, TypeOK
      <4> HIDE DEF q
      <4> QED
        BY <4>1, <4>2 DEF TypeOK
    <3>2. stats' \in [signatures : Nat, errorCount : Nat]
      BY <2>2 DEF Throw, TypeOK, MonitoringError
    <3>3. UNCHANGED <<now, nonce, resets>>
      BY <2>2 DEF Throw
    <3> QED
      BY <2>1, <3>1, <3>2, <3>3 DEF TypeOK
  <2>3. ASSUME NEW r \in Requests PROVE NonceOf(r) \in Nat
    BY ServiceAssumption DEF TypeOK, NonceOf
  <2>4. ASSUME NEW r \in Requests, RefuseNetwork(r) PROVE TypeOK'
    <3>1. requests' \in [Requests -> Request]
      <4> DEFINE q == [requests[r] EXCEPT !.st = "refused"]
      <4>1. requests' = [requests EXCEPT ![r] = q] /\ requests[r] \in Request
        BY <2>4 DEF RefuseNetwork, TypeOK
      <4>2. q \in Request
        BY <4>1 DEF Request, RequestStates
      <4> HIDE DEF q
      <4> QED
        BY <4>1, <4>2 DEF TypeOK
    <3> QED
      BY <2>1, <2>4, <3>1 DEF RefuseNetwork, TypeOK
  <2>5. ASSUME NEW r \in Requests, Accept(r) PROVE TypeOK'
    <3>1. requests' \in [Requests -> Request]
      <4> DEFINE n == IF NeedsNonce(r) THEN "asked" ELSE "none"
                 q == [requests[r] EXCEPT !.st = "waiting", !.nonceSt = n,
                                          !.startNonce = NonceOf(r)]
      <4>1. requests' = [requests EXCEPT ![r] = q] /\ requests[r] \in Request
        BY <2>5 DEF Accept, TypeOK
      <4>2. q \in Request
        BY <4>1, <2>3 DEF Request, RequestStates
      <4> HIDE DEF q
      <4> QED
        BY <4>1, <4>2 DEF TypeOK
    <3> QED
      BY <2>1, <2>5, <3>1 DEF Accept, TypeOK
  <2>6. ASSUME NEW r \in Requests, ReadNonce(r) PROVE TypeOK'
    <3>1. requests' \in [Requests -> Request]
      <4> DEFINE q == [requests[r] EXCEPT !.nonceSt = "read", !.nonce = NonceOf(r)]
      <4>1. requests' = [requests EXCEPT ![r] = q] /\ requests[r] \in Request
        BY <2>6 DEF ReadNonce, TypeOK
      <4>2. q \in Request
        BY <4>1, <2>3 DEF Request, RequestStates
      <4> HIDE DEF q
      <4> QED
        BY <4>1, <4>2 DEF TypeOK
    <3> QED
      BY <2>1, <2>6, <3>1 DEF ReadNonce, TypeOK
  <2>7. ASSUME NEW r \in Requests, FailNonce(r) PROVE TypeOK'
    <3>1. requests' \in [Requests -> Request]
      <4> DEFINE q == [requests[r] EXCEPT !.nonceSt = "failed"]
      <4>1. requests' = [requests EXCEPT ![r] = q] /\ requests[r] \in Request
        BY <2>7 DEF FailNonce, TypeOK
      <4>2. q \in Request
        BY <4>1 DEF Request, RequestStates
      <4> HIDE DEF q
      <4> QED
        BY <4>1, <4>2 DEF TypeOK
    <3> QED
      BY <2>1, <2>7, <3>1 DEF FailNonce, TypeOK
  <2>8. ASSUME NEW r \in Requests, NEW b \in Branches PROVE CallOf(r, b).value \in Nat
    BY DEF CallOf, TypeOK, Cache!TypeOK, Cache!Call
  <2>9. DateLimit \in Nat
    BY ServiceAssumption DEF DateLimit, TypeOK
  <2>10. ASSUME NEW r \in Requests, Prepare(r) PROVE TypeOK'
    <3>1. TimestampLimit(r) \in Nat /\ CallOf(r, "decimals").value \in Nat
      BY <2>8, ServiceAssumption DEF TimestampLimit, Branches
    <3>2. requests' \in [Requests -> Request]
      <4> DEFINE q == [requests[r] EXCEPT !.st = "signing", !.decimals = CallOf(r, "decimals").value,
                                          !.limit = TimestampLimit(r), !.dateLimit = DateLimit]
      <4>1. requests' = [requests EXCEPT ![r] = q] /\ requests[r] \in Request
        BY <2>10 DEF Prepare, TypeOK
      <4>2. q \in Request
        BY <4>1, <2>9, <3>1 DEF Request, RequestStates
      <4> HIDE DEF q
      <4> QED
        BY <4>1, <4>2 DEF TypeOK
    <3> QED
      BY <2>1, <2>10, <3>2 DEF Prepare, TypeOK
  <2>11. ASSUME NEW r \in Requests, PrepareInstant(r) PROVE TypeOK'
    <3>1. CallOf(r, "decimals").value \in Nat
      BY <2>8 DEF Branches
    <3>2. requests' \in [Requests -> Request]
      <4> DEFINE q == [requests[r] EXCEPT !.st = "signing", !.decimals = CallOf(r, "decimals").value,
                                          !.nonce = 0, !.limit = UINT32_MAX]
      <4>1. requests' = [requests EXCEPT ![r] = q] /\ requests[r] \in Request
        BY <2>11 DEF PrepareInstant, TypeOK
      <4>2. q \in Request
        BY <4>1, <3>1, ServiceAssumption DEF Request, RequestStates
      <4> HIDE DEF q
      <4> QED
        BY <4>1, <4>2 DEF TypeOK
    <3> QED
      BY <2>1, <2>11, <3>2 DEF PrepareInstant, TypeOK
  <2>12. ASSUME NEW r \in Requests, ReturnRead(r) PROVE TypeOK'
    <3>1. requests' \in [Requests -> Request]
      <4> DEFINE q == [requests[r] EXCEPT !.st = "answered"]
      <4>1. requests' = [requests EXCEPT ![r] = q] /\ requests[r] \in Request
        BY <2>12 DEF ReturnRead, TypeOK
      <4>2. q \in Request
        BY <4>1 DEF Request, RequestStates
      <4> HIDE DEF q
      <4> QED
        BY <4>1, <4>2 DEF TypeOK
    <3> QED
      BY <2>1, <2>12, <3>1 DEF ReturnRead, TypeOK
  <2>13. ASSUME NEW r \in Requests, Issue(r) PROVE TypeOK'
    <3>1. requests' \in [Requests -> Request]
      <4> DEFINE q == [requests[r] EXCEPT !.st = "issued", !.served = resets,
                                          !.dateLimit = IF Kind[r] = "instant" THEN DateLimit ELSE @]
      <4>1. requests' = [requests EXCEPT ![r] = q] /\ requests[r] \in Request
        BY <2>13 DEF Issue, TypeOK
      <4>2. q \in Request
        BY <4>1, <2>9 DEF Request, RequestStates, TypeOK
      <4> HIDE DEF q
      <4> QED
        BY <4>1, <4>2 DEF TypeOK
    <3> QED
      BY <2>1, <2>13, <3>1 DEF Issue, TypeOK, CountSignature
  <2>14. ASSUME NEW c \in Calls, LookUp(c) \/ Fill(c) PROVE TypeOK'
    BY <2>1, <2>14 DEF LookUp, Fill, TypeOK
  <2>15. CASE CacheExpire \/ Reset \/ Tick \/ NewBlock \/ UNCHANGED vars
    <3>1. UNCHANGED <<nonce, requests>>
      BY <2>15 DEF CacheExpire, Reset, Tick, NewBlock, vars
    <3>2. now' \in Nat /\ resets' \in Nat /\ stats' \in [signatures : Nat, errorCount : Nat]
      BY <2>15 DEF CacheExpire, Reset, Tick, NewBlock, vars, TypeOK
    <3> QED
      BY <2>1, <3>1, <3>2 DEF TypeOK
  <2>16. ASSUME NEW c \in Contracts, NEW h \in Holders, Deposit(c, h) PROVE TypeOK'
    <3>1. nonce' \in [Contracts -> [Holders -> Nat]]
      BY <2>16 DEF Deposit, TypeOK
    <3> QED
      BY <2>1, <2>16, <3>1 DEF Deposit, TypeOK
  <2> QED
    BY <2>2, <2>4, <2>5, <2>6, <2>7, <2>10, <2>11, <2>12, <2>13, <2>14, <2>15, <2>16
       DEF Next, Continue, Answer, FailBranch, FailSigning, RefuseParams, Calls
<1> QED
  BY <1>1, <1>2, PTL DEF Spec

-----------------------------------------------------------------------------
(* What the cache promises is kept in the service *)

LEMMA CachedInService == Spec => Cached!InService
<1>1. Init => source \in [Keys -> Nat] /\ Cached!Empty
  BY KeyFacts, SameCache DEF Init
<1>2. TypeOK /\ [Next]_vars => [Cached!Use]_(Cached!vars)
  BY UsesCache
<1> QED
  BY <1>1, <1>2, TypeCorrect, PTL DEF Spec, Cached!InService

LEMMA CachedInv == Spec => []Cached!CacheInv
BY CachedInService, CacheAssumed, Cached!InvInService

\* THEOREM: all that the handlers, the chain and the clock do with the cache is what
\* a service may do with one: call, and let sources move on.
THEOREM CacheServes == Spec => Cache!InService
<1>1. (Cached!Empty <=> Cache!Empty) /\ ([Cached!Use]_(Cached!vars) => [Cache!Use]_(Cache!vars))
  BY SameCache DEF Cached!vars, Cache!vars
<1> QED
  BY <1>1, CachedInService, PTL DEF Cached!InService, Cache!InService

\* THEOREM: the block that a signature takes its limit from had been cached for at
\* most CACHE_TIME_OUT and the lag of the timers, however the look-ups of requests,
\* their fills and the timers overlap.
THEOREM BlockAge == Spec => []Cache!EntryAgeBounded
<1>1. Cached!CacheInv => Cache!EntryAgeBounded
  BY CacheAssumed, SameCache, Cached!CoveredIsBounded DEF Cached!CacheInv
<1> QED
  BY <1>1, CachedInv, PTL

LEMMA OwnInService == Spec => []Cache!OwnAnswers
<1>1. Cached!CacheInv => Cache!OwnAnswers
  BY SameCache DEF Cached!CacheInv
<1> QED
  BY <1>1, CachedInv, PTL

\* THEOREM: the decimals of a contract, once cached, stay: no failed look-up, no
\* timer of the block and no other contract's fill drops them.
THEOREM SettingsStay == Spec => Cache!SettingsKept
<1>1. Spec => Cached!SettingsKept
  BY CachedInService, CacheAssumed, Cached!KeptInService
<1> QED
  BY <1>1, PTL DEF Cached!SettingsKept, Cache!SettingsKept

\* THEOREM: a request whose look-up missed goes on with an answer that was read after
\* the request had come, whichever other request fills the entry meanwhile.
THEOREM MissesFresh == Spec => Cache!MissFresh
<1>1. Spec => Cached!MissFresh
  BY CachedInService, CacheAssumed, Cached!FreshInService
<1> QED
  BY <1>1, PTL DEF Cached!MissFresh, Cache!MissFresh

\* So is what Cached and Cache promise.
LEMMA SamePromise ==
    /\ Cached!Bounded!Init <=> Cache!Bounded!Init
    /\ Cached!Bounded!Next <=> Cache!Bounded!Next
    /\ Cached!Bounded!vars = Cache!Bounded!vars
    /\ Cached!Bounded!vars' = Cache!Bounded!vars'
BY DEF Cached!Seen, Cache!Seen, Cached!InFlight, Cache!InFlight, Cached!Deadline, Cache!Deadline,
       Cached!Bounded!Init, Cache!Bounded!Init, Cached!Bounded!NoCall, Cache!Bounded!NoCall,
       Cached!Bounded!Next, Cache!Bounded!Next, Cached!Bounded!vars, Cache!Bounded!vars,
       Cached!Bounded!Begin, Cache!Bounded!Begin, Cached!Bounded!End, Cache!Bounded!End,
       Cached!Bounded!Serve, Cache!Bounded!Serve, Cached!Bounded!Ask, Cache!Bounded!Ask,
       Cached!Bounded!Fail, Cache!Bounded!Fail, Cached!Bounded!Drop, Cache!Bounded!Drop,
       Cached!Bounded!Age, Cache!Bounded!Age, Cached!Bounded!Move, Cache!Bounded!Move,
       Cached!Bounded!Holding, Cache!Bounded!Holding, Cached!Bounded!Nothing, Cache!Bounded!Nothing

\* THEOREM: to the handlers the cache is a BoundedCache, step by step: what they get
\* was read from its source since the request came, or had been stored at most
\* CACHE_TIME_OUT (and the lag of the timers) before.
THEOREM BoundedBlock ==
    Spec => Cache!Bounded!Init /\ [][Cache!Bounded!Next]_(Cache!Bounded!vars)
<1>1. Spec => Cached!Bounded!Init /\ [][Cached!Bounded!Next]_(Cached!Bounded!vars)
  BY CachedInService, CacheAssumed, Cached!BoundedInService
<1>2. [Cached!Bounded!Next]_(Cached!Bounded!vars) => [Cache!Bounded!Next]_(Cache!Bounded!vars)
  BY SamePromise
<1>3. Cached!Bounded!Init => Cache!Bounded!Init
  BY SamePromise
<1> QED
  BY <1>1, <1>2, <1>3, PTL

-----------------------------------------------------------------------------
(* What a branch of a request asks the cache for, and nothing else *)

KeyOf(c) == IF c[2] = "block" THEN BLOCK_KEY ELSE SettingsKey(Contract[c[1]])

CallsKeyed == \A c \in Calls : calls[c].st # "idle" => calls[c].key = KeyOf(c)

LEMMA KeyedAlways == Spec => []CallsKeyed
<1>1. Init => CallsKeyed
  BY DEF Init, Cache!Empty, Cache!NoCall, CallsKeyed, Calls
<1>2. TypeOK /\ CallsKeyed /\ [Next]_vars => CallsKeyed'
  <2> SUFFICES ASSUME TypeOK, CallsKeyed, [Next]_vars PROVE CallsKeyed'
    OBVIOUS
  <2>1. ASSUME NEW c \in Calls, LookUp(c) \/ Fill(c) PROVE CallsKeyed'
    BY <2>1, CallStep DEF CallsKeyed, KeyOf
  <2>2. ASSUME NEW r \in Requests, Accept(r) PROVE CallsKeyed'
    <3> SUFFICES ASSUME NEW c \in Calls, calls'[c].st # "idle" PROVE calls'[c].key = KeyOf(c)
      BY DEF CallsKeyed, KeyOf
    <3> DEFINE key == CachedCalls(r)
    <3>1. calls'[c] = IF c \in DOMAIN key
                      THEN [st |-> "keyed", key |-> key[c], value |-> 0, since |-> source[key[c]]]
                      ELSE calls[c]
      BY <2>2 DEF Accept, Cache!EnterAll, Calls
    <3>2. c \in DOMAIN key => key[c] = KeyOf(c)
      BY DEF CachedCalls, KeyOf
    <3> HIDE DEF key
    <3> QED
      BY <3>1, <3>2 DEF CallsKeyed
  <2>3. CASE UNCHANGED calls
    BY <2>3 DEF CallsKeyed, KeyOf
  <2>4. ASSUME NEW r \in Requests,
               \/ RefuseNetwork(r) \/ RefuseParams(r) \/ ReadNonce(r) \/ FailNonce(r)
               \/ Answer(r) \/ Continue(r)
        PROVE  UNCHANGED calls
    BY <2>4, HandlersApart DEF cacheVars
  <2>5. CASE CacheExpire \/ Reset \/ Tick \/ NewBlock \/ UNCHANGED vars
             \/ (\E c \in Contracts, h \in Holders : Deposit(c, h))
    BY <2>3, <2>5 DEF CacheExpire, Cache!Expire, Reset, Tick, Cache!Tick, NewBlock, Deposit,
                      vars, cacheVars
  <2> QED
    BY <2>1, <2>2, <2>3, <2>4, <2>5 DEF Next, Calls
<1> QED
  BY <1>1, <1>2, TypeCorrect, PTL DEF Spec

-----------------------------------------------------------------------------
(* Limits *)

\* The chain's clock and the service's clock keep together.
Clocks == now <= Head + BlockLag /\ Head <= now + Skew

\* What is signed lies far enough below what is answered.
LimitBelow ==
    \A r \in Requests : Signed(r) /\ Kind[r] = "deposit" =>
        requests[r].limit + INDEXER_OFFSET <= requests[r].dateLimit + Skew

IInv == Clocks /\ LimitBelow

LEMMA HeadType == TypeOK => Head \in Nat /\ now \in Nat /\ source \in [Keys -> Nat]
BY KeyFacts DEF TypeOK, Cache!TypeOK, Head

LEMMA ConstantTypes ==
    /\ BlockLag \in Nat /\ Skew \in Nat /\ TIME_OUT \in Nat /\ INDEXER_OFFSET \in Nat
    /\ BlockLag + Skew <= INDEXER_OFFSET
BY ServiceAssumption, ClockAssumption

\* A step that leaves the chain and the clock alone.
LEMMA HandlerStep ==
    ASSUME IInv, UNCHANGED <<now, source>>, LimitBelow'
    PROVE  IInv'
BY DEF IInv, Clocks, Head

\* A step of one request that signs nothing new and alters no signed limit.
LEMMA SignedAsBefore ==
    ASSUME LimitBelow, NEW r \in Requests,
           \A q \in Requests \ {r} : requests'[q] = requests[q],
           Signed(r)' => /\ Signed(r)
                         /\ requests'[r].limit = requests[r].limit
                         /\ Kind[r] = "deposit" => requests'[r].dateLimit = requests[r].dateLimit
    PROVE  LimitBelow'
BY DEF LimitBelow, Signed

\* Preparing a deposit: its block is not ahead of the head block, and the head
\* block is not ahead of the clock by more than Skew.
LEMMA PrepareKeepsIInv ==
    ASSUME TypeOK, Cache!OwnAnswers, CallsKeyed, IInv, NEW r \in Requests, Prepare(r)
    PROVE  IInv'
<1>1. /\ requests' = [requests EXCEPT ![r].st = "signing",
                        ![r].decimals = CallOf(r, "decimals").value,
                        ![r].limit = TimestampLimit(r), ![r].dateLimit = DateLimit]
      /\ UNCHANGED <<now, source>>
      /\ CallOf(r, "block").st = "done"
  BY DEF Prepare, AllAnswered, NeedsBlock, cacheVars
<1>2. requests[r] \in Request
  BY DEF TypeOK
<1>3. /\ requests'[r].limit = TimestampLimit(r)
      /\ requests'[r].dateLimit = DateLimit
      /\ \A q \in Requests \ {r} : requests'[q] = requests[q]
  BY <1>1, <1>2 DEF TypeOK, Request
<1>4. CallOf(r, "block").value <= Head
  <2>1. <<r, "block">> \in Calls /\ KeyOf(<<r, "block">>) = BLOCK_KEY
    BY DEF Calls, Branches, KeyOf
  <2> QED
    BY <1>1, <2>1 DEF CallsKeyed, Cache!OwnAnswers, CallOf, Head, Calls
<1>5. CallOf(r, "block").value \in Nat
  <2>1. <<r, "block">> \in Requests \X Branches
    BY DEF Branches
  <2> QED
    BY <2>1 DEF TypeOK, Cache!TypeOK, Cache!Call, CallOf
<1>6. TimestampLimit(r) + INDEXER_OFFSET <= DateLimit + Skew
  BY <1>4, <1>5, HeadType, ConstantTypes DEF IInv, Clocks, TimestampLimit, DateLimit
<1>7. LimitBelow'
  BY <1>3, <1>6 DEF IInv, LimitBelow, Signed
<1> QED
  BY <1>1, <1>7, HandlerStep

\* Time passes and blocks are mined within what the guards of both allow.
LEMMA ClockStepKeepsIInv ==
    ASSUME TypeOK, IInv, Tick \/ NewBlock
    PROVE  IInv'
<1>1. LimitBelow'
  BY DEF Tick, NewBlock, IInv, LimitBelow, Signed
<1>2. CASE Tick
  <2>1. now' = now + 1 /\ now + 1 <= Head + BlockLag /\ UNCHANGED source
    BY <1>2 DEF Tick, Cache!Tick
  <2> QED
    BY <1>1, <2>1, HeadType, ConstantTypes DEF IInv, Clocks, Head
<1>3. CASE NewBlock
  <2>1. PICK t \in Head + 1 .. now + Skew : source' = [source EXCEPT ![BLOCK_KEY] = t]
    BY <1>3 DEF NewBlock
  <2>2. now' = now /\ Head' = t /\ t > Head /\ t <= now + Skew /\ t \in Nat
    BY <1>3, <2>1, HeadType, KeyFacts, ConstantTypes DEF NewBlock, Head
  <2> QED
    BY <1>1, <2>2, HeadType, ConstantTypes DEF IInv, Clocks
<1> QED
  BY <1>2, <1>3

\* THEOREM: once dateLimit has passed, no block can take the signed deposit.
THEOREM DateLimitHolds == Spec => []DateLimitCovers
<1>1. Init => IInv
  <2> SUFFICES ASSUME Init PROVE IInv
    OBVIOUS
  <2>1. Head = 0 /\ now = 0
    BY KeyFacts DEF Init, Head
  <2> QED
    BY <2>1, ConstantTypes DEF IInv, Clocks, Init, LimitBelow, Signed, Idle
<1>2. TypeOK /\ Cache!OwnAnswers /\ CallsKeyed /\ IInv /\ [Next]_vars => IInv'
  <2> SUFFICES ASSUME TypeOK, Cache!OwnAnswers, CallsKeyed, IInv, [Next]_vars PROVE IInv'
    OBVIOUS
  <2>1. \A r \in Requests : requests[r] \in Request
    BY DEF TypeOK
  <2>2. ASSUME NEW r \in Requests, RefuseNetwork(r) \/ Throw(r) \/ ReturnRead(r) PROVE IInv'
    <3>1. /\ ~ Signed(r)'
          /\ \A q \in Requests \ {r} : requests'[q] = requests[q]
          /\ UNCHANGED <<now, source>>
      BY <2>1, <2>2 DEF RefuseNetwork, Throw, ReturnRead, Signed, TypeOK, Request, cacheVars
    <3> QED
      BY <3>1, SignedAsBefore, HandlerStep DEF IInv
  <2>3. ASSUME NEW r \in Requests, ReadNonce(r) \/ FailNonce(r) PROVE IInv'
    <3>1. /\ requests'[r].st = requests[r].st
          /\ requests'[r].limit = requests[r].limit
          /\ requests'[r].dateLimit = requests[r].dateLimit
          /\ \A q \in Requests \ {r} : requests'[q] = requests[q]
          /\ UNCHANGED <<now, source>>
      BY <2>1, <2>3 DEF ReadNonce, FailNonce, TypeOK, Request, cacheVars
    <3> QED
      BY <3>1, SignedAsBefore, HandlerStep DEF IInv, Signed
  <2>4. ASSUME NEW r \in Requests, Issue(r) PROVE IInv'
    <3>1. /\ requests[r].st = "signing"
          /\ requests'[r].limit = requests[r].limit
          /\ Kind[r] = "deposit" => requests'[r].dateLimit = requests[r].dateLimit
          /\ \A q \in Requests \ {r} : requests'[q] = requests[q]
          /\ UNCHANGED <<now, source>>
      BY <2>1, <2>4 DEF Issue, TypeOK, Request, cacheVars
    <3> QED
      BY <3>1, SignedAsBefore, HandlerStep DEF IInv, Signed
  <2>5. ASSUME NEW r \in Requests, PrepareInstant(r) PROVE IInv'
    <3>1. /\ Kind[r] # "deposit"
          /\ \A q \in Requests \ {r} : requests'[q] = requests[q]
          /\ UNCHANGED <<now, source>>
      BY <2>5 DEF PrepareInstant, TypeOK, cacheVars
    <3> QED
      BY <3>1, HandlerStep DEF IInv, LimitBelow, Signed
  <2>6. CASE UNCHANGED <<now, requests, source>>
    BY <2>6, HandlerStep DEF IInv, LimitBelow, Signed
  <2>7. ASSUME NEW c \in Calls, LookUp(c) \/ Fill(c) PROVE UNCHANGED <<now, requests, source>>
    BY <2>7, CallStep DEF LookUp, Fill
  <2>8. ASSUME NEW r \in Requests, Accept(r) PROVE IInv'
    <3>1. /\ requests'[r].st = "waiting"
          /\ \A q \in Requests \ {r} : requests'[q] = requests[q]
          /\ UNCHANGED <<now, source>>
      BY <2>1, <2>8 DEF Accept, Cache!EnterAll, TypeOK, Request
    <3> QED
      BY <3>1, SignedAsBefore, HandlerStep DEF IInv, Signed
  <2>9. CASE CacheExpire \/ Reset \/ UNCHANGED vars
             \/ (\E c \in Contracts, h \in Holders : Deposit(c, h))
    BY <2>6, <2>9 DEF CacheExpire, Cache!Expire, Reset, Deposit, vars, cacheVars
  <2> QED
    BY <2>2, <2>3, <2>4, <2>5, <2>6, <2>7, <2>8, <2>9, PrepareKeepsIInv, ClockStepKeepsIInv
       DEF Next, Continue, Answer, FailBranch, FailSigning, RefuseParams, Calls
<1>3. TypeOK /\ IInv => DateLimitCovers
  <2> SUFFICES ASSUME TypeOK, IInv, NEW r \in Requests, Signed(r), Kind[r] = "deposit",
                      now > requests[r].dateLimit
               PROVE  Head > requests[r].limit
    BY DEF DateLimitCovers
  <2>1. requests[r].limit \in Nat /\ requests[r].dateLimit \in Nat
    BY DEF TypeOK, Request
  <2> QED
    BY <2>1, HeadType, ConstantTypes DEF IInv, Clocks, LimitBelow
<1> QED
  BY <1>1, <1>2, <1>3, TypeCorrect, OwnInService, KeyedAlways, PTL DEF Spec

-----------------------------------------------------------------------------
(* Nonces *)

\* What is known of the nonce of r: it is asked for after startNonce was the
\* holder's, it lies between that and the holder's, and nothing is signed without.
Known(r) ==
    /\ requests[r].nonceSt = "asked" => requests[r].startNonce <= NonceOf(r)
    /\ requests[r].nonceSt = "read" /\ Kind[r] = "deposit" =>
         requests[r].nonce \in requests[r].startNonce .. NonceOf(r)
    /\ Signed(r) /\ Kind[r] = "deposit" => requests[r].nonceSt = "read"

AllKnown == \A r \in Requests : Known(r)

LEMMA NonceType ==
    ASSUME TypeOK, NEW r \in Requests
    PROVE  /\ requests[r] \in Request /\ NonceOf(r) \in Nat
           /\ requests[r].startNonce \in Nat
           /\ requests[r].nonceSt \in {"none", "asked", "read", "failed"}
BY ServiceAssumption DEF TypeOK, Request, NonceOf

\* A step of one request leaves what is known of the others.
LEMMA OthersKnown ==
    ASSUME AllKnown, NEW r \in Requests, nonce' = nonce, Known(r)',
           \A q \in Requests \ {r} : requests'[q] = requests[q]
    PROVE  AllKnown'
<1>1. ASSUME NEW q \in Requests, q # r PROVE Known(q)'
  <2>1. Known(q)
    BY DEF AllKnown
  <2> QED BY <1>1, <2>1 DEF Known, NonceOf, Signed
<1> QED BY <1>1 DEF AllKnown

\* Nothing that the nonce depends on changes, and nothing new is signed.
LEMMA SameKnown ==
    ASSUME NEW r \in Requests, Known(r), nonce' = nonce,
           requests'[r].nonceSt = requests[r].nonceSt,
           requests'[r].startNonce = requests[r].startNonce,
           Kind[r] = "deposit" => requests'[r].nonce = requests[r].nonce,
           Signed(r)' /\ Kind[r] = "deposit" => Signed(r) \/ requests[r].nonceSt = "read"
    PROVE  Known(r)'
BY DEF Known, NonceOf

LEMMA HandlerKnown ==
    ASSUME TypeOK, AllKnown, NEW r \in Requests,
           \/ RefuseNetwork(r) \/ Throw(r) \/ Accept(r) \/ ReadNonce(r) \/ FailNonce(r)
           \/ Prepare(r) \/ PrepareInstant(r) \/ ReturnRead(r) \/ Issue(r)
    PROVE  AllKnown'
<1>1. /\ nonce' = nonce
      /\ \A q \in Requests \ {r} : requests'[q] = requests[q]
  BY DEF RefuseNetwork, Throw, Accept, ReadNonce, FailNonce, Prepare, PrepareInstant,
         ReturnRead, Issue, TypeOK
<1>2. Known(r) /\ requests[r] \in Request
  BY NonceType DEF AllKnown
<1>3. Known(r)'
  <2>1. CASE RefuseNetwork(r) \/ Throw(r) \/ ReturnRead(r)
    <3>1. /\ requests'[r].nonceSt = requests[r].nonceSt
          /\ requests'[r].startNonce = requests[r].startNonce
          /\ requests'[r].nonce = requests[r].nonce
          /\ requests'[r].st \in {"refused", "failed", "answered"}
      BY <1>2, <2>1 DEF RefuseNetwork, Throw, ReturnRead, TypeOK, Request
    <3> QED BY <1>1, <1>2, <3>1, SameKnown DEF Signed
  <2>2. CASE Accept(r)
    <3>1. /\ requests'[r].nonceSt \in {"asked", "none"}
          /\ requests'[r].startNonce = NonceOf(r)
          /\ requests'[r].st = "waiting"
      BY <1>2, <2>2 DEF Accept, TypeOK, Request
    <3>2. NonceOf(r)' = NonceOf(r) /\ NonceOf(r) \in Nat
      BY <1>1, NonceType DEF NonceOf
    <3> QED BY <3>1, <3>2 DEF Known, Signed
  <2>3. CASE ReadNonce(r)
    <3>1. /\ requests'[r].nonceSt = "read" /\ requests[r].nonceSt = "asked"
          /\ requests'[r].startNonce = requests[r].startNonce
          /\ requests'[r].nonce = NonceOf(r)
      BY <1>2, <2>3 DEF ReadNonce, TypeOK, Request
    <3>2. NonceOf(r)' = NonceOf(r) /\ NonceOf(r) \in Nat
          /\ requests[r].startNonce \in Nat
      BY <1>1, NonceType DEF NonceOf
    <3>3. requests'[r].nonce \in requests'[r].startNonce .. NonceOf(r)'
      BY <1>2, <3>1, <3>2 DEF Known
    <3> QED BY <3>1, <3>3 DEF Known
  <2>4. CASE FailNonce(r)
    <3>1. /\ requests'[r].nonceSt = "failed" /\ requests[r].nonceSt = "asked"
          /\ requests'[r].st = requests[r].st
      BY <1>2, <2>4 DEF FailNonce, TypeOK, Request
    <3> QED BY <1>2, <3>1 DEF Known, Signed
  <2>5. CASE Prepare(r)
    <3>1. /\ requests'[r].nonceSt = requests[r].nonceSt
          /\ requests'[r].startNonce = requests[r].startNonce
          /\ requests'[r].nonce = requests[r].nonce
      BY <1>2, <2>5 DEF Prepare, TypeOK, Request
    <3>2. requests[r].nonceSt = "read"
      BY <2>5 DEF Prepare, AllAnswered, NeedsNonce
    <3> QED BY <1>1, <1>2, <3>1, <3>2, SameKnown
  <2>6. CASE PrepareInstant(r)
    <3>1. /\ requests'[r].nonceSt = requests[r].nonceSt
          /\ requests'[r].startNonce = requests[r].startNonce
          /\ Kind[r] # "deposit"
      BY <1>2, <2>6 DEF PrepareInstant, TypeOK, Request
    <3> QED BY <1>1, <1>2, <3>1, SameKnown
  <2>7. CASE Issue(r)
    <3>1. /\ requests'[r].nonceSt = requests[r].nonceSt
          /\ requests'[r].startNonce = requests[r].startNonce
          /\ requests'[r].nonce = requests[r].nonce
          /\ requests[r].st = "signing"
      BY <1>2, <2>7 DEF Issue, TypeOK, Request
    <3> QED BY <1>1, <1>2, <3>1, SameKnown DEF Signed
  <2> QED BY <2>1, <2>2, <2>3, <2>4, <2>5, <2>6, <2>7
<1> QED BY <1>1, <1>3, OthersKnown

\* A deposit only moves a holder's nonce on.
LEMMA DepositKnown ==
    ASSUME TypeOK, AllKnown, NEW c \in Contracts, NEW h \in Holders, Deposit(c, h)
    PROVE  AllKnown'
<1>1. requests' = requests
  BY DEF Deposit
<1>2. ASSUME NEW r \in Requests PROVE Known(r)'
  <2>1. NonceOf(r)' \in {NonceOf(r), NonceOf(r) + 1}
    <3>1. Contract[r] \in Contracts /\ Holder[r] \in Holders
      BY ServiceAssumption
    <3>2. nonce \in [Contracts -> [Holders -> Nat]]
      BY DEF TypeOK
    <3>3. nonce' = [nonce EXCEPT ![c] = [nonce[c] EXCEPT ![h] = nonce[c][h] + 1]]
      BY <3>2 DEF Deposit
    <3>4. nonce[c] \in [Holders -> Nat]
      BY <3>2
    <3>5. CASE Contract[r] = c /\ Holder[r] = h
      BY <3>1, <3>2, <3>3, <3>4, <3>5 DEF NonceOf
    <3>6. CASE Contract[r] = c /\ Holder[r] # h
      BY <3>1, <3>2, <3>3, <3>4, <3>6 DEF NonceOf
    <3>7. CASE Contract[r] # c
      BY <3>1, <3>2, <3>3, <3>7 DEF NonceOf
    <3> QED BY <3>5, <3>6, <3>7
  <2>2. NonceOf(r) \in Nat /\ requests[r].startNonce \in Nat /\ Known(r)
    BY NonceType DEF AllKnown
  <2>3. requests[r].nonceSt = "asked" => requests[r].startNonce <= NonceOf(r)'
    BY <2>1, <2>2 DEF Known
  <2>4. requests[r].nonceSt = "read" /\ Kind[r] = "deposit" =>
          requests[r].nonce \in requests[r].startNonce .. NonceOf(r)'
    BY <2>1, <2>2 DEF Known
  <2> QED BY <1>1, <2>2, <2>3, <2>4 DEF Known, Signed
<1> QED BY <1>2 DEF AllKnown

\* THEOREM: the signed nonce was the holder's at some time during the request.
THEOREM NonceAlways == Spec => []NonceFresh
<1>1. Init => AllKnown
  BY DEF Init, AllKnown, Known, Idle, Signed
<1>2. TypeOK /\ AllKnown /\ [Next]_vars => AllKnown'
  <2> SUFFICES ASSUME TypeOK, AllKnown, [Next]_vars PROVE AllKnown'
    OBVIOUS
  <2>1. CASE UNCHANGED <<nonce, requests>>
    BY <2>1 DEF AllKnown, Known, NonceOf, Signed
  <2>2. ASSUME NEW c \in Calls, LookUp(c) \/ Fill(c) PROVE UNCHANGED <<nonce, requests>>
    BY <2>2 DEF LookUp, Fill
  <2>3. CASE CacheExpire \/ Reset \/ Tick \/ NewBlock \/ UNCHANGED vars
    BY <2>1, <2>3 DEF CacheExpire, Reset, Tick, NewBlock, vars
  <2> QED
    BY <2>1, <2>2, <2>3, HandlerKnown, DepositKnown
       DEF Next, Continue, Answer, FailBranch, FailSigning, RefuseParams, Calls
<1>3. AllKnown => NonceFresh
  BY DEF AllKnown, Known, NonceFresh
<1> QED BY <1>1, <1>2, <1>3, TypeCorrect, PTL DEF Spec

-----------------------------------------------------------------------------
(* Decimals *)

\* The decimals of a contract do not change, and what is cached or was answered
\* under its key are they.
SettingsTrue == \A c \in Contracts : Cached!Steady(SettingsKey(c), Decimals[c])

LEMMA SettingsKeyFacts ==
    \A c \in Contracts : SettingsKey(c) \in Keys /\ SettingsKey(c) # BLOCK_KEY /\ SettingsKey(c)[2] = c
<1>1. \A c \in Contracts : SettingsKey(c) # BLOCK_KEY
  BY DEF SettingsKey, BLOCK_KEY
<1> QED
  BY <1>1 DEF Keys, SettingsKeys, SettingsKey

LEMMA SettingsTrueAlways == Spec => []SettingsTrue
<1>1. Init => SettingsTrue
  BY SettingsKeyFacts
     DEF Init, SettingsTrue, Cached!Steady, Cache!Empty, Cache!NoEntry, Cache!NoCall
<1>2. TypeOK /\ SettingsTrue /\ [Next]_vars => SettingsTrue'
  <2> SUFFICES ASSUME TypeOK, SettingsTrue, [Next]_vars, NEW c \in Contracts
               PROVE  Cached!Steady(SettingsKey(c), Decimals[c])'
    BY DEF SettingsTrue
  <2>1. source'[SettingsKey(c)] = source[SettingsKey(c)]
    <3>1. CASE NewBlock
      <4>1. source \in [Keys -> Nat]
        BY DEF TypeOK, Cache!TypeOK
      <4> QED
        BY <3>1, <4>1, SettingsKeyFacts DEF NewBlock
    <3>2. ASSUME NEW x \in Calls, LookUp(x) \/ Fill(x) PROVE UNCHANGED source
      BY <3>2, CallStep
    <3>3. ASSUME NEW r \in Requests,
                 \/ RefuseNetwork(r) \/ RefuseParams(r) \/ ReadNonce(r) \/ FailNonce(r)
                 \/ Answer(r) \/ Continue(r)
          PROVE  UNCHANGED source
      BY <3>3, HandlersApart DEF cacheVars
    <3>4. CASE \/ CacheExpire \/ Reset \/ Tick \/ UNCHANGED vars
               \/ \E r \in Requests : Accept(r)
               \/ \E d \in Contracts, h \in Holders : Deposit(d, h)
      BY <3>4 DEF CacheExpire, Cache!Expire, Reset, Tick, Cache!Tick, Deposit, Accept,
                  Cache!EnterAll, vars, cacheVars
    <3> QED
      BY <3>1, <3>2, <3>3, <3>4 DEF Next, Calls
  <2>2. Cached!Steady(SettingsKey(c), Decimals[c])
    BY DEF SettingsTrue
  <2>3. Cached!TypeOK /\ [Cached!Use]_(Cached!vars)
    BY SameCache, UsesCache DEF TypeOK
  <2> QED
    BY <2>1, <2>2, <2>3, SettingsKeyFacts, CacheAssumed, Cached!SteadyStep
<1> QED
  BY <1>1, <1>2, TypeCorrect, PTL DEF Spec

\* What a handler is about to sign, it has from its own call.
LEMMA PreparedDecimals ==
    ASSUME TypeOK, CallsKeyed, SettingsTrue, NEW r \in Requests, Prepare(r) \/ PrepareInstant(r)
    PROVE  requests'[r].decimals = Decimals[Contract[r]]
<1>1. requests'[r].decimals = CallOf(r, "decimals").value
  BY DEF Prepare, PrepareInstant, TypeOK, Request
<1>2. CallOf(r, "decimals").st = "done"
  BY DEF Prepare, PrepareInstant, AllAnswered, NeedsDecimals
<1>3. /\ <<r, "decimals">> \in Calls /\ Contract[r] \in Contracts
      /\ KeyOf(<<r, "decimals">>) = SettingsKey(Contract[r])
  BY ServiceAssumption DEF Calls, Branches, KeyOf
<1>4. CallOf(r, "decimals").key = SettingsKey(Contract[r])
  BY <1>2, <1>3 DEF CallsKeyed, CallOf
<1>5. CallOf(r, "decimals").value = Decimals[Contract[r]]
  BY <1>2, <1>3, <1>4 DEF SettingsTrue, Cached!Steady, CallOf, Calls
<1> QED
  BY <1>1, <1>5

\* THEOREM: an amount is scaled with the decimals of the request's own contract.
THEOREM DecimalsAlways == Spec => []OwnDecimals
<1>1. Init => OwnDecimals
  BY DEF Init, OwnDecimals, Signed, Idle
<1>2. TypeOK /\ CallsKeyed /\ SettingsTrue /\ OwnDecimals /\ [Next]_vars => OwnDecimals'
  <2> SUFFICES ASSUME TypeOK, CallsKeyed, SettingsTrue, OwnDecimals, [Next]_vars
               PROVE  OwnDecimals'
    OBVIOUS
  <2>1. ASSUME NEW r \in Requests,
               \A q \in Requests \ {r} : requests'[q] = requests[q],
               Signed(r)' => requests'[r].decimals = Decimals[Contract[r]]
        PROVE  OwnDecimals'
    BY <2>1 DEF OwnDecimals, Signed
  <2>2. \A r \in Requests : requests[r] \in Request
    BY DEF TypeOK
  <2>3. ASSUME NEW r \in Requests,
               RefuseNetwork(r) \/ Throw(r) \/ ReturnRead(r) \/ Accept(r)
        PROVE  OwnDecimals'
    <3>1. ~ Signed(r)' /\ \A q \in Requests \ {r} : requests'[q] = requests[q]
      BY <2>2, <2>3 DEF RefuseNetwork, Throw, ReturnRead, Accept, TypeOK, Request, Signed
    <3> QED
      BY <2>1, <3>1
  <2>4. ASSUME NEW r \in Requests, ReadNonce(r) \/ FailNonce(r) \/ Issue(r)
        PROVE  OwnDecimals'
    <3>1. /\ Signed(r)' => Signed(r)
          /\ requests'[r].decimals = requests[r].decimals
          /\ \A q \in Requests \ {r} : requests'[q] = requests[q]
      BY <2>2, <2>4 DEF ReadNonce, FailNonce, Issue, TypeOK, Request, Signed
    <3> QED
      BY <2>1, <3>1 DEF OwnDecimals
  <2>5. ASSUME NEW r \in Requests, Prepare(r) \/ PrepareInstant(r) PROVE OwnDecimals'
    <3>1. \A q \in Requests \ {r} : requests'[q] = requests[q]
      BY <2>5 DEF Prepare, PrepareInstant, TypeOK
    <3> QED
      BY <2>1, <2>5, <3>1, PreparedDecimals
  <2>6. CASE UNCHANGED requests
    BY <2>6 DEF OwnDecimals, Signed
  <2>7. CASE \/ \E c \in Calls : LookUp(c) \/ Fill(c)
             \/ CacheExpire \/ Reset \/ Tick \/ NewBlock \/ UNCHANGED vars
             \/ \E c \in Contracts, h \in Holders : Deposit(c, h)
    BY <2>6, <2>7 DEF LookUp, Fill, CacheExpire, Reset, Tick, NewBlock, Deposit, vars
  <2> QED
    BY <2>3, <2>4, <2>5, <2>7
       DEF Next, Continue, Answer, FailBranch, FailSigning, RefuseParams, Calls
<1> QED
  BY <1>1, <1>2, TypeCorrect, KeyedAlways, SettingsTrueAlways, PTL DEF Spec

-----------------------------------------------------------------------------
(* Statistics *)

\* The requests that have come to st since the last hard reset.
Ended(st) == {r \in Requests : requests[r].st = st /\ requests[r].served = resets}

\* No request is answered in an epoch that is still to come.
ServedBefore ==
    \A r \in Requests : requests[r].st \in {"issued", "failed"} => requests[r].served <= resets

SInv == StatsCount /\ ServedBefore

\* A step that ends no request, and leaves those that have ended as they are.
LEMMA NothingEnds ==
    ASSUME SInv, UNCHANGED <<stats, resets>>,
           \A r \in Requests :
             \/ requests'[r] = requests[r]
             \/ /\ requests[r].st \notin {"issued", "failed"}
                /\ requests'[r].st \notin {"issued", "failed"}
             \/ /\ requests'[r].st = requests[r].st
                /\ requests'[r].served = requests[r].served
    PROVE  SInv'
<1>1. \A st \in {"issued", "failed"} : Ended(st)' = Ended(st)
  BY DEF Ended
<1>2. StatsCount'
  BY <1>1 DEF SInv, StatsCount, Ended
<1>3. ServedBefore'
  BY DEF SInv, ServedBefore
<1> QED
  BY <1>2, <1>3 DEF SInv

\* The step that ends r: it is counted, and the others stay.
LEMMA OneEnds ==
    ASSUME TypeOK, IsFiniteSet(Requests), NEW r \in Requests, NEW st \in {"issued", "failed"},
           SInv, requests[r].st \notin {"issued", "failed"}, resets' = resets,
           requests'[r].st = st, requests'[r].served = resets,
           \A q \in Requests \ {r} : requests'[q] = requests[q]
    PROVE  /\ Cardinality(Ended(st)') = Cardinality(Ended(st)) + 1
           /\ \A u \in {"issued", "failed"} \ {st} : Ended(u)' = Ended(u)
           /\ ServedBefore'
<1>1. IsFiniteSet(Ended(st))
  <2>1. Ended(st) \subseteq Requests
    BY DEF Ended
  <2> QED
    BY <2>1, FS_Subset
<1>2. r \notin Ended(st) /\ Ended(st)' = Ended(st) \cup {r}
  BY DEF Ended
<1>3. Cardinality(Ended(st) \cup {r}) = Cardinality(Ended(st)) + 1
  BY <1>1, <1>2, FS_AddElement
<1>4. \A u \in {"issued", "failed"} \ {st} : Ended(u)' = Ended(u)
  BY DEF Ended
<1>5. ServedBefore'
  BY DEF SInv, ServedBefore, TypeOK
<1> QED
  BY <1>2, <1>3, <1>4, <1>5

LEMMA IssueKeepsSInv ==
    ASSUME TypeOK, IsFiniteSet(Requests), SInv, NEW r \in Requests, Issue(r)
    PROVE  SInv'
<1>1. /\ requests[r].st \notin {"issued", "failed"} /\ resets' = resets
      /\ requests'[r].st = "issued" /\ requests'[r].served = resets
      /\ \A q \in Requests \ {r} : requests'[q] = requests[q]
  BY DEF Issue, TypeOK, Request
<1>2. stats'.signatures = stats.signatures + 1 /\ stats'.errorCount = stats.errorCount
  BY DEF Issue, CountSignature, TypeOK
<1>3. /\ Cardinality(Ended("issued")') = Cardinality(Ended("issued")) + 1
      /\ Ended("failed")' = Ended("failed") /\ ServedBefore'
  BY <1>1, OneEnds
<1> QED
  BY <1>2, <1>3 DEF SInv, StatsCount, Ended

LEMMA ThrowKeepsSInv ==
    ASSUME TypeOK, IsFiniteSet(Requests), SInv, NEW r \in Requests, Throw(r),
           requests[r].st \notin {"issued", "failed"}
    PROVE  SInv'
<1>1. /\ resets' = resets
      /\ requests'[r].st = "failed" /\ requests'[r].served = resets
      /\ \A q \in Requests \ {r} : requests'[q] = requests[q]
  BY DEF Throw, TypeOK, Request
<1>2. stats'.errorCount = stats.errorCount + 1 /\ stats'.signatures = stats.signatures
  BY DEF Throw, MonitoringError, TypeOK
<1>3. /\ Cardinality(Ended("failed")') = Cardinality(Ended("failed")) + 1
      /\ Ended("issued")' = Ended("issued") /\ ServedBefore'
  BY <1>1, OneEnds
<1> QED
  BY <1>2, <1>3 DEF SInv, StatsCount, Ended

\* After a hard reset nothing has ended yet.
LEMMA ResetKeepsSInv ==
    ASSUME TypeOK, SInv, Reset
    PROVE  SInv'
<1>1. \A r \in Requests : requests[r].served \in Nat
  BY DEF TypeOK, Request
<1>2. resets \in Nat /\ resets' = resets + 1 /\ requests' = requests
  BY DEF TypeOK, Reset
<1>3. ServedBefore'
  BY <1>1, <1>2 DEF SInv, ServedBefore
<1>4. Ended("issued")' = {} /\ Ended("failed")' = {}
  BY <1>1, <1>2 DEF SInv, ServedBefore, Ended
<1>5. StatsCount'
  BY <1>4, FS_EmptySet DEF Reset, StatsCount, Ended
<1> QED
  BY <1>3, <1>5 DEF SInv

\* THEOREM: signatures and errors are counted exactly once each since the last
\* hard reset, whichever branches of a request fail (monitoringError, changeStats).
THEOREM StatsAlways ==
    ASSUME IsFiniteSet(Requests)
    PROVE  Spec => []StatsCount
<1>1. Init => SInv
  <2> SUFFICES ASSUME Init PROVE SInv
    OBVIOUS
  <2>1. \A r \in Requests : requests[r].st = "idle"
    BY DEF Init, Idle
  <2>2. Ended("issued") = {} /\ Ended("failed") = {}
    BY <2>1 DEF Ended
  <2>3. StatsCount
    BY <2>2, FS_EmptySet DEF Init, StatsCount, Ended
  <2> QED
    BY <2>1, <2>3 DEF SInv, ServedBefore
<1>2. TypeOK /\ SInv /\ [Next]_vars => SInv'
  <2> SUFFICES ASSUME TypeOK, SInv, [Next]_vars PROVE SInv'
    OBVIOUS
  <2>1. \A r \in Requests : requests[r] \in Request
    BY DEF TypeOK
  <2>2. ASSUME NEW r \in Requests,
               \/ RefuseNetwork(r) \/ Accept(r) \/ Prepare(r) \/ PrepareInstant(r)
               \/ ReturnRead(r)
        PROVE  SInv'
    <3>1. UNCHANGED <<stats, resets>> /\ \A q \in Requests \ {r} : requests'[q] = requests[q]
      BY <2>2 DEF RefuseNetwork, Accept, Prepare, PrepareInstant, ReturnRead, TypeOK
    <3>2. requests[r].st \notin {"issued", "failed"}
      BY <2>2 DEF RefuseNetwork, Accept, Prepare, PrepareInstant, ReturnRead
    <3>3. requests'[r].st \in {"refused", "waiting", "signing", "answered"}
      <4>1. CASE RefuseNetwork(r)
        BY <2>1, <4>1 DEF RefuseNetwork, TypeOK, Request
      <4>2. CASE Accept(r)
        BY <2>1, <4>2 DEF Accept, TypeOK, Request
      <4>3. CASE Prepare(r)
        BY <2>1, <4>3 DEF Prepare, TypeOK, Request
      <4>4. CASE PrepareInstant(r)
        BY <2>1, <4>4 DEF PrepareInstant, TypeOK, Request
      <4>5. CASE ReturnRead(r)
        BY <2>1, <4>5 DEF ReturnRead, TypeOK, Request
      <4> QED
        BY <2>2, <4>1, <4>2, <4>3, <4>4, <4>5
    <3> QED
      BY <3>1, <3>2, <3>3, NothingEnds
  <2>3. ASSUME NEW r \in Requests, ReadNonce(r) \/ FailNonce(r) PROVE SInv'
    <3>1. /\ UNCHANGED <<stats, resets>>
          /\ \A q \in Requests \ {r} : requests'[q] = requests[q]
          /\ requests'[r].st = requests[r].st /\ requests'[r].served = requests[r].served
      BY <2>1, <2>3 DEF ReadNonce, FailNonce, TypeOK, Request
    <3> QED
      BY <3>1, NothingEnds
  <2>4. ASSUME NEW r \in Requests, RefuseParams(r) \/ FailBranch(r) \/ FailSigning(r)
        PROVE  SInv'
    <3>1. Throw(r) /\ requests[r].st \notin {"issued", "failed"}
      BY <2>4 DEF RefuseParams, FailBranch, FailSigning
    <3> QED
      BY <3>1, ThrowKeepsSInv
  <2>5. CASE UNCHANGED <<requests, stats, resets>>
    BY <2>5, NothingEnds
  <2>6. ASSUME NEW r \in Requests, Issue(r) PROVE SInv'
    BY <2>6, IssueKeepsSInv
  <2>7. CASE Reset
    BY <2>7, ResetKeepsSInv
  <2>8. \/ \E r \in Requests :
             \/ RefuseNetwork(r) \/ Accept(r) \/ Prepare(r) \/ PrepareInstant(r)
             \/ ReturnRead(r) \/ ReadNonce(r) \/ FailNonce(r)
             \/ RefuseParams(r) \/ FailBranch(r) \/ FailSigning(r) \/ Issue(r)
        \/ Reset
        \/ UNCHANGED <<requests, stats, resets>>
    BY DEF Next, Continue, Answer, LookUp, Fill, CacheExpire, Tick, NewBlock, Deposit, vars
  <2> QED
    BY <2>2, <2>3, <2>4, <2>5, <2>6, <2>7, <2>8
<1>3. SInv => StatsCount
  BY DEF SInv
<1> QED
  BY <1>1, <1>2, <1>3, TypeCorrect, PTL DEF Spec
=============================================================================
