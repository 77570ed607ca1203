-------------------------- MODULE SignatureService --------------------------
(***************************************************************************)
(* handlers/web3.handler.ts: the deposit-signature handlers of the payment *)
(* gateway and of the pro-rata contract, the instant variant and the reads *)
(* of a contract (nonces, account-owns-token, erc20.balance), composed     *)
(* with the CacheMachine they share, the chain and the statistics.         *)
(*                                                                         *)
(* A deposit request awaits three answers at once (Promise.all): the       *)
(* cached head block, the cached decimals of its contract and the deposit  *)
(* nonce of its holder (the userId, or the account of a pro-rata deposit). *)
(* Then it fixes the two limits and awaits the signature.  Meanwhile       *)
(* blocks are mined, deposits land, entries expire, other requests run.    *)
(***************************************************************************)
EXTENDS Integers, FiniteSets

CONSTANTS
    Requests,       \* the requests the service receives
    Kind,           \* Kind[r] \in Kinds
    Contract,       \* Contract[r]: the contract the request names
    Holder,         \* Holder[r]: whose deposit nonce it asks for
    Contracts, Holders,
    Decimals,       \* Decimals[c]: the decimals of the token of contract c
    TIME_OUT,       \* validity of a signature (seconds)
    INDEXER_OFFSET, \* what the response's dateLimit adds to it
    UINT32_MAX,     \* the largest value the signed uint32 fields can hold
    CACHE_TIME_OUT, \* time-out of the cached block
    Lag,            \* how late a cache timer may fire
    BlockLag, Skew, \* the head block is at most BlockLag behind the service's
                    \* clock and Skew ahead of it
    MaxTime,        \* bound on the service's clock
    MaxNonce,       \* bound on the deposits of a holder
    MaxResets       \* bound on hard resets

Kinds == {"deposit", "instant", "read"}
BLOCK_KEY == <<"BLOCK_KEY">>

ASSUME ServiceAssumption ==
    /\ Kind \in [Requests -> Kinds]
    /\ Contract \in [Requests -> Contracts]
    /\ Holder \in [Requests -> Holders]
    /\ Decimals \in [Contracts -> Nat]
    /\ TIME_OUT \in Nat /\ INDEXER_OFFSET \in Nat /\ UINT32_MAX \in Nat
    /\ CACHE_TIME_OUT \in Nat /\ Lag \in Nat
    /\ BlockLag \in Nat /\ Skew \in Nat
    /\ MaxTime \in Nat /\ MaxNonce \in Nat /\ MaxResets \in Nat

\* What the property on dateLimit asks of the chain and of the clocks.
ASSUME ClockAssumption == BlockLag + Skew <= INDEXER_OFFSET

VARIABLES
    now,      \* the clock of the service
    nonce,    \* nonce[c][h]: the deposit nonce the contract keeps
    requests, \* where each handler stands and what it has read so far
    stats,    \* statsData of the MonitoringWorker
    resets,   \* how many hard resets there were
    source, map, calls, timers \* the CacheMachine and what it reads

cacheVars == <<source, map, calls, timers>>
vars == <<now, nonce, requests, stats, resets, cacheVars>>

\* Deviation of SettingsKey: the key leaves the contract address out.
SettingsKeyShared(c) == <<"CONTRACT-SETTINGS", CHOOSE d \in Contracts : TRUE>>

\* getCacheContractSettingKey (there is one network, bsc).
SettingsKey(c) == <<"CONTRACT-SETTINGS", c>>

SettingsKeys == {SettingsKey(c) : c \in Contracts}
Keys == {BLOCK_KEY} \cup SettingsKeys

Branches == {"block", "decimals"}

Cache == INSTANCE CacheMachine WITH
    Callers <- Requests \X Branches,
    TimeOut <- [k \in Keys |-> IF k = BLOCK_KEY THEN CACHE_TIME_OUT ELSE 0],
    Horizon <- CACHE_TIME_OUT + Lag,
    MaxVersion <- MaxTime + Skew,
    MaxArmed <- 2 * Cardinality(Requests)

Head == source[BLOCK_KEY]  \* timestamp of the chain's head block

\* Pending: no answer of the handler's own has been given yet.  served holds
\* the reset count at the time it was; startNonce and the asked/read nonce are
\* those of the getDepositNonce branch.
Idle == [st |-> "idle", nonceSt |-> "none", nonce |-> -1, startNonce |-> 0,
         limit |-> 0, dateLimit |-> 0, decimals |-> 0, served |-> 0]

RequestStates == {"idle", "waiting", "signing", "issued", "answered",
                  "failed", "refused"}
Request == [st : RequestStates,
            nonceSt : {"none", "asked", "read", "failed"},
            nonce : Nat \cup {-1}, startNonce : Nat, limit : Nat, dateLimit : Nat,
            decimals : Nat, served : Nat]

TypeOK ==
    /\ now \in Nat
    /\ nonce \in [Contracts -> [Holders -> Nat]]
    /\ requests \in [Requests -> Request]
    /\ stats \in [signatures : Nat, errorCount : Nat]
    /\ resets \in Nat
    /\ Cache!TypeOK

Init ==
    /\ now = 0
    /\ nonce = [c \in Contracts |-> [h \in Holders |-> 0]]
    /\ requests = [r \in Requests |-> Idle]
    /\ stats = [signatures |-> 0, errorCount |-> 0]
    /\ resets = 0
    /\ source = [k \in Keys |-> IF k = BLOCK_KEY THEN 0 ELSE Decimals[k[2]]]
    /\ Cache!Empty

NonceOf(r) == nonce[Contract[r]][Holder[r]]
NeedsBlock(r) == Kind[r] = "deposit"
NeedsNonce(r) == Kind[r] \in {"deposit", "read"}
NeedsDecimals(r) == Kind[r] \in {"deposit", "instant"}

CallOf(r, b) == calls[<<r, b>>]

-----------------------------------------------------------------------------
(* Statistics *)

\* services.changeStats(network, (stats) => ({ signatures: ++stats.signatures }))
CountSignature == stats' = [stats EXCEPT !.signatures = @ + 1]

\* monitoringError(network, services, err)
MonitoringError == stats' = [stats EXCEPT !.errorCount = @ + 1]

-----------------------------------------------------------------------------
(* The handlers *)

\* checkIfNetwork throws before the try block: nothing is counted.  (The network
\* of account-owns-token is fixed; it is never refused here.)
RefuseNetwork(r) ==
    /\ requests[r].st = "idle"
    /\ requests' = [requests EXCEPT ![r].st = "refused"]
    /\ UNCHANGED <<now, nonce, stats, resets, cacheVars>>

\* The cached calls a request makes, each with its key.
CachedCalls(r) ==
    [c \in (IF NeedsBlock(r) THEN {<<r, "block">>} ELSE {})
             \cup (IF NeedsDecimals(r) THEN {<<r, "decimals">>} ELSE {})
       |-> IF c[2] = "block" THEN BLOCK_KEY ELSE SettingsKey(Contract[r])]

\* The handler starts every branch of its Promise.all.
Accept(r) ==
    /\ requests[r].st = "idle"
    /\ requests' = [requests EXCEPT
         ![r].st = "waiting",
         ![r].nonceSt = IF NeedsNonce(r) THEN "asked" ELSE "none",
         ![r].startNonce = NonceOf(r)]
    /\ Cache!EnterAll(CachedCalls(r))
    /\ UNCHANGED <<now, nonce, stats, resets>>

\* Deviation of ReadNonce: the nonce after the next deposit is taken.
ReadNextNonce(r) ==
    /\ requests[r].nonceSt = "asked"
    /\ requests' = [requests EXCEPT ![r].nonceSt = "read", ![r].nonce = NonceOf(r) + 1]
    /\ UNCHANGED <<now, nonce, stats, resets, cacheVars>>

\* getDepositNonce / getAccountDepositNonce: the contract answers, or the call
\* fails, also when the handler has failed meanwhile.
ReadNonce(r) ==
    /\ requests[r].nonceSt = "asked"
    /\ requests' = [requests EXCEPT ![r].nonceSt = "read", ![r].nonce = NonceOf(r)]
    /\ UNCHANGED <<now, nonce, stats, resets, cacheVars>>

FailNonce(r) ==
    /\ requests[r].nonceSt = "asked"
    /\ requests' = [requests EXCEPT ![r].nonceSt = "failed"]
    /\ UNCHANGED <<now, nonce, stats, resets, cacheVars>>

AllAnswered(r) ==
    /\ NeedsBlock(r) => CallOf(r, "block").st = "done"
    /\ NeedsDecimals(r) => CallOf(r, "decimals").st = "done"
    /\ NeedsNonce(r) => requests[r].nonceSt = "read"

\* Deviation of SomeFailed: a rejected decimals look-up goes unnoticed.
SomeFailedMissed(r) ==
    \/ NeedsBlock(r) /\ CallOf(r, "block").st = "failed"
    \/ NeedsNonce(r) /\ requests[r].nonceSt = "failed"

SomeFailed(r) ==
    \/ NeedsBlock(r) /\ CallOf(r, "block").st = "failed"
    \/ NeedsDecimals(r) /\ CallOf(r, "decimals").st = "failed"
    \/ NeedsNonce(r) /\ requests[r].nonceSt = "failed"

\* Deviation of DateLimit: the indexer's offset is left out.
DateLimitShort == now + TIME_OUT

\* timestampLimit and dateLimit of a deposit signature, fixed before signing.
TimestampLimit(r) == CallOf(r, "block").value + TIME_OUT
DateLimit == now + TIME_OUT + INDEXER_OFFSET

\* All the answers are there: the handler fixes what it is going to sign.
Prepare(r) ==
    /\ requests[r].st = "waiting"
    /\ Kind[r] = "deposit"
    /\ AllAnswered(r)
    /\ requests' = [requests EXCEPT
         ![r].st = "signing",
         ![r].decimals = CallOf(r, "decimals").value,
         ![r].limit = TimestampLimit(r),
         ![r].dateLimit = DateLimit]
    /\ UNCHANGED <<now, nonce, stats, resets, cacheVars>>

\* The instant variant: nonce 0 and no time limit.
PrepareInstant(r) ==
    /\ requests[r].st = "waiting"
    /\ Kind[r] = "instant"
    /\ AllAnswered(r)
    /\ requests' = [requests EXCEPT
         ![r].st = "signing",
         ![r].decimals = CallOf(r, "decimals").value,
         ![r].nonce = 0,
         ![r].limit = UINT32_MAX]
    /\ UNCHANGED <<now, nonce, stats, resets, cacheVars>>

\* The reading handlers return what the contract answered: a nonce, or a balance,
\* which takes the nonce's place here.
ReturnRead(r) ==
    /\ requests[r].st = "waiting"
    /\ Kind[r] = "read"
    /\ AllAnswered(r)
    /\ requests' = [requests EXCEPT ![r].st = "answered"]
    /\ UNCHANGED <<now, nonce, stats, resets, cacheVars>>

\* The nonce and the limit are encoded as uint32; a larger value throws.
Encodable(r) == requests[r].nonce <= UINT32_MAX /\ requests[r].limit <= UINT32_MAX

\* The signature is there: count it and answer.  The instant variant computes
\* its dateLimit only now.
Issue(r) ==
    /\ requests[r].st = "signing"
    /\ Encodable(r)
    /\ requests' = [requests EXCEPT
         ![r].st = "issued",
         ![r].dateLimit = IF Kind[r] = "instant" THEN DateLimit ELSE @,
         ![r].served = resets]
    /\ CountSignature
    /\ UNCHANGED <<now, nonce, resets, cacheVars>>

\* catch: the first branch that rejects fails the handler, once; the branches
\* still under way go on and fill the cache.
Throw(r) ==
    /\ requests' = [requests EXCEPT ![r].st = "failed", ![r].served = resets]
    /\ MonitoringError
    /\ UNCHANGED <<now, nonce, resets, cacheVars>>

\* An address is malformed or there is no context: thrown inside the try block.
RefuseParams(r) == requests[r].st = "idle" /\ Throw(r)

\* Deviation of FailBranch: each branch that rejects is counted.
FailEveryBranch(r) ==
    /\ requests[r].st \in {"waiting", "failed"}
    /\ SomeFailed(r)
    /\ Throw(r)

FailBranch(r) == requests[r].st = "waiting" /\ SomeFailed(r) /\ Throw(r)

FailSigning(r) == requests[r].st = "signing" /\ ~ Encodable(r) /\ Throw(r)

\* hardReset: MonitoringWorker.reset() zeroes the statistics.
Reset ==
    /\ resets < MaxResets
    /\ stats' = [signatures |-> 0, errorCount |-> 0]
    /\ resets' = resets + 1
    /\ UNCHANGED <<now, nonce, requests, cacheVars>>

-----------------------------------------------------------------------------
(* The cache, the clock and the chain *)

LookUp(c) ==
    /\ Cache!Hit(c) \/ Cache!Miss(c)
    /\ UNCHANGED <<now, nonce, requests, stats, resets>>

Fill(c) ==
    /\ Cache!Read(c) \/ Cache!Resolve(c) \/ Cache!Reject(c)
    /\ UNCHANGED <<now, nonce, requests, stats, resets>>

CacheExpire ==
    /\ \E k \in Keys : Cache!Expire(k)
    /\ UNCHANGED <<now, nonce, requests, stats, resets>>

Tick ==
    /\ now < MaxTime
    /\ now + 1 <= Head + BlockLag
    /\ now' = now + 1
    /\ Cache!Tick
    /\ UNCHANGED <<nonce, requests, stats, resets>>

NewBlock ==
    /\ \E t \in Head + 1 .. now + Skew : source' = [source EXCEPT ![BLOCK_KEY] = t]
    /\ UNCHANGED <<now, nonce, requests, stats, resets, map, calls, timers>>

\* The contract takes a deposit for the holder; its nonce moves on.
Deposit(c, h) ==
    /\ nonce[c][h] < MaxNonce
    /\ nonce' = [nonce EXCEPT ![c][h] = @ + 1]
    /\ UNCHANGED <<now, requests, stats, resets, cacheVars>>

\* What the event loop runs before it takes another event: a look-up after
\* "await keyFn()", a handler whose Promise.all has settled.
Ready(r) == requests[r].st = "waiting" /\ (AllAnswered(r) \/ SomeFailed(r))

Quiet ==
    /\ \A c \in Requests \X Branches : calls[c].st # "keyed"
    /\ \A r \in Requests : ~ Ready(r)

Continue(r) == Prepare(r) \/ PrepareInstant(r) \/ ReturnRead(r) \/ FailBranch(r)

Answer(r) == Issue(r) \/ FailSigning(r)

Next ==
    \/ \E c \in Requests \X Branches : LookUp(c)
    \/ \E r \in Requests : Continue(r)
    \/ /\ Quiet
       /\ \/ \E r \in Requests : \/ RefuseNetwork(r) \/ RefuseParams(r) \/ Accept(r)
                                 \/ ReadNonce(r) \/ FailNonce(r) \/ Answer(r)
          \/ \E c \in Requests \X Branches : Fill(c)
          \/ CacheExpire \/ Reset \/ Tick \/ NewBlock
          \/ \E c \in Contracts, h \in Holders : Deposit(c, h)

\* What is under way goes on, and every remote call settles in the end (an
\* assumption: no request to the provider has a time-out).  A request takes a
\* few such steps, so that this leaves none of them behind.
Progress ==
    \/ \E r \in Requests : \/ Continue(r)
                           \/ Quiet /\ (Answer(r) \/ ReadNonce(r) \/ FailNonce(r))
    \/ \E c \in Requests \X Branches : LookUp(c) \/ (Quiet /\ Fill(c))

Spec == Init /\ [][Next]_vars /\ WF_vars(Progress)

-----------------------------------------------------------------------------
(* Properties *)

Signed(r) == requests[r].st \in {"signing", "issued"}

\* Once the response's dateLimit has passed on the service's clock, the chain is
\* past the signed timestampLimit: no block can take the deposit any more, even
\* though the block behind the limit came from the cache.
DateLimitCovers ==
    \A r \in Requests : Signed(r) /\ Kind[r] = "deposit" =>
        (now > requests[r].dateLimit => Head > requests[r].limit)

\* The signed nonce was the holder's nonce at some time during the request:
\* with no deposit in the meantime the signature is usable, and it is never
\* made for a deposit that is not next.
NonceFresh ==
    \A r \in Requests : Kind[r] = "deposit" /\ Signed(r) =>
        requests[r].nonce \in requests[r].startNonce .. NonceOf(r)

\* The amount is scaled with the decimals of the request's own contract, however
\* the cache was filled.
OwnDecimals ==
    \A r \in Requests : Signed(r) => requests[r].decimals = Decimals[Contract[r]]

\* The statistics count each signature and each failed request exactly once since
\* the last hard reset, although several branches of a request can fail.
StatsCount ==
    /\ stats.signatures =
         Cardinality({r \in Requests : requests[r].st = "issued"
                                         /\ requests[r].served = resets})
    /\ stats.errorCount =
         Cardinality({r \in Requests : requests[r].st = "failed"
                                         /\ requests[r].served = resets})

\* Every request that is taken up is answered, with a signature or with an error:
\* in the end none is left over, whichever of its calls fail.
RequestSettles == <>[](\A r \in Requests : requests[r].st \notin {"waiting", "signing"})
=============================================================================
