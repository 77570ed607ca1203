------------------------- MODULE TransactionLookup --------------------------
(***************************************************************************)
(* handlers/web3.handler.ts, network.tx: a transaction with its receipt,   *)
(* the time of its block and, where the explorer knows the contract it was *)
(* sent to, the parameters it called it with (utils/decode.ts).  The ABI   *)
(* comes through the CacheMachine that the other handlers use.             *)
(*                                                                         *)
(* The explorer answers a refusal with status 200, too: the text of the    *)
(* refusal is then what the cache holds for the contract.  The source of   *)
(* an ABI key is at version 0 while the explorer refuses and at 1 when it  *)
(* has the ABI.  A published ABI need not know the function a transaction  *)
(* called (a proxy) or find one in its input (a plain transfer): of such a *)
(* transaction no parameters can be told.                                  *)
(*                                                                         *)
(* A network that is not known is refused before anything is done.         *)
(***************************************************************************)
EXTENDS Integers, FiniteSets

CONSTANTS
    Requests,
    Contracts,           \* what transactions are sent to
    AskedFor,            \* AskedFor[r]: the transactions that request r may be about
    ABI_CACHE_TIME_OUT,
    Lag,                 \* how late a cache timer may fire
    MaxFailures          \* bounds the calls that fail

\* The contract a transaction was sent to, and if its ABI can decode the input.
Transaction == [to : Contracts, legible : BOOLEAN]

ASSUME LookupAssumption ==
    /\ Contracts # {}
    /\ AskedFor \in [Requests -> SUBSET Transaction]
    /\ ABI_CACHE_TIME_OUT \in Nat /\ Lag \in Nat /\ MaxFailures \in Nat

VARIABLES
    requests,  \* where each handler stands
    failures,  \* calls that have failed so far
    source, map, calls, timers \* the CacheMachine and the explorer

cacheVars == <<source, map, calls, timers>>
vars == <<requests, failures, cacheVars>>

\* getCacheContractAbiKey (there is one network, bsc).
AbiKey(c) == <<"CONTRACT-ABI", c>>
Keys == {AbiKey(c) : c \in Contracts}

\* Deviation of TimeOut: the cache gets none.
NoTimeOut == [k \in Keys |-> 0]

TimeOut == [k \in Keys |-> ABI_CACHE_TIME_OUT]

Cache == INSTANCE CacheMachine WITH
    Callers <- Requests,
    Horizon <- ABI_CACHE_TIME_OUT + Lag,
    MaxVersion <- 1,
    MaxArmed <- Cardinality(Requests)

\* What the provider is asked for: the transaction with its receipt (together,
\* and lacking when either is), then the block.
Parts == {"transaction", "block"}

\* reading: awaits the transaction; looking: awaits block and ABI
Request == [st : {"idle", "reading", "looking", "answered", "notFound"},
            tx : Transaction,
            parts : [Parts -> {"none", "asked", "read", "failed"}],
            extra : BOOLEAN]

TypeOK ==
    /\ requests \in [Requests -> Request]
    /\ failures \in 0 .. MaxFailures
    /\ Cache!TypeOK

Fresh(st, tx) ==
    [st |-> st, tx |-> tx, extra |-> FALSE,
     parts |-> [p \in Parts |-> IF st = "reading" /\ p # "block" THEN "asked" ELSE "none"]]

Init ==
    /\ requests = [r \in Requests |-> Fresh("idle", CHOOSE tx \in Transaction : TRUE)]
    /\ failures = 0
    /\ Cache!Init

-----------------------------------------------------------------------------

Settled(r) == requests[r].st \in {"idle", "answered", "notFound"}

\* Bound: no more fills of a key can meet in one tick than there are requests.
RoomFor(c) ==
    timers[AbiKey(c)][ABI_CACHE_TIME_OUT + Lag]
      + Cardinality({r \in Requests : ~Settled(r) \/ calls[r].st \in Cache!InFlight})
      < Cardinality(Requests)

\* A client asks for the transaction tx.
Ask(r, tx) ==
    /\ Settled(r)
    /\ RoomFor(tx.to)
    /\ calls[r].st \notin Cache!InFlight
    /\ requests' = [requests EXCEPT ![r] = Fresh("reading", tx)]
    /\ UNCHANGED <<failures, cacheVars>>

\* The provider answers.
Receive(r, p) ==
    /\ requests[r].parts[p] = "asked"
    /\ requests' = [requests EXCEPT ![r].parts[p] = "read"]
    /\ UNCHANGED <<failures, cacheVars>>

\* The call fails, or there is nothing to map (the transaction is not known or
\* not mined, the block is not there).
Lack(r, p) ==
    /\ requests[r].parts[p] = "asked"
    /\ failures < MaxFailures
    /\ requests' = [requests EXCEPT ![r].parts[p] = "failed"]
    /\ failures' = failures + 1
    /\ UNCHANGED cacheVars

\* The transaction is there: its block and parameters are asked for.
Look(r) ==
    /\ requests[r].st = "reading"
    /\ requests[r].parts["transaction"] = "read"
    /\ requests' = [requests EXCEPT ![r].st = "looking", ![r].parts["block"] = "asked"]
    /\ Cache!EnterAll([x \in {r} |-> AbiKey(requests[r].tx.to)])
    /\ UNCHANGED failures

\* "await keyFn()" is over: the map is looked up.
LookUp(r) ==
    /\ Cache!Hit(r) \/ Cache!Miss(r)
    /\ UNCHANGED <<requests, failures>>

\* fetchAbi is under way, also when its handler has given up.
Fetch(r) ==
    /\ Cache!Read(r) \/ Cache!Resolve(r)
    /\ UNCHANGED <<requests, failures>>

FetchFails(r) ==
    /\ Cache!Reject(r)
    /\ failures < MaxFailures
    /\ failures' = failures + 1
    /\ UNCHANGED requests

\* Deviation of Decoded: the text of a refusal is taken for an ABI.
DecodedBlind(r) == calls[r].st = "done" /\ requests[r].tx.legible

\* decodeFunctionParams: a refusal, a failure or an input that the ABI cannot decode
\* throws, which is caught and leaves no extra.
Decoded(r) == calls[r].st = "done" /\ calls[r].value = 1 /\ requests[r].tx.legible

Answer(r) ==
    /\ requests[r].st = "looking"
    /\ requests[r].parts["block"] = "read"
    /\ calls[r].st \in {"done", "failed"}
    /\ requests' = [requests EXCEPT ![r] =
         [Fresh("answered", requests[r].tx) EXCEPT !.extra = Decoded(r)]]
    /\ UNCHANGED <<failures, cacheVars>>

\* Deviation of Rejected: a failure of the explorer is not caught.
RejectedByAny(r) ==
    \/ \E p \in Parts : requests[r].parts[p] = "failed"
    \/ requests[r].st = "looking" /\ calls[r].st = "failed"

Rejected(r) == \E p \in Parts : requests[r].parts[p] = "failed"

\* catch: throw new NotFound()
NotFound(r) ==
    /\ requests[r].st \in {"reading", "looking"}
    /\ Rejected(r)
    /\ requests' = [requests EXCEPT ![r] = Fresh("notFound", requests[r].tx)]
    /\ UNCHANGED <<failures, cacheVars>>

\* Time passes and timers fire.
Pass ==
    /\ Cache!Tick \/ \E k \in Keys : Cache!Expire(k)
    /\ UNCHANGED <<requests, failures>>

\* The explorer comes to have the ABI of a contract.
Publish ==
    /\ \E k \in Keys : Cache!Advance(k)
    /\ UNCHANGED <<requests, failures>>

\* What the event loop runs before it takes another event
Continue(r) == LookUp(r) \/ Look(r) \/ Answer(r) \/ NotFound(r)

Quiet == \A r \in Requests :
    /\ calls[r].st # "keyed"
    /\ requests[r].st = "reading" => requests[r].parts["transaction"] = "asked"
    /\ requests[r].st = "looking" =>
         \/ requests[r].parts["block"] = "asked"
         \/ requests[r].parts["block"] = "read" /\ calls[r].st \in Cache!InFlight

Arrive(r) == Quiet /\ (Fetch(r) \/ FetchFails(r) \/ \E p \in Parts : Receive(r, p) \/ Lack(r, p))

Next ==
    \/ \E r \in Requests : \/ Continue(r) \/ Arrive(r)
                           \/ \E tx \in AskedFor[r] : Quiet /\ Ask(r, tx)
    \/ Quiet /\ (Pass \/ Publish)

\* The event loop comes back to its timers and to every socket, whatever runs
\* in between (hence SF), and what is asked of provider and explorer is answered
\* in the end (an assumption, as for the other handlers).
Fairness ==
    /\ \A r \in Requests : SF_vars(Continue(r) \/ Arrive(r))
    /\ SF_vars(Quiet /\ Pass)

Spec == Init /\ [][Next]_vars /\ Fairness

-----------------------------------------------------------------------------
(* Properties *)

\* A transaction is told with parameters only when the explorer has the ABI of the
\* contract it was sent to: never from a refusal, nor from what another request, or
\* the entry of another contract, left in the cache.
ParametersKnown ==
    \A r \in Requests : requests[r].extra => source[AbiKey(requests[r].tx.to)] = 1

\* A client that asks is answered in the end unless the provider lacked a part:
\* what the explorer and the cache of ABIs do, or the requests that share an
\* entry with this one, never costs an answer.
AnsweredUnlessMissing ==
    \A r \in Requests :
        requests[r].st = "reading" ~>
            requests[r].st = "answered" \/ \E p \in Parts : requests[r].parts[p] = "failed"

\* Once the explorer has the ABIs, and calls have stopped failing, every transaction
\* whose input its ABI can decode is told with its parameters in the end: a
\* refusal does not stay in the cache.
AbiHeals ==
    <>(\A k \in Keys : source[k] = 1) =>
        <>[][\A r \in Requests :
               requests[r].st = "looking" /\ requests'[r].st = "answered" /\ requests[r].tx.legible
                 => requests'[r].extra]_vars
=============================================================================
