-------------------------- MODULE SecurityBlocker ---------------------------
(***************************************************************************)
(* common-service/core/SecurityBlocker.ts, and the routes security.* of    *)
(* common-service/handlers/index.ts: the service stays down until enough   *)
(* shares of the owner's key were sent to it, and again after a stop.      *)
(*                                                                         *)
(* onStart, onStop and onGetStatus are those of services/Services.ts:      *)
(* start() awaits the engine and then sets a flag, stop() clears it at     *)
(* once.  A stop does not wait for a start that is under way.              *)
(***************************************************************************)
EXTENDS Naturals, Sequences

CONSTANTS
    Shares,
    Right,       \* the shares that the key was split into
    Threshold,
    PrivateKey,  \* is the key configured?
    MaxShares,   \* bounds the shares sent between two stops
    MaxStops

ASSUME BlockerAssumption ==
    /\ Right \subseteq Shares
    /\ Threshold \in Nat \ {0}
    /\ PrivateKey \in BOOLEAN
    /\ MaxShares \in Nat /\ MaxStops \in Nat

VARIABLES
    status, shares, \* the fields of the SecurityBlocker
    started,        \* the flag of Services
    starting,       \* the epochs whose onStart is under way
    epoch,          \* stops so far
    startedIn,      \* the epoch whose start set the flag last
    sent            \* the shares sent since the last stop

vars == <<status, shares, started, starting, epoch, startedIn, sent>>

TypeOK ==
    /\ status \in {"waiting", "error", "running"}
    /\ shares \in Seq(Shares)
    /\ started \in BOOLEAN
    /\ starting \subseteq 0 .. epoch
    /\ epoch \in Nat
    /\ startedIn \in Nat
    /\ sent \in Seq(Shares)

\* init() has started the service if the key is configured; requests are not
\* taken before that.
Init ==
    /\ status = "waiting"
    /\ shares = <<>>
    /\ started = PrivateKey
    /\ starting = {}
    /\ epoch = 0
    /\ startedIn = 0
    /\ sent = <<>>

-----------------------------------------------------------------------------

\* sss.combine finds the owner's key: right shares, none of them twice.
Combines(ss) ==
    /\ \A i \in DOMAIN ss : ss[i] \in Right
    /\ \A i, j \in DOMAIN ss : ss[i] = ss[j] => i = j

\* Deviation of Enough: any further share tries again.
EnoughOrMore(ss) == Len(ss) >= Threshold

Enough(ss) == Len(ss) = Threshold

\* setShare(share), up to the await of onStart
SetShare(s) ==
    /\ Len(sent) < MaxShares
    /\ shares' = Append(shares, s)
    /\ sent' = Append(sent, s)
    /\ status' = IF Enough(shares') THEN "error" ELSE status
    /\ starting' = IF Enough(shares') /\ Combines(shares')
                   THEN starting \cup {epoch} ELSE starting
    /\ UNCHANGED <<started, epoch, startedIn>>

\* onStart is over: the service is up, and setShare goes on.
Start(e) ==
    /\ e \in starting
    /\ started' = TRUE
    /\ status' = "running"
    /\ starting' = starting \ {e}
    /\ startedIn' = e
    /\ UNCHANGED <<shares, epoch, sent>>

\* onStart rejects: setShare logs it and leaves the status as it is.
FailStart(e) ==
    /\ e \in starting
    /\ starting' = starting \ {e}
    /\ UNCHANGED <<status, shares, started, epoch, startedIn, sent>>

\* Deviation of Stop: the shares stay.
StopKeepsShares ==
    /\ epoch < MaxStops
    /\ status' = "waiting"
    /\ started' = FALSE
    /\ epoch' = epoch + 1
    /\ sent' = <<>>
    /\ UNCHANGED <<shares, starting, startedIn>>

\* Deviation of Stop: the status stays.
StopKeepsStatus ==
    /\ epoch < MaxStops
    /\ shares' = <<>>
    /\ started' = FALSE
    /\ epoch' = epoch + 1
    /\ sent' = <<>>
    /\ UNCHANGED <<status, starting, startedIn>>

\* stop()
Stop ==
    /\ epoch < MaxStops
    /\ status' = "waiting"
    /\ shares' = <<>>
    /\ started' = FALSE
    /\ epoch' = epoch + 1
    /\ sent' = <<>>
    /\ UNCHANGED <<starting, startedIn>>

Next ==
    \/ \E s \in Shares : SetShare(s)
    \/ \E e \in starting : Start(e) \/ FailStart(e)
    \/ Stop

Spec == Init /\ [][Next]_vars

-----------------------------------------------------------------------------
(* Properties *)

\* A full set: the first Threshold of the shares are right and none is there twice.
FullSet(ss) ==
    /\ Len(ss) >= Threshold
    /\ \A i \in 1 .. Threshold : ss[i] \in Right
    /\ \A i, j \in 1 .. Threshold : ss[i] = ss[j] => i = j

\* After a stop the service runs again only with a full set of right shares
\* sent since that stop -- or because the stop overtook a start, which then
\* came through.  It runs before any stop only with them or with the key.
KeyNeeded ==
    started =>
      \/ epoch = 0 /\ PrivateKey
      \/ startedIn < epoch
      \/ FullSet(sent)

\* Between two stops the service is started at most once by shares: what is
\* sent after a set is complete, or after it turned out wrong, starts nothing.
StartedOnce ==
    [][starting' \ starting # {} => Len(sent') = Threshold]_vars

\* A status of running is never told of a service that is down, also when
\* stops overtake starts.
StatusTrue == status = "running" => started
=============================================================================
