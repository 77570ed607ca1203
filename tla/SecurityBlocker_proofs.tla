----------------------- MODULE SecurityBlocker_proofs ------------------------
(***************************************************************************)
(* KeyNeeded and StatusTrue for any shares, threshold and stops.           *)
(***************************************************************************)
EXTENDS SecurityBlocker, TLAPS

\* What is under way in the present epoch was begun by a full set; the list of
\* shares is what was sent since the last stop.
IInv ==
    /\ TypeOK
    /\ shares = sent
    /\ epoch \in starting => FullSet(sent)
    /\ startedIn <= epoch
    /\ KeyNeeded
    /\ StatusTrue

-----------------------------------------------------------------------------

LEMMA InitIInv == Init => IInv
  BY BlockerAssumption DEF Init, IInv, TypeOK, KeyNeeded, StatusTrue

\* A further share leaves a full set full.
LEMMA FullSetKept ==
    ASSUME NEW ss \in Seq(Shares), NEW s \in Shares, FullSet(ss)
    PROVE  FullSet(Append(ss, s))
<1>1. \A i \in 1 .. Threshold : i \in 1 .. Len(ss) /\ Append(ss, s)[i] = ss[i]
  BY BlockerAssumption DEF FullSet
<1>2. Len(Append(ss, s)) >= Threshold
  BY BlockerAssumption DEF FullSet
<1> QED
  BY <1>1, <1>2 DEF FullSet

\* What combines, with as many shares as the threshold, is a full set.
LEMMA CombinedIsFull ==
    ASSUME NEW ss \in Seq(Shares), Enough(ss), Combines(ss)
    PROVE  FullSet(ss)
  BY BlockerAssumption DEF Enough, Combines, FullSet

LEMMA SetShareKeeps ==
    ASSUME IInv, NEW s \in Shares, SetShare(s)
    PROVE  IInv'
<1>1. shares' \in Seq(Shares) /\ sent' = shares' /\ shares' = Append(shares, s)
  BY DEF IInv, TypeOK, SetShare
<1>2. FullSet(sent) => FullSet(sent')
  BY <1>1, FullSetKept DEF IInv, TypeOK
<1>3. TypeOK'
  BY <1>1 DEF IInv, TypeOK, SetShare
<1>4. (epoch \in starting => FullSet(sent))'
  <2>1. CASE Enough(shares') /\ Combines(shares')
    BY <2>1, <1>1, CombinedIsFull
  <2>2. CASE ~ (Enough(shares') /\ Combines(shares'))
    BY <2>2, <1>2 DEF IInv, SetShare
  <2> QED
    BY <2>1, <2>2
<1>5. KeyNeeded'
  BY <1>2 DEF IInv, KeyNeeded, SetShare
<1>6. StatusTrue'
  BY DEF IInv, StatusTrue, SetShare
<1> QED
  BY <1>1, <1>3, <1>4, <1>5, <1>6 DEF IInv, SetShare

LEMMA StartKeeps ==
    ASSUME IInv, NEW e \in starting, Start(e)
    PROVE  IInv'
<1>1. e \in 0 .. epoch
  BY DEF IInv, TypeOK
<1>2. TypeOK' /\ startedIn' <= epoch'
  BY <1>1 DEF IInv, TypeOK, Start
<1>3. KeyNeeded'
  <2>1. CASE e = epoch
    BY <2>1 DEF IInv, KeyNeeded, Start
  <2>2. CASE e # epoch
    BY <2>2, <1>1 DEF IInv, TypeOK, KeyNeeded, Start
  <2> QED
    BY <2>1, <2>2
<1>4. (epoch \in starting => FullSet(sent))' /\ StatusTrue'
  BY DEF IInv, StatusTrue, Start
<1> QED
  BY <1>2, <1>3, <1>4 DEF IInv, Start

LEMMA FailStartKeeps ==
    ASSUME IInv, NEW e \in starting, FailStart(e)
    PROVE  IInv'
  BY DEF IInv, TypeOK, KeyNeeded, StatusTrue, FailStart

LEMMA StopKeeps ==
    ASSUME IInv, Stop
    PROVE  IInv'
<1>1. epoch' = epoch + 1 /\ epoch \in Nat /\ epoch' \notin starting'
  BY DEF IInv, TypeOK, Stop
<1>2. TypeOK'
  <2>1. <<>> \in Seq(Shares)
    OBVIOUS
  <2>2. starting' \subseteq 0 .. epoch'
    BY <1>1 DEF IInv, TypeOK, Stop
  <2>3. shares' \in Seq(Shares) /\ sent' \in Seq(Shares)
    BY <2>1 DEF Stop
  <2>4. status' \in {"waiting", "error", "running"} /\ started' \in BOOLEAN
    BY DEF Stop
  <2>5. epoch' \in Nat /\ startedIn' \in Nat
    BY <1>1 DEF IInv, TypeOK, Stop
  <2> QED
    BY <2>2, <2>3, <2>4, <2>5 DEF TypeOK
<1>3. startedIn' <= epoch'
  BY <1>1 DEF IInv, TypeOK, Stop
<1>4. KeyNeeded' /\ StatusTrue' /\ shares' = sent'
  BY DEF KeyNeeded, StatusTrue, Stop
<1> QED
  BY <1>1, <1>2, <1>3, <1>4 DEF IInv

LEMMA StepIInv == IInv /\ [Next]_vars => IInv'
<1> SUFFICES ASSUME IInv, [Next]_vars
             PROVE  IInv'
  OBVIOUS
<1>1. CASE UNCHANGED vars
  BY <1>1 DEF IInv, TypeOK, KeyNeeded, StatusTrue, FullSet, vars
<1>2. CASE Next
  BY <1>2, SetShareKeeps, StartKeeps, FailStartKeeps, StopKeeps DEF Next
<1> QED
  BY <1>1, <1>2

LEMMA AlwaysIInv == Spec => []IInv
  BY InitIInv, StepIInv, PTL DEF Spec

-----------------------------------------------------------------------------

\* The service runs only by the key, by a full set of shares sent since the
\* last stop, or by a start that this stop overtook.
THEOREM KeyAlways == Spec => []KeyNeeded
  BY AlwaysIInv, PTL DEF IInv

\* No status tells of a service that is down as running.
THEOREM StatusAlways == Spec => []StatusTrue
  BY AlwaysIInv, PTL DEF IInv

\* The blocker stays well typed.
THEOREM TypeCorrect == Spec => []TypeOK
  BY AlwaysIInv, PTL DEF IInv

\* SecurityBlocker.setShare: a start begins only with the share that makes the
\* shares since the last stop as many as the threshold.
THEOREM StartsOnce == Spec => StartedOnce
<1>1. IInv /\ [Next]_vars => [starting' \ starting # {} => Len(sent') = Threshold]_vars
  <2> SUFFICES ASSUME IInv, [Next]_vars, starting' \ starting # {}
               PROVE  Len(sent') = Threshold
    OBVIOUS
  <2>1. PICK s \in Shares : SetShare(s)
    BY DEF Next, Start, FailStart, Stop, vars
  <2>2. shares' = sent' /\ Enough(shares')
    BY <2>1 DEF SetShare, IInv
  <2> QED
    BY <2>2 DEF Enough
<1> QED
  BY <1>1, AlwaysIInv, PTL DEF Spec, StartedOnce
=============================================================================
