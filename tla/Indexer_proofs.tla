--------------------------- MODULE Indexer_proofs ---------------------------
(***************************************************************************)
(* For any contracts, events, ranges and offsets, and any number of loops  *)
(* at work on one contract: the cursor of a contract vouches for its       *)
(* events.  The invariant says what each loop knows between two of its     *)
(* awaits: the keys of the events below its range are in the table, those  *)
(* of its range are or the events are still to do, and its range is out of *)
(* reach of the chain.                                                     *)
(***************************************************************************)
EXTENDS Indexer, TLAPS

-----------------------------------------------------------------------------
(* The block number.  The invariant follows the numbers that are too large     *)
(* through the history: behind the last true number there are only such ones,  *)
(* and no more than the provider has answered since.  The step from a true     *)
(* number to one that is too large is what keeps the history from being        *)
(* steady, wherever in the history it is.                                      *)

Genuine(v) == v \in 0 .. Top

FeedTyped ==
    /\ head \in 0 .. Top
    /\ filter = [history |-> filter.history, status |-> filter.status]
    /\ filter.history \in Seq(Values)
    /\ Len(filter.history) <= FilterSize
    /\ filter.status \in {"preparing", "success", "error"}
    /\ last \in Values \cup {NaN}
    /\ bogus \in 0 .. FilterSize - 1

\* At most n numbers behind the last true one of h are too large.
TrailsBy(h, n) ==
    Len(h) > n =>
        \E i \in Len(h) - n .. Len(h) :
            /\ i >= 1
            /\ Genuine(h[i])
            /\ \A j \in i + 1 .. Len(h) : ~Genuine(h[j])

Trail == TrailsBy(filter.history, bogus)

\* A filter that has settled ends with the number it was given last.
Settled ==
    filter.status = "success" =>
        /\ last \in 0 .. head
        /\ FilterSize # 1 =>
             /\ filter.history # <<>>
             /\ filter.history[Len(filter.history)] = last

FeedInv == FeedTyped /\ Trail /\ Settled

-----------------------------------------------------------------------------

LEMMA ValueTypes ==
    /\ FilterSize \in Nat /\ FilterSize >= 1 /\ ValueMaxDiff \in Nat /\ Top \in Nat /\ Lag \in Nat
    /\ Values \subseteq Nat
    /\ NaN \notin Values
<1>1. FilterSize \in Nat /\ FilterSize >= 1 /\ ValueMaxDiff \in Nat /\ Top \in Nat /\ Lag \in Nat
  BY FilterAssumption, FeedAssumption
<1>2. Values \subseteq Nat
  BY <1>1, FeedAssumption DEF Values
<1>3. NaN \notin Nat
  BY FilterAssumption
<1> QED
  BY <1>1, <1>2, <1>3

\* A number that is not true is further from a true one than a step may be.
LEMMA TooLarge ==
    ASSUME FilterSize # 1, NEW u \in Values, Genuine(u), NEW v \in Values, ~Genuine(v)
    PROVE  v - u \notin 0 .. ValueMaxDiff
<1>1. FilterSize - 2 \in Nat /\ ValueMaxDiff \in Nat
  BY ValueTypes
<1>2. (FilterSize - 1) * ValueMaxDiff = (FilterSize - 2) * ValueMaxDiff + ValueMaxDiff
  BY <1>1, ValueTypes
<1>3. (FilterSize - 2) * ValueMaxDiff \in Nat
  BY <1>1
<1>4. v \in Spurious /\ v > Top + (FilterSize - 1) * ValueMaxDiff
  BY FeedAssumption DEF Values, Genuine
<1> DEFINE p == (FilterSize - 2) * ValueMaxDiff
           q == (FilterSize - 1) * ValueMaxDiff
<1>5. q = p + ValueMaxDiff /\ p \in Nat /\ v > Top + q
  BY <1>2, <1>3, <1>4
<1> HIDE DEF p, q
<1>6. v > Top + ValueMaxDiff
  BY <1>1, <1>5, ValueTypes
<1> QED
  BY <1>1, <1>6, ValueTypes DEF Genuine

\* What History.add returns (the history of a filter, one number longer).
LEMMA AddedType ==
    ASSUME NEW h \in Seq(Values), Len(h) <= FilterSize, NEW v \in Values
    PROVE  /\ Added(h, v) \in Seq(Values)
           /\ Len(Added(h, v)) \in 1 .. FilterSize
           /\ Added(h, v)[Len(Added(h, v))] = v
           /\ Len(h) < FilterSize =>
                /\ Len(Added(h, v)) = Len(h) + 1
                /\ \A i \in 1 .. Len(h) : Added(h, v)[i] = h[i]
           /\ Len(h) = FilterSize =>
                /\ Len(Added(h, v)) = FilterSize
                /\ \A i \in 1 .. FilterSize - 1 : Added(h, v)[i] = h[i + 1]
<1>1. FilterSize \in Nat /\ FilterSize >= 1 /\ Len(h) \in Nat
  BY ValueTypes
<1>2. CASE Len(h) < FilterSize
  <2>1. Added(h, v) = Append(h, v)
    BY <1>1, <1>2 DEF Added
  <2> QED
    BY <1>1, <1>2, <2>1
<1>3. CASE Len(h) = FilterSize
  <2>1. Added(h, v) = Append(Tail(h), v)
    BY <1>3 DEF Added
  <2>2. h # <<>>
    BY <1>1, <1>3
  <2>3. /\ Tail(h) \in Seq(Values) /\ Len(Tail(h)) = FilterSize - 1
        /\ \A i \in 1 .. FilterSize - 1 : Tail(h)[i] = h[i + 1]
    BY <1>1, <1>3, <2>2
  <2> DEFINE t == Tail(h)
  <2> HIDE DEF t
  <2>4. /\ Append(t, v) \in Seq(Values) /\ Len(Append(t, v)) = FilterSize
        /\ Append(t, v)[FilterSize] = v
        /\ \A i \in 1 .. FilterSize - 1 : Append(t, v)[i] = h[i + 1]
    BY <1>1, <2>3 DEF t
  <2> QED
    BY <1>1, <1>3, <2>1, <2>4 DEF t
<1> QED
  BY <1>1, <1>2, <1>3

\* A true number that is added ends the trail.
LEMMA TrueEndsTrail ==
    ASSUME NEW h \in Seq(Values), h # <<>>, Genuine(h[Len(h)])
    PROVE  TrailsBy(h, 0)
BY DEF TrailsBy

\* A number that is too large makes the trail longer by one.
LEMMA TrailGrows ==
    ASSUME NEW h \in Seq(Values), Len(h) <= FilterSize, NEW v \in Values, ~Genuine(v),
           NEW n \in 0 .. FilterSize - 2, TrailsBy(h, n)
    PROVE  TrailsBy(Added(h, v), n + 1)
<1> DEFINE a == Added(h, v)
<1> SUFFICES ASSUME Len(a) > n + 1
             PROVE  \E i \in Len(a) - (n + 1) .. Len(a) :
                       i >= 1 /\ Genuine(a[i]) /\ \A j \in i + 1 .. Len(a) : ~Genuine(a[j])
  BY DEF TrailsBy
<1>1. FilterSize \in Nat /\ Len(h) \in Nat /\ Len(a) \in Nat /\ a[Len(a)] = v /\ n \in Nat
  BY AddedType, ValueTypes
<1>2. CASE Len(h) < FilterSize
  <2>1. Len(a) = Len(h) + 1 /\ \A i \in 1 .. Len(h) : a[i] = h[i]
    BY <1>2, AddedType
  <2> HIDE DEF a
  <2>2. Len(h) > n
    BY <1>1, <2>1
  <2>3. PICK i \in Len(h) - n .. Len(h) :
           i >= 1 /\ Genuine(h[i]) /\ \A j \in i + 1 .. Len(h) : ~Genuine(h[j])
    BY <2>2 DEF TrailsBy
  <2>4. i \in Len(a) - (n + 1) .. Len(a) /\ i \in 1 .. Len(h)
    BY <1>1, <2>1, <2>3
  <2>5. \A j \in i + 1 .. Len(a) : ~Genuine(a[j])
    BY <1>1, <2>1, <2>3
  <2> QED
    BY <2>1, <2>3, <2>4, <2>5
<1>3. CASE Len(h) = FilterSize
  <2>1. Len(a) = FilterSize /\ \A i \in 1 .. FilterSize - 1 : a[i] = h[i + 1]
    BY <1>3, AddedType
  <2> HIDE DEF a
  <2>2. PICK i \in Len(h) - n .. Len(h) :
           i >= 1 /\ Genuine(h[i]) /\ \A j \in i + 1 .. Len(h) : ~Genuine(h[j])
    BY <1>1, <1>3 DEF TrailsBy
  <2>3. i - 1 \in Len(a) - (n + 1) .. Len(a) /\ i - 1 \in 1 .. FilterSize - 1
    BY <1>1, <1>3, <2>1, <2>2
  <2>4. a[i - 1] = h[i]
    BY <2>1, <2>3
  <2>5. \A j \in (i - 1) + 1 .. Len(a) : ~Genuine(a[j])
    <3> SUFFICES ASSUME NEW j \in i .. FilterSize PROVE ~Genuine(a[j])
      BY <1>1, <2>1, <2>2
    <3>1. CASE j = FilterSize
      BY <1>1, <2>1, <3>1
    <3>2. CASE j # FilterSize
      <4>1. j \in 1 .. FilterSize - 1 /\ j + 1 \in i + 1 .. Len(h)
        BY <1>1, <1>3, <2>2, <3>2
      <4> QED
        BY <2>1, <2>2, <4>1
    <3> QED
      BY <3>1, <3>2
  <2> QED
    BY <2>2, <2>3, <2>4, <2>5
<1> QED
  BY <1>1, <1>2, <1>3

\* A steady history that has a true number in it ends with one.
LEMMA SteadyEndsTrue ==
    ASSUME FilterSize # 1, NEW h \in Seq(Values), Steady(h),
           NEW n \in 0 .. FilterSize - 1, TrailsBy(h, n)
    PROVE  Genuine(h[Len(h)])
<1>1. FilterSize \in Nat /\ Len(h) = FilterSize
  BY ValueTypes DEF Steady
<1>2. PICK i \in Len(h) - n .. Len(h) :
         i >= 1 /\ Genuine(h[i]) /\ \A j \in i + 1 .. Len(h) : ~Genuine(h[j])
  BY <1>1 DEF TrailsBy
<1>3. CASE i = Len(h)
  BY <1>2, <1>3
<1>4. CASE i < Len(h)
  <2>1. i + 1 \in 2 .. Len(h) /\ i \in 1 .. Len(h) /\ i + 1 \in 1 .. Len(h) /\ (i + 1) - 1 = i
    BY <1>1, <1>2, <1>4
  <2>2. h[i] \in Values /\ h[i + 1] \in Values /\ ~Genuine(h[i + 1])
    BY <1>2, <2>1
  <2>3. h[i + 1] - h[i] \in 0 .. ValueMaxDiff
    BY <2>1 DEF Steady
  <2> QED
    BY <1>2, <2>2, <2>3, TooLarge
<1> QED
  BY <1>1, <1>2, <1>3, <1>4

-----------------------------------------------------------------------------

\* What analyze does to a filter of more than one number.
LEMMA AnalyzedCases ==
    ASSUME FeedTyped, FilterSize # 1, NEW v \in Values \cup {NaN}, Analyze(v)
    PROVE  /\ last' = v /\ head' = head
           /\ \/ /\ Refused(filter, v)
                 /\ filter' = [history |-> filter.history, status |-> "error"]
              \/ /\ v \in Values /\ ~Refused(filter, v)
                 /\ filter' = [history |-> Added(filter.history, v),
                               status |-> IF Steady(Added(filter.history, v))
                                          THEN "success" ELSE "preparing"]
<1>1. v = NaN => Refused(filter, v)
  BY DEF Refused
<1>2. [filter EXCEPT !.status = "error"] = [history |-> filter.history, status |-> "error"]
  BY DEF FeedTyped
<1> QED
  BY <1>1, <1>2 DEF Analyze, Analyzed

LEMMA AnswerStep ==
    ASSUME FeedInv, Answer
    PROVE  FeedInv'
<1>1. PICK v \in 0 .. Top : v \in head - Lag .. head /\ Analyze(v)
  BY DEF Answer
<1>2. bogus' = 0 /\ 0 \in 0 .. FilterSize - 1 /\ v \in Values /\ v \in 0 .. head /\ Genuine(v)
  BY <1>1, ValueTypes DEF Answer, Values, Genuine, FeedInv, FeedTyped
<1>3. CASE FilterSize = 1
  <2>1. filter' = [history |-> filter.history, status |-> "success"]
    BY <1>1, <1>3 DEF Analyze, Analyzed, FeedInv, FeedTyped
  <2>2. FeedTyped' /\ Settled'
    BY <1>1, <1>2, <1>3, <2>1 DEF Analyze, FeedInv, FeedTyped, Settled
  <2>3. filter'.history = filter.history /\ bogus = 0
    BY <1>3, <2>1 DEF FeedInv, FeedTyped
  <2>4. Trail'
    BY <1>2, <2>3 DEF FeedInv, Trail
  <2> QED
    BY <2>2, <2>4 DEF FeedInv
<1>4. CASE FilterSize # 1 /\ Refused(filter, v)
  <2>1. /\ filter' = [history |-> filter.history, status |-> "error"]
        /\ last' = v /\ head' = head
    BY <1>1, <1>2, <1>4, AnalyzedCases DEF FeedInv
  <2>2. FeedTyped' /\ Settled'
    BY <1>2, <2>1 DEF FeedInv, FeedTyped, Settled
  <2>3. filter.status = "success"
    BY <1>2, <1>4, ValueTypes DEF Refused
  <2>4. filter.history \in Seq(Values) /\ filter.history # <<>> /\ Genuine(filter.history[Len(filter.history)])
    <3>1. /\ filter.history # <<>> /\ filter.history[Len(filter.history)] = last
          /\ last \in 0 .. head
      BY <1>4, <2>3 DEF FeedInv, Settled
    <3>2. head \in 0 .. Top /\ filter.history \in Seq(Values)
      BY DEF FeedInv, FeedTyped
    <3>3. last \in 0 .. Top
      BY <3>1, <3>2, ValueTypes
    <3> QED
      BY <3>1, <3>2, <3>3 DEF Genuine
  <2>5. Trail'
    BY <1>2, <2>1, <2>4, TrueEndsTrail DEF Trail
  <2> QED
    BY <2>2, <2>5 DEF FeedInv
<1>5. CASE FilterSize # 1 /\ ~Refused(filter, v)
  <2> DEFINE a == Added(filter.history, v)
  <2>1. /\ filter' = [history |-> a, status |-> IF Steady(a) THEN "success" ELSE "preparing"]
        /\ last' = v /\ head' = head
    BY <1>1, <1>2, <1>5, AnalyzedCases DEF FeedInv
  <2>2. a \in Seq(Values) /\ Len(a) \in 1 .. FilterSize /\ a[Len(a)] = v
    BY <1>2, AddedType DEF FeedInv, FeedTyped
  <2> HIDE DEF a
  <2>3. a # <<>> /\ Len(a) <= FilterSize
    BY <2>2, ValueTypes
  <2>4. FeedTyped' /\ Settled'
    BY <1>2, <2>1, <2>2, <2>3 DEF FeedInv, FeedTyped, Settled
  <2>5. Trail'
    BY <1>2, <2>1, <2>2, <2>3, TrueEndsTrail DEF Trail
  <2> QED
    BY <2>4, <2>5 DEF FeedInv
<1> QED
  BY <1>3, <1>4, <1>5

LEMMA ErrStep ==
    ASSUME FeedInv, Err
    PROVE  FeedInv'
<1>1. PICK v \in Spurious \cup {NaN} : Analyze(v)
  BY DEF Err
<1>2. /\ bogus' = bogus + 1 /\ bogus \in 0 .. FilterSize - 2
      /\ bogus + 1 \in 0 .. FilterSize - 1 /\ FilterSize # 1
  BY ValueTypes DEF Err, FeedInv, FeedTyped
<1>3. v \in Values \cup {NaN}
  BY DEF Values
<1>4. CASE Refused(filter, v)
  <2>1. /\ filter' = [history |-> filter.history, status |-> "error"]
        /\ last' = v /\ head' = head
    BY <1>1, <1>2, <1>3, <1>4, AnalyzedCases DEF FeedInv
  <2>2. FeedTyped' /\ Settled'
    BY <1>2, <1>3, <2>1 DEF FeedInv, FeedTyped, Settled
  <2>3. Trail'
    <3>1. Len(filter.history) \in Nat /\ bogus \in Nat
      BY <1>2, ValueTypes DEF FeedInv, FeedTyped
    <3>2. TrailsBy(filter.history, bogus + 1)
      BY <3>1 DEF FeedInv, Trail, TrailsBy
    <3> QED
      BY <1>2, <2>1, <3>2 DEF Trail
  <2> QED
    BY <2>2, <2>3 DEF FeedInv
<1>5. CASE v \in Values /\ ~Refused(filter, v)
  <2> DEFINE a == Added(filter.history, v)
  <2>1. /\ filter' = [history |-> a, status |-> IF Steady(a) THEN "success" ELSE "preparing"]
        /\ last' = v /\ head' = head
    BY <1>1, <1>2, <1>3, <1>5, AnalyzedCases DEF FeedInv
  <2>2. a \in Seq(Values) /\ Len(a) \in 1 .. FilterSize /\ a[Len(a)] = v
    BY <1>5, AddedType DEF FeedInv, FeedTyped
  <2>3. ~Genuine(v)
    <3>1. v \in Spurious
      BY <1>1, <1>5, ValueTypes
    <3>2. (FilterSize - 1) * ValueMaxDiff \in Nat
      BY ValueTypes
    <3> QED
      BY <3>1, <3>2, FeedAssumption DEF Genuine
  <2>4. TrailsBy(a, bogus + 1)
    BY <1>2, <1>5, <2>3, TrailGrows DEF FeedInv, FeedTyped, Trail
  <2> HIDE DEF a
  <2>5. ~Steady(a)
    BY <1>2, <2>2, <2>3, <2>4, SteadyEndsTrue
  <2>6. FeedTyped' /\ Settled'
    BY <1>2, <1>3, <2>1, <2>2, <2>5, ValueTypes DEF FeedInv, FeedTyped, Settled
  <2>7. Trail'
    BY <1>2, <2>1, <2>4 DEF Trail
  <2> QED
    BY <2>6, <2>7 DEF FeedInv
<1>6. v = NaN => Refused(filter, v)
  BY DEF Refused
<1> QED
  BY <1>3, <1>4, <1>5, <1>6

\* The chain grows: what was reached stays reached.
LEMMA GrowStep ==
    ASSUME FeedInv, Grow
    PROVE  FeedInv'
<1>1. head' \in 0 .. Top /\ head <= head'
  BY ValueTypes DEF Grow, FeedInv, FeedTyped
<1>2. FeedTyped'
  BY <1>1 DEF Grow, FeedInv, FeedTyped
<1>3. Settled'
  BY <1>1 DEF Grow, FeedInv, FeedTyped, Settled
<1>4. Trail'
  BY DEF Grow, FeedInv, Trail
<1> QED
  BY <1>2, <1>3, <1>4 DEF FeedInv

LEMMA FeedBegins ==
    ASSUME FeedInit
    PROVE  FeedInv
<1>1. filter.history = <<>> /\ filter.status = "preparing"
      /\ filter = [history |-> filter.history, status |-> filter.status]
  BY DEF FeedInit, NewFilter
<1>2. FeedTyped /\ Settled
  BY <1>1, ValueTypes DEF FeedInit, FeedTyped, Settled
<1>3. Trail
  BY <1>1 DEF FeedInit, Trail, TrailsBy
<1> QED
  BY <1>2, <1>3 DEF FeedInv

LEMMA FeedStep ==
    ASSUME FeedInv, [FeedNext]_feedVars
    PROVE  FeedInv'
<1>1. CASE UNCHANGED feedVars
  BY <1>1 DEF feedVars, FeedInv, FeedTyped, Trail, Settled
<1> QED
  BY <1>1, GrowStep, AnswerStep, ErrStep DEF FeedNext

LEMMA FeedInductive == FeedSpec => []FeedInv
  BY FeedBegins, FeedStep, PTL DEF FeedSpec

LEMMA FeedTyping ==
    ASSUME FeedInv
    PROVE  FeedTypeOK
<1> DEFINE n == Len(filter.history)
<1>1. n \in 0 .. FilterSize /\ filter.history \in [1 .. n -> Values]
  BY ValueTypes DEF FeedInv, FeedTyped
<1>2. filter.history \in UNION {[1 .. m -> Values] : m \in 0 .. FilterSize}
  BY <1>1
<1>3. filter \in Filters(Values)
  BY <1>2 DEF FeedInv, FeedTyped, Filters
<1> QED
  BY <1>3 DEF FeedInv, FeedTyped, FeedTypeOK

\* THEOREM: a block number with the status "success" is one the chain has
\* reached (BlockNumberFilter.analyze), for every size of the history, as long
\* as fewer answers in a row than it is long are wrong.
THEOREM RealAlways == FeedSpec => []AcceptedIsReal
<1>1. FeedInv => AcceptedIsReal
  BY DEF FeedInv, Settled, AcceptedIsReal
<1> QED
  BY <1>1, FeedInductive, PTL

\* THEOREM: the filter stays well typed: its history never outgrows its size.
THEOREM FeedTypeCorrect == FeedSpec => []FeedTypeOK
  BY FeedTyping, FeedInductive, PTL

-----------------------------------------------------------------------------
(* The loops *)

Pairs == Contracts \X Loops

Typed ==
    /\ run \in [st : {"none", "numbering", "mapping"}, contracts : SUBSET Contracts,
                loops : SUBSET Pairs]
    /\ loop \in [Pairs -> Loop]
    /\ rows \in [Contracts -> Row]
    /\ table \in [Keys -> Events \cup {NoEvent}]
    /\ since \in [Contracts -> 0 .. Top + 1]
    /\ spent \in [failures : 0 .. MaxFailures, edits : 0 .. MaxEdits,
                  reboots : 0 .. MaxReboots]

AtWork(p) == loop[p].st \in {"fetching", "opening", "saving"}

\* The event, or another of its primary key, is in the table.
Kept(e) == table[KeyOf[e]] # NoEvent

\* The blocks of a loop that looks further are final.
Deep(p) ==
    loop[p].st \notin {"none", "leaving"} => loop[p].current <= head - BlockNumberOffset

Ranged(p) == AtWork(p) => loop[p].from <= loop[p].to /\ loop[p].to <= loop[p].current

\* What lies below the range is kept.
Below(p) ==
    AtWork(p) =>
        \A e \in Events :
            ContractOf[e] = p[1] /\ BlockOf[e] \in since[p[1]] .. loop[p].from - 1 => Kept(e)

\* What lies in the range is kept or to do.
Fetched(p) ==
    loop[p].st \in {"opening", "saving"} =>
        \A e \in Events :
            ContractOf[e] = p[1] /\ BlockOf[e] \in loop[p].from .. loop[p].to
              => Kept(e) \/ e \in loop[p].todo

Sound(p) == Deep(p) /\ Ranged(p) /\ Below(p) /\ Fetched(p)
Sounds == \A p \in Pairs : Sound(p)

NoneMissing ==
    \A e \in Events :
      LET c == ContractOf[e]
      IN  BlockOf[e] \in since[c] .. rows[c].syncBlockNumber - 1 => Kept(e)

IndexerInv == FeedInv /\ Typed /\ Sounds /\ NoneMissing /\ CursorFinal

-----------------------------------------------------------------------------
(* Types *)

LEMMA ConstantTypes ==
    /\ Top \in Nat /\ BlockNumberRange \in Nat /\ BlockNumberOffset \in Nat
    /\ Depth \in Nat /\ Depth <= BlockNumberOffset
    /\ FilterSize # 1
    /\ {MaxFailures, MaxEdits, MaxReboots} \subseteq Nat
    /\ Cursors \subseteq 0 .. Top + 1
    /\ NoEvent \notin Events
<1>1. Top \in Nat /\ FilterSize \in Nat
  BY FeedAssumption, FilterAssumption
<1> QED
  BY <1>1, IndexerAssumption

LEMMA EventTypes ==
    ASSUME NEW e \in Events
    PROVE  ContractOf[e] \in Contracts /\ BlockOf[e] \in 0 .. Top /\ KeyOf[e] \in Keys
BY IndexerAssumption

LEMMA HeadType == FeedInv => head \in 0 .. Top
BY DEF FeedInv, FeedTyped

LEMMA NewRowType ==
    ASSUME NEW id \in 0 .. MaxEdits, NEW b \in 0 .. Top + 1
    PROVE  NewRow(id, b) \in Row
BY DEF NewRow, Row

LEMMA NoLoopType == NoLoop \in Loop
<1>1. NewRow(0, 0) \in Row
  BY ConstantTypes, NewRowType
<1> QED
  BY <1>1, ConstantTypes DEF NoLoop, Loop, LoopStates, Blocks

LEMMA LookingType ==
    ASSUME NEW n \in Blocks
    PROVE  /\ Looking(n) \in Loop
           /\ Looking(n).st = "looking" /\ Looking(n).current = n
BY NoLoopType DEF Looking, Loop, LoopStates

LEMMA LeavingType ==
    ASSUME NEW l \in Loop, NEW es \in SUBSET Events
    PROVE  /\ Leaving(l, es) \in Loop
           /\ Leaving(l, es).st \in {"none", "leaving"}
<1>1. NoLoop \in Loop /\ NoLoop.st = "none"
  BY NoLoopType DEF NoLoop
<1>2. l.contract \in Row
  BY DEF Loop
<1>3. CASE es = {}
  BY <1>1, <1>3 DEF Leaving
<1>4. CASE es # {}
  <2> DEFINE m == [NoLoop EXCEPT !.st = "leaving", !.todo = es, !.contract = l.contract]
  <2>1. m \in Loop /\ m.st = "leaving"
    BY <1>1, <1>2 DEF Loop, LoopStates
  <2> QED
    BY <1>4, <2>1 DEF Leaving
<1> QED
  BY <1>3, <1>4

\* A change of the loop p alone.
LEMMA LoopTyped ==
    ASSUME Typed, NEW p \in Pairs, NEW l \in Loop, loop' = [loop EXCEPT ![p] = l]
    PROVE  /\ loop' \in [Pairs -> Loop]
           /\ loop'[p] = l
           /\ \A q \in Pairs : q # p => loop'[q] = loop[q]
BY DEF Typed

LEMMA NoRunType ==
    NoRun \in [st : {"none", "numbering", "mapping"}, contracts : SUBSET Contracts,
               loops : SUBSET Pairs]
BY DEF NoRun

-----------------------------------------------------------------------------
(* What each step of a loop makes of it *)

LEMMA LookEffect ==
    ASSUME IndexerInv, NEW p \in Pairs, Look(p)
    PROVE  LET r == rows[p[1]]
               l == loop[p]
               to == IF r.syncBlockNumber + BlockNumberRange > l.current
                     THEN l.current ELSE r.syncBlockNumber + BlockNumberRange
           IN  \/ loop' = [loop EXCEPT ![p] = NoLoop]
               \/ /\ r.syncBlockNumber <= l.current
                  /\ r.syncBlockNumber \in Blocks /\ to \in Blocks
                  /\ r.syncBlockNumber <= to /\ to <= l.current
                  /\ loop' = [loop EXCEPT ![p] =
                       [l EXCEPT !.st = "fetching", !.from = r.syncBlockNumber, !.to = to]]
<1> DEFINE r == rows[p[1]]
           l == loop[p]
           s == r.syncBlockNumber
           to == IF s + BlockNumberRange > l.current THEN l.current ELSE s + BlockNumberRange
<1>1. p[1] \in Contracts
  BY DEF Pairs
<1>2. s \in 0 .. Top + 1 /\ l \in Loop /\ l.current \in Blocks
  BY <1>1 DEF IndexerInv, Typed, Row, Loop
<1>3. BlockNumberRange \in Nat /\ Top \in Nat
  BY ConstantTypes
<1>4. CASE ~r.exists \/ s > l.current
  BY <1>4 DEF Look
<1>5. CASE ~(~r.exists \/ s > l.current)
  <2>1. loop' = [loop EXCEPT ![p] = [l EXCEPT !.st = "fetching", !.from = s, !.to = to]]
    BY <1>5 DEF Look
  <2>2. s <= l.current /\ s \in Nat /\ l.current \in 0 .. Top
    BY <1>2, <1>3, <1>5 DEF Blocks
  <2> HIDE DEF s, l
  <2>3. s \in Blocks /\ to \in Blocks /\ s <= to /\ to <= l.current
    BY <1>3, <2>2 DEF Blocks
  <2> QED
    BY <2>1, <2>2, <2>3 DEF s, l
<1> QED
  BY <1>4, <1>5

\* A loop that is not touched stays sound: the chain only grows, events stay
\* stored, and while a loop is at work its cursor comes to vouch for less only.
LEMMA SoundStays ==
    ASSUME IndexerInv, FeedInv', NEW q \in Pairs, loop'[q] = loop[q], head' >= head,
           \A e \in Events : Kept(e) => Kept(e)',
           since' \in [Contracts -> 0 .. Top + 1],
           AtWork(q) => since'[q[1]] >= since[q[1]]
    PROVE  Sound(q)'
<1>1. q[1] \in Contracts /\ Sound(q)
  BY DEF Pairs, IndexerInv, Sounds
<1>2. head \in Int /\ head' \in Int /\ BlockNumberOffset \in Nat
  BY HeadType, ConstantTypes DEF IndexerInv, FeedInv, FeedTyped
<1>3. /\ loop[q] \in Loop /\ loop[q].current \in Nat /\ loop[q].from \in Nat /\ loop[q].to \in Nat
      /\ since[q[1]] \in Nat /\ since'[q[1]] \in Nat
  BY <1>1 DEF IndexerInv, Typed, Loop, Blocks
<1>4. Deep(q)'
  BY <1>1, <1>2, <1>3 DEF Sound, Deep
<1>5. Ranged(q)'
  BY <1>1 DEF Sound, Ranged, AtWork
<1>6. Below(q)'
  <2> SUFFICES ASSUME AtWork(q), NEW e \in Events, ContractOf[e] = q[1],
                      BlockOf[e] \in since'[q[1]] .. loop[q].from - 1
               PROVE  Kept(e)'
    BY DEF Below, AtWork
  <2>1. BlockOf[e] \in since[q[1]] .. loop[q].from - 1
    BY <1>3, EventTypes
  <2> QED
    BY <1>1, <2>1 DEF Sound, Below
<1>7. Fetched(q)'
  BY <1>1 DEF Sound, Fetched
<1> QED
  BY <1>4, <1>5, <1>6, <1>7 DEF Sound

\* A loop that is over, is about to be, or looks at blocks that are final, is sound.
LEMMA RestSound ==
    ASSUME NEW q \in Pairs, loop'[q].st \in {"none", "looking", "leaving"},
           loop'[q].st = "looking" => loop'[q].current <= head' - BlockNumberOffset
    PROVE  Sound(q)'
BY DEF Sound, Deep, Ranged, Below, Fetched, AtWork

\* A step that leaves cursors and the chain alone, and events stored.
LEMMA StoreStays ==
    ASSUME IndexerInv, UNCHANGED <<head, rows, since>>,
           \A e \in Events : Kept(e) => Kept(e)'
    PROVE  NoneMissing' /\ CursorFinal'
BY DEF IndexerInv, NoneMissing, CursorFinal

LEMMA FeedStays == FeedInv /\ UNCHANGED feedVars => FeedInv'
BY FeedStep

\* All parts but the loop p.
LEMMA OneLoop ==
    ASSUME IndexerInv, UNCHANGED <<feedVars, rows, since>>, Typed',
           NEW p \in Pairs, \A q \in Pairs : q # p => loop'[q] = loop[q],
           \A e \in Events : Kept(e) => Kept(e)',
           Sound(p)'
    PROVE  IndexerInv'
<1>1. FeedInv' /\ head' = head
  BY FeedStays DEF IndexerInv, feedVars
<1>2. head \in Int
  BY HeadType, ConstantTypes DEF IndexerInv
<1>3. \A q \in Pairs : since'[q[1]] = since[q[1]] /\ since[q[1]] \in Nat
  BY ConstantTypes DEF IndexerInv, Typed, Pairs
<1>4. ASSUME NEW q \in Pairs, q # p PROVE Sound(q)'
  <2>1. since' \in [Contracts -> 0 .. Top + 1] /\ since'[q[1]] >= since[q[1]] /\ head' >= head
    BY <1>1, <1>2, <1>3 DEF IndexerInv, Typed
  <2>2. loop'[q] = loop[q]
    BY <1>4
  <2> QED
    BY <1>1, <2>1, <2>2, SoundStays
<1>5. NoneMissing' /\ CursorFinal'
  BY <1>1, StoreStays
<1> QED
  BY <1>1, <1>4, <1>5 DEF IndexerInv, Sounds

-----------------------------------------------------------------------------
(* The steps of a loop *)

LEMMA LookKeeps ==
    ASSUME IndexerInv, NEW p \in Pairs, Look(p)
    PROVE  IndexerInv'
<1> DEFINE r == rows[p[1]]
           l == loop[p]
           s == r.syncBlockNumber
           to == IF s + BlockNumberRange > l.current THEN l.current ELSE s + BlockNumberRange
<1>1. UNCHANGED <<feedVars, run, rows, table, since, spent>> /\ l.st = "looking"
  BY DEF Look
<1>2. \A e \in Events : Kept(e) => Kept(e)'
  BY <1>1 DEF Kept
<1>3. p[1] \in Contracts /\ l \in Loop /\ l.current \in Nat
  BY DEF Pairs, IndexerInv, Typed, Loop, Blocks
<1>4. CASE loop' = [loop EXCEPT ![p] = NoLoop]
  <2>1. /\ loop' \in [Pairs -> Loop] /\ loop'[p] = NoLoop
        /\ \A q \in Pairs : q # p => loop'[q] = loop[q]
    BY <1>4, NoLoopType, LoopTyped DEF IndexerInv
  <2>2. Typed'
    BY <1>1, <2>1 DEF IndexerInv, Typed
  <2>3. Sound(p)'
    BY <2>1, RestSound DEF NoLoop
  <2> QED
    BY <1>1, <1>2, <2>1, <2>2, <2>3, OneLoop
<1>5. CASE /\ s <= l.current /\ s \in Blocks /\ to \in Blocks
           /\ s <= to /\ to <= l.current
           /\ loop' = [loop EXCEPT ![p] = [l EXCEPT !.st = "fetching", !.from = s, !.to = to]]
  <2> DEFINE m == [l EXCEPT !.st = "fetching", !.from = s, !.to = to]
  <2> HIDE DEF to, s
  <2>1. /\ m \in Loop /\ m.st = "fetching" /\ m.current = l.current
        /\ m.from = s /\ m.to = to
    BY <1>3, <1>5 DEF Loop, LoopStates
  <2> HIDE DEF m, l
  <2>2. loop' = [loop EXCEPT ![p] = m]
    BY <1>5 DEF m
  <2>3. /\ loop' \in [Pairs -> Loop] /\ loop'[p] = m
        /\ \A q \in Pairs : q # p => loop'[q] = loop[q]
    BY <2>1, <2>2, LoopTyped DEF IndexerInv
  <2>4. Typed'
    BY <1>1, <2>3 DEF IndexerInv, Typed
  <2>5. Deep(p)' /\ Ranged(p)' /\ Fetched(p)'
    <3>1. l.current <= head - BlockNumberOffset
      BY <1>1 DEF l, IndexerInv, Sounds, Sound, Deep
    <3> QED
      BY <1>1, <1>5, <2>1, <2>3, <3>1 DEF Deep, Ranged, Fetched, AtWork, feedVars
  <2>6. Below(p)'
    <3> SUFFICES ASSUME NEW e \in Events, ContractOf[e] = p[1],
                        BlockOf[e] \in since[p[1]] .. s - 1
                 PROVE  Kept(e)'
      BY <1>1, <2>1, <2>3 DEF Below
    <3> QED
      BY <1>2 DEF s, IndexerInv, NoneMissing
  <2> QED
    BY <1>1, <1>2, <2>3, <2>4, <2>5, <2>6, OneLoop DEF Sound
<1> QED
  BY <1>4, <1>5, LookEffect

\* The answer has every event of the range: all of its blocks are deep enough.
LEMMA FetchKeeps ==
    ASSUME IndexerInv, NEW p \in Pairs, Fetch(p)
    PROVE  IndexerInv'
<1> DEFINE l == loop[p]
<1>1. UNCHANGED <<feedVars, run, rows, table, since, spent>> /\ l.st = "fetching"
  BY DEF Fetch
<1>2. PICK es \in Answers(p[1], l.from, l.to) :
         loop' = [loop EXCEPT ![p].st = "opening", ![p].todo = es]
  BY DEF Fetch
<1>3. es \subseteq Events
  BY <1>2 DEF Answers
<1>4. p[1] \in Contracts /\ l \in Loop /\ l.from \in Nat /\ l.to \in Nat /\ l.current \in Nat
  BY DEF Pairs, IndexerInv, Typed, Loop, Blocks
<1> DEFINE m == [l EXCEPT !.st = "opening", !.todo = es]
<1>5. /\ m \in Loop /\ m.st = "opening" /\ m.todo = es
      /\ m.current = l.current /\ m.from = l.from /\ m.to = l.to
  BY <1>3, <1>4 DEF Loop, LoopStates
<1>6. loop' = [loop EXCEPT ![p] = m]
  BY <1>2 DEF IndexerInv, Typed
<1> HIDE DEF m
<1>7. /\ loop' \in [Pairs -> Loop] /\ loop'[p] = m
      /\ \A q \in Pairs : q # p => loop'[q] = loop[q]
  BY <1>5, <1>6, LoopTyped DEF IndexerInv
<1>8. Typed'
  BY <1>1, <1>7 DEF IndexerInv, Typed
<1>9. \A e \in Events : Kept(e) => Kept(e)'
  BY <1>1 DEF Kept
<1>10. Sound(p) /\ AtWork(p)
  BY <1>1 DEF IndexerInv, Sounds, AtWork
<1>11. Deep(p)' /\ Ranged(p)'
  BY <1>1, <1>5, <1>7, <1>10 DEF Sound, Deep, Ranged, AtWork, feedVars
<1>12. Below(p)'
  BY <1>1, <1>5, <1>7, <1>9, <1>10 DEF Sound, Below
<1>13. Fetched(p)'
  <2> SUFFICES ASSUME NEW e \in Events, ContractOf[e] = p[1], BlockOf[e] \in l.from .. l.to
               PROVE  e \in es
    BY <1>5, <1>7 DEF Fetched
  <2>1. /\ BlockOf[e] <= l.current /\ l.current <= head - BlockNumberOffset
    BY <1>1, <1>4, <1>10, EventTypes, ConstantTypes DEF Sound, Deep, Ranged
  <2>2. BlockOf[e] <= head - Depth /\ BlockOf[e] <= head
    BY <1>4, <2>1, HeadType, EventTypes, ConstantTypes DEF IndexerInv
  <2> QED
    BY <1>2, <2>2 DEF Answers
<1> QED
  BY <1>1, <1>7, <1>8, <1>9, <1>11, <1>12, <1>13, OneLoop DEF Sound

LEMMA OpenKeeps ==
    ASSUME IndexerInv, NEW p \in Pairs, Open(p)
    PROVE  IndexerInv'
<1> DEFINE r == rows[p[1]]
           l == loop[p]
           m == [l EXCEPT !.st = "saving", !.contract = r]
<1>1. UNCHANGED <<feedVars, run, rows, table, since, spent>> /\ l.st = "opening"
  BY DEF Open
<1>2. p[1] \in Contracts /\ r \in Row /\ l \in Loop /\ l.current \in Blocks
  BY DEF Pairs, IndexerInv, Typed, Loop
<1>3. Sound(p) /\ AtWork(p)
  BY <1>1 DEF IndexerInv, Sounds, AtWork
<1>4. \A e \in Events : Kept(e) => Kept(e)'
  BY <1>1 DEF Kept
<1>5. CASE r.exists
  <2>1. /\ m \in Loop /\ m.st = "saving" /\ m.todo = l.todo
        /\ m.current = l.current /\ m.from = l.from /\ m.to = l.to
    BY <1>2 DEF Loop, LoopStates
  <2>2. loop' = [loop EXCEPT ![p] = m]
    BY <1>5 DEF Open
  <2> HIDE DEF m
  <2>3. /\ loop' \in [Pairs -> Loop] /\ loop'[p] = m
        /\ \A q \in Pairs : q # p => loop'[q] = loop[q]
    BY <2>1, <2>2, LoopTyped DEF IndexerInv
  <2>4. Typed'
    BY <1>1, <2>3 DEF IndexerInv, Typed
  <2>5. Deep(p)' /\ Ranged(p)' /\ Below(p)' /\ Fetched(p)'
    BY <1>1, <1>3, <1>4, <2>1, <2>3 DEF Sound, Deep, Ranged, Below, Fetched, AtWork, feedVars
  <2> QED
    BY <1>1, <1>4, <2>3, <2>4, <2>5, OneLoop DEF Sound
<1>6. CASE ~r.exists
  <2>1. loop' = [loop EXCEPT ![p] = Looking(l.current)]
    BY <1>6 DEF Open
  <2>2. /\ loop' \in [Pairs -> Loop] /\ loop'[p] = Looking(l.current)
        /\ \A q \in Pairs : q # p => loop'[q] = loop[q]
    BY <1>2, <2>1, LookingType, LoopTyped DEF IndexerInv
  <2>3. Typed'
    BY <1>1, <2>2 DEF IndexerInv, Typed
  <2>4. loop'[p].st = "looking" /\ loop'[p].current = l.current
    BY <1>2, <2>2, LookingType
  <2>5. Sound(p)'
    BY <1>1, <1>3, <2>4, RestSound DEF Sound, Deep, feedVars
  <2> QED
    BY <1>1, <1>4, <2>2, <2>3, <2>5, OneLoop
<1> QED
  BY <1>5, <1>6

\* An event is put under its key: what was kept stays kept, and this one is.
LEMMA SaveEventKeeps ==
    ASSUME IndexerInv, NEW p \in Pairs, SaveEvent(p)
    PROVE  IndexerInv'
<1> DEFINE l == loop[p]
<1>1. UNCHANGED <<feedVars, run, rows, since, spent>> /\ l.st \in {"saving", "leaving"}
  BY DEF SaveEvent, Saving
<1>2. PICK e \in l.todo :
         /\ table' = [table EXCEPT ![KeyOf[e]] = e]
         /\ loop' = [loop EXCEPT ![p] = IF l.st = "leaving" THEN Leaving(l, l.todo \ {e})
                                        ELSE [l EXCEPT !.todo = @ \ {e}]]
  BY DEF SaveEvent
<1>3. p[1] \in Contracts /\ l \in Loop /\ l.todo \subseteq Events
  BY DEF Pairs, IndexerInv, Typed, Loop
<1>4. e \in Events /\ KeyOf[e] \in Keys
  BY <1>2, <1>3, EventTypes
<1> DEFINE m == IF l.st = "leaving" THEN Leaving(l, l.todo \ {e})
                ELSE [l EXCEPT !.todo = @ \ {e}]
<1>5. /\ m \in Loop
      /\ \/ m.st \in {"none", "leaving"}
         \/ /\ l.st = "saving" /\ m.st = "saving" /\ m.todo = l.todo \ {e}
            /\ m.current = l.current /\ m.from = l.from /\ m.to = l.to
  <2>1. l.todo \ {e} \in SUBSET Events
    BY <1>3
  <2>2. CASE l.st = "leaving"
    BY <1>3, <2>1, <2>2, LeavingType
  <2>3. CASE l.st = "saving"
    BY <1>3, <2>1, <2>3 DEF Loop
  <2> QED
    BY <1>1, <2>2, <2>3
<1>6. loop' = [loop EXCEPT ![p] = m]
  BY <1>2
<1> HIDE DEF m
<1>7. /\ loop' \in [Pairs -> Loop] /\ loop'[p] = m
      /\ \A q \in Pairs : q # p => loop'[q] = loop[q]
  BY <1>5, <1>6, LoopTyped DEF IndexerInv
<1>8. table' \in [Keys -> Events \cup {NoEvent}]
  BY <1>2, <1>4 DEF IndexerInv, Typed
<1>9. Typed'
  BY <1>1, <1>7, <1>8 DEF IndexerInv, Typed
<1>10. (\A f \in Events : Kept(f) => Kept(f)') /\ Kept(e)'
  <2>1. table'[KeyOf[e]] = e /\ e # NoEvent
    BY <1>2, <1>4, ConstantTypes DEF IndexerInv, Typed
  <2>2. \A k \in Keys : k # KeyOf[e] => table'[k] = table[k]
    BY <1>2 DEF IndexerInv, Typed
  <2> QED
    BY <2>1, <2>2, EventTypes DEF Kept
<1>11. Sound(p)'
  <2>1. CASE m.st \in {"none", "leaving"}
    BY <1>7, <2>1, RestSound
  <2>2. CASE m.st = "saving"
    <3>1. /\ l.st = "saving" /\ m.todo = l.todo \ {e}
          /\ m.current = l.current /\ m.from = l.from /\ m.to = l.to
      BY <1>5, <2>2
    <3>2. Sound(p) /\ AtWork(p)
      BY <3>1 DEF IndexerInv, Sounds, AtWork
    <3>3. Deep(p)' /\ Ranged(p)'
      BY <1>1, <1>7, <2>2, <3>1, <3>2 DEF Sound, Deep, Ranged, AtWork, feedVars
    <3>4. Below(p)'
      BY <1>1, <1>7, <1>10, <3>1, <3>2 DEF Sound, Below
    <3>5. Fetched(p)'
      BY <1>1, <1>7, <1>10, <3>1, <3>2 DEF Sound, Fetched
    <3> QED
      BY <3>3, <3>4, <3>5 DEF Sound
  <2> QED
    BY <1>5, <2>1, <2>2
<1> QED
  BY <1>1, <1>7, <1>9, <1>10, <1>11, OneLoop

\* Whatever makes a loop throw, or one of its saves, the others stay as they are.
LEMMA ThrowsKeeps ==
    ASSUME IndexerInv, NEW p \in Pairs, Throws(p), UNCHANGED <<feedVars, rows, table, since>>,
           spent' \in [failures : 0 .. MaxFailures, edits : 0 .. MaxEdits,
                       reboots : 0 .. MaxReboots]
    PROVE  IndexerInv'
<1>1. loop[p] \in Loop /\ loop[p].todo \subseteq Events
  BY DEF IndexerInv, Typed, Loop
<1>2. PICK l \in Loop : loop' = [loop EXCEPT ![p] = l] /\ l.st \in {"none", "leaving"}
  <2>1. CASE loop' = [loop EXCEPT ![p] = NoLoop]
    BY <2>1, NoLoopType DEF NoLoop
  <2>2. ASSUME NEW e \in loop[p].todo,
               loop' = [loop EXCEPT ![p] = Leaving(loop[p], loop[p].todo \ {e})]
        PROVE  \E l \in Loop : loop' = [loop EXCEPT ![p] = l] /\ l.st \in {"none", "leaving"}
    <3>1. loop[p].todo \ {e} \in SUBSET Events
      BY <1>1
    <3> QED
      BY <1>1, <2>2, <3>1, LeavingType
  <2> QED
    BY <2>1, <2>2 DEF Throws
<1>3. /\ loop' \in [Pairs -> Loop] /\ loop'[p] = l
      /\ \A q \in Pairs : q # p => loop'[q] = loop[q]
  BY <1>2, LoopTyped DEF IndexerInv
<1>4. Typed'
  BY <1>3, NoRunType DEF Throws, IndexerInv, Typed
<1>5. \A e \in Events : Kept(e) => Kept(e)'
  BY DEF Kept
<1>6. Sound(p)'
  BY <1>2, <1>3, RestSound
<1> QED
  BY <1>3, <1>4, <1>5, <1>6, OneLoop

\* The cursor moves behind the range: everything below it is stored by then, and
\* the range was out of reach of the chain.
LEMMA CommitKeeps ==
    ASSUME IndexerInv, NEW p \in Pairs, Commit(p)
    PROVE  IndexerInv'
<1> DEFINE l == loop[p]
           c == p[1]
           row == Saved(l.contract, l.to)
<1>1. /\ UNCHANGED <<feedVars, run, table, since, spent>>
      /\ l.st = "saving" /\ l.todo = {}
      /\ rows' = [rows EXCEPT ![c] = row]
      /\ loop' = [loop EXCEPT ![p] = Looking(l.current)]
  BY DEF Commit
<1>2. /\ c \in Contracts /\ l \in Loop /\ l.contract \in Row /\ l.current \in Blocks
      /\ l.to \in 0 .. Top /\ l.from \in 0 .. Top
  BY DEF Pairs, IndexerInv, Typed, Loop, Blocks
<1>3. row \in Row /\ row.syncBlockNumber = l.to + 1
  <2>1. l.to + 1 \in 0 .. Top + 1
    BY <1>2, ConstantTypes
  <2> QED
    BY <1>2, <2>1 DEF Saved, Row
<1> HIDE DEF row
<1>4. /\ rows' \in [Contracts -> Row] /\ rows'[c].syncBlockNumber = l.to + 1
      /\ \A d \in Contracts : d # c => rows'[d] = rows[d]
  BY <1>1, <1>2, <1>3 DEF IndexerInv, Typed
<1>5. /\ loop' \in [Pairs -> Loop] /\ loop'[p] = Looking(l.current)
      /\ \A q \in Pairs : q # p => loop'[q] = loop[q]
  BY <1>1, <1>2, LookingType, LoopTyped DEF IndexerInv
<1>6. Typed'
  BY <1>1, <1>4, <1>5 DEF IndexerInv, Typed
<1>7. FeedInv' /\ head' = head /\ head \in Nat /\ (\A e \in Events : Kept(e) => Kept(e)')
  BY <1>1, FeedStays, HeadType, ConstantTypes DEF IndexerInv, feedVars, Kept
<1>8. Sound(p) /\ AtWork(p)
  BY <1>1 DEF IndexerInv, Sounds, AtWork
<1>9. l.current <= head - BlockNumberOffset /\ l.to <= l.current
  BY <1>1, <1>8 DEF Sound, Deep, Ranged
<1>10. Sounds'
  <2>1. Sound(p)'
    BY <1>2, <1>5, <1>7, <1>9, LookingType, RestSound
  <2>2. ASSUME NEW q \in Pairs, q # p PROVE Sound(q)'
    <3>1. since' \in [Contracts -> 0 .. Top + 1] /\ since'[q[1]] >= since[q[1]]
      BY <1>1, ConstantTypes DEF IndexerInv, Typed, Pairs
    <3>2. loop'[q] = loop[q]
      BY <1>5, <2>2
    <3> QED
      BY <1>7, <3>1, <3>2, SoundStays
  <2> QED
    BY <2>1, <2>2 DEF Sounds
<1>11. NoneMissing'
  <2> SUFFICES ASSUME NEW e \in Events,
                      BlockOf[e] \in since'[ContractOf[e]] .. rows'[ContractOf[e]].syncBlockNumber - 1
               PROVE  Kept(e)'
    BY DEF NoneMissing
  <2>1. CASE ContractOf[e] # c
    BY <1>1, <1>4, <1>7, <2>1, EventTypes DEF IndexerInv, NoneMissing
  <2>2. CASE ContractOf[e] = c
    <3>1. BlockOf[e] \in since[c] .. l.to /\ since[c] \in Nat /\ BlockOf[e] \in Nat
      BY <1>1, <1>2, <1>4, <2>2, EventTypes DEF IndexerInv, Typed
    <3>2. CASE BlockOf[e] \in since[c] .. l.from - 1
      BY <1>7, <1>8, <2>2, <3>2 DEF Sound, Below
    <3>3. CASE BlockOf[e] \in l.from .. l.to
      BY <1>1, <1>7, <1>8, <2>2, <3>3 DEF Sound, Fetched
    <3> QED
      BY <1>2, <3>1, <3>2, <3>3
  <2> QED
    BY <2>1, <2>2
<1>12. CursorFinal'
  <2>1. (l.to + 1) - 1 <= head - Depth
    BY <1>2, <1>7, <1>9, ConstantTypes DEF Blocks
  <2> QED
    BY <1>1, <1>4, <1>7, <2>1 DEF IndexerInv, CursorFinal
<1> QED
  BY <1>6, <1>7, <1>10, <1>11, <1>12 DEF IndexerInv

LEMMA StepKeeps ==
    ASSUME IndexerInv, NEW p \in Pairs, Step(p) \/ FailLoop(p)
    PROVE  IndexerInv'
<1>1. ASSUME SaveRefused(p) \/ CommitRefused(p) PROVE IndexerInv'
  BY <1>1, ThrowsKeeps DEF SaveRefused, CommitRefused, IndexerInv, Typed
<1>2. ASSUME FailLoop(p) PROVE IndexerInv'
  <2>1. /\ spent \in [failures : 0 .. MaxFailures, edits : 0 .. MaxEdits, reboots : 0 .. MaxReboots]
        /\ spent.failures < MaxFailures /\ MaxFailures \in Nat
        /\ spent' = [spent EXCEPT !.failures = spent.failures + 1]
    BY <1>2, ConstantTypes DEF FailLoop, IndexerInv, Typed
  <2>2. spent.failures + 1 \in 0 .. MaxFailures
    BY <2>1
  <2>3. spent' \in [failures : 0 .. MaxFailures, edits : 0 .. MaxEdits, reboots : 0 .. MaxReboots]
    BY <2>1, <2>2
  <2> QED
    BY <1>2, <2>3, ThrowsKeeps DEF FailLoop
<1> QED
  BY <1>1, <1>2, LookKeeps, FetchKeeps, OpenKeeps, SaveEventKeeps, CommitKeeps DEF Step

-----------------------------------------------------------------------------
(* The run, the chain and the process *)

\* A step of the run alone.
LEMMA RunKeeps ==
    ASSUME IndexerInv, UNCHANGED <<feedVars, loop, rows, table, since>>,
           run' \in [st : {"none", "numbering", "mapping"}, contracts : SUBSET Contracts,
                     loops : SUBSET Pairs],
           spent' \in [failures : 0 .. MaxFailures, edits : 0 .. MaxEdits,
                       reboots : 0 .. MaxReboots]
    PROVE  IndexerInv'
<1>1. FeedInv'
  BY FeedStays DEF IndexerInv
<1>2. Typed'
  BY DEF IndexerInv, Typed
<1>3. NoneMissing' /\ CursorFinal'
  BY StoreStays DEF feedVars, Kept
<1>4. Sounds'
  BY DEF IndexerInv, Sounds, Sound, Deep, Ranged, Below, Fetched, AtWork, Kept, feedVars
<1> QED
  BY <1>1, <1>2, <1>3, <1>4 DEF IndexerInv

LEMMA CurrentDeep ==
    ASSUME NEW v \in Int, NEW h \in 0 .. Top, v <= h, CurrentBlock(v) >= 0
    PROVE  CurrentBlock(v) \in Blocks /\ CurrentBlock(v) <= h - BlockNumberOffset
BY ConstantTypes DEF CurrentBlock, Blocks

\* An accepted number is one the chain has reached, so that the loops which begin
\* with it keep the offset to the head.
LEMMA NumberedKeeps ==
    ASSUME IndexerInv, Answer \/ Err, Numbered
    PROVE  IndexerInv'
<1>1. FeedInv' /\ head' = head /\ head \in 0 .. Top
  BY AnswerStep, ErrStep, HeadType DEF IndexerInv, Answer, Err, Analyze
<1>2. UNCHANGED <<rows, table, since, spent>>
  BY DEF Numbered
<1>3. NoneMissing' /\ CursorFinal' /\ (\A e \in Events : Kept(e) => Kept(e)')
  BY <1>1, <1>2, StoreStays DEF Kept
<1>4. since' \in [Contracts -> 0 .. Top + 1] /\ \A q \in Pairs : since'[q[1]] >= since[q[1]]
  BY <1>2, ConstantTypes DEF IndexerInv, Typed, Pairs
<1>5. CASE filter'.status = "success" /\ CurrentBlock(last') >= 0
  <2>1. PICK g \in [run.contracts -> Loops] :
          LET ps == {<<c, g[c]>> : c \in run.contracts}
          IN  /\ run' = [run EXCEPT !.st = "mapping", !.loops = ps]
              /\ loop' = [p \in Contracts \X Loops |->
                            IF p \in ps THEN Looking(CurrentBlock(last')) ELSE loop[p]]
    BY <1>5 DEF Numbered
  <2> DEFINE ps == {<<c, g[c]>> : c \in run.contracts}
             n == CurrentBlock(last')
  <2>2. n \in Blocks /\ n <= head' - BlockNumberOffset
    <3>1. last' \in 0 .. head'
      BY <1>1, <1>5 DEF FeedInv, Settled
    <3>2. last' \in Int /\ head' \in 0 .. Top /\ last' <= head'
      BY <1>1, <3>1, ConstantTypes
    <3> QED
      BY <1>5, <3>2, CurrentDeep
  <2>3. ps \subseteq Pairs
    BY <2>1 DEF Pairs, IndexerInv, Typed
  <2>4. /\ run' = [run EXCEPT !.st = "mapping", !.loops = ps]
        /\ loop' = [p \in Pairs |-> IF p \in ps THEN Looking(n) ELSE loop[p]]
    BY <2>1 DEF Pairs
  <2> HIDE DEF ps, n
  <2>5. \A p \in Pairs : loop'[p] = IF p \in ps THEN Looking(n) ELSE loop[p]
    BY <2>4
  <2>6. loop' \in [Pairs -> Loop]
    BY <2>2, <2>4, LookingType DEF IndexerInv, Typed
  <2>7. Typed'
    BY <1>2, <2>3, <2>4, <2>6 DEF IndexerInv, Typed
  <2>8. ASSUME NEW q \in Pairs PROVE Sound(q)'
    <3>1. CASE q \in ps
      BY <2>2, <2>5, <3>1, LookingType, RestSound
    <3>2. CASE q \notin ps
      BY <1>1, <1>3, <1>4, <2>5, <3>2, SoundStays
    <3> QED
      BY <3>1, <3>2
  <2> QED
    BY <1>1, <1>3, <2>7, <2>8 DEF IndexerInv, Sounds
<1>6. CASE ~(filter'.status = "success" /\ CurrentBlock(last') >= 0)
  <2>1. run' = NoRun /\ loop' = loop
    BY <1>6 DEF Numbered
  <2>2. Typed'
    BY <1>2, <2>1, NoRunType DEF IndexerInv, Typed
  <2>3. Sounds'
    BY <1>1, <1>3, <1>4, <2>1, SoundStays DEF Sounds
  <2> QED
    BY <1>1, <1>3, <2>2, <2>3 DEF IndexerInv
<1> QED
  BY <1>5, <1>6

LEMMA ExtendKeeps ==
    ASSUME IndexerInv, Extend
    PROVE  IndexerInv'
<1>1. FeedInv' /\ head \in Nat /\ head' \in Nat /\ head' >= head
  <2>1. FeedInv' /\ head' \in head + 1 .. Top
    BY GrowStep DEF Extend, Grow, IndexerInv
  <2> QED
    BY <2>1, HeadType, ConstantTypes DEF IndexerInv
<1>2. UNCHANGED <<run, loop, rows, table, since, spent>>
  BY DEF Extend
<1>3. Typed'
  BY <1>2 DEF IndexerInv, Typed
<1>4. \A e \in Events : Kept(e) => Kept(e)'
  BY <1>2 DEF Kept
<1>5. ASSUME NEW q \in Pairs PROVE Sound(q)'
  <2>1. since' \in [Contracts -> 0 .. Top + 1] /\ since'[q[1]] >= since[q[1]] /\ loop'[q] = loop[q]
    BY <1>2, ConstantTypes DEF IndexerInv, Typed, Pairs
  <2> QED
    BY <1>1, <1>4, <2>1, SoundStays
<1>6. NoneMissing'
  BY <1>2, <1>4 DEF IndexerInv, NoneMissing
<1>7. CursorFinal'
  <2> SUFFICES ASSUME NEW c \in Contracts, ~(rows[c].syncBlockNumber <= since[c])
               PROVE  rows[c].syncBlockNumber - 1 <= head' - Depth
    BY <1>2 DEF CursorFinal
  <2>1. rows[c].syncBlockNumber \in Nat
    BY ConstantTypes DEF IndexerInv, Typed, Row
  <2>2. rows[c].syncBlockNumber - 1 <= head - Depth
    BY DEF IndexerInv, CursorFinal
  <2> QED
    BY <1>1, <2>1, <2>2, ConstantTypes
<1> QED
  BY <1>1, <1>3, <1>5, <1>6, <1>7 DEF IndexerInv, Sounds

\* The process starts anew: the filter is empty and no loop is at work.
LEMMA RebootKeeps ==
    ASSUME IndexerInv, Reboot
    PROVE  IndexerInv'
<1>1. FeedInv'
  <2>1. /\ filter'.history = <<>> /\ filter'.status = "preparing"
        /\ filter' = [history |-> filter'.history, status |-> filter'.status]
    BY DEF Reboot, NewFilter
  <2>2. head' = head /\ bogus' = bogus /\ last' = NaN
    BY DEF Reboot
  <2>3. FeedTyped' /\ Settled'
    BY <2>1, <2>2, ValueTypes DEF IndexerInv, FeedInv, FeedTyped, Settled
  <2>4. Trail'
    <3>1. bogus \in Nat
      BY ValueTypes DEF IndexerInv, FeedInv, FeedTyped
    <3> QED
      BY <2>1, <2>2, <3>1 DEF Trail, TrailsBy
  <2> QED
    BY <2>3, <2>4 DEF FeedInv
<1>2. UNCHANGED <<head, rows, table, since>>
  BY DEF Reboot
<1>3. /\ loop' \in [Pairs -> Loop]
      /\ \A q \in Pairs : loop'[q] = NoLoop
  BY NoLoopType DEF Reboot, Pairs
<1>4. spent' \in [failures : 0 .. MaxFailures, edits : 0 .. MaxEdits, reboots : 0 .. MaxReboots]
  <2>1. /\ spent \in [failures : 0 .. MaxFailures, edits : 0 .. MaxEdits, reboots : 0 .. MaxReboots]
        /\ spent.reboots < MaxReboots /\ MaxReboots \in Nat
        /\ spent' = [spent EXCEPT !.reboots = spent.reboots + 1]
    BY ConstantTypes DEF Reboot, IndexerInv, Typed
  <2>2. spent.reboots + 1 \in 0 .. MaxReboots
    BY <2>1
  <2> QED
    BY <2>1, <2>2
<1>5. run' = NoRun
  BY DEF Reboot
<1>6. Typed'
  BY <1>2, <1>3, <1>4, <1>5, NoRunType DEF IndexerInv, Typed
<1>7. Sounds'
  BY <1>3, RestSound DEF Sounds, NoLoop
<1>8. NoneMissing' /\ CursorFinal'
  BY <1>2, StoreStays DEF Kept
<1> QED
  BY <1>1, <1>6, <1>7, <1>8 DEF IndexerInv

-----------------------------------------------------------------------------
(* The operator *)

\* A cursor that is given vouches for nothing below it, and for no less than
\* before when a loop may still move it.
LEMMA GivenEffect ==
    ASSUME IndexerInv, NEW c \in Contracts, NEW b \in Cursors, Given(c, b)
    PROVE  /\ b \in 0 .. Top + 1
           /\ since' \in [Contracts -> 0 .. Top + 1]
           /\ since'[c] >= b
           /\ \A d \in Contracts : d # c => since'[d] = since[d]
           /\ \A q \in Pairs : AtWork(q) => since'[q[1]] >= since[q[1]]
<1> DEFINE s == IF AtRest(c) \/ b > since[c] THEN b ELSE since[c]
<1>1. b \in 0 .. Top + 1 /\ since[c] \in 0 .. Top + 1 /\ Top \in Nat
  BY ConstantTypes DEF IndexerInv, Typed
<1>2. s \in 0 .. Top + 1 /\ s >= b /\ (~AtRest(c) => s >= since[c])
  BY <1>1
<1>3. since' = [since EXCEPT ![c] = s]
  BY DEF Given
<1> HIDE DEF s
<1>4. /\ since' \in [Contracts -> 0 .. Top + 1] /\ since'[c] = s
      /\ \A d \in Contracts : d # c => since'[d] = since[d]
  BY <1>2, <1>3 DEF IndexerInv, Typed
<1>5. ASSUME NEW q \in Pairs, AtWork(q) PROVE since'[q[1]] >= since[q[1]]
  <2>1. q[1] \in Contracts /\ q[2] \in Loops /\ q = <<q[1], q[2]>>
    BY DEF Pairs
  <2>2. CASE q[1] = c
    <3>1. ~AtRest(c)
      BY <1>5, <2>1, <2>2 DEF AtRest, AtWork
    <3> QED
      BY <1>2, <1>4, <2>2, <3>1
  <2>3. CASE q[1] # c
    BY <1>4, <2>1, <2>3, ConstantTypes DEF IndexerInv, Typed
  <2> QED
    BY <2>2, <2>3
<1> QED
  BY <1>1, <1>2, <1>4, <1>5

\* What an edit amounts to: the row leaves its cursor, or gives it one.
Becomes(c, r) ==
    /\ rows' = [rows EXCEPT ![c] = r]
    /\ \/ r.syncBlockNumber = rows[c].syncBlockNumber /\ UNCHANGED since
       \/ \E b \in Cursors : r.syncBlockNumber = b /\ Given(c, b)

LEMMA EditEffect ==
    ASSUME IndexerInv, NEW c \in Contracts, Edit(c)
    PROVE  /\ UNCHANGED <<feedVars, run, loop, table>>
           /\ spent' \in [failures : 0 .. MaxFailures, edits : 0 .. MaxEdits,
                          reboots : 0 .. MaxReboots]
           /\ \E r \in Row : Becomes(c, r)
<1>1. UNCHANGED <<feedVars, run, loop, table>> /\ (Update(c) \/ Delete(c) \/ Create(c))
  BY DEF Edit
<1>2. /\ spent' \in [failures : 0 .. MaxFailures, edits : 0 .. MaxEdits, reboots : 0 .. MaxReboots]
      /\ spent.edits + 1 \in 0 .. MaxEdits
  <2>1. /\ spent \in [failures : 0 .. MaxFailures, edits : 0 .. MaxEdits, reboots : 0 .. MaxReboots]
        /\ spent.edits < MaxEdits /\ MaxEdits \in Nat
        /\ spent' = [spent EXCEPT !.edits = spent.edits + 1]
    BY ConstantTypes DEF Edit, IndexerInv, Typed
  <2>2. spent.edits + 1 \in 0 .. MaxEdits
    BY <2>1
  <2> QED
    BY <2>1, <2>2
<1>3. rows[c] \in Row /\ rows \in [Contracts -> Row] /\ since \in [Contracts -> 0 .. Top + 1]
  BY DEF IndexerInv, Typed
<1>4. \E r \in Row : Becomes(c, r)
  <2>1. CASE Delete(c)
    <3> DEFINE r == [rows[c] EXCEPT !.exists = FALSE]
    <3>1. r \in Row /\ r.syncBlockNumber = rows[c].syncBlockNumber
      BY <1>3 DEF Row
    <3>2. rows' = [rows EXCEPT ![c] = r] /\ UNCHANGED since
      BY <1>3, <2>1 DEF Delete
    <3> QED
      BY <3>1, <3>2 DEF Becomes
  <2>2. CASE Update(c) /\ rows' = [rows EXCEPT ![c].disable = ~@] /\ UNCHANGED since
    <3> DEFINE r == [rows[c] EXCEPT !.disable = ~rows[c].disable]
    <3>1. r \in Row /\ r.syncBlockNumber = rows[c].syncBlockNumber
      BY <1>3 DEF Row
    <3>2. rows' = [rows EXCEPT ![c] = r] /\ UNCHANGED since
      BY <1>3, <2>2
    <3> QED
      BY <3>1, <3>2 DEF Becomes
  <2>3. ASSUME NEW b \in Cursors, rows' = [rows EXCEPT ![c].syncBlockNumber = b], Given(c, b)
        PROVE  \E r \in Row : Becomes(c, r)
    <3> DEFINE r == [rows[c] EXCEPT !.syncBlockNumber = b]
    <3>1. r \in Row /\ r.syncBlockNumber = b
      BY <1>3, ConstantTypes DEF Row
    <3>2. rows' = [rows EXCEPT ![c] = r]
      BY <1>3, <2>3
    <3> QED
      BY <2>3, <3>1, <3>2 DEF Becomes
  <2>4. ASSUME NEW b \in Cursors, Given(c, b),
               rows' = [rows EXCEPT ![c] = NewRow(spent.edits + 1, b)]
        PROVE  \E r \in Row : Becomes(c, r)
    <3> DEFINE r == NewRow(spent.edits + 1, b)
    <3>1. r \in Row /\ r.syncBlockNumber = b
      BY <1>2, ConstantTypes, NewRowType DEF NewRow
    <3> QED
      BY <2>4, <3>1 DEF Becomes
  <2>5. CASE Update(c)
    BY <2>2, <2>3, <2>5 DEF Update
  <2>6. CASE Create(c)
    BY <2>4, <2>6 DEF Create
  <2> QED
    BY <1>1, <2>1, <2>5, <2>6
<1> QED
  BY <1>1, <1>2, <1>4

LEMMA EditKeeps ==
    ASSUME IndexerInv, NEW c \in Contracts, Edit(c)
    PROVE  IndexerInv'
<1>1. UNCHANGED <<feedVars, run, loop, table>>
  BY EditEffect
<1>2. spent' \in [failures : 0 .. MaxFailures, edits : 0 .. MaxEdits, reboots : 0 .. MaxReboots]
  BY EditEffect
<1>3. rows[c] \in Row /\ rows \in [Contracts -> Row] /\ since \in [Contracts -> 0 .. Top + 1]
  BY DEF IndexerInv, Typed
<1>4. PICK r \in Row : Becomes(c, r)
  BY EditEffect
<1>5. /\ rows' \in [Contracts -> Row] /\ rows'[c] = r
      /\ \A d \in Contracts : d # c => rows'[d] = rows[d]
  BY <1>3, <1>4 DEF Becomes
<1>6. /\ since' \in [Contracts -> 0 .. Top + 1]
      /\ \A d \in Contracts : d # c => since'[d] = since[d]
      /\ \A q \in Pairs : AtWork(q) => since'[q[1]] >= since[q[1]]
      /\ \/ since'[c] = since[c] /\ r.syncBlockNumber = rows[c].syncBlockNumber
         \/ since'[c] >= r.syncBlockNumber
  <2>1. CASE r.syncBlockNumber = rows[c].syncBlockNumber /\ UNCHANGED since
    BY <1>3, <2>1, ConstantTypes DEF Pairs
  <2>2. CASE \E b \in Cursors : r.syncBlockNumber = b /\ Given(c, b)
    BY <2>2, GivenEffect
  <2> QED
    BY <1>4, <2>1, <2>2 DEF Becomes
<1>7. FeedInv' /\ head' = head /\ head \in Nat /\ (\A e \in Events : Kept(e) => Kept(e)')
  BY <1>1, FeedStays, HeadType, ConstantTypes DEF IndexerInv, feedVars, Kept
<1>8. Typed'
  BY <1>1, <1>2, <1>5, <1>6 DEF IndexerInv, Typed
<1>9. Sounds'
  BY <1>1, <1>6, <1>7, SoundStays DEF Sounds
<1>10. r.syncBlockNumber \in Nat /\ since'[c] \in Nat
  BY <1>4, <1>6, ConstantTypes DEF Row
<1>11. NoneMissing'
  <2> SUFFICES ASSUME NEW e \in Events,
                      BlockOf[e] \in since'[ContractOf[e]] .. rows'[ContractOf[e]].syncBlockNumber - 1
               PROVE  Kept(e)'
    BY DEF NoneMissing
  <2>1. CASE ContractOf[e] # c
    BY <1>5, <1>6, <1>7, <2>1, EventTypes DEF IndexerInv, NoneMissing
  <2>2. CASE ContractOf[e] = c
    <3>1. ~(since'[c] >= r.syncBlockNumber)
      BY <1>5, <1>10, <2>2, EventTypes
    <3> QED
      BY <1>5, <1>6, <1>7, <2>2, <3>1 DEF IndexerInv, NoneMissing
  <2> QED
    BY <2>1, <2>2
<1>12. CursorFinal'
  BY <1>5, <1>6, <1>7, <1>10 DEF IndexerInv, CursorFinal
<1> QED
  BY <1>7, <1>8, <1>9, <1>11, <1>12 DEF IndexerInv

-----------------------------------------------------------------------------
(* The invariant *)

LEMMA IndexerBegins ==
    ASSUME Init
    PROVE  IndexerInv
<1>1. FeedInv
  BY FeedBegins DEF Init
<1>2. Typed
  <2>1. NewRow(0, 0) \in Row
    BY ConstantTypes, NewRowType
  <2> QED
    BY <2>1, NoLoopType, NoRunType, ConstantTypes DEF Init, Typed, Pairs
<1>3. Sounds
  BY DEF Init, Sounds, Sound, Deep, Ranged, Below, Fetched, AtWork, NoLoop, Pairs
<1>4. \A c \in Contracts : rows[c].syncBlockNumber = 0 /\ since[c] = 0
  BY DEF Init, NewRow
<1>5. NoneMissing /\ CursorFinal
  BY <1>4, EventTypes DEF NoneMissing, CursorFinal
<1> QED
  BY <1>1, <1>2, <1>3, <1>5 DEF IndexerInv

LEMMA NextKeeps ==
    ASSUME IndexerInv, [Next]_vars
    PROVE  IndexerInv'
<1>1. ASSUME Begin PROVE IndexerInv'
  <2>1. {c \in Contracts : rows[c].exists /\ ~rows[c].disable} \subseteq Contracts
    OBVIOUS
  <2>2. run' \in [st : {"none", "numbering", "mapping"}, contracts : SUBSET Contracts,
                  loops : SUBSET Pairs]
    BY <1>1, <2>1 DEF Begin, NoRun
  <2> QED
    BY <1>1, <2>2, RunKeeps DEF Begin, IndexerInv, Typed
<1>2. ASSUME Done PROVE IndexerInv'
  BY <1>2, NoRunType, RunKeeps DEF Done, IndexerInv, Typed
<1>3. ASSUME FailRun PROVE IndexerInv'
  <2>1. /\ spent \in [failures : 0 .. MaxFailures, edits : 0 .. MaxEdits, reboots : 0 .. MaxReboots]
        /\ spent.failures < MaxFailures /\ MaxFailures \in Nat
        /\ spent' = [spent EXCEPT !.failures = spent.failures + 1]
    BY <1>3, ConstantTypes DEF FailRun, IndexerInv, Typed
  <2>2. spent.failures + 1 \in 0 .. MaxFailures
    BY <2>1
  <2>3. spent' \in [failures : 0 .. MaxFailures, edits : 0 .. MaxEdits, reboots : 0 .. MaxReboots]
    BY <2>1, <2>2
  <2> QED
    BY <1>3, <2>3, NoRunType, RunKeeps DEF FailRun
<1>4. ASSUME UNCHANGED vars PROVE IndexerInv'
  BY <1>4, RunKeeps DEF vars, IndexerInv, Typed
<1>5. ASSUME NumberTrue \/ NumberSpurious PROVE IndexerInv'
  BY <1>5, NumberedKeeps DEF NumberTrue, NumberSpurious
<1> QED
  BY <1>1, <1>2, <1>3, <1>4, <1>5, StepKeeps, ExtendKeeps, RebootKeeps, EditKeeps
     DEF Next, Pairs

LEMMA IndexerInductive == Spec => []IndexerInv
  BY IndexerBegins, NextKeeps, PTL DEF Spec

\* THEOREM: tables, loops, run and filter stay well typed; ranges never leave the
\* chain, nor cursors the block behind it.
THEOREM TypeCorrect == Spec => []TypeOK
<1>1. IndexerInv => TypeOK
  BY FeedTyping DEF IndexerInv, Typed, TypeOK, Pairs
<1> QED
  BY <1>1, IndexerInductive, PTL

\* An event is under its own primary key.
Filed == \A k \in Keys : table[k] # NoEvent => KeyOf[table[k]] = k

LEMMA FiledKeeps ==
    ASSUME IndexerInv, Filed, [Next]_vars
    PROVE  Filed'
<1>1. ASSUME NEW p \in Pairs, SaveEvent(p) PROVE Filed'
  <2>1. PICK e \in loop[p].todo : table' = [table EXCEPT ![KeyOf[e]] = e]
    BY <1>1 DEF SaveEvent
  <2>2. \A k \in Keys : table'[k] = IF k = KeyOf[e] THEN e ELSE table[k]
    BY <2>1 DEF IndexerInv, Typed
  <2> QED
    BY <2>2 DEF Filed
<1>2. ASSUME UNCHANGED table PROVE Filed'
  BY <1>2 DEF Filed
<1>3. ASSUME NEW p \in Pairs, Step(p) \/ FailLoop(p), ~SaveEvent(p) PROVE UNCHANGED table
  BY <1>3 DEF Step, Look, Fetch, Open, SaveRefused, Commit, CommitRefused, FailLoop
<1>4. ASSUME NEW c \in Contracts, Edit(c) PROVE UNCHANGED table
  BY <1>4 DEF Edit
<1>5. ASSUME Begin \/ NumberTrue \/ NumberSpurious \/ Done \/ FailRun \/ Extend \/ Reboot
      PROVE  UNCHANGED table
  BY <1>5 DEF Begin, NumberTrue, NumberSpurious, Numbered, Done, FailRun, Extend, Reboot
<1>6. CASE UNCHANGED vars
  BY <1>2, <1>6 DEF vars
<1> QED
  BY <1>1, <1>2, <1>3, <1>4, <1>5, <1>6 DEF Next, Pairs

\* What is kept under the key of an event is the event, or one that overwrote it.
LEMMA KeptOrOverwritten ==
    ASSUME IndexerInv, Filed, NEW e \in Events, Kept(e)
    PROVE  Stored(e) \/ Overwritten(e)
<1>1. KeyOf[e] \in Keys /\ table[KeyOf[e]] \in Events \cup {NoEvent}
  BY EventTypes DEF IndexerInv, Typed
<1> DEFINE f == table[KeyOf[e]]
<1>2. f \in Events /\ KeyOf[f] = KeyOf[e]
  BY <1>1 DEF Kept, Filed
<1> QED
  BY <1>2 DEF Stored, Overwritten

\* THEOREM: from the block on that a cursor vouches for, no event below it is
\* missing, but for those that another event of the same primary key has
\* overwritten (processContract, saveEvents).  A cursor vouches from where the
\* operator last made it start, except when it was to go back under a loop at work:
\* the loop may overwrite it then, and it vouches from no earlier block than before.
\* With any number of loops on a contract, whatever fails and restarts.
THEOREM NothingLost == Spec => []NothingSkipped
<1>1. Init => Filed
  BY DEF Init, Filed
<1>2. IndexerInv /\ Filed /\ [Next]_vars => Filed'
  BY FiledKeeps
<1>3. IndexerInv /\ Filed => NothingSkipped
  BY KeptOrOverwritten DEF IndexerInv, NoneMissing, NothingSkipped
<1> QED
  BY <1>1, <1>2, <1>3, IndexerInductive, PTL DEF Spec

\* THEOREM: a cursor that the indexer has moved vouches for no block that the chain
\* may still replace (fillRawData: the offset, and the filter of block numbers).
THEOREM Final == Spec => []CursorFinal
<1>1. IndexerInv => CursorFinal
  BY DEF IndexerInv
<1> QED
  BY <1>1, IndexerInductive, PTL

-----------------------------------------------------------------------------
(* Runs do not overlap while nothing fails *)

Untroubled == spent.failures = 0 /\ spent.edits = 0

\* Every row is the one it was at first.
Original == \A c \in Contracts : rows[c].exists /\ rows[c].id = 0

\* Loops are at work for the run only, one on each contract.
OfRun == \A p \in Pairs : loop[p].st # "none" => run.st = "mapping" /\ p \in run.loops
OneEach == \A p, q \in run.loops : p[1] = q[1] => p = q

\* The cursor is still where the loop found it, and its row as well.
Unmoved ==
    \A p \in Pairs :
        /\ AtWork(p) => loop[p].from = rows[p[1]].syncBlockNumber
        /\ loop[p].st = "saving" => loop[p].contract.exists /\ loop[p].contract.id = 0
        /\ loop[p].st # "leaving"

Alone == Original /\ OfRun /\ OneEach /\ Unmoved
AloneInv == Untroubled => Alone

\* What fails or is edited is never taken back, so that nothing has failed in this
\* step either.
LEMMA NoTrouble ==
    ASSUME Typed, [Next]_vars, Untroubled'
    PROVE  /\ Untroubled
           /\ \/ Begin \/ NumberTrue \/ NumberSpurious \/ Done \/ Extend \/ Reboot
              \/ UNCHANGED vars
              \/ \E p \in Pairs : Step(p)
<1>1. /\ spent \in [failures : 0 .. MaxFailures, edits : 0 .. MaxEdits, reboots : 0 .. MaxReboots]
      /\ {MaxFailures, MaxEdits, MaxReboots} \subseteq Nat
  BY ConstantTypes DEF Typed
<1>2. spent.failures \in Nat /\ spent.edits \in Nat
  BY <1>1
<1>3. ~FailRun
  BY <1>1, <1>2 DEF FailRun, Untroubled
<1>4. ASSUME NEW p \in Pairs PROVE ~FailLoop(p)
  BY <1>1, <1>2 DEF FailLoop, Untroubled
<1>5. ASSUME NEW c \in Contracts PROVE ~Edit(c)
  BY <1>1, <1>2 DEF Edit, Untroubled
<1>6. \/ Begin \/ NumberTrue \/ NumberSpurious \/ Done \/ Extend \/ Reboot
      \/ UNCHANGED vars
      \/ \E p \in Pairs : Step(p)
  BY <1>3, <1>4, <1>5 DEF Next, Pairs
<1>7. ASSUME NEW p \in Pairs, Step(p) PROVE UNCHANGED spent
  BY <1>7 DEF Step, Look, Fetch, Open, SaveEvent, SaveRefused, Commit, CommitRefused
<1>8. CASE Reboot
  BY <1>1, <1>6, <1>8 DEF Reboot, Untroubled
<1>9. CASE ~Reboot
  <2>1. UNCHANGED spent
    BY <1>6, <1>7, <1>9 DEF Begin, NumberTrue, NumberSpurious, Numbered, Done, Extend, vars
  <2> QED
    BY <1>6, <2>1 DEF Untroubled
<1> QED
  BY <1>8, <1>9

\* A loop that has just begun or is over, or a range that has just been opened.
LEMMA AloneBegins == Init => Alone
<1> SUFFICES ASSUME Init PROVE Alone
  OBVIOUS
<1>1. \A p \in Pairs : loop[p] = NoLoop /\ loop[p].st = "none"
  BY DEF Init, Pairs, NoLoop
<1>2. \A c \in Contracts : rows[c] = [exists |-> TRUE, id |-> 0, disable |-> FALSE, syncBlockNumber |-> 0]
  BY DEF Init, NewRow
<1>3. run.loops = {}
  BY DEF Init, NoRun
<1> QED
  BY <1>1, <1>2, <1>3 DEF Alone, Original, OfRun, OneEach, Unmoved, AtWork

\* With no loop at work, a step that leaves the rows and the loops alone keeps it.
LEMMA AloneRun ==
    ASSUME Alone, UNCHANGED <<loop, rows>>,
           \A p \in Pairs : loop[p].st # "none" => run'.st = "mapping" /\ p \in run'.loops,
           run'.loops = {} \/ run'.loops = run.loops
    PROVE  Alone'
  BY DEF Alone, Original, OfRun, OneEach, Unmoved, AtWork

\* A step of one loop that leaves the run and the rows.
LEMMA AloneLoop ==
    ASSUME Typed, Alone, UNCHANGED <<run, rows>>,
           NEW p \in Pairs, NEW l,
           loop[p].st # "none",
           loop' = [loop EXCEPT ![p] = l],
           l.st \in {"fetching", "opening", "saving"} => l.from = rows[p[1]].syncBlockNumber,
           l.st = "saving" => l.contract.exists /\ l.contract.id = 0,
           l.st # "leaving"
    PROVE  Alone'
<1>1. loop'[p] = l /\ \A q \in Pairs : q # p => loop'[q] = loop[q]
  BY DEF Typed
<1>2. Original' /\ OneEach'
  BY DEF Alone, Original, OneEach
<1>3. OfRun'
  BY <1>1 DEF Alone, OfRun
<1>4. Unmoved'
  BY <1>1 DEF Alone, Unmoved, AtWork
<1> QED
  BY <1>2, <1>3, <1>4 DEF Alone

\* Step by step of a loop: none throws, since every row is the one it read, and the
\* cursor is only moved by the one loop that is at work on its contract.
LEMMA AloneStep ==
    ASSUME IndexerInv, Alone, NEW p \in Pairs, Step(p)
    PROVE  /\ Alone'
           /\ \A c \in Contracts : rows'[c].syncBlockNumber >= rows[c].syncBlockNumber
<1> DEFINE l == loop[p]
           c == p[1]
<1>1. /\ c \in Contracts /\ l \in Loop /\ l.contract \in Row /\ l.current \in Nat
      /\ l.from \in Nat /\ l.to \in Nat
      /\ Typed /\ rows[c].exists /\ rows[c].id = 0
      /\ rows \in [Contracts -> Row]
  BY DEF Pairs, IndexerInv, Typed, Loop, Blocks, Alone, Original
<1>2. \A d \in Contracts : rows[d].syncBlockNumber \in Nat
  BY ConstantTypes, <1>1 DEF Row
<1>3. ASSUME UNCHANGED rows PROVE \A d \in Contracts : rows'[d].syncBlockNumber >= rows[d].syncBlockNumber
  BY <1>2, <1>3
<1>4. l.st = "saving" => Current(p) /\ l.from = rows[c].syncBlockNumber /\ l.from <= l.to
  BY <1>1 DEF Alone, Unmoved, AtWork, Current, IndexerInv, Sounds, Sound, Ranged
<1>5. ~SaveRefused(p) /\ ~CommitRefused(p)
  BY <1>4 DEF SaveRefused, CommitRefused, Saving, Alone, Unmoved
<1>6. CASE Look(p)
  <2>1. CASE loop' = [loop EXCEPT ![p] = NoLoop]
    <3>1. NoLoop.st = "none"
      BY DEF NoLoop
    <3>2. UNCHANGED <<run, rows>> /\ loop[p].st # "none"
      BY <1>6 DEF Look
    <3> QED
      BY <1>1, <1>3, <2>1, <3>1, <3>2, AloneLoop
  <2>2. CASE \E to : loop' = [loop EXCEPT ![p] =
                 [l EXCEPT !.st = "fetching", !.from = rows[c].syncBlockNumber, !.to = to]]
    <3>1. PICK to : loop' = [loop EXCEPT ![p] =
                 [l EXCEPT !.st = "fetching", !.from = rows[c].syncBlockNumber, !.to = to]]
      BY <2>2
    <3> DEFINE m == [l EXCEPT !.st = "fetching", !.from = rows[c].syncBlockNumber, !.to = to]
    <3>2. m.st = "fetching" /\ m.from = rows[c].syncBlockNumber
      BY <1>1 DEF Loop
    <3>3. loop' = [loop EXCEPT ![p] = m] /\ loop[p].st # "none" /\ UNCHANGED <<run, rows>>
      BY <1>6, <3>1 DEF Look
    <3> HIDE DEF m
    <3> QED
      BY <1>1, <1>3, <3>2, <3>3, AloneLoop
  <2> QED
    BY <1>6, <2>1, <2>2 DEF Look
<1>7. CASE Fetch(p)
  <2>1. PICK es : loop' = [loop EXCEPT ![p] = [l EXCEPT !.st = "opening", !.todo = es]]
    BY <1>1, <1>7 DEF Fetch, IndexerInv, Typed
  <2> DEFINE m == [l EXCEPT !.st = "opening", !.todo = es]
  <2>2. m.st = "opening" /\ m.from = rows[c].syncBlockNumber
    BY <1>1, <1>7 DEF Loop, Fetch, Alone, Unmoved, AtWork
  <2>3. loop' = [loop EXCEPT ![p] = m] /\ loop[p].st # "none" /\ UNCHANGED <<run, rows>>
    BY <1>7, <2>1 DEF Fetch
  <2> HIDE DEF m
  <2> QED
    BY <1>1, <1>3, <2>2, <2>3, AloneLoop
<1>8. CASE Open(p)
  <2> DEFINE m == [l EXCEPT !.st = "saving", !.contract = rows[c]]
  <2>1. m.st = "saving" /\ m.from = rows[c].syncBlockNumber /\ m.contract = rows[c]
    BY <1>1, <1>8 DEF Loop, Open, Alone, Unmoved, AtWork
  <2>2. loop' = [loop EXCEPT ![p] = m] /\ loop[p].st # "none" /\ UNCHANGED <<run, rows>>
    BY <1>1, <1>8 DEF Open
  <2> HIDE DEF m
  <2> QED
    BY <1>1, <1>3, <2>1, <2>2, AloneLoop
<1>9. CASE SaveEvent(p)
  <2>1. PICK e : loop' = [loop EXCEPT ![p] = [l EXCEPT !.todo = @ \ {e}]]
    BY <1>1, <1>9 DEF SaveEvent, Alone, Unmoved
  <2> DEFINE m == [l EXCEPT !.todo = @ \ {e}]
  <2>2. m.st = "saving" /\ m.from = l.from /\ m.contract = l.contract
    BY <1>1, <1>9 DEF Loop, SaveEvent, Saving, Alone, Unmoved
  <2>3. loop' = [loop EXCEPT ![p] = m] /\ loop[p].st = "saving" /\ UNCHANGED <<run, rows>>
    BY <1>9, <2>1 DEF SaveEvent, Saving, Alone, Unmoved
  <2>4. l.contract.exists /\ l.contract.id = 0
    BY <2>3 DEF Alone, Unmoved
  <2> HIDE DEF m
  <2> QED
    BY <1>1, <1>3, <1>4, <2>2, <2>3, <2>4, AloneLoop
<1>10. CASE Commit(p)
  <2> DEFINE row == Saved(l.contract, l.to)
  <2>1. /\ l.st = "saving" /\ UNCHANGED run
        /\ rows' = [rows EXCEPT ![c] = row]
        /\ loop' = [loop EXCEPT ![p] = Looking(l.current)]
    BY <1>10 DEF Commit
  <2>2. row.exists /\ row.id = 0 /\ row.syncBlockNumber = l.to + 1
    <3>1. l.contract.exists /\ l.contract.id = 0
      BY <2>1 DEF Alone, Unmoved
    <3> QED
      BY <1>1, <3>1 DEF Saved, Row
  <2> HIDE DEF row
  <2>3. rows'[c] = row /\ \A d \in Contracts : d # c => rows'[d] = rows[d]
    BY <1>1, <2>1
  <2>4. /\ loop'[p].st = "looking"
        /\ \A q \in Pairs : q # p => loop'[q] = loop[q]
    BY <1>1, <2>1, LookingType DEF Typed, Loop
  <2>5. Original'
    BY <2>2, <2>3 DEF Alone, Original
  <2>6. OfRun' /\ OneEach'
    BY <2>1, <2>4 DEF Alone, OfRun, OneEach
  <2>7. ASSUME NEW q \in Pairs, AtWork(q)' PROVE q # p /\ q[1] # c
    <3>1. q # p /\ loop[q].st # "none" /\ loop[p].st # "none"
      BY <2>1, <2>4, <2>7 DEF AtWork
    <3> QED
      BY <3>1 DEF Alone, OfRun, OneEach
  <2>8. Unmoved'
    <3> SUFFICES ASSUME NEW q \in Pairs, AtWork(q)'
                 PROVE  /\ loop'[q].from = rows'[q[1]].syncBlockNumber
                        /\ loop'[q].st = "saving" => loop'[q].contract.exists /\ loop'[q].contract.id = 0
      BY <2>1, <2>4 DEF Alone, Unmoved, AtWork
    <3>1. loop'[q] = loop[q] /\ AtWork(q)
      BY <2>4, <2>7 DEF AtWork
    <3>2. rows'[q[1]] = rows[q[1]]
      BY <2>3, <2>7 DEF Pairs
    <3> QED
      BY <3>1, <3>2 DEF Alone, Unmoved
  <2>9. \A d \in Contracts : rows'[d].syncBlockNumber >= rows[d].syncBlockNumber
    BY <1>1, <1>2, <1>4, <2>1, <2>2, <2>3
  <2> QED
    BY <2>5, <2>6, <2>8, <2>9 DEF Alone
<1> QED
  BY <1>5, <1>6, <1>7, <1>8, <1>9, <1>10 DEF Step

\* A run that has its number finds every loop free, and gives each contract one.
LEMMA AloneNumbered ==
    ASSUME Typed, Alone, run.st = "numbering", Numbered
    PROVE  Alone'
<1>1. \A p \in Pairs : loop[p].st = "none"
  BY DEF Alone, OfRun
<1>2. UNCHANGED rows
  BY DEF Numbered
<1>3. CASE run' = NoRun /\ UNCHANGED loop
  BY <1>1, <1>2, <1>3, AloneRun DEF NoRun
<1>4. CASE \E g \in [run.contracts -> Loops] :
             LET ps == {<<c, g[c]>> : c \in run.contracts}
             IN  /\ run' = [run EXCEPT !.st = "mapping", !.loops = ps]
                 /\ loop' = [p \in Pairs |->
                               IF p \in ps THEN Looking(CurrentBlock(last')) ELSE loop[p]]
  <2>1. PICK g \in [run.contracts -> Loops] :
             LET ps == {<<c, g[c]>> : c \in run.contracts}
             IN  /\ run' = [run EXCEPT !.st = "mapping", !.loops = ps]
                 /\ loop' = [p \in Pairs |->
                               IF p \in ps THEN Looking(CurrentBlock(last')) ELSE loop[p]]
    BY <1>4
  <2> DEFINE ps == {<<c, g[c]>> : c \in run.contracts}
  <2>2. run'.st = "mapping" /\ run'.loops = ps
    BY <2>1 DEF Typed
  <2>3. Looking(CurrentBlock(last')).st = "looking"
    BY DEF Looking, NoLoop
  <2>4. \A p \in Pairs : loop'[p].st = IF p \in ps THEN "looking" ELSE "none"
    BY <1>1, <2>1, <2>3
  <2>5. Original'
    BY <1>2 DEF Alone, Original
  <2>6. OfRun' /\ Unmoved'
    BY <2>2, <2>4 DEF OfRun, Unmoved, AtWork
  <2>7. OneEach'
    BY <2>2 DEF OneEach
  <2> QED
    BY <2>5, <2>6, <2>7 DEF Alone
<1> QED
  BY <1>3, <1>4 DEF Numbered, Pairs

LEMMA AloneKeeps ==
    ASSUME IndexerInv, AloneInv, [Next]_vars, Untroubled'
    PROVE  /\ Alone'
           /\ \A c \in Contracts : rows'[c].syncBlockNumber >= rows[c].syncBlockNumber
<1>1. /\ Alone /\ Typed
      /\ \/ Begin \/ NumberTrue \/ NumberSpurious \/ Done \/ Extend \/ Reboot
         \/ UNCHANGED vars
         \/ \E p \in Pairs : Step(p)
  BY NoTrouble DEF IndexerInv, AloneInv
<1>2. CASE \E p \in Pairs : Step(p)
  BY <1>1, <1>2, AloneStep
<1>3. ASSUME UNCHANGED rows
      PROVE  \A c \in Contracts : rows'[c].syncBlockNumber >= rows[c].syncBlockNumber
  BY <1>1, <1>3, ConstantTypes DEF Typed, Row
<1>4. CASE Begin
  <2>1. run.st = "none" /\ run'.loops = {} /\ UNCHANGED <<loop, rows>>
    BY <1>4 DEF Begin, NoRun
  <2>2. \A p \in Pairs : loop[p].st = "none"
    BY <1>1, <2>1 DEF Alone, OfRun
  <2> QED
    BY <1>1, <1>3, <2>1, <2>2, AloneRun
<1>5. CASE NumberTrue \/ NumberSpurious
  BY <1>1, <1>3, <1>5, AloneNumbered DEF NumberTrue, NumberSpurious, Numbered
<1>6. CASE Done
  <2>1. run'.loops = {} /\ UNCHANGED <<loop, rows>>
    BY <1>6 DEF Done, NoRun
  <2>2. \A p \in Pairs : loop[p].st = "none"
    BY <1>1, <1>6 DEF Done, Alone, OfRun
  <2> QED
    BY <1>1, <1>3, <2>1, <2>2, AloneRun
<1>7. CASE Extend \/ UNCHANGED vars
  BY <1>1, <1>3, <1>7, AloneRun DEF Extend, vars, Alone, OfRun
<1>8. CASE Reboot
  <2>1. /\ \A p \in Pairs : loop'[p].st = "none"
        /\ run'.loops = {} /\ UNCHANGED rows
    BY <1>8 DEF Reboot, NoLoop, NoRun, Pairs
  <2>2. Alone'
    BY <1>1, <2>1 DEF Alone, Original, OfRun, OneEach, Unmoved, AtWork
  <2> QED
    BY <1>3, <2>1, <2>2
<1> QED
  BY <1>1, <1>2, <1>4, <1>5, <1>6, <1>7, <1>8

\* THEOREM: while no call has failed and nobody has edited, a cursor only moves
\* forward: the run before is over when one begins (execute), so that one loop at
\* most moves a cursor, and a restart leaves none that would (processContract).
THEOREM Forward == Spec => CursorForward
<1>1. Init => AloneInv
  BY AloneBegins DEF AloneInv
<1>2. IndexerInv /\ AloneInv /\ [Next]_vars => AloneInv'
  BY AloneKeeps DEF AloneInv
<1>3. IndexerInv /\ AloneInv /\ [Next]_vars =>
        [spent'.failures = 0 /\ spent'.edits = 0 =>
           \A c \in Contracts : rows'[c].syncBlockNumber >= rows[c].syncBlockNumber]_vars
  BY AloneKeeps DEF Untroubled
<1> QED
  BY <1>1, <1>2, <1>3, IndexerInductive, PTL DEF Spec, CursorForward

-----------------------------------------------------------------------------
(* Whoever reads the tables sees an EventLog *)

Cursor == [c \in Contracts |-> rows[c].syncBlockNumber]
Entered == {k \in Keys : table[k] # NoEvent}

\* A commit is the one step of a loop that moves a cursor.
LEMMA CommitVouches ==
    ASSUME IndexerInv, IndexerInv', NEW p \in Pairs, Commit(p)
    PROVE  Log!Next
<1> DEFINE c == p[1]
<1>1. c \in Contracts /\ loop[p] \in Loop /\ loop[p].to \in 0 .. Top /\ loop[p].contract \in Row
  BY DEF Pairs, IndexerInv, Typed, Loop, Blocks
<1>2. PICK b \in 0 .. Top + 1 : b = loop[p].to + 1
  BY <1>1, ConstantTypes
<1>3. /\ UNCHANGED <<head, table, since>>
      /\ rows' = [rows EXCEPT ![c] = Saved(loop[p].contract, loop[p].to)]
  BY DEF Commit, feedVars
<1>4. Saved(loop[p].contract, loop[p].to).syncBlockNumber = b
  BY <1>1, <1>2 DEF Saved, Row
<1>5. rows'[c].syncBlockNumber = b /\ Cursor' = [Cursor EXCEPT ![c] = b]
  BY <1>1, <1>3, <1>4 DEF Cursor, IndexerInv, Typed
<1>6. Log!Complete(c, b)
  <2> SUFFICES ASSUME NEW e \in Events, ContractOf[e] = c, BlockOf[e] \in since[c] .. b - 1
               PROVE  KeyOf[e] \in Entered
    BY DEF Log!Complete, Entered
  <2>1. Kept(e)'
    BY <1>3, <1>5 DEF IndexerInv, NoneMissing
  <2> QED
    BY <1>3, <2>1, EventTypes DEF Kept, Entered
<1>7. b - 1 <= head - Depth
  <2>1. loop[p].current \in Nat /\ head \in Nat
    BY <1>1, HeadType, ConstantTypes DEF Loop, Blocks, IndexerInv
  <2>2. loop[p].current <= head - BlockNumberOffset /\ loop[p].to <= loop[p].current
    BY DEF IndexerInv, Sounds, Sound, Deep, Ranged, AtWork, Commit
  <2> QED
    BY <1>1, <1>2, <2>1, <2>2, ConstantTypes
<1>8. Log!Vouch(c, b)
  BY <1>3, <1>5, <1>6, <1>7 DEF Log!Vouch, Cursor
<1> QED
  BY <1>1, <1>8 DEF Log!Next

\* An event that is saved is entered, or was.
LEMMA SaveEnters ==
    ASSUME IndexerInv, NEW p \in Pairs, SaveEvent(p)
    PROVE  Log!Next
<1>1. PICK e \in loop[p].todo : table' = [table EXCEPT ![KeyOf[e]] = e]
  BY DEF SaveEvent
<1>2. e \in Events /\ KeyOf[e] \in Keys /\ e # NoEvent
  BY <1>1, EventTypes, ConstantTypes DEF IndexerInv, Typed, Loop
<1>3. Entered' = Entered \cup {KeyOf[e]}
  BY <1>1, <1>2 DEF Entered, IndexerInv, Typed
<1>4. UNCHANGED <<head, rows, since>>
  BY DEF SaveEvent, feedVars
<1> QED
  BY <1>2, <1>3, <1>4 DEF Log!Enter, Log!Next, Entered

LEMMA EditGives ==
    ASSUME IndexerInv, NEW c \in Contracts, Edit(c)
    PROVE  Log!Next \/ UNCHANGED Log!vars
<1>1. UNCHANGED <<head, table>> /\ \E r \in Row : Becomes(c, r)
  BY EditEffect DEF feedVars
<1>2. PICK r \in Row : Becomes(c, r)
  BY <1>1
<1>3. Cursor' = [Cursor EXCEPT ![c] = r.syncBlockNumber]
  BY <1>2 DEF Becomes, Cursor, IndexerInv, Typed
<1>4. CASE r.syncBlockNumber = rows[c].syncBlockNumber /\ UNCHANGED since
  <2>1. Cursor' = Cursor
    BY <1>3, <1>4 DEF Cursor
  <2> QED
    BY <1>1, <1>4, <2>1 DEF Log!vars, Cursor
<1>5. ASSUME NEW b \in Cursors, r.syncBlockNumber = b, Given(c, b)
      PROVE  Log!Next
  <2> DEFINE s == IF AtRest(c) \/ b > since[c] THEN b ELSE since[c]
  <2>1. since' = [since EXCEPT ![c] = s] /\ s \in {b, since[c]}
    BY <1>5 DEF Given
  <2>2. s >= b
    BY <1>5, GivenEffect, <2>1 DEF IndexerInv, Typed
  <2> HIDE DEF s
  <2>3. Log!Give(c, b)
    BY <1>1, <1>3, <1>5, <2>1, <2>2 DEF Log!Give, Cursor
  <2> QED
    BY <2>3 DEF Log!Next
<1> QED
  BY <1>2, <1>4, <1>5 DEF Becomes

\* THEOREM: every step of the indexer is one of EventLog or is not to be seen in the
\* tables: entries stay (saveEvents), and a cursor moves only by the operator's hand
\* or to a block below which, as far as it vouches, all is entered and final, with any
\* number of loops on a contract and whatever fails, is edited or restarts.
THEOREM LogKept == Spec => ImplementsEventLog
<1>1. Init => Log!Init
  BY DEF Init, FeedInit, Log!Init, NewRow
<1>2. ASSUME IndexerInv, IndexerInv', [Next]_vars PROVE [Log!Next]_(Log!vars)
  <2>1. ASSUME NEW p \in Pairs, Look(p) \/ Fetch(p) \/ Open(p) \/ SaveRefused(p)
                                 \/ CommitRefused(p) \/ FailLoop(p)
        PROVE  UNCHANGED Log!vars
    <3>1. UNCHANGED <<feedVars, rows, table, since>>
      BY <2>1 DEF Look, Fetch, Open, SaveRefused, CommitRefused, FailLoop
    <3> QED
      BY <3>1 DEF Log!vars, feedVars
  <2>2. ASSUME NEW p \in Pairs, SaveEvent(p) \/ Commit(p) PROVE Log!Next
    BY <1>2, <2>2, SaveEnters, CommitVouches
  <2>3. ASSUME Begin \/ NumberTrue \/ NumberSpurious \/ Done \/ FailRun \/ Reboot
        PROVE  UNCHANGED Log!vars
    <3>1. UNCHANGED <<head, rows, table, since>>
      BY <2>3 DEF Begin, NumberTrue, NumberSpurious, Numbered, Answer, Err, Analyze, Done,
                  FailRun, Reboot, feedVars
    <3> QED
      BY <3>1 DEF Log!vars
  <2>4. ASSUME Extend PROVE Log!Next
    BY <2>4 DEF Extend, Grow, Log!Grow, Log!Next
  <2>5. ASSUME NEW c \in Contracts, Edit(c) PROVE [Log!Next]_(Log!vars)
    BY <1>2, <2>5, EditGives
  <2>6. CASE UNCHANGED vars
    BY <2>6 DEF vars, feedVars, Log!vars
  <2> QED
    BY <1>2, <2>1, <2>2, <2>3, <2>4, <2>5, <2>6 DEF Next, Step, Pairs
<1> QED
  BY <1>1, <1>2, IndexerInductive, PTL DEF Spec, ImplementsEventLog, Log!Spec
=============================================================================
