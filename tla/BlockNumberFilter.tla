------------------------- MODULE BlockNumberFilter -------------------------
(***************************************************************************)
(* common-service/core/BlockNumberFilter.ts and History.ts: what the       *)
(* indexer makes of the block numbers its provider answers.  A filter is   *)
(* the last FilterSize numbers it took in and its status.                  *)
(***************************************************************************)
EXTENDS Integers, Sequences

CONSTANTS
    FilterSize,
    ValueMaxDiff,
    NaN            \* parseInt of an answer that is no number

ASSUME FilterAssumption ==
    /\ FilterSize \in Nat \ {0}
    /\ ValueMaxDiff \in Nat
    /\ NaN \notin Int

NewFilter == [history |-> <<>>, status |-> "preparing"]

Filters(Values) ==
    [history : UNION {[1 .. n -> Values] : n \in 0 .. FilterSize},
     status : {"preparing", "success", "error"}]

\* Deviation of Added: the history is not kept to its size.
AddedUnbounded(h, v) == Append(h, v)

\* History.add
Added(h, v) == Append(IF Len(h) = FilterSize THEN Tail(h) ELSE h, v)

\* Deviation of Refused: the last number counts in every status.
RefusedAlways(f, v) ==
    \/ v = NaN
    \/ /\ f.history # <<>>
       /\ LET last == f.history[Len(f.history)]
          IN  ~(last < v /\ v < last + ValueMaxDiff)

\* A number is not taken in: it is none, or it does not follow the last one of
\* a filter that has settled.  A number that is answered twice does not.
Refused(f, v) ==
    \/ v = NaN
    \/ /\ f.status = "success"
       /\ LET last == f.history[Len(f.history)]
          IN  ~(last < v /\ v < last + ValueMaxDiff)

\* Deviation of Steady: numbers only have to grow.
SteadyUpwards(h) ==
    /\ Len(h) = FilterSize
    /\ \A i \in 2 .. Len(h) : h[i - 1] <= h[i]

\* The history is full and grows by small steps.
Steady(h) ==
    /\ Len(h) = FilterSize
    /\ \A i \in 2 .. Len(h) : h[i] - h[i - 1] \in 0 .. ValueMaxDiff

\* analyze(v): the filter after it, whose status is the answer.
Analyzed(f, v) ==
    IF FilterSize = 1 THEN [f EXCEPT !.status = "success"]
    ELSE IF Refused(f, v) THEN [f EXCEPT !.status = "error"]
    ELSE LET h == Added(f.history, v)
         IN  [history |-> h, status |-> IF Steady(h) THEN "success" ELSE "preparing"]
=============================================================================
