---------------------------- MODULE FilteredHead ----------------------------
(***************************************************************************)
(* A BlockNumberFilter fed by IndexerWorkerBase.fillRawData, one answer of *)
(* provider.getBlockNumber() a run.  The provider is external: it answers  *)
(* from a node that may be up to Lag blocks behind the head or, for fewer  *)
(* than FilterSize answers in a row, a number that is far too large or is  *)
(* none (the answers JsonRpcProvider.getBlockNumber has, commented out, to *)
(* try the filter with).                                                   *)
(***************************************************************************)
EXTENDS BlockNumberFilter

CONSTANTS
    Top,      \* bound on the head of the chain
    Lag,
    Spurious  \* the numbers that are far too large

ASSUME FeedAssumption ==
    /\ Top \in Nat
    /\ Lag \in Nat
    /\ Spurious \subseteq Nat
    /\ \A v \in Spurious : v > Top + (FilterSize - 1) * ValueMaxDiff

VARIABLES
    head,    \* the last block of the chain
    filter,
    last,    \* the number analyzed last
    bogus    \* answers since the last one that a node gave

feedVars == <<head, filter, last, bogus>>

Values == 0 .. Top \cup Spurious

FeedTypeOK ==
    /\ head \in 0 .. Top
    /\ filter \in Filters(Values)
    /\ last \in Values \cup {NaN}
    /\ bogus \in 0 .. FilterSize - 1

FeedInit ==
    /\ head \in 0 .. Top
    /\ filter = NewFilter
    /\ last = NaN
    /\ bogus = 0

\* The chain grows, by any number of blocks between two answers.
Grow ==
    /\ head' \in head + 1 .. Top
    /\ UNCHANGED <<filter, last, bogus>>

Analyze(v) ==
    /\ filter' = Analyzed(filter, v)
    /\ last' = v
    /\ UNCHANGED head

\* A node answers.
Answer ==
    /\ \E v \in 0 .. Top : v \in head - Lag .. head /\ Analyze(v)
    /\ bogus' = 0

Err ==
    /\ bogus < FilterSize - 1
    /\ \E v \in Spurious \cup {NaN} : Analyze(v)
    /\ bogus' = bogus + 1

FeedNext == Grow \/ Answer \/ Err

\* The worker keeps being run, and the provider asked.
FeedSpec == FeedInit /\ [][FeedNext]_feedVars /\ WF_feedVars(Answer)

-----------------------------------------------------------------------------
(* Properties *)

\* A block number the indexer acts on is one the chain has reached: what is
\* too large is caught by the status or by the history, whatever the order of
\* the answers and however the chain stalls or leaps meanwhile.
AcceptedIsReal == filter.status = "success" => last \in 0 .. head

\* Once the provider's nodes answer truly and agree, the indexer gets to act
\* again and again, also when the head stalls or has leapt by more than
\* valueMaxDiff.  Numbers that go up and down would keep the filter preparing.
Recovers == <>[](bogus = 0 /\ last = head) => []<>(filter.status = "success")
=============================================================================
