-------------------------- MODULE EventStore_proofs --------------------------
(***************************************************************************)
(* No event hangs on a placeholder or on a missing row, for any savers,    *)
(* events, failures and deletions.  The invariant follows a saver: past    *)
(* the block, its block is stored for good; past the transaction, the row  *)
(* of the transaction is no placeholder, although it may be gone.          *)
(***************************************************************************)
EXTENDS EventStore, Sequences, TLAPS

Typed ==
    /\ rows \in [Rows -> {"none", "genesis", "stored"}]
    /\ savers \in [Savers -> [stage : Stages, step : Steps, found : BOOLEAN]]

\* Only transactions have placeholders.
NoOtherPlaceholder ==
    \A t \in Transactions :
        /\ rows[BlockRow(t)] # "genesis"
        /\ \A topic \in Topics : rows[EventRow(t, topic)] # "genesis"

TransactionLinked ==
    \A t \in Transactions : rows[TransactionRow(t)] = "stored" => rows[BlockRow(t)] = "stored"

EventLinked ==
    \A t \in Transactions, topic \in Topics :
        rows[EventRow(t, topic)] = "stored" => rows[TransactionRow(t)] = "stored"

PastBlock ==
    \A s \in Savers :
        \/ savers[s].stage # "block"
        \/ savers[s].step = "writing" /\ savers[s].found
        => rows[BlockRow(TransactionOf(s))] = "stored"

PastTransaction ==
    \A s \in Savers :
        savers[s].stage = "event" => rows[TransactionRow(TransactionOf(s))] # "genesis"

IInv ==
    /\ Typed
    /\ NoOtherPlaceholder
    /\ TransactionLinked
    /\ EventLinked
    /\ PastBlock
    /\ PastTransaction

-----------------------------------------------------------------------------

\* The rows of different tables, and of different keys, are different.
LEMMA RowsApart ==
    ASSUME NEW t \in Transactions, NEW u \in Transactions,
           NEW x \in Topics, NEW y \in Topics
    PROVE  /\ BlockRow(t) \in Rows /\ TransactionRow(t) \in Rows /\ EventRow(t, x) \in Rows
           /\ BlockRow(t) # TransactionRow(u)
           /\ BlockRow(t) # EventRow(u, y)
           /\ TransactionRow(t) # EventRow(u, y)
           /\ TransactionRow(t) = TransactionRow(u) => t = u
           /\ EventRow(t, x) = EventRow(u, y) => t = u /\ x = y
<1>1. BlockRow(t) \in Rows /\ TransactionRow(t) \in Rows /\ EventRow(t, x) \in Rows
  BY DEF Rows, EventRows
<1>2. BlockRow(t) # TransactionRow(u)
  BY DEF BlockRow, TransactionRow
<1>3. BlockRow(t) # EventRow(u, y) /\ TransactionRow(t) # EventRow(u, y)
  BY DEF BlockRow, TransactionRow, EventRow
<1>4. TransactionRow(t) = TransactionRow(u) => t = u
  BY DEF TransactionRow
<1>5. EventRow(t, x) = EventRow(u, y) => t = u /\ x = y
  BY DEF EventRow
<1> QED
  BY <1>1, <1>2, <1>3, <1>4, <1>5

\* What a saver asks for is one of the events.
LEMMA Asked ==
    ASSUME NEW s \in Savers
    PROVE  TransactionOf(s) \in Transactions /\ EventOf[s].topic0 \in Topics
BY StoreAssumption DEF TransactionOf, Transactions, Topics

\* A step of a saver that leaves the rows alone keeps the invariant, if the
\* saver is in a place that the rows allow.
LEMMA RowsKept ==
    ASSUME IInv, NEW s \in Savers, rows' = rows,
           NEW new \in [stage : Stages, step : Steps, found : BOOLEAN],
           savers' = [savers EXCEPT ![s] = new],
           \/ new.stage # "block"
           \/ new.step = "writing" /\ new.found
           => rows[BlockRow(TransactionOf(s))] = "stored",
           new.stage = "event" => rows[TransactionRow(TransactionOf(s))] # "genesis"
    PROVE  IInv'
<1>1. Typed'
  BY DEF IInv, Typed
<1>2. NoOtherPlaceholder' /\ TransactionLinked' /\ EventLinked'
  BY DEF IInv, NoOtherPlaceholder, TransactionLinked, EventLinked
<1>3. \A q \in Savers : savers'[q] = IF q = s THEN new ELSE savers[q]
  BY DEF IInv, Typed
<1>4. PastBlock'
  BY <1>3 DEF IInv, PastBlock, TransactionOf
<1>5. PastTransaction'
  BY <1>3 DEF IInv, PastTransaction, TransactionOf
<1> QED
  BY <1>1, <1>2, <1>4, <1>5 DEF IInv


\* The saver's row after a write, when the write goes through.
Written(s, value) ==
    /\ rows' = [rows EXCEPT ![RowOf(s)] = value]
    /\ value \in {rows[RowOf(s)], "stored"}
    /\ value # "genesis"

\* After the saver has moved on, only its stage matters.
Moved(s) ==
    \E new \in [stage : Stages \ {"block"}, step : Steps, found : {FALSE}] :
        /\ savers' = [savers EXCEPT ![s] = new]
        /\ new.stage = "event" => savers[s].stage # "block"

LEMMA MovedStages ==
    ASSUME Typed, NEW s \in Savers, Moved(s), NEW q \in Savers
    PROVE  /\ savers' \in [Savers -> [stage : Stages, step : Steps, found : BOOLEAN]]
           /\ q # s => savers'[q] = savers[q]
           /\ savers'[s].stage # "block" /\ savers'[s].found = FALSE
           /\ savers'[s].stage = "event" => savers[s].stage # "block"
<1>1. PICK new \in [stage : Stages \ {"block"}, step : Steps, found : {FALSE}] :
        /\ savers' = [savers EXCEPT ![s] = new]
        /\ new.stage = "event" => savers[s].stage # "block"
  BY DEF Moved
<1>2. new \in [stage : Stages, step : Steps, found : BOOLEAN]
  OBVIOUS
<1>3. savers'[q] = IF q = s THEN new ELSE savers[q]
  BY <1>1 DEF Typed
<1>4. savers'[s] = new
  BY <1>1 DEF Typed
<1> QED
  BY <1>1, <1>2, <1>3, <1>4 DEF Typed

\* The block of the saver is stored.
LEMMA BlockWritten ==
    ASSUME IInv, NEW s \in Savers, savers[s].stage = "block", Moved(s),
           Written(s, "stored")
    PROVE  IInv'
<1> DEFINE b == BlockRow(TransactionOf(s))
<1>1. TransactionOf(s) \in Transactions /\ b \in Rows
  BY Asked, RowsApart DEF Rows
<1>2. RowOf(s) = b
  BY DEF RowOf
<1>3. \A r \in Rows : rows'[r] = IF r = b THEN "stored" ELSE rows[r]
  BY <1>1, <1>2 DEF Written, IInv, Typed
<1>4. Typed'
  BY <1>1, <1>2, MovedStages DEF Written, IInv, Typed
<1>5. \A t \in Transactions : /\ BlockRow(t) \in Rows /\ TransactionRow(t) \in Rows
                              /\ TransactionRow(t) # b
  BY <1>1 DEF Rows, BlockRow, TransactionRow
<1>6. \A t \in Transactions, x \in Topics : EventRow(t, x) \in Rows /\ EventRow(t, x) # b
  BY <1>1, RowsApart
<1>7. \A t \in Transactions : rows'[TransactionRow(t)] = rows[TransactionRow(t)]
  BY <1>3, <1>5
<1>8. \A t \in Transactions, x \in Topics : rows'[EventRow(t, x)] = rows[EventRow(t, x)]
  BY <1>3, <1>6
<1>9. \A t \in Transactions : rows'[BlockRow(t)] \in {rows[BlockRow(t)], "stored"}
  BY <1>3, <1>5
<1>10. NoOtherPlaceholder'
  BY <1>8, <1>9 DEF IInv, NoOtherPlaceholder
<1>11. TransactionLinked' /\ EventLinked'
  BY <1>7, <1>8, <1>9 DEF IInv, TransactionLinked, EventLinked
<1>12. PastBlock'
  <2>1. SUFFICES ASSUME NEW q \in Savers, 
                        \/ savers'[q].stage # "block"
                        \/ savers'[q].step = "writing" /\ savers'[q].found
                 PROVE  rows'[BlockRow(TransactionOf(q))] = "stored"
    BY DEF PastBlock, TransactionOf
  <2>2. CASE q = s
    BY <2>2, <1>1, <1>3
  <2>3. CASE q # s
    <3>1. savers'[q] = savers[q]
      BY <2>3, MovedStages DEF IInv
    <3>2. rows[BlockRow(TransactionOf(q))] = "stored"
      BY <2>1, <3>1 DEF IInv, PastBlock
    <3> QED
      BY <3>2, <1>9, Asked
  <2> QED
    BY <2>2, <2>3
<1>13. PastTransaction'
  <2>1. SUFFICES ASSUME NEW q \in Savers, savers'[q].stage = "event"
                 PROVE  rows'[TransactionRow(TransactionOf(q))] # "genesis"
    BY DEF PastTransaction, TransactionOf
  <2>2. savers'[q] = savers[q]
    BY <2>1, MovedStages DEF IInv
  <2> QED
    BY <2>1, <2>2, <1>7, Asked DEF IInv, PastTransaction
<1> QED
  BY <1>4, <1>10, <1>11, <1>12, <1>13 DEF IInv

\* A saver that has its block, and moves on without touching a block row.
LEMMA BlockKept ==
    ASSUME IInv, NEW s \in Savers, savers[s].stage # "block", Moved(s),
           \A t \in Transactions : rows'[BlockRow(t)] = rows[BlockRow(t)]
    PROVE  PastBlock'
<1>1. SUFFICES ASSUME NEW q \in Savers,
                      \/ savers'[q].stage # "block"
                      \/ savers'[q].step = "writing" /\ savers'[q].found
               PROVE  rows'[BlockRow(TransactionOf(q))] = "stored"
  BY DEF PastBlock, TransactionOf
<1>2. savers[q].stage # "block" \/ savers'[q] = savers[q]
  BY MovedStages DEF IInv
<1>3. rows[BlockRow(TransactionOf(q))] = "stored"
  BY <1>1, <1>2 DEF IInv, PastBlock
<1> QED
  BY <1>3, Asked

\* The transaction of the saver is stored, or an update finds it gone.
LEMMA TransactionWritten ==
    ASSUME IInv, NEW s \in Savers, savers[s].stage = "transaction", Moved(s),
           NEW value, Written(s, value)
    PROVE  IInv'
<1> DEFINE t == TransactionOf(s)
           r == TransactionRow(t)
<1>1. t \in Transactions /\ r \in Rows
  BY Asked DEF Rows
<1>2. RowOf(s) = r
  BY DEF RowOf
<1>3. \A x \in Rows : rows'[x] = IF x = r THEN value ELSE rows[x]
  BY <1>1, <1>2 DEF Written, IInv, Typed
<1>4. value \in {"none", "stored"} /\ value \in {rows[r], "stored"}
  BY <1>1, <1>2 DEF Written, IInv, Typed
<1>5. Typed'
  BY <1>1, <1>2, <1>4, MovedStages DEF Written, IInv, Typed
<1>6. \A u \in Transactions : rows'[BlockRow(u)] = rows[BlockRow(u)]
  <2>1. TAKE u \in Transactions
  <2>2. BlockRow(u) \in Rows /\ BlockRow(u) # r
    BY <1>1 DEF Rows, BlockRow, TransactionRow
  <2> QED
    BY <1>3, <2>2
<1>7. \A u \in Transactions, x \in Topics : rows'[EventRow(u, x)] = rows[EventRow(u, x)]
  <2>1. TAKE u \in Transactions, x \in Topics
  <2>2. EventRow(u, x) \in Rows /\ EventRow(u, x) # r
    BY <1>1, RowsApart
  <2> QED
    BY <1>3, <2>2
<1>8. \A u \in Transactions : rows'[TransactionRow(u)] =
                                IF u = t THEN value ELSE rows[TransactionRow(u)]
  <2>1. TAKE u \in Transactions
  <2>2. TransactionRow(u) \in Rows /\ (TransactionRow(u) = r <=> u = t)
    BY <1>1 DEF Rows, TransactionRow
  <2> QED
    BY <1>3, <2>2
<1>9. NoOtherPlaceholder'
  BY <1>6, <1>7 DEF IInv, NoOtherPlaceholder
<1>10. rows[BlockRow(t)] = "stored"
  BY DEF IInv, PastBlock
<1>11. TransactionLinked'
  BY <1>6, <1>8, <1>10 DEF IInv, TransactionLinked
<1>12. EventLinked'
  BY <1>4, <1>7, <1>8 DEF IInv, EventLinked
<1>13. PastBlock'
  BY <1>6, BlockKept
<1>14. PastTransaction'
  <2>1. SUFFICES ASSUME NEW q \in Savers, savers'[q].stage = "event"
                 PROVE  rows'[TransactionRow(TransactionOf(q))] # "genesis"
    BY DEF PastTransaction, TransactionOf
  <2>2. TransactionOf(q) \in Transactions
    BY Asked
  <2>3. CASE TransactionOf(q) = t
    BY <2>2, <2>3, <1>4, <1>8
  <2>4. CASE TransactionOf(q) # t
    <3>1. savers'[q] = savers[q]
      BY <2>4, MovedStages DEF IInv
    <3> QED
      BY <2>1, <2>2, <2>4, <3>1, <1>8 DEF IInv, PastTransaction
  <2> QED
    BY <2>3, <2>4
<1> QED
  BY <1>5, <1>9, <1>11, <1>12, <1>13, <1>14 DEF IInv

\* The event of the saver is stored, over a transaction that is.
LEMMA EventWritten ==
    ASSUME IInv, NEW s \in Savers, savers[s].stage = "event", Moved(s),
           Written(s, "stored"), rows[TransactionRow(TransactionOf(s))] = "stored"
    PROVE  IInv'
<1> DEFINE t == TransactionOf(s)
           topic == EventOf[s].topic0
           r == EventRow(t, topic)
<1>1. t \in Transactions /\ topic \in Topics /\ r \in Rows
  BY Asked, RowsApart
<1>2. RowOf(s) = r
  BY DEF RowOf
<1>3. \A x \in Rows : rows'[x] = IF x = r THEN "stored" ELSE rows[x]
  BY <1>1, <1>2 DEF Written, IInv, Typed
<1>4. Typed'
  BY <1>1, <1>2, MovedStages DEF Written, IInv, Typed
<1>5. \A u \in Transactions : /\ rows'[BlockRow(u)] = rows[BlockRow(u)]
                              /\ rows'[TransactionRow(u)] = rows[TransactionRow(u)]
  <2>1. TAKE u \in Transactions
  <2>2. /\ BlockRow(u) \in Rows /\ BlockRow(u) # r
        /\ TransactionRow(u) \in Rows /\ TransactionRow(u) # r
    BY <1>1, RowsApart
  <2> QED
    BY <1>3, <2>2
<1>6. \A u \in Transactions, x \in Topics :
        rows'[EventRow(u, x)] = IF u = t /\ x = topic THEN "stored"
                                ELSE rows[EventRow(u, x)]
  <2>1. TAKE u \in Transactions, x \in Topics
  <2>2. EventRow(u, x) \in Rows /\ (EventRow(u, x) = r <=> u = t /\ x = topic)
    BY <1>1, RowsApart DEF EventRow
  <2> QED
    BY <1>3, <2>2
<1>7. NoOtherPlaceholder' /\ TransactionLinked' /\ EventLinked'
  BY <1>5, <1>6 DEF IInv, NoOtherPlaceholder, TransactionLinked, EventLinked
<1>8. PastBlock'
  BY <1>5, BlockKept
<1>9. PastTransaction'
  <2>1. SUFFICES ASSUME NEW q \in Savers, savers'[q].stage = "event"
                 PROVE  rows'[TransactionRow(TransactionOf(q))] # "genesis"
    BY DEF PastTransaction, TransactionOf
  <2>2. savers[q].stage = "event"
    BY <2>1, MovedStages DEF IInv
  <2> QED
    BY <2>2, <1>5, Asked DEF IInv, PastTransaction
<1> QED
  BY <1>4, <1>7, <1>8, <1>9 DEF IInv

-----------------------------------------------------------------------------

\* A saver that stays in its stage, and is not about to write.
LEMMA GoKept ==
    ASSUME IInv, NEW s \in Savers, NEW step \in Steps \ {"writing"}, Go(s, step),
           rows' = rows
    PROVE  IInv'
<1> DEFINE new == [savers[s] EXCEPT !.step = step]
<1>1. savers[s] \in [stage : Stages, step : Steps, found : BOOLEAN]
  BY DEF IInv, Typed
<1>2. /\ new \in [stage : Stages, step : Steps, found : BOOLEAN]
      /\ new.stage = savers[s].stage /\ new.step = step
  BY <1>1
<1>3. savers' = [savers EXCEPT ![s] = new]
  BY DEF Go
<1>4. new.stage # "block" => rows[BlockRow(TransactionOf(s))] = "stored"
  BY <1>2 DEF IInv, PastBlock
<1>5. new.stage = "event" => rows[TransactionRow(TransactionOf(s))] # "genesis"
  BY <1>2 DEF IInv, PastTransaction
<1> HIDE DEF new
<1> QED
  BY <1>2, <1>3, <1>4, <1>5, RowsKept

LEMMA AdvanceMoves ==
    ASSUME IInv, NEW s \in Savers, Advance(s)
    PROVE  Moved(s)
<1> DEFINE new == [stage |-> IF savers[s].stage = "block" THEN "transaction" ELSE "event",
                   step |-> IF savers[s].stage = "event" THEN "done" ELSE "ready",
                   found |-> FALSE]
<1>1. new \in [stage : Stages \ {"block"}, step : Steps, found : {FALSE}]
  BY DEF Stages, Steps
<1>2. savers' = [savers EXCEPT ![s] = new] /\ (new.stage = "event" => savers[s].stage # "block")
  BY DEF Advance
<1> QED
  BY <1>1, <1>2 DEF Moved

LEMMA FindKeeps ==
    ASSUME IInv, NEW s \in Savers, Find(s)
    PROVE  IInv'
<1>1. CASE Missing(s)
  <2>1. Go(s, "saving") /\ rows' = rows
    BY <1>1 DEF Find
  <2> QED
    BY <2>1, GoKept DEF Steps
<1>2. CASE ~Missing(s)
  <2>1. Advance(s) /\ rows' = rows
    BY <1>2 DEF Find
  <2>2. PICK new \in [stage : Stages \ {"block"}, step : Steps, found : {FALSE}] :
          /\ savers' = [savers EXCEPT ![s] = new]
          /\ new.stage = "event" => savers[s].stage # "block"
    BY <2>1, AdvanceMoves DEF Moved
  <2>3. savers[s].stage \in Stages
    BY DEF IInv, Typed
  <2>4. rows[BlockRow(TransactionOf(s))] = "stored"
    <3>1. CASE savers[s].stage = "block"
      <4>1. BlockRow(TransactionOf(s)) \in Rows
        BY Asked DEF Rows
      <4> QED
        BY <1>2, <3>1, <4>1 DEF Missing, RowOf, IInv, Typed
    <3>2. CASE savers[s].stage # "block"
      BY <3>2 DEF IInv, PastBlock
    <3> QED
      BY <3>1, <3>2
  <2>5. new.stage = "event" => rows[TransactionRow(TransactionOf(s))] # "genesis"
    <3>1. CASE savers[s].stage = "transaction"
      BY <1>2, <3>1 DEF Missing, RowOf
    <3>2. CASE savers[s].stage = "event"
      BY <3>2 DEF IInv, PastTransaction
    <3> QED
      BY <2>2, <2>3, <3>1, <3>2 DEF Stages
  <2>6. new \in [stage : Stages, step : Steps, found : BOOLEAN]
    OBVIOUS
  <2> QED
    BY <2>1, <2>2, <2>4, <2>5, <2>6, RowsKept
<1> QED
  BY <1>1, <1>2

LEMMA SelectKeeps ==
    ASSUME IInv, NEW s \in Savers, Select(s)
    PROVE  IInv'
<1> DEFINE new == [savers[s] EXCEPT !.step = "writing", !.found = rows[RowOf(s)] # "none"]
<1>1. savers[s] \in [stage : Stages, step : Steps, found : BOOLEAN]
  BY DEF IInv, Typed
<1>2. /\ new \in [stage : Stages, step : Steps, found : BOOLEAN]
      /\ new.stage = savers[s].stage /\ new.found = (rows[RowOf(s)] # "none")
  BY <1>1 DEF Steps
<1>3. savers' = [savers EXCEPT ![s] = new] /\ rows' = rows
  BY DEF Select
<1>4. new.stage # "block" \/ new.found => rows[BlockRow(TransactionOf(s))] = "stored"
  <2>1. CASE new.stage # "block"
    BY <1>2, <2>1 DEF IInv, PastBlock
  <2>2. CASE new.stage = "block" /\ new.found
    <3>1. BlockRow(TransactionOf(s)) \in Rows /\ TransactionOf(s) \in Transactions
      BY Asked DEF Rows
    <3>2. rows[BlockRow(TransactionOf(s))] # "none"
      BY <1>2, <2>2 DEF RowOf
    <3> QED
      BY <3>1, <3>2 DEF IInv, Typed, NoOtherPlaceholder
  <2> QED
    BY <2>1, <2>2
<1>5. new.stage = "event" => rows[TransactionRow(TransactionOf(s))] # "genesis"
  BY <1>2 DEF IInv, PastTransaction
<1> HIDE DEF new
<1> QED
  BY <1>2, <1>3, <1>4, <1>5, RowsKept

LEMMA WriteKeeps ==
    ASSUME IInv, NEW s \in Savers, Write(s)
    PROVE  IInv'
<1> DEFINE t == TransactionOf(s)
           topic == EventOf[s].topic0
<1>1. /\ t \in Transactions /\ topic \in Topics
      /\ BlockRow(t) \in Rows /\ TransactionRow(t) \in Rows /\ EventRow(t, topic) \in Rows
  BY Asked, RowsApart
<1>2. savers[s].stage \in Stages
  BY DEF IInv, Typed
<1>3. CASE Update(s)
  <2> DEFINE value == IF rows[RowOf(s)] = "none" THEN rows[RowOf(s)] ELSE "stored"
  <2>1. Written(s, value) /\ Moved(s)
    BY <1>3, AdvanceMoves DEF Update, Written
  <2>2. CASE savers[s].stage = "block"
    <3>1. rows[RowOf(s)] = "stored"
      BY <1>3, <2>2 DEF Write, At, Update, RowOf, IInv, PastBlock
    <3> QED
      BY <2>1, <2>2, <3>1, BlockWritten
  <2>3. CASE savers[s].stage = "transaction"
    BY <2>1, <2>3, TransactionWritten
  <2>4. CASE savers[s].stage = "event" /\ rows[EventRow(t, topic)] = "none"
    <3>1. rows' = rows
      BY <1>1, <1>3, <2>4 DEF Update, RowOf, IInv, Typed
    <3>2. PICK new \in [stage : Stages \ {"block"}, step : Steps, found : {FALSE}] :
            savers' = [savers EXCEPT ![s] = new]
      BY <2>1 DEF Moved
    <3>3. new \in [stage : Stages, step : Steps, found : BOOLEAN]
      OBVIOUS
    <3>4. rows[BlockRow(t)] = "stored" /\ rows[TransactionRow(t)] # "genesis"
      BY <2>4 DEF IInv, PastBlock, PastTransaction
    <3> QED
      BY <3>1, <3>2, <3>3, <3>4, RowsKept
  <2>5. CASE savers[s].stage = "event" /\ rows[EventRow(t, topic)] # "none"
    <3>1. rows[EventRow(t, topic)] = "stored"
      BY <1>1, <2>5 DEF IInv, Typed, NoOtherPlaceholder
    <3>2. rows[TransactionRow(t)] = "stored"
      BY <1>1, <3>1 DEF IInv, EventLinked
    <3>3. Written(s, "stored")
      BY <2>1, <2>5, <3>1 DEF RowOf
    <3> QED
      BY <2>1, <2>5, <3>2, <3>3, EventWritten
  <2> QED
    BY <1>2, <2>2, <2>3, <2>4, <2>5 DEF Stages
<1>4. CASE Insert(s) /\ rows[RowOf(s)] = "none" /\ ParentStored(s)
  <2>1. Written(s, "stored") /\ Moved(s)
    BY <1>4, AdvanceMoves DEF Insert, Written
  <2>2. CASE savers[s].stage = "block"
    BY <2>1, <2>2, BlockWritten
  <2>3. CASE savers[s].stage = "transaction"
    BY <2>1, <2>3, TransactionWritten
  <2>4. CASE savers[s].stage = "event"
    <3>1. rows[TransactionRow(t)] # "none" /\ rows[TransactionRow(t)] # "genesis"
      BY <1>4, <2>4 DEF ParentStored, IInv, PastTransaction
    <3>2. rows[TransactionRow(t)] = "stored"
      BY <1>1, <3>1 DEF IInv, Typed
    <3> QED
      BY <2>1, <2>4, <3>2, EventWritten
  <2> QED
    BY <1>2, <2>2, <2>3, <2>4 DEF Stages
<1>5. CASE Insert(s) /\ ~(rows[RowOf(s)] = "none" /\ ParentStored(s))
  <2>1. Go(s, "failed") /\ rows' = rows
    BY <1>5 DEF Insert, Abort
  <2> QED
    BY <2>1, GoKept DEF Steps
<1> QED
  BY <1>3, <1>4, <1>5 DEF Write

LEMMA DeleteKeeps ==
    ASSUME IInv, DeleteUnlinked
    PROVE  IInv'
<1> DEFINE Unlinked(t) == \A topic \in Topics : rows[EventRow(t, topic)] = "none"
<1>1. rows' = [r \in Rows |-> IF \E t \in Transactions : r = TransactionRow(t) /\ Unlinked(t)
                              THEN "none" ELSE rows[r]]
  BY DEF DeleteUnlinked
<1>2. savers' = savers
  BY DEF DeleteUnlinked
<1>3. Typed'
  BY <1>1, <1>2 DEF IInv, Typed
<1>4. \A t \in Transactions : rows'[BlockRow(t)] = rows[BlockRow(t)]
  <2>1. TAKE t \in Transactions
  <2>2. BlockRow(t) \in Rows /\ \A u \in Transactions : BlockRow(t) # TransactionRow(u)
    BY DEF Rows, BlockRow, TransactionRow
  <2> QED
    BY <1>1, <2>2
<1>5. \A t \in Transactions, x \in Topics : rows'[EventRow(t, x)] = rows[EventRow(t, x)]
  <2>1. TAKE t \in Transactions, x \in Topics
  <2>2. EventRow(t, x) \in Rows /\ \A u \in Transactions : EventRow(t, x) # TransactionRow(u)
    BY RowsApart
  <2> QED
    BY <1>1, <2>2
<1>6. \A t \in Transactions : rows'[TransactionRow(t)] =
                                IF Unlinked(t) THEN "none" ELSE rows[TransactionRow(t)]
  <2>1. TAKE t \in Transactions
  <2>2. TransactionRow(t) \in Rows
    BY DEF Rows
  <2>3. \A u \in Transactions : TransactionRow(t) = TransactionRow(u) => t = u
    BY DEF TransactionRow
  <2> QED
    BY <1>1, <2>2, <2>3
<1> HIDE DEF Unlinked
<1>7. NoOtherPlaceholder' /\ TransactionLinked'
  BY <1>4, <1>5, <1>6 DEF IInv, NoOtherPlaceholder, TransactionLinked
<1>8. EventLinked'
  BY <1>5, <1>6 DEF IInv, EventLinked, Unlinked
<1>9. PastBlock'
  BY <1>2, <1>4, Asked DEF IInv, PastBlock, TransactionOf
<1>10. PastTransaction'
  <2>1. SUFFICES ASSUME NEW q \in Savers, savers'[q].stage = "event"
                 PROVE  rows'[TransactionRow(TransactionOf(q))] # "genesis"
    BY DEF PastTransaction, TransactionOf
  <2> QED
    BY <2>1, <1>2, <1>6, Asked DEF IInv, PastTransaction
<1> QED
  BY <1>3, <1>7, <1>8, <1>9, <1>10 DEF IInv

LEMMA StartKeeps ==
    ASSUME IInv, NEW s \in Savers, Start(s)
    PROVE  IInv'
<1> DEFINE new == [stage |-> "block", step |-> "queued", found |-> FALSE]
<1>1. new \in [stage : Stages, step : Steps, found : BOOLEAN]
  BY DEF Stages, Steps
<1>2. savers' = [savers EXCEPT ![s] = new] /\ rows' = rows
  BY DEF Start
<1> QED
  BY <1>1, <1>2, RowsKept

LEMMA InitIInv == Init => IInv
<1> SUFFICES ASSUME Init PROVE IInv
  OBVIOUS
<1>1. Typed
  BY DEF Init, Typed, Stages, Steps
<1>2. \A t \in Transactions : rows[BlockRow(t)] = "none" /\ rows[TransactionRow(t)] # "stored"
  <2>1. TAKE t \in Transactions
  <2>2. BlockRow(t) \in Rows /\ TransactionRow(t) \in Rows
    BY DEF Rows
  <2>3. \A u \in Placeholders : BlockRow(t) # TransactionRow(u)
    BY DEF BlockRow, TransactionRow
  <2> QED
    BY <2>2, <2>3 DEF Init
<1>3. \A t \in Transactions, x \in Topics : rows[EventRow(t, x)] = "none"
  <2>1. TAKE t \in Transactions, x \in Topics
  <2>2. EventRow(t, x) \in Rows /\ \A u \in Placeholders : EventRow(t, x) # TransactionRow(u)
    BY StoreAssumption, RowsApart
  <2> QED
    BY <2>2 DEF Init
<1>4. \A s \in Savers : savers[s].stage = "block" /\ savers[s].step = "idle"
  BY DEF Init
<1> QED
  BY <1>1, <1>2, <1>3, <1>4
     DEF IInv, NoOtherPlaceholder, TransactionLinked, EventLinked, PastBlock, PastTransaction

LEMMA StepIInv == IInv /\ [Next]_vars => IInv'
<1> SUFFICES ASSUME IInv, [Next]_vars PROVE IInv'
  OBVIOUS
<1>1. ASSUME NEW s \in Savers, Start(s) PROVE IInv'
  BY <1>1, StartKeeps
<1>2. ASSUME NEW s \in Savers, Queue(s) PROVE IInv'
  BY <1>2, GoKept DEF Queue, Steps
<1>3. ASSUME NEW s \in Savers, Enter(s) PROVE IInv'
  <2>1. (IF savers[s].stage = "event" THEN "saving" ELSE "finding") \in Steps \ {"writing"}
    BY DEF Steps
  <2> QED
    BY <1>3, <2>1, GoKept DEF Enter
<1>4. ASSUME NEW s \in Savers, Find(s) PROVE IInv'
  BY <1>4, FindKeeps
<1>5. ASSUME NEW s \in Savers, FetchFails(s) PROVE IInv'
  BY <1>5, GoKept DEF FetchFails, Abort, Steps
<1>6. ASSUME NEW s \in Savers, Select(s) PROVE IInv'
  BY <1>6, SelectKeeps
<1>7. ASSUME NEW s \in Savers, Write(s) PROVE IInv'
  BY <1>7, WriteKeeps
<1>8. ASSUME DeleteUnlinked PROVE IInv'
  BY <1>8, DeleteKeeps
<1>9. CASE UNCHANGED vars
  BY <1>9 DEF vars, IInv, Typed, NoOtherPlaceholder, TransactionLinked, EventLinked,
              PastBlock, PastTransaction, TransactionOf
<1> QED
  BY <1>1, <1>2, <1>3, <1>4, <1>5, <1>6, <1>7, <1>8, <1>9 DEF Next, Step

LEMMA IInvLinked == IInv => Linked
BY DEF IInv, TransactionLinked, EventLinked, Linked

\* DataStorageBase.saveEvents: whatever fails, is deleted or overlaps, a stored
\* event has its transaction and its block, and neither is a placeholder.
THEOREM LinkedAlways == Spec => []Linked
<1>1. Spec => []IInv
  BY InitIInv, StepIInv, PTL DEF Spec
<1> QED
  BY <1>1, IInvLinked, PTL

-----------------------------------------------------------------------------
(* The locks: every saver may throw, and release twice.                     *)

LockIds == {LockId(j) : j \in Jobs}
LockType == [locked : BOOLEAN, queue : Seq(Jobs)]
QueueOf(o) == heap[o].queue
Active(j) == task[j].st # "idle"

\* A queue holds tasks that wait for its lock, each of them once.
Queued ==
    \A o \in Objects :
        /\ \A k \in 1 .. Len(QueueOf(o)) :
              task[QueueOf(o)[k]].st = "waiting" /\ task[QueueOf(o)[k]].lock = o
        /\ \A k, l \in 1 .. Len(QueueOf(o)) : QueueOf(o)[k] = QueueOf(o)[l] => k = l

\* The tasks of a lock have one id, also when the map has another lock by now.
OneId ==
    \A j, k \in Jobs : Active(j) /\ Active(k) /\ task[j].lock = task[k].lock =>
        LockId(j) = LockId(k)

MapId ==
    \A j \in Jobs, i \in LockIds : Active(j) /\ locks[i] = task[j].lock => LockId(j) = i

Held == \A j \in Jobs : IF Active(j) THEN task[j].lock \in Objects ELSE task[j].lock = NoObject

\* A lock that is in the map has a task that uses it.
Used ==
    \A i \in LockIds : locks[i] # NoObject =>
        \E j \in Jobs : Active(j) /\ LockId(j) = i /\ task[j].lock = locks[i]

LInv == Lock!TypeOK /\ Queued /\ OneId /\ MapId /\ Held /\ Used

LEMMA LockTypes ==
    ASSUME LInv
    PROVE  /\ locks \in [LockIds -> Objects \cup {NoObject}]
           /\ heap \in [Objects -> LockType]
           /\ task \in [Jobs -> [st : Lock!TaskStates, lock : Objects \cup {NoObject}]]
           /\ \A j \in Jobs : LockId(j) \in LockIds /\ [i \in Jobs |-> LockId(i)][j] = LockId(j)
           /\ NoObject \notin Objects
BY StoreAssumption DEF LInv, Lock!TypeOK, LockIds, LockType

\* The task in front of no queue takes a free lock, or goes behind the others.
LEMMA AcquiredFields ==
    ASSUME NEW l \in LockType, NEW j \in Jobs
    PROVE  /\ Lock!Acquired(l, j) \in LockType
           /\ Lock!Acquired(l, j).queue = IF l.locked THEN Append(l.queue, j) ELSE l.queue
<1>1. l.locked \in BOOLEAN /\ l.queue \in Seq(Jobs)
      /\ l = [locked |-> l.locked, queue |-> l.queue]
  BY DEF LockType
<1>2. Append(l.queue, j) \in Seq(Jobs)
  BY <1>1
<1> QED
  BY <1>1, <1>2 DEF Lock!Acquired, LockType

\* What one release() does: the head is off the queue, or there was none.
LEMMA ReleasedFields ==
    ASSUME NEW l \in LockType
    PROVE  /\ Lock!Released(l) \in LockType
           /\ l.queue = <<>> => /\ Lock!Released(l) = [locked |-> FALSE, queue |-> <<>>]
                                /\ Lock!Woken(l) = {}
                                /\ Lock!IsEmpty(Lock!Released(l))
           /\ l.queue # <<>> => /\ Lock!Released(l).queue = Tail(l.queue)
                                /\ Lock!Woken(l) = {l.queue[1]}
<1>1. l.locked \in BOOLEAN /\ l.queue \in Seq(Jobs)
      /\ l = [locked |-> l.locked, queue |-> l.queue]
  BY DEF LockType
<1>2. CASE l.queue = <<>>
  <2>1. Lock!Released(l) = [locked |-> FALSE, queue |-> <<>>]
    BY <1>1, <1>2 DEF Lock!Released
  <2>2. <<>> \in Seq(Jobs)
    OBVIOUS
  <2> QED
    BY <1>2, <2>1, <2>2 DEF Lock!Woken, Lock!IsEmpty, LockType
<1>3. CASE l.queue # <<>>
  <2>1. Tail(l.queue) \in Seq(Jobs) /\ Head(l.queue) = l.queue[1]
    BY <1>1, <1>3
  <2> QED
    BY <1>1, <1>3, <2>1 DEF Lock!Released, Lock!Woken, LockType
<1> QED
  BY <1>2, <1>3

\* The lock r is what is left of l when n tasks, woken, were taken off its queue;
\* none is only when the queue was empty.
Popped(l, r, woken, n) ==
    /\ r \in LockType
    /\ n \in 0 .. Len(l.queue)
    /\ Len(r.queue) = Len(l.queue) - n
    /\ \A k \in 1 .. Len(r.queue) : r.queue[k] = l.queue[k + n]
    /\ woken = {l.queue[k] : k \in 1 .. n}
    /\ n = 0 => Lock!IsEmpty(r)

LEMMA OneRelease ==
    ASSUME NEW l \in LockType
    PROVE  \E n \in 0 .. 1 : Popped(l, Lock!Released(l), Lock!Woken(l), n)
<1>1. l.queue \in Seq(Jobs) /\ Len(l.queue) \in Nat
  BY DEF LockType
<1>2. CASE l.queue = <<>>
  <2>1. Lock!Released(l).queue = <<>>
    BY <1>2, ReleasedFields
  <2>2. Popped(l, Lock!Released(l), Lock!Woken(l), 0)
    BY <1>1, <1>2, <2>1, ReleasedFields DEF Popped
  <2> QED
    BY <2>2
<1>3. CASE l.queue # <<>>
  <2>1. /\ Len(Tail(l.queue)) = Len(l.queue) - 1 /\ 1 \in 0 .. Len(l.queue)
        /\ \A k \in 1 .. Len(Tail(l.queue)) : Tail(l.queue)[k] = l.queue[k + 1]
    BY <1>1, <1>3
  <2>2. {l.queue[k] : k \in 1 .. 1} = {l.queue[1]}
    OBVIOUS
  <2>3. Popped(l, Lock!Released(l), Lock!Woken(l), 1)
    <3>1. Lock!Released(l).queue = Tail(l.queue) /\ Lock!Woken(l) = {l.queue[1]}
          /\ Lock!Released(l) \in LockType
      BY <1>3, ReleasedFields
    <3> QED
      BY <2>1, <2>2, <3>1 DEF Popped
  <2> QED
    BY <2>3
<1> QED
  BY <1>2, <1>3

LEMMA TwoReleases ==
    ASSUME NEW l \in LockType
    PROVE  \E n \in Nat :
             Popped(l, Lock!Released(Lock!Released(l)),
                    Lock!Woken(l) \cup Lock!Woken(Lock!Released(l)), n)
<1> DEFINE m == Lock!Released(l)
           r == Lock!Released(m)
           w == Lock!Woken(l)
           v == Lock!Woken(m)
<1>1. PICK a \in 0 .. 1 : Popped(l, m, w, a)
  BY OneRelease
<1>2. m \in LockType
  BY <1>1 DEF Popped
<1>3. PICK b \in 0 .. 1 : Popped(m, r, v, b)
  BY <1>2, OneRelease
<1> HIDE DEF m, r, w, v
<1>4. Len(l.queue) \in Nat /\ Len(m.queue) \in Nat /\ Len(r.queue) \in Nat
  BY <1>1, <1>2, <1>3 DEF LockType, Popped
<1>5. a + b \in 0 .. Len(l.queue) /\ Len(r.queue) = Len(l.queue) - (a + b)
  BY <1>1, <1>3, <1>4 DEF Popped
<1>6. \A k \in 1 .. Len(r.queue) : r.queue[k] = l.queue[k + (a + b)]
  <2> SUFFICES ASSUME NEW k \in 1 .. Len(r.queue) PROVE r.queue[k] = l.queue[k + (a + b)]
    OBVIOUS
  <2>1. k + b \in 1 .. Len(m.queue) /\ (k + b) + a = k + (a + b)
    BY <1>3, <1>4 DEF Popped
  <2> QED
    BY <1>1, <1>3, <2>1 DEF Popped
<1>7. w \cup v = {l.queue[k] : k \in 1 .. a + b}
  <2>1. w = {l.queue[k] : k \in 1 .. a}
    BY <1>1 DEF Popped
  <2>2. v = {m.queue[k] : k \in 1 .. b}
    BY <1>3 DEF Popped
  <2>3. \A k \in 1 .. b : m.queue[k] = l.queue[k + a]
    BY <1>1, <1>3, <1>4 DEF Popped
  <2>4. v = {l.queue[k + a] : k \in 1 .. b}
    BY <2>2, <2>3
  <2>5. \A x : x \in v <=> \E k \in a + 1 .. a + b : x = l.queue[k]
    <3>1. ASSUME NEW k \in a + 1 .. a + b PROVE k - a \in 1 .. b /\ (k - a) + a = k
      OBVIOUS
    <3>2. ASSUME NEW k \in 1 .. b PROVE k + a \in a + 1 .. a + b
      OBVIOUS
    <3> QED
      BY <2>4, <3>1, <3>2
  <2>6. 1 .. a + b = (1 .. a) \cup (a + 1 .. a + b)
    OBVIOUS
  <2> QED
    BY <2>1, <2>5, <2>6
<1>8. a + b = 0 => Lock!IsEmpty(r)
  BY <1>3 DEF Popped
<1>9. Popped(l, r, w \cup v, a + b)
  BY <1>3, <1>5, <1>6, <1>7, <1>8 DEF Popped
<1> QED
  BY <1>9 DEF m, r, w, v

-----------------------------------------------------------------------------

\* A task is given the lock of the map, or a new one.
LEMMA AcquireKeepsLInv ==
    ASSUME LInv, NEW t \in Jobs, Lock!Acquire(t)
    PROVE  LInv'
<1> DEFINE id == LockId(t)
<1>1. /\ id \in LockIds /\ task[t].st = "idle" /\ task[t].lock = NoObject
      /\ NoObject \notin Objects
  BY LockTypes DEF LInv, Held, Active, Lock!Acquire
<1>2. PICK o \in Objects :
        /\ IF locks[id] = NoObject THEN Lock!Fresh(o) ELSE o = locks[id]
        /\ LET l == IF locks[id] = NoObject THEN Lock!New ELSE heap[o]
           IN  /\ heap' = [heap EXCEPT ![o] = Lock!Acquired(l, t)]
               /\ task' = [task EXCEPT ![t] =
                    [st |-> IF l.locked THEN "waiting" ELSE "granted", lock |-> o]]
        /\ locks' = [locks EXCEPT ![id] = o]
  BY LockTypes DEF Lock!Acquire
<1> DEFINE l == IF locks[id] = NoObject THEN Lock!New ELSE heap[o]
           st == IF l.locked THEN "waiting" ELSE "granted"
<1>3. locks[id] = NoObject => (\A i \in LockIds : locks[i] # o) /\ (\A j \in Jobs : task[j].lock # o)
  BY <1>2, LockTypes DEF Lock!Fresh, Lock!Unused, LockIds
<1>4. l \in LockType /\ l.queue \in Seq(Jobs) /\ l.locked \in BOOLEAN
  <2>1. Lock!New \in LockType
    BY DEF Lock!New, LockType
  <2>2. heap[o] \in LockType
    BY LockTypes
  <2> QED
    BY <2>1, <2>2 DEF LockType
<1>5. /\ \A i \in LockIds : locks'[i] = IF i = id THEN o ELSE locks[i]
      /\ \A j \in Jobs \ {t} : task'[j] = task[j]
      /\ task'[t] = [st |-> st, lock |-> o]
      /\ heap'[o] = Lock!Acquired(l, t)
      /\ \A x \in Objects \ {o} : heap'[x] = heap[x]
  BY <1>2, LockTypes
<1>6. Lock!TypeOK'
  <2>1. heap' \in [Objects -> LockType]
    BY <1>2, <1>4, AcquiredFields, LockTypes
  <2>2. st \in Lock!TaskStates
    BY DEF Lock!TaskStates
  <2> HIDE DEF st
  <2>3. task' \in [Jobs -> [st : Lock!TaskStates, lock : Objects \cup {NoObject}]]
    BY <1>2, <2>2, LockTypes DEF st
  <2>4. locks' \in [LockIds -> Objects \cup {NoObject}]
    BY <1>2, LockTypes
  <2> QED
    BY <2>1, <2>3, <2>4 DEF Lock!TypeOK, LockType, LockIds
<1>7. l.queue = QueueOf(o) \/ l.queue = <<>>
  BY DEF Lock!New, QueueOf
<1>8. QueueOf(o)' = IF l.locked THEN Append(l.queue, t) ELSE l.queue
  BY <1>4, <1>5, AcquiredFields DEF QueueOf
<1> HIDE DEF l, id
<1>9. /\ \A k \in 1 .. Len(l.queue) : /\ l.queue[k] \in Jobs \ {t}
                                      /\ task[l.queue[k]].st = "waiting"
                                      /\ task[l.queue[k]].lock = o
      /\ \A k, m \in 1 .. Len(l.queue) : l.queue[k] = l.queue[m] => k = m
  <2>1. CASE l.queue = <<>>
    BY <2>1
  <2>2. CASE l.queue = QueueOf(o)
    BY <1>1, <1>4, <2>2 DEF LInv, Queued
  <2> QED
    BY <1>7, <2>1, <2>2
<1>10. Queued'
  <2> SUFFICES ASSUME NEW x \in Objects
      PROVE  /\ \A k \in 1 .. Len(QueueOf(x)') :
                  task'[QueueOf(x)'[k]].st = "waiting" /\ task'[QueueOf(x)'[k]].lock = x
             /\ \A k, m \in 1 .. Len(QueueOf(x)') : QueueOf(x)'[k] = QueueOf(x)'[m] => k = m
    BY DEF Queued, QueueOf
  <2>1. CASE x # o
    <3>1. QueueOf(x)' = QueueOf(x) /\ QueueOf(x) \in Seq(Jobs)
      BY <1>5, <2>1, LockTypes DEF QueueOf, LockType
    <3>2. \A k \in 1 .. Len(QueueOf(x)) : QueueOf(x)[k] \in Jobs \ {t}
      BY <1>1, <3>1 DEF LInv, Queued
    <3> QED
      BY <1>5, <3>1, <3>2 DEF LInv, Queued
  <2>2. CASE x = o /\ l.locked
    <3>1. /\ QueueOf(x)' = Append(l.queue, t) /\ Len(QueueOf(x)') = Len(l.queue) + 1
          /\ QueueOf(x)'[Len(l.queue) + 1] = t /\ Len(l.queue) \in Nat
          /\ \A k \in 1 .. Len(l.queue) : QueueOf(x)'[k] = l.queue[k]
      BY <1>4, <1>8, <2>2
    <3>2. \A k \in 1 .. Len(QueueOf(x)') : k \in 1 .. Len(l.queue) \/ k = Len(l.queue) + 1
      BY <3>1
    <3>3. task'[t].st = "waiting" /\ task'[t].lock = o
      BY <1>5, <2>2
    <3> QED
      BY <1>5, <1>9, <2>2, <3>1, <3>2, <3>3
  <2>3. CASE x = o /\ ~l.locked
    BY <1>5, <1>8, <1>9, <2>3
  <2> QED
    BY <2>1, <2>2, <2>3
<1>11. Active(t)' /\ task'[t].lock = o /\ \A j \in Jobs \ {t} : Active(j)' = Active(j)
  BY <1>5 DEF Active
\* Who has the lock o already has the id.
<1>12. \A j \in Jobs : Active(j) /\ task[j].lock = o => LockId(j) = id
  BY <1>1, <1>2, <1>3 DEF LInv, MapId
<1>13. OneId'
  BY <1>1, <1>5, <1>11, <1>12 DEF LInv, OneId, Active, id
<1>14. MapId'
  <2> SUFFICES ASSUME NEW j \in Jobs, NEW i \in LockIds, Active(j)', locks'[i] = task'[j].lock
               PROVE  LockId(j) = i
    BY DEF MapId
  <2>1. CASE i = id
    BY <1>5, <1>11, <1>12, <2>1 DEF id
  <2>2. CASE i # id /\ j # t
    BY <1>5, <1>11, <2>2 DEF LInv, MapId
  <2>3. CASE i # id /\ j = t
    <3>1. locks[i] = o /\ locks[id] = o
      BY <1>2, <1>3, <1>5, <1>11, <2>3
    <3>2. PICK k \in Jobs : Active(k) /\ LockId(k) = i /\ task[k].lock = o
      BY <1>1, <3>1 DEF LInv, Used
    <3> QED
      BY <1>12, <2>3, <3>2
  <2> QED
    BY <2>1, <2>2, <2>3
<1>15. Held'
  BY <1>5, <1>11 DEF LInv, Held, Active
<1>16. Used'
  <2> SUFFICES ASSUME NEW i \in LockIds, locks'[i] # NoObject
               PROVE  \E j \in Jobs : Active(j)' /\ LockId(j) = i /\ task'[j].lock = locks'[i]
    BY DEF Used
  <2>1. CASE i = id
    BY <1>5, <1>11, <2>1 DEF id
  <2>2. CASE i # id
    <3>1. PICK j \in Jobs : Active(j) /\ LockId(j) = i /\ task[j].lock = locks[i]
      BY <1>5, <2>2 DEF LInv, Used
    <3>2. j # t
      BY <1>1, <3>1 DEF Active
    <3> QED
      BY <1>5, <1>11, <2>2, <3>1, <3>2
  <2> QED
    BY <2>1, <2>2
<1> QED
  BY <1>6, <1>10, <1>13, <1>14, <1>15, <1>16 DEF LInv

LEMMA EnterKeepsLInv ==
    ASSUME LInv, NEW t \in Jobs, Lock!Enter(t)
    PROVE  LInv'
<1>1. /\ locks' = locks /\ heap' = heap
      /\ \A j \in Jobs : /\ task'[j].lock = task[j].lock
                         /\ j # t => task'[j] = task[j]
      /\ task[t].st = "granted" /\ task'[t].st = "running"
  BY LockTypes DEF Lock!Enter
<1>2. \A j \in Jobs : Active(j)' = Active(j)
  BY <1>1 DEF Active
<1>3. Lock!TypeOK'
  <2>1. task' \in [Jobs -> [st : Lock!TaskStates, lock : Objects \cup {NoObject}]]
    BY LockTypes DEF Lock!Enter, Lock!TaskStates
  <2> QED
    BY <1>1, <2>1 DEF LInv, Lock!TypeOK
<1>4. Queued'
  <2>1. \A o \in Objects : QueueOf(o)' = QueueOf(o) /\ QueueOf(o) \in Seq(Jobs)
    BY <1>1, LockTypes DEF QueueOf, LockType
  <2>2. \A o \in Objects : \A k \in 1 .. Len(QueueOf(o)) : QueueOf(o)[k] \in Jobs \ {t}
    BY <1>1, <2>1 DEF LInv, Queued
  <2> QED
    BY <1>1, <2>1, <2>2 DEF LInv, Queued
<1>5. OneId' /\ MapId' /\ Held' /\ Used'
  BY <1>1, <1>2 DEF LInv, OneId, MapId, Held, Used
<1> QED
  BY <1>3, <1>4, <1>5 DEF LInv

\* A task is over, whether it returned or threw: it leaves with the releases done.
LEMMA FinishKeepsLInv ==
    ASSUME LInv, NEW t \in Jobs, task[t].st = "running",
           NEW r, NEW woken, NEW n \in Nat,
           Popped(heap[task[t].lock], r, woken, n),
           heap' = [heap EXCEPT ![task[t].lock] = r],
           Lock!Drop(t, r), Lock!Finish(t, woken)
    PROVE  LInv'
<1> DEFINE o == task[t].lock
           q == QueueOf(o)
           id == LockId(t)
<1>1. /\ o \in Objects /\ Active(t) /\ id \in LockIds /\ NoObject \notin Objects
      /\ q \in Seq(Jobs) /\ Len(q) \in Nat /\ heap[o] \in LockType
  <2>1. Active(t) /\ o \in Objects
    BY DEF LInv, Held, Active
  <2>2. heap[o] \in LockType
    BY <2>1, LockTypes
  <2>3. q \in Seq(Jobs) /\ Len(q) \in Nat
    BY <2>2 DEF LockType, QueueOf
  <2> QED
    BY <2>1, <2>2, <2>3, LockTypes
<1>2. /\ r \in LockType /\ r.queue \in Seq(Jobs) /\ Len(r.queue) \in Nat /\ n \in 0 .. Len(q)
      /\ Len(r.queue) = Len(q) - n
      /\ \A k \in 1 .. Len(r.queue) : r.queue[k] = q[k + n]
      /\ woken = {q[k] : k \in 1 .. n}
      /\ n = 0 => Lock!IsEmpty(r)
  <2>1. /\ r \in LockType /\ n \in 0 .. Len(q) /\ Len(r.queue) = Len(q) - n
        /\ \A k \in 1 .. Len(r.queue) : r.queue[k] = q[k + n]
        /\ woken = {q[k] : k \in 1 .. n}
        /\ n = 0 => Lock!IsEmpty(r)
    BY DEF Popped, QueueOf
  <2>2. r.queue \in Seq(Jobs) /\ Len(r.queue) \in Nat
    BY <2>1 DEF LockType
  <2> QED
    BY <2>1, <2>2
<1>3. /\ \A k \in 1 .. Len(q) : q[k] \in Jobs /\ task[q[k]].st = "waiting" /\ task[q[k]].lock = o
      /\ \A k, m \in 1 .. Len(q) : q[k] = q[m] => k = m
  BY <1>1 DEF LInv, Queued
<1>4. \A j \in woken : j \in Jobs \ {t} /\ task[j].st = "waiting" /\ task[j].lock = o
  BY <1>1, <1>2, <1>3
<1>5. /\ locks' = locks \/ locks' = [locks EXCEPT ![id] = NoObject]
      /\ n = 0 => locks' = [locks EXCEPT ![id] = NoObject]
  BY <1>2, LockTypes DEF Lock!Drop
<1>6. task' = [u \in Jobs |-> IF u = t THEN [st |-> "idle", lock |-> NoObject]
                              ELSE IF u \in woken THEN [task[u] EXCEPT !.st = "granted"]
                              ELSE task[u]]
  BY DEF Lock!Finish
<1> HIDE DEF o, q, id
<1>7. /\ \A j \in Jobs \ {t} : task'[j].lock = task[j].lock /\ Active(j)' = Active(j)
      /\ \A j \in Jobs \ {t} : j \notin woken => task'[j] = task[j]
      /\ task'[t].lock = NoObject /\ ~Active(t)'
  <2>1. \A j \in Jobs \ {t} : j \in woken => task'[j].lock = task[j].lock /\ task'[j].st = "granted"
    BY <1>6, LockTypes
  <2> QED
    BY <1>4, <1>6, <2>1 DEF Active
<1>8. \A i \in LockIds : locks'[i] = locks[i] \/ (i = id /\ locks'[i] = NoObject)
  BY <1>5, LockTypes
<1>9. Lock!TypeOK'
  <2>1. heap' \in [Objects -> LockType]
    BY <1>1, <1>2, LockTypes DEF o
  <2>2. locks' \in [LockIds -> Objects \cup {NoObject}]
    BY <1>5, LockTypes
  <2>3. \A u \in Jobs : task'[u] \in [st : Lock!TaskStates, lock : Objects \cup {NoObject}]
    BY <1>6, LockTypes DEF Lock!TaskStates
  <2>4. task' \in [Jobs -> [st : Lock!TaskStates, lock : Objects \cup {NoObject}]]
    BY <1>6, <2>3
  <2> QED
    BY <2>1, <2>2, <2>4 DEF Lock!TypeOK, LockType, LockIds
<1>10. Queued'
  <2> SUFFICES ASSUME NEW x \in Objects
      PROVE  /\ \A k \in 1 .. Len(QueueOf(x)') :
                  task'[QueueOf(x)'[k]].st = "waiting" /\ task'[QueueOf(x)'[k]].lock = x
             /\ \A k, m \in 1 .. Len(QueueOf(x)') : QueueOf(x)'[k] = QueueOf(x)'[m] => k = m
    BY DEF Queued, QueueOf
  <2>1. CASE x # o
    <3>1. QueueOf(x)' = QueueOf(x) /\ QueueOf(x) \in Seq(Jobs)
      BY <2>1, LockTypes DEF QueueOf, LockType, o
    <3>2. \A k \in 1 .. Len(QueueOf(x)) : /\ QueueOf(x)[k] \in Jobs
                                          /\ task[QueueOf(x)[k]].st = "waiting"
                                          /\ task[QueueOf(x)[k]].lock = x
      BY <3>1 DEF LInv, Queued
    <3>3. \A k \in 1 .. Len(QueueOf(x)) : task'[QueueOf(x)[k]] = task[QueueOf(x)[k]]
      BY <1>4, <1>7, <2>1, <3>2
    <3> QED
      BY <3>1, <3>2, <3>3 DEF LInv, Queued
  <2>2. CASE x = o
    <3>1. QueueOf(x)' = r.queue
      BY <1>1, <2>2, LockTypes DEF QueueOf, o
    <3>2. \A k \in 1 .. Len(r.queue) : k + n \in 1 .. Len(q) /\ k + n \notin 1 .. n
      BY <1>1, <1>2
    <3>3. \A k \in 1 .. Len(r.queue) : r.queue[k] \in Jobs \ {t} /\ r.queue[k] \notin woken
      <4>1. TAKE k \in 1 .. Len(r.queue)
      <4>2. r.queue[k] = q[k + n] /\ k + n \in 1 .. Len(q) /\ k + n \notin 1 .. n
        BY <1>2, <3>2
      <4>3. \A m \in 1 .. n : m \in 1 .. Len(q)
        BY <1>1, <1>2
      <4>4. r.queue[k] \notin woken
        BY <1>2, <1>3, <4>2, <4>3
      <4> QED
        BY <1>3, <4>2, <4>4
    <3>4. \A k \in 1 .. Len(r.queue) : task'[r.queue[k]].st = "waiting" /\ task'[r.queue[k]].lock = o
      <4>1. TAKE k \in 1 .. Len(r.queue)
      <4>2. r.queue[k] = q[k + n] /\ k + n \in 1 .. Len(q)
        BY <1>2, <3>2
      <4>3. task'[r.queue[k]] = task[r.queue[k]]
        BY <1>7, <3>3
      <4> QED
        BY <1>3, <4>2, <4>3
    <3>5. \A k, m \in 1 .. Len(r.queue) : r.queue[k] = r.queue[m] => k = m
      <4>1. TAKE k, m \in 1 .. Len(r.queue)
      <4>2. r.queue[k] = r.queue[m] => k + n = m + n
        BY <1>2, <1>3, <3>2
      <4> QED
        BY <1>2, <4>2
    <3> QED
      BY <2>2, <3>1, <3>4, <3>5
  <2> QED
    BY <2>1, <2>2
<1>11. OneId'
  BY <1>7 DEF LInv, OneId
<1>12. Held'
  BY <1>7 DEF LInv, Held
<1>13. MapId'
  BY <1>1, <1>7, <1>8 DEF LInv, MapId, Held
<1>14. Used'
  <2> SUFFICES ASSUME NEW i \in LockIds, locks'[i] # NoObject
               PROVE  \E j \in Jobs : Active(j)' /\ LockId(j) = i /\ task'[j].lock = locks'[i]
    BY DEF Used
  <2>1. locks'[i] = locks[i]
    BY <1>8
  <2>2. PICK j \in Jobs : Active(j) /\ LockId(j) = i /\ task[j].lock = locks[i]
    BY <2>1 DEF LInv, Used
  <2>3. CASE j # t
    BY <1>7, <2>1, <2>2, <2>3
  <2>4. CASE j = t
    <3>1. n # 0
      BY <1>1, <1>5, <2>2, <2>4, LockTypes DEF id
    <3>2. 1 \in 1 .. n /\ 1 \in 1 .. Len(q)
      BY <1>1, <1>2, <3>1
    <3>3. q[1] \in Jobs \ {t} /\ Active(q[1]) /\ task[q[1]].lock = o
      BY <1>2, <1>3, <1>4, <3>2 DEF Active
    <3>4. LockId(q[1]) = i
      BY <1>1, <2>2, <2>4, <3>3 DEF LInv, OneId, o
    <3> QED
      BY <1>7, <2>1, <2>2, <2>4, <3>3, <3>4 DEF o
  <2> QED
    BY <2>3, <2>4
<1> QED
  BY <1>9, <1>10, <1>11, <1>12, <1>13, <1>14 DEF LInv

LEMMA ReturnKeepsLInv ==
    ASSUME LInv, NEW t \in Jobs, Lock!Return(t) \/ Lock!Throw(t)
    PROVE  LInv'
<1>1. task[t].st = "running" /\ heap[task[t].lock] \in LockType
  BY LockTypes DEF LInv, Held, Active, Lock!Return, Lock!Throw
<1>2. CASE Lock!Return(t)
  <2>1. PICK n \in Nat : Popped(heap[task[t].lock], Lock!Released(heap[task[t].lock]),
                                Lock!Woken(heap[task[t].lock]), n)
    BY <1>1, OneRelease
  <2> QED
    BY <1>1, <1>2, <2>1, FinishKeepsLInv DEF Lock!Return
<1>3. CASE Lock!Throw(t)
  <2>1. PICK n \in Nat : Popped(heap[task[t].lock],
            Lock!Released(Lock!Released(heap[task[t].lock])),
            Lock!Woken(heap[task[t].lock]) \cup Lock!Woken(Lock!Released(heap[task[t].lock])), n)
    BY <1>1, TwoReleases
  <2> QED
    BY <1>1, <1>3, <2>1, FinishKeepsLInv DEF Lock!Throw
<1> QED
  BY <1>2, <1>3

-----------------------------------------------------------------------------

LEMMA InitLInv == Init => LInv
<1> SUFFICES ASSUME Init PROVE LInv
  OBVIOUS
<1>1. /\ locks = [i \in LockIds |-> NoObject]
      /\ heap = [o \in Objects |-> Lock!New]
      /\ task = [j \in Jobs |-> [st |-> "idle", lock |-> NoObject]]
  BY DEF Init, Lock!Init, LockIds
<1>2. Lock!New \in LockType /\ Lock!New.queue = <<>>
  BY DEF Lock!New, LockType
<1>3. Lock!TypeOK
  BY <1>1, <1>2 DEF Lock!TypeOK, Lock!TaskStates, LockType, LockIds
<1>4. Queued
  BY <1>1, <1>2 DEF Queued, QueueOf
<1> QED
  BY <1>1, <1>3, <1>4 DEF LInv, OneId, MapId, Held, Used, Active

\* What a saver does with the locks.
LEMMA LockSteps ==
    ASSUME Typed, [Next]_vars
    PROVE  \/ \E j \in Jobs : \/ Lock!Acquire(j) \/ Lock!Enter(j)
                              \/ Lock!Return(j) \/ Lock!Throw(j)
           \/ UNCHANGED lockVars
<1>1. \A s \in Savers : Job(s) \in Jobs /\ <<s, "block">> \in Jobs
  BY DEF Typed, Job, Jobs, Stages
<1>2. ASSUME NEW s \in Savers, Step(s)
      PROVE  \/ Lock!Acquire(<<s, "block">>) \/ Lock!Acquire(Job(s)) \/ Lock!Enter(Job(s))
             \/ Lock!Return(Job(s)) \/ Lock!Throw(Job(s)) \/ UNCHANGED lockVars
  BY <1>2 DEF Step, Start, Queue, Enter, Find, FetchFails, Select, Write, Update, Insert,
              Advance, Abort
<1> QED
  BY <1>1, <1>2 DEF Next, DeleteUnlinked, vars

LEMMA StepLInv ==
    ASSUME Typed, LInv, [Next]_vars
    PROVE  LInv'
<1>1. CASE UNCHANGED lockVars
  BY <1>1 DEF lockVars, LInv, Lock!TypeOK, Queued, QueueOf, OneId, MapId, Held, Used, Active
<1> QED
  BY <1>1, LockSteps, AcquireKeepsLInv, EnterKeepsLInv, ReturnKeepsLInv

\* IdLock.tryInvoke under DataStorageBase: a lock leaves the map with its last
\* task, although each failure releases twice and locks are found again meanwhile.
THEOREM DroppedAlways == Spec => []LocksDropped
<1>1. Typed /\ LInv /\ [Next]_vars => LInv'
  BY StepLInv
<1>2. LInv => LocksDropped
  BY LockTypes DEF LInv, Used, Active, LocksDropped, Lock!NoLeak, LockIds
<1>3. IInv => Typed
  BY DEF IInv
<1> QED
  BY <1>1, <1>2, <1>3, InitIInv, StepIInv, InitLInv, PTL DEF Spec

Spent == spent \in [failures : 0 .. MaxFailures, deletes : 0 .. MaxDeletes]

LEMMA SpentKept == Spent /\ [Next]_vars => Spent'
<1> SUFFICES ASSUME Spent, [Next]_vars PROVE Spent'
  OBVIOUS
<1>1. ASSUME NEW s \in Savers, FetchFails(s) PROVE Spent'
  BY <1>1, StoreAssumption DEF FetchFails, Spent
<1>2. CASE DeleteUnlinked
  BY <1>2, StoreAssumption DEF DeleteUnlinked, Spent
<1>3. CASE UNCHANGED spent
  BY <1>3 DEF Spent
<1> QED
  BY <1>1, <1>2, <1>3 DEF Next, Step, Start, Queue, Enter, Find, Select, Write, vars

\* THEOREM: the tables, the savers and the locks stay well typed.
THEOREM TypeCorrect == Spec => []TypeOK
<1>1. Init => Spent
  BY StoreAssumption DEF Init, Spent
<1>2. Spent /\ [Next]_vars => Spent'
  BY SpentKept
<1>3. Typed /\ LInv /\ [Next]_vars => LInv'
  BY StepLInv
<1>4. IInv /\ LInv /\ Spent => TypeOK
  BY DEF IInv, Typed, LInv, Spent, TypeOK
<1>5. IInv => Typed
  BY DEF IInv
<1> QED
  BY <1>1, <1>2, <1>3, <1>4, <1>5, InitIInv, StepIInv, InitLInv, PTL DEF Spec

-----------------------------------------------------------------------------
(* Saves that are not refused: only a failure of the provider makes a saver  *)
(* throw while it has the lock of a block or of a transaction, so that these *)
(* locks keep savers apart until the first one.                              *)

\* The job is about a block or a transaction.
Quiet(j) == j[2] # "event"
Owns(j) == task[j].st \in {"granted", "running"}

\* A quiet task has the lock that the map has, is alone to own it, and found it open.
Mapped == \A j \in Jobs : Quiet(j) /\ Active(j) => locks[LockId(j)] = task[j].lock
OneOwner ==
    \A j, k \in Jobs : Quiet(j) /\ Owns(j) /\ Owns(k) /\ LockId(j) = LockId(k) => j = k
OwnedLocked == \A j \in Jobs : Quiet(j) /\ Owns(j) => heap[task[j].lock].locked = TRUE

Exclusive == Mapped /\ OneOwner /\ OwnedLocked

\* Who waits is in the queue of its lock.
Waits ==
    \A j \in Jobs, x \in Objects : task[j].st = "waiting" /\ task[j].lock = x =>
        \E k \in 1 .. Len(QueueOf(x)) : QueueOf(x)[k] = j

\* Locks of events are not those of blocks or transactions.
LEMMA QuietIds ==
    ASSUME NEW j \in Jobs, NEW k \in Jobs, LockId(j) = LockId(k)
    PROVE  Quiet(j) <=> Quiet(k)
<1>1. j[2] \in Stages /\ k[2] \in Stages
  BY DEF Jobs
<1>2. ASSUME NEW a \in Jobs PROVE LockId(a)[1] = a[2]
  <2>1. a[2] \in {"block", "transaction", "event"}
    BY DEF Jobs, Stages
  <2>2. CASE a[2] = "block"
    BY <2>2 DEF LockId, BlockRow
  <2>3. CASE a[2] = "transaction"
    BY <2>3 DEF LockId, TransactionRow
  <2>4. CASE a[2] = "event"
    BY <2>4 DEF LockId
  <2> QED
    BY <2>1, <2>2, <2>3, <2>4
<1> QED
  BY <1>2 DEF Quiet

\* acquire() on the lock o of t.
LEMMA AcquireEffect ==
    ASSUME LInv, NEW t \in Jobs, Lock!Acquire(t)
    PROVE  \E o \in Objects, st \in {"waiting", "granted"} :
             /\ task[t].st = "idle"
             /\ \A i \in LockIds : locks'[i] = IF i = LockId(t) THEN o ELSE locks[i]
             /\ \A j \in Jobs \ {t} : task'[j] = task[j]
             /\ task'[t].st = st /\ task'[t].lock = o
             /\ \A x \in Objects \ {o} : heap'[x] = heap[x]
             /\ heap'[o].locked = TRUE
             /\ IF locks[LockId(t)] = NoObject
                THEN st = "granted" /\ \A j \in Jobs : task[j].lock # o
                ELSE /\ locks[LockId(t)] = o
                     /\ st = "granted" => ~heap[o].locked /\ QueueOf(o)' = QueueOf(o)
                     /\ st = "waiting" => QueueOf(o)' = Append(QueueOf(o), t)
<1> DEFINE id == LockId(t)
<1>1. PICK o \in Objects :
        /\ IF locks[id] = NoObject THEN Lock!Fresh(o) ELSE o = locks[id]
        /\ LET l == IF locks[id] = NoObject THEN Lock!New ELSE heap[o]
           IN  /\ heap' = [heap EXCEPT ![o] = Lock!Acquired(l, t)]
               /\ task' = [task EXCEPT ![t] =
                    [st |-> IF l.locked THEN "waiting" ELSE "granted", lock |-> o]]
        /\ locks' = [locks EXCEPT ![id] = o]
  BY LockTypes DEF Lock!Acquire
<1> DEFINE l == IF locks[id] = NoObject THEN Lock!New ELSE heap[o]
           st == IF l.locked THEN "waiting" ELSE "granted"
<1>2. /\ id \in LockIds /\ task[t].st = "idle"
      /\ locks[id] = NoObject => \A j \in Jobs : task[j].lock # o
  BY <1>1, LockTypes DEF Lock!Acquire, Lock!Fresh, Lock!Unused
<1>3. l \in LockType
  BY LockTypes DEF Lock!New, LockType
<1>4. /\ \A i \in LockIds : locks'[i] = IF i = id THEN o ELSE locks[i]
      /\ \A j \in Jobs \ {t} : task'[j] = task[j]
      /\ task'[t] = [st |-> st, lock |-> o]
      /\ heap'[o] = Lock!Acquired(l, t)
      /\ \A x \in Objects \ {o} : heap'[x] = heap[x]
  BY <1>1, LockTypes
<1>5. /\ Lock!Acquired(l, t).locked = TRUE
      /\ Lock!Acquired(l, t).queue = IF l.locked THEN Append(l.queue, t) ELSE l.queue
  <2> HIDE DEF l
  <2>1. l.locked \in BOOLEAN /\ l = [locked |-> l.locked, queue |-> l.queue]
    BY <1>3 DEF LockType
  <2>2. CASE l.locked = TRUE
    BY <2>1, <2>2 DEF Lock!Acquired
  <2>3. CASE l.locked = FALSE
    BY <2>1, <2>3 DEF Lock!Acquired
  <2> QED
    BY <2>1, <2>2, <2>3
<1>6. heap'[o].locked = TRUE /\ QueueOf(o)' = IF l.locked THEN Append(l.queue, t) ELSE l.queue
  BY <1>4, <1>5 DEF QueueOf
<1>7. locks[id] = NoObject => ~l.locked
  BY DEF Lock!New
<1>8. locks[id] # NoObject => l.locked = heap[o].locked /\ l.queue = QueueOf(o) /\ locks[id] = o
  BY <1>1 DEF QueueOf
<1> HIDE DEF l
<1>9. st \in {"waiting", "granted"} /\ (st = "granted" <=> ~l.locked)
  OBVIOUS
<1> HIDE DEF st
<1> QED
  BY <1>2, <1>4, <1>6, <1>7, <1>8, <1>9

LEMMA AcquireExclusive ==
    ASSUME LInv, Waits, NEW t \in Jobs, Lock!Acquire(t)
    PROVE  Waits' /\ (Exclusive => Exclusive')
<1> DEFINE id == LockId(t)
<1>1. PICK o \in Objects, st \in {"waiting", "granted"} :
        /\ task[t].st = "idle"
        /\ \A i \in LockIds : locks'[i] = IF i = id THEN o ELSE locks[i]
        /\ \A j \in Jobs \ {t} : task'[j] = task[j]
        /\ task'[t].st = st /\ task'[t].lock = o
        /\ \A x \in Objects \ {o} : heap'[x] = heap[x]
        /\ heap'[o].locked = TRUE
        /\ IF locks[id] = NoObject
           THEN st = "granted" /\ \A j \in Jobs : task[j].lock # o
           ELSE /\ locks[id] = o
                /\ st = "granted" => ~heap[o].locked /\ QueueOf(o)' = QueueOf(o)
                /\ st = "waiting" => QueueOf(o)' = Append(QueueOf(o), t)
  BY AcquireEffect
<1>2. /\ \A j \in Jobs : LockId(j) \in LockIds
      /\ \A x \in Objects : heap[x] \in LockType
      /\ NoObject \notin Objects
      /\ \A j \in Jobs : Active(j) => task[j].lock \in Objects
  BY LockTypes DEF LInv, Held
<1>3. \A x \in Objects : QueueOf(x) \in Seq(Jobs) /\ Len(QueueOf(x)) \in Nat
  BY <1>2 DEF QueueOf, LockType
<1>4. Waits'
  <2> SUFFICES ASSUME NEW j \in Jobs, NEW x \in Objects,
                      task'[j].st = "waiting", task'[j].lock = x
               PROVE  \E k \in 1 .. Len(QueueOf(x)') : QueueOf(x)'[k] = j
    BY DEF Waits, QueueOf
  <2>1. CASE j = t
    <3>1. QueueOf(o)' = Append(QueueOf(o), t) /\ x = o
      BY <1>1, <2>1
    <3>2. Append(QueueOf(o), t)[Len(QueueOf(o)) + 1] = t
          /\ Len(QueueOf(o)) + 1 \in 1 .. Len(Append(QueueOf(o), t))
      BY <1>3
    <3> QED
      BY <2>1, <3>1, <3>2
  <2>2. CASE j # t
    <3>1. task[j].st = "waiting" /\ task[j].lock = x
      BY <1>1, <2>2
    <3>2. PICK k \in 1 .. Len(QueueOf(x)) : QueueOf(x)[k] = j
      BY <3>1 DEF Waits
    <3>3. CASE x # o \/ QueueOf(x)' = QueueOf(x)
      BY <1>1, <3>2, <3>3 DEF QueueOf
    <3>4. CASE x = o /\ QueueOf(o)' = Append(QueueOf(o), t)
      <4>1. /\ Append(QueueOf(o), t)[k] = QueueOf(o)[k]
            /\ k \in 1 .. Len(Append(QueueOf(o), t))
        BY <1>3, <3>2, <3>4
      <4> QED
        BY <3>2, <3>4, <4>1
    <3> QED
      BY <1>1, <3>1, <3>3, <3>4
  <2> QED
    BY <2>1, <2>2
<1>5. ASSUME Exclusive PROVE Exclusive'
  <2>1. \A j \in Jobs \ {t} : Active(j)' = Active(j) /\ Owns(j)' = Owns(j)
    BY <1>1 DEF Active, Owns
  <2>2. ASSUME NEW j \in Jobs, Active(j), task[j].lock = o PROVE LockId(j) = id
    BY <1>1, <1>2, <2>2 DEF LInv, MapId
  <2>3. ASSUME NEW j \in Jobs, Quiet(j), Active(j), LockId(j) = id
        PROVE  locks[id] = o /\ task[j].lock = o
    BY <1>1, <1>2, <1>5, <2>3 DEF Exclusive, Mapped
  <2>4. Mapped'
    BY <1>1, <1>2, <2>1, <2>3, <1>5 DEF Exclusive, Mapped
  <2>5. ASSUME NEW j \in Jobs, Quiet(j), Owns(j), LockId(j) = id PROVE st # "granted"
    <3>1. Active(j)
      BY <2>5 DEF Owns, Active
    <3>2. locks[id] # NoObject /\ heap[o].locked = TRUE
      BY <1>2, <1>5, <2>3, <2>5, <3>1 DEF Exclusive, OwnedLocked
    <3> QED
      BY <1>1, <3>2
  <2>6. OneOwner'
    <3> SUFFICES ASSUME NEW j \in Jobs, NEW k \in Jobs, Quiet(j), Owns(j)', Owns(k)',
                        LockId(j) = LockId(k)
                 PROVE  j = k
      BY DEF OneOwner, Quiet
    <3>1. CASE j # t /\ k # t
      BY <1>5, <2>1, <3>1 DEF Exclusive, OneOwner
    <3>2. CASE j = t /\ k # t
      <4>1. Quiet(k) /\ Owns(k) /\ st = "granted"
        BY <1>1, <2>1, <3>2, QuietIds DEF Owns
      <4> QED
        BY <2>5, <3>2, <4>1
    <3>3. CASE j # t /\ k = t
      <4>1. Owns(j) /\ st = "granted"
        BY <1>1, <2>1, <3>3 DEF Owns
      <4> QED
        BY <2>5, <3>3, <4>1
    <3> QED
      BY <3>1, <3>2, <3>3
  <2>7. OwnedLocked'
    <3> SUFFICES ASSUME NEW j \in Jobs, Quiet(j), Owns(j)'
                 PROVE  heap'[task'[j].lock].locked = TRUE
      BY DEF OwnedLocked, Quiet
    <3>1. CASE task'[j].lock = o
      BY <1>1, <3>1
    <3>2. CASE task'[j].lock # o
      <4>1. j # t /\ Owns(j) /\ task'[j] = task[j] /\ task[j].lock \in Objects
        BY <1>1, <1>2, <2>1, <3>2 DEF Owns, Active
      <4> QED
        BY <1>1, <1>5, <3>2, <4>1 DEF Exclusive, OwnedLocked
    <3> QED
      BY <3>1, <3>2
  <2> QED
    BY <2>4, <2>6, <2>7 DEF Exclusive
<1> QED
  BY <1>4, <1>5

LEMMA EnterExclusive ==
    ASSUME LInv, Waits, NEW t \in Jobs, Lock!Enter(t)
    PROVE  Waits' /\ (Exclusive => Exclusive')
<1>1. /\ locks' = locks /\ heap' = heap
      /\ \A j \in Jobs : /\ task'[j].lock = task[j].lock
                         /\ j # t => task'[j] = task[j]
      /\ task[t].st = "granted" /\ task'[t].st = "running"
  BY LockTypes DEF Lock!Enter
<1>2. \A j \in Jobs : Active(j)' = Active(j) /\ Owns(j)' = Owns(j)
  BY <1>1 DEF Active, Owns
<1>3. Waits'
  BY <1>1 DEF Waits, QueueOf
<1>4. Exclusive => Exclusive'
  BY <1>1, <1>2 DEF Exclusive, Mapped, OneOwner, OwnedLocked, Quiet
<1> QED
  BY <1>3, <1>4

\* What a task that is over leaves: r is what is left of its lock o.
Finished(t, o, r, woken, n) ==
    /\ o \in Objects /\ QueueOf(o) \in Seq(Jobs) /\ Len(QueueOf(o)) \in Nat
    /\ heap'[o] = r /\ \A x \in Objects \ {o} : heap'[x] = heap[x]
    /\ n \in 0 .. Len(QueueOf(o)) /\ Len(r.queue) = Len(QueueOf(o)) - n
    /\ \A k \in 1 .. Len(r.queue) : r.queue[k] = QueueOf(o)[k + n]
    /\ woken = {QueueOf(o)[k] : k \in 1 .. n}
    /\ \A j \in woken : /\ j \in Jobs \ {t}
                        /\ task[j].st = "waiting" /\ task[j].lock = o
                        /\ task'[j].st = "granted" /\ task'[j].lock = o
    /\ \A j \in Jobs \ {t} : j \notin woken => task'[j] = task[j]
    /\ task'[t].st = "idle"
    /\ \A i \in LockIds \ {LockId(t)} : locks'[i] = locks[i]
    /\ ~Lock!IsEmpty(r) => locks' = locks

LEMMA FinishEffect ==
    ASSUME LInv, NEW t \in Jobs, task[t].st = "running",
           NEW r, NEW woken, NEW n \in Nat,
           Popped(heap[task[t].lock], r, woken, n),
           heap' = [heap EXCEPT ![task[t].lock] = r],
           Lock!Drop(t, r), Lock!Finish(t, woken)
    PROVE  Finished(t, task[t].lock, r, woken, n)
<1> DEFINE o == task[t].lock
           q == QueueOf(o)
<1>1. /\ o \in Objects /\ heap[o] \in LockType
      /\ q \in Seq(Jobs) /\ Len(q) \in Nat
  <2>1. o \in Objects
    BY DEF LInv, Held, Active
  <2>2. heap[o] \in LockType
    BY <2>1, LockTypes
  <2> QED
    BY <2>1, <2>2 DEF LockType, QueueOf
<1>2. /\ n \in 0 .. Len(q) /\ Len(r.queue) = Len(q) - n
      /\ \A k \in 1 .. Len(r.queue) : r.queue[k] = q[k + n]
      /\ woken = {q[k] : k \in 1 .. n}
  BY DEF Popped, QueueOf
<1>3. \A k \in 1 .. n : q[k] \in Jobs /\ task[q[k]].st = "waiting" /\ task[q[k]].lock = o
  <2>1. \A k \in 1 .. n : k \in 1 .. Len(q)
    BY <1>1, <1>2
  <2> QED
    BY <1>1, <2>1 DEF LInv, Queued
<1>4. heap'[o] = r /\ \A x \in Objects \ {o} : heap'[x] = heap[x]
  BY <1>1, LockTypes
<1>5. task' = [u \in Jobs |-> IF u = t THEN [st |-> "idle", lock |-> NoObject]
                              ELSE IF u \in woken THEN [task[u] EXCEPT !.st = "granted"]
                              ELSE task[u]]
  BY DEF Lock!Finish
<1> HIDE DEF o, q
<1>6. \A j \in woken : j \in Jobs \ {t} /\ task[j].st = "waiting" /\ task[j].lock = o
  BY <1>2, <1>3
<1>7. \A j \in woken : task'[j].st = "granted" /\ task'[j].lock = o
  BY <1>5, <1>6, LockTypes
<1>8. \A j \in Jobs \ {t} : j \notin woken => task'[j] = task[j]
  BY <1>5
<1>9. task'[t].st = "idle"
  BY <1>5
<1>10. \A i \in LockIds \ {LockId(t)} : locks'[i] = locks[i]
  BY LockTypes DEF Lock!Drop
<1>11. ~Lock!IsEmpty(r) => locks' = locks
  BY DEF Lock!Drop
<1> QED
  BY <1>1, <1>2, <1>4, <1>6, <1>7, <1>8, <1>9, <1>10, <1>11 DEF Finished, o, q

\* Who still waits is still in the queue.
LEMMA FinishWaits ==
    ASSUME LInv, Waits, NEW t \in Jobs, task[t].st = "running",
           NEW r, NEW woken, NEW n \in Nat,
           Popped(heap[task[t].lock], r, woken, n),
           heap' = [heap EXCEPT ![task[t].lock] = r],
           Lock!Drop(t, r), Lock!Finish(t, woken)
    PROVE  Waits'
<1> DEFINE o == task[t].lock
           q == QueueOf(o)
<1>0. Finished(t, o, r, woken, n)
  BY FinishEffect
<1>1. /\ o \in Objects /\ q \in Seq(Jobs) /\ Len(q) \in Nat
      /\ heap'[o] = r /\ \A x \in Objects \ {o} : heap'[x] = heap[x]
      /\ n \in 0 .. Len(q) /\ Len(r.queue) = Len(q) - n
      /\ \A k \in 1 .. Len(r.queue) : r.queue[k] = q[k + n]
      /\ woken = {q[k] : k \in 1 .. n}
      /\ \A j \in woken : task'[j].st = "granted"
      /\ \A j \in Jobs \ {t} : j \notin woken => task'[j] = task[j]
      /\ task'[t].st = "idle"
  BY <1>0 DEF Finished
<1> HIDE DEF o, q
<1> SUFFICES ASSUME NEW j \in Jobs, NEW x \in Objects,
                    task'[j].st = "waiting", task'[j].lock = x
             PROVE  \E k \in 1 .. Len(QueueOf(x)') : QueueOf(x)'[k] = j
  BY DEF Waits, QueueOf
<1>2. j # t /\ j \notin woken /\ task[j].st = "waiting" /\ task[j].lock = x
  BY <1>1
<1>3. PICK k \in 1 .. Len(QueueOf(x)) : QueueOf(x)[k] = j
  BY <1>2 DEF Waits
<1>4. CASE x # o
  BY <1>1, <1>3, <1>4 DEF QueueOf
<1>5. CASE x = o
  <2>1. QueueOf(x)' = r.queue /\ k \in 1 .. Len(q) /\ q[k] = j
    BY <1>1, <1>3, <1>5 DEF QueueOf, q
  <2>2. k \notin 1 .. n
    BY <1>1, <1>2, <2>1
  <2>3. k - n \in 1 .. Len(r.queue) /\ (k - n) + n = k
    BY <1>1, <2>1, <2>2
  <2>4. r.queue[k - n] = j
    BY <1>1, <2>1, <2>3
  <2> QED
    BY <2>1, <2>3, <2>4
<1> QED
  BY <1>4, <1>5

\* A task that is over, and is quiet or is not; a quiet one has released once.
LEMMA FinishExclusive ==
    ASSUME LInv, Waits, Exclusive, NEW t \in Jobs, task[t].st = "running",
           NEW r, NEW woken, NEW n \in Nat,
           Popped(heap[task[t].lock], r, woken, n),
           heap' = [heap EXCEPT ![task[t].lock] = r],
           Lock!Drop(t, r), Lock!Finish(t, woken),
           Quiet(t) => n <= 1 /\ (n = 1 => r.locked = heap[task[t].lock].locked)
    PROVE  Exclusive'
<1> DEFINE o == task[t].lock
           q == QueueOf(o)
           id == LockId(t)
<1>0. Finished(t, o, r, woken, n)
  BY FinishEffect
<1>1. /\ o \in Objects /\ q \in Seq(Jobs) /\ Len(q) \in Nat
      /\ heap'[o] = r /\ \A x \in Objects \ {o} : heap'[x] = heap[x]
      /\ n \in 0 .. Len(q)
      /\ woken = {q[k] : k \in 1 .. n}
      /\ \A j \in woken : /\ j \in Jobs \ {t}
                          /\ task[j].st = "waiting" /\ task[j].lock = o
                          /\ task'[j].st = "granted" /\ task'[j].lock = o
      /\ \A j \in Jobs \ {t} : j \notin woken => task'[j] = task[j]
      /\ task'[t].st = "idle"
      /\ \A i \in LockIds \ {id} : locks'[i] = locks[i]
      /\ ~Lock!IsEmpty(r) => locks' = locks
  BY <1>0 DEF Finished
<1>2. /\ \A j \in Jobs : LockId(j) \in LockIds
      /\ \A j \in Jobs : Active(j) => task[j].lock \in Objects
      /\ Active(t) /\ Owns(t)
  BY LockTypes DEF LInv, Held, Active, Owns
\* The tasks of the lock o have one id, and are quiet if t is.
<1>3. ASSUME NEW j \in Jobs, Active(j), task[j].lock = o
      PROVE  LockId(j) = id /\ (Quiet(j) <=> Quiet(t))
  BY <1>2, <1>3, QuietIds DEF LInv, OneId
<1>4. ASSUME Quiet(t), n = 0, NEW j \in Jobs \ {t}, Active(j) PROVE LockId(j) # id
  <2> SUFFICES ASSUME LockId(j) = id PROVE FALSE
    OBVIOUS
  <2>1. Quiet(j) /\ task[j].lock = o
    BY <1>2, <1>4, QuietIds DEF Exclusive, Mapped
  <2>2. ~Owns(j)
    BY <1>2, <1>4, <2>1 DEF Exclusive, OneOwner
  <2>3. task[j].st = "waiting"
    BY <1>4, <2>2, LockTypes DEF Owns, Active, Lock!TaskStates
  <2>4. PICK k \in 1 .. Len(q) : q[k] = j
    BY <1>1, <2>1, <2>3 DEF Waits
  <2>5. Len(q) = 0
    BY <1>4, LockTypes DEF Popped, Lock!IsEmpty, QueueOf
  <2> QED
    BY <2>4, <2>5
<1> HIDE DEF o, q, id
<1>5. \A j \in Jobs : Active(j)' => Active(j) /\ j # t /\ task'[j].lock = task[j].lock
  BY <1>1 DEF Active
<1>6. \A j \in Jobs : Owns(j)' => Active(j) /\ j # t /\ (j \in woken \/ Owns(j))
  BY <1>1 DEF Active, Owns
<1>7. Quiet(t) /\ n = 1 => r.locked = TRUE /\ locks' = locks
  BY <1>1, <1>2 DEF Exclusive, OwnedLocked, Lock!IsEmpty, o
<1>8. Mapped'
  <2> SUFFICES ASSUME NEW j \in Jobs, Quiet(j), Active(j)'
               PROVE  locks'[LockId(j)] = task'[j].lock
    BY DEF Mapped, Quiet
  <2>1. Active(j) /\ j # t /\ task'[j].lock = task[j].lock /\ locks[LockId(j)] = task[j].lock
    BY <1>5 DEF Exclusive, Mapped
  <2>2. CASE LockId(j) # id
    BY <1>1, <1>2, <2>1, <2>2
  <2>3. CASE LockId(j) = id
    <3>1. Quiet(t)
      BY <2>3, QuietIds DEF id
    <3>2. n = 1
      BY <1>1, <1>4, <2>1, <2>3, <3>1
    <3> QED
      BY <1>7, <2>1, <3>1, <3>2
  <2> QED
    BY <2>2, <2>3
\* With the id of a quiet t, only the one that was woken owns the lock now.
<1>9. ASSUME NEW j \in Jobs, NEW k \in Jobs, Quiet(j), Owns(j)', Owns(k)', LockId(j) = LockId(k)
      PROVE  j = k
  <2>1. CASE j \notin woken /\ k \notin woken
    BY <1>6, <1>9, <2>1 DEF Exclusive, OneOwner
  <2>2. CASE j \in woken \/ k \in woken
    <3>1. LockId(j) = id /\ LockId(k) = id /\ Quiet(t) /\ Quiet(k)
      BY <1>1, <1>3, <1>9, <2>2, QuietIds DEF Active, id
    <3>2. ~Owns(j) /\ ~Owns(k)
      BY <1>2, <1>6, <1>9, <3>1 DEF Exclusive, OneOwner, id
    <3>3. j \in woken /\ k \in woken
      BY <1>6, <1>9, <3>2
    <3>4. woken \subseteq {q[1]}
      BY <1>1, <3>1
    <3> QED
      BY <3>3, <3>4
  <2> QED
    BY <2>1, <2>2
<1>10. OneOwner'
  BY <1>9 DEF OneOwner, Quiet
<1>11. OwnedLocked'
  <2> SUFFICES ASSUME NEW j \in Jobs, Quiet(j), Owns(j)'
               PROVE  heap'[task'[j].lock].locked = TRUE
    BY DEF OwnedLocked, Quiet
  <2>1. Active(j) /\ j # t /\ task'[j].lock = task[j].lock /\ task[j].lock \in Objects
    BY <1>2, <1>5, <1>6 DEF Owns, Active
  <2>2. CASE task[j].lock # o
    <3>1. Owns(j)
      BY <1>1, <1>6, <2>2
    <3> QED
      BY <1>1, <2>1, <2>2, <3>1 DEF Exclusive, OwnedLocked
  <2>3. CASE task[j].lock = o
    <3>1. LockId(j) = id /\ Quiet(t)
      BY <1>3, <2>1, <2>3
    <3>2. n = 1
      BY <1>1, <1>4, <2>1, <3>1
    <3> QED
      BY <1>1, <1>7, <2>1, <2>3, <3>1, <3>2
  <2> QED
    BY <2>2, <2>3
<1> QED
  BY <1>8, <1>10, <1>11 DEF Exclusive

\* fn returns, or throws in the lock of an event.
LEMMA ReturnExclusive ==
    ASSUME LInv, Waits, NEW t \in Jobs, Lock!Return(t) \/ Lock!Throw(t)
    PROVE  Waits' /\ (Exclusive /\ (Lock!Return(t) \/ ~Quiet(t)) => Exclusive')
<1> DEFINE l == heap[task[t].lock]
<1>1. task[t].st = "running" /\ l \in LockType
  BY LockTypes DEF LInv, Held, Active, Lock!Return, Lock!Throw
<1>2. CASE Lock!Return(t)
  <2>1. PICK n \in 0 .. 1 : Popped(l, Lock!Released(l), Lock!Woken(l), n)
    BY <1>1, OneRelease
  <2>2. n = 1 => Lock!Released(l).locked = l.locked
    <3> HIDE DEF l
    <3>1. l = [locked |-> l.locked, queue |-> l.queue] /\ l.queue \in Seq(Jobs)
      BY <1>1 DEF LockType
    <3>2. n = 1 => l.queue # <<>>
      BY <2>1, <3>1 DEF Popped
    <3> QED
      BY <3>1, <3>2 DEF Lock!Released
  <2>3. /\ heap' = [heap EXCEPT ![task[t].lock] = Lock!Released(l)]
        /\ Lock!Drop(t, Lock!Released(l)) /\ Lock!Finish(t, Lock!Woken(l))
        /\ n \in Nat /\ n <= 1
    BY <1>2 DEF Lock!Return
  <2>4. Waits'
    BY <1>1, <2>1, <2>3, FinishWaits
  <2>5. Exclusive => Exclusive'
    BY <1>1, <2>1, <2>2, <2>3, FinishExclusive
  <2> QED
    BY <2>4, <2>5
<1>3. CASE Lock!Throw(t)
  <2> DEFINE r == Lock!Released(Lock!Released(l))
             woken == Lock!Woken(l) \cup Lock!Woken(Lock!Released(l))
  <2>1. PICK n \in Nat : Popped(l, r, woken, n)
    BY <1>1, TwoReleases
  <2>2. /\ heap' = [heap EXCEPT ![task[t].lock] = r]
        /\ Lock!Drop(t, r) /\ Lock!Finish(t, woken)
    BY <1>3 DEF Lock!Throw
  <2> HIDE DEF r, woken
  <2>3. Waits'
    BY <1>1, <2>1, <2>2, FinishWaits
  <2>4. Exclusive /\ ~Quiet(t) => Exclusive'
    BY <1>1, <2>1, <2>2, FinishExclusive
  <2>5. ~Lock!Return(t) \/ (Exclusive => Exclusive')
    BY <1>2, <2>3
  <2> QED
    BY <2>3, <2>4, <2>5
<1> QED
  BY <1>2, <1>3

-----------------------------------------------------------------------------
(* The savers and their locks *)

Working(s) == savers[s].step \in {"finding", "saving", "writing"}

\* A saver at work is inside the lock of its row.
Inside == \A s \in Savers : Working(s) => task[Job(s)].st = "running"

\* The row of a block or of a transaction that was not found is still not there.
StillMissing ==
    \A s \in Savers :
        At(s, "writing") /\ savers[s].stage # "event" /\ ~savers[s].found
          => rows[RowOf(s)] = "none"

Calm == spent.failures = 0
CalmInv == Waits /\ Inside /\ (Calm => Exclusive /\ StillMissing)

\* Savers at work on one row of a block or of a transaction are one saver.
LEMMA OneWriter ==
    ASSUME Typed, Inside, Exclusive, NEW s \in Savers, NEW q \in Savers,
           Working(s), Working(q), savers[s].stage # "event", RowOf(s) = RowOf(q)
    PROVE  s = q
<1>1. /\ savers[s].stage \in Stages /\ savers[q].stage \in Stages
      /\ Job(s) \in Jobs /\ Job(q) \in Jobs
  BY DEF Typed, Job, Jobs
<1>2. Job(s)[1] = s /\ Job(q)[1] = q /\ Job(s)[2] = savers[s].stage /\ Job(q)[2] = savers[q].stage
  BY DEF Job
<1>3. savers[q].stage = savers[s].stage
  <2>1. ASSUME NEW x \in Savers PROVE RowOf(x)[1] = savers[x].stage
    <3>1. savers[x].stage \in {"block", "transaction", "event"}
      BY DEF Typed, Stages
    <3>2. CASE savers[x].stage = "block"
      BY <3>2 DEF RowOf, BlockRow
    <3>3. CASE savers[x].stage = "transaction"
      BY <3>3 DEF RowOf, TransactionRow
    <3>4. CASE savers[x].stage = "event"
      BY <3>4 DEF RowOf, EventRow
    <3> QED
      BY <3>1, <3>2, <3>3, <3>4
  <2> QED
    BY <2>1
<1>4. LockId(Job(s)) = RowOf(s) /\ LockId(Job(q)) = RowOf(q)
  <2>1. savers[s].stage \in {"block", "transaction"}
    BY <1>1 DEF Stages
  <2>2. CASE savers[s].stage = "block"
    BY <1>2, <1>3, <2>2 DEF LockId, RowOf, TransactionOf
  <2>3. CASE savers[s].stage = "transaction"
    BY <1>2, <1>3, <2>3 DEF LockId, RowOf, TransactionOf
  <2> QED
    BY <2>1, <2>2, <2>3
<1>5. Quiet(Job(s)) /\ Owns(Job(s)) /\ Owns(Job(q))
  BY <1>2 DEF Inside, Quiet, Owns
<1>6. Job(s) = Job(q)
  BY <1>1, <1>4, <1>5 DEF Exclusive, OneOwner
<1> QED
  BY <1>2, <1>6

\* What is written of a block or of a transaction is not refused.
LEMMA WriteSucceeds ==
    ASSUME IInv, CalmInv, Calm, NEW s \in Savers, At(s, "writing"),
           savers[s].stage # "event", Write(s)
    PROVE  Advance(s)
<1>1. CASE Update(s)
  BY <1>1 DEF Update
<1>2. CASE Insert(s)
  <2>1. rows[RowOf(s)] = "none"
    BY <1>2 DEF Insert, CalmInv, StillMissing
  <2>2. savers[s].stage \in {"block", "transaction"}
    BY DEF IInv, Typed, Stages
  <2>3. ParentStored(s)
    BY <2>2 DEF ParentStored, IInv, PastBlock
  <2> QED
    BY <1>2, <2>1, <2>3 DEF Insert
<1> QED
  BY <1>1, <1>2 DEF Write

\* A task that runs goes on running until it is over itself.
LEMMA RunsOn ==
    ASSUME LInv, NEW t \in Jobs, NEW j \in Jobs, j # t, task[j].st = "running",
           Lock!Acquire(t) \/ Lock!Enter(t) \/ Lock!Return(t) \/ Lock!Throw(t)
    PROVE  task'[j].st = "running"
<1>1. CASE Lock!Acquire(t) \/ Lock!Enter(t)
  BY <1>1, LockTypes DEF Lock!Acquire, Lock!Enter
<1>2. CASE Lock!Return(t) \/ Lock!Throw(t)
  <2> DEFINE l == heap[task[t].lock]
  <2>1. task[t].st = "running" /\ l \in LockType
    BY <1>2, LockTypes DEF LInv, Held, Active, Lock!Return, Lock!Throw
  <2>2. CASE Lock!Return(t)
    <3>1. PICK n \in Nat : Popped(l, Lock!Released(l), Lock!Woken(l), n)
      BY <2>1, OneRelease
    <3>2. Finished(t, task[t].lock, Lock!Released(l), Lock!Woken(l), n)
      BY <2>1, <2>2, <3>1, FinishEffect DEF Lock!Return
    <3> QED
      BY <3>2 DEF Finished
  <2>3. CASE Lock!Throw(t)
    <3> DEFINE r == Lock!Released(Lock!Released(l))
               woken == Lock!Woken(l) \cup Lock!Woken(Lock!Released(l))
    <3>1. PICK n \in Nat : Popped(l, r, woken, n)
      BY <2>1, TwoReleases
    <3>2. Finished(t, task[t].lock, r, woken, n)
      BY <2>1, <2>3, <3>1, FinishEffect DEF Lock!Throw
    <3> HIDE DEF r, woken
    <3> QED
      BY <3>2 DEF Finished
  <2> QED
    BY <1>2, <2>2, <2>3
<1> QED
  BY <1>1, <1>2

\* What a step of one saver leaves alone, and where it may be afterwards.
LEMMA SaverEffect ==
    ASSUME Typed, NEW s \in Savers, Step(s)
    PROVE  /\ \A q \in Savers \ {s} : savers'[q] = savers[q]
           /\ Working(s)' => \/ Enter(s) /\ savers'[s].stage = savers[s].stage
                             \/ Working(s) /\ savers'[s].stage = savers[s].stage
                                  /\ UNCHANGED lockVars
           /\ At(s, "writing")' => Select(s) /\ savers'[s].stage = savers[s].stage
                                     /\ savers'[s].found = (rows[RowOf(s)] # "none")
           /\ ~Write(s) => rows' = rows
<1>1. savers \in [Savers -> [stage : Stages, step : Steps, found : BOOLEAN]]
  BY DEF Typed
<1>2. ASSUME Start(s) \/ Queue(s)
      PROVE  (\A q \in Savers \ {s} : savers'[q] = savers[q]) /\ savers'[s].step = "queued"
  BY <1>1, <1>2 DEF Start, Queue, Go
<1>3. ASSUME Enter(s)
      PROVE  /\ \A q \in Savers \ {s} : savers'[q] = savers[q]
             /\ savers'[s].step # "writing" /\ savers'[s].stage = savers[s].stage
  BY <1>1, <1>3 DEF Enter, Go
<1>4. ASSUME Advance(s) \/ Abort(s)
      PROVE  /\ \A q \in Savers \ {s} : savers'[q] = savers[q]
             /\ savers'[s].step \in {"ready", "done", "failed"}
  BY <1>1, <1>4 DEF Advance, Abort, Go
<1>5. ASSUME Find(s), Missing(s)
      PROVE  /\ \A q \in Savers \ {s} : savers'[q] = savers[q]
             /\ savers'[s].step = "saving" /\ savers'[s].stage = savers[s].stage
             /\ savers[s].step = "finding" /\ UNCHANGED lockVars
  BY <1>1, <1>5 DEF Find, Go, At
<1>6. ASSUME Select(s)
      PROVE  /\ \A q \in Savers \ {s} : savers'[q] = savers[q]
             /\ savers'[s].step = "writing" /\ savers'[s].stage = savers[s].stage
             /\ savers'[s].found = (rows[RowOf(s)] # "none")
             /\ savers[s].step = "saving" /\ UNCHANGED lockVars
  BY <1>1, <1>6 DEF Select, At
<1>7. \/ Start(s) \/ Queue(s) \/ Enter(s) \/ Select(s) \/ (Find(s) /\ Missing(s))
      \/ Advance(s) \/ Abort(s)
  BY DEF Step, Find, FetchFails, Write, Update, Insert
<1>8. ~Write(s) => rows' = rows
  BY DEF Step, Start, Queue, Enter, Find, FetchFails, Select
<1> QED
  BY <1>2, <1>3, <1>4, <1>5, <1>6, <1>7, <1>8 DEF Working, At

\* What a saver does with the locks until the provider fails.
LEMMA CalmLocks ==
    ASSUME IInv, CalmInv, Spent, NEW s \in Savers, Step(s), Calm'
    PROVE  /\ Calm
           /\ \/ UNCHANGED lockVars
              \/ \E t \in Jobs : /\ t[1] = s
                                 /\ \/ Lock!Acquire(t) \/ Lock!Enter(t) \/ Lock!Return(t)
                                    \/ Lock!Throw(t) /\ ~Quiet(t)
<1>1. /\ Job(s) \in Jobs /\ Job(s)[1] = s /\ Job(s)[2] = savers[s].stage
      /\ <<s, "block">> \in Jobs
  BY DEF IInv, Typed, Job, Jobs, Stages
<1>2. ~FetchFails(s) /\ Calm
  <2>1. spent.failures \in Nat
    BY StoreAssumption DEF Spent
  <2>2. ~FetchFails(s)
    BY <2>1 DEF FetchFails, Calm, Spent
  <2> QED
    BY <2>2 DEF Step, Calm, Start, Queue, Enter, Find, Select, Write
<1>3. ASSUME Abort(s) PROVE Lock!Return(Job(s)) \/ (Lock!Throw(Job(s)) /\ ~Quiet(Job(s)))
  <2>1. CASE savers[s].stage = "event"
    BY <1>1, <1>3, <2>1 DEF Abort, Quiet
  <2>2. CASE savers[s].stage # "event" /\ Write(s)
    <3>1. Advance(s)
      BY <1>2, <2>2, WriteSucceeds DEF Write
    <3> QED
      BY <3>1 DEF Advance
  <2>3. CASE ~Write(s)
    <3>1. savers'[s].step = "failed"
      BY <1>3 DEF Abort, Go, IInv, Typed
    <3>2. savers'[s].step # "failed"
      BY <1>2, <2>3 DEF Step, Start, Queue, Enter, Find, Select, Advance, Go, IInv, Typed
    <3> QED
      BY <3>1, <3>2
  <2> QED
    BY <2>1, <2>2, <2>3
<1>4. \/ Lock!Acquire(<<s, "block">>) \/ Lock!Acquire(Job(s)) \/ Lock!Enter(Job(s))
      \/ Lock!Return(Job(s)) \/ Abort(s) \/ UNCHANGED lockVars
  BY <1>2 DEF Step, Start, Queue, Enter, Find, Select, Write, Update, Insert, Advance
<1>5. <<s, "block">>[1] = s
  OBVIOUS
<1> QED
  BY <1>1, <1>2, <1>3, <1>4, <1>5

LEMMA RowOfType ==
    ASSUME Typed, NEW s \in Savers PROVE RowOf(s) \in Rows
<1>1. savers[s].stage \in {"block", "transaction", "event"}
  BY DEF Typed, Stages
<1>2. TransactionOf(s) \in Transactions /\ EventOf[s].topic0 \in Topics
  BY Asked
<1> QED
  BY <1>1, <1>2, RowsApart DEF RowOf

LEMMA StepCalm ==
    ASSUME IInv, LInv, Spent, CalmInv, NEW s \in Savers, Step(s)
    PROVE  CalmInv'
<1>1. /\ \A q \in Savers \ {s} : savers'[q] = savers[q]
      /\ Working(s)' => \/ Enter(s) /\ savers'[s].stage = savers[s].stage
                        \/ Working(s) /\ savers'[s].stage = savers[s].stage
                             /\ UNCHANGED lockVars
      /\ At(s, "writing")' => Select(s) /\ savers'[s].stage = savers[s].stage
                                /\ savers'[s].found = (rows[RowOf(s)] # "none")
      /\ ~Write(s) => rows' = rows
  BY SaverEffect DEF IInv
<1>2. \A q \in Savers : Job(q) \in Jobs /\ Job(q)[1] = q
  BY DEF IInv, Typed, Job, Jobs
<1>3. \/ UNCHANGED lockVars
      \/ \E t \in Jobs : /\ t[1] = s
                         /\ \/ Lock!Acquire(t) \/ Lock!Enter(t)
                            \/ Lock!Return(t) \/ Lock!Throw(t)
  <2>1. \/ Lock!Acquire(<<s, "block">>) \/ Lock!Acquire(Job(s)) \/ Lock!Enter(Job(s))
        \/ Lock!Return(Job(s)) \/ Lock!Throw(Job(s)) \/ UNCHANGED lockVars
    BY DEF Step, Start, Queue, Enter, Find, FetchFails, Select, Write, Update, Insert,
           Advance, Abort
  <2>2. <<s, "block">> \in Jobs /\ <<s, "block">>[1] = s
    BY DEF Jobs, Stages
  <2> QED
    BY <1>2, <2>1, <2>2
<1>4. Waits'
  <2>1. UNCHANGED lockVars => Waits'
    BY DEF CalmInv, Waits, QueueOf, lockVars
  <2> QED
    BY <1>3, <2>1, AcquireExclusive, EnterExclusive, ReturnExclusive DEF CalmInv
<1>5. Inside'
  <2> SUFFICES ASSUME NEW q \in Savers, Working(q)' PROVE task'[Job(q)'].st = "running"
    BY DEF Inside
  <2>1. CASE q # s
    <3>1. Job(q)' = Job(q) /\ Working(q) /\ task[Job(q)].st = "running"
      BY <1>1, <2>1 DEF Job, Working, CalmInv, Inside
    <3>2. task'[Job(q)].st = "running"
      BY <1>2, <1>3, <2>1, <3>1, RunsOn DEF lockVars
    <3> QED
      BY <3>1, <3>2
  <2>2. CASE q = s /\ Enter(s)
    <3>1. Job(s)' = Job(s)
      BY <2>2 DEF Enter, Go, Job, IInv, Typed
    <3>2. task'[Job(s)].st = "running"
      BY <1>2, <2>2, LockTypes DEF Enter, Lock!Enter
    <3> QED
      BY <2>2, <3>1, <3>2
  <2>3. CASE q = s /\ ~Enter(s)
    BY <1>1, <2>3 DEF Job, CalmInv, Inside, lockVars
  <2> QED
    BY <2>1, <2>2, <2>3
<1>6. ASSUME Calm' PROVE Exclusive' /\ StillMissing'
  <2>1. Calm /\ Exclusive /\ StillMissing
    BY <1>6, CalmLocks DEF CalmInv
  <2>2. Exclusive'
    <3>1. UNCHANGED lockVars => Exclusive'
      BY <2>1 DEF Exclusive, Mapped, OneOwner, OwnedLocked, Quiet, Active, Owns, lockVars
    <3>2. \/ UNCHANGED lockVars
          \/ \E t \in Jobs : \/ Lock!Acquire(t) \/ Lock!Enter(t) \/ Lock!Return(t)
                             \/ Lock!Throw(t) /\ ~Quiet(t)
      BY <1>6, CalmLocks
    <3> QED
      BY <2>1, <3>1, <3>2, AcquireExclusive, EnterExclusive, ReturnExclusive DEF CalmInv
  <2>3. StillMissing'
    <3> SUFFICES ASSUME NEW q \in Savers, At(q, "writing")', savers'[q].stage # "event",
                        ~savers'[q].found
                 PROVE  rows'[RowOf(q)'] = "none"
      BY DEF StillMissing
    <3>1. RowOf(q)' = RowOf(q)
      BY <1>1 DEF RowOf, TransactionOf
    <3>2. CASE q = s
      <4>1. Select(s) /\ rows' = rows /\ rows[RowOf(q)] = "none"
        BY <1>1, <3>2 DEF Select
      <4> QED
        BY <3>1, <4>1
    <3>3. CASE q # s
      <4>1. At(q, "writing") /\ savers[q].stage # "event" /\ rows[RowOf(q)] = "none"
        BY <1>1, <2>1, <3>3 DEF At, StillMissing
      <4>2. CASE ~Write(s)
        BY <1>1, <3>1, <4>1, <4>2
      <4>3. CASE Write(s)
        <5>1. Working(s) /\ Working(q)
          BY <4>1, <4>3 DEF Write, At, Working
        <5>2. RowOf(q) # RowOf(s)
          BY <2>1, <3>3, <4>1, <5>1, OneWriter DEF IInv, CalmInv
        <5>3. rows'[RowOf(q)] = rows[RowOf(q)]
          BY <4>3, <5>2, RowOfType DEF Write, Update, Insert, IInv, Typed
        <5> QED
          BY <3>1, <4>1, <5>3
      <4> QED
        BY <4>2, <4>3
    <3> QED
      BY <3>2, <3>3
  <2> QED
    BY <2>2, <2>3
<1> QED
  BY <1>4, <1>5, <1>6 DEF CalmInv

LEMMA NextCalm == IInv /\ LInv /\ Spent /\ CalmInv /\ [Next]_vars => CalmInv'
<1> SUFFICES ASSUME IInv, LInv, Spent, CalmInv, [Next]_vars PROVE CalmInv'
  OBVIOUS
<1>1. CASE UNCHANGED <<savers, lockVars>> /\ (UNCHANGED rows \/ DeleteUnlinked)
           /\ (Calm' => Calm)
  <2>1. Waits' /\ Inside' /\ (Exclusive => Exclusive')
    BY <1>1 DEF CalmInv, Waits, QueueOf, Inside, Working, Job, Exclusive, Mapped, OneOwner,
                OwnedLocked, Quiet, Active, Owns, lockVars
  <2>2. \A q \in Savers : RowOf(q)' = RowOf(q) /\ RowOf(q) \in Rows
    BY <1>1, RowOfType DEF RowOf, IInv
  <2>3. \A x \in Rows : rows[x] = "none" => rows'[x] = "none"
    BY <1>1 DEF DeleteUnlinked
  <2>4. StillMissing => StillMissing'
    BY <1>1, <2>2, <2>3 DEF StillMissing, At
  <2> QED
    BY <1>1, <2>1, <2>4 DEF CalmInv
<1>2. DeleteUnlinked => (Calm' => Calm) /\ UNCHANGED <<savers, lockVars>>
  BY DEF DeleteUnlinked, Calm, Spent
<1>3. UNCHANGED vars => (Calm' => Calm) /\ UNCHANGED <<savers, lockVars>> /\ UNCHANGED rows
  BY DEF vars, Calm
<1> QED
  BY <1>1, <1>2, <1>3, StepCalm DEF Next

\* THEOREM: while the provider has not failed, no save of a block or of a transaction
\* is refused (getOrSaveBlock, getOrSaveTransaction): the lock of a row keeps its
\* savers apart from finding it missing until it is written, whatever is deleted and
\* however often the saves of events are refused, and release their locks twice.
THEOREM Undisputed == Spec => NoConflict
<1>1. Init => Spent
  BY StoreAssumption DEF Init, Spent
<1>2. Init => CalmInv
  <2> SUFFICES ASSUME Init PROVE CalmInv
    OBVIOUS
  <2>1. \A j \in Jobs : task[j].st = "idle"
    BY DEF Init, Lock!Init
  <2>2. \A s \in Savers : savers[s].step = "idle"
    BY DEF Init
  <2> QED
    BY <2>1, <2>2 DEF CalmInv, Waits, Inside, Working, Exclusive, Mapped, OneOwner,
                      OwnedLocked, Active, Owns, StillMissing, At
<1>3. Typed /\ LInv /\ [Next]_vars => LInv'
  BY StepLInv
<1>4. IInv => Typed
  BY DEF IInv
<1>5. IInv /\ LInv /\ Spent /\ CalmInv /\ [Next]_vars =>
        [\A s \in Savers :
           /\ spent.failures = 0
           /\ At(s, "writing")
           /\ savers[s].stage # "event"
           => savers'[s].step # "failed"]_vars
  <2> SUFFICES ASSUME IInv, CalmInv, Next, NEW s \in Savers,
                      Calm, At(s, "writing"), savers[s].stage # "event"
               PROVE  savers'[s].step # "failed"
    BY DEF Calm
  <2>1. CASE DeleteUnlinked
    BY <2>1 DEF DeleteUnlinked, At
  <2>2. ASSUME NEW q \in Savers, Step(q), q # s PROVE savers'[s].step # "failed"
    BY <2>2, SaverEffect DEF IInv, At
  <2>3. CASE Step(s)
    <3>1. Write(s) \/ Select(s)
      <4>1. ~FetchFails(s)
        BY DEF FetchFails, At
      <4> QED
        BY <2>3, <4>1 DEF Step, At, Start, Queue, Enter, Find
    <3>2. CASE Write(s)
      <4>1. Advance(s)
        BY <3>2, WriteSucceeds
      <4> QED
        BY <4>1 DEF Advance, IInv, Typed
    <3>3. CASE Select(s)
      BY <3>3 DEF Select, IInv, Typed
    <3> QED
      BY <3>1, <3>2, <3>3
  <2> QED
    BY <2>1, <2>2, <2>3 DEF Next
<1> QED
  BY <1>1, <1>2, <1>3, <1>4, <1>5, SpentKept, NextCalm, InitIInv, StepIInv, InitLInv, PTL
     DEF Spec, NoConflict
=============================================================================
