------------------------- MODULE TieredStore_proofs -------------------------
(***************************************************************************)
(* What the maintenance pass of TieredStore may lose, and what it may not, *)
(* for any rows, windows and number of failures.                           *)
(***************************************************************************)
EXTENDS TieredStore, FiniteSetTheorems, TLAPS

-----------------------------------------------------------------------------
(* Days.                                                                   *)

\* A later hour is not on an earlier day.
LEMMA DayMonotone ==
  ASSUME NEW a \in Int, NEW b \in Int, a <= b
  PROVE  Day(a) <= Day(b)
<1> DEFINE h == HoursPerDay
<1>h. h \in Nat \ {0}
  BY TierAssumption
<1> HIDE DEF h
<1>1. /\ a \div h \in Int /\ b \div h \in Int
      /\ a % h \in 0 .. (h - 1) /\ b % h \in 0 .. (h - 1)
  BY <1>h
<1>2. a = h * (a \div h) + (a % h) /\ b = h * (b \div h) + (b % h)
  BY <1>h
<1> DEFINE p == a \div h
           q == b \div h
<1>3. SUFFICES ASSUME p >= q + 1 PROVE FALSE
  BY <1>1 DEF Day, h
<1>4. p \in Int /\ q \in Int
  BY <1>1
<1> HIDE DEF p, q
<1>5. h * p >= h * (q + 1)
  BY <1>h, <1>3, <1>4
<1>6. h * (q + 1) = h * q + h
  BY <1>h, <1>4
<1> QED BY <1>h, <1>1, <1>2, <1>4, <1>5, <1>6 DEF p, q

\* The first hour of a day is on that day, and not after any hour of it.
LEMMA FirstHour ==
  ASSUME NEW a \in Int
  PROVE  /\ Day(a) \in Int
         /\ Day(a) * HoursPerDay <= a
         /\ Day(Day(a) * HoursPerDay) = Day(a)
<1> DEFINE h == HoursPerDay
<1>h. h \in Nat \ {0}
  BY TierAssumption
<1> HIDE DEF h
<1>1. a \div h \in Int /\ a % h \in 0 .. (h - 1)
  BY <1>h
<1>2. a = h * (a \div h) + (a % h)
  BY <1>h
<1> DEFINE p == a \div h
<1>3. p \in Int
  BY <1>1
<1> HIDE DEF p
<1>4. (p * h) \div h = p
  BY <1>h, <1>3
<1> QED BY <1>h, <1>1, <1>2, <1>3, <1>4 DEF p, Day, h

\* Every partition of a row is on the day of the row.
LEMMA PartitionDay ==
  ASSUME NEW root \in Roots, NEW r \in Rows
  PROVE  /\ Partition(root, r) \in Nat
         /\ Day(Partition(root, r)) = Day(Time[r])
<1>1. Time[r] \in Nat /\ HoursPerDay \in Nat
  BY TierAssumption
<1>2. Day(0) <= Day(Time[r]) /\ Day(0) = 0
  <2>1. Day(0) <= Day(Time[r])
    BY <1>1, DayMonotone
  <2>2. Day(0) = 0
    BY TierAssumption DEF Day
  <2> QED BY <2>1, <2>2
<1>3. Day(Time[r]) \in Nat
  BY <1>1, <1>2, FirstHour
<1>4. Day(Time[r]) * HoursPerDay \in Nat
  BY <1>1, <1>3
<1> QED BY <1>1, <1>4, FirstHour DEF Partition

\* What is past its window for one clock is so for every later one.
LEMMA ExpiredMonotone ==
  ASSUME NEW root \in Roots, NEW hour, NEW a \in Int, NEW b \in Int, a <= b,
         Day(hour) \in Int, Expired(root, hour, a)
  PROVE  Expired(root, hour, b)
<1>1. Window(root) \in Int
  BY TierAssumption DEF Window
<1>2. Day(a - Window(root)) <= Day(b - Window(root))
  BY <1>1, DayMonotone
<1>3. Day(a - Window(root)) \in Int /\ Day(b - Window(root)) \in Int
  BY <1>1, FirstHour
<1> QED BY <1>2, <1>3 DEF Expired

-----------------------------------------------------------------------------
(* The inductive invariant.                                                *)

RowsOK ==
  /\ now \in Nat
  /\ hot \subseteq Rows /\ unread \subseteq Rows /\ acked \subseteq Rows

\* A pass measures with a clock of the past, and moves rows of one signal.
PassHonest ==
  /\ pass.at # "rest" => pass.clock <= now
  /\ pass.at \in {"evicting", "writing", "rolling"} =>
       \A r \in pass.moving : Signal[r] = pass.signal
  /\ pass.at = "rolling" => pass.signal = "metrics"

\* An object holds rows of its own partition only.
FiledRight ==
  \A o \in cold : o.root \in Roots /\ o.rows \subseteq Rows
                 /\ \A r \in o.rows : o.hour = Partition(o.root, r)

\* While a pass writes, a row it moves is in an object already or its partition
\* is still to be written; and the raw rows are all written before the rollups.
WrittenOrToDo ==
  /\ pass.at = "writing" =>
       \A r \in pass.moving : Partition(pass.signal, r) \in pass.todo \/ InCold(pass.signal, r)
  /\ pass.at = "rolling" =>
       \A r \in pass.moving :
         /\ InCold("metrics", r)
         /\ Partition("metrics_5m", r) \in pass.todo \/ InCold("metrics_5m", r)

TierInv ==
  /\ RowsOK /\ PassOK /\ PassHonest /\ FiledRight /\ WrittenOrToDo
  /\ OnlyCutMovesLose /\ TrendsSurvive

\* An empty store satisfies it.
LEMMA InitTierInv == Init => TierInv
BY TierAssumption DEF Init, TierInv, RowsOK, PassOK, PassHonest, FiledRight, WrittenOrToDo,
   OnlyCutMovesLose, TrendsSurvive, NoPass

-----------------------------------------------------------------------------
(* Steps that delete nothing from the cold tier.                           *)

Held(r) == r \in hot \/ r \in Moving \/ (phase = "down" /\ r \in unread)

Archived(r) == InCold(Signal[r], r) /\ (Signal[r] = "metrics" => InCold("metrics_5m", r))

\* If every row outside the cold tier stays there, is written to it, or has its
\* move cut short, nothing else is lost.
LEMMA NothingDropped ==
  ASSUME TierInv, cold \subseteq cold', now <= now', now' \in Nat, acked' = acked,
         cut \subseteq cut',
         \A r \in Rows : Held(r) => Held(r)' \/ Archived(r)' \/ r \in cut'
  PROVE  OnlyCutMovesLose' /\ TrendsSurvive'
<1> USE DEF TierInv
<1>1. \A r \in Rows, root \in Roots : InCold(root, r) => InCold(root, r)'
  BY DEF InCold
<1>2. ASSUME NEW r \in Rows, NEW root \in Roots, Outdated(root, r)
      PROVE  Outdated(root, r)'
  <2>1. Day(Partition(root, r)) \in Int
    BY PartitionDay, TierAssumption, FirstHour
  <2>2. Expired(root, Partition(root, r), now')
    BY <1>2, <2>1, ExpiredMonotone DEF Outdated, RowsOK
  <2> QED BY <2>2 DEF Outdated
<1>3. acked \subseteq Rows
  BY DEF RowsOK
<1>4. \A r \in Rows : Signal[r] \in Roots
  BY TierAssumption DEF Roots
<1>5. OnlyCutMovesLose'
  <2> SUFFICES ASSUME NEW r \in acked PROVE
        (\/ Held(r) \/ InCold(Signal[r], r) \/ Outdated(Signal[r], r) \/ r \in cut)'
    BY DEF OnlyCutMovesLose, Held
  <2>1. Held(r) \/ InCold(Signal[r], r) \/ Outdated(Signal[r], r) \/ r \in cut
    BY DEF OnlyCutMovesLose, Held
  <2> QED BY <1>1, <1>2, <1>3, <1>4, <2>1 DEF Archived
<1>6. TrendsSurvive'
  <2> SUFFICES ASSUME NEW r \in acked, Signal[r] = "metrics" PROVE
        (\/ Held(r) \/ InCold("metrics_5m", r) \/ Outdated("metrics_5m", r) \/ r \in cut)'
    BY DEF TrendsSurvive, Held
  <2>1. Held(r) \/ InCold("metrics_5m", r) \/ Outdated("metrics_5m", r) \/ r \in cut
    BY DEF TrendsSurvive, Held
  <2>2. "metrics_5m" \in Roots
    BY DEF Roots
  <2> QED BY <1>1, <1>2, <1>3, <2>1, <2>2 DEF Archived
<1> QED BY <1>5, <1>6

\* The steps of clients, of the clock and of the process.
LEMMA ClientStep ==
  ASSUME TierInv, Tick \/ (\E r \in Rows : Insert(r)) \/ Checkpoint \/ Restart
  PROVE  TierInv'
<1> USE DEF TierInv, tiers, ledger
<1>1. cold' = cold /\ pass' = pass /\ cut' = cut
  BY DEF Tick, Insert, Checkpoint, Restart
<1>2. now' \in Nat /\ now <= now'
  BY DEF Tick, Insert, Checkpoint, Restart, RowsOK
<1>3. RowsOK'
  BY <1>2 DEF Tick, Insert, Checkpoint, Restart, RowsOK
<1>4. PassOK' /\ FiledRight' /\ WrittenOrToDo'
  BY <1>1 DEF PassOK, FiledRight, WrittenOrToDo, InCold, Partition, Day
<1>5. PassHonest'
  <2>1. pass.at # "rest" => pass.clock \in Nat
    BY DEF PassOK
  <2> QED BY <1>1, <1>2, <2>1 DEF PassHonest, RowsOK
<1>6. CASE \E r \in Rows : Insert(r)
  <2>1. PICK r \in Rows : Insert(r)
    BY <1>6
  <2>2. /\ hot' = hot \cup {r} /\ acked' = acked \cup {r} /\ phase' = phase /\ unread' = unread \cup {r}
        /\ now' = now
    BY <2>1 DEF Insert
  <2> QED BY <1>1, <1>3, <1>4, <1>5, <2>2 DEF OnlyCutMovesLose, TrendsSurvive, Moving, InCold,
          Outdated, Expired, Partition, Day, Window
<1>7. CASE Tick \/ Checkpoint \/ Restart
  <2>1. \A r \in Rows : Held(r) => Held(r)'
    BY <1>1, <1>7 DEF Tick, Checkpoint, Restart, Held, Moving
  <2>2. acked' = acked
    BY <1>7 DEF Tick, Checkpoint, Restart
  <2> QED BY <1>1, <1>2, <1>3, <1>4, <1>5, <2>1, <2>2, NothingDropped
<1> QED BY <1>6, <1>7

-----------------------------------------------------------------------------
(* The steps of the pass.                                                  *)

\* Advance leaves a pass that moves no row and keeps its clock.
LEMMA TurnsTo ==
  ASSUME TierInv, NEW signal \in Signals, Advance(signal), pass.at # "rest",
         pass.clock \in Nat
  PROVE  /\ PassOK' /\ pass'.at \in {"scanning", "dropping"}
         /\ pass'.clock = pass.clock
<1>1. After(signal) \in {"logs", "metrics", "drop"}
  BY DEF After
<1>2. \/ pass' = [at |-> "dropping", clock |-> pass.clock]
      \/ pass' = [at |-> "scanning", signal |-> "logs", clock |-> pass.clock]
      \/ pass' = [at |-> "scanning", signal |-> "metrics", clock |-> pass.clock]
  BY <1>1 DEF Advance
<1> QED BY <1>2 DEF PassOK, Signals

\* Steps that only turn the pass to something that moves no row.
LEMMA TurnStep ==
  ASSUME TierInv, UNCHANGED <<now, tiers, acked, phase>>, cut \subseteq cut',
         PassOK', pass'.at \in {"rest", "scanning", "dropping"},
         pass'.at # "rest" => pass'.clock <= now,
         \A r \in Moving : r \in hot \/ Archived(r) \/ r \in cut'
  PROVE  TierInv'
<1> USE DEF TierInv, tiers
<1>1. RowsOK' /\ FiledRight' /\ PassHonest' /\ WrittenOrToDo'
  BY DEF RowsOK, FiledRight, PassHonest, WrittenOrToDo, Partition, Day
<1>2. \A r \in Rows : Archived(r) => Archived(r)'
  BY DEF Archived, InCold
<1>3. \A r \in Rows : Held(r) => Held(r)' \/ Archived(r)' \/ r \in cut'
  BY <1>2 DEF Held
<1>4. now' \in Nat /\ now <= now'
  BY DEF RowsOK
<1> QED BY <1>1, <1>3, <1>4, NothingDropped

\* A pass starts with the clock of its tick and nothing in hand.
LEMMA StartPassInv == ASSUME TierInv, StartPass PROVE TierInv'
<1>1. /\ pass' = [at |-> "scanning", signal |-> "spans", clock |-> now]
      /\ UNCHANGED <<now, tiers, acked, phase, cut>> /\ pass.at = "rest"
  BY DEF StartPass, ledger
<1>2. PassOK' /\ now \in Nat
  BY <1>1 DEF PassOK, Signals, TierInv, RowsOK
<1>3. Moving = {}
  BY <1>1 DEF Moving
<1> QED BY <1>1, <1>2, <1>3, TurnStep

\* A pass ends with nothing in hand.
LEMMA FinishPassInv == ASSUME TierInv, FinishPass PROVE TierInv'
<1>1. /\ pass' = [at |-> "rest"] /\ pass.at = "dropping"
      /\ UNCHANGED <<now, tiers, acked, phase, cut>>
  BY DEF FinishPass, ledger, NoPass
<1>2. PassOK'
  BY <1>1 DEF PassOK
<1>3. Moving = {}
  BY <1>1 DEF Moving
<1> QED BY <1>1, <1>2, <1>3, TurnStep

\* An error ends the pass: what it held in memory is cut short.
LEMMA PassFailsInv == ASSUME TierInv, PassFails PROVE TierInv'
<1>1. /\ pass' = [at |-> "rest"] /\ cut' = cut \cup (Moving \ hot)
      /\ UNCHANGED <<now, tiers, acked, phase>>
  BY DEF PassFails, NoPass
<1>2. PassOK'
  BY <1>1 DEF PassOK
<1> QED BY <1>1, <1>2, TurnStep

\* What the scan takes is still in the hot tier.
LEMMA ScanInv == ASSUME TierInv, Scan PROVE TierInv'
<1> USE DEF TierInv
<1>1. /\ pass.at = "scanning" /\ pass.signal \in Signals /\ pass.clock \in Nat
      /\ pass.clock <= now
      /\ UNCHANGED <<now, tiers, acked, phase, cut>>
  BY DEF Scan, PassOK, PassHonest, ledger
<1>2. Moving = {}
  BY <1>1 DEF Moving
<1>3. CASE Advance(pass.signal)
  <2>1. PassOK' /\ pass'.at \in {"scanning", "dropping"} /\ pass'.clock = pass.clock
    BY <1>1, <1>3, TurnsTo
  <2> QED BY <1>1, <1>2, <2>1, TurnStep
<1>4. CASE pass' = [at |-> "evicting", signal |-> pass.signal, clock |-> pass.clock,
                    moving |-> Aged]
  <2>1. Aged \subseteq Rows /\ \A r \in Aged : Signal[r] = pass.signal
    BY DEF Aged, RowsOK
  <2>2. PassOK' /\ PassHonest' /\ WrittenOrToDo'
    BY <1>1, <1>4, <2>1 DEF PassOK, PassHonest, WrittenOrToDo
  <2>3. RowsOK' /\ FiledRight'
    BY <1>1 DEF RowsOK, FiledRight, tiers, Partition, Day
  <2>4. \A r \in Rows : Held(r) => Held(r)'
    BY <1>1, <1>2 DEF Held, tiers
  <2>5. now' \in Nat /\ now <= now'
    BY <1>1 DEF RowsOK
  <2> QED BY <1>1, <2>2, <2>3, <2>4, <2>5, NothingDropped DEF tiers
<1> QED BY <1>3, <1>4 DEF Scan

\* A row that leaves the hot tier is in the hands of the pass.
LEMMA EvictInv == ASSUME TierInv, NEW r \in Rows, Evict(r) PROVE TierInv'
<1> USE DEF TierInv
<1>1. /\ pass.at = "evicting" /\ r \in pass.moving /\ hot' = hot \ {r}
      /\ UNCHANGED <<now, unread, cold, acked, cut, phase, pass>>
  BY DEF Evict, ledger
<1>2. RowsOK' /\ PassOK' /\ PassHonest' /\ FiledRight' /\ WrittenOrToDo'
  BY <1>1 DEF RowsOK, PassOK, PassHonest, FiledRight, WrittenOrToDo, InCold, Partition, Day
<1>3. \A q \in Rows : Held(q) => Held(q)'
  BY <1>1 DEF Held, Moving
<1>4. now' \in Nat /\ now <= now'
  BY <1>1 DEF RowsOK
<1> QED BY <1>1, <1>2, <1>3, <1>4, NothingDropped

\* A pass that goes on to write: every partition of what it moves is to be done.
LEMMA WritingStep ==
  ASSUME TierInv, NEW root \in Roots, pass' = Writing(root),
         pass.at \in {"evicting", "writing"}, UNCHANGED <<now, tiers, acked, cut, phase>>,
         root = pass.signal \/ (root = "metrics_5m" /\ pass.signal = "metrics"
                               /\ \A r \in pass.moving : InCold("metrics", r))
  PROVE  TierInv'
<1> USE DEF TierInv
<1>1. /\ pass.signal \in Signals /\ pass.clock \in Nat /\ pass.clock <= now
      /\ pass.moving \subseteq Rows /\ \A r \in pass.moving : Signal[r] = pass.signal
  BY DEF PassOK, PassHonest
<1>2. Partitions(root) \subseteq Nat
  BY <1>1, PartitionDay DEF Partitions
<1>3. /\ pass'.at = (IF root = "metrics_5m" THEN "rolling" ELSE "writing")
      /\ pass'.signal = pass.signal /\ pass'.clock = pass.clock /\ pass'.moving = pass.moving
      /\ pass'.todo = Partitions(root)
  BY DEF Writing
<1>4. PassOK'
  BY <1>1, <1>2, <1>3 DEF PassOK, Writing
<1>5. root = "metrics_5m" <=> root # pass.signal
  BY <1>1 DEF Signals
<1>6. PassHonest'
  BY <1>1, <1>3, <1>5 DEF PassHonest
<1>7. \A r \in pass.moving : Partition(root, r) \in Partitions(root)
  BY DEF Partitions
<1>8. WrittenOrToDo'
  BY <1>1, <1>3, <1>5, <1>7 DEF WrittenOrToDo, InCold, tiers, Partition, Day
<1>9. RowsOK' /\ FiledRight'
  BY DEF RowsOK, FiledRight, tiers, Partition, Day
<1>10. \A r \in Rows : Held(r) => Held(r)'
  BY <1>3 DEF Held, Moving, tiers
<1>11. now' \in Nat /\ now <= now'
  BY DEF RowsOK
<1> QED BY <1>4, <1>6, <1>8, <1>9, <1>10, <1>11, NothingDropped DEF tiers

\* All partitions of the evicted rows are to be written.
LEMMA EvictedInv == ASSUME TierInv, Evicted PROVE TierInv'
<1>1. pass.at = "evicting" /\ pass' = Writing(pass.signal)
      /\ UNCHANGED <<now, tiers, acked, cut, phase>>
  BY DEF Evicted, ledger
<1>2. pass.signal \in Roots
  BY <1>1 DEF TierInv, PassOK, Roots
<1> QED BY <1>1, <1>2, WritingStep

\* A pass leaves its raw rows only when every one of them is stored.
LEMMA WrittenInv == ASSUME TierInv, Written PROVE TierInv'
<1> USE DEF TierInv
<1>1. /\ pass.at = "writing" /\ pass.todo = {} /\ pass.signal \in Signals
      /\ pass.clock \in Nat /\ pass.clock <= now
      /\ UNCHANGED <<now, tiers, acked, cut, phase>>
  BY DEF Written, ledger, PassOK, PassHonest
<1>2. \A r \in pass.moving : InCold(pass.signal, r) /\ Signal[r] = pass.signal
  BY <1>1 DEF WrittenOrToDo, PassHonest
<1>3. CASE pass.signal = "metrics"
  <2>1. pass' = Writing("metrics_5m") /\ "metrics_5m" \in Roots
    BY <1>3 DEF Written, Roots
  <2> QED BY <1>1, <1>2, <1>3, <2>1, WritingStep
<1>4. CASE pass.signal # "metrics"
  <2>1. Advance(pass.signal)
    BY <1>4 DEF Written
  <2>2. PassOK' /\ pass'.at \in {"scanning", "dropping"} /\ pass'.clock = pass.clock
    BY <1>1, <2>1, TurnsTo
  <2>3. \A r \in Moving : Archived(r)
    BY <1>1, <1>2, <1>4 DEF Moving, Archived
  <2> QED BY <1>1, <2>2, <2>3, TurnStep
<1> QED BY <1>3, <1>4

\* A pass leaves its metrics only when every one is in a rollup too.
LEMMA RolledUpInv == ASSUME TierInv, RolledUp PROVE TierInv'
<1> USE DEF TierInv
<1>1. /\ pass.at = "rolling" /\ pass.todo = {} /\ pass.signal = "metrics"
      /\ pass.clock \in Nat /\ pass.clock <= now
      /\ UNCHANGED <<now, tiers, acked, cut, phase>> /\ Advance(pass.signal)
  BY DEF RolledUp, ledger, PassOK, PassHonest
<1>2. \A r \in Moving : Archived(r)
  BY <1>1 DEF WrittenOrToDo, PassHonest, Moving, Archived
<1>3. PassOK' /\ pass'.at \in {"scanning", "dropping"} /\ pass'.clock = pass.clock
  <2>1. pass.signal \in Signals
    BY <1>1 DEF Signals
  <2> QED BY <1>1, <2>1, TurnsTo
<1> QED BY <1>1, <1>2, <1>3, TurnStep

\* A step that writes the next partition under root.
LEMMA PutStep ==
  ASSUME TierInv, NEW root \in Roots, PutNext(root),
         \/ pass.at = "writing" /\ root = pass.signal
         \/ pass.at = "rolling" /\ root = "metrics_5m",
         UNCHANGED <<now, hot, unread, acked, cut, phase>>
  PROVE  TierInv'
<1> USE DEF TierInv
<1>1. PICK hour \in pass.todo :
        /\ cold' = Put(root, hour, {r \in pass.moving : Partition(root, r) = hour})
        /\ pass' = [pass EXCEPT !.todo = @ \ {hour}]
  BY DEF PutNext
<1> DEFINE here == {r \in pass.moving : Partition(root, r) = hour}
<1>2. /\ pass'.at = pass.at /\ pass'.signal = pass.signal /\ pass'.clock = pass.clock
      /\ pass'.moving = pass.moving /\ pass'.todo = pass.todo \ {hour}
      /\ pass.moving \subseteq Rows
  BY <1>1 DEF PassOK
<1>3. PassOK'
  BY <1>1 DEF PassOK
<1>4. PICK n : cold' = cold \cup {[root |-> root, hour |-> hour, rows |-> here, copy |-> n]}
  BY <1>1 DEF Put
<1>5. /\ cold \subseteq cold'
      /\ \A r \in here : InCold(root, r)'
      /\ \A r \in Rows, other \in Roots : InCold(other, r) => InCold(other, r)'
  <2> DEFINE new == [root |-> root, hour |-> hour, rows |-> here, copy |-> n]
  <2>1. new \in cold' /\ new.root = root /\ new.rows = here
    BY <1>4
  <2>2. cold \subseteq cold'
    BY <1>4
  <2> HIDE DEF new
  <2>3. \A r \in here : InCold(root, r)'
    BY <2>1 DEF InCold
  <2>4. \A r \in Rows, other \in Roots : InCold(other, r) => InCold(other, r)'
    BY <2>2 DEF InCold
  <2> QED BY <2>2, <2>3, <2>4
<1>6. FiledRight'
  <2> SUFFICES ASSUME NEW o \in cold'
               PROVE  /\ o.root \in Roots /\ o.rows \subseteq Rows
                      /\ \A r \in o.rows : o.hour = Partition(o.root, r)
    BY DEF FiledRight, Partition, Day
  <2>1. CASE o \in cold
    BY <2>1 DEF FiledRight
  <2>2. CASE o = [root |-> root, hour |-> hour, rows |-> here, copy |-> n]
    BY <1>2, <2>2
  <2> QED BY <1>4, <2>1, <2>2
<1>7. RowsOK' /\ PassHonest'
  BY <1>2 DEF RowsOK, PassHonest
<1>8. WrittenOrToDo'
  <2>1. "metrics" \in Roots /\ "metrics_5m" \in Roots
    BY DEF Roots, Signals
  <2>2. \A r \in pass.moving : Partition(root, r) \in pass.todo' \/ InCold(root, r)'
        \/ (Partition(root, r) \notin pass.todo)
    BY <1>2, <1>5
  <2>3. CASE pass.at = "writing" /\ root = pass.signal
    BY <1>2, <1>5, <2>2, <2>3 DEF WrittenOrToDo, Partition, Day
  <2>4. CASE pass.at = "rolling" /\ root = "metrics_5m"
    BY <1>2, <1>5, <2>1, <2>2, <2>4 DEF WrittenOrToDo, Partition, Day
  <2> QED BY <2>3, <2>4
<1>9. \A r \in Rows : Held(r) => Held(r)'
  BY <1>2 DEF Held, Moving
<1>10. now' \in Nat /\ now <= now'
  BY DEF RowsOK
<1> QED BY <1>3, <1>5, <1>6, <1>7, <1>8, <1>9, <1>10, NothingDropped

\* Raw partitions and rollups alike are written by PutNext.
LEMMA PutInv == ASSUME TierInv, WritePartition \/ WriteRollup PROVE TierInv'
<1>1. UNCHANGED <<now, hot, unread, acked, cut, phase>>
  BY DEF WritePartition, WriteRollup, ledger
<1>2. CASE WritePartition
  <2>1. pass.at = "writing" /\ pass.signal \in Roots /\ PutNext(pass.signal)
    BY <1>2 DEF WritePartition, TierInv, PassOK, Roots
  <2> QED BY <1>1, <2>1, PutStep
<1>3. CASE WriteRollup
  <2>1. pass.at = "rolling" /\ "metrics_5m" \in Roots /\ PutNext("metrics_5m")
    BY <1>3 DEF WriteRollup, Roots
  <2> QED BY <1>1, <2>1, PutStep
<1> QED BY <1>2, <1>3

\* A row goes with its object only past its window, by the clock of today.
LEMMA DroppedIsOutdated ==
  ASSUME TierInv, NEW o \in cold, Drop(o), NEW r \in o.rows
  PROVE  /\ r \in Rows /\ o.root \in Roots
         /\ Outdated(o.root, r)
         /\ Time[r] < now - Window(o.root)
<1> USE DEF TierInv
<1>1. /\ o.root \in Roots /\ r \in Rows /\ o.hour = Partition(o.root, r)
  BY DEF FiledRight
<1>2. pass.clock \in Nat /\ pass.clock <= now /\ now \in Nat
  BY DEF Drop, PassOK, PassHonest, RowsOK
<1>3. Expired(o.root, o.hour, pass.clock)
  BY DEF Drop, Doomed
<1>4. Day(o.hour) = Day(Time[r]) /\ Time[r] \in Nat /\ Day(Time[r]) \in Int
  BY <1>1, PartitionDay, FirstHour, TierAssumption
<1>5. Expired(o.root, o.hour, now)
  BY <1>1, <1>2, <1>3, <1>4, ExpiredMonotone
<1>6. Outdated(o.root, r)
  BY <1>1, <1>5 DEF Outdated
<1>7. Window(o.root) \in Int
  BY <1>1, TierAssumption DEF Window
<1>8. Day(Time[r]) < Day(now - Window(o.root)) /\ now - Window(o.root) \in Int
  BY <1>2, <1>4, <1>5, <1>7 DEF Expired
<1>9. Time[r] < now - Window(o.root)
  <2> SUFFICES ASSUME now - Window(o.root) <= Time[r] PROVE FALSE
    BY <1>4, <1>8
  <2>1. Day(now - Window(o.root)) <= Day(Time[r])
    BY <1>4, <1>8, DayMonotone
  <2> QED BY <1>4, <1>8, <2>1, FirstHour
<1> QED BY <1>1, <1>6, <1>9

\* Retention takes only rows past their window.
LEMMA DropInv == ASSUME TierInv, NEW o \in cold, Drop(o) PROVE TierInv'
<1> USE DEF TierInv
<1>1. /\ pass.at = "dropping" /\ cold' = cold \ {o}
      /\ UNCHANGED <<now, hot, unread, acked, cut, phase, pass>>
  BY DEF Drop, ledger
<1>2. RowsOK' /\ PassOK' /\ PassHonest' /\ WrittenOrToDo' /\ FiledRight'
  BY <1>1 DEF RowsOK, PassOK, PassHonest, WrittenOrToDo, FiledRight, Partition, Day
<1>3. \A r \in Rows, root \in Roots : Outdated(root, r)' <=> Outdated(root, r)
  BY <1>1 DEF Outdated, Expired, Partition, Day, Window
<1>4. \A r \in Rows, root \in Roots :
        InCold(root, r) => InCold(root, r)' \/ (r \in o.rows /\ o.root = root)
  BY <1>1 DEF InCold
<1>5. \A r \in Rows, root \in Roots : InCold(root, r) => InCold(root, r)' \/ Outdated(root, r)'
  BY <1>3, <1>4, DroppedIsOutdated
<1>6. \A r \in Rows : Signal[r] \in Roots /\ "metrics_5m" \in Roots
  BY TierAssumption DEF Roots
<1>7. Moving' = Moving /\ acked \subseteq Rows
  BY <1>1 DEF Moving, RowsOK
<1>8. OnlyCutMovesLose' /\ TrendsSurvive'
  BY <1>1, <1>3, <1>5, <1>6, <1>7 DEF OnlyCutMovesLose, TrendsSurvive
<1> QED BY <1>2, <1>8

\* The process dies: what an eviction may undo comes back to the hot tier.
LEMMA CrashInv == ASSUME TierInv, Crash PROVE TierInv'
<1> USE DEF TierInv
<1>1. PICK undone \in SUBSET (IF pass.at = "evicting" THEN pass.moving \ hot ELSE {}) :
        hot' = hot \cup undone /\ cut' = cut \cup (Moving \ hot')
  BY DEF Crash
<1>2. /\ pass' = [at |-> "rest"] /\ UNCHANGED <<now, unread, cold, acked>>
      /\ phase' = "down" /\ phase = "up"
  BY DEF Crash, NoPass
<1>3. undone \subseteq Rows
  BY <1>1 DEF PassOK
<1>4. RowsOK' /\ PassOK' /\ PassHonest' /\ WrittenOrToDo' /\ FiledRight'
  BY <1>1, <1>2, <1>3 DEF RowsOK, PassOK, PassHonest, WrittenOrToDo, FiledRight, Partition, Day
<1>5. \A r \in Rows : Held(r) => Held(r)' \/ r \in cut'
  BY <1>1, <1>2 DEF Held
<1>6. now' \in Nat /\ now <= now'
  BY <1>2 DEF RowsOK
<1> QED BY <1>1, <1>2, <1>4, <1>5, <1>6, NothingDropped

\* A reader changes nothing but itself.
LEMMA StutterInv ==
  ASSUME TierInv, UNCHANGED <<now, tiers, acked, cut, phase, pass>>
  PROVE  TierInv'
BY DEF TierInv, tiers, RowsOK, PassOK, PassHonest, WrittenOrToDo, FiledRight, OnlyCutMovesLose,
   TrendsSurvive, InCold, Moving, Outdated, Expired, Partition, Day, Window

\* Every step keeps the invariant.
LEMMA TierStep == TierInv /\ [Next]_vars => TierInv'
<1> SUFFICES ASSUME TierInv, [Next]_vars PROVE TierInv'
  OBVIOUS
<1>1. CASE Tick \/ Write \/ Restart
  BY <1>1, ClientStep DEF Write
<1>2. CASE Maintain
  BY <1>2, StartPassInv, ScanInv, EvictInv, EvictedInv, PutInv, WrittenInv, RolledUpInv, DropInv,
     FinishPassInv DEF Maintain
<1>3. CASE PassFails \/ Crash
  BY <1>3, PassFailsInv, CrashInv
<1>4. CASE Read
  <2>1. UNCHANGED <<now, tiers, acked, cut, phase, pass>>
    BY <1>4 DEF Read, ReadHot, GetSpan, ListCold, Fetch, Answer, ledger
  <2> QED BY <2>1, StutterInv
<1>5. CASE UNCHANGED vars
  BY <1>5, StutterInv DEF vars, tiers
<1> QED BY <1>1, <1>2, <1>3, <1>4, <1>5 DEF Next, Store

-----------------------------------------------------------------------------
(* The theorems.                                                           *)

\* The inductive invariant of the tiers holds in every reachable state.
THEOREM TierInvariance == Spec => []TierInv
BY InitTierInv, TierStep, PTL DEF Spec

\* A row within its window is lost only where an error or a crash cut its move
\* to the cold tier short, however passes, inserts and restarts interleave.
THEOREM MovesAreSafe == Spec => []OnlyCutMovesLose
<1>1. TierInv => OnlyCutMovesLose
  BY DEF TierInv
<1> QED BY <1>1, TierInvariance, PTL

\* A metric point that has left the hot tier is in a rollup for as long as the
\* rollup window lasts.
THEOREM TrendsAreSafe == Spec => []TrendsSurvive
<1>1. TierInv => TrendsSurvive
  BY DEF TierInv
<1> QED BY <1>1, TierInvariance, PTL

\* Retention by date never takes a row that is younger than its window.
THEOREM RetentionKeeps == Spec => KeptForItsWindow
<1>1. TierInv /\ [Next]_vars =>
        [\A o \in cold \ cold' : \A r \in o.rows : Time[r] < now - Window(o.root)]_vars
  <2> SUFFICES ASSUME TierInv, Next, NEW o \in cold \ cold', NEW r \in o.rows
               PROVE  Time[r] < now - Window(o.root)
    OBVIOUS
  <2>1. Maintain
    BY DEF Next, Store, Tick, Write, Insert, Checkpoint, PassFails, Read, ReadHot, GetSpan, ListCold, Fetch, Answer,
       Crash, Restart, tiers, ledger
  <2>2. cold' = cold \/ cold \subseteq cold' \/ \E p \in cold : Drop(p)
    BY <2>1 DEF Maintain, StartPass, Scan, Evict, Evicted, WritePartition, Written, WriteRollup,
       RolledUp, PutNext, Put, FinishPass, tiers
  <2>3. PICK p \in cold : Drop(p)
    BY <2>2
  <2>4. p = o
    BY <2>3 DEF Drop
  <2> QED BY <2>3, <2>4, DroppedIsOutdated
<1> QED BY <1>1, TierInvariance, PTL DEF Spec, KeptForItsWindow

-----------------------------------------------------------------------------
(* A reader of both tiers.                                                 *)

Owed(root, r) == InCold(root, r) \/ Outdated(root, r)

\* A reader is owed rows of its signal that are not before what it asked for; what a walk
\* slipped past stays out of the hot tier as long as the process lives.
QueryFair ==
  query.at # "none" =>
    /\ phase = "up"
    /\ query.signal \in Signals /\ query.since \in Nat /\ query.owed \subseteq acked
    /\ \A r \in query.owed : Time[r] >= query.since /\ Signal[r] = query.signal

WalkFair ==
  query.at = "walking" =>
    /\ query.slipped \cap hot = {} /\ query.slipped \cup query.todo \subseteq acked
    /\ query.signal # "spans" => query.todo = {} /\ query.slipped = {}

\* Having read the hot tier first, it still finds in the cold tier what it has not
\* seen; once it has listed the cold tier, in an object of its list that is there.
QueryCovers ==
  /\ query.at = "walking" =>
       \A r \in query.owed :
         r \in query.seen \cup query.todo \cup query.slipped \/ Owed(query.signal, r)
  /\ query.at = "fetching" =>
       \A r \in query.owed :
         \/ r \in query.seen \/ Outdated(query.signal, r)
         \/ query.signal = "spans" /\ r \in query.late
         \/ \E o \in query.keys \cap cold : o.root = query.signal /\ r \in o.rows

QueryShape ==
  /\ query.at = "walking" =>
       query = [at |-> "walking", signal |-> query.signal, since |-> query.since, owed |-> query.owed,
                todo |-> query.todo, seen |-> query.seen, slipped |-> query.slipped]
  /\ query.at = "fetching" =>
       query = [at |-> "fetching", signal |-> query.signal, since |-> query.since, owed |-> query.owed,
                seen |-> query.seen, keys |-> query.keys, late |-> query.late]
  /\ query.at \in {"none", "walking", "fetching"}

QueryInv == QueryFair /\ WalkFair /\ QueryShape /\ QueryCovers

\* Pruning by the hour of the partition keeps what holds a row that was asked for.
LEMMA PruningKeeps ==
  ASSUME TierInv, NEW o \in cold, o.root \in Signals, NEW since \in Nat, NEW r \in o.rows,
         Time[r] >= since
  PROVE  MayContain(o.hour, since)
<1>1. r \in Rows /\ o.hour = Partition(o.root, r)
  BY DEF TierInv, FiledRight
<1>2. o.root # "metrics_5m"
  BY DEF Signals
<1>3. o.hour = Time[r] /\ Time[r] \in Nat
  BY <1>1, <1>2, TierAssumption DEF Partition
<1>4. Day(since) <= Day(Time[r]) /\ Day(since) \in Int /\ Day(Time[r]) \in Int
  BY <1>3, DayMonotone, FirstHour
<1> QED BY <1>3, <1>4 DEF MayContain

\* What has been in an object that a step takes away is outdated.
LEMMA ColdOrOutdated ==
  ASSUME TierInv, [Next]_vars
  PROVE  /\ now \in Nat /\ now' \in Nat /\ now <= now'
         /\ \A o \in cold : \A r \in o.rows : o \in cold' \/ Outdated(o.root, r)'
<1>1. now \in Nat /\ now' \in Nat /\ now <= now'
  <2>1. now \in Nat
    BY DEF TierInv, RowsOK
  <2>2. now' = now \/ now' = now + 1
    BY DEF Next, Store, Tick, Write, Insert, Checkpoint, Maintain, StartPass, Scan, Evict, Evicted,
       WritePartition, Written, WriteRollup, RolledUp, Drop, FinishPass, PassFails, Crash,
       Restart, Read, ReadHot, GetSpan, ListCold, Fetch, Answer, vars
  <2> QED BY <2>1, <2>2
<1>2. cold \subseteq cold' \/ \E p \in cold : Drop(p)
  BY DEF Next, Store, Tick, Write, Insert, Checkpoint, Maintain, StartPass, Scan, Evict, Evicted,
     WritePartition, Written, WriteRollup, RolledUp, PutNext, Put, FinishPass, PassFails, Crash, Restart,
     Read, ReadHot, GetSpan, ListCold, Fetch, Answer, vars, tiers, ledger
<1>3. ASSUME NEW o \in cold, NEW r \in o.rows, o \notin cold'
      PROVE  Outdated(o.root, r)'
  <2>1. PICK p \in cold : Drop(p)
    BY <1>2, <1>3
  <2>2. p = o /\ now' = now
    BY <1>3, <2>1 DEF Drop
  <2>3. Outdated(o.root, r)
    BY <2>1, <2>2, DroppedIsOutdated
  <2> QED BY <2>2, <2>3 DEF Outdated, Expired, Partition, Day, Window
<1> QED BY <1>1, <1>3

\* What is outdated stays so.
LEMMA OutdatedStays ==
  ASSUME TierInv, [Next]_vars, NEW root \in Roots, NEW r \in Rows, Outdated(root, r)
  PROVE  Outdated(root, r)'
<1>1. now \in Int /\ now' \in Int /\ now <= now'
  BY ColdOrOutdated
<1>2. Day(Partition(root, r)) \in Int
  BY PartitionDay, TierAssumption, FirstHour
<1>3. Expired(root, Partition(root, r), now')
  BY <1>1, <1>2, ExpiredMonotone DEF Outdated
<1> QED BY <1>3 DEF Outdated, Expired, Partition, Day, Window

\* Rows come back to the hot tier only when the process starts again.
LEMMA HotGrows ==
  ASSUME TierInv, [Next]_vars, phase = "up", query.at # "none", query' = query
  PROVE  phase' = "up" /\ acked \subseteq acked' /\ \A r \in acked : r \in hot' => r \in hot
<1>1. ~Crash /\ ~Restart
  BY DEF Crash, Restart, NoQuery
<1>2. CASE \E r \in Rows : Insert(r)
  BY <1>2 DEF Insert
<1>3. CASE \E r \in Rows : Evict(r)
  BY <1>3 DEF Evict, ledger
<1>4. CASE UNCHANGED <<hot, acked, phase>>
  BY <1>4
<1> QED BY <1>1, <1>2, <1>3, <1>4 DEF Next, Store, Tick, Write, Checkpoint, Maintain, StartPass, Scan, Evicted,
        WritePartition, Written, WriteRollup, RolledUp, Drop, FinishPass, PassFails, Read, ReadHot, GetSpan,
        ListCold, Fetch, Answer, vars, tiers, ledger

\* Steps that leave the reader alone.
LEMMA OthersKeepQuery ==
  ASSUME TierInv, QueryInv, [Next]_vars, query' = query
  PROVE  QueryInv'
<1> USE DEF QueryInv
<1>0. query.at # "none" =>
        phase' = "up" /\ acked \subseteq acked' /\ \A r \in acked : r \in hot' => r \in hot
  BY HotGrows DEF QueryFair
<1>1. QueryFair' /\ WalkFair' /\ QueryShape'
  BY <1>0 DEF QueryFair, WalkFair, QueryShape
<1>2. \A root \in Signals : root \in Roots
  BY DEF Roots
<1>a. acked \subseteq Rows
  BY DEF TierInv, RowsOK
<1>3. \A r \in Rows, root \in Signals : Outdated(root, r) => Outdated(root, r)'
  BY <1>2, OutdatedStays
<1>4. \A r \in Rows, root \in Signals : InCold(root, r) => InCold(root, r)' \/ Outdated(root, r)'
  BY ColdOrOutdated DEF InCold
<1>5. ASSUME query.at = "walking", NEW r \in query.owed
      PROVE  r \in query.seen \cup query.todo \cup query.slipped \/ Owed(query.signal, r)'
  <2>1. r \in Rows /\ query.signal \in Signals
    BY <1>5, <1>a DEF QueryFair
  <2> QED BY <1>3, <1>4, <1>5, <2>1 DEF QueryCovers, Owed
<1>6. ASSUME query.at = "fetching", NEW r \in query.owed
      PROVE  \/ r \in query.seen \/ Outdated(query.signal, r)'
             \/ query.signal = "spans" /\ r \in query.late
             \/ \E o \in query.keys \cap cold' : o.root = query.signal /\ r \in o.rows
  <2>1. r \in Rows /\ query.signal \in Signals
    BY <1>6, <1>a DEF QueryFair
  <2>2. CASE \E o \in query.keys \cap cold : o.root = query.signal /\ r \in o.rows
    <3>1. PICK o \in query.keys \cap cold : o.root = query.signal /\ r \in o.rows
      BY <2>2
    <3>2. o \in cold' \/ Outdated(o.root, r)'
      BY <3>1, ColdOrOutdated
    <3> QED BY <3>1, <3>2
  <2> QED BY <1>3, <1>6, <2>1, <2>2 DEF QueryCovers
<1>7. QueryCovers'
  BY <1>5, <1>6 DEF QueryCovers
<1> QED BY <1>1, <1>7

\* A query begins: what it is owed is in the hot tier, seen or to be walked to, or in the
\* cold one.
LEMMA ReadHotKeepsQuery ==
  ASSUME TierInv, QueryInv, NEW ask \in Asked, ReadHot(ask)
  PROVE  QueryInv'
<1> USE DEF QueryInv
<1> DEFINE asked == {r \in acked : Signal[r] = ask.signal /\ Time[r] >= ask.since}
           owed  == {r \in asked : r \in hot \/ InCold(ask.signal, r)}
           todo  == IF ask.by = "index" THEN asked \cap hot ELSE {}
           seen  == IF ask.by = "index" THEN {} ELSE asked \cap hot
<1>1. query' = [at |-> "walking", signal |-> ask.signal, since |-> ask.since, owed |-> owed,
                todo |-> todo, seen |-> seen, slipped |-> {}]
  BY DEF ReadHot
<1>2. /\ ask.signal \in Signals /\ ask.since \in Nat
      /\ ask.by = "index" => ask.signal = "spans"
  BY TierAssumption
<1>3. /\ UNCHANGED <<hot, cold, acked, phase>> /\ phase = "up"
  BY DEF ReadHot, tiers, ledger
<1>4. /\ query'.at = "walking" /\ query'.signal = ask.signal /\ query'.since = ask.since
      /\ query'.owed = owed /\ query'.todo = todo /\ query'.seen = seen /\ query'.slipped = {}
  BY <1>1
<1>5. /\ owed \subseteq asked /\ asked \subseteq acked
      /\ \A r \in asked : Time[r] >= ask.since /\ Signal[r] = ask.signal
      /\ \A r \in owed : r \in seen \cup todo \/ InCold(ask.signal, r)
      /\ ask.by # "index" => todo = {}
      /\ todo \subseteq acked
  OBVIOUS
<1> HIDE DEF asked, owed, todo, seen
<1>6. QueryFair' /\ WalkFair' /\ QueryShape'
  BY <1>1, <1>2, <1>3, <1>4, <1>5 DEF QueryFair, WalkFair, QueryShape
<1>7. QueryCovers'
  BY <1>3, <1>4, <1>5 DEF QueryCovers, Owed, InCold
<1> QED BY <1>6, <1>7

\* The walk comes to an entry, and sees its span or slips past it.
LEMMA GetSpanKeepsQuery ==
  ASSUME TierInv, QueryInv, NEW r \in query.todo, GetSpan(r)
  PROVE  QueryInv'
<1> USE DEF QueryInv
<1> DEFINE found == {r} \cap hot
           lost  == {r} \ hot
<1>1. PICK sg, sn, ow, td, se, sl :
        query = [at |-> "walking", signal |-> sg, since |-> sn, owed |-> ow, todo |-> td, seen |-> se,
                 slipped |-> sl]
  BY DEF GetSpan, QueryShape
<1>2. sg = query.signal /\ sn = query.since /\ ow = query.owed /\ td = query.todo /\ se = query.seen
      /\ sl = query.slipped /\ query.at = "walking"
  BY <1>1
<1>3. query' = [query EXCEPT !.todo = @ \ {r}, !.seen = @ \cup found, !.slipped = @ \cup lost]
  BY DEF GetSpan
<1>4. /\ UNCHANGED <<hot, cold, acked, phase, now>>
  BY DEF GetSpan, tiers, ledger
<1>5. found \cup lost = {r} /\ lost \cap hot = {}
  OBVIOUS
<1> HIDE DEF found, lost
<1>6. query' = [at |-> "walking", signal |-> sg, since |-> sn, owed |-> ow, todo |-> td \ {r},
                seen |-> se \cup found, slipped |-> sl \cup lost]
  BY <1>1, <1>3
<1>7. /\ query'.at = "walking" /\ query'.signal = query.signal /\ query'.since = query.since
      /\ query'.owed = query.owed /\ query'.todo = query.todo \ {r}
      /\ query'.seen = query.seen \cup found /\ query'.slipped = query.slipped \cup lost
  BY <1>2, <1>6
<1>8. query.signal = "spans" /\ query.todo \subseteq acked
  BY <1>2 DEF WalkFair
<1>9. QueryFair' /\ WalkFair' /\ QueryShape'
  BY <1>2, <1>4, <1>5, <1>6, <1>7, <1>8 DEF QueryFair, WalkFair, QueryShape
<1>10. \A q \in query'.owed : q \in query'.seen \cup query'.todo \cup query'.slipped
                                \/ Owed(query'.signal, q)
  BY <1>2, <1>5, <1>7 DEF QueryCovers
<1>11. QueryCovers'
  BY <1>4, <1>7, <1>10 DEF QueryCovers, Owed, InCold, Outdated, Expired, Partition, Day, Window
<1> QED BY <1>9, <1>11

\* The cold tier is listed: what the walk slipped past is there, outdated, or late.
LEMMA ListColdKeepsQuery ==
  ASSUME TierInv, QueryInv, ListCold
  PROVE  QueryInv'
<1> USE DEF QueryInv
<1> DEFINE keys == {o \in cold : o.root = query.signal /\ MayContain(o.hour, query.since)}
           late == {r \in query.slipped \cap (Moving \cup cut) : ~InCold(query.signal, r)}
<1>1. /\ query.at = "walking" /\ query.todo = {}
      /\ query' = [at |-> "fetching", signal |-> query.signal, since |-> query.since,
                   owed |-> query.owed, seen |-> query.seen, keys |-> keys, late |-> late]
  BY DEF ListCold
<1>2. /\ query'.at = "fetching" /\ query'.signal = query.signal /\ query'.since = query.since
      /\ query'.owed = query.owed /\ query'.seen = query.seen /\ query'.keys = keys /\ query'.late = late
  BY <1>1
<1>3. UNCHANGED <<now, hot, cold, acked, phase>>
  BY DEF ListCold, tiers, ledger
<1>4. QueryFair' /\ WalkFair' /\ QueryShape'
  BY <1>1, <1>2, <1>3 DEF QueryFair, WalkFair, QueryShape
<1>5. ASSUME NEW r \in query.owed
      PROVE  \/ r \in query.seen \/ Outdated(query.signal, r)
             \/ query.signal = "spans" /\ r \in late
             \/ \E o \in keys \cap cold : o.root = query.signal /\ r \in o.rows
  <2>1. CASE InCold(query.signal, r)
    <3>1. PICK o \in cold : o.root = query.signal /\ r \in o.rows
      BY <2>1 DEF InCold
    <3>2. MayContain(o.hour, query.since)
      BY <1>1, <3>1, PruningKeeps DEF QueryFair
    <3> QED BY <3>1, <3>2
  <2>2. CASE r \in query.slipped /\ ~InCold(query.signal, r)
    <3>1. r \in acked /\ r \notin hot /\ phase = "up" /\ Signal[r] = query.signal
      BY <1>1, <2>2 DEF WalkFair, QueryFair
    <3>2. r \in Moving \/ Outdated(query.signal, r) \/ r \in cut
      BY <2>2, <3>1 DEF TierInv, OnlyCutMovesLose
    <3>3. query.signal = "spans"
      BY <1>1, <2>2 DEF WalkFair
    <3> QED BY <2>2, <3>2, <3>3
  <2> QED BY <1>1, <2>1, <2>2 DEF QueryCovers, Owed
<1> HIDE DEF keys, late
<1>6. QueryCovers'
  BY <1>2, <1>3, <1>5 DEF QueryCovers, Outdated, Expired, Partition, Day, Window
<1> QED BY <1>4, <1>6

\* An object is fetched.
LEMMA FetchKeepsQuery ==
  ASSUME TierInv, QueryInv, query.at = "fetching", NEW o \in query.keys, Fetch(o)
  PROVE  QueryInv'
<1> USE DEF QueryInv
<1> DEFINE got == IF o \in cold THEN {r \in o.rows : Time[r] >= query.since} ELSE {}
<1>1. query' = [query EXCEPT !.keys = @ \ {o}, !.seen = @ \cup got]
  BY DEF Fetch
<1>2. PICK sg, sn, ow, se, ks, lt :
        query = [at |-> "fetching", signal |-> sg, since |-> sn, owed |-> ow, seen |-> se, keys |-> ks,
                 late |-> lt]
  BY DEF QueryShape
<1>3. sg = query.signal /\ sn = query.since /\ ow = query.owed /\ se = query.seen /\ ks = query.keys
      /\ lt = query.late
  BY <1>2
<1>4. UNCHANGED <<now, hot, cold, acked, phase>>
  BY DEF Fetch, tiers, ledger
<1>5. ASSUME NEW r \in query.owed
      PROVE  \/ r \in query.seen \cup got \/ Outdated(query.signal, r)
             \/ query.signal = "spans" /\ r \in query.late
             \/ \E p \in (query.keys \ {o}) \cap cold : p.root = query.signal /\ r \in p.rows
  <2>1. CASE \E p \in query.keys \cap cold : p.root = query.signal /\ r \in p.rows
    <3>1. PICK p \in query.keys \cap cold : p.root = query.signal /\ r \in p.rows
      BY <2>1
    <3>2. CASE p = o
      BY <3>1, <3>2 DEF QueryFair
    <3> QED BY <3>1, <3>2
  <2> QED BY <2>1 DEF QueryCovers
<1> HIDE DEF got
<1>6. query' = [at |-> "fetching", signal |-> sg, since |-> sn, owed |-> ow, seen |-> se \cup got,
                keys |-> ks \ {o}, late |-> lt]
  BY <1>1, <1>2
<1>7. /\ query'.at = "fetching" /\ query'.signal = query.signal /\ query'.since = query.since
      /\ query'.owed = query.owed /\ query'.seen = query.seen \cup got /\ query'.keys = query.keys \ {o}
      /\ query'.late = query.late
  BY <1>3, <1>6
<1>8. QueryFair' /\ WalkFair' /\ QueryShape'
  BY <1>4, <1>6, <1>7 DEF QueryFair, WalkFair, QueryShape
<1>9. QueryCovers'
  BY <1>4, <1>5, <1>7 DEF QueryCovers, Outdated, Expired, Partition, Day, Window
<1> QED BY <1>8, <1>9

\* The steps of the reader.
LEMMA ReadKeepsQuery ==
  ASSUME TierInv, QueryInv, Read
  PROVE  QueryInv'
<1>1. CASE Answer
  BY <1>1 DEF Answer, NoQuery, QueryInv, QueryFair, WalkFair, QueryShape, QueryCovers
<1> QED BY <1>1, ReadHotKeepsQuery, GetSpanKeepsQuery, ListColdKeepsQuery, FetchKeepsQuery DEF Read

\* Every step keeps what a reader counts on.
LEMMA QueryStep == TierInv /\ QueryInv /\ [Next]_vars => QueryInv'
<1> SUFFICES ASSUME TierInv, QueryInv, [Next]_vars PROVE QueryInv'
  OBVIOUS
<1>1. CASE Crash
  BY <1>1 DEF Crash, NoQuery, QueryInv, QueryFair, WalkFair, QueryShape, QueryCovers
<1>2. CASE Read
  BY <1>2, ReadKeepsQuery
<1>3. CASE query' = query
  BY <1>3, OthersKeepQuery
<1> QED BY <1>1, <1>2, <1>3 DEF Next, Store, Tick, Write, Insert, Checkpoint, Maintain, StartPass, Scan, Evict,
        Evicted, WritePartition, Written, WriteRollup, RolledUp, Drop, FinishPass, PassFails, Restart, vars

\* A query that reads the hot tier before the cold one misses no row of the tiers that a
\* pass moves or deletes while it runs, except for spans it walked to between their eviction
\* and their arrival in the cold tier; logs, metrics and traces that are read by key miss none.
THEOREM QueriesMissOnlyLateSpans == Spec => []MissesOnlyLateSpans
<1>1. Init => QueryInv
  BY DEF Init, NoQuery, QueryInv, QueryFair, WalkFair, QueryShape, QueryCovers
<1>2. QueryInv => MissesOnlyLateSpans
  BY DEF QueryInv, QueryCovers, MissesOnlyLateSpans
<1>3. Spec => []QueryInv
  BY <1>1, QueryStep, TierInvariance, PTL DEF Spec
<1> QED BY <1>2, <1>3, PTL

-----------------------------------------------------------------------------
(* Types.                                                                  *)

\* Of a finite set of objects, some number up to its size is the copy of none.
LEMMA FreeCopy ==
  ASSUME NEW S, IsFiniteSet(S)
  PROVE  \E n \in 0 .. Cardinality(S) : \A o \in S : o.copy # n
<1> SUFFICES ASSUME \A n \in 0 .. Cardinality(S) : \E o \in S : o.copy = n PROVE FALSE
  OBVIOUS
<1>1. Cardinality(S) \in Nat
  BY FS_CardinalityType
<1> DEFINE ns == 0 .. Cardinality(S)
           f == [n \in ns |-> CHOOSE o \in S : o.copy = n]
<1>2. \A n \in ns : f[n] \in S /\ f[n].copy = n
  OBVIOUS
<1>3. f \in [ns -> S]
  BY <1>2
<1>4. IsFiniteSet(ns) /\ Cardinality(ns) = Cardinality(S) + 1
  BY <1>1, FS_Interval
<1>5. Cardinality(S) < Cardinality(ns)
  BY <1>1, <1>4
<1> HIDE DEF f, ns
<1>6. \E a, b \in ns : a # b /\ f[a] = f[b]
  BY <1>3, <1>4, <1>5, FS_PigeonHole
<1> QED BY <1>2, <1>6

TierTypes == TypeOK /\ IsFiniteSet(cold)

\* An object that is put has a copy number of its own.
LEMMA PutTypes ==
  ASSUME TierTypes, TierInv, NEW root \in Roots, PutNext(root), pass.at \in {"writing", "rolling"}
  PROVE  /\ IsFiniteSet(cold')
         /\ \A o \in cold' : o.root \in Roots /\ o.hour \in Nat /\ o.rows \subseteq Rows /\ o.copy \in Nat
<1>1. PICK hour \in pass.todo :
        cold' = Put(root, hour, {r \in pass.moving : Partition(root, r) = hour})
  BY DEF PutNext
<1> DEFINE here  == {r \in pass.moving : Partition(root, r) = hour}
           twins == {o \in cold : o.root = root /\ o.hour = hour /\ o.rows = here}
           free  == CHOOSE n \in 0 .. Cardinality(twins) : \A o \in twins : o.copy # n
           new   == [root |-> root, hour |-> hour, rows |-> here, copy |-> free]
<1>2. hour \in Nat /\ here \subseteq Rows
  BY DEF TierInv, PassOK
<1>3. IsFiniteSet(twins) /\ Cardinality(twins) \in Nat
  BY FS_Subset, FS_CardinalityType DEF TierTypes
<1>4. free \in Nat
  <2>1. \E n \in 0 .. Cardinality(twins) : \A o \in twins : o.copy # n
    BY <1>3, FreeCopy
  <2> DEFINE size == Cardinality(twins)
             Unused(n) == \A o \in twins : o.copy # n
  <2>2. size \in Nat /\ (\E n \in 0 .. size : Unused(n)) /\ free = (CHOOSE n \in 0 .. size : Unused(n))
    BY <1>3, <2>1
  <2> HIDE DEF size, Unused, free
  <2>3. free \in 0 .. size
    BY <2>2
  <2> QED BY <2>2, <2>3
<1>5. cold' = cold \cup {new}
  BY <1>1 DEF Put
<1> HIDE DEF here, twins, free
<1>6. new.root = root /\ new.hour = hour /\ new.rows = here /\ new.copy = free
  OBVIOUS
<1> HIDE DEF new
<1>7. IsFiniteSet(cold')
  BY <1>5, FS_AddElement DEF TierTypes
<1> QED BY <1>2, <1>4, <1>5, <1>6, <1>7 DEF TierTypes, TypeOK

\* Every step keeps the types; those of the tiers and the pass are in TierInv.
LEMMA TypesStep == TierTypes /\ TierInv /\ [Next]_vars => TierTypes'
<1> SUFFICES ASSUME TierTypes, TierInv, [Next]_vars PROVE TierTypes'
  OBVIOUS
<1>1. PassOK' /\ hot' \subseteq Rows /\ unread' \subseteq Rows /\ acked' \subseteq Rows
  BY TierStep DEF TierInv, RowsOK
<1>2. now' \in 0 .. MaxTime
  <2>1. now' = now \/ (now' = now + 1 /\ now < MaxTime)
    BY DEF Next, Store, Tick, Write, Insert, Checkpoint, Maintain, StartPass, Scan, Evict, Evicted,
       WritePartition, Written, WriteRollup, RolledUp, Drop, FinishPass, PassFails, Crash,
       Restart, Read, ReadHot, GetSpan, ListCold, Fetch, Answer, vars
  <2> QED BY <2>1, TierAssumption DEF TierTypes, TypeOK
<1>3. phase' \in {"up", "down"}
  BY DEF Next, Store, Tick, Write, Insert, Checkpoint, Maintain, StartPass, Scan, Evict, Evicted,
     WritePartition, Written, WriteRollup, RolledUp, Drop, FinishPass, PassFails, Crash,
     Restart, Read, ReadHot, GetSpan, ListCold, Fetch, Answer, vars, TierTypes, TypeOK
<1>4. query'.at \in {"none", "walking", "fetching"}
  <2>1. CASE query' = query
    BY <2>1 DEF TierTypes, TypeOK
  <2>0. CASE \E r \in query.todo : GetSpan(r)
    <3>1. PICK d, s, l : query' = [query EXCEPT !.todo = d, !.seen = s, !.slipped = l]
      BY <2>0 DEF GetSpan
    <3> QED BY <2>0, <3>1 DEF GetSpan, TierTypes, TypeOK
  <2>2. CASE \E o \in query.keys : Fetch(o)
    <3>1. PICK s, k : query' = [query EXCEPT !.keys = k, !.seen = s]
      BY <2>2 DEF Fetch
    <3> QED BY <2>2, <3>1 DEF Fetch, TierTypes, TypeOK
  <2>3. CASE Crash \/ Answer \/ ListCold \/ \E ask \in Asked : ReadHot(ask)
    BY <2>3 DEF Crash, Answer, ListCold, ReadHot, NoQuery
  <2> QED BY <2>0, <2>1, <2>2, <2>3 DEF Next, Store, Tick, Write, Insert, Checkpoint, Maintain, StartPass, Scan, Evict,
          Evicted, WritePartition, Written, WriteRollup, RolledUp, Drop, FinishPass, PassFails,
          Restart, Read, vars
<1>5. cut' \subseteq Rows
  <2>1. cut' = cut \/ \E kept : cut' = cut \cup (Moving \ kept)
    BY DEF Next, Store, Tick, Write, Insert, Checkpoint, Maintain, StartPass, Scan, Evict, Evicted,
       WritePartition, Written, WriteRollup, RolledUp, Drop, FinishPass, PassFails, Crash,
       Restart, Read, ReadHot, GetSpan, ListCold, Fetch, Answer, vars, ledger
  <2>2. Moving \subseteq Rows
    BY DEF Moving, TierInv, PassOK
  <2> QED BY <2>1, <2>2 DEF TierTypes, TypeOK
<1>6. mishaps' \in [failures : 0 .. MaxFailures, crashes : 0 .. MaxCrashes]
  <2>1. PICK f \in 0 .. MaxFailures, c \in 0 .. MaxCrashes : mishaps = [failures |-> f, crashes |-> c]
    BY DEF TierTypes, TypeOK
  <2>2. CASE PassFails
    BY <2>1, <2>2, TierAssumption DEF PassFails
  <2>3. CASE Crash
    BY <2>1, <2>3, TierAssumption DEF Crash
  <2>4. CASE mishaps' = mishaps
    BY <2>4 DEF TierTypes, TypeOK
  <2> QED BY <2>2, <2>3, <2>4 DEF Next, Store, Tick, Write, Insert, Checkpoint, Maintain, StartPass, Scan, Evict,
          Evicted, WritePartition, Written, WriteRollup, RolledUp, Drop, FinishPass,
          Restart, Read, ReadHot, GetSpan, ListCold, Fetch, Answer, vars, ledger
<1>7. /\ IsFiniteSet(cold')
      /\ \A o \in cold' : o.root \in Roots /\ o.hour \in Nat /\ o.rows \subseteq Rows /\ o.copy \in Nat
  <2>1. CASE WritePartition
    <3>1. pass.signal \in Roots
      BY <2>1 DEF WritePartition, TierInv, PassOK, Roots
    <3> QED BY <2>1, <3>1, PutTypes DEF WritePartition
  <2>2. CASE WriteRollup
    BY <2>2, PutTypes DEF WriteRollup, Roots
  <2>3. CASE cold' = cold
    BY <2>3 DEF TierTypes, TypeOK
  <2>4. CASE \E o \in cold : Drop(o)
    <3>1. cold' \subseteq cold
      BY <2>4 DEF Drop
    <3> QED BY <3>1, FS_Subset DEF TierTypes, TypeOK
  <2> QED BY <2>1, <2>2, <2>3, <2>4 DEF Next, Store, Tick, Write, Insert, Checkpoint, Maintain, StartPass, Scan,
          Evict, Evicted, Written, RolledUp, FinishPass, PassFails, Crash, Restart, Read, ReadHot, GetSpan, ListCold,
          Fetch, Answer, vars, tiers
<1> QED BY <1>1, <1>2, <1>3, <1>4, <1>5, <1>6, <1>7 DEF TierTypes, TypeOK

\* Rows, objects, pass and reader keep their types; in particular an object never
\* takes the place of another one of its partition.
THEOREM TierTypeOK == Spec => []TypeOK
<1>1. Init => TierTypes
  BY TierAssumption, FS_EmptySet DEF Init, TierTypes, TypeOK, PassOK, NoPass, NoQuery
<1>2. TierTypes => TypeOK
  BY DEF TierTypes
<1>3. Spec => []TierTypes
  BY <1>1, TypesStep, TierInvariance, PTL DEF Spec
<1> QED BY <1>2, <1>3, PTL
=============================================================================
