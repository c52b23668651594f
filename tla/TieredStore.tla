---------------------------- MODULE TieredStore ----------------------------
(***************************************************************************)
(* The two storage tiers of tael-server and the maintenance pass that      *)
(* moves rows between them: hot.rs (HotTier), cold.rs (ColdTier),          *)
(* compaction and retention in backend/mod.rs, the pass of lib.rs          *)
(* (spawn_span_compactor) and the cutoffs of retention.rs.                 *)
(*                                                                         *)
(* A row is a value with a signal and a timestamp; the unit of time is the *)
(* hour, the granularity of a cold partition.  The pass evicts, writes and *)
(* drops one row, one partition or one object at a time, and inserts,      *)
(* queries, object store errors and the death of the process come between  *)
(* any two of those steps.  The log is what module WalLog establishes of   *)
(* it: the rows since the last checkpoint, applied again by a start-up.    *)
(* An update in place, which can leave span indexes stale, is abstracted.  *)
(***************************************************************************)
EXTENDS Integers, FiniteSets

CONSTANTS
  Rows,         \* what clients insert
  Signal,       \* the signal of each row
  Time,         \* the timestamp of each row
  HoursPerDay,  \* 24, scaled down for TLC
  HotHours,     \* RetentionPolicy.hot_tier_hours
  Keep,         \* RetentionPolicy, per root, in days
  Asked,        \* what readers ask for, and how they read the hot tier: [signal, since, by]
  MaxTime,      \* bound: the last hour of a behaviour
  MaxFailures,  \* bound: storage errors that end a pass
  MaxCrashes    \* bound: deaths of the process

Signals == {"spans", "logs", "metrics"}
Roots   == Signals \cup {"metrics_5m"}

ASSUME TierAssumption ==
  /\ Signal \in [Rows -> Signals] /\ Time \in [Rows -> Nat]
  /\ HoursPerDay \in Nat \ {0} /\ HotHours \in Nat
  /\ Keep \in [Roots -> Nat]
  /\ Asked \subseteq [signal : Signals, since : Nat, by : {"keys", "index"}]
  /\ \A ask \in Asked : ask.by = "index" => ask.signal = "spans"
  /\ MaxTime \in Nat /\ MaxFailures \in Nat /\ MaxCrashes \in Nat

VARIABLES
  now,      \* the hour
  hot,      \* rows in the hot tier
  unread,   \* rows of log records that no checkpoint has consumed
  cold,     \* objects of the cold tier
  acked,    \* rows whose insert has returned
  phase,    \* of the process: "up" or "down"
  pass,     \* the maintenance pass
  query,    \* one reader of both tiers
  cut,      \* history: rows whose move to cold ended before it was complete
  mishaps   \* history: storage errors and deaths so far

vars == <<now, hot, unread, cold, acked, phase, pass, query, cut, mishaps>>

tiers  == <<hot, unread, cold>>
ledger == <<acked, cut, mishaps>>

\* The pass between two ticks, and the reader between two queries.
NoPass  == [at |-> "rest"]
NoQuery == [at |-> "none"]

Day(t) == t \div HoursPerDay

\* Mutant: a rollup is filed under the day before the one of its bucket.
PartitionEarly(root, r) ==
  IF root = "metrics_5m" THEN (Day(Time[r]) - 1) * HoursPerDay ELSE Time[r]

\* The partition a row is written to, under each root: raw rows by hour, rollups
\* (whose buckets never leave the day of their points) by day.
Partition(root, r) ==
  IF root = "metrics_5m" THEN Day(Time[r]) * HoursPerDay ELSE Time[r]

Window(root) == Keep[root] * HoursPerDay

\* Mutant: the date of the cutoff itself goes too.
ExpiredInclusive(root, hour, clock) == Day(hour) <= Day(clock - Window(root))

\* drop_partitions_per_signal: the date of the object against that of the cutoff.
Expired(root, hour, clock) == Day(hour) < Day(clock - Window(root))

\* An object is [root, hour, rows, copy]; `copy` stands for the ulid of its key,
\* which keeps two objects with the same rows apart.
Put(root, hour, rows) ==
  LET twins == {o \in cold : o.root = root /\ o.hour = hour /\ o.rows = rows}
      free  == CHOOSE n \in 0 .. Cardinality(twins) : \A o \in twins : o.copy # n
  IN  cold \cup {[root |-> root, hour |-> hour, rows |-> rows, copy |-> free]}

InCold(root, r) == \E o \in cold : o.root = root /\ r \in o.rows

Moving == IF pass.at \in {"evicting", "writing", "rolling"} THEN pass.moving ELSE {}

Init ==
  /\ now = 0
  /\ hot = {} /\ unread = {} /\ cold = {} /\ acked = {}
  /\ phase = "up" /\ pass = NoPass /\ query = NoQuery
  /\ cut = {} /\ mishaps = [failures |-> 0, crashes |-> 0]

Tick ==
  /\ now < MaxTime /\ now' = now + 1
  /\ UNCHANGED <<tiers, ledger, phase, pass, query>>

-----------------------------------------------------------------------------
(* Writers.                                                                *)

\* insert_*: appended to the log, applied to the hot tier, acknowledged.  A row
\* may be late, but is never stamped later than the clock.
Insert(r) ==
  /\ phase = "up" /\ r \notin acked /\ Time[r] <= now
  /\ hot' = hot \cup {r} /\ unread' = unread \cup {r}
  /\ acked' = acked \cup {r}
  /\ UNCHANGED <<now, cold, cut, mishaps, phase, pass, query>>

\* A checkpoint: the log forgets what it has seen applied.
Checkpoint ==
  /\ phase = "up" /\ unread # {}
  /\ unread' = {}
  /\ UNCHANGED <<now, hot, cold, ledger, phase, pass, query>>

-----------------------------------------------------------------------------
(* The maintenance pass: spans, logs, metrics and rollups, retention.      *)

After(signal) == CASE signal = "spans" -> "logs"
                   [] signal = "logs"  -> "metrics"
                   [] OTHER            -> "drop"

\* The pass turns to the next signal, or to retention when all are compacted.
Advance(signal) ==
  pass' = IF After(signal) = "drop" THEN [at |-> "dropping", clock |-> pass.clock]
          ELSE [at |-> "scanning", signal |-> After(signal), clock |-> pass.clock]

\* The tick of the interval: one clock for the whole pass.
StartPass ==
  /\ phase = "up" /\ pass.at = "rest"
  /\ pass' = [at |-> "scanning", signal |-> "spans", clock |-> now]
  /\ UNCHANGED <<now, tiers, ledger, phase, query>>

Aged == {r \in hot : Signal[r] = pass.signal /\ Time[r] < pass.clock - HotHours}

\* evict_*_before: read what is older than the cutoff.
Scan ==
  /\ pass.at = "scanning"
  /\ IF Aged = {} THEN Advance(pass.signal)
     ELSE pass' = [at |-> "evicting", signal |-> pass.signal, clock |-> pass.clock,
                   moving |-> Aged]
  /\ UNCHANGED <<now, tiers, ledger, phase, query>>

\* evict_*_before: remove the rows one by one.
Evict(r) ==
  /\ pass.at = "evicting" /\ r \in pass.moving \cap hot
  /\ hot' = hot \ {r}
  /\ UNCHANGED <<now, unread, cold, ledger, phase, pass, query>>

Partitions(root) == {Partition(root, r) : r \in pass.moving}

Writing(root) ==
  [at |-> IF root = "metrics_5m" THEN "rolling" ELSE "writing",
   signal |-> pass.signal, clock |-> pass.clock, moving |-> pass.moving,
   todo |-> Partitions(root)]

\* evict_*_before persists and returns; write_* groups the rows by partition.
Evicted ==
  /\ pass.at = "evicting" /\ pass.moving \cap hot = {}
  /\ pass' = Writing(pass.signal)
  /\ UNCHANGED <<now, tiers, ledger, phase, query>>

\* Mutant: the first partition is taken for the whole batch.
PutFirstOnly(root) ==
  \E hour \in pass.todo :
    /\ \A other \in pass.todo : hour <= other
    /\ cold' = Put(root, hour, {r \in pass.moving : Partition(root, r) = hour})
    /\ pass' = [pass EXCEPT !.todo = {}]

\* put_parquet of the partitions in order, each one atomic object.
PutNext(root) ==
  \E hour \in pass.todo :
    /\ \A other \in pass.todo : hour <= other
    /\ cold' = Put(root, hour, {r \in pass.moving : Partition(root, r) = hour})
    /\ pass' = [pass EXCEPT !.todo = @ \ {hour}]

\* write_spans, write_logs, write_metrics.
WritePartition ==
  /\ pass.at = "writing" /\ pass.todo # {}
  /\ PutNext(pass.signal)
  /\ UNCHANGED <<now, hot, unread, ledger, phase, query>>

\* Mutant: the raw metrics are written and never downsampled.
WrittenWithoutRollup ==
  /\ pass.at = "writing" /\ pass.todo = {}
  /\ Advance(pass.signal)
  /\ UNCHANGED <<now, tiers, ledger, phase, query>>

\* Raw metrics are followed by their rollups, the other signals by the next one.
Written ==
  /\ pass.at = "writing" /\ pass.todo = {}
  /\ IF pass.signal = "metrics" THEN pass' = Writing("metrics_5m") ELSE Advance(pass.signal)
  /\ UNCHANGED <<now, tiers, ledger, phase, query>>

\* write_downsampled: the 5-minute buckets of the points, one object per day.
WriteRollup ==
  /\ pass.at = "rolling" /\ pass.todo # {}
  /\ PutNext("metrics_5m")
  /\ UNCHANGED <<now, hot, unread, ledger, phase, query>>

RolledUp ==
  /\ pass.at = "rolling" /\ pass.todo = {}
  /\ Advance(pass.signal)
  /\ UNCHANGED <<now, tiers, ledger, phase, query>>

Rank == [root \in Roots |-> CASE root = "spans" -> 1 [] root = "logs" -> 2
                              [] root = "metrics" -> 3 [] OTHER -> 4]

\* Mutant: the roots of drop_partitions_before, which leaves rollups alone.
DoomedRawOnly == {o \in cold : o.root # "metrics_5m" /\ Expired(o.root, o.hour, pass.clock)}

\* The objects that enforce_retention has to delete.
Doomed == {o \in cold : Expired(o.root, o.hour, pass.clock)}

\* enforce_retention: delete one expired object, root by root.
Drop(o) ==
  /\ pass.at = "dropping" /\ o \in Doomed
  /\ \A other \in Doomed : Rank[o.root] <= Rank[other.root]
  /\ cold' = cold \ {o}
  /\ UNCHANGED <<now, hot, unread, ledger, phase, pass, query>>

\* Nothing expired is left; the pass is over until the next tick.
FinishPass ==
  /\ pass.at = "dropping" /\ Doomed = {}
  /\ pass' = NoPass
  /\ UNCHANGED <<now, tiers, ledger, phase, query>>

\* A storage error: `?` ends the pass and drops what it held in memory.
PassFails ==
  /\ pass.at # "rest" /\ mishaps.failures < MaxFailures
  /\ mishaps' = [mishaps EXCEPT !.failures = @ + 1]
  /\ cut' = cut \cup (Moving \ hot)
  /\ pass' = NoPass
  /\ UNCHANGED <<now, tiers, acked, phase, query>>

-----------------------------------------------------------------------------
(* A reader of both tiers.                                                 *)

\* query_* and get_trace: the hot tier first.  query_logs, query_metrics and get_trace read
\* the rows themselves, in one scan; query_traces walks a snapshot of an index and gets
\* the span of each entry as it is by then.  `owed` is what a reader would count on: every
\* row that one of the tiers shows as the query begins.
ReadHot(ask) ==
  /\ phase = "up" /\ query.at = "none"
  /\ LET asked == {r \in acked : Signal[r] = ask.signal /\ Time[r] >= ask.since}
     IN  query' = [at |-> "walking", signal |-> ask.signal, since |-> ask.since,
                   owed |-> {r \in asked : r \in hot \/ InCold(ask.signal, r)},
                   todo |-> IF ask.by = "index" THEN asked \cap hot ELSE {},
                   seen |-> IF ask.by = "index" THEN {} ELSE asked \cap hot,
                   slipped |-> {}]
  /\ UNCHANGED <<now, tiers, ledger, phase, pass>>

\* scan_spans: the newest entry of the walk that is left; its span may be evicted.
GetSpan(r) ==
  /\ query.at = "walking" /\ r \in query.todo
  /\ \A other \in query.todo : Time[other] <= Time[r]
  /\ query' = [query EXCEPT !.todo = @ \ {r},
                            !.seen = @ \cup ({r} \cap hot), !.slipped = @ \cup ({r} \ hot)]
  /\ UNCHANGED <<now, tiers, ledger, phase, pass>>

\* Mutant: the hour that holds `since` is pruned with the ones before it.
MayContainStrict(hour, since) == Day(hour) > Day(since) \/ (Day(hour) = Day(since) /\ hour > since)

\* partition_may_contain_since.
MayContain(hour, since) == Day(hour) > Day(since) \/ (Day(hour) = Day(since) /\ hour >= since)

\* for_each_row: list the objects of the signal that pruning leaves.  `late` are the spans
\* evicted before the walk came to them and not yet in the cold tier, as their pass is
\* still at it or was cut short.
ListCold ==
  /\ query.at = "walking" /\ query.todo = {}
  /\ query' = [at |-> "fetching", signal |-> query.signal, since |-> query.since,
               owed |-> query.owed, seen |-> query.seen,
               keys |-> {o \in cold : o.root = query.signal /\ MayContain(o.hour, query.since)},
               late |-> {r \in query.slipped \cap (Moving \cup cut) : ~InCold(query.signal, r)}]
  /\ UNCHANGED <<now, tiers, ledger, phase, pass>>

\* for_each_row: get one object, which retention may have deleted meanwhile.
Fetch(o) ==
  /\ query.at = "fetching" /\ o \in query.keys
  /\ query' = [query EXCEPT !.keys = @ \ {o},
                            !.seen = @ \cup (IF o \in cold
                                             THEN {r \in o.rows : Time[r] >= query.since}
                                             ELSE {})]
  /\ UNCHANGED <<now, tiers, ledger, phase, pass>>

\* The result goes to the caller.
Answer ==
  /\ query.at = "fetching" /\ query.keys = {}
  /\ query' = NoQuery
  /\ UNCHANGED <<now, tiers, ledger, phase, pass>>

-----------------------------------------------------------------------------
(* The process dies, and starts again.                                     *)

\* What an eviction had not yet persisted may be undone.
Crash ==
  /\ phase = "up" /\ mishaps.crashes < MaxCrashes
  /\ mishaps' = [mishaps EXCEPT !.crashes = @ + 1]
  /\ phase' = "down" /\ pass' = NoPass /\ query' = NoQuery
  /\ \E undone \in SUBSET (IF pass.at = "evicting" THEN pass.moving \ hot ELSE {}) :
       /\ hot' = hot \cup undone
       /\ cut' = cut \cup (Moving \ hot')
  /\ UNCHANGED <<now, unread, cold, acked>>

\* Open the backend: replay() applies what the log still holds.
Restart ==
  /\ phase = "down" /\ phase' = "up"
  /\ hot' = hot \cup unread /\ unread' = {}
  /\ UNCHANGED <<now, cold, ledger, pass, query>>

-----------------------------------------------------------------------------

Write == (\E r \in Rows : Insert(r)) \/ Checkpoint

Maintain ==
  \/ StartPass \/ Scan \/ (\E r \in Rows : Evict(r)) \/ Evicted
  \/ WritePartition \/ Written \/ WriteRollup \/ RolledUp
  \/ (\E o \in cold : Drop(o)) \/ FinishPass

Read ==
  \/ \E ask \in Asked : ReadHot(ask)
  \/ query.at = "walking" /\ \E r \in query.todo : GetSpan(r)
  \/ ListCold
  \/ query.at = "fetching" /\ \E o \in query.keys : Fetch(o)
  \/ Answer

Store == Tick \/ Write \/ Maintain \/ PassFails \/ Crash \/ Restart

Next == Store \/ Read

Spec == Init /\ [][Next]_vars

-----------------------------------------------------------------------------
(* Properties.                                                             *)

\* The shapes of the pass.
PassOK ==
  pass \in [at : {"rest"}]
      \cup [at : {"scanning"}, signal : Signals, clock : Nat]
      \cup [at : {"evicting"}, signal : Signals, clock : Nat, moving : SUBSET Rows]
      \cup [at : {"writing", "rolling"}, signal : Signals, clock : Nat,
            moving : SUBSET Rows, todo : SUBSET Nat]
      \cup [at : {"dropping"}, clock : Nat]

TypeOK ==
  /\ now \in 0 .. MaxTime
  /\ hot \subseteq Rows /\ unread \subseteq Rows /\ acked \subseteq Rows /\ cut \subseteq Rows
  /\ \A o \in cold : o.root \in Roots /\ o.hour \in Nat /\ o.rows \subseteq Rows /\ o.copy \in Nat
  /\ phase \in {"up", "down"}
  /\ PassOK
  /\ query.at \in {"none", "walking", "fetching"}
  /\ mishaps \in [failures : 0 .. MaxFailures, crashes : 0 .. MaxCrashes]

\* Past its window: retention may have dropped the row.
Outdated(root, r) == Expired(root, Partition(root, r), now)

\* An acknowledged row within its window is in one of the tiers, in the hands of
\* the pass, or about to be replayed: the only rows that can go missing are those
\* whose move to the cold tier an error or a crash cut short.
OnlyCutMovesLose ==
  \A r \in acked :
    \/ r \in hot \/ InCold(Signal[r], r) \/ r \in Moving
    \/ phase = "down" /\ r \in unread
    \/ Outdated(Signal[r], r) \/ r \in cut

\* Trends outlive the points they summarise: a metric point that has left the
\* hot tier is in a rollup as long as the rollup window lasts, whether or not
\* its raw partition is still there (retention.rs, mod.rs).
TrendsSurvive ==
  \A r \in acked :
    Signal[r] = "metrics" =>
      \/ r \in hot \/ InCold("metrics_5m", r) \/ r \in Moving
      \/ phase = "down" /\ r \in unread
      \/ Outdated("metrics_5m", r) \/ r \in cut

\* A query returns every row that was in either tier when it began, however a pass moves
\* rows from one to the other while it runs: it reads the hot tier first.  Rows whose
\* window ends meanwhile may be missing; and so may spans that a walk of an index comes to
\* after their eviction, if the cold tier is then listed before the pass has written them
\* or after an error has cut it short.  TLC refutes it without `late`.
MissesOnlyLateSpans ==
  query.at = "fetching" /\ query.keys = {} =>
    \A r \in query.owed :
      \/ r \in query.seen \/ Outdated(query.signal, r)
      \/ query.signal = "spans" /\ r \in query.late

\* A row is dropped with its partition only when it is itself older than the
\* window of its signal, although windows are compared by date.
KeptForItsWindow ==
  [][\A o \in cold \ cold' : \A r \in o.rows : Time[r] < now - Window(o.root)]_vars

Lingers(r) == \E o \in cold : r \in o.rows /\ Outdated(o.root, r)

\* What has expired is eventually deleted, also when an error or a crash leaves
\* a partition half dropped: "a re-run finishes" (cold.rs).  As the clock stops at
\* MaxTime, all that has expired is gone at some time.
ExpiredIsDropped == []<>(\A r \in Rows : ~Lingers(r))

\* The comment of compact_spans: "if we crash between, the spans remain in the
\* DuckDB projection and the WAL", so that a crash of a pass loses no span.
CrashedCompactionLosesNothing ==
  \A r \in acked :
    phase = "up" /\ Signal[r] = "spans" /\ r \notin Moving =>
      r \in hot \/ InCold("spans", r) \/ Outdated("spans", r)
=============================================================================
