# tael in TLA+

A verification project for tael: the observability store `tael-server` (traces, logs and metrics arrive
over OTLP and a few other protocols, go through a write-ahead log into a hot tier, are moved to a cold tier of
partitioned objects, and are replicated to standbys), and its clients: a command line, a terminal UI and a desktop GUI.

It contains TLA+ modules for the parts whose correctness depends on order, failure and
concurrency, TLC configurations that check them on small instances, and TLAPS proofs of the most
important safety properties for all values of the constants. Line numbers refer to the sources
in this repository; `PROJECT.json` maps every definition to the lines it stands for.

    tlc -workers 2 -config WalLog_safety.cfg MCWalLog.tla      # one run
    tlapm WalLog_proofs.tla                                     # the proofs of one module

1 inventory; 2 modules and plan; 3 runs; 4 log; 5 tiers and span indexes; 6 cluster; 7 ingest and blobs; 8 alerts,
scoring, suites, evals; 9 shards, keys, comments; 10 user interfaces; 11 proofs; 12 findings; 13 assumptions; 14 what is not modelled.

## 1. Inventory

Paths are relative to `src/tael-server/src/` unless they begin with `tael-`.

| component | state | operations | talks to | what is hard | status |
|---|---|---|---|---|---|
| **Write-ahead log** `storage/backend/wal.rs` | walrus topic, durable read cursor, `Progress { in_flight, applied }`, the `wal` mutex (append gate) | `append`, `mark_applied`, `checkpoint`, `drain` | the engine above it, sinks | a checkpoint waits for writers on other threads while it keeps all new ones out; the cursor is durable, the counters are not | modelled |
| **Storage engine** `storage/backend/mod.rs` | the two tiers, the log | `insert_*`, `apply_framed_wal`, `replay`, `flush`, `compact_*`, `enforce_retention`, queries | log, tiers, maintenance | redo after a crash, partial failure on the write path | partly |
| **Hot tier** `backend/hot.rs` | fjall partitions and their secondary indexes | insert, evict, scan, persist | engine | in-place updates and index entries; eviction concurrent with inserts | partly: spans |
| **Cold tier** `backend/cold.rs` | parquet objects keyed by date and hour | write by partition, rollups, drop by date, pruned reads | object store | a batch is many objects; keys are compared as text | modelled |
| **Maintenance and retention** `lib.rs`, `retention.rs` | a clock per pass | compact, downsample, drop, collect blobs | engine, blobs, cluster | rows in transit between tiers, errors in the middle of a pass | modelled but for the policy's syntax |
| **Blob store** `storage/blobs.rs` | content-addressed payload objects, possibly shared by nodes | put, mark and sweep | ingest, maintenance, peers | a sweep that races an ingest | modelled |
| **Cluster** `cluster/` | membership view, `is_leader`, `leader_epoch`, `EpochFencer.highest` | election tick, `check_and_advance` | chitchat, sinks | delayed and differing views, lost memory on restart | modelled |
| **Replication** `storage/remote.rs`, `api/rest.rs` | none beyond the two above | ship, check and apply | log, cluster | lost answers, late requests, two-step admission | modelled but for the standby's own log |
| **Fan-out** `storage/fanout.rs` | a list of shards | routed inserts, merged reads | shards | partial failure across shards | partly |
| **Alerts** `alerts.rs`, `lib.rs` | rules, states by name, recent events, their file | create, delete, evaluate, publish, save | store, notifier | evaluation on a copy of rules that change meanwhile | modelled |
| **Online scoring** `scoring.rs`, `lib.rs` | rules, status, memory of scored traces, their file | create, delete, select, judge, record | store, judges | a loop that waits; a bounded memory shared by rules | modelled |
| **Eval suites** `suites.rs` | working sets, snapshots, their file | push, freeze, resolve | REST | two saves through one temporary file | modelled |
| **Eval runs** `tael-cli/…/eval.rs`, `api/rest.rs` | spans and score points of a run | run, upload, summarise, compare | ingest, REST | retries, order of arrival | modelled |
| **Ingest** `ingest/` | admission limits, cardinality sets | decode, blob, insert, index, publish | engine, blobs, search, buses | the order of effects when one of them fails | modelled but for wire formats |
| **Search index** `storage/search.rs` | an index of payload text | add, commit | ingest | index and rows can disagree | as ingest uses it |
| **Comments** `storage/comments/`, `tael-cli/…/review.rs` | JSONL file and map, or Postgres; review questions kept in them | add, list, ask, answer | REST | order on disk and in memory | modelled |
| **Buses** `span_bus.rs`, `log_bus.rs` | a broadcast channel | publish, subscribe | ingest, live tail | lagging subscribers | publication only |
| **API keys** `auth.rs`, `api/authz.rs`, `tael-cli/…/auth.rs` | keystore file, its cached copy | create, revoke, authenticate | REST, gRPC | a file that other processes rewrite | modelled |
| **Terminal UI** `tael-cli/src/tui*.rs` | lists, filters, selections, open trace, panels | one loop of keys, ticks and messages | REST, SSE | what is selected, what is shown and what was asked for are three things | partly |
| **Desktop GUI** `tael-gui/` | the same, and requests under way | clicks, timer, streams | REST, SSE | answers cross | partly |
| **Query languages** `promql.rs`, `sql.rs`; **similarity** | none | evaluate | engine | pure | not modelled |
| **Object stores, codec, config, migration, DuckDB** | files | I/O, serialisation | | | not modelled |

How they interact. A request thread passes the admission gate and runs decode, blob put, `insert_*` (log append, ship to the
standbys, apply to the hot tier, mark applied and, for one writer in every `CHECKPOINT_INTERVAL`,
a checkpoint), then index and publish, in an order that depends on the pipeline. A maintenance thread runs one pass per
interval over the same tiers and collects blobs at its end. A gossip task and an election task per node decide which
epoch the shipped records carry. The alert evaluator and the scoring loop are tasks with a clock each, over tables that requests edit and save.
Start-up replays the log before any port opens.

What makes each component correct:

* log: a record is consumed only after its effect is durable; no acknowledged record is lost;
  no writer waits for ever; a restart has a bounded amount to apply again;
* tiers: a row within its window is readable all the time, in transit too; a row beyond it goes;
  a rollup outlives the points it summarises; indexes are exact when left alone and scans miss nothing that is;
* cluster and replication: an acknowledged record is on the standbys it is said to be on; a
  deposed leader is not confirmed; one leader remains in the end;
* ingest and blobs: whatever is indexed or announced has a row; limits hold; no referenced blob is swept and every orphan goes;
* fan-out: a read misses nothing that a shard which answers holds; a trace lands whole or not at all;
* alerts: a rule fires after its condition held as long as the rule asks, and only then; what is published alternates; confirmed rules are saved;
* scoring and evals: nothing is counted that is not there or counted twice, and every rule gets its turn;
* suites, keys, comments: what a reference stands for stays; requests are judged by keys that were in the file; reviews show what was asked and answered;
* user interfaces: what is on screen belongs to what is selected, and a comment goes where it was meant.

`PROJECT.json` lists 40 hazards, each at the line where it bites, with the properties that cover it.

## 2. Modules and plan

| module | models | proofs |
|---|---|---|
| `WalLog`, `DurableStore`, `WalLogRefines` | log, write path, checkpoint, replay; the abstract store; the refinement | `WalLog_proofs` |
| `TieredStore` | tiers, maintenance pass, union reads | `TieredStore_proofs` |
| `SpanIndex` | span keyspaces of the hot tier: inserts, evictions, scans | `SpanIndex_proofs` |
| `Cluster` | elections, epochs, fence, shipping | `Cluster_proofs` |
| `Ingest`, `BlobGC` | admission, five pipelines, search index, publication; uploads, mark and sweep on several nodes | `Datapath_proofs` |
| `Comments` | comments and reviews | `Datapath_proofs` |
| `RuleFile` | a save through a shared temporary file; used by `Alerts` and `Suites` | with these |
| `Alerts`, `Scoring`, `EvalRuns` | alert rules, evaluator, events; score rules and their loop; eval runs and comparisons | `Services_proofs` |
| `Fanout`, `Keys`, `Suites` | sharded store; API keys; eval suites | `Stores_proofs` |
| `Gui`, `Tui` | the two user interfaces | `Clients_proofs` |

`MC…` modules hold the instances. Components that do not interact share a run: the variable `subject` of
`MCDatapath`, `MCStores`, `MCServices`, `MCClients` and `MCUpkeep` picks one of them at the start, and only its
variables move, so that a run explores the sum of their state spaces and not the product. They extend the modules of their components, so that the definitions a run checks are the ones the
proofs are about; further instances of a component are `INSTANCE`s (the cluster and the GUI of `MCUpkeep`). Where one run wants a component in two configurations, the start chooses between them: `MCDatapath` starts nodes with limits and nodes without, and `MCServices` restricts `Alerts` to one client (`OneClient`) or to several on a slow disk (`SlowDisk`).

What composes what. `WalLogRefines` puts the log under the abstract store. `TieredStore` uses of the
log what `WalLog` establishes (the rows since the last checkpoint come back at start-up).
`Cluster` uses of it that what is appended survives the death of a process. `BlobGC` moves rows between tiers as `TieredStore`'s pass does,
and lets ownership change hands as freely as `Cluster` does: any node may believe to lead at any time. `Alerts` and `Suites` instantiate `RuleFile`
for their saves. `limits`, a variable of `Ingest` that never changes, is the configuration of a node.

Left in the plan: the reports of `api/rest.rs` (issues, diagnosis,
experiments) and the `watch` command of the CLI as further modules; PromQL evaluation as operators against a reference.

## 3. Runs

| run | instance | states | what it checks |
|---|---|---|---|
| `wal_safety` | three calls, one the retry of another and one framed, the flush; interval 2, one sink, one process death and one power loss | 245,664 | types, the four safety properties of the log, `ReplayIsBounded` |
| `wal_promise` | the same calls, one power loss | 84,493 | `ImplementsStore` (refinement of `DurableStore`), `EveryCallReturns` |
| `upkeep` | two spans and a metric point over five hours, one storage error, one crash; two nodes with two deaths and a wrong suspicion; the GUI with two clicks and a failure | 270,402 | what a pass may lose and must drop; that elections and evals settle |
| `cluster_fencing` | a node and its standby, two inserts, one death of either | 860,598 | types, `AckedIsReplicated`, `DeposedIsNotConfirmed` |
| `datapath` | four requests behind a gate of two, one fault; the same without limits; two nodes with their logs, two uploads of one payload, one fault; six review commands, one restart | 619,282 | limits, what is shown is stored, payloads, orphans, reviews |
| `stores` | three spans, two of them versions of one; five rows on two shards; two clients of one suite; two keys under two commands and three ticks of the file system; a reader of the tiers during passes, by index or by row | 1,089,841 | index exactness, shards and their counts (`CountsAddUp`), suites, keys, union reads |
| `services` | two alert rules of one client, saved step by step; three clients with rules of one name on a slow disk; two score rules and one trace; two eval runs | 492,757 | events, saved rules, scores, eval sums; every rule gets its turn |
| `clients` | the TUI under four keys, three spans, one fault; the GUI under three clicks, two calls under way, two queries that can be typed | 1,907,363 | what is on screen, where comments go |
| `wal_replay_loses`, `tiers_crash_loses`, `cluster_epochs`, `comments_durable` | as above, with the failure in question | | findings 1 to 4 |

`CHECK_DEADLOCK FALSE` wherever the bounds let a system come to rest: calls, failures and time are finite in the instances.

Why the bounds are enough. For the log, two batches and an interval of two make the interesting cases happen: a checkpoint due while another writer is in flight,
while one is stranded, twice at once, and on the shutdown path; a third call makes a second checkpoint
start from a nonzero cursor and lets a batch be present through a retry. For the tiers, days of two hours are the smallest in which an hour is not a day; two spans
give an eviction several partitions, the metric point exercises the rollup, whose window is a day longer than that of the raw point, and five hours let every
row expire. For the fence, two inserts are needed for one to raise it and the other to meet it, and a death for the epoch to go back; a third node multiplies the views
beyond a run of minutes, which is what the proofs are for. For span indexes, a version that changes service, time and error at once exercises every index; a second
span is there to be missed. Three alert clients are the fewest with which a rule is wiped by a namesake's deletion while another is
published; with them, saves are cut at their beginning because two clients already explore saves in full. Where a bound of an instance might hide something, a proof without it is listed in section 11.

**Fairness.** Weak fairness, each where the code schedules the step without a lock that another holds:
of a call that has begun, a checkpoint and start-up (`WalLog.Fairness`; `QuiesceTimeout` is fair because `wait_timeout` is); of the maintenance thread and of restarts (`Maintains`, `Restarts`); of each node's
restart, failure detector and election loop together (`Elects`); of the request handlers (`Handles`) and of each node's collection (`Collects`); of the scoring loop but not
of its judges (`Score`); of the GUI's answers and of its timer (`Answered`, `Ticks`). None is assumed of callers, users, failures, `Flush` or the errors. Failures and wrong suspicions are bounded,
as nothing is live under endless failures; with suspicions bounded the failure detector is eventually accurate.

## 4. WalLog: the redo discipline

Actors are the insert calls (`Calls`, of which `Framed` are `apply_framed_wal` calls that are not
shipped on) and the shutdown flush. Each is a sequence of stages, and any two interleave between stages.

| TLA+ | code |
|---|---|
| `log`, `cursor` | the walrus topic and its durable read position |
| `hot`, `synced` | batches in the hot tier; the part of it behind an fsync (`PersistMode::SyncAll`) |
| `gate` | the `wal` mutex while a checkpoint keeps it over several steps; an append takes and releases it in one |
| `inFlight`, `applied` | `Progress` |
| `phase`, `replayQ` | start-up: `drain()` and the records it returned |
| `WriteLocal`, `Ship`, `Apply`, `MarkApplied` | `write_local`, `append`, `apply_*`, `mark_applied` |
| `TakeGate`, `Quiesced`, `QuiesceTimeout`, `FlushProjection`, `ConsumeBatch`, `FinishCheckpoint`, `CheckpointFails` | the stages, returns and error path of `checkpoint` |
| `Open`, `DrainBatch`, `DrainDone`, `ReplayOne`, `Serve` | `with_components`, `drain`, `replay` |
| `Crash`, `PowerLoss` | death of the process; loss of any unsynced rows |

A ticket whose call returned an error ("stranded") stays counted, as in the code, so that every later
checkpoint of that process waits out its timeout and is skipped.

## 5. TieredStore and SpanIndex: hot, cold, the pass between them, and the indexes

A row is a value with a signal and an hour. The pass is a record that says where `spawn_span_compactor` is.

| TLA+ | code |
|---|---|
| `hot`, `cold` | the fjall partitions; the objects `root/date/hour/ulid` |
| `unread` | rows of records that no checkpoint has consumed |
| `StartPass`, `Scan`, `Evict`, `Evicted` | a tick; `evict_*_before`, row by row, then persist |
| `WritePartition`, `Written`, `WriteRollup`, `RolledUp` | `write_*` and `write_downsampled`, one atomic object after another |
| `Drop`, `FinishPass` | `enforce_retention` over the per-signal cutoffs |
| `PassFails` | any `?` of the pass: the rows it had evicted are gone with its stack frame |
| `ReadHot`, `GetSpan` | the hot part of a query: rows in one scan, or a snapshot of an index and then each span as it is by then (`scan_spans`) |
| `ListCold`, `Fetch`, `Answer` | the cold part: the pruned listing, then object by object |
| `Crash`, `Restart` | death (an eviction not yet persisted may be undone) and replay |

`MissesOnlyLateSpans` says what a query may miss while a pass runs: `slipped` are the spans that were evicted before the walk came to them, and `late` those of them that
were in no object when the cold tier was listed, because their pass was still writing or had been cut short. Every other row that a tier showed when the query began is in the answer; rows that are read without an index (logs, metrics, one trace) are never late.

`SpanIndex` looks inside the hot tier. A version of a span overwrites the one before it (`InsertSpan`), and then its entries are added to one keyspace after the
other (`InsertEntry`): by time, by service, and by time again for error spans. An eviction takes the range of the time index (`EvictBegin`), reads the span behind
each entry (`EvictRead`), removes the spans (`EvictSpan`), their entries in the other indexes under the keys of the version it has read (`EvictEntries`), and the time keys
it went by (`EvictDone`); a scan walks a snapshot of one index and reads the spans behind it (`ScanBegin`, `Take`). A death leaves what was not yet removed, and inserts that were not complete are replayed.
The two histories `rekeyed` (stored again under other keys) and `collided` (an eviction met an insert) name the identities for which indexes are not exact; both happen in the code, see section 12.

## 6. Cluster: elections, epochs, the fence and shipping

Membership is gossip: `live[n]` and `heard[n]` are the view of node `n`, `Trust`, `Bury` and `Suspect` change whom it takes for alive,
and `Gossip` brings it the epochs another node knows. A member is a node and the generation of its process.

| TLA+ | code |
|---|---|
| `Tick` | one turn of the election loop, under chitchat's lock |
| `leader`, `epoch`, `highest` | `is_leader`, `leader_epoch`, `EpochFencer.highest`, all in memory only |
| `Accept`, `Send`, `GiveUp`, `Finish` | `WalLog::append` and `RemoteWalSink::append_framed`: one standby after the other, 30 s timeout, count of acks |
| `Refuse`, `Admit` | `check_and_advance` in `apply_wal_record` |
| `ApplyShipped`, `ApplyShippedFails` | `apply_framed_wal`, a step after the check |
| `Crash`, `Restart` | death; `ClusterCoordinator::start` with a new generation |

A request that timed out may still arrive and be admitted later; an insert is accepted by any node,
because no ingest path asks `is_leader()`.

## 7. Ingest and BlobGC: what comes in and what is thrown away

A request of `Ingest` brings one batch and keeps in `stage` the steps it has left; the order of the steps is that of its pipeline (`Steps`).

| TLA+ | code |
|---|---|
| `LoadInFlight`, `Admit`, `Shed`, `Reload` | the admission gate: a load and a compare-exchange, and a retry when another came between |
| `Decode`, `PutBlob`, `IndexText`, `CapSeries`, `Insert`, `InsertFails` | the steps of a pipeline and its error paths |
| `CommitIndex`, `PublishBatch`, `Confirm` | commit of the search index (of everybody's text), the bus, the answer |
| `IngestCrash` | death: counters, series and buffered text are gone |

`BlobGC` has uploads in steps (`LookUp`, `Put`, `LogRow`, `InsertRow`) and, on every node, a pass that moves and drops rows (`Settle`), marks what rows refer to (`Mark`),
asks its peers (`AskPeer`, `PeerFails`) and sweeps what it listed (`ListBlobs`, `RemoveBlob`). `Reelect` changes which nodes believe to lead, at any time.

A row goes to the log of its node before it goes to a tier, and `logged` are the rows a start would bring back: one whose insert failed after its append (`InsertRowFails`: too few standbys, or an error of the tier, with the row in it or not) stays there, as does that of a
node that died in between (`NodeDies`), until the node starts and replays (`NodeStarts`). `Checkpoint` empties the log when no ticket is out, and an upload that failed keeps its ticket as long as its process lives.
A mark reads the tiers only. `exposed` is a history of the races by which a row can lose its payload, and the property says there is no other: an upload under way during a collection, a move between tiers under a peer's mark, and a row that a mark finds in a node's log and in no tier.
The last one is hazard `wal.rs:219`: the sweep removes the payload of a row that its client was told had failed, and the next start brings the row back without it.
Deaths here are deaths of processes, after which the tiers keep what they had; power loss and replays that fail are in `WalLog`, the rows a death takes out of a pass in `TieredStore`, and the copies of a log on standbys in `Cluster`.

## 8. Alerts, Scoring, Suites, EvalRuns: what judges the data

`RuleFile` is a save: clone the table, open the temporary file (which truncates what another save has written there), fill it, rename it. `Alerts` and `Suites` take their saves from it step by step; in
`Scoring` a save is one step.

In `Alerts` a rule is one act of creation and has a name, so that two rules may share one: the evaluator (`pass`) works on a copy of the rules, and states are kept by name.
`Evaluate` and `EvaluateFails` are one turn of `evaluate_all`, with or without a result, `Deliver` the publication, `DeleteAlert` and `ForgetState` the two locks of a delete.
Time is kept as ages. An entry of `states` knows the rule it was begun for (`of`; `"wiped"` after a namesake's deletion) and an event whether its rule was still the table's rule when it was published (`live`).

`Scoring` is the loop of `lib.rs`: a copy of the rules, one rule after the other (`SelectCandidates`), one judge after the other (`RunScorer`, `Judged`, `JudgeFails`), and
a memory of what was scored, bounded and shared. `Suites` is push, freeze and resolve. `EvalRuns` is the runner of the CLI (`BeginCase`, `RunCommand`, `EndCase`, `RunAgain`), the score
upload with its retry (`PostScore`, `ScoreAgain`), and the summaries the server derives on demand (`RunSummary`, `CaseScores`, `Compare`).
A score point has a position in the order of arrival, which decides which of two counts. A case file may name a case twice; the server counts distinct cases, so that such a run may look running after its end, and what is said of complete runs is said of files that name each case once.

## 9. Fanout, Keys, Comments

`Fanout`: `SendGroup` and `SendFails` are the groups of one insert, in any order; `Ask` and `Gather` a read of all shards, `AskOwner` and `AskOthers` one of a trace; shards come and go at any step, and
`Strays` are spans a rebalancing left with a shard that does not own them.

`Keys`: `Load`, `OpenTmp`, `Fill`, `Install` are a command of the CLI, on files other commands and a server use. The temporary file has one name for all commands: `OpenTmp` truncates it, `Fill` writes it from its start and gives it its modification time, and `Install`, the rename,
keeps that time, moves what others have open with the name, and fails if another command renamed the file first. `ReadCopy`, `TimeCopy`, `Serve` are a start-up: the content, then its time, then the check that there are keys. `Begin`, `Compare`, `Reread`, `Cache`, `RereadFails` are a request
against the cached copy, which is trusted as long as the file has its modification time. The clock of the file system passes between any two steps or does not.

A copy is not current whenever its time says less than which file is in place. `dubious` are the times that do: two files in place had the time, as when a save is written in the tick of the last one and renamed in a later tick, or one came into place between the two reads of a start-up.
Whoever is judged by a copy is judged by keys that were in the file since the request began, unless the copy's time is dubious. Two saves that overlap can leave a file that is empty or torn; requests then fall back to the copy, and every later command and start-up is refused (section 12).

`Comments`: `Make`, `WriteLine` (twice: the text and its end), `Push` are an add, with a death possible between any two; `Open` reads the file again. `Ask` and `List` are the review commands, which keep questions and answers in comments.

## 10. Tui and Gui

`Tui` is one loop that blocks on its awaits, so a message, a tick or a key is one step with the draw after it: the hazards are in what is selected, what is highlighted and what was asked for. `Gui` is one thread
whose handlers run to their next await: `calls` holds the requests under way, and answers are applied in any order to the state as it is then.
The text of a query changes with every key (`TypeQuery`) and is sent by a click (`RunQuery`), which sends what is typed and does nothing while it is blank. `ran` is the text that was sent last: rows may stand beside a newer text, and when the GUI is quiet they are the answer to `ran`.

## 11. Proofs

Each proof module gives an inductive invariant, one lemma for each step or part, and theorems of the specification. Constants are arbitrary within the named assumptions.

| module | theorem | run property | from | inductive invariant |
|---|---|---|---|---|
| `WalLog_proofs` | `TypeCorrect`, `CheckpointExact`, `InFlightSafe`, `EarlyReturnSafe`, `LossOnlyInReplay` | `TypeOK`, `CheckpointConsumesDurable`, `InFlightNeverConsumed`, `NothingLeftBehind`, `OnlyReplayLoses` | `WalAssumption` | `IInv` |
| | `ReplayBounded` | `ReplayIsBounded` | | `BoundInv` |
| | `OneFailureIsSafe`, `KeepsPromises` | `ImplementsStore` | also: one failure at most; or `CutsNoReplay` | `KeptInv` |
| `TieredStore_proofs` | `MovesAreSafe`, `TrendsAreSafe`, `RetentionKeeps` | `OnlyCutMovesLose`, `TrendsSurvive`, `KeptForItsWindow` | `TierAssumption` | `TierInv` |
| | `QueriesMissOnlyLateSpans` | `MissesOnlyLateSpans` | | `QueryInv` |
| | `TierTypeOK` | `TypeOK` of the module, in `stores` | | `TierInv` and a finite cold tier |
| `Cluster_proofs` | `ClusterTypeOK`, `AckedReplicated`, `DeposedNeverConfirmed` | `TypeOK`, `AckedIsReplicated`, `DeposedIsNotConfirmed` | `ClusterAssumption` | `CInv` |
| `Datapath_proofs` | `LimitsAreKept`, `ShownMeansStored`, `IngestTypes` | `LimitsHold`, `ShownIsStored` | `IngestAssumption` | `IngestInv` |
| | `DatapathTypes` | `TypeOK` of `MCDatapath` | `DatapathAssumption` | the three of this module |
| | `PayloadsAreSpared`, `BlobTypes` | `OnlyRacesLosePayloads` | `BlobPlacement` | `BlobInv` |
| | `ReviewsHonest`, `CommentsTypes` | `ReviewsAreHonest` | `CommentsAssumption` | `ReviewInv` |
| `Services_proofs` | `ConfirmedMeansSaved` | `ConfirmedRulesAreSaved` | `AlertsAssumption` | `BookInv` |
| | `PublishedIsHonest`, `AlertTypes` | `EventsAreHonest` | | `EventsInv` |
| | `ScoresHonest`, `ScoreTypes` | `ScoresAreHonest` | `ScoringAssumption` | `ScoreInv` |
| | `EvalsCounted`, `ScoresStay`, `EvalTypes` | `EvalsAddUp`, `ScoresStand` | `EvalAssumption` | `EvalInv` |
| | `ServiceTypes` | `TypeOK` of `MCServices` | | the four of this module |
| `Stores_proofs` | `KeysCurrent`, `KeysTypes` | `KeysAreCurrent` | `KeysAssumption` | `KeysInv` |
| | `ShardsRight`, `SummariesAddUp`, `FanTypes` | `ShardsAreRight`, `CountsAddUp` | `FanAssumption` | `FanInv` |
| | `PinsStay`, `SuiteTypes` | `PinsHold` | `SuitesAssumption` | `SuiteInv` |
| | `StoreTypes` | `StoresTypeOK` | | those of the five components |
| `SpanIndex_proofs` | `IndexesExact`, `IndexTypes` | `IndexesAreExact` | nothing | `IndexInv` |
| `Clients_proofs` | `GuiHonest`, `GuiTypes` | `GuiIsHonest` | `GuiAssumption` | `GuiInv` |
| | `TuiHonest` | `TuiIsHonest` | `TuiAssumption` | `TuiInv`, `ShownInv` |
| | `TuiTypes` | | | `ListsOK` |
| | `ClientTypes` | `TypeOK` of `MCClients` | | those of both components |

**Side by side.** The theorems named `...Types` of a component are its part of the `TypeOK` that its run checks. The modules `Datapath_proofs`, `Services_proofs`, `Stores_proofs` and `Clients_proofs` extend the `MC` module of their run, and the lemmas
`EachDatapath`, `EachService`, `EachStore` and `EachOfThem` say that a behaviour of that module is a behaviour of each of its components, since the steps of the others leave its variables alone and what the instance restricts only takes behaviours away.
Through them what is proved of a component holds in the run, and `DatapathTypes`, `ServiceTypes`, `StoreTypes` and `ClientTypes` are the very invariants their cfg names. `Stores_proofs` takes what it needs of the tiers and the span indexes from `TieredStore_proofs` and `SpanIndex_proofs`.

**WalLog.** None of the properties is inductive. `IInv` adds `TicketsCounted` (`in_flight` is the number of tickets out, so that 0 means none), `LogOfBegun` and `AckedIsLogged`
(entries come from calls that appended, and a call at or past its append has its entry), `AppliedIsHot` and `UnreadIsApplied` (an unread entry without a ticket has its batch in the hot tier),
`GateHeld` (a checkpoint at work has the gate, so nothing is appended, and past its wait nothing is in flight), `FlushedBeforeAdvance`, and `AtRestWhenDown`.
`GateHeld` and `TicketsCounted` make everything unread at the end of the wait applied, the flush makes it synced,
and the gate keeps it so until the cursor has passed it. An acknowledged batch is in the log; its
entry is unread (then applied or replayed), consumed by a checkpoint (then synced), or drained: that is `LossOnlyInReplay`.
`BoundInv` counts what is unread against `applied` and the tickets, and ties the counter's overflow of the interval to a checkpoint that is owed.

**The refinement.** The abstract store holds what is in the hot tier, in an unread entry or in the queue of a replay. `KeptInv` says of what replays have consumed that it is applied or still queued; with `IInv`
a batch that was promised is then held, and by a serving store shown (`PromisedIsHeld`). Every step of the write path, of a checkpoint and of a replay maps to a step of `DurableStore` or to none. A failure maps to one
as long as it does not take what a replay has consumed and not made durable, which is finding 1: `KeepsPromises` says it for any number of failures that do not (`CutsNoReplay`), and
`OneFailureIsSafe` for any single one, since a first failure finds nothing drained.

**TieredStore.** `TierInv` adds to the invariants the shape of the pass (`RowsOK`, `PassOK`), that its clock is not ahead of time
(`PassHonest`), that an object holds only rows of its own partition (`FiledRight`), and that
a row in the hands of the pass is either in an object of its root or in a partition still to be written (`WrittenOrToDo`). Lemmas on days
(`DayMonotone`, `FirstHour`, `PartitionDay`, `ExpiredMonotone`) carry the retention argument: dates are compared, rows have hours,
and a date strictly before that of the cutoff has no hour within the window. `QueryInv` follows a row through a reader's steps: still to be walked, read from the hot tier, or slipped and then in the hands of the pass, cut short, or in an object that is
listed later; and from the listing on read, late, or in an object that is listed and fetched. The types need a free name for an object that is written, which a finite cold tier always has (`FreeCopy`, by pigeonhole).

**Cluster.** `CInv` is `Bounded` (what is heard of a member is at most what it advertises), `CallsOK` and `NetOK` (requests under way are those of their calls, answers those of admitted requests), `StillBarred` (a
standby that has refused a leader has a fence above it as long as both processes live) and `AcksCounted` (the acks a call counts are standbys that applied it).

**Ingest.** `IngestInv` says how far each pipeline is by what it has left to do; lemmas on the order of steps (what is left is a tail of the pipeline's list, so a step that is gone has been taken) carry both theorems.
`GateInv` is the exact account of permits, and `CountInv` counts no batch that is not past its insert or sent away. All of it is for any configuration in `Limits`, none at all included, and for any batches that are sent.

**BlobGC.** `BlobInv`, of what is not exposed: no collection runs while an upload is under way, and the payload of a row that a tier, a pass or a log holds is in the store, has been marked by every pass that lists, or is at a peer still to be asked, and is on no list to be removed. `BlobPlacement` says that each row's node is asked by the nodes that sweep its store.

**Comments.** `ReviewInv`: shapes (`ShapesOK`); every comment, on its way or stored, has a time and every question an id of its own (`TimesOK`); what is in memory is in the file and what is confirmed in both (`StoredOK`); an answer has its question before
it, in memory, in the file and in each prefix a restart may find (`BackedOK`); a list has shown the first answer there was, which stays the first unless a later answer crossed it (`ListedOK`). That the server starts again is not part of it: finding 4 refutes it.

**Alerts.** `BookInv` (`TablesOK`, `RequestsOK`, `SavedOK`) follows a confirmed rule through the clones, temporary files and renames of all clients' saves as long as no two overlap.
`EventsInv` (`EvaluatorOK`, `EntriesOK`, `StreaksOK`, `FiringOK`, `NamesakesOK`, `HeardOK`) relates the state entry of a name to the streak of the rule it was begun for, to the rule the table has under the name, and to the last event of the rule.

**Scoring.** `ScoreInv`: a status counts no more than is stored and only rules of the table have one (`TableOK`); the memory is the last attempts in their order, so that what is not in it was tried `Memory` attempts ago or never (`MemoryOK`); what the loop has left to judge is not in
it, and stays out of it while other traces are judged (`LoopOK`).

**EvalRuns.** `EvalInv` ties the runner to the spans of the cases it has been at (`PlacesOK`, `SeenOK`), its end to a failed span or to all cases (`EndsOK`), and every failed span to a command that failed (`BlamedOK`). The sums are
then about sizes of sets of cases: those with a trace, with a score and with an outcome. A comparison splits the cases of a metric into four disjoint sets, two of which change places when it is made from the other side. `ScoresStay` takes the
point that counts to be the one at the least position, and appending moves no position.

**Keys.** `KeysInv`: shapes (`KeyShapes`); a copy has keys of a file that was in place, and the file in place at its time has its keys unless the time is dubious (`CopiesInv`); a request that is under way has seen the keys it is judged by in place (`JudgedInv`);
a command that met no other has the file to itself, and what it did is in the file, in any temporary file and in what later commands have loaded (`StandInv`).

**Fanout.** `FanInv` says that a shard has whole groups of its own and what was left behind there (`WrittenInv`), and of a read that what its shards had when it began they still have and that what it has gathered is theirs (`AskingInv`, `NotFound`). That merging the
newest of each shard gives the newest of all rests on two lemmas on positions in an order: there are few that have few before them (`NewestAreFew`), and whatever has many before it has many of those before it (`NewestAreEnough`), both from a least
counterexample. `SummaryInv` says of a summary that what a shard told is what the shard had when the summary began, as long as nothing has been stored since. Its sums are folds, which have a value only if a function satisfies their equation: `SumExists` shows one, from a least counterexample on the
size of the set, and `SumIsSize` makes the sum of the sizes of disjoint sets the size of their union, so that what was counted and what there was are both sizes of sets of pairs of a shard and a span. `FanAssumption` says that starts are places in an order, and that inserts which share a span of a trace have the same spans of it.

**Suites.** `SuiteInv`: one content per case id and no snapshot twice (`SuiteShapes`, `GoodRows`); the snapshot a client waits for is in the table (`AsksOK`); and while saves come one after another, each text a save has written, the file included, has every snapshot that is confirmed
or waited for (`PinnedOK`). Snapshots are only appended, so that the first match of a reference stays the first.

**SpanIndex.** `IndexInv`: `StoreOK` and `EvictOK` are shapes; `ApartOK` says that where no eviction met an insert, an insert works on the stored version, an eviction has read what is stored, and what is stored and not being evicted has the entries its insert came by; `ExactOK`
that where besides no version came under other keys, every entry is that of the stored version or of one it replaced under the same key, or the eviction under way will remove it (`Leaving`); `ScanOK` that a span left alone since the start of a scan is found or still to be read.

**Gui.** `GuiInv`: shapes; unless two traces crossed, only the open one loads (`OneTrace`); and as long as answers come in order and none fails, each request under way is for what is selected now or a later one of its kind, or one that will send it, is under way too, and where none is, the screen shows what is selected
(`Fresh`: `SpansFresh`, `TraceFresh`, `CasesFresh`, `CompareFresh`, `RowsFresh`). The lemmas are about what is left in the queue and what comes later in it when its first call is answered and new ones are added. `GuiIsHonest` is the case of an empty queue.

**Tui.** `TuiInv`: while a comment is typed the open trace stays the one it was meant for, in every mode and on every message, so it is the one it is sent with; and a panel one of whose requests failed says so, but for Automation. `ShownInv`: the trace view
is entered by loading a trace only, and what it shows are the spans of that trace. Of the waterfall, `WaterfallHas` says that it has each span of a trace once: a walk exists for any number of turns (`WalkExists`) and each turn keeps `WalkOK` (`PoppedOK`), both by a least counterexample: no row
has its parent on the stack, and what is on the stack has a row or is the root, so that no span is pushed twice, also where parents form a circle, which the walk does not enter. `TuiAssumption` says that the spans of a trace have ids of their own, as the store keeps one version of each. `ListsOK` is for the types: the live list is some arrangement of the newest rows by their starts, one row for each trace. The code collects the rows from a hash map and sorts them, so that rows that start together come in any
order; the model says just this (`Sorted`, `Latest`) instead of computing one, which is more behaviours and no induction.

What designing the proofs corrected in the models: alert events carry whether their rule was live (two of one name alternate only until one is wiped), and `HeldRulesFire` has an exception for wiped entries, both found with three clients where the run had one; and an
eviction counts as meeting an insert as soon as it has read an entry of the identity, not only when it found a span behind it.

What the types corrected: the live traces of the terminal UI with equal starts had one fixed order in the model and have any in the code; the pipelines without limits and the alerts of several clients were instances of their own, out of reach of the theorems, and are now starting states of the one specification, with the same reachable states.

**Only model-checked.** Liveness (`EveryCallReturns`, `ExpiredIsDropped`, `LoopsSettle`, `RulesGetTheirTurn`, `NothingIsLeftOver`) is beyond the prover. Every invariant of a passing run and every action property but liveness has a theorem.

## 12. Findings

With a run each:

1. **A start-up replay consumes before it applies** (`wal_replay_loses`; `mod.rs:302`, `wal.rs:323-336`). `drain()` moves the
   durable cursor over all unread records before the first is applied, and replay applies with `Buffer` only. A second
   death or a power loss then loses acknowledged batches, which `storage/mod.rs:132` and `lib.rs:917` rule out.
2. **A crash during compaction can lose spans** (`tiers_crash_loses`; `mod.rs:134`). They are evicted before they are
   written to cold. The comment there relies on the DuckDB projection (a feature) and on log records a checkpoint may have consumed.
3. **A reign need not pass a dead leader's epoch** (`cluster_epochs`; `cluster/mod.rs:149`). The maximum is taken over live
   members only. The run shows two reigns of one epoch, between which the fence cannot tell; when more than one node has died the
   new epoch can be below a standby's fence, which then refuses the new leader's records.
4. **Two comments on one line stop the server** (`comments_durable`; `jsonl.rs:76`). `writeln!` on an unbuffered file writes the text and the line end apart, outside a lock; two adds at once, or an add after a death in between, leave a line that `open` cannot read.

Met while modelling; each is stated as a definition with the words "TLC refutes it", or is an exception that a property names:

* **Alerts.** A rule that is deleted and created again during a pass inherits its namesake's streak (`NeverFiresEarly`; `alerts.rs:13`). "Only transitions are returned" (`alerts.rs:276`) fails with namesakes: the deletion of one wipes the state of the newer one, which is then
  reported firing twice with no ok between, and a rule of duration 0 that is deleted during a pass fires again after its state was forgotten.
* **Scoring.** A hanging judge delays every rule, not "only its own results" (`HangingJudgeDelaysOnlyItself`; `lib.rs:306`).
* **Ingest.** A storage failure is answered with 500, not with a retryable status (`StorageFailuresAreRetryable`; `otlp_http.rs:158`).
* **Blobs.** An upload may find its payload in the store just before it is swept, so that more than orphans are removed (`RemovesOnlyOrphans`; `blobs.rs:97`).
* **Span indexes.** "Every index key is derivable" (`hot.rs:247`) is true of the current version only: entries of a version under other keys stay behind (`rekeyed`), and an eviction that reads a stale time entry can remove the entry of a span inserted meanwhile (`collided`).
* **Tiers.** A point can be downsampled twice (`cold.rs:252`): compacted, replayed, compacted again.
* **Queries.** A span that a pass evicts while a query walks the index is missed if the cold tier is listed before it is written (`MissesOnlyLateSpans` without `late`; `hot.rs:169`, `mod.rs:134`).
* **Keys.** Modification times do not tell two saves of one tick apart, and a rename keeps the time of the write, so that a revocation can go unnoticed by a running server until the next save (the exception `dubious`; `authz.rs:62`). The rename guards against a crash in the middle of a write (`auth.rs:217`) but
  not against a second command: of two that overlap, one can install what the other has only begun to write, and then no command and no start-up can read the keystore (`TornBySavesThatCross`).
* **Payloads.** A row that an insert left in the log only is brought back by the next start without its payload if a collection ran in between (the exception of `Mark` and `AskPeer`; `wal.rs:207` promises "no data loss").
* **Fan-out.** `get_trace` and `query_correlate` fail when the owner fails, although a read is to err only when every shard fails (`fanout.rs`); `ReadsTolerateShards` is about the other reads.
* **Reviews.** Two reviewers can both be told "answered", and the oldest answer is the one that is listed; the check for a missing trace never fires, as an absent field is read as "-".
* **Evals.** The oldest score of a re-scored metric wins; a retried score file adds its cost twice; scores for cases outside the file can make a run complete early; a run is failed as soon as one case fails, where `tael-evals-design.md` shows one running with failed cases; a failed last
  span leaves a failed case running. The CLI does not check the status of a refused alert rule and exits 0.
* **Terminal UI.** The timeline highlights by the index in all traces while Enter takes the filtered list (`Opens`); a trace that fails to load leaves the waterfall of the one before under the new id, so that a comment may carry another trace's span (the exception `stale`); a later success of the Automation
  panel clears an earlier error (`NoFailureIsHidden`; `tui_panels.rs:78`); a failed Clusters or Review panel opens its hidden selection; cases that fail to load leave the old ones under the new header; a span that comes by poll and by stream counts twice, and one between the first load and the connect is missed.
* **Desktop GUI.** Overlapping connects start two streams of one id (`OneStreamEach`); a late failure of an older connect stops the timer; answers for two traces may cross (the exception `crossed`).

## 13. What the models assume of code outside them

* walrus: an append is durable when it returns; a batch read moves the cursor durably.
* fjall: `PersistMode::Buffer` survives the death of the process, `SyncAll` a power loss; a scan is a snapshot.
* object stores: a put is atomic, a listing shows what was put before it.
* chitchat: delayed views, as above; no member is invented.
* file systems: a rename is atomic; a modification time has a granularity, so that two writes may share one; an unbuffered write appends its bytes in one piece.
* tokio: a task that can take a step does so in the end; `select!` takes any ready branch.

Abstractions: a batch (`WalLog`) is one value, and a row (`TieredStore`) is inserted once; apply and persist of one batch are one step; time is in
hours (tiers) or ages (alerts); a query of the tiers has no limit and one reader runs at a time; the arithmetic inside a rollup bucket is left out; judges, commands and conditions have any outcome. The CONSTANTS named
`Max...` bound failures, time, clicks and wrong suspicions; nothing else is bounded.

## 14. Not modelled

Query languages and similarity scoring (pure functions of rows already read), tenancy, the handlers of `rest.rs` that only pass a call on, the buses' lag (a library's channel), the DuckDB projection (a second projection behind the same apply step),
object store backends, codec, migration, configuration, wire formats of the pipelines, the order of records in a standby's own log, the CLI's other commands (one request and the printing of its answer), and what the user interfaces draw.
