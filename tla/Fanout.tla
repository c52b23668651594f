------------------------------- MODULE Fanout -------------------------------
(***************************************************************************)
(* A store over the stores of several shards.  Writes are split by owner   *)
(* and sent shard by shard; reads ask the shards one after the other and   *)
(* merge what they answer.  Shards come and go between any two calls, and  *)
(* a rebalancing may have left spans with a shard that does not own them.  *)
(***************************************************************************)
EXTENDS Naturals, FiniteSetsExt

CONSTANTS
  NumShards,
  ShardRows,  \* spans: [trace, start, service]
  OwnerOf,    \* the shard a trace hashes to
  Strays,     \* rows a rebalancing left behind, and where
  Batches,    \* sets of rows, each one insert call
  QueryLimit, \* of a query
  TopServices,\* how many services a summary lists
  MaxShardFaults\* bound: shards going down or coming up

VARIABLES
  shardRows,  \* rows of each shard
  down,       \* shards that do not answer
  batch,      \* the state of each batch
  call,       \* the read under way, or its answer
  shardFaults

fanVars == <<shardRows, down, batch, call, shardFaults>>

Shards   == 1 .. NumShards
Services == {r.service : r \in ShardRows}
Traces   == {r.trace : r \in ShardRows}
Idle     == [op |-> "none", at |-> "idle"]

\* A start is a place in the order that queries sort by, one for each span; two inserts
\* that share a span of a trace have the same spans of it, as a second attempt has.
ASSUME FanAssumption ==
  /\ NumShards \in Nat \ {0} /\ QueryLimit \in Nat /\ TopServices \in Nat /\ IsFiniteSet(ShardRows)
  /\ \A r \in ShardRows : r.start \in Nat /\ OwnerOf[r.trace] \in Shards
  /\ \A q, r \in ShardRows : q.start = r.start => q = r
  /\ \A x \in Strays : x.row \in ShardRows /\ x.at \in Shards
  /\ Batches \subseteq SUBSET ShardRows
  /\ \A b, c \in Batches : \A r \in b \cap c : \A q \in b \cup c :
       q.trace = r.trace => q \in b \cap c

\* The newest of some rows; each shard answers with these, and so does the merge.
Newest(rows, n) == {r \in rows : Cardinality({s \in rows : s.start > r.start}) < n}

\* What the whole answer keeps.
Relimit(rows, n) == Newest(rows, n)

FanInit ==
  /\ shardRows = [s \in Shards |-> {x.row : x \in {y \in Strays : y.at = s}}]
  /\ down = {} /\ batch = [b \in Batches |-> [at |-> "new", left |-> {}]]
  /\ call = Idle /\ shardFaults = 0

-----------------------------------------------------------------------------
(* route_and_insert.                                                       *)

Home(r) == OwnerOf[r.trace]

Group(b, s) == {r \in b : Home(r) = s}

BeginInsert(b) ==
  /\ batch[b].at \in {"new", "failed"}
  /\ batch' = [batch EXCEPT ![b] = [at |-> "sending", left |-> {Home(r) : r \in b}]]
  /\ UNCHANGED <<shardRows, down, call, shardFaults>>

\* The groups are in a hash map: any one is next.
SendGroup(b, s) ==
  /\ batch[b].at = "sending" /\ s \in batch[b].left \ down
  /\ shardRows' = [shardRows EXCEPT ![s] = @ \cup Group(b, s)]
  /\ batch' = [batch EXCEPT ![b].left = @ \ {s}, ![b].at = IF batch[b].left = {s} THEN "done" ELSE @]
  /\ call' = IF call.at = "asking" THEN [call EXCEPT !.fresh = @ \cup Group(b, s)] ELSE call
  /\ UNCHANGED <<down, shardFaults>>

\* Mutant: the groups of the other shards are reported as stored.
SkipGroup(b, s) ==
  /\ batch[b].at = "sending" /\ s \in batch[b].left \cap down
  /\ batch' = [batch EXCEPT ![b].left = @ \ {s}, ![b].at = IF batch[b].left = {s} THEN "done" ELSE @]
  /\ UNCHANGED <<shardRows, down, call, shardFaults>>

\* The first error ends the call; what was sent stays.
SendFails(b, s) ==
  /\ batch[b].at = "sending" /\ s \in batch[b].left \cap down
  /\ batch' = [batch EXCEPT ![b] = [at |-> "failed", left |-> {}]]
  /\ UNCHANGED <<shardRows, down, call, shardFaults>>

-----------------------------------------------------------------------------
(* Reads.                                                                  *)

Asking(op, trace, first) ==
  [op |-> op, at |-> "asking", trace |-> trace, next |-> first, rows |-> {}, counts |-> {},
   failed |-> {}, fresh |-> {}, begun |-> shardRows]

\* query_traces, query_logs and query_metrics; query_summary and list_services.
BeginRead(op) ==
  /\ call.at \in {"idle", "answered", "error"}
  /\ call' = Asking(op, "all", 1)
  /\ UNCHANGED <<shardRows, down, batch, shardFaults>>

\* get_trace and query_correlate, which ask the owner first.
BeginTrace(t) ==
  /\ call.at \in {"idle", "answered", "error"}
  /\ call' = Asking("trace", t, 0)
  /\ UNCHANGED <<shardRows, down, batch, shardFaults>>

CountOf(rows, v) == Cardinality({r \in rows : r.service = v})

\* What a shard says of its services: those with most spans.
TopOf(rows) ==
  LET has == {v \in Services : CountOf(rows, v) > 0}
  IN  {[service |-> v, count |-> CountOf(rows, v)] : v \in
        {w \in has : Cardinality({x \in has : CountOf(rows, x) > CountOf(rows, w)}) < TopServices}}

Failing == call.next \in down

\* fan_out: the next shard answers, or is passed over.
Ask ==
  /\ call.at = "asking" /\ call.op # "trace" /\ call.next \in Shards
  /\ call' = IF Failing
             THEN [call EXCEPT !.next = @ + 1, !.failed = @ \cup {call.next}]
             ELSE [call EXCEPT !.next = @ + 1,
                     !.rows = @ \cup Newest(shardRows[call.next], QueryLimit),
                     !.counts = @ \cup {[shard |-> call.next, service |-> c.service, count |-> c.count]
                                          : c \in TopOf(shardRows[call.next])}]
  /\ UNCHANGED <<shardRows, down, batch, shardFaults>>

\* An answer, unless all shards failed.
Gather ==
  /\ call.at = "asking" /\ call.op # "trace" /\ call.next = NumShards + 1
  /\ call' = [call EXCEPT !.at = IF call.failed = Shards THEN "error" ELSE "answered",
                          !.rows = Relimit(@, QueryLimit)]
  /\ UNCHANGED <<shardRows, down, batch, shardFaults>>

OfTrace(s) == {r \in shardRows[s] : r.trace = call.trace}

\* The owner: its error is the answer.
AskOwner ==
  /\ call.at = "asking" /\ call.op = "trace" /\ call.next = 0
  /\ LET s == OwnerOf[call.trace]
     IN  call' = IF s \in down THEN [call EXCEPT !.at = "error", !.failed = {s}]
                 ELSE IF OfTrace(s) # {} THEN [call EXCEPT !.at = "answered", !.rows = OfTrace(s)]
                 ELSE [call EXCEPT !.next = 1]
  /\ UNCHANGED <<shardRows, down, batch, shardFaults>>

\* Then the others in turn, up to the first that has some of it; errors are passed over.
AskOthers ==
  /\ call.at = "asking" /\ call.op = "trace" /\ call.next # 0
  /\ call' = IF call.next > NumShards THEN [call EXCEPT !.at = "answered"]
             ELSE IF Failing THEN [call EXCEPT !.next = @ + 1, !.failed = @ \cup {call.next}]
             ELSE IF OfTrace(call.next) # {} THEN [call EXCEPT !.at = "answered", !.rows = OfTrace(call.next)]
             ELSE [call EXCEPT !.next = @ + 1]
  /\ UNCHANGED <<shardRows, down, batch, shardFaults>>

\* Mutant: the count of one shard takes the place of another's.
MergedOnce(v) == Max({0} \cup {c.count : c \in {d \in call.counts : d.service = v}})

\* merge_summaries: the counts of the shards are summed.
Merged(v) == MapThenSumSet(LAMBDA c : c.count, {c \in call.counts : c.service = v})

-----------------------------------------------------------------------------
ShardFails(s) ==
  /\ s \notin down /\ shardFaults < MaxShardFaults
  /\ down' = down \cup {s} /\ shardFaults' = shardFaults + 1
  /\ UNCHANGED <<shardRows, batch, call>>

ShardReturns(s) ==
  /\ s \in down
  /\ down' = down \ {s}
  /\ UNCHANGED <<shardRows, batch, call, shardFaults>>

FanNext ==
  \/ \E b \in Batches : BeginInsert(b) \/ \E s \in Shards : SendGroup(b, s) \/ SendFails(b, s)
  \/ \E op \in {"query", "summary"} : BeginRead(op)
  \/ \E t \in Traces : BeginTrace(t)
  \/ Ask \/ Gather \/ AskOwner \/ AskOthers
  \/ \E s \in Shards : ShardFails(s) \/ ShardReturns(s)

FanSpec == FanInit /\ [][FanNext]_fanVars
-----------------------------------------------------------------------------
(* Properties.                                                             *)

All == UNION {shardRows[s] : s \in Shards}
Answered(op) == call.op = op /\ call.at = "answered"

\* Types; what is written is where it is looked for first.
FanTypeOK ==
  /\ \A b \in Batches : batch[b].left \subseteq Shards
  /\ \A s \in Shards : \A r \in shardRows[s] : OwnerOf[r.trace] = s \/ \E x \in Strays : x.row = r
  /\ call.at = "asking" => call.next \in 0 .. NumShards + 1

\* However an insert ends, the spans it has of one trace are stored together or not
\* at all, and one that reports success has stored them all.
TracesLandTogether ==
  \A b \in Batches :
    /\ \A t \in Traces : LET part == {r \in b : r.trace = t} \ {x.row : x \in Strays}
                         IN  part \cap All \in {{}, part}
    /\ batch[b].at = "done" => b \subseteq All

\* The answer to a query has the newest rows of the shards that answered: what it lacks
\* came during the query, or is older than all of a full answer.
NewestAreReturned ==
  Answered("query") =>
    /\ Cardinality(call.rows) <= QueryLimit
    /\ \A s \in Shards \ call.failed : \A r \in call.begun[s] \ call.rows :
         Cardinality({x \in call.rows : x.start > r.start}) >= QueryLimit

\* "A read errors only when every shard fails", of the reads that go to all shards.
ReadsTolerateShards ==
  call.at = "error" /\ call.op # "trace" => call.failed = Shards

\* "so a routing-hash mismatch or a rebalancing window can't drop it": a trace that
\* some shard had, and that answered, is found.
TracesAreFound ==
  Answered("trace") /\ call.rows = {} =>
    \A s \in Shards \ call.failed : \A r \in call.begun[s] : r.trace # call.trace

\* A summary counts no span twice, and if the shards list all of their services, what
\* it says of each is what the shards have that answered.
CountsAddUp ==
  Answered("summary") /\ call.fresh = {} =>
    \A v \in Services :
      LET there == MapThenSumSet(LAMBDA s : CountOf(call.begun[s], v), Shards \ call.failed)
      IN  /\ Merged(v) <= there
          /\ Cardinality(Services) <= TopServices => Merged(v) = there
\* A sharded store keeps the spans of a trace together, and answers what one store would,
\* as far as the shards answer: the newest rows, and whole traces.
ShardsAreRight == TracesLandTogether /\ NewestAreReturned /\ ReadsTolerateShards /\ TracesAreFound
=============================================================================
