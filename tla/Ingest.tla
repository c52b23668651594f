------------------------------- MODULE Ingest -------------------------------
(***************************************************************************)
(* The five ways in: spans, logs and metrics over OTLP (gRPC or HTTP),     *)
(* Prometheus remote write, and Datadog traces.  A request brings a batch, *)
(* passes the admission gate, and takes its pipeline's steps in order:     *)
(* payloads go to the blob store, text to the search index, rows to the    *)
(* store, and what was stored to the bus that live followers hear.  What   *)
(* the store does inside of an insert is WalLog's matter.                  *)
(***************************************************************************)
EXTENDS Naturals, Sequences, FiniteSets

CONSTANTS
  Batches,       \* requests
  PipelineOf,    \* "spans", "logs", "metrics", "remote_write" or "datadog"
  OverHttp,      \* the OTLP batches that come over HTTP
  SeriesOf,      \* the series of the points of a batch, {} for spans and logs
  Payload,       \* batches with a payload for the blob store
  Text,          \* batches with text to index
  Limits,        \* the limits a node may be configured with
  MaxFaults      \* bound: failures of blobs, index, store or bus, and deaths

ASSUME IngestAssumption ==
  /\ Limits \subseteq [inFlight : Nat, series : Nat] /\ MaxFaults \in Nat /\ IsFiniteSet(Batches) /\ Text \subseteq Batches
  /\ \A b \in Batches : IsFiniteSet(SeriesOf[b])

VARIABLES
  limits,      \* the configuration of the node, read once
  stage,       \* what each request still has to do
  answer,      \* what its client was told
  loaded,      \* IN_FLIGHT as the request last read it
  inFlight,    \* IN_FLIGHT
  seen,        \* SEEN: series this process has admitted
  kept,        \* what the series cap left of the batches of this process
  rows,        \* batches in the store
  hashes,      \* batches whose rows refer to a payload
  blobs,       \* payloads in the blob store
  buffered,    \* documents the index writer has added
  committed,   \* documents that searches find
  published,   \* what followers heard
  stats,       \* accepted, errors and shed
  dropped,     \* history: batches that failed or died after they were admitted
  mute,        \* history: batches whose text the index did not take or commit at once
  faults

ingestVars == <<limits, stage, answer, loaded, inFlight, seen, kept, rows, hashes, blobs, buffered,
                committed, published, stats, dropped, mute, faults>>

\* TAEL_INGEST_MAX_IN_FLIGHT and TAEL_METRIC_SERIES_LIMIT, 0 for no gate and no cap.
MaxInFlight == limits.inFlight
SeriesLimit == limits.series

Unread   == MaxInFlight + 1
NoAnswer == "none"

\* A process that starts, and the requests that clients will send it.
StartsWith(sent) ==
  /\ stage = [b \in Batches |-> IF b \in sent THEN <<"load">> ELSE <<>>] /\ answer = [b \in Batches |-> NoAnswer]
  /\ loaded = [b \in Batches |-> Unread] /\ inFlight = 0 /\ seen = {}
  /\ kept = [b \in Batches |-> {}] /\ rows = {} /\ hashes = {} /\ blobs = {}
  /\ buffered = {} /\ committed = {} /\ published = {} /\ dropped = {} /\ mute = {} /\ faults = 0
  /\ stats = [accepted |-> 0, errors |-> 0, shed |-> 0]

IngestInit == limits \in Limits /\ \E sent \in SUBSET Batches : StartsWith(sent)

-----------------------------------------------------------------------------
(* The pipelines: what each handler does with a batch it has admitted.     *)

SpanSteps        == <<"index", "blob", "insert", "commit", "publish", "answer">>
LogSteps         == <<"blob", "index", "commit", "insert", "publish", "answer">>
MetricSteps      == <<"cap", "insert", "answer">>
RemoteWriteSteps == <<"decode", "cap", "insert", "answer">>
DatadogSteps     == <<"decode", "blob", "insert", "publish", "answer">>

Steps(b) ==
  CASE PipelineOf[b] = "spans" -> SpanSteps
    [] PipelineOf[b] = "logs" -> LogSteps
    [] PipelineOf[b] = "metrics" -> MetricSteps
    [] PipelineOf[b] = "remote_write" -> RemoteWriteSteps
    [] OTHER -> DatadogSteps

At(b, step) == stage[b] # <<>> /\ Head(stage[b]) = step
Done(b)     == stage' = [stage EXCEPT ![b] = Tail(@)]
Counted     == MaxInFlight # 0

\* What the client of each transport sees.
Refused(b) == IF b \in OverHttp THEN "503" ELSE IF PipelineOf[b] \in {"remote_write", "datadog"}
                                               THEN "429" ELSE "exhausted"
Broken(b)  == IF b \in OverHttp THEN "500" ELSE IF PipelineOf[b] = "remote_write" THEN "400"
                                               ELSE IF PipelineOf[b] = "datadog" THEN "500" ELSE "internal"
\* The end of a handler: its permit is dropped.
Answer(b, told) ==
  /\ stage' = [stage EXCEPT ![b] = <<>>] /\ answer' = [answer EXCEPT ![b] = told]
  /\ inFlight' = IF Counted THEN inFlight - 1 ELSE inFlight

Fault == faults < MaxFaults /\ faults' = faults + 1

-----------------------------------------------------------------------------
(* Admission: try_acquire.                                                 *)

\* Mutant: the counter is set from what was read.
AdmitStale(b) ==
  /\ At(b, "load") /\ loaded[b] # Unread /\ loaded[b] < MaxInFlight
  /\ inFlight' = loaded[b] + 1
  /\ stage' = [stage EXCEPT ![b] = Steps(b)]
  /\ UNCHANGED <<answer, loaded, seen, kept, rows, hashes, blobs, buffered, committed, published,
                 stats, dropped, mute, faults>>

LoadInFlight(b) ==
  /\ At(b, "load") /\ loaded[b] = Unread /\ Counted
  /\ loaded' = [loaded EXCEPT ![b] = inFlight]
  /\ UNCHANGED <<stage, answer, inFlight, seen, kept, rows, hashes, blobs, buffered, committed,
                 published, stats, dropped, mute, faults>>

\* At capacity the batch is shed.
Shed(b) ==
  /\ At(b, "load") /\ loaded[b] # Unread /\ loaded[b] >= MaxInFlight
  /\ stage' = [stage EXCEPT ![b] = <<>>] /\ answer' = [answer EXCEPT ![b] = Refused(b)]
  /\ stats' = [stats EXCEPT !.shed = @ + 1]
  /\ UNCHANGED <<loaded, inFlight, seen, kept, rows, hashes, blobs, buffered, committed,
                 published, dropped, mute, faults>>

\* The exchange succeeds if nobody came between.
Admit(b) ==
  /\ At(b, "load") /\ loaded[b] < MaxInFlight /\ loaded[b] = inFlight
  /\ inFlight' = inFlight + 1
  /\ stage' = [stage EXCEPT ![b] = Steps(b)]
  /\ UNCHANGED <<answer, loaded, seen, kept, rows, hashes, blobs, buffered, committed, published,
                 stats, dropped, mute, faults>>

\* Mutant: the loop goes on with what it had.
ReloadNothing(b) ==
  /\ At(b, "load") /\ loaded[b] < MaxInFlight /\ loaded[b] # inFlight
  /\ UNCHANGED ingestVars

\* It fails if somebody did: the loop goes on with what it found.
Reload(b) ==
  /\ At(b, "load") /\ loaded[b] < MaxInFlight /\ loaded[b] # inFlight
  /\ loaded' = [loaded EXCEPT ![b] = inFlight]
  /\ UNCHANGED <<stage, answer, inFlight, seen, kept, rows, hashes, blobs, buffered, committed,
                 published, stats, dropped, mute, faults>>

\* A gate that is switched off lets everything in, uncounted.
AdmitFreely(b) ==
  /\ At(b, "load") /\ ~Counted
  /\ stage' = [stage EXCEPT ![b] = Steps(b)]
  /\ UNCHANGED <<answer, loaded, inFlight, seen, kept, rows, hashes, blobs, buffered, committed,
                 published, stats, dropped, mute, faults>>

-----------------------------------------------------------------------------
(* The steps of a handler.                                                 *)

\* A body that cannot be decoded is the sender's fault.
Decode(b) ==
  /\ At(b, "decode")
  /\ \/ Done(b) /\ UNCHANGED <<answer, inFlight, dropped>>
     \/ Answer(b, "400") /\ dropped' = dropped \cup {b}
  /\ UNCHANGED <<loaded, seen, kept, rows, hashes, blobs, buffered, committed, published, stats, mute, faults>>

\* index_span, index_log_body: the text is added to what the writer buffers; an
\* error is passed over.
IndexText(b) ==
  /\ At(b, "index") /\ Done(b)
  /\ \/ buffered' = buffered \cup ({b} \cap Text) /\ UNCHANGED <<mute, faults>>
     \/ b \in Text /\ Fault /\ mute' = mute \cup {b} /\ UNCHANGED buffered
  /\ UNCHANGED <<answer, loaded, inFlight, seen, kept, rows, hashes, blobs, committed, published,
                 stats, dropped>>

\* Mutant: the row refers to a payload that was not taken.
PutBlobAnyway(b) ==
  /\ At(b, "blob") /\ Done(b)
  /\ hashes' = hashes \cup ({b} \cap Payload)
  /\ \/ blobs' = blobs \cup ({b} \cap Payload) /\ UNCHANGED faults
     \/ b \in Payload /\ Fault /\ UNCHANGED blobs
  /\ UNCHANGED <<answer, loaded, inFlight, seen, kept, rows, buffered, committed, published,
                 stats, dropped, mute>>

\* blob_value: the row will refer to its payload if the blob store took it.
PutBlob(b) ==
  /\ At(b, "blob") /\ Done(b)
  /\ \/ /\ blobs' = blobs \cup ({b} \cap Payload) /\ hashes' = hashes \cup ({b} \cap Payload)
        /\ UNCHANGED faults
     \/ b \in Payload /\ Fault /\ UNCHANGED <<blobs, hashes>>
  /\ UNCHANGED <<answer, loaded, inFlight, seen, kept, rows, buffered, committed, published,
                 stats, dropped, mute>>

\* How many series a cap has room for among some new ones.
Room(new) == LET left == SeriesLimit - Cardinality(seen)
             IN  IF Cardinality(new) < left THEN Cardinality(new) ELSE left

\* admit: points of series the process knows pass, and of new ones, in the order
\* they come, while there is room.
CapSeries(b) ==
  /\ At(b, "cap") /\ Done(b)
  /\ LET new == SeriesOf[b] \ seen
     IN  IF SeriesLimit = 0
         THEN kept' = [kept EXCEPT ![b] = SeriesOf[b]] /\ UNCHANGED seen
         ELSE \E some \in SUBSET new :
                /\ Cardinality(some) = Room(new)
                /\ seen' = seen \cup some
                /\ kept' = [kept EXCEPT ![b] = (SeriesOf[b] \cap seen) \cup some]
  /\ UNCHANGED <<answer, loaded, inFlight, rows, hashes, blobs, buffered, committed, published,
                 stats, dropped, mute, faults>>

\* insert_spans, insert_logs, insert_metrics.
Insert(b) ==
  /\ At(b, "insert") /\ Done(b)
  /\ rows' = rows \cup {b}
  /\ stats' = [stats EXCEPT !.accepted = @ + 1]
  /\ UNCHANGED <<answer, loaded, inFlight, seen, kept, hashes, blobs, buffered, committed,
                 published, dropped, mute, faults>>

\* Mutant: an insert that fails is logged and confirmed.
SwallowError(b) ==
  /\ At(b, "insert") /\ Fault /\ Done(b)
  /\ stats' = [stats EXCEPT !.errors = @ + 1]
  /\ UNCHANGED <<answer, loaded, inFlight, seen, kept, rows, hashes, blobs, buffered, committed,
                 published, dropped, mute>>

\* An insert that fails may have stored its rows all the same.
InsertFails(b) ==
  /\ At(b, "insert") /\ Fault
  /\ Answer(b, Broken(b))
  /\ rows' \in {rows, rows \cup {b}}
  /\ stats' = [stats EXCEPT !.errors = @ + 1] /\ dropped' = dropped \cup {b}
  /\ UNCHANGED <<loaded, seen, kept, hashes, blobs, buffered, committed, published, mute>>

\* commit: all that is buffered becomes searchable, that of other requests too.
CommitIndex(b) ==
  /\ At(b, "commit") /\ Done(b)
  /\ \/ committed' = committed \cup buffered /\ buffered' = {} /\ UNCHANGED <<mute, faults>>
     \/ Fault /\ mute' = mute \cup {b} /\ UNCHANGED <<buffered, committed>>
  /\ UNCHANGED <<answer, loaded, inFlight, seen, kept, rows, hashes, blobs, published, stats,
                 dropped>>

\* publish: to the topic, then to whoever follows.  An error is passed over.
PublishBatch(b) ==
  /\ At(b, "publish") /\ Done(b)
  /\ \/ published' = published \cup {b} /\ UNCHANGED faults
     \/ Fault /\ UNCHANGED published
  /\ UNCHANGED <<answer, loaded, inFlight, seen, kept, rows, hashes, blobs, buffered, committed,
                 stats, dropped, mute>>

Confirm(b) ==
  /\ At(b, "answer") /\ Answer(b, "ok")
  /\ UNCHANGED <<loaded, seen, kept, rows, hashes, blobs, buffered, committed, published, stats,
                 dropped, mute, faults>>

\* The process dies: what was in memory is gone, requests are cut.
IngestCrash ==
  /\ Fault
  /\ dropped' = dropped \cup {b \in Batches : stage[b] # <<>>}
  /\ stage' = [b \in Batches |-> <<>>] /\ inFlight' = 0 /\ seen' = {} /\ buffered' = {}
  /\ stats' = [accepted |-> 0, errors |-> 0, shed |-> 0]
  /\ kept' = [b \in Batches |-> {}]
  /\ UNCHANGED <<answer, loaded, rows, hashes, blobs, committed, published, mute>>

Handle(b) ==
  \/ LoadInFlight(b) \/ Shed(b) \/ Admit(b) \/ Reload(b) \/ AdmitFreely(b)
  \/ Decode(b) \/ IndexText(b) \/ PutBlob(b) \/ CapSeries(b) \/ Insert(b) \/ InsertFails(b)
  \/ CommitIndex(b) \/ PublishBatch(b) \/ Confirm(b)

IngestNext == UNCHANGED limits /\ (IngestCrash \/ \E b \in Batches : Handle(b))

IngestSpec == IngestInit /\ [][IngestNext]_ingestVars
-----------------------------------------------------------------------------
(* Properties.                                                             *)

Running(b) == stage[b] # <<>> /\ Head(stage[b]) # "load"

\* Types.
IngestTypeOK ==
  /\ inFlight \in 0 .. Cardinality(Batches) /\ seen \subseteq UNION {SeriesOf[b] : b \in Batches}
  /\ buffered \cup committed \subseteq Text /\ hashes \subseteq blobs
  /\ stats.accepted + stats.errors + stats.shed <= Cardinality(Batches)

\* The gate: never more batches at work than the cap, and no permit is lost on any
\* way out, so that a node at rest takes batches again.
AdmissionBounded ==
  Counted => /\ inFlight = Cardinality({b \in Batches : Running(b)})
             /\ inFlight <= MaxInFlight

\* The series cap holds for all that the process has let in, over batches in any order.
SeriesAreCapped ==
  SeriesLimit # 0 => Cardinality(UNION {kept[b] : b \in Batches}) <= SeriesLimit

\* Limits are limits, whoever comes between two steps of whom.
LimitsHold == AdmissionBounded /\ SeriesAreCapped

\* What followers hear of has been stored, on every pipeline.
FollowersHearWhatIsStored == published \subseteq rows

\* A search hit has its row, unless the batch is still at work or was refused or cut:
\* one request's commit makes the text of others searchable.
HitsAreAccountedFor ==
  \A b \in committed : b \in rows \cup dropped \/ Running(b)

\* The text of a confirmed batch is searchable, unless the index failed for it.
ConfirmedIsSearchable ==
  \A b \in Text \ mute :
    answer[b] = "ok" /\ PipelineOf[b] \in {"spans", "logs"} => b \in committed

\* What the store, the search index and the live feed show of a batch agrees.
ShownIsStored == FollowersHearWhatIsStored /\ HitsAreAccountedFor /\ ConfirmedIsSearchable

\* "Map a service-level failure (storage down, WAL full) onto an OTLP retryable status".
\* TLC refutes it: the service answers Internal, which is passed on as 500.
StorageFailuresAreRetryable ==
  \A b \in OverHttp : answer[b] # NoAnswer => answer[b] \in {"ok", "503", "429", "400"}

\* Every request is answered, however the admissions of others interleave with its
\* own, unless the process dies.
AllAnswered(sent) == \A b \in sent : answer[b] # NoAnswer \/ b \in dropped
=============================================================================
