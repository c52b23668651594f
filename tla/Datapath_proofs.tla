--------------------------- MODULE Datapath_proofs ---------------------------
(***************************************************************************)
(* Proofs about what comes in and what is thrown away: the admission gate, *)
(* the series cap and what the five pipelines show of a batch, for any     *)
(* number of batches; the collection of payload blobs, for any number of   *)
(* nodes and uploads, whatever the nodes believe about who leads; and      *)
(* comments and the reviews kept in them, for any commands and deaths.     *)
(* What is proved of each holds where MCDatapath runs them side by side.   *)
(***************************************************************************)
EXTENDS MCDatapath, FiniteSetTheorems, SequenceTheorems, WellFoundedInduction, TLAPS

-----------------------------------------------------------------------------
(* What is left of a handler.                                              *)

StepNames == {"load", "decode", "index", "blob", "cap", "insert", "commit", "publish", "answer"}

Has(steps, step) == \E i \in 1 .. Len(steps) : steps[i] = step

\* Steps come in their order: nothing is shown before it is stored, nothing is
\* searchable before it is indexed, and the answer comes last.
InOrder(steps) ==
  \A i, j \in 1 .. Len(steps) :
    /\ steps[i] = "insert" /\ steps[j] = "publish" => i < j
    /\ steps[i] = "insert" /\ steps[j] = "insert" => i = j
    /\ steps[i] = "index" /\ steps[j] = "commit" => i < j
    /\ steps[j] = "answer" => j = Len(steps)

WorkLeft(steps) ==
  /\ steps \in Seq(StepNames) /\ steps # <<>> /\ InOrder(steps)
  /\ steps[Len(steps)] = "answer" /\ ~Has(steps, "load")

Searched(b) == PipelineOf[b] \in {"spans", "logs"}

\* A tuple of steps is a sequence of steps.
LEMMA TupleOfSteps ==
  ASSUME NEW n \in Nat, NEW t, t = [i \in 1 .. n |-> t[i]], \A i \in 1 .. n : t[i] \in StepNames
  PROVE  t \in Seq(StepNames) /\ Len(t) = n
<1>1. t \in [1 .. n -> StepNames]
  OBVIOUS
<1>2. t \in Seq(StepNames)
  BY <1>1, SeqDef
<1> QED BY <1>1, <1>2, LenProperties

\* What a handler of spans starts from.
LEMMA SpanStepsLeft ==
  /\ WorkLeft(SpanSteps) /\ Has(SpanSteps, "insert")
  /\ Has(SpanSteps, "index") /\ Has(SpanSteps, "commit")
<1>1. /\ SpanSteps[1] = "index" /\ SpanSteps[2] = "blob" /\ SpanSteps[3] = "insert"
      /\ SpanSteps[4] = "commit" /\ SpanSteps[5] = "publish" /\ SpanSteps[6] = "answer"
  BY DEF SpanSteps
<1>2. SpanSteps = [i \in 1 .. 6 |-> SpanSteps[i]]
  BY DEF SpanSteps
<1>3. \A i \in 1 .. 6 : i \in {1, 2, 3, 4, 5, 6}
  OBVIOUS
<1>4. \A i \in 1 .. 6 : SpanSteps[i] \in StepNames
  BY <1>1, <1>3 DEF StepNames
<1>5. SpanSteps \in Seq(StepNames) /\ Len(SpanSteps) = 6
  BY <1>2, <1>4, TupleOfSteps
<1>6. InOrder(SpanSteps)
  BY <1>1, <1>3, <1>5 DEF InOrder
<1>7. ~Has(SpanSteps, "load")
  BY <1>1, <1>3, <1>5 DEF Has
<1>8. {1, 2, 3, 4, 5, 6} \subseteq 1 .. Len(SpanSteps)
  BY <1>5
<1>9. Has(SpanSteps, "insert") /\ Has(SpanSteps, "index") /\ Has(SpanSteps, "commit")
  BY <1>1, <1>8 DEF Has
<1>10. SpanSteps # <<>> /\ SpanSteps[Len(SpanSteps)] = "answer"
  <2>1. Len(SpanSteps) # 0
    BY <1>5
  <2> QED BY <1>1, <1>5, <2>1
<1> QED BY <1>5, <1>6, <1>7, <1>9, <1>10 DEF WorkLeft

\* The same for logs.
LEMMA LogStepsLeft ==
  /\ WorkLeft(LogSteps) /\ Has(LogSteps, "insert")
  /\ Has(LogSteps, "index") /\ Has(LogSteps, "commit")
<1>1. /\ LogSteps[1] = "blob" /\ LogSteps[2] = "index" /\ LogSteps[3] = "commit"
      /\ LogSteps[4] = "insert" /\ LogSteps[5] = "publish" /\ LogSteps[6] = "answer"
  BY DEF LogSteps
<1>2. LogSteps = [i \in 1 .. 6 |-> LogSteps[i]]
  BY DEF LogSteps
<1>3. \A i \in 1 .. 6 : i \in {1, 2, 3, 4, 5, 6}
  OBVIOUS
<1>4. \A i \in 1 .. 6 : LogSteps[i] \in StepNames
  BY <1>1, <1>3 DEF StepNames
<1>5. LogSteps \in Seq(StepNames) /\ Len(LogSteps) = 6
  BY <1>2, <1>4, TupleOfSteps
<1>6. InOrder(LogSteps)
  BY <1>1, <1>3, <1>5 DEF InOrder
<1>7. ~Has(LogSteps, "load")
  BY <1>1, <1>3, <1>5 DEF Has
<1>8. {1, 2, 3, 4, 5, 6} \subseteq 1 .. Len(LogSteps)
  BY <1>5
<1>9. Has(LogSteps, "insert") /\ Has(LogSteps, "index") /\ Has(LogSteps, "commit")
  BY <1>1, <1>8 DEF Has
<1>10. LogSteps # <<>> /\ LogSteps[Len(LogSteps)] = "answer"
  <2>1. Len(LogSteps) # 0
    BY <1>5
  <2> QED BY <1>1, <1>5, <2>1
<1> QED BY <1>5, <1>6, <1>7, <1>9, <1>10 DEF WorkLeft

\* The same for metrics.
LEMMA MetricStepsLeft ==
  WorkLeft(MetricSteps) /\ Has(MetricSteps, "insert")
<1>1. /\ MetricSteps[1] = "cap" /\ MetricSteps[2] = "insert" /\ MetricSteps[3] = "answer"
  BY DEF MetricSteps
<1>2. MetricSteps = [i \in 1 .. 3 |-> MetricSteps[i]]
  BY DEF MetricSteps
<1>3. \A i \in 1 .. 3 : i \in {1, 2, 3}
  OBVIOUS
<1>4. \A i \in 1 .. 3 : MetricSteps[i] \in StepNames
  BY <1>1, <1>3 DEF StepNames
<1>5. MetricSteps \in Seq(StepNames) /\ Len(MetricSteps) = 3
  BY <1>2, <1>4, TupleOfSteps
<1>6. InOrder(MetricSteps)
  BY <1>1, <1>3, <1>5 DEF InOrder
<1>7. ~Has(MetricSteps, "load")
  BY <1>1, <1>3, <1>5 DEF Has
<1>8. {1, 2, 3} \subseteq 1 .. Len(MetricSteps)
  BY <1>5
<1>9. Has(MetricSteps, "insert")
  BY <1>1, <1>8 DEF Has
<1>10. MetricSteps # <<>> /\ MetricSteps[Len(MetricSteps)] = "answer"
  <2>1. Len(MetricSteps) # 0
    BY <1>5
  <2> QED BY <1>1, <1>5, <2>1
<1> QED BY <1>5, <1>6, <1>7, <1>9, <1>10 DEF WorkLeft

\* The same for remote write.
LEMMA RemoteWriteStepsLeft ==
  WorkLeft(RemoteWriteSteps) /\ Has(RemoteWriteSteps, "insert")
<1>1. /\ RemoteWriteSteps[1] = "decode" /\ RemoteWriteSteps[2] = "cap" /\ RemoteWriteSteps[3] = "insert"
      /\ RemoteWriteSteps[4] = "answer"
  BY DEF RemoteWriteSteps
<1>2. RemoteWriteSteps = [i \in 1 .. 4 |-> RemoteWriteSteps[i]]
  BY DEF RemoteWriteSteps
<1>3. \A i \in 1 .. 4 : i \in {1, 2, 3, 4}
  OBVIOUS
<1>4. \A i \in 1 .. 4 : RemoteWriteSteps[i] \in StepNames
  BY <1>1, <1>3 DEF StepNames
<1>5. RemoteWriteSteps \in Seq(StepNames) /\ Len(RemoteWriteSteps) = 4
  BY <1>2, <1>4, TupleOfSteps
<1>6. InOrder(RemoteWriteSteps)
  BY <1>1, <1>3, <1>5 DEF InOrder
<1>7. ~Has(RemoteWriteSteps, "load")
  BY <1>1, <1>3, <1>5 DEF Has
<1>8. {1, 2, 3, 4} \subseteq 1 .. Len(RemoteWriteSteps)
  BY <1>5
<1>9. Has(RemoteWriteSteps, "insert")
  BY <1>1, <1>8 DEF Has
<1>10. RemoteWriteSteps # <<>> /\ RemoteWriteSteps[Len(RemoteWriteSteps)] = "answer"
  <2>1. Len(RemoteWriteSteps) # 0
    BY <1>5
  <2> QED BY <1>1, <1>5, <2>1
<1> QED BY <1>5, <1>6, <1>7, <1>9, <1>10 DEF WorkLeft

\* The same for Datadog traces.
LEMMA DatadogStepsLeft ==
  WorkLeft(DatadogSteps) /\ Has(DatadogSteps, "insert")
<1>1. /\ DatadogSteps[1] = "decode" /\ DatadogSteps[2] = "blob" /\ DatadogSteps[3] = "insert"
      /\ DatadogSteps[4] = "publish" /\ DatadogSteps[5] = "answer"
  BY DEF DatadogSteps
<1>2. DatadogSteps = [i \in 1 .. 5 |-> DatadogSteps[i]]
  BY DEF DatadogSteps
<1>3. \A i \in 1 .. 5 : i \in {1, 2, 3, 4, 5}
  OBVIOUS
<1>4. \A i \in 1 .. 5 : DatadogSteps[i] \in StepNames
  BY <1>1, <1>3 DEF StepNames
<1>5. DatadogSteps \in Seq(StepNames) /\ Len(DatadogSteps) = 5
  BY <1>2, <1>4, TupleOfSteps
<1>6. InOrder(DatadogSteps)
  BY <1>1, <1>3, <1>5 DEF InOrder
<1>7. ~Has(DatadogSteps, "load")
  BY <1>1, <1>3, <1>5 DEF Has
<1>8. {1, 2, 3, 4, 5} \subseteq 1 .. Len(DatadogSteps)
  BY <1>5
<1>9. Has(DatadogSteps, "insert")
  BY <1>1, <1>8 DEF Has
<1>10. DatadogSteps # <<>> /\ DatadogSteps[Len(DatadogSteps)] = "answer"
  <2>1. Len(DatadogSteps) # 0
    BY <1>5
  <2> QED BY <1>1, <1>5, <2>1
<1> QED BY <1>5, <1>6, <1>7, <1>9, <1>10 DEF WorkLeft

\* What every pipeline starts from.
LEMMA StepsLeft ==
  ASSUME NEW b \in Batches
  PROVE  /\ WorkLeft(Steps(b)) /\ Has(Steps(b), "insert")
         /\ Searched(b) => Has(Steps(b), "index") /\ Has(Steps(b), "commit")
  BY SpanStepsLeft, LogStepsLeft, MetricStepsLeft, RemoteWriteStepsLeft, DatadogStepsLeft DEF Steps, Searched

\* One step further there is still work, in order, unless the step was the answer.
LEMMA TailLeft ==
  ASSUME NEW steps, WorkLeft(steps), Head(steps) # "answer"
  PROVE  /\ WorkLeft(Tail(steps))
         /\ \A step : Has(Tail(steps), step) => Has(steps, step)
         /\ \A step : Has(steps, step) /\ Head(steps) # step => Has(Tail(steps), step)
         /\ Head(steps) = "insert" => ~Has(Tail(steps), "insert")
<1> USE DEF WorkLeft
<1> DEFINE n == Len(steps)
           rest == Tail(steps)
<1>1. n \in Nat \ {0} /\ steps[1] # "answer" /\ Head(steps) = steps[1]
  OBVIOUS
<1>2. n > 1
  BY <1>1
<1>3. rest \in Seq(StepNames) /\ Len(rest) = n - 1 /\ \A i \in 1 .. n - 1 : rest[i] = steps[i + 1]
  BY <1>1
<1>4. rest # <<>>
  <2>1. Len(rest) # 0
    BY <1>2, <1>3
  <2> QED BY <2>1
<1> HIDE DEF rest
<1>5. InOrder(rest) /\ rest[Len(rest)] = "answer"
  BY <1>1, <1>2, <1>3 DEF InOrder
<1>6. \A step : Has(rest, step) => Has(steps, step)
  BY <1>1, <1>2, <1>3 DEF Has
<1>7. ASSUME NEW step, Has(steps, step), steps[1] # step PROVE Has(rest, step)
  <2>1. PICK i \in 1 .. n : steps[i] = step
    BY <1>7 DEF Has
  <2>2. i - 1 \in 1 .. n - 1 /\ rest[i - 1] = step
    BY <1>1, <1>3, <1>7, <2>1
  <2> QED BY <1>3, <2>2 DEF Has
<1>8. steps[1] = "insert" => ~Has(rest, "insert")
  BY <1>1, <1>2, <1>3 DEF InOrder, Has
<1> QED BY <1>1, <1>3, <1>4, <1>5, <1>6, <1>7, <1>8 DEF rest

\* What a handler that gets to a step has behind it.
LEMMA BehindIt ==
  ASSUME NEW steps, WorkLeft(steps)
  PROVE  /\ Head(steps) # "load"
         /\ Head(steps) \in {"publish", "answer"} => ~Has(steps, "insert")
         /\ Head(steps) = "commit" => ~Has(steps, "index")
         /\ Head(steps) = "answer" => ~Has(steps, "commit")
         /\ Has(steps, Head(steps))
<1>1. steps \in Seq(StepNames) /\ Len(steps) \in Nat \ {0} /\ Head(steps) = steps[1]
  BY DEF WorkLeft
<1> QED BY <1>1 DEF WorkLeft, InOrder, Has

-----------------------------------------------------------------------------
(* The configuration.                                                      *)

LimitsOK == limits \in Limits

\* Limits are numbers, and stay what they are.
LEMMA LimitsStay ==
  ASSUME LimitsOK
  PROVE  /\ MaxInFlight \in Nat /\ SeriesLimit \in Nat
         /\ [IngestNext]_ingestVars =>
              LimitsOK' /\ MaxInFlight' = MaxInFlight /\ SeriesLimit' = SeriesLimit
<1>1. limits \in [inFlight : Nat, series : Nat]
  BY IngestAssumption DEF LimitsOK
<1>2. [IngestNext]_ingestVars => limits' = limits
  BY DEF IngestNext, ingestVars
<1> QED BY <1>1, <1>2 DEF LimitsOK, MaxInFlight, SeriesLimit

-----------------------------------------------------------------------------
(* How a request moves.                                                    *)

StagesOK ==
  /\ stage \in [Batches -> Seq(StepNames)]
  /\ \A b \in Batches : stage[b] = <<>> \/ stage[b] = <<"load">> \/ WorkLeft(stage[b])

Past(b, step) == Running(b) /\ ~Has(stage[b], step)

\* Admitted, one step further, at its end, or waiting at the gate.
Enters(b) == stage[b] = <<"load">> /\ stage' = [stage EXCEPT ![b] = Steps(b)]
Works(b)  == Running(b) /\ Head(stage[b]) # "answer" /\ Done(b)
Leaves(b) == stage[b] # <<>> /\ stage' = [stage EXCEPT ![b] = <<>>]

\* A request counts as running while it has work before it.
LEMMA RunningIsWork ==
  ASSUME StagesOK, NEW b \in Batches
  PROVE  Running(b) <=> WorkLeft(stage[b])
<1>1. stage[b] = <<"load">> => ~Running(b) /\ Has(stage[b], "load")
  <2> SUFFICES ASSUME stage[b] = <<"load">> PROVE ~Running(b) /\ Has(stage[b], "load")
    OBVIOUS
  <2>1. Head(stage[b]) = "load" /\ Len(stage[b]) = 1 /\ stage[b][1] = "load"
    OBVIOUS
  <2> QED BY <2>1 DEF Running, Has
<1>2. WorkLeft(stage[b]) => stage[b] # <<>> /\ Head(stage[b]) # "load"
  BY BehindIt DEF WorkLeft
<1> QED BY <1>1, <1>2 DEF StagesOK, Running, WorkLeft

\* A step of a request enters it, works on it, or ends it.
LEMMA BatchMoves ==
  ASSUME StagesOK, NEW b \in Batches, Handle(b)
  PROVE  stage' = stage \/ Enters(b) \/ Works(b) \/ Leaves(b)
<1>1. At(b, "load") => stage[b] = <<"load">>
  BY BehindIt DEF At, StagesOK
<1> QED BY <1>1 DEF Handle, LoadInFlight, Shed, Admit, Reload, AdmitFreely, Decode, IndexText, PutBlob,
        CapSeries, Insert, InsertFails, CommitIndex, PublishBatch, Confirm, Answer, Done, At,
        Enters, Works, Leaves, Running

\* Moving, a request keeps its place in line.
LEMMA StagesStep ==
  ASSUME StagesOK, [IngestNext]_ingestVars
  PROVE  StagesOK'
<1>1. ASSUME NEW b \in Batches, Handle(b) PROVE StagesOK'
  <2>1. CASE Enters(b)
    BY <2>1, StepsLeft DEF Enters, StagesOK, WorkLeft
  <2>2. CASE Works(b)
    <3>1. WorkLeft(Tail(stage[b]))
      BY <2>2, TailLeft, RunningIsWork DEF Works
    <3> QED BY <2>2, <3>1 DEF Works, Done, StagesOK, WorkLeft
  <2>3. CASE Leaves(b)
    <3>1. <<>> \in Seq(StepNames)
      OBVIOUS
    <3> QED BY <2>3, <3>1 DEF Leaves, StagesOK
  <2> QED BY <1>1, <2>1, <2>2, <2>3, BatchMoves DEF StagesOK
<1>2. CASE IngestCrash
  BY <1>2 DEF IngestCrash, StagesOK
<1>3. CASE UNCHANGED ingestVars
  BY <1>3 DEF ingestVars, StagesOK
<1> QED BY <1>1, <1>2, <1>3 DEF IngestNext

\* Who is at work before and after a move.
LEMMA RunningMoves ==
  ASSUME StagesOK, NEW b \in Batches
  PROVE  /\ \A c \in Batches \ {b} : Enters(b) \/ Works(b) \/ Leaves(b) => (stage'[c] = stage[c] /\ (Running(c)' <=> Running(c)))
         /\ Enters(b) => ~Running(b) /\ Running(b)' /\ stage'[b] = Steps(b)
         /\ Works(b) => Running(b) /\ Running(b)' /\ stage'[b] = Tail(stage[b])
         /\ Leaves(b) => ~Running(b)' /\ stage'[b] = <<>>
<1>1. \A c \in Batches \ {b} : Enters(b) \/ Works(b) \/ Leaves(b) => (stage'[c] = stage[c] /\ (Running(c)' <=> Running(c)))
  BY DEF Enters, Works, Leaves, Done, Running, StagesOK
<1>2. ASSUME Enters(b) PROVE ~Running(b) /\ Running(b)' /\ stage'[b] = Steps(b)
  <2>1. stage'[b] = Steps(b) /\ stage[b] = <<"load">>
    BY <1>2 DEF Enters, StagesOK
  <2>2. Steps(b) # <<>> /\ Head(Steps(b)) # "load"
    BY StepsLeft, BehindIt DEF WorkLeft
  <2> QED BY <2>1, <2>2 DEF Running
<1>3. ASSUME Works(b) PROVE Running(b) /\ Running(b)' /\ stage'[b] = Tail(stage[b])
  <2>1. stage'[b] = Tail(stage[b]) /\ Running(b)
    BY <1>3 DEF Works, Done, StagesOK
  <2>2. WorkLeft(Tail(stage[b]))
    BY <1>3, TailLeft, RunningIsWork DEF Works
  <2>3. Tail(stage[b]) # <<>> /\ Head(Tail(stage[b])) # "load"
    BY <2>2, BehindIt DEF WorkLeft
  <2> QED BY <2>1, <2>3 DEF Running
<1>4. ASSUME Leaves(b) PROVE ~Running(b)' /\ stage'[b] = <<>>
  BY <1>4 DEF Leaves, Running, StagesOK
<1> QED BY <1>1, <1>2, <1>3, <1>4

-----------------------------------------------------------------------------
(* The gate.                                                               *)

AtWork == {b \in Batches : Running(b)}

GateInv ==
  /\ Counted => inFlight = Cardinality(AtWork) /\ inFlight <= MaxInFlight
  /\ ~Counted => inFlight = 0

\* The set of those at work is finite, and grows and shrinks by one.
LEMMA AtWorkFinite == IsFiniteSet(AtWork) /\ Cardinality(AtWork) \in Nat /\ Cardinality(AtWork) <= Cardinality(Batches)
  BY IngestAssumption, FS_Subset, FS_CardinalityType DEF AtWork

\* A permit is taken by whoever enters and given back on every way out.
LEMMA GateStep ==
  ASSUME LimitsOK, StagesOK, GateInv, [IngestNext]_ingestVars
  PROVE  GateInv'
<1>a. MaxInFlight \in Nat /\ MaxInFlight' = MaxInFlight /\ (Counted' <=> Counted)
  BY LimitsStay DEF Counted
<1>1. ASSUME NEW b \in Batches, Admit(b) PROVE GateInv'
  <2>1. inFlight \in Nat /\ inFlight < MaxInFlight /\ inFlight' = inFlight + 1 /\ Counted
    BY <1>1, AtWorkFinite, <1>a DEF Admit, GateInv, Counted
  <2>2. Enters(b)
    BY <1>1, BehindIt DEF Admit, At, StagesOK, Enters
  <2>3. AtWork' = AtWork \cup {b} /\ b \notin AtWork
    BY <2>2, RunningMoves DEF AtWork
  <2>4. Cardinality(AtWork') = Cardinality(AtWork) + 1
    BY <2>3, AtWorkFinite, FS_AddElement
  <2> QED BY <1>a, <2>1, <2>4 DEF GateInv
<1>2. ASSUME NEW b \in Batches, AdmitFreely(b) PROVE GateInv'
  BY <1>a, <1>2 DEF AdmitFreely, GateInv
<1>3. ASSUME NEW b \in Batches, NEW told, Running(b), Answer(b, told) PROVE GateInv'
  <2>1. Leaves(b) /\ inFlight' = IF Counted THEN inFlight - 1 ELSE inFlight
    BY <1>3 DEF Answer, Leaves, Running
  <2>2. AtWork' = AtWork \ {b} /\ b \in AtWork
    BY <1>3, <2>1, RunningMoves DEF AtWork
  <2>3. Cardinality(AtWork') = Cardinality(AtWork) - 1
    BY <2>2, AtWorkFinite, FS_RemoveElement
  <2> QED BY <1>a, <2>1, <2>3, AtWorkFinite DEF GateInv
<1>4. ASSUME NEW b \in Batches, Shed(b) PROVE GateInv'
  <2>1. Leaves(b) /\ ~Running(b) /\ inFlight' = inFlight
    BY <1>4 DEF Shed, At, Leaves, Running
  <2>2. AtWork' = AtWork
    BY <2>1, RunningMoves DEF AtWork
  <2> QED BY <1>a, <2>1, <2>2 DEF GateInv
<1>5. ASSUME NEW b \in Batches, Works(b), inFlight' = inFlight PROVE GateInv'
  <2>1. AtWork' = AtWork
    BY <1>5, RunningMoves DEF AtWork
  <2> QED BY <1>a, <1>5, <2>1 DEF GateInv
<1>6. CASE UNCHANGED <<stage, inFlight>>
  BY <1>a, <1>6 DEF GateInv, AtWork, Running
<1>7. CASE IngestCrash
  <2>1. AtWork' = {} /\ inFlight' = 0
    BY <1>7 DEF IngestCrash, AtWork, Running
  <2> QED BY <1>a, <2>1, FS_EmptySet DEF GateInv
<1>8. ASSUME NEW b \in Batches, Handle(b) PROVE GateInv'
  <2>1. \/ Admit(b) \/ AdmitFreely(b) \/ Shed(b) \/ (Works(b) /\ inFlight' = inFlight)
        \/ UNCHANGED <<stage, inFlight>> \/ \E told : Running(b) /\ Answer(b, told)
    BY <1>8 DEF Handle, LoadInFlight, Reload, Decode, IndexText, PutBlob, CapSeries, Insert, InsertFails,
       CommitIndex, PublishBatch, Confirm, At, Works, Running
  <2> QED BY <1>1, <1>2, <1>3, <1>4, <1>5, <1>6, <2>1
<1> QED BY <1>6, <1>7, <1>8 DEF IngestNext, ingestVars

-----------------------------------------------------------------------------
(* The series cap.                                                         *)

CapInv ==
  /\ kept \in [Batches -> SUBSET UNION {SeriesOf[b] : b \in Batches}]
  /\ seen \subseteq UNION {SeriesOf[b] : b \in Batches}
  /\ SeriesLimit # 0 => /\ IsFiniteSet(seen) /\ Cardinality(seen) <= SeriesLimit
                        /\ \A b \in Batches : kept[b] \subseteq seen

\* What a batch brings that is new fits, or as much of it as there is room for.
LEMMA CapStep ==
  ASSUME LimitsOK, CapInv, [IngestNext]_ingestVars
  PROVE  CapInv'
<1>a. SeriesLimit \in Nat /\ SeriesLimit' = SeriesLimit
  BY LimitsStay
<1> DEFINE all == UNION {SeriesOf[b] : b \in Batches}
<1>1. ASSUME NEW b \in Batches, CapSeries(b) PROVE CapInv'
  <2>1. SeriesOf[b] \subseteq all
    OBVIOUS
  <2> HIDE DEF all
  <2>2. CASE SeriesLimit = 0
    <3>1. kept' = [kept EXCEPT ![b] = SeriesOf[b]] /\ seen' = seen
      BY <1>1, <2>2 DEF CapSeries
    <3> QED BY <1>a, <2>1, <2>2, <3>1 DEF CapInv, all
  <2>3. CASE SeriesLimit # 0
    <3> DEFINE new == SeriesOf[b] \ seen
    <3>1. PICK some \in SUBSET new :
            /\ Cardinality(some) = Room(new) /\ seen' = seen \cup some
            /\ kept' = [kept EXCEPT ![b] = (SeriesOf[b] \cap seen) \cup some]
      BY <1>1, <2>3 DEF CapSeries
    <3>2. IsFiniteSet(new) /\ IsFiniteSet(some) /\ IsFiniteSet(seen)
      BY <2>3, IngestAssumption, FS_Subset DEF CapInv
    <3>3. Cardinality(new) \in Nat /\ Cardinality(some) \in Nat /\ Cardinality(seen) \in Nat
      BY <3>2, FS_CardinalityType
    <3>4. Cardinality(some) + Cardinality(seen) <= SeriesLimit
      BY <1>a, <2>3, <3>1, <3>3 DEF Room, CapInv
    <3>5. seen \cap some = {}
      OBVIOUS
    <3>6. IsFiniteSet(seen') /\ Cardinality(seen') = Cardinality(seen) + Cardinality(some)
      <4>1. IsFiniteSet(seen') /\ Cardinality(seen') = Cardinality(seen) + Cardinality(some) - Cardinality(seen \cap some)
        BY <3>1, <3>2, FS_Union
      <4>2. Cardinality(seen \cap some) = 0
        BY <3>5, FS_EmptySet
      <4> QED BY <3>3, <4>1, <4>2
    <3>7. seen' \subseteq all /\ kept' \in [Batches -> SUBSET all] /\ \A c \in Batches : kept'[c] \subseteq seen'
      BY <2>1, <2>3, <3>1 DEF CapInv, all
    <3> QED BY <1>a, <3>3, <3>4, <3>6, <3>7 DEF CapInv, all
  <2> QED BY <2>2, <2>3
<1>2. CASE IngestCrash
  BY <1>a, <1>2, FS_EmptySet DEF IngestCrash, CapInv
<1>3. CASE UNCHANGED <<seen, kept>>
  BY <1>a, <1>3 DEF CapInv
<1> QED BY <1>1, <1>2, <1>3 DEF IngestNext, Handle, LoadInFlight, Shed, Admit, Reload, AdmitFreely, Decode,
        IndexText, PutBlob, Insert, InsertFails, CommitIndex, PublishBatch, Confirm, ingestVars

-----------------------------------------------------------------------------
(* The pipelines.                                                          *)

\* A batch past its insert has its rows; a batch past its index and its commit is
\* searchable, unless the index failed for it.
RowsStoredOK ==
  /\ \A b \in Batches : Past(b, "insert") => b \in rows
  /\ published \subseteq rows
  /\ rows \cup buffered \cup committed \cup published \subseteq Batches
  /\ \A b \in buffered \cup committed : b \in rows \cup dropped \/ Running(b)

SearchOK ==
  \A b \in (Text \cap Batches) \ mute : Searched(b) =>
    /\ Past(b, "index") => b \in buffered \cup committed
    /\ Past(b, "commit") => b \in committed
    /\ answer[b] = "ok" => b \in committed

PipeInv == RowsStoredOK /\ SearchOK /\ DOMAIN answer = Batches

\* What a batch has behind it after a move.
LEMMA PastMoves ==
  ASSUME StagesOK, NEW b \in Batches
  PROVE  /\ \A c \in Batches \ {b} : \A step : Enters(b) \/ Works(b) \/ Leaves(b) => (Past(c, step)' <=> Past(c, step))
         /\ Enters(b) => ~Past(b, "insert")' /\ (Searched(b) => ~Past(b, "index")' /\ ~Past(b, "commit")')
         /\ Works(b) => \A step : Past(b, step)' => Past(b, step) \/ Head(stage[b]) = step
         /\ Leaves(b) => \A step : ~Past(b, step)'
<1>1. \A c \in Batches \ {b} : \A step : Enters(b) \/ Works(b) \/ Leaves(b) => (Past(c, step)' <=> Past(c, step))
  BY RunningMoves DEF Past
<1>2. Enters(b) => ~Past(b, "insert")' /\ (Searched(b) => ~Past(b, "index")' /\ ~Past(b, "commit")')
  BY RunningMoves, StepsLeft DEF Past
<1>3. ASSUME Works(b), NEW step, Past(b, step)' PROVE Past(b, step) \/ Head(stage[b]) = step
  <2>1. WorkLeft(stage[b]) /\ Head(stage[b]) # "answer"
    BY <1>3, RunningIsWork DEF Works
  <2>2. Has(stage[b], step) /\ Head(stage[b]) # step => Has(Tail(stage[b]), step)
    BY <2>1, TailLeft
  <2> QED BY <1>3, <2>2, RunningMoves DEF Past
<1>4. Leaves(b) => \A step : ~Past(b, step)'
  BY RunningMoves DEF Past
<1> QED BY <1>1, <1>2, <1>3, <1>4

\* Rows come before what shows them.
LEMMA StoredStep ==
  ASSUME StagesOK, RowsStoredOK, [IngestNext]_ingestVars
  PROVE  RowsStoredOK'
<1> USE DEF RowsStoredOK
<1>1. ASSUME NEW b \in Batches, Enters(b), UNCHANGED <<rows, buffered, committed, published, dropped>>
      PROVE  RowsStoredOK'
  BY <1>1, RunningMoves, PastMoves
<1>2. ASSUME NEW b \in Batches, Works(b), Head(stage[b]) # "insert",
             UNCHANGED <<rows, dropped>>, published' = published,
             buffered' \cup committed' \subseteq buffered \cup committed \cup {b}
      PROVE  RowsStoredOK'
  BY <1>2, RunningMoves, PastMoves
<1>3. ASSUME NEW b \in Batches, Insert(b) PROVE RowsStoredOK'
  <2>1. Works(b) /\ Head(stage[b]) = "insert" /\ rows' = rows \cup {b}
        /\ UNCHANGED <<buffered, committed, published, dropped>>
    BY <1>3 DEF Insert, Works, At, Running
  <2> QED BY <2>1, RunningMoves, PastMoves
<1>4. ASSUME NEW b \in Batches, PublishBatch(b) PROVE RowsStoredOK'
  <2>1. Works(b) /\ Head(stage[b]) = "publish" /\ published' \subseteq published \cup {b}
        /\ UNCHANGED <<rows, buffered, committed, dropped>>
    BY <1>4 DEF PublishBatch, Works, At, Running
  <2>2. b \in rows
    BY <2>1, RunningIsWork, BehindIt DEF Works, Past
  <2> QED BY <2>1, <2>2, RunningMoves, PastMoves
<1>5. ASSUME NEW b \in Batches, Leaves(b), b \in rows' \cup dropped' \/ ~Running(b),
             rows \subseteq rows', rows' \subseteq rows \cup {b}, dropped \subseteq dropped',
             UNCHANGED <<buffered, committed, published>>
      PROVE  RowsStoredOK'
  BY <1>5, RunningMoves, PastMoves
<1>6. ASSUME NEW b \in Batches, Confirm(b) PROVE RowsStoredOK'
  <2>1. Leaves(b) /\ Running(b) /\ Head(stage[b]) = "answer"
        /\ UNCHANGED <<rows, buffered, committed, published, dropped>>
    BY <1>6 DEF Confirm, Answer, Leaves, At, Running
  <2>2. b \in rows
    BY <2>1, RunningIsWork, BehindIt DEF Past
  <2> QED BY <1>5, <2>1, <2>2
<1>7. ASSUME NEW b \in Batches, Shed(b) PROVE RowsStoredOK'
  <2>1. Leaves(b) /\ ~Running(b) /\ UNCHANGED <<rows, buffered, committed, published, dropped>>
    BY <1>7 DEF Shed, Leaves, At, Running
  <2> QED BY <1>5, <2>1
<1>8. ASSUME NEW b \in Batches, InsertFails(b) PROVE RowsStoredOK'
  <2>1. Leaves(b) /\ dropped' = dropped \cup {b} /\ rows \subseteq rows' /\ rows' \subseteq rows \cup {b}
        /\ UNCHANGED <<buffered, committed, published>>
    BY <1>8 DEF InsertFails, Answer, Leaves, At, Running
  <2> QED BY <1>5, <2>1
<1>9. ASSUME NEW b \in Batches, Decode(b) PROVE RowsStoredOK'
  <2>1. CASE Answer(b, "400") /\ dropped' = dropped \cup {b}
    <3>1. Leaves(b) /\ UNCHANGED <<rows, buffered, committed, published>>
      BY <1>9, <2>1 DEF Decode, Answer, Leaves, At, Running
    <3> QED BY <1>5, <2>1, <3>1
  <2>2. CASE Done(b) /\ dropped' = dropped
    BY <1>2, <1>9, <2>2 DEF Decode, Works, At, Running
  <2> QED BY <1>9, <2>1, <2>2 DEF Decode
<1>10. ASSUME NEW b \in Batches, IndexText(b) \/ PutBlob(b) \/ CapSeries(b) \/ CommitIndex(b) PROVE RowsStoredOK'
  <2>1. Works(b) /\ Head(stage[b]) # "insert" /\ UNCHANGED <<rows, dropped>> /\ published' = published
    BY <1>10 DEF IndexText, PutBlob, CapSeries, CommitIndex, Works, At, Running
  <2>2. buffered' \cup committed' \subseteq buffered \cup committed \cup {b}
    BY <1>10 DEF IndexText, PutBlob, CapSeries, CommitIndex
  <2> QED BY <1>2, <2>1, <2>2
<1>11. ASSUME NEW b \in Batches, Admit(b) \/ AdmitFreely(b) PROVE RowsStoredOK'
  <2>1. Enters(b) /\ UNCHANGED <<rows, buffered, committed, published, dropped>>
    BY <1>11, BehindIt DEF Admit, AdmitFreely, At, StagesOK, Enters
  <2> QED BY <1>1, <2>1
<1>12. CASE IngestCrash
  <2>1. /\ dropped' = dropped \cup {b \in Batches : stage[b] # <<>>}
        /\ stage' = [b \in Batches |-> <<>>] /\ buffered' = {} /\ UNCHANGED <<rows, committed, published>>
    BY <1>12 DEF IngestCrash
  <2> QED BY <2>1 DEF Past, Running
<1>13. CASE UNCHANGED <<stage, rows, buffered, committed, published, dropped>>
  BY <1>13 DEF Past, Running
<1> QED BY <1>3, <1>4, <1>6, <1>7, <1>8, <1>9, <1>10, <1>11, <1>12, <1>13
        DEF IngestNext, Handle, LoadInFlight, Reload, ingestVars

\* Texts come before what finds them.
LEMMA SearchStep ==
  ASSUME StagesOK, SearchOK, DOMAIN answer = Batches, [IngestNext]_ingestVars
  PROVE  SearchOK' /\ DOMAIN answer' = Batches
<1> USE DEF SearchOK
<1> DEFINE Same(b) == \A c \in Batches \ {b} : answer'[c] = answer[c]
<1>a. DOMAIN answer' = Batches
  BY DEF IngestNext, Handle, LoadInFlight, Shed, Admit, Reload, AdmitFreely, Decode, IndexText, PutBlob, CapSeries,
         Insert, InsertFails, CommitIndex, PublishBatch, Confirm, Answer, IngestCrash, ingestVars
<1>1. ASSUME NEW b \in Batches, Enters(b), UNCHANGED <<answer, buffered, committed, mute>> PROVE SearchOK'
  BY <1>1, PastMoves
<1>2. ASSUME NEW b \in Batches, Works(b), Head(stage[b]) \notin {"index", "commit"},
             UNCHANGED <<answer, buffered, committed, mute>>
      PROVE  SearchOK'
  BY <1>2, PastMoves
<1>3. ASSUME NEW b \in Batches, IndexText(b) PROVE SearchOK'
  <2>1. /\ Works(b) /\ Head(stage[b]) = "index" /\ UNCHANGED <<answer, committed>>
        /\ buffered \subseteq buffered' /\ mute \subseteq mute' /\ (b \in Text => b \in buffered' \cup mute')
    BY <1>3 DEF IndexText, Works, At, Running
  <2> QED BY <2>1, PastMoves
<1>4. ASSUME NEW b \in Batches, CommitIndex(b) PROVE SearchOK'
  <2>1. /\ Works(b) /\ Head(stage[b]) = "commit" /\ UNCHANGED answer
    BY <1>4 DEF CommitIndex, Works, At, Running
  <2>2. Past(b, "index")
    BY <2>1, RunningIsWork, BehindIt DEF Works, Past
  <2>3. CASE committed' = committed \cup buffered /\ buffered' = {} /\ mute' = mute
    BY <2>1, <2>2, <2>3, PastMoves
  <2>4. CASE mute' = mute \cup {b} /\ UNCHANGED <<buffered, committed>>
    BY <2>1, <2>4, PastMoves
  <2> QED BY <1>4, <2>3, <2>4 DEF CommitIndex
<1>5. ASSUME NEW b \in Batches, NEW told, Leaves(b), answer' = [answer EXCEPT ![b] = told], told # "ok",
             UNCHANGED <<buffered, committed, mute>>
      PROVE  SearchOK'
  BY <1>5, PastMoves
<1>6. ASSUME NEW b \in Batches, Confirm(b) PROVE SearchOK'
  <2>1. /\ Leaves(b) /\ Running(b) /\ Head(stage[b]) = "answer" /\ answer' = [answer EXCEPT ![b] = "ok"]
        /\ UNCHANGED <<buffered, committed, mute>>
    BY <1>6 DEF Confirm, Answer, Leaves, At, Running
  <2>2. Past(b, "commit")
    BY <2>1, RunningIsWork, BehindIt DEF Past
  <2> QED BY <2>1, <2>2, PastMoves
<1>7. ASSUME NEW b \in Batches, Shed(b) \/ InsertFails(b) \/ (Decode(b) /\ Answer(b, "400")) PROVE SearchOK'
  <2>1. Refused(b) # "ok" /\ Broken(b) # "ok"
    BY DEF Refused, Broken
  <2>2. Leaves(b) /\ UNCHANGED <<buffered, committed, mute>>
    BY <1>7 DEF Shed, InsertFails, Decode, Answer, Leaves, At
  <2>3. \E told : told # "ok" /\ answer' = [answer EXCEPT ![b] = told]
    BY <1>7, <2>1 DEF Shed, InsertFails, Decode, Answer
  <2> QED BY <1>5, <2>2, <2>3
<1>8. ASSUME NEW b \in Batches, PutBlob(b) \/ CapSeries(b) \/ Insert(b) \/ PublishBatch(b) \/ (Decode(b) /\ Done(b) /\ UNCHANGED answer)
      PROVE SearchOK'
  <2>1. Works(b) /\ Head(stage[b]) \notin {"index", "commit"} /\ UNCHANGED <<answer, buffered, committed, mute>>
    BY <1>8 DEF PutBlob, CapSeries, Insert, PublishBatch, Decode, Works, At, Running
  <2> QED BY <1>2, <2>1
<1>9. ASSUME NEW b \in Batches, Admit(b) \/ AdmitFreely(b) PROVE SearchOK'
  <2>1. Enters(b) /\ UNCHANGED <<answer, buffered, committed, mute>>
    BY <1>9, BehindIt DEF Admit, AdmitFreely, At, StagesOK, Enters
  <2> QED BY <1>1, <2>1
<1>10. CASE IngestCrash
  <2>1. stage' = [b \in Batches |-> <<>>] /\ UNCHANGED <<answer, committed, mute>>
    BY <1>10 DEF IngestCrash
  <2> QED BY <2>1 DEF Past, Running
<1>11. CASE UNCHANGED <<stage, answer, buffered, committed, mute>>
  BY <1>11 DEF Past, Running
<1>12. ASSUME NEW b \in Batches, Decode(b) PROVE SearchOK'
  BY <1>7, <1>8, <1>12 DEF Decode
<1>13. SearchOK'
  BY <1>3, <1>4, <1>6, <1>7, <1>8, <1>9, <1>10, <1>11, <1>12 DEF IngestNext, Handle, LoadInFlight, Reload, ingestVars
<1> QED BY <1>a, <1>13

-----------------------------------------------------------------------------
(* The counters.                                                           *)

\* Batches that are past their insert, or were sent away.
Counting == {b \in Batches : stage[b] # <<"load">> /\ ~Has(stage[b], "insert")}

Counts == stats.accepted + stats.errors + stats.shed

CountInv ==
  /\ stats \in [accepted : Nat, errors : Nat, shed : Nat]
  /\ Counts <= Cardinality(Counting)

\* What the types of the sets rest on.
SetsInv == buffered \cup committed \subseteq Text /\ hashes \subseteq blobs

\* A step counts a batch only when it gets past its insert or is sent away.
LEMMA CountStep ==
  ASSUME StagesOK, CountInv, [IngestNext]_ingestVars
  PROVE  CountInv'
<1>1. IsFiniteSet(Counting) /\ Cardinality(Counting) \in Nat
  BY IngestAssumption, FS_Subset, FS_CardinalityType DEF Counting
<1>2. PICK a \in Nat, e \in Nat, s \in Nat : stats = [accepted |-> a, errors |-> e, shed |-> s]
  BY DEF CountInv
<1>3. a + e + s <= Cardinality(Counting)
  BY <1>2 DEF CountInv, Counts
<1>4. ASSUME NEW b \in Batches, Enters(b) \/ Works(b) \/ Leaves(b), stage[b] = <<"load">> \/ Running(b)
      PROVE  \A c \in Counting : c \in Counting'
  <2>1. b \in Counting => Works(b) \/ Leaves(b)
    BY <1>4 DEF Counting, Enters
  <2>2. ~Has(<<>>, "insert") /\ <<>> # <<"load">>
    BY DEF Has
  <2>3. Works(b) => stage'[b] # <<"load">>
    BY RunningMoves, RunningIsWork DEF Running
  <2>4. b \in Counting => b \in Counting'
    <3>1. CASE Leaves(b)
      BY <2>2, <3>1, RunningMoves DEF Counting
    <3>2. CASE Works(b)
      <4>1. Has(stage'[b], "insert") => Has(stage[b], "insert")
        BY <3>2, TailLeft, RunningIsWork, RunningMoves DEF Works
      <4> QED BY <2>3, <3>2, <4>1 DEF Counting
    <3> QED BY <2>1, <3>1, <3>2
  <2>5. \A c \in Batches \ {b} : stage'[c] = stage[c]
    BY <1>4, RunningMoves
  <2> QED BY <2>4, <2>5 DEF Counting
<1>5. ASSUME \A c \in Counting : c \in Counting' PROVE Cardinality(Counting) <= Cardinality(Counting')
  <2>1. IsFiniteSet(Counting')
    BY IngestAssumption, FS_Subset DEF Counting
  <2>2. Counting \subseteq Counting'
    BY <1>5
  <2> QED BY <2>1, <2>2, FS_Subset
<1>6. ASSUME NEW b \in Batches, b \notin Counting, b \in Counting', \A c \in Counting : c \in Counting'
      PROVE  Cardinality(Counting) + 1 <= Cardinality(Counting')
  <2>1. Counting \cup {b} \subseteq Counting' /\ IsFiniteSet(Counting')
    BY <1>6, IngestAssumption, FS_Subset DEF Counting
  <2>2. Cardinality(Counting \cup {b}) = Cardinality(Counting) + 1
    BY <1>1, <1>6, FS_AddElement
  <2> QED BY <2>1, <2>2, FS_Subset
<1>7. Cardinality(Counting') \in Nat
  BY IngestAssumption, FS_Subset, FS_CardinalityType DEF Counting
<1>8. ASSUME NEW b \in Batches, Insert(b) PROVE CountInv'
  <2>1. Works(b) /\ Head(stage[b]) = "insert" /\ stats' = [accepted |-> a + 1, errors |-> e, shed |-> s]
    BY <1>2, <1>8 DEF Insert, Works, At, Running
  <2>2. b \notin Counting
    BY <2>1, RunningIsWork, BehindIt DEF Works, Counting
  <2>3. b \in Counting'
    <3>1. ~Has(Tail(stage[b]), "insert")
      BY <2>1, RunningIsWork, TailLeft DEF Works
    <3> QED BY <2>1, <3>1, RunningMoves DEF Counting, Running
  <2>4. Counts' <= Cardinality(Counting')
    BY <1>1, <1>3, <1>4, <1>6, <1>7, <2>1, <2>2, <2>3 DEF Counts, Works
  <2> QED BY <2>1, <2>4 DEF CountInv
<1>9. ASSUME NEW b \in Batches, InsertFails(b) PROVE CountInv'
  <2>1. /\ Leaves(b) /\ Running(b) /\ Head(stage[b]) = "insert"
        /\ stats' = [accepted |-> a, errors |-> e + 1, shed |-> s]
    BY <1>2, <1>9 DEF InsertFails, Answer, Leaves, At, Running
  <2>2. b \notin Counting
    BY <2>1, RunningIsWork, BehindIt DEF Counting
  <2>3. b \in Counting'
    <3>1. ~Has(<<>>, "insert") /\ <<>> # <<"load">>
      BY DEF Has
    <3> QED BY <2>1, <3>1, RunningMoves DEF Counting
  <2>4. Counts' <= Cardinality(Counting')
    BY <1>1, <1>3, <1>4, <1>6, <1>7, <2>1, <2>2, <2>3 DEF Counts
  <2> QED BY <2>1, <2>4 DEF CountInv
<1>10. ASSUME NEW b \in Batches, Shed(b) PROVE CountInv'
  <2>1. Leaves(b) /\ stage[b] = <<"load">> /\ stats' = [accepted |-> a, errors |-> e, shed |-> s + 1]
    BY <1>2, <1>10, BehindIt DEF Shed, Leaves, At, StagesOK
  <2>2. b \notin Counting
    BY <2>1 DEF Counting
  <2>3. b \in Counting'
    <3>1. ~Has(<<>>, "insert") /\ <<>> # <<"load">>
      BY DEF Has
    <3> QED BY <2>1, <3>1, RunningMoves DEF Counting
  <2>4. Counts' <= Cardinality(Counting')
    BY <1>1, <1>3, <1>4, <1>6, <1>7, <2>1, <2>2, <2>3 DEF Counts
  <2> QED BY <2>1, <2>4 DEF CountInv
<1>11. CASE IngestCrash
  <2>1. stats' = [accepted |-> 0, errors |-> 0, shed |-> 0]
    BY <1>11 DEF IngestCrash
  <2> QED BY <1>7, <2>1 DEF CountInv, Counts
<1>12. CASE UNCHANGED <<stage, stats>>
  BY <1>12 DEF CountInv, Counts, Counting
<1>13. ASSUME NEW b \in Batches,
              Admit(b) \/ AdmitFreely(b) \/ Decode(b) \/ IndexText(b) \/ PutBlob(b) \/ CapSeries(b)
                \/ CommitIndex(b) \/ PublishBatch(b) \/ Confirm(b)
       PROVE CountInv'
  <2>1. Enters(b) \/ Works(b) \/ Leaves(b)
    BY <1>13, BehindIt DEF Admit, AdmitFreely, Decode, IndexText, PutBlob, CapSeries, CommitIndex, PublishBatch,
       Confirm, Answer, At, StagesOK, Enters, Works, Leaves, Running
  <2>2. stage[b] = <<"load">> \/ Running(b)
    BY <1>13, BehindIt DEF Admit, AdmitFreely, Decode, IndexText, PutBlob, CapSeries, CommitIndex, PublishBatch,
       Confirm, At, StagesOK, Running
  <2>3. stats' = stats
    BY <1>13 DEF Admit, AdmitFreely, Decode, IndexText, PutBlob, CapSeries, CommitIndex, PublishBatch, Confirm
  <2>4. Cardinality(Counting) <= Cardinality(Counting')
    BY <1>4, <1>5, <2>1, <2>2
  <2>5. Counts' = a + e + s
    BY <1>2, <2>3 DEF Counts
  <2> QED BY <1>1, <1>2, <1>3, <1>7, <2>3, <2>4, <2>5 DEF CountInv
<1> QED BY <1>8, <1>9, <1>10, <1>11, <1>12, <1>13 DEF IngestNext, Handle, LoadInFlight, Reload, ingestVars

\* Only texts are indexed, and only payloads that were taken are referred to.
LEMMA SetsStep == SetsInv /\ [IngestNext]_ingestVars => SetsInv'
  BY DEF SetsInv, IngestNext, Handle, LoadInFlight, Shed, Admit, Reload, AdmitFreely, Decode, IndexText, PutBlob,
     CapSeries, Insert, InsertFails, CommitIndex, PublishBatch, Confirm, IngestCrash, ingestVars

-----------------------------------------------------------------------------
(* The theorems.                                                           *)

IngestInv == LimitsOK /\ StagesOK /\ GateInv /\ CapInv /\ PipeInv /\ CountInv /\ SetsInv

\* The inductive invariant holds.
LEMMA IngestInvariance == IngestSpec => []IngestInv
<1>1. IngestInit => IngestInv
  <2> SUFFICES ASSUME limits \in Limits, NEW sent \in SUBSET Batches, StartsWith(sent) PROVE IngestInv
    BY DEF IngestInit
  <2> USE DEF StartsWith
  <2>1. /\ stage \in [Batches -> Seq(StepNames)]
        /\ \A b \in Batches : stage[b] = <<"load">> \/ stage[b] = <<>>
    <3>1. <<"load">> \in Seq(StepNames) /\ <<>> \in Seq(StepNames)
      BY DEF StepNames
    <3> QED BY <3>1
  <2>2. LimitsOK /\ StagesOK /\ MaxInFlight \in Nat /\ SeriesLimit \in Nat
    BY <2>1, LimitsStay DEF LimitsOK, StagesOK
  <2>3. \A b \in Batches : ~Running(b)
    BY <2>1 DEF Running
  <2>4. AtWork = {}
    BY <2>3 DEF AtWork
  <2>5. GateInv
    BY <2>2, <2>4, FS_EmptySet DEF GateInv
  <2>6. CapInv
    BY <2>2, FS_EmptySet DEF CapInv
  <2>7. PipeInv
    BY <2>3 DEF PipeInv, RowsStoredOK, SearchOK, Past, NoAnswer
  <2>8. CountInv
    <3>1. Cardinality(Counting) \in Nat
      BY IngestAssumption, FS_Subset, FS_CardinalityType DEF Counting
    <3> QED BY <3>1 DEF CountInv, Counts
  <2> QED BY <2>2, <2>5, <2>6, <2>7, <2>8 DEF IngestInv, SetsInv
<1>2. IngestInv /\ [IngestNext]_ingestVars => IngestInv'
  BY LimitsStay, StagesStep, GateStep, CapStep, StoredStep, SearchStep, CountStep, SetsStep DEF IngestInv, PipeInv
<1> QED BY <1>1, <1>2, PTL DEF IngestSpec

\* Never more batches at work than the gate lets in, no permit lost on any way out,
\* and never more series than the cap, over batches that come in any order.
THEOREM LimitsAreKept == IngestSpec => []LimitsHold
<1>1. IngestInv => AdmissionBounded
  BY DEF IngestInv, GateInv, AdmissionBounded, AtWork
<1>2. IngestInv => SeriesAreCapped
  <2> SUFFICES ASSUME IngestInv, SeriesLimit # 0
               PROVE  Cardinality(UNION {kept[b] : b \in Batches}) <= SeriesLimit
    BY DEF SeriesAreCapped
  <2>1. UNION {kept[b] : b \in Batches} \subseteq seen
    BY DEF IngestInv, CapInv
  <2>2. IsFiniteSet(seen) /\ Cardinality(seen) <= SeriesLimit
    BY DEF IngestInv, CapInv
  <2>3. Cardinality(UNION {kept[b] : b \in Batches}) <= Cardinality(seen)
    BY <2>1, <2>2, FS_Subset
  <2>4. Cardinality(UNION {kept[b] : b \in Batches}) \in Nat /\ Cardinality(seen) \in Nat
    BY <2>1, <2>2, FS_Subset, FS_CardinalityType
  <2>5. SeriesLimit \in Nat
    BY LimitsStay DEF IngestInv
  <2> QED BY <2>2, <2>3, <2>4, <2>5
<1> QED BY <1>1, <1>2, IngestInvariance, PTL DEF LimitsHold

\* Followers hear only of what is stored, a search finds only what is stored or
\* accounted for, and what is confirmed is searchable unless the index failed for it.
THEOREM ShownMeansStored == IngestSpec => []ShownIsStored
<1>1. IngestInv => ShownIsStored
  <2> SUFFICES ASSUME IngestInv PROVE ShownIsStored
    OBVIOUS
  <2>1. FollowersHearWhatIsStored /\ HitsAreAccountedFor
    BY DEF IngestInv, PipeInv, RowsStoredOK, FollowersHearWhatIsStored, HitsAreAccountedFor
  <2>2. ConfirmedIsSearchable
    BY IngestAssumption DEF IngestInv, PipeInv, SearchOK, ConfirmedIsSearchable, Searched
  <2> QED BY <2>1, <2>2 DEF ShownIsStored
<1> QED BY <1>1, IngestInvariance, PTL

\* Counters and sets keep their types; a batch is counted at most once.
THEOREM IngestTypes == IngestSpec => []IngestTypeOK
<1>1. IngestInv => IngestTypeOK
  <2> SUFFICES ASSUME IngestInv PROVE IngestTypeOK
    OBVIOUS
  <2>1. Counting \subseteq Batches
    BY DEF Counting
  <2>2. Cardinality(Counting) <= Cardinality(Batches) /\ Cardinality(Counting) \in Nat /\ Cardinality(Batches) \in Nat
    BY <2>1, IngestAssumption, FS_Subset, FS_CardinalityType
  <2>3. Counts \in Nat
    BY DEF IngestInv, CountInv, Counts
  <2>4. Counts <= Cardinality(Batches)
    BY <2>2, <2>3 DEF IngestInv, CountInv
  <2>5. inFlight \in 0 .. Cardinality(Batches)
    BY <2>2, AtWorkFinite DEF IngestInv, GateInv
  <2> QED BY <2>4, <2>5 DEF IngestTypeOK, IngestInv, CapInv, SetsInv, Counts
<1> QED BY <1>1, IngestInvariance, PTL

-----------------------------------------------------------------------------
(* The collection of payload blobs.                                        *)

Stages == {"idle", "move", "mark", "ask", "sweep"}

\* The state has its shape, and only a node that may collect gets to its marks.
PassesOK ==
  /\ upload \in [Uploads -> {"new", "found", "absent", "put", "appended", "stranded", "done"}]
  /\ pass \in [Nodes -> [at : Stages, owner : BOOLEAN, live : SUBSET Hashes,
                         ask : SUBSET Nodes, sweep : SUBSET Hashes]]
  /\ \A n \in Nodes : pass[n].owner \/ Marking(n) => Ownership[n] # "never"
  /\ \A n \in Nodes : pass[n].ask \subseteq PeersOf[n]
  /\ blobStore \subseteq Hashes

\* What may still have the row of an upload: the tiers, a pass, or a log.
Held == blobRows \cup moving \cup logged

\* A row is at rest, or in the hands of the pass of its node that moves it; a row
\* refers to its payload from the put on, and is logged before it is in a tier.
RowsOK ==
  /\ Held \subseteq Uploads /\ hashed \subseteq Uploads
  /\ blobRows \cap moving = {}
  /\ \A u \in blobRows \cup moving : upload[u] \in {"stranded", "done"}
  /\ \A u \in logged : upload[u] \in {"appended", "stranded", "done"}
  /\ \A u \in Uploads : upload[u] \in {"appended", "stranded"} => u \in logged
  /\ \A u \in moving : pass[NodeOf[u]].at = "move"
  /\ \A u \in Uploads : NodeOf[u] \in down => upload[u] \in {"new", "done"} /\ u \notin moving
  /\ \A u \in hashed : upload[u] \in {"put", "appended", "stranded", "done"}

\* An upload that met no collection counts on a blob no pass is about to remove.
UploadSafe(u) ==
  UnderWay(u) => /\ ~Collecting
                 /\ upload[u] = "found" \/ (upload[u] = "put" /\ u \in hashed) => HashOf[u] \in blobStore

\* The payload of a row that is there, or may come back, is there, and every pass that
\* marks has seen the row or will.
RowSafe(u) ==
  u \in Held \cap hashed =>
    /\ HashOf[u] \in blobStore
    /\ \A n \in Nodes :
         /\ pass[n].at = "ask" => NodeOf[u] \in pass[n].ask \/ HashOf[u] \in pass[n].live
         /\ pass[n].at = "sweep" => HashOf[u] \notin pass[n].sweep

BlobInv == PassesOK /\ RowsOK /\ \A u \in Uploads \ exposed : UploadSafe(u) /\ RowSafe(u)
-----------------------------------------------------------------------------
(* Shapes.                                                                 *)

\* What a node's rows refer to are hashes.
LEMMA LiveAtType == ASSUME RowsOK, NEW n \in Nodes PROVE LiveAt(n) \subseteq Hashes
  BY DEF LiveAt, OwnRows, Hashes, RowsOK, Held

\* Every step keeps the shape of the passes and of the uploads.
LEMMA PassesStep ==
  ASSUME BlobPlacement, PassesOK, RowsOK, [BlobNext]_blobVars
  PROVE  PassesOK'
<1> DEFINE P == [at : Stages, owner : BOOLEAN, live : SUBSET Hashes,
                 ask : SUBSET Nodes, sweep : SUBSET Hashes]
           U == {"new", "found", "absent", "put", "appended", "stranded", "done"}
<1> USE DEF PassesOK, Stages, Marking
<1>1. ASSUME NEW u \in Uploads,
             LookUp(u) \/ Put(u) \/ PutFails(u) \/ LogRow(u) \/ LogRefuses(u) \/ InsertRow(u) \/ InsertRowFails(u)
      PROVE  PassesOK'
  <2>1. HashOf[u] \in Hashes
    BY DEF Hashes
  <2> QED BY <1>1, <2>1 DEF LookUp, Put, PutFails, LogRow, LogRefuses, InsertRow, InsertRowFails
<1>2. ASSUME NEW n \in Nodes, StartPass(n) PROVE PassesOK'
  <2>1. MayGC(n) \in BOOLEAN /\ (Ownership[n] = "never" => ~MayGC(n))
    BY Zenon DEF MayGC
  <2>2. PICK owner \in BOOLEAN : owner = MayGC(n)
    BY <2>1
  <2> DEFINE begun == [NoPass EXCEPT !.at = "move", !.owner = owner]
  <2>3. pass' = [pass EXCEPT ![n] = begun] /\ UNCHANGED <<upload, blobStore>>
    BY <1>2, <2>2 DEF StartPass
  <2>4. begun \in P /\ begun.at = "move" /\ begun.owner = owner /\ begun.ask = {}
    BY DEF NoPass
  <2>5. begun.owner => Ownership[n] # "never"
    BY <2>1, <2>2, <2>4, Zenon
  <2> HIDE DEF begun
  <2>6. pass' \in [Nodes -> P]
    BY <2>3, <2>4
  <2>7. pass'[n] = begun /\ \A m \in Nodes \ {n} : pass'[m] = pass[m]
    BY <2>3
  <2> QED BY <2>3, <2>4, <2>5, <2>6, <2>7
<1>3. ASSUME NEW n \in Nodes, PassFails(n) \/ EndSweep(n) \/ NodeDies(n) \/ \E p \in Nodes : PeerFails(n, p)
      PROVE  PassesOK'
  <2>1. pass' = [pass EXCEPT ![n] = [at |-> "idle", owner |-> FALSE, live |-> {}, ask |-> {}, sweep |-> {}]]
    BY <1>3 DEF PassFails, EndSweep, NodeDies, PeerFails, NoPass
  <2>2. upload' \in [Uploads -> U] /\ blobStore' = blobStore
    BY <1>3 DEF PassFails, EndSweep, NodeDies, PeerFails
  <2>3. pass' \in [Nodes -> P]
    BY <2>1
  <2>4. /\ \A m \in Nodes \ {n} : pass'[m] = pass[m]
        /\ pass'[n].at = "idle" /\ ~pass'[n].owner /\ pass'[n].ask = {}
    BY <2>1
  <2> QED BY <2>2, <2>3, <2>4
<1>4. ASSUME NEW n \in Nodes, Settle(n) PROVE PassesOK'
  BY <1>4 DEF Settle
<1>5. ASSUME NEW n \in Nodes, Mark(n) PROVE PassesOK'
  BY <1>5, LiveAtType DEF Mark, BlobPlacement
<1>6. ASSUME NEW n \in Nodes, NEW p \in Nodes, AskPeer(n, p) PROVE PassesOK'
  <2>1. LiveAt(p) \subseteq Hashes
    BY LiveAtType
  <2>2. /\ pass[n].at = "ask" /\ upload' = upload /\ blobStore' = blobStore
        /\ pass' = [pass EXCEPT ![n].ask = @ \ {p}, ![n].live = @ \cup LiveAt(p)]
    BY <1>6 DEF AskPeer
  <2>3. pass' \in [Nodes -> P]
    <3>1. PICK o \in BOOLEAN, l \in SUBSET Hashes, a \in SUBSET Nodes, w \in SUBSET Hashes :
            pass[n] = [at |-> "ask", owner |-> o, live |-> l, ask |-> a, sweep |-> w]
      BY <2>2
    <3> QED BY <2>1, <2>2, <3>1
  <2>4. /\ \A m \in Nodes \ {n} : pass'[m] = pass[m]
        /\ pass'[n].at = "ask" /\ pass'[n].ask \subseteq pass[n].ask
    BY <2>2
  <2> QED BY <2>2, <2>3, <2>4
<1>7. ASSUME NEW n \in Nodes, ListBlobs(n) PROVE PassesOK'
  <2>1. /\ pass[n].at = "ask" /\ pass[n].ask = {} /\ upload' = upload /\ blobStore' = blobStore
        /\ pass' = [pass EXCEPT ![n].at = "sweep", ![n].sweep = blobStore \ pass[n].live]
    BY <1>7 DEF ListBlobs
  <2>2. pass' \in [Nodes -> P]
    <3>1. PICK o \in BOOLEAN, l \in SUBSET Hashes, w \in SUBSET Hashes :
            pass[n] = [at |-> "ask", owner |-> o, live |-> l, ask |-> {}, sweep |-> w]
      BY <2>1
    <3>2. blobStore \ pass[n].live \in SUBSET Hashes
      OBVIOUS
    <3> DEFINE swept == blobStore \ pass[n].live
    <3> HIDE DEF swept
    <3>3. pass' = [pass EXCEPT ![n].at = "sweep", ![n].sweep = swept]
      BY <2>1 DEF swept
    <3> QED BY <3>1, <3>2, <3>3 DEF swept
  <2>3. /\ \A m \in Nodes \ {n} : pass'[m] = pass[m]
        /\ pass'[n].at = "sweep" /\ pass'[n].owner = pass[n].owner /\ pass'[n].ask = pass[n].ask
    BY <2>1
  <2> QED BY <2>1, <2>2, <2>3
<1>8. ASSUME NEW n \in Nodes, NEW h \in Hashes, RemoveBlob(n, h) PROVE PassesOK'
  BY <1>8 DEF RemoveBlob
<1>9. CASE Reelect \/ (\E n \in Nodes : Checkpoint(n) \/ NodeStarts(n)) \/ UNCHANGED blobVars
  BY <1>9 DEF Reelect, Checkpoint, NodeStarts, blobVars
<1> QED BY <1>1, <1>2, <1>3, <1>4, <1>5, <1>6, <1>7, <1>8, <1>9 DEF BlobNext, PassSteps

\* Every step keeps rows where they belong.
LEMMA RowsStep ==
  ASSUME BlobPlacement, PassesOK, RowsOK, [BlobNext]_blobVars
  PROVE  RowsOK'
<1> USE DEF PassesOK, RowsOK, Stages, Held
<1>1. ASSUME NEW u \in Uploads,
             LookUp(u) \/ Put(u) \/ PutFails(u) \/ LogRow(u) \/ LogRefuses(u) \/ InsertRow(u) \/ InsertRowFails(u)
      PROVE  RowsOK'
  <2>1. CASE LookUp(u) \/ Put(u) \/ PutFails(u) \/ LogRefuses(u)
    BY <2>1 DEF LookUp, Put, PutFails, LogRefuses
  <2>2. CASE LogRow(u)
    BY <2>2 DEF LogRow
  <2>3. CASE InsertRow(u)
    BY <2>3 DEF InsertRow
  <2>4. CASE InsertRowFails(u)
    BY <2>4 DEF InsertRowFails
  <2> QED BY <1>1, <2>1, <2>2, <2>3, <2>4
<1>2. ASSUME NEW n \in Nodes, StartPass(n) PROVE RowsOK'
  <2>1. /\ pass'[n].at = "move" /\ \A m \in Nodes \ {n} : pass'[m] = pass[m]
        /\ upload' = upload /\ hashed' = hashed /\ logged' = logged /\ down' = down /\ n \notin down
    BY <1>2 DEF StartPass, NoPass
  <2>2. PICK aged \in SUBSET OwnRows(n) : moving' = moving \cup aged /\ blobRows' = blobRows \ aged
    BY <1>2 DEF StartPass
  <2> QED BY <2>1, <2>2 DEF OwnRows, BlobPlacement
<1>3. ASSUME NEW n \in Nodes, Settle(n) PROVE RowsOK'
  <2>1. \A m \in Nodes \ {n} : pass'[m] = pass[m]
    BY <1>3 DEF Settle
  <2>2. /\ moving' = moving \ {u \in moving : NodeOf[u] = n}
        /\ blobRows' \subseteq blobRows \cup {u \in moving : NodeOf[u] = n}
        /\ upload' = upload /\ hashed' = hashed /\ logged' = logged /\ down' = down
    BY <1>3 DEF Settle
  <2> QED BY <2>1, <2>2 DEF BlobPlacement
<1>4. ASSUME NEW n \in Nodes, PassFails(n) \/ NodeDies(n)
      PROVE  RowsOK'
  <2>1. \A m \in Nodes \ {n} : pass'[m] = pass[m]
    BY <1>4 DEF PassFails, NodeDies
  <2>2. /\ moving' = moving \ {u \in moving : NodeOf[u] = n} /\ hashed' = hashed /\ logged' = logged
        /\ blobRows' \subseteq blobRows \cup {u \in moving : NodeOf[u] = n}
    BY <1>4 DEF PassFails, NodeDies, LetsGo
  <2>3. \A u \in Uploads : upload'[u] = upload[u] \/ upload'[u] = "done"
    BY <1>4 DEF PassFails, NodeDies
  <2>4. \A u \in Uploads : NodeOf[u] \in down' => upload'[u] \in {"new", "done"} /\ u \notin moving'
    <3>1. CASE PassFails(n)
      BY <2>2, <3>1 DEF PassFails
    <3>2. CASE NodeDies(n)
      BY <2>2, <3>2 DEF NodeDies, UnderWay
    <3> QED BY <1>4, <3>1, <3>2
  <2> QED BY <2>1, <2>2, <2>3, <2>4 DEF BlobPlacement
<1>5. ASSUME NEW n \in Nodes,
             Mark(n) \/ ListBlobs(n) \/ EndSweep(n) \/ (\E p \in Nodes : AskPeer(n, p) \/ PeerFails(n, p))
               \/ \E h \in Hashes : RemoveBlob(n, h)
      PROVE  RowsOK'
  <2>1. pass[n].at # "move" /\ \A m \in Nodes \ {n} : pass'[m] = pass[m]
    BY <1>5 DEF Mark, ListBlobs, EndSweep, AskPeer, PeerFails, RemoveBlob
  <2>2. /\ upload' = upload /\ hashed' = hashed /\ logged' = logged /\ blobRows' = blobRows
        /\ moving' = moving /\ down' = down
    BY <1>5 DEF Mark, ListBlobs, EndSweep, AskPeer, PeerFails, RemoveBlob
  <2> QED BY <2>1, <2>2 DEF BlobPlacement
<1>6. ASSUME NEW n \in Nodes, Checkpoint(n) PROVE RowsOK'
  <2>1. /\ logged' = logged \ {u \in Uploads : NodeOf[u] = n}
        /\ \A u \in Uploads : NodeOf[u] = n => upload[u] \notin {"appended", "stranded"}
        /\ UNCHANGED <<upload, hashed, blobRows, moving, pass, down>>
    BY <1>6 DEF Checkpoint
  <2> QED BY <2>1
<1>7. ASSUME NEW n \in Nodes, NodeStarts(n) PROVE RowsOK'
  <2> DEFINE own == {u \in logged : NodeOf[u] = n}
  <2>1. /\ blobRows' = blobRows \cup own /\ logged' = logged \ own /\ n \in down /\ down' \subseteq down
        /\ UNCHANGED <<upload, hashed, moving, pass>>
    BY <1>7 DEF NodeStarts
  <2>2. \A u \in own : upload[u] = "done" /\ u \notin moving
    BY <2>1
  <2> QED BY <2>1, <2>2
<1>8. CASE Reelect \/ UNCHANGED blobVars
  BY <1>8 DEF Reelect, blobVars
<1> QED BY <1>1, <1>2, <1>3, <1>4, <1>5, <1>6, <1>7, <1>8 DEF BlobNext, PassSteps

-----------------------------------------------------------------------------
(* What a collection spares.                                               *)

\* A pass that begins, ends or fails puts no upload and no row at risk.
LEMMA BoundarySafe ==
  ASSUME PassesOK, RowsOK, NEW u \in Uploads, UploadSafe(u), RowSafe(u), NEW n \in Nodes,
         pass'[n].at \in {"idle", "move"}, \A m \in Nodes \ {n} : pass'[m] = pass[m],
         hashed' = hashed, blobStore' = blobStore, Held' \subseteq Held,
         upload'[u] = upload[u] \/ upload'[u] = "done"
  PROVE  UploadSafe(u)' /\ RowSafe(u)'
<1>1. Collecting' => Collecting
  BY DEF Collecting, Marking
<1>2. UploadSafe(u)'
  BY <1>1 DEF UploadSafe, UnderWay
<1>3. RowSafe(u)'
  BY DEF RowSafe
<1> QED BY <1>2, <1>3

\* Every step leaves an upload that meets no collection, and its row, alone.
LEMMA SafeStep ==
  ASSUME BlobPlacement, BlobInv, [BlobNext]_blobVars, NEW u \in Uploads \ exposed'
  PROVE  UploadSafe(u)' /\ RowSafe(u)'
<1> USE DEF BlobInv
<1>1. u \in Uploads \ exposed
  BY DEF BlobNext, LookUp, Put, PutFails, LogRow, LogRefuses, InsertRow, InsertRowFails, Checkpoint,
     StartPass, PassSteps, Settle, Mark, ListBlobs, EndSweep, AskPeer, PeerFails, RemoveBlob, PassFails,
     NodeDies, NodeStarts, Reelect, blobVars, ExposedNow
<1>2. UploadSafe(u) /\ RowSafe(u) /\ RowsOK /\ PassesOK
  BY <1>1
<1>3. ASSUME NEW v \in Uploads,
             LookUp(v) \/ Put(v) \/ PutFails(v) \/ LogRow(v) \/ LogRefuses(v) \/ InsertRow(v) \/ InsertRowFails(v)
      PROVE  UploadSafe(u)' /\ RowSafe(u)'
  <2>1. pass' = pass /\ moving' = moving /\ (v # u => upload'[u] = upload[u])
    BY <1>2, <1>3 DEF LookUp, Put, PutFails, LogRow, LogRefuses, InsertRow, InsertRowFails, PassesOK
  <2>2. blobStore \subseteq blobStore' /\ (Collecting' <=> Collecting)
    BY <1>3, <2>1 DEF LookUp, Put, PutFails, LogRow, LogRefuses, InsertRow, InsertRowFails, Collecting, Marking
  <2>3. CASE v # u
    <3>1. /\ u \in hashed' <=> u \in hashed
          /\ u \in blobRows' <=> u \in blobRows
          /\ u \in logged' <=> u \in logged
      BY <1>3, <2>3 DEF LookUp, Put, PutFails, LogRow, LogRefuses, InsertRow, InsertRowFails
    <3>2. u \in Held' <=> u \in Held
      BY <2>1, <3>1 DEF Held
    <3> QED BY <1>2, <2>1, <2>2, <2>3, <3>1, <3>2 DEF UploadSafe, RowSafe, UnderWay
  <2>4. CASE v = u /\ LookUp(v)
    <3>1. ~Collecting
      BY <2>4 DEF LookUp, ExposedNow
    <3>2. upload'[u] = (IF HashOf[u] \in blobStore THEN "found" ELSE "absent") /\ blobStore' = blobStore
      BY <1>2, <2>4 DEF LookUp, PassesOK
    <3>3. upload[u] = "new" /\ hashed' = hashed
      BY <2>4 DEF LookUp
    <3> QED BY <1>2, <2>1, <2>2, <3>1, <3>2, <3>3 DEF UploadSafe, RowSafe, RowsOK
  <2>5. CASE v = u /\ (Put(v) \/ PutFails(v))
    <3>1. /\ UnderWay(u) /\ upload'[u] = "put" /\ blobRows' = blobRows /\ logged' = logged
          /\ upload[u] \in {"found", "absent"}
          /\ Put(u) => blobStore' = IF upload[u] = "absent" THEN blobStore \cup {HashOf[u]} ELSE blobStore
          /\ PutFails(u) => hashed' = hashed
      BY <1>2, <2>5 DEF Put, PutFails, UnderWay, PassesOK
    <3>2. ~Collecting' /\ (u \in hashed' => HashOf[u] \in blobStore')
      BY <1>2, <2>2, <2>5, <3>1 DEF UploadSafe, RowsOK
    <3>3. u \notin Held'
      BY <1>2, <2>1, <3>1 DEF Held, RowsOK
    <3> QED BY <1>2, <2>1, <3>1, <3>2, <3>3 DEF UploadSafe, RowSafe
  <2>6. CASE v = u /\ (LogRow(v) \/ LogRefuses(v))
    <3>1. upload[u] = "put" /\ upload'[u] \in {"appended", "done"} /\ hashed' = hashed
      BY <1>2, <2>6 DEF LogRow, LogRefuses, PassesOK
    <3>2. ~Collecting' /\ (u \in hashed => HashOf[u] \in blobStore')
      BY <1>2, <2>2, <3>1 DEF UploadSafe, UnderWay
    <3> QED BY <3>1, <3>2 DEF UploadSafe, RowSafe, UnderWay, Collecting, Marking
  <2>7. CASE v = u /\ (InsertRow(v) \/ InsertRowFails(v))
    <3>1. /\ upload[u] = "appended" /\ upload'[u] \in {"done", "stranded"} /\ hashed' = hashed
          /\ blobStore' = blobStore
      BY <1>2, <2>7 DEF InsertRow, InsertRowFails, PassesOK
    <3>2. u \in Held
      BY <1>2, <3>1 DEF RowsOK, Held
    <3> QED BY <1>2, <2>1, <3>1, <3>2 DEF UploadSafe, RowSafe, UnderWay
  <2> QED BY <1>3, <2>3, <2>4, <2>5, <2>6, <2>7
<1>4. ASSUME NEW n \in Nodes, StartPass(n) PROVE UploadSafe(u)' /\ RowSafe(u)'
  <2>1. pass'[n].at = "move" /\ \A m \in Nodes \ {n} : pass'[m] = pass[m]
    BY <1>2, <1>4 DEF StartPass, NoPass, PassesOK
  <2>2. Held' \subseteq Held /\ upload' = upload /\ hashed' = hashed /\ blobStore' = blobStore
    BY <1>4 DEF StartPass, OwnRows, Held
  <2> QED BY <1>2, <2>1, <2>2, BoundarySafe
<1>5. ASSUME NEW n \in Nodes, PassFails(n) \/ EndSweep(n) \/ NodeDies(n) \/ \E p \in Nodes : PeerFails(n, p)
      PROVE  UploadSafe(u)' /\ RowSafe(u)'
  <2>1. pass'[n].at = "idle" /\ \A m \in Nodes \ {n} : pass'[m] = pass[m]
    BY <1>2, <1>5 DEF PassFails, EndSweep, NodeDies, PeerFails, NoPass, PassesOK
  <2>2. /\ Held' \subseteq Held /\ hashed' = hashed /\ blobStore' = blobStore
        /\ upload'[u] = upload[u] \/ upload'[u] = "done"
    BY <1>5 DEF PassFails, EndSweep, NodeDies, PeerFails, LetsGo, Held
  <2> QED BY <1>2, <2>1, <2>2, BoundarySafe
<1>6. ASSUME NEW n \in Nodes, Settle(n) PROVE UploadSafe(u)' /\ RowSafe(u)'
  <2>1. \A m \in Nodes \ {n} : pass'[m] = pass[m]
    BY <1>2, <1>6 DEF Settle, PassesOK
  <2>2. Held' \subseteq Held /\ upload' = upload /\ hashed' = hashed /\ blobStore' = blobStore
    BY <1>6 DEF Settle, OwnRows, Held
  <2>3. CASE ~pass[n].owner
    <3>1. pass'[n].at = "idle"
      BY <1>2, <1>6, <2>3 DEF Settle, PassesOK
    <3> QED BY <1>2, <2>1, <2>2, <3>1, BoundarySafe
  <2>4. CASE pass[n].owner
    <3>1. ~UnderWay(u) /\ pass'[n].at = "mark"
      BY <1>2, <1>6, <2>4 DEF Settle, PassesOK
    <3> QED BY <1>2, <2>1, <2>2, <3>1 DEF UploadSafe, RowSafe, UnderWay
  <2> QED BY <2>3, <2>4
<1>7. ASSUME NEW n \in Nodes, Mark(n) \/ ListBlobs(n) \/ (\E p \in Nodes : AskPeer(n, p)) \/ \E h \in Hashes : RemoveBlob(n, h)
      PROVE  UploadSafe(u)' /\ RowSafe(u)'
  <2>1. Marking(n) /\ \A m \in Nodes \ {n} : pass'[m] = pass[m]
    BY <1>2, <1>7 DEF Mark, ListBlobs, AskPeer, RemoveBlob, Marking, PassesOK
  <2>2. upload' = upload /\ hashed' = hashed /\ Held' = Held
    BY <1>7 DEF Mark, ListBlobs, AskPeer, RemoveBlob, Held
  <2>3. UploadSafe(u)'
    BY <1>2, <2>1, <2>2 DEF UploadSafe, UnderWay, Collecting
  <2>4. ASSUME u \in Held \cap hashed
        PROVE  /\ HashOf[u] \in blobStore'
               /\ pass'[n].at = "ask" => NodeOf[u] \in pass'[n].ask \/ HashOf[u] \in pass'[n].live
               /\ pass'[n].at = "sweep" => HashOf[u] \notin pass'[n].sweep
    <3>1. CASE Mark(n)
      <4>1. /\ pass'[n].at = "ask" /\ pass'[n].ask = PeersOf[n] /\ pass'[n].live = LiveAt(n)
            /\ blobStore' = blobStore
        BY <1>2, <3>1 DEF Mark, PassesOK
      <4>2. CASE NodeOf[u] = n
        <5>1. u \in blobRows
          BY <1>2, <2>4, <3>1, <4>2 DEF Mark, InLogOnly, RowsOK, Held
        <5>2. HashOf[u] \in LiveAt(n)
          BY <2>4, <4>2, <5>1 DEF LiveAt, OwnRows
        <5> QED BY <1>2, <2>4, <4>1, <5>2 DEF RowSafe
      <4>3. CASE NodeOf[u] # n
        <5>1. NodeOf[u] \in PeersOf[n]
          BY <1>2, <2>1, <4>3 DEF PassesOK, BlobPlacement
        <5> QED BY <1>2, <2>4, <4>1, <5>1 DEF RowSafe
      <4> QED BY <4>2, <4>3
    <3>2. ASSUME NEW p \in Nodes, AskPeer(n, p)
          PROVE  /\ HashOf[u] \in blobStore' /\ pass'[n].at = "ask"
                 /\ NodeOf[u] \in pass'[n].ask \/ HashOf[u] \in pass'[n].live
      <4>1. /\ pass'[n].at = "ask" /\ pass'[n].ask = pass[n].ask \ {p}
            /\ pass'[n].live = pass[n].live \cup LiveAt(p) /\ pass[n].at = "ask" /\ blobStore' = blobStore
        BY <1>2, <3>2 DEF AskPeer, PassesOK
      <4>2. CASE NodeOf[u] = p
        <5>1. u \in blobRows
          BY <2>4, <3>2, <4>2 DEF AskPeer, InLogOnly, Held
        <5>2. HashOf[u] \in LiveAt(p)
          BY <2>4, <4>2, <5>1 DEF LiveAt, OwnRows
        <5> QED BY <1>2, <2>4, <4>1, <5>2 DEF RowSafe
      <4> QED BY <1>2, <2>4, <4>1, <4>2 DEF RowSafe
    <3>3. CASE ListBlobs(n)
      <4>1. /\ pass[n].at = "ask" /\ pass[n].ask = {} /\ blobStore' = blobStore
            /\ pass'[n].at = "sweep" /\ pass'[n].sweep = blobStore \ pass[n].live
        BY <1>2, <3>3 DEF ListBlobs, PassesOK
      <4> QED BY <1>2, <2>4, <4>1 DEF RowSafe
    <3>4. ASSUME NEW h \in Hashes, RemoveBlob(n, h)
          PROVE  HashOf[u] \in blobStore' /\ pass'[n].at = "sweep" /\ HashOf[u] \notin pass'[n].sweep
      <4>1. /\ pass[n].at = "sweep" /\ h \in pass[n].sweep /\ blobStore' = blobStore \ {h}
            /\ pass'[n].at = "sweep" /\ pass'[n].sweep = pass[n].sweep \ {h}
        BY <1>2, <3>4 DEF RemoveBlob, PassesOK
      <4> QED BY <1>2, <2>4, <4>1 DEF RowSafe
    <3> QED BY <1>7, <3>1, <3>2, <3>3, <3>4
  <2>5. RowSafe(u)'
    BY <1>2, <2>1, <2>2, <2>4 DEF RowSafe
  <2> QED BY <2>3, <2>5
<1>8. ASSUME NEW n \in Nodes, Checkpoint(n) \/ NodeStarts(n) PROVE UploadSafe(u)' /\ RowSafe(u)'
  <2>1. Held' \subseteq Held /\ UNCHANGED <<upload, hashed, blobStore, pass>>
    BY <1>8 DEF Checkpoint, NodeStarts, Held
  <2> QED BY <1>2, <2>1 DEF UploadSafe, RowSafe, UnderWay, Collecting, Marking
<1>9. CASE Reelect \/ UNCHANGED blobVars
  <2>1. Held' = Held /\ UNCHANGED <<upload, hashed, blobStore, pass>>
    BY <1>9 DEF Reelect, blobVars, Held
  <2> QED BY <1>2, <2>1 DEF UploadSafe, RowSafe, UnderWay, Collecting, Marking
<1> QED BY <1>3, <1>4, <1>5, <1>6, <1>7, <1>8, <1>9 DEF BlobNext, PassSteps

\* The inductive invariant holds, under the placement the collection is documented with.
LEMMA BlobInvariance == ASSUME BlobPlacement PROVE BlobSpec => []BlobInv
<1>1. BlobInit => BlobInv
  BY DEF BlobInit, BlobInv, PassesOK, RowsOK, Held, UploadSafe, RowSafe, UnderWay, Marking, NoPass, Stages
<1>2. BlobInv /\ [BlobNext]_blobVars => BlobInv'
  BY PassesStep, RowsStep, SafeStep DEF BlobInv
<1> QED BY <1>1, <1>2, PTL DEF BlobSpec

\* The store holds hashes only, rows are in one tier or one pair of hands, what a log has
\* was sent to it, and a pass asks nobody but its peers.
THEOREM BlobTypes == ASSUME BlobPlacement PROVE BlobSpec => []BlobTypeOK
<1>1. BlobInv => BlobTypeOK
  BY DEF BlobInv, PassesOK, RowsOK, BlobTypeOK
<1> QED BY <1>1, BlobInvariance, PTL

\* A row keeps its payload on any number of nodes, each of them believing to lead at any
\* time and dying and starting again at any time, unless its upload met a collection
\* half-way, its move a peer's mark, or a mark found it in a log and in no tier.
THEOREM PayloadsAreSpared == ASSUME BlobPlacement PROVE BlobSpec => []OnlyRacesLosePayloads
<1>1. BlobInv => OnlyRacesLosePayloads
  BY DEF BlobInv, RowsOK, RowSafe, OnlyRacesLosePayloads, Missing, Held
<1> QED BY <1>1, BlobInvariance, PTL

-----------------------------------------------------------------------------
(* Comments and reviews: the invariant.                                    *)

CommentSet ==
  [kind : {"request", "answer"}, review : {Commands[c].review : c \in Clients},
   trace : {Commands[c].trace : c \in Clients}, options : {Commands[c].options : c \in Clients},
   value : {Commands[c].value : c \in Clients}, at : Nat \ {0}]

States ==
  [at : {"idle", "refused", "failed"}]
    \cup [at : {"sent"}, trace : {Commands[c].trace : c \in Clients}]
    \cup [at : {"made", "text", "written", "done"}, comment : CommentSet]
    \cup [at : {"listed"}, rows : SUBSET [request : CommentSet, answer : SUBSET CommentSet], known : SUBSET CommentSet]

Writing(c) == client[c].at \in {"made", "text", "written"}
Pending    == {client[c].comment : c \in {d \in Clients : Writing(d)}}
Every      == comments \cup Texts(file) \cup confirmed \cup Pending

\* Who writes has a server, and the fields of its stage.
ShapesOK ==
  /\ backend \in {"jsonl", "postgres"} /\ server \in {"up", "down", "broken"} /\ made \in Nat
  /\ file \in Seq(CommentSet \cup {EndOfLine}) /\ client \in [Clients -> States]
  /\ comments \subseteq CommentSet /\ confirmed \subseteq CommentSet /\ IsFiniteSet(comments)
  /\ \A c \in Clients : client[c].at = "sent" \/ Writing(c) => server = "up" /\ Commands[c].op \in {"request", "answer"}
  /\ \A c \in Clients : client[c].at \in {"made", "text"} => backend = "jsonl"
  /\ \A c \in Clients : client[c].at = "listed" => Commands[c].op = "list"

\* A comment has a time of its own, and a question an id of its own.
TimesOK ==
  /\ \A x \in Every : x.at <= made
  /\ \A x, y \in Every : x.at = y.at => x = y
  /\ \A x \in Every : x.kind = "request" => \E c \in Clients :
       Commands[c].op = "request" /\ Commands[c].review = x.review /\ client[c].at \notin {"idle", "sent"}
  /\ \A x, y \in Every : x.kind = "request" /\ y.kind = "request" /\ x.review = y.review => x = y

\* What is in memory or confirmed is in the file or the table, and what is confirmed is
\* in the memory of a server.
StoredOK ==
  /\ backend = "jsonl" => /\ comments \subseteq Texts(file) /\ confirmed \subseteq Texts(file)
                          /\ server = "up" => confirmed \subseteq comments
                          /\ server # "up" => comments = {}
                          /\ \A c \in Clients : client[c].at \in {"text", "written"} => client[c].comment \in Texts(file)
  /\ backend = "postgres" => file = <<>> /\ confirmed \subseteq comments
  /\ \A x \in comments \ confirmed : x.review \in crossed

\* An answer is one to a question that is there.
Fits(q, x) == q.options = {} \/ x.value \in q.options
Backed(list, x) ==
  \E q \in list : q.kind = "request" /\ q.review = x.review /\ q.trace = x.trace /\ q.at < x.at /\ Fits(q, x)

BackedOK ==
  /\ \A x \in comments \cup Pending : x.kind = "answer" => Backed(comments, x)
  /\ \A x \in Texts(file) : x.kind = "answer" => Backed(Texts(file), x)
  /\ \A c \in Clients : client[c].at = "sent" /\ Commands[c].op = "answer" =>
       \E q \in comments : q.kind = "request" /\ q.review = Commands[c].review /\ q.trace = client[c].trace /\ Fits(q, Commands[c])

\* A list shows the answers there were, and as long as none came late the first one stays.
ListedOK ==
  \A c \in Clients : client[c].at = "listed" => \A row \in client[c].rows :
    /\ row.answer = {} => \A x \in client[c].known : x.kind = "answer" => x.review # row.request.review
    /\ row.request.review \notin crossed /\ row.answer # {} => row.answer = AnswerTo(confirmed, row.request.review)

ReviewInv == ShapesOK /\ TimesOK /\ StoredOK /\ BackedOK /\ ListedOK

\* A state of a client that says where it is has the fields of that state.
LEMMA ClientFields ==
  ASSUME ShapesOK, NEW c \in Clients
  PROVE  /\ client[c] \in States
         /\ client[c].at \in {"made", "text", "written", "done"} => client[c].comment \in CommentSet
         /\ client[c].at \in {"made", "text", "written", "done"} => client[c] = [at |-> client[c].at, comment |-> client[c].comment]
         /\ client[c].at = "sent" => client[c].trace \in {Commands[d].trace : d \in Clients}
         /\ client[c].at = "listed" => /\ client[c].rows \subseteq [request : CommentSet, answer : SUBSET CommentSet]
                                       /\ client[c].known \subseteq CommentSet
<1>1. client[c] \in States
  BY DEF ShapesOK
<1> HIDE DEF CommentSet
<1> QED BY <1>1 DEF States

\* One client moves on.
LEMMA Moves ==
  ASSUME ShapesOK, NEW c \in Clients, NEW new \in States, client' = [client EXCEPT ![c] = new]
  PROVE  client' \in [Clients -> States] /\ client'[c] = new /\ \A d \in Clients \ {c} : client'[d] = client[d]
BY DEF ShapesOK

\* A line gets longer.
LEMMA Longer ==
  ASSUME ShapesOK, NEW piece \in CommentSet \cup {EndOfLine}, file' = Append(file, piece)
  PROVE  /\ file' \in Seq(CommentSet \cup {EndOfLine})
         /\ Texts(file') = Texts(file) \cup ({piece} \ {EndOfLine})
<1>1. file \in Seq(CommentSet \cup {EndOfLine})
  BY DEF ShapesOK
<1> HIDE DEF CommentSet, EndOfLine
<1>2. file' \in Seq(CommentSet \cup {EndOfLine}) /\ Len(file') = Len(file) + 1 /\ Len(file) \in Nat
      /\ DOMAIN file = 1 .. Len(file) /\ DOMAIN file' = 1 .. Len(file')
  BY <1>1
<1>3. file'[Len(file) + 1] = piece /\ \A i \in DOMAIN file : file'[i] = file[i]
  BY <1>1
<1>4. \A x : x \in ToSet(file') <=> x \in ToSet(file) \/ x = piece
  BY <1>2, <1>3 DEF ToSet
<1>5. ToSet(file') = ToSet(file) \cup {piece}
  BY <1>4
<1>6. Texts(file') = Texts(file) \cup ({piece} \ {EndOfLine})
  BY <1>5 DEF Texts
<1> QED BY <1>2, <1>6

\* The texts in a file are comments, and finitely many.
LEMMA TextsInFile ==
  ASSUME ShapesOK
  PROVE  Texts(file) \subseteq CommentSet /\ IsFiniteSet(Texts(file))
<1>1. file \in Seq(CommentSet \cup {EndOfLine})
  BY DEF ShapesOK
<1>2. Texts(file) \subseteq CommentSet
  BY <1>1 DEF Texts, ToSet
<1>3. file \in Surjection(1 .. Len(file), ToSet(file)) /\ Len(file) \in Nat
  BY <1>1 DEF ToSet, Surjection
<1>4. IsFiniteSet(ToSet(file))
  <2>1. IsFiniteSet(1 .. Len(file))
    BY <1>3, FS_Interval
  <2> QED BY <1>3, <2>1, FS_Surjection
<1>5. Texts(file) \in SUBSET ToSet(file)
  BY DEF Texts
<1> QED BY <1>2, <1>4, <1>5, FS_Subset

\* A set of numbers that is not empty has a least one.
LEMMA LeastOf ==
  ASSUME NEW S \in SUBSET Nat, S # {}
  PROVE  \E x \in S : \A y \in S : x <= y
<1>1. PICK x \in S : \A y \in S : <<y, x>> \notin OpToRel(<, Nat)
  BY WFMin, NatLessThanWellFounded, Zenon
<1>2. \A y \in S : ~ (y < x)
  BY <1>1, Zenon DEF OpToRel
<1>3. \A y \in S : x <= y
  BY ONLY <1>2, S \in SUBSET Nat, x \in S
<1> QED BY <1>3, Zenon

\* If there are answers, one is the first.
LEMMA FirstAnswer ==
  ASSUME NEW list \in SUBSET CommentSet, NEW review, NEW x \in list, x.kind = "answer", x.review = review
  PROVE  AnswerTo(list, review) # {}
<1> DEFINE answers == {y \in list : y.kind = "answer" /\ y.review = review}
           times == {y.at : y \in answers}
<1>1. times \in SUBSET Nat /\ times # {} /\ x \in answers
  BY DEF CommentSet
<1>2. PICK t \in times : \A u \in times : t <= u
  BY <1>1, LeastOf
<1>3. PICK m \in answers : m.at = t
  BY <1>2
<1>4. \A y \in answers : y.at \in Nat /\ t <= y.at
  BY <1>1, <1>2
<1>5. \A y \in answers : y.at >= m.at
  BY <1>1, <1>2, <1>3, <1>4
<1> QED BY <1>3, <1>5 DEF AnswerTo

\* With a question its answers are listed, as they are newer.
LEMMA ListedWithAnswers ==
  ASSUME ReviewInv, server = "up", NEW n \in Nat, NEW q \in ListRecent(n), q.kind = "request"
  PROVE  /\ AnswerTo(ListRecent(n), q.review) = AnswerTo(comments, q.review)
         /\ AnswerTo(comments, q.review) = {} => \A x \in confirmed : x.kind = "answer" => x.review # q.review
         /\ q.review \notin crossed => AnswerTo(comments, q.review) = AnswerTo(confirmed, q.review)
<1> DEFINE above(x) == {y \in comments : y.at > x.at}
<1>1. comments \in SUBSET CommentSet /\ IsFiniteSet(comments) /\ confirmed \subseteq comments
  BY DEF ReviewInv, ShapesOK, StoredOK
<1>2. q \in comments /\ Cardinality(above(q)) < n
  BY DEF ListRecent
<1>3. \A x \in comments : x.at \in Nat
  BY <1>1 DEF CommentSet
<1>4. ASSUME NEW x \in comments, x.kind = "answer", x.review = q.review PROVE x \in ListRecent(n)
  <2>1. PICK p \in comments : p.kind = "request" /\ p.review = x.review /\ p.at < x.at
    BY <1>4 DEF ReviewInv, BackedOK, Backed
  <2>2. p = q
    BY <1>2, <1>4, <2>1 DEF ReviewInv, TimesOK, Every
  <2>3. above(x) \in SUBSET above(q) /\ above(q) \in SUBSET comments
    BY <1>2, <1>3, <2>1, <2>2
  <2>4. IsFiniteSet(above(q))
    BY <1>1, <2>3, FS_Subset
  <2>5. IsFiniteSet(above(x)) /\ Cardinality(above(x)) <= Cardinality(above(q))
    BY <2>3, <2>4, FS_Subset
  <2>6. Cardinality(above(x)) \in Nat /\ Cardinality(above(q)) \in Nat
    BY <2>4, <2>5, FS_CardinalityType
  <2>7. Cardinality(above(x)) < n
    BY <1>2, <2>5, <2>6
  <2> QED BY <2>7 DEF ListRecent
<1>5. AnswerTo(ListRecent(n), q.review) = AnswerTo(comments, q.review)
  <2>1. ListRecent(n) \subseteq comments
    BY DEF ListRecent
  <2>2. {x \in ListRecent(n) : x.kind = "answer" /\ x.review = q.review} = {x \in comments : x.kind = "answer" /\ x.review = q.review}
    BY <1>4, <2>1
  <2> QED BY <2>2 DEF AnswerTo
<1>6. ASSUME AnswerTo(comments, q.review) = {}, NEW x \in confirmed, x.kind = "answer" PROVE x.review # q.review
  BY <1>1, <1>6, FirstAnswer
<1>7. ASSUME q.review \notin crossed PROVE AnswerTo(comments, q.review) = AnswerTo(confirmed, q.review)
  <2>1. {x \in comments : x.kind = "answer" /\ x.review = q.review} = {x \in confirmed : x.kind = "answer" /\ x.review = q.review}
    BY <1>1, <1>7 DEF ReviewInv, StoredOK
  <2> QED BY <2>1 DEF AnswerTo
<1> QED BY <1>5, <1>6, <1>7

\* While no comment is made, comments keep their times.
LEMMA TimesStay ==
  ASSUME TimesOK, made' = made, Every' \subseteq Every,
         \A c \in Clients : client[c].at \notin {"idle", "sent"} => client'[c].at \notin {"idle", "sent"}
  PROVE  TimesOK'
BY DEF TimesOK

\* While nothing is confirmed, what was listed is as honest as it was.
LEMMA ListsStay ==
  ASSUME ListedOK, confirmed' = confirmed, crossed \subseteq crossed',
         \A c \in Clients : client'[c].at = "listed" => client'[c] = client[c]
  PROVE  ListedOK'
BY DEF ListedOK

\* A list is read from what there is.
LEMMA ListKeeps ==
  ASSUME ReviewInv, NEW c \in Clients, List(c)
  PROVE  ReviewInv'
<1> DEFINE n == Commands[c].limit
           list == Reviews(ListRecent(n))
           new == [at |-> "listed", rows |-> list, known |-> confirmed]
<1>1. /\ client[c].at = "idle" /\ server = "up" /\ Commands[c].op = "list"
      /\ client' = [client EXCEPT ![c] = new]
      /\ UNCHANGED <<backend, file, comments, made, server, confirmed, crossed, restarts>>
  BY DEF List
<1>2. ListRecent(n) \subseteq comments /\ comments \in SUBSET CommentSet /\ n \in Nat
  BY CommentsAssumption DEF ListRecent, ReviewInv, ShapesOK
<1>3. list \in SUBSET [request : CommentSet, answer : SUBSET CommentSet]
  BY <1>2 DEF Reviews, AnswerTo
<1>4. new \in States
  BY <1>3 DEF States, ReviewInv, ShapesOK
<1>5. client' \in [Clients -> States] /\ client'[c] = new /\ \A d \in Clients \ {c} : client'[d] = client[d]
  <2> HIDE DEF new
  <2> QED BY <1>1, <1>4, Moves DEF ReviewInv
<1>6. Pending' = Pending /\ Every' = Every
  BY <1>1, <1>5 DEF Pending, Writing, Every
<1>7. ShapesOK'
  BY <1>1, <1>5 DEF ReviewInv, ShapesOK, Writing
<1>8. TimesOK'
  <2> HIDE DEF new
  <2> QED BY <1>1, <1>5, <1>6, TimesStay DEF ReviewInv, new
<1>9. StoredOK'
  BY <1>1, <1>5 DEF ReviewInv, StoredOK
<1>10. BackedOK'
  BY <1>1, <1>5, <1>6 DEF ReviewInv, BackedOK, Backed, Fits
<1>11. ASSUME NEW row \in list
       PROVE  /\ row.answer = {} => \A x \in confirmed : x.kind = "answer" => x.review # row.request.review
              /\ row.request.review \notin crossed /\ row.answer # {} => row.answer = AnswerTo(confirmed, row.request.review)
  <2>1. PICK q \in ListRecent(n) : q.kind = "request" /\ row = [request |-> q, answer |-> AnswerTo(ListRecent(n), q.review)]
    BY <1>11 DEF Reviews
  <2>2. row.request = q /\ row.answer = AnswerTo(comments, q.review)
    BY <1>1, <1>2, <2>1, ListedWithAnswers
  <2> QED BY <1>1, <1>2, <2>1, <2>2, ListedWithAnswers
<1>12. ListedOK'
  <2> SUFFICES ASSUME NEW d \in Clients, client'[d].at = "listed", NEW row \in client'[d].rows
               PROVE  /\ row.answer = {} => \A x \in client'[d].known : x.kind = "answer" => x.review # row.request.review
                      /\ row.request.review \notin crossed /\ row.answer # {} => row.answer = AnswerTo(confirmed, row.request.review)
    BY <1>1 DEF ListedOK
  <2>1. CASE d = c
    BY <1>5, <1>11, <2>1
  <2>2. CASE d # c
    BY <1>5, <2>2 DEF ReviewInv, ListedOK
  <2> QED BY <2>1, <2>2
<1> QED BY <1>7, <1>8, <1>9, <1>10, <1>12 DEF ReviewInv

\* Who answers has found a question that takes the answer.
LEMMA AskKeeps ==
  ASSUME ReviewInv, NEW c \in Clients, Ask(c)
  PROVE  ReviewInv'
<1> DEFINE cmd == Commands[c]
           list == ListRecent(cmd.limit)
           found == Requests(list, cmd.review)
           to == IF cmd.op = "request" THEN cmd.trace ELSE (CHOOSE q \in found : TRUE).trace
<1>1. /\ client[c].at = "idle" /\ server = "up" /\ cmd.op \in {"request", "answer"}
      /\ UNCHANGED <<backend, file, comments, made, server, confirmed, crossed, restarts>>
  BY DEF Ask
<1>2. \/ client' = [client EXCEPT ![c] = [at |-> "refused"]]
      \/ ~(cmd.op = "answer" /\ Unfit(c, list)) /\ client' = [client EXCEPT ![c] = [at |-> "sent", trace |-> to]]
  BY DEF Ask
<1>3. list \subseteq comments /\ comments \in SUBSET CommentSet
  BY DEF ListRecent, ReviewInv, ShapesOK
<1>4. ASSUME cmd.op = "answer", ~Unfit(c, list)
      PROVE  \E q \in comments : q.kind = "request" /\ q.review = cmd.review /\ q.trace = to /\ Fits(q, cmd)
  <2>1. found # {} /\ \A q \in found : q.options = {} \/ cmd.value \in q.options
    BY <1>4 DEF Unfit
  <2>2. PICK q \in found : to = q.trace
    BY <1>4, <2>1
  <2> QED BY <1>3, <2>1, <2>2 DEF Requests, Fits
<1>5. ASSUME NEW new \in States, client' = [client EXCEPT ![c] = new],
             \/ new.at = "refused"
             \/ new.at = "sent" /\ (cmd.op = "answer" =>
                  \E q \in comments : q.kind = "request" /\ q.review = cmd.review /\ q.trace = new.trace /\ Fits(q, cmd))
      PROVE  ReviewInv'
  <2>1. client' \in [Clients -> States] /\ client'[c] = new /\ \A d \in Clients \ {c} : client'[d] = client[d]
    BY <1>5, Moves DEF ReviewInv
  <2>2. Pending' = Pending /\ Every' = Every
    BY <1>1, <1>5, <2>1 DEF Pending, Writing, Every
  <2>3. ShapesOK'
    BY <1>1, <1>5, <2>1 DEF ReviewInv, ShapesOK, Writing
  <2>4. TimesOK'
    BY <1>1, <1>5, <2>1, <2>2, TimesStay DEF ReviewInv
  <2>5. StoredOK'
    BY <1>1, <1>5, <2>1 DEF ReviewInv, StoredOK
  <2>6. BackedOK'
    BY <1>1, <1>5, <2>1, <2>2 DEF ReviewInv, BackedOK, Backed, Fits
  <2>7. ListedOK'
    BY <1>1, <1>5, <2>1, ListsStay DEF ReviewInv
  <2> QED BY <2>3, <2>4, <2>5, <2>6, <2>7 DEF ReviewInv
<1>6. [at |-> "refused"] \in States
  BY DEF States
<1>7. ASSUME ~(cmd.op = "answer" /\ Unfit(c, list)) PROVE [at |-> "sent", trace |-> to] \in States
  <2>1. to \in {Commands[d].trace : d \in Clients}
    <3>1. CASE cmd.op = "request"
      BY <3>1
    <3>2. CASE cmd.op = "answer"
      <4>1. PICK q \in comments : q.trace = to
        BY <1>4, <1>7, <3>2
      <4> QED BY <1>3, <4>1 DEF CommentSet
    <3> QED BY <1>1, <3>1, <3>2
  <2> QED BY <2>1 DEF States
<1> HIDE DEF cmd, list, to
<1> QED BY <1>2, <1>4, <1>5, <1>6, <1>7

\* A comment that is made is newer than all others.
LEMMA MakeKeeps ==
  ASSUME ReviewInv, NEW c \in Clients, Make(c)
  PROVE  ReviewInv'
<1> DEFINE cmd == Commands[c]
           comment == [kind |-> cmd.op, review |-> cmd.review, trace |-> client[c].trace,
                       options |-> cmd.options, value |-> cmd.value, at |-> made + 1]
           at == IF backend = "jsonl" THEN "made" ELSE "written"
           new == [at |-> at, comment |-> comment]
<1>1. /\ client[c].at = "sent" /\ server = "up" /\ made' = made + 1 /\ made \in Nat
      /\ client' = [client EXCEPT ![c] = new]
      /\ UNCHANGED <<backend, file, comments, server, confirmed, crossed, restarts>>
  BY DEF Make, ReviewInv, ShapesOK
<1>2. cmd.op \in {"request", "answer"}
  BY <1>1 DEF ReviewInv, ShapesOK
<1>3. comment \in CommentSet /\ comment.at = made + 1 /\ comment.kind = cmd.op /\ comment.review = cmd.review
      /\ comment.trace = client[c].trace /\ comment.value = cmd.value
  <2>1. client[c].trace \in {Commands[d].trace : d \in Clients}
    BY <1>1, ClientFields DEF ReviewInv
  <2> QED BY <1>1, <1>2, <2>1 DEF CommentSet
<1>4. at \in {"made", "written"} /\ (at = "made" => backend = "jsonl") /\ (at = "written" => backend = "postgres")
  BY DEF ReviewInv, ShapesOK
<1> HIDE DEF comment, at
<1>5. new \in States /\ new.at = at /\ new.comment = comment
  BY <1>3, <1>4 DEF States
<1> HIDE DEF new
<1>6. client' \in [Clients -> States] /\ client'[c] = new /\ \A d \in Clients \ {c} : client'[d] = client[d]
  BY <1>1, <1>5, Moves DEF ReviewInv
<1>7. Pending' = Pending \cup {comment} /\ Every' = Every \cup {comment}
  <2>1. Pending' = Pending \cup {comment}
    BY <1>1, <1>4, <1>5, <1>6 DEF Pending, Writing
  <2> QED BY <1>1, <2>1 DEF Every
<1>8. ShapesOK'
  BY <1>1, <1>2, <1>4, <1>5, <1>6 DEF ReviewInv, ShapesOK, Writing
<1>9. TimesOK'
  <2>1. ASSUME NEW x \in Every PROVE x.at <= made /\ x.at \in Nat
    <3>1. x \in CommentSet
      BY ClientFields, TextsInFile DEF ReviewInv, ShapesOK, Every, Pending, Writing
    <3> QED BY <3>1 DEF ReviewInv, TimesOK, CommentSet
  <2>2. \A x \in Every' : x.at <= made'
    BY <1>1, <1>3, <1>7, <2>1
  <2>3. \A x, y \in Every' : x.at = y.at => x = y
    BY <1>1, <1>3, <1>7, <2>1 DEF ReviewInv, TimesOK
  <2>4. \A d \in Clients : client[d].at \notin {"idle", "sent"} => client'[d].at \notin {"idle", "sent"}
    BY <1>1, <1>6
  <2>5. \A x \in Every' : x.kind = "request" => \E d \in Clients :
          Commands[d].op = "request" /\ Commands[d].review = x.review /\ client'[d].at \notin {"idle", "sent"}
    BY <1>3, <1>4, <1>5, <1>6, <1>7, <2>4 DEF ReviewInv, TimesOK
  <2>6. ASSUME NEW x \in Every, x.kind = "request", comment.kind = "request", x.review = comment.review PROVE FALSE
    <3>1. PICK d \in Clients : Commands[d].op = "request" /\ Commands[d].review = x.review /\ client[d].at \notin {"idle", "sent"}
      BY <2>6 DEF ReviewInv, TimesOK
    <3>2. d = c
      BY <1>3, <2>6, <3>1, CommentsAssumption
    <3> QED BY <1>1, <3>1, <3>2
  <2>7. \A x, y \in Every' : x.kind = "request" /\ y.kind = "request" /\ x.review = y.review => x = y
    BY <1>7, <2>6 DEF ReviewInv, TimesOK
  <2> QED BY <2>2, <2>3, <2>5, <2>7 DEF TimesOK
<1>10. StoredOK'
  BY <1>1, <1>4, <1>5, <1>6 DEF ReviewInv, StoredOK
<1>11. BackedOK'
  <2>1. cmd.op = "answer" => Backed(comments, comment)
    <3> SUFFICES ASSUME cmd.op = "answer" PROVE Backed(comments, comment)
      OBVIOUS
    <3>1. PICK q \in comments : q.kind = "request" /\ q.review = cmd.review /\ q.trace = client[c].trace /\ Fits(q, cmd)
      BY <1>1 DEF ReviewInv, BackedOK
    <3>2. q.at \in Nat /\ q.at <= made
      BY DEF ReviewInv, TimesOK, Every, ShapesOK, CommentSet
    <3> QED BY <1>1, <1>3, <3>1, <3>2 DEF Backed, Fits
  <2>2. \A x \in (comments \cup Pending)' : x.kind = "answer" => Backed(comments, x)
    BY <1>1, <1>3, <1>7, <2>1 DEF ReviewInv, BackedOK
  <2>3. \A d \in Clients : client'[d].at = "sent" => d # c
    BY <1>4, <1>5, <1>6
  <2>4. \A d \in Clients : client'[d].at = "sent" /\ Commands[d].op = "answer" =>
          \E q \in comments : q.kind = "request" /\ q.review = Commands[d].review /\ q.trace = client'[d].trace /\ Fits(q, Commands[d])
    BY <1>6, <2>3 DEF ReviewInv, BackedOK
  <2> HIDE DEF cmd
  <2> QED BY <1>1, <2>2, <2>4 DEF ReviewInv, BackedOK
<1>12. ListedOK'
  BY <1>1, <1>4, <1>5, <1>6, ListsStay DEF ReviewInv
<1> QED BY <1>8, <1>9, <1>10, <1>11, <1>12 DEF ReviewInv

\* The text of a line comes before its end, and both before the comment is entered.
LEMMA WriteKeeps ==
  ASSUME ReviewInv, NEW c \in Clients, WriteLine(c)
  PROVE  ReviewInv'
<1>1. ASSUME NEW from \in {"made", "text"}, NEW to \in {"text", "written"}, NEW piece \in CommentSet \cup {EndOfLine},
             Write(c, from, piece, to), from = "made" => piece = client[c].comment, from = "text" => piece = EndOfLine
      PROVE  ReviewInv'
  <2> DEFINE comment == client[c].comment
             new == [at |-> to, comment |-> comment]
  <2>1. /\ client[c].at = from /\ server = "up" /\ file' = Append(file, piece)
        /\ UNCHANGED <<backend, comments, made, server, confirmed, crossed, restarts>>
        /\ client' = [client EXCEPT ![c] = new]
    BY <1>1 DEF Write
  <2>2. comment \in CommentSet /\ backend = "jsonl"
    BY <2>1, ClientFields DEF ReviewInv, ShapesOK
  <2>3. new \in States /\ new.at = to /\ new.comment = comment
    BY <2>2 DEF States
  <2> HIDE DEF new
  <2>4. client' \in [Clients -> States] /\ client'[c] = new /\ \A d \in Clients \ {c} : client'[d] = client[d]
    BY <2>1, <2>3, Moves DEF ReviewInv
  <2>5. file' \in Seq(CommentSet \cup {EndOfLine}) /\ Texts(file') = Texts(file) \cup ({piece} \ {EndOfLine})
    BY <2>1, Longer DEF ReviewInv
  <2>6. comment # EndOfLine
    BY <2>2 DEF CommentSet, EndOfLine
  <2>7. comment \in Pending /\ Texts(file') = Texts(file) \cup {comment}
    <3>1. CASE from = "made"
      BY <1>1, <2>1, <2>5, <2>6, <3>1 DEF Pending, Writing
    <3>2. CASE from = "text"
      BY <1>1, <2>1, <2>2, <2>5, <3>2 DEF Pending, Writing, ReviewInv, StoredOK
    <3> QED BY <3>1, <3>2
  <2>8. Pending' = Pending
    BY <2>1, <2>3, <2>4 DEF Pending, Writing
  <2>9. Every' = Every
    BY <2>1, <2>7, <2>8 DEF Every
  <2>10. ShapesOK'
    BY <1>1, <2>1, <2>2, <2>3, <2>4, <2>5 DEF ReviewInv, ShapesOK, Writing
  <2>11. TimesOK'
    BY <1>1, <2>1, <2>3, <2>4, <2>9, TimesStay DEF ReviewInv
  <2>12. StoredOK'
    BY <2>1, <2>2, <2>3, <2>4, <2>7 DEF ReviewInv, StoredOK
  <2>13. BackedOK'
    <3>1. comment.kind = "answer" => Backed(Texts(file), comment)
      BY <2>2, <2>7 DEF ReviewInv, BackedOK, StoredOK, Backed
    <3>2. \A x \in Texts(file') : x.kind = "answer" => Backed(Texts(file'), x)
      BY <2>7, <3>1 DEF ReviewInv, BackedOK, Backed
    <3>3. \A d \in Clients : client'[d].at = "sent" => client[d].at = "sent" /\ client'[d] = client[d]
      BY <1>1, <2>3, <2>4
    <3> QED BY <2>1, <2>8, <3>2, <3>3 DEF ReviewInv, BackedOK
  <2>14. ListedOK'
    BY <1>1, <2>1, <2>3, <2>4, ListsStay DEF ReviewInv
  <2> QED BY <2>10, <2>11, <2>12, <2>13, <2>14 DEF ReviewInv
<1>2. client[c].at = "made" => client[c].comment \in CommentSet
  BY ClientFields DEF ReviewInv
<1> HIDE DEF CommentSet
<1> QED BY <1>1, <1>2 DEF WriteLine

\* What is entered is confirmed; if it comes late, its review is among the crossed ones.
LEMMA PushKeeps ==
  ASSUME ReviewInv, NEW c \in Clients, Push(c)
  PROVE  ReviewInv'
<1> DEFINE comment == client[c].comment
           new == [at |-> "done", comment |-> comment]
<1>1. /\ client[c].at = "written" /\ server = "up"
      /\ comments' = comments \cup {comment} /\ confirmed' = confirmed \cup {comment}
      /\ client' = [client EXCEPT ![c] = new]
      /\ UNCHANGED <<backend, file, made, server, restarts>>
  BY DEF Push
<1>2. /\ crossed \subseteq crossed'
      /\ comment.review \notin crossed' => \A x \in comments : x.review = comment.review => ~(x.at > comment.at)
  BY DEF Push
<1>3. comment \in CommentSet /\ comment \in Pending
  BY <1>1, ClientFields DEF ReviewInv, Pending, Writing
<1>4. new \in States /\ new.at = "done"
  BY <1>3 DEF States
<1> HIDE DEF new
<1>5. client' \in [Clients -> States] /\ client'[c] = new /\ \A d \in Clients \ {c} : client'[d] = client[d]
  BY <1>1, <1>4, Moves DEF ReviewInv
<1>6. Pending' \subseteq Pending /\ Every' \subseteq Every
  <2>1. Pending' \subseteq Pending
    BY <1>4, <1>5 DEF Pending, Writing
  <2> QED BY <1>1, <1>3, <2>1 DEF Every
<1>7. ShapesOK'
  <2>1. IsFiniteSet(comments')
    BY <1>1, FS_AddElement DEF ReviewInv, ShapesOK
  <2> QED BY <1>1, <1>3, <1>4, <1>5, <2>1 DEF ReviewInv, ShapesOK, Writing
<1>8. TimesOK'
  BY <1>1, <1>4, <1>5, <1>6, TimesStay DEF ReviewInv
<1>9. StoredOK'
  <2>1. backend = "jsonl" => comment \in Texts(file)
    BY <1>1 DEF ReviewInv, StoredOK
  <2>2. \A x \in comments' \ confirmed' : x.review \in crossed'
    BY <1>1, <1>2 DEF ReviewInv, StoredOK
  <2>3. \A d \in Clients : client'[d].at \in {"text", "written"} => client'[d] = client[d]
    BY <1>4, <1>5
  <2> QED BY <1>1, <2>1, <2>2, <2>3 DEF ReviewInv, StoredOK
<1>10. BackedOK'
  <2>1. \A x \in comments \cup Pending : x.kind = "answer" => Backed(comments', x)
    BY <1>1 DEF ReviewInv, BackedOK, Backed
  <2>2. \A d \in Clients : client'[d].at = "sent" => client'[d] = client[d]
    BY <1>4, <1>5
  <2>3. \A d \in Clients : client'[d].at = "sent" /\ Commands[d].op = "answer" =>
          \E q \in comments' : q.kind = "request" /\ q.review = Commands[d].review /\ q.trace = client'[d].trace /\ Fits(q, Commands[d])
    BY <1>1, <2>2 DEF ReviewInv, BackedOK
  <2> QED BY <1>1, <1>3, <1>6, <2>1, <2>3 DEF ReviewInv, BackedOK
<1>11. ASSUME NEW review, review \notin crossed', AnswerTo(confirmed, review) # {}
       PROVE  AnswerTo(confirmed', review) = AnswerTo(confirmed, review)
  <2> DEFINE answers == {x \in confirmed : x.kind = "answer" /\ x.review = review}
             answersNow == {x \in confirmed' : x.kind = "answer" /\ x.review = review}
  <2>1. CASE ~(comment.kind = "answer" /\ comment.review = review)
    <3>1. answersNow = answers
      BY <1>1, <2>1
    <3> QED BY <3>1 DEF AnswerTo
  <2>2. CASE comment.kind = "answer" /\ comment.review = review
    <3>1. PICK m \in answers : \A y \in answers : y.at >= m.at
      BY <1>11 DEF AnswerTo
    <3>2. confirmed \subseteq comments /\ confirmed \subseteq CommentSet
      BY <1>1 DEF ReviewInv, StoredOK, ShapesOK
    <3>3. m.at \in Nat /\ comment.at \in Nat /\ ~(m.at > comment.at)
      BY <1>2, <1>3, <1>11, <2>2, <3>1, <3>2 DEF CommentSet
    <3>4. m.at = comment.at => m = comment
      BY <1>3, <3>1 DEF ReviewInv, TimesOK, Every
    <3>5. answersNow = answers \cup {comment}
      BY <1>1, <2>2
    <3>6. \A y \in answers : y.at \in Nat
      BY <3>2 DEF CommentSet
    <3>7. \A y \in answersNow : y.at >= m.at /\ y.at \in Nat
      BY <3>1, <3>3, <3>5, <3>6
    <3>8. m \in answersNow /\ m \in answers
      BY <3>1, <3>5
    <3>9. {x \in answersNow : \A y \in answersNow : y.at >= x.at} = {x \in answers : \A y \in answers : y.at >= x.at}
      <4> HIDE DEF answers, answersNow
      <4>1. ASSUME NEW x \in answersNow, \A y \in answersNow : y.at >= x.at
            PROVE  x \in answers /\ \A y \in answers : y.at >= x.at
        <5>1. x.at = m.at
          BY <3>3, <3>7, <3>8, <4>1
        <5>2. x \in answers
          BY <3>3, <3>4, <3>5, <3>8, <5>1
        <5> QED BY <3>5, <4>1, <5>2
      <4>2. ASSUME NEW x \in answers, \A y \in answers : y.at >= x.at
            PROVE  x \in answersNow /\ \A y \in answersNow : y.at >= x.at
        <5>1. x.at = m.at
          BY <3>1, <3>3, <3>6, <3>8, <4>2
        <5> QED BY <3>5, <3>7, <5>1
      <4> QED BY <4>1, <4>2
    <3> QED BY <3>9 DEF AnswerTo
  <2> QED BY <2>1, <2>2
<1>12. ListedOK'
  <2> SUFFICES ASSUME NEW d \in Clients, client'[d].at = "listed", NEW row \in client'[d].rows
               PROVE  /\ row.answer = {} => \A x \in client'[d].known : x.kind = "answer" => x.review # row.request.review
                      /\ row.request.review \notin crossed' /\ row.answer # {} => row.answer = AnswerTo(confirmed', row.request.review)
    BY DEF ListedOK
  <2>1. client'[d] = client[d]
    BY <1>4, <1>5
  <2>2. /\ row.answer = {} => \A x \in client[d].known : x.kind = "answer" => x.review # row.request.review
        /\ row.request.review \notin crossed /\ row.answer # {} => row.answer = AnswerTo(confirmed, row.request.review)
    BY <2>1 DEF ReviewInv, ListedOK
  <2> QED BY <1>2, <1>11, <2>1, <2>2
<1> QED BY <1>7, <1>8, <1>9, <1>10, <1>12 DEF ReviewInv

\* Who was writing fails, and the memory of a server is lost.
LEMMA DieKeeps ==
  ASSUME ReviewInv, Die
  PROVE  ReviewInv'
<1>1. /\ server = "up" /\ server' = "down" /\ comments' = IF backend = "jsonl" THEN {} ELSE comments
      /\ client' = [c \in Clients |-> IF client[c].at \in {"sent", "made", "text", "written"} THEN [at |-> "failed"] ELSE client[c]]
      /\ UNCHANGED <<backend, file, made, confirmed, crossed>>
  BY DEF Die
<1>2. [at |-> "failed"] \in States
  BY DEF States
<1>3. \A c \in Clients : IF client[c].at \in {"sent", "made", "text", "written"} THEN client'[c] = [at |-> "failed"] ELSE client'[c] = client[c]
  BY <1>1
<1>4. \A c \in Clients : \/ client'[c].at = "failed" /\ client[c].at \in {"sent", "made", "text", "written"}
                         \/ client'[c] = client[c] /\ client'[c].at \notin {"sent", "made", "text", "written"}
  BY <1>3
<1>5. client' \in [Clients -> States]
  BY <1>1, <1>2 DEF ReviewInv, ShapesOK
<1>6. Pending' = {}
  BY <1>4 DEF Pending, Writing
<1>7. Every' \subseteq Every /\ comments' \subseteq comments
  BY <1>1, <1>6 DEF Every
<1>8. ShapesOK'
  <2>1. IsFiniteSet(comments')
    BY <1>7, FS_Subset DEF ReviewInv, ShapesOK
  <2> QED BY <1>1, <1>4, <1>5, <1>7, <2>1 DEF ReviewInv, ShapesOK, Writing
<1>9. TimesOK'
  BY <1>1, <1>4, <1>7, TimesStay DEF ReviewInv
<1>10. StoredOK'
  BY <1>1, <1>4, <1>7 DEF ReviewInv, StoredOK, ShapesOK
<1>11. BackedOK'
  <2>1. comments' = {} \/ comments' = comments
    BY <1>1
  <2> QED BY <1>1, <1>4, <1>6, <2>1 DEF ReviewInv, BackedOK, Backed
<1>12. ListedOK'
  BY <1>1, <1>4, ListsStay DEF ReviewInv
<1> QED BY <1>8, <1>9, <1>10, <1>11, <1>12 DEF ReviewInv

\* What is read back is what the file has, and what of it nobody was told is crossed.
LEMMA OpenKeeps ==
  ASSUME ReviewInv, Open
  PROVE  ReviewInv'
<1>1. /\ server = "down" /\ server' \in {"broken", "up"} /\ crossed \subseteq crossed'
      /\ \A x \in Texts(file) \ confirmed : x.review \in crossed'
      /\ UNCHANGED <<backend, file, made, client, confirmed, restarts>>
  BY DEF Open
<1>2. \/ comments' = comments /\ (backend = "jsonl" => server' = "broken")
      \/ comments' = Texts(file) /\ backend = "jsonl" /\ server' = "up"
  BY DEF Open
<1>3. comments' \subseteq CommentSet /\ IsFiniteSet(comments')
  BY <1>2, TextsInFile DEF ReviewInv, ShapesOK
<1>4. Pending' = Pending /\ Pending = {}
  BY <1>1 DEF Pending, Writing, ReviewInv, ShapesOK
<1>5. Every' \subseteq Every
  BY <1>1, <1>2, <1>4 DEF Every
<1>6. ShapesOK'
  BY <1>1, <1>3 DEF ReviewInv, ShapesOK, Writing
<1>7. TimesOK'
  BY <1>1, <1>5, TimesStay DEF ReviewInv
<1>8. StoredOK'
  BY <1>1, <1>2 DEF ReviewInv, StoredOK, ShapesOK
<1>9. BackedOK'
  <2>1. \A x \in comments' : x.kind = "answer" => Backed(comments', x)
    BY <1>2 DEF ReviewInv, BackedOK
  <2>2. \A c \in Clients : client[c].at # "sent"
    BY <1>1 DEF ReviewInv, ShapesOK
  <2> QED BY <1>1, <1>4, <2>1, <2>2 DEF ReviewInv, BackedOK
<1>10. ListedOK'
  BY <1>1, ListsStay DEF ReviewInv
<1> QED BY <1>6, <1>7, <1>8, <1>9, <1>10 DEF ReviewInv

-----------------------------------------------------------------------------
(* Comments and reviews: theorems.                                         *)

\* What is stored, on its way or shown hangs together.
THEOREM ReviewInvariant == CommentsSpec => []ReviewInv
<1>1. CommentsInit => ReviewInv
  <2> SUFFICES ASSUME CommentsInit PROVE ReviewInv
    OBVIOUS
  <2>1. /\ backend \in {"jsonl", "postgres"} /\ file = <<>> /\ comments = {} /\ made = 0 /\ server = "up"
        /\ client = [c \in Clients |-> Idle] /\ confirmed = {} /\ crossed = {}
    BY CommentsAssumption DEF CommentsInit
  <2>2. Idle \in States /\ Idle.at = "idle"
    BY DEF Idle, States
  <2>3. client \in [Clients -> States] /\ \A c \in Clients : client[c].at = "idle"
    BY <2>1, <2>2
  <2>4. Texts(file) = {} /\ Pending = {} /\ Every = {}
    <3>1. Texts(file) = {}
      BY <2>1 DEF Texts, ToSet
    <3> QED BY <2>1, <2>3, <3>1 DEF Pending, Writing, Every
  <2>5. file \in Seq(CommentSet \cup {EndOfLine}) /\ IsFiniteSet(comments)
    BY <2>1, FS_EmptySet
  <2>6. ShapesOK
    BY <2>1, <2>3, <2>5 DEF ShapesOK, Writing
  <2>7. TimesOK /\ StoredOK /\ BackedOK /\ ListedOK
    BY <2>1, <2>3, <2>4 DEF TimesOK, StoredOK, BackedOK, ListedOK
  <2> QED BY <2>6, <2>7 DEF ReviewInv
<1>2. ReviewInv /\ [CommentsNext]_commentVars => ReviewInv'
  <2> SUFFICES ASSUME ReviewInv, [CommentsNext]_commentVars PROVE ReviewInv'
    OBVIOUS
  <2>1. CASE UNCHANGED commentVars
    <3>1. UNCHANGED <<backend, file, comments, made, client, server, confirmed, crossed>>
      BY <2>1 DEF commentVars
    <3>2. Pending' = Pending /\ Every' = Every
      BY <3>1 DEF Pending, Writing, Every
    <3>3. ShapesOK' /\ TimesOK' /\ StoredOK' /\ ListedOK'
      BY <3>1, <3>2 DEF ReviewInv, ShapesOK, TimesOK, StoredOK, ListedOK, Writing
    <3>4. BackedOK'
      BY <3>1, <3>2 DEF ReviewInv, BackedOK, Backed
    <3> QED BY <3>3, <3>4 DEF ReviewInv
  <2>2. CASE CommentsNext
    BY <2>2, ListKeeps, AskKeeps, MakeKeeps, WriteKeeps, PushKeeps, DieKeeps, OpenKeeps DEF CommentsNext
  <2> QED BY <2>1, <2>2
<1> QED BY <1>1, <1>2, PTL DEF CommentsSpec

\* What the review queue shows is what was asked and answered: an answer is one its question
\* takes, an open question has none, and the answer shown stays unless one came late.
THEOREM ReviewsHonest == CommentsSpec => []ReviewsAreHonest
<1>1. ReviewInv => ReviewsAreHonest
  <2> SUFFICES ASSUME ReviewInv PROVE ReviewsAreHonest
    OBVIOUS
  <2>1. AnswersBelong
    BY DEF ReviewInv, BackedOK, Backed, Fits, AnswersBelong, Requests
  <2>2. OpenMeansUnanswered
    BY DEF ReviewInv, ListedOK, OpenMeansUnanswered, Listed
  <2>3. AnswersStay
    BY DEF ReviewInv, ListedOK, AnswersStay, Listed
  <2> QED BY <2>1, <2>2, <2>3 DEF ReviewsAreHonest
<1> QED BY <1>1, ReviewInvariant, PTL

\* A comment is made before it is anywhere, and has a time of its own.
THEOREM CommentsTypes == CommentsSpec => []CommentsTypeOK
<1>1. ReviewInv => CommentsTypeOK
  <2> SUFFICES ASSUME ReviewInv PROVE CommentsTypeOK
    OBVIOUS
  <2>1. ASSUME NEW x \in comments PROVE Comment(x)
    <3>1. x.at <= made /\ x \in CommentSet /\ made \in Nat
      BY DEF ReviewInv, TimesOK, ShapesOK, Every
    <3> QED BY <3>1 DEF Comment, CommentSet
  <2> QED BY <2>1 DEF ReviewInv, ShapesOK, TimesOK, Every, CommentsTypeOK
<1> QED BY <1>1, ReviewInvariant, PTL

-----------------------------------------------------------------------------
(* Side by side.                                                           *)

\* A behaviour of the instance that TLC explores is one of each component.
LEMMA EachDatapath == Spec => IngestSpec /\ BlobSpec /\ CommentsSpec
<1>1. Init => IngestInit /\ BlobInit /\ CommentsInit
  <2>1. TwoOfEach \in Limits /\ NoLimits \in Limits
    BY DatapathAssumption DEF WithAndWithout
  <2>2. GatedBatches \in SUBSET Batches /\ FreeBatches \in SUBSET Batches
    BY DatapathAssumption
  <2> QED BY <2>1, <2>2 DEF Init, IngestInit
<1>2. [Next]_vars => [IngestNext]_ingestVars /\ [BlobNext]_blobVars /\ [CommentsNext]_commentVars
  BY DEF Next, vars
<1> QED BY <1>1, <1>2, PTL DEF Spec, IngestSpec, BlobSpec, CommentsSpec

\* Types, with limits and without, for requests, blobs and comments alike.
THEOREM DatapathTypes == Spec => []TypeOK
<1>1. CommentsTypeOK /\ BlobTypeOK /\ IngestTypeOK => TypeOK
  BY DEF TypeOK
<1>2. BlobSpec => []BlobTypeOK
  BY BlobTypes, DatapathAssumption
<1> QED BY <1>1, <1>2, EachDatapath, IngestTypes, CommentsTypes, PTL

=============================================================================
