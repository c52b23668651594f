----------------------------- MODULE MCDatapath -----------------------------
(***************************************************************************)
(* What comes in and what is thrown away, each on its own instance: a      *)
(* behaviour is one of requests behind the admission gate, one of requests *)
(* with the gate and the series cap switched off, one of uploads and the   *)
(* collection of their blobs on two nodes, or one of comments and their    *)
(* reviews, as subject says.                                               *)
(***************************************************************************)
EXTENDS Ingest, MCComments, BlobGC

VARIABLE subject

vars == <<subject, ingestVars, blobVars, commentVars>>

\* Spans over HTTP, the rest over gRPC; the metrics and the remote write share a series.
\* Datadog traces next to metrics come to a node without limits.
GatedBatches == {"s", "l", "m", "r"}
FreeBatches  == {"d", "f"}
Pipelines == "s" :> "spans" @@ "l" :> "logs" @@ "m" :> "metrics" @@ "r" :> "remote_write" @@
             "d" :> "datadog" @@ "f" :> "metrics"
Series    == "s" :> {} @@ "l" :> {} @@ "m" :> {1, 2} @@ "r" :> {2, 3} @@ "d" :> {} @@ "f" :> {1, 2}

TwoOfEach == [inFlight |-> 2, series |-> 2]
NoLimits  == [inFlight |-> 0, series |-> 0]
WithAndWithout == {TwoOfEach, NoLimits}

\* What the instance takes its requests, its limits and its nodes from.
ASSUME DatapathAssumption ==
  WithAndWithout \subseteq Limits /\ GatedBatches \cup FreeBatches \subseteq Batches /\ BlobPlacement

\* Two nodes share the store and are each asked by the other; one payload comes to both.
TwoNodes == {"n1", "n2"}
UploadAt == "u" :> "n1" @@ "w" :> "n2"
SameHash == "u" :> "g" @@ "w" :> "g"
Others   == [n \in TwoNodes |-> TwoNodes \ {n}]
ByLeader == [n \in TwoNodes |-> "leader"]

Init ==
  /\ \/ subject \in {"gated", "blobs", "comments"} /\ limits = TwoOfEach /\ StartsWith(GatedBatches)
     \/ subject = "ungated" /\ limits = NoLimits /\ StartsWith(FreeBatches)
  /\ BlobInit /\ (subject = "blobs" \/ leader = {})
  /\ CommentsInit /\ (subject = "comments" \/ backend = "jsonl")

Next ==
  /\ UNCHANGED subject
  /\ \/ subject \in {"gated", "ungated"} /\ IngestNext /\ UNCHANGED <<blobVars, commentVars>>
     \/ subject = "blobs" /\ BlobNext /\ UNCHANGED <<ingestVars, commentVars>>
     \/ subject = "comments" /\ CommentsNext /\ UNCHANGED <<ingestVars, blobVars>>

\* Handlers are scheduled as long as one has work; on each node passes start by the clock,
\* and take their steps.
Handles ==
  /\ subject = "gated" /\ (\E b \in Batches : Handle(b))
  /\ UNCHANGED <<subject, limits, blobVars, commentVars>>
Collects(n) ==
  /\ subject = "blobs" /\ (StartPass(n) \/ PassSteps(n))
  /\ UNCHANGED <<subject, ingestVars, commentVars>>

Spec == Init /\ [][Next]_vars /\ WF_ingestVars(Handles) /\ \A n \in TwoNodes : WF_pass(Collects(n))
-----------------------------------------------------------------------------
(* Properties; those of the gate, the pipelines, the blobs and the reviews *)
(* are in Ingest, BlobGC and Comments.                                     *)

\* Types, with limits and without.
TypeOK == CommentsTypeOK /\ BlobTypeOK /\ IngestTypeOK
\* Every request is answered or cut, and the blob of a row that is gone goes too.
NothingIsLeftOver == <>(subject = "gated" => AllAnswered(GatedBatches)) /\ OrphansGo
=============================================================================
