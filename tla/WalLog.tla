------------------------------- MODULE WalLog -------------------------------
(***************************************************************************)
(* The redo discipline of tael-server's storage engine: wal.rs (WalLog)    *)
(* together with the write path, the checkpoint and the start-up replay of *)
(* backend/mod.rs (TaelBackend).                                           *)
(*                                                                         *)
(*   append (fsync) -> ship -> apply to the hot tier -> mark applied       *)
(*                                            ... -> checkpoint (consume)  *)
(*                                                                         *)
(* Every insert_* call is an actor of its own: the calls of one process    *)
(* run on different threads and interleave between any two steps.  A batch *)
(* is an opaque value, since the log and the projection are only asked     *)
(* whether they hold it; two calls may carry the same batch (a client's    *)
(* retry).  The projection is the hot tier, applied with PersistMode::     *)
(* Buffer: `hot` survives the death of the process, `synced` is the part   *)
(* an fsync (PersistMode::SyncAll) has made to survive a power loss.       *)
(***************************************************************************)
EXTENDS Naturals, Sequences, FiniteSets

CONSTANTS
  Calls,          \* insert_spans / insert_logs / insert_metrics / apply_framed_wal calls
  Framed,         \* those of apply_framed_wal: records of a leader, not shipped on
  Flusher,        \* the graceful shutdown, which calls Store::flush
  Free,           \* "nobody holds the append gate"
  Batches,        \* what the calls carry
  BatchOf,        \* the batch of each call
  Interval,       \* CHECKPOINT_INTERVAL
  NumSinks,       \* registered WAL sinks
  RequiredAcks,   \* acks an append needs, before clamping
  MaxCrashes,     \* bound: deaths of the process in a behaviour
  MaxPowerLosses  \* bound: power losses in a behaviour

Actors == Calls \cup {Flusher}

ASSUME WalAssumption ==
  /\ Framed \subseteq Calls /\ Flusher \notin Calls
  /\ Free \notin Actors
  /\ BatchOf \in [Calls -> Batches]
  /\ Interval \in Nat \ {0}
  /\ NumSinks \in Nat /\ RequiredAcks \in Nat
  /\ MaxCrashes \in Nat /\ MaxPowerLosses \in Nat

VARIABLES
  log,       \* the topic: the call that appended each entry, in append order
  cursor,    \* the durable read cursor: how many entries are consumed
  hot,       \* batches in the hot tier
  synced,    \* batches of the hot tier that an fsync covers
  stage,     \* where each actor is
  gate,      \* holder of the `wal` mutex across steps: a checkpoint, or Free
  inFlight,  \* Progress.in_flight
  applied,   \* Progress.applied
  phase,     \* of the process: "down", "draining", "replaying", "serving"
  replayQ,   \* the records drain() has returned and replay() has yet to apply
  drained,   \* history: the entries a start-up drain consumed
  crashes,   \* history: deaths of the process so far
  outages    \* history: power losses so far

vars == <<log, cursor, hot, synced, stage, gate, inFlight, applied, phase,
          replayQ, drained, crashes, outages>>

durable  == <<log, cursor, hot, synced>>
counters == <<inFlight, applied>>
startup  == <<phase, replayQ, drained, crashes, outages>>

\* Stages at which a call holds an unredeemed ticket.  A "stranded" call has
\* returned its error and will never redeem it.
TicketStages == {"appended", "shipped", "applied", "stranded"}

\* Stages of a checkpoint that holds the gate.
GateStages == {"quiescing", "flushing", "advancing"}

\* Stages at which the call has returned, or its process is gone.
\* "ok": acknowledged; "cut": the connection died with the process.
Settled == {"idle", "ok", "failed", "cut"}

Stages == TicketStages \cup GateStages \cup Settled \cup {"gated", "due"}

Outstanding == {c \in Calls : stage[c] \in TicketStages}

Required == IF RequiredAcks < NumSinks THEN RequiredAcks ELSE NumSinks

Serving == phase = "serving"

\* Positions of the log the cursor has not passed, and has passed.
Unread   == (cursor + 1) .. Len(log)
Consumed == 1 .. cursor

To(a, s) == stage' = [stage EXCEPT ![a] = s]

Init ==
  /\ log = <<>> /\ cursor = 0
  /\ hot = {} /\ synced = {}
  /\ stage = [a \in Actors |-> "idle"]
  /\ gate = Free
  /\ inFlight = 0 /\ applied = 0
  /\ phase = "serving" /\ replayQ = <<>>
  /\ drained = {} /\ crashes = 0 /\ outages = 0

-----------------------------------------------------------------------------
(* insert_*: append, ship, apply, mark applied.                            *)

\* A call arrives and asks for the append gate.
Begin(c) ==
  /\ Serving /\ stage[c] = "idle"
  /\ To(c, "gated")
  /\ UNCHANGED <<durable, gate, counters, startup>>

\* Where an append leaves the call: only a record of this node's own is shipped.
Appended(c) == IF c \in Framed THEN "shipped" ELSE "appended"

\* Mutant: an append that does not wait for a checkpoint to release the gate.
WriteLocalUngated(c) ==
  /\ stage[c] = "gated"
  /\ log' = Append(log, c)
  /\ inFlight' = inFlight + 1
  /\ To(c, Appended(c))
  /\ UNCHANGED <<cursor, hot, synced, gate, applied, startup>>

\* write_local: append under the gate and count the record in flight.
WriteLocal(c) ==
  /\ stage[c] = "gated" /\ gate = Free
  /\ log' = Append(log, c)
  /\ inFlight' = inFlight + 1
  /\ To(c, Appended(c))
  /\ UNCHANGED <<cursor, hot, synced, gate, applied, startup>>

\* write_local: the append itself fails; no ticket is issued.
WriteLocalFails(c) ==
  /\ stage[c] = "gated" /\ gate = Free
  /\ To(c, "failed")
  /\ UNCHANGED <<durable, gate, counters, startup>>

\* append: hand the record to every sink and count the acks.  Too few, and
\* the call returns an error with its ticket unredeemed.
Ship(c) ==
  /\ stage[c] = "appended"
  /\ \E acks \in 0 .. NumSinks :
       To(c, IF acks < Required THEN "stranded" ELSE "shipped")
  /\ UNCHANGED <<durable, gate, counters, startup>>

\* apply_*: insert into the hot tier and persist with Buffer.
Apply(c) ==
  /\ stage[c] = "shipped"
  /\ hot' = hot \cup {BatchOf[c]}
  /\ To(c, "applied")
  /\ UNCHANGED <<log, cursor, synced, gate, counters, startup>>

\* apply_* fails, before or after the rows went in: `?` drops the ticket.
ApplyFails(c) ==
  /\ stage[c] = "shipped"
  /\ hot' \in {hot, hot \cup {BatchOf[c]}}
  /\ To(c, "stranded")
  /\ UNCHANGED <<log, cursor, synced, gate, counters, startup>>

\* Mutant: the threshold is tested with > instead of >=.
MarkAppliedLate(c) ==
  /\ stage[c] = "applied"
  /\ inFlight' = inFlight - 1
  /\ applied' = applied + 1
  /\ To(c, IF applied' > Interval THEN "due" ELSE "ok")
  /\ UNCHANGED <<durable, gate, startup>>

\* mark_applied: redeem the ticket; the call that reaches the interval owes a
\* checkpoint before it returns.
MarkApplied(c) ==
  /\ stage[c] = "applied"
  /\ inFlight' = inFlight - 1
  /\ applied' = applied + 1
  /\ To(c, IF applied' >= Interval THEN "due" ELSE "ok")
  /\ UNCHANGED <<durable, gate, startup>>

-----------------------------------------------------------------------------
(* checkpoint, on the call that is due or on the shutdown path.            *)

\* Store::flush at graceful shutdown.
Flush ==
  /\ Serving /\ stage[Flusher] = "idle"
  /\ To(Flusher, "due")
  /\ UNCHANGED <<durable, gate, counters, startup>>

\* Take the append gate for the whole checkpoint.
TakeGate(a) ==
  /\ stage[a] = "due" /\ gate = Free
  /\ gate' = a
  /\ To(a, "quiescing")
  /\ UNCHANGED <<durable, counters, startup>>

\* checkpoint returns: the gate is dropped with the guard.
Return(a, s) == gate' = Free /\ To(a, s)

\* Mutant: the cursor moves without the flush before it.
QuiescedUnflushed(a) ==
  /\ stage[a] = "quiescing" /\ inFlight = 0
  /\ IF applied = 0 THEN Return(a, "ok") ELSE To(a, "advancing") /\ UNCHANGED gate
  /\ UNCHANGED <<durable, counters, startup>>

\* Nothing in flight: go on to flush, or return if nothing was applied.
Quiesced(a) ==
  /\ stage[a] = "quiescing" /\ inFlight = 0
  /\ IF applied = 0 THEN Return(a, "ok") ELSE To(a, "flushing") /\ UNCHANGED gate
  /\ UNCHANGED <<durable, counters, startup>>

\* Mutant: the timed-out checkpoint goes on instead of giving up.
QuiesceGoesOn(a) ==
  /\ stage[a] = "quiescing" /\ inFlight > 0
  /\ To(a, "flushing")
  /\ UNCHANGED <<durable, gate, counters, startup>>

\* Mutant: the wait on the condition variable has no timeout.
QuiesceForEver(a) ==
  /\ stage[a] = "quiescing" /\ inFlight > 0
  /\ UNCHANGED vars

\* QUIESCE_TIMEOUT passed with writes still in flight: skip this checkpoint.
QuiesceTimeout(a) ==
  /\ stage[a] = "quiescing" /\ inFlight > 0
  /\ Return(a, "ok")
  /\ UNCHANGED <<durable, counters, startup>>

\* Mutant: the projection is persisted with Buffer, not SyncAll.
FlushBuffer(a) ==
  /\ stage[a] = "flushing"
  /\ To(a, "advancing")
  /\ UNCHANGED <<durable, gate, counters, startup>>

\* flush_projection: SyncAll covers everything in the hot tier.
FlushProjection(a) ==
  /\ stage[a] = "flushing"
  /\ synced' = hot
  /\ To(a, "advancing")
  /\ UNCHANGED <<log, cursor, hot, gate, counters, startup>>

\* One batch_read_for_topic: the cursor is durable after each batch.
ConsumeBatch(a) ==
  /\ stage[a] = "advancing" /\ cursor < Len(log)
  /\ cursor' \in Unread
  /\ UNCHANGED <<log, hot, synced, stage, gate, counters, startup>>

\* The empty batch: everything is consumed, reset the applied count.
FinishCheckpoint(a) ==
  /\ stage[a] = "advancing" /\ cursor = Len(log)
  /\ applied' = 0
  /\ Return(a, "ok")
  /\ UNCHANGED <<durable, inFlight, startup>>

\* Mutant: the error path resets the applied count as the success path does.
CheckpointFailsResets(a) ==
  /\ stage[a] \in {"flushing", "advancing"}
  /\ applied' = 0
  /\ Return(a, "failed")
  /\ UNCHANGED <<durable, inFlight, startup>>

\* The flush or a batch read fails: `?` out of the checkpoint and of the call.
CheckpointFails(a) ==
  /\ stage[a] \in {"flushing", "advancing"}
  /\ Return(a, "failed")
  /\ UNCHANGED <<durable, counters, startup>>

-----------------------------------------------------------------------------
(* The process dies, and starts again: with_components -> replay.          *)

\* What every actor of a dead process leaves behind, as its client sees it.
Aftermath ==
  [a \in Actors |-> IF a = Flusher THEN "idle"
                    ELSE IF stage[a] = "stranded" THEN "failed"
                    ELSE IF stage[a] \in Settled THEN stage[a] ELSE "cut"]

Die ==
  /\ phase' = "down"
  /\ stage' = Aftermath
  /\ gate' = Free
  /\ inFlight' = 0 /\ applied' = 0
  /\ replayQ' = <<>>
  /\ UNCHANGED <<log, cursor, drained>>

\* The process is killed, or gives up its start-up because a record does not
\* decode or apply: what Buffer has handed to the system survives.
Crash ==
  /\ phase # "down" /\ crashes < MaxCrashes
  /\ crashes' = crashes + 1
  /\ Die
  /\ UNCHANGED <<hot, synced, outages>>

\* The machine loses power: of the unsynced rows, any may be gone.
PowerLoss ==
  /\ outages < MaxPowerLosses
  /\ outages' = outages + 1
  /\ \E kept \in SUBSET hot :
       synced \subseteq kept /\ hot' = kept /\ synced' = kept
  /\ Die
  /\ UNCHANGED crashes

\* Open the backend: replay() begins with wal.drain().
Open ==
  /\ phase = "down"
  /\ phase' = "draining"
  /\ UNCHANGED <<durable, stage, gate, counters, replayQ, drained, crashes, outages>>

\* Mutant: the drain leaves the cursor one entry too far.
DrainBatchTooFar ==
  /\ phase = "draining" /\ cursor < Len(log)
  /\ \E n \in Unread :
       /\ cursor' = n + 1
       /\ replayQ' = replayQ \o SubSeq(log, cursor + 1, n)
       /\ drained' = drained \cup {log[i] : i \in (cursor + 1) .. n}
  /\ UNCHANGED <<log, hot, synced, stage, gate, counters, phase, crashes, outages>>

\* One batch of drain(): the cursor moves before any record is applied.
DrainBatch ==
  /\ phase = "draining" /\ cursor < Len(log)
  /\ \E n \in Unread :
       /\ cursor' = n
       /\ replayQ' = replayQ \o SubSeq(log, cursor + 1, n)
       /\ drained' = drained \cup {log[i] : i \in (cursor + 1) .. n}
  /\ UNCHANGED <<log, hot, synced, stage, gate, counters, phase, crashes, outages>>

\* drain() reaches the end of the log and returns the records.
DrainDone ==
  /\ phase = "draining" /\ cursor = Len(log)
  /\ phase' = "replaying"
  /\ UNCHANGED <<durable, stage, gate, counters, replayQ, drained, crashes, outages>>

\* replay() applies the next record, with Buffer as on the write path.
ReplayOne ==
  /\ phase = "replaying" /\ replayQ # <<>>
  /\ hot' = hot \cup {BatchOf[Head(replayQ)]}
  /\ replayQ' = Tail(replayQ)
  /\ UNCHANGED <<log, cursor, synced, stage, gate, counters, phase, drained, crashes, outages>>

\* replay() is done and the server opens its ports.
Serve ==
  /\ phase = "replaying" /\ replayQ = <<>>
  /\ phase' = "serving"
  /\ UNCHANGED <<durable, stage, gate, counters, replayQ, drained, crashes, outages>>

-----------------------------------------------------------------------------

Insert(c) ==
  \/ Begin(c) \/ WriteLocal(c) \/ WriteLocalFails(c) \/ Ship(c)
  \/ Apply(c) \/ ApplyFails(c) \/ MarkApplied(c)

Checkpoint(a) ==
  \/ TakeGate(a) \/ Quiesced(a) \/ QuiesceTimeout(a) \/ FlushProjection(a)
  \/ ConsumeBatch(a) \/ FinishCheckpoint(a) \/ CheckpointFails(a)

Replay == Open \/ DrainBatch \/ DrainDone \/ ReplayOne \/ Serve

Next ==
  \/ \E c \in Calls : Insert(c)
  \/ \E a \in Actors : Checkpoint(a)
  \/ Flush
  \/ Crash \/ PowerLoss
  \/ Replay

Spec == Init /\ [][Next]_vars

\* Threads that hold no lock another waits for keep running, and a supervisor
\* restarts the process.  Nothing is assumed of callers or of failures.
Fairness ==
  /\ \A c \in Calls :
       /\ WF_vars(WriteLocal(c)) /\ WF_vars(Ship(c))
       /\ WF_vars(Apply(c)) /\ WF_vars(MarkApplied(c))
  /\ \A a \in Actors :
       /\ WF_vars(TakeGate(a)) /\ WF_vars(Quiesced(a)) /\ WF_vars(QuiesceTimeout(a))
       /\ WF_vars(FlushProjection(a)) /\ WF_vars(ConsumeBatch(a))
       /\ WF_vars(FinishCheckpoint(a))
  /\ WF_vars(Replay)

FairSpec == Spec /\ Fairness
-----------------------------------------------------------------------------
(* Properties.                                                             *)

TypeOK ==
  /\ log \in Seq(Calls)
  /\ cursor \in 0 .. Len(log)
  /\ hot \subseteq Batches /\ synced \subseteq Batches
  /\ stage \in [Actors -> Stages]
  /\ gate \in Actors \cup {Free}
  /\ inFlight \in Nat /\ applied \in Nat
  /\ phase \in {"down", "draining", "replaying", "serving"}
  /\ replayQ \in Seq(Calls)
  /\ drained \subseteq Calls
  /\ crashes \in Nat /\ outages \in Nat

\* Whatever the cursor has passed while the store was serving is behind an
\* fsync of the hot tier, across any crash and any power loss since: the claim
\* of wal.rs that checkpointing is exact.  (A start-up drain moves the cursor
\* too; the entries it passed are in `drained`.)
CheckpointConsumesDurable ==
  \A i \in Consumed : BatchOf[log[i]] \in synced \/ log[i] \in drained

\* A record that is appended but not yet applied, or that is stranded for good
\* because its replication or its apply failed, is never consumed: the wait on
\* in_flight in checkpoint() is the correctness argument of wal.rs.
InFlightNeverConsumed ==
  \A i \in Consumed : log[i] \notin Outstanding

\* The early return of checkpoint() on applied = 0 never leaves a record
\* behind: when nothing is counted as applied, every unread entry still has its
\* ticket out, so none of them could have been consumed.
NothingLeftBehind ==
  Serving /\ applied = 0 => \A i \in Unread : log[i] \in Outstanding

\* The only way for an acknowledged batch to be missing from a serving store is
\* that a start-up replay had consumed it: neither the death of the process nor
\* a power loss on the write path or within a checkpoint can lose one.
OnlyReplayLoses ==
  Serving => \A c \in Calls :
               stage[c] = "ok" => BatchOf[c] \in hot \/ c \in drained

\* Every batch the clients were promised is served, whatever failed before:
\* "Durability is already guaranteed by the per-write WAL fsync" (lib.rs).
AcknowledgedIsServed ==
  Serving => \A c \in Calls : stage[c] = "ok" => BatchOf[c] \in hot

\* Once all calls have returned, a store none of whose writes were stranded and
\* none of whose checkpoints failed owes no checkpoint: at most Interval - 1
\* entries wait for a replay, whoever tripped the interval and however the
\* due checkpoints raced or timed out.
ReplayIsBounded ==
  LET quiet == \A a \in Actors : stage[a] \in {"idle", "ok", "cut"}
  IN  Serving /\ quiet => Cardinality(Unread) < Interval

\* No write waits for ever, not even behind a stranded ticket that no checkpoint
\* can wait out: every call that has begun returns, or dies with its process.
EveryCallReturns ==
  \A c \in Calls :
    stage[c] \notin Settled ~> stage[c] \in Settled \cup {"stranded"}
=============================================================================
