--------------------------- MODULE WalLog_proofs ---------------------------
(***************************************************************************)
(* Theorems about WalLog, for any number of calls, any batches, any         *)
(* checkpoint interval, any replication factor and any number of crashes   *)
(* and power losses; and that it implements DurableStore, unless a failure *)
(* takes what a start-up replay has consumed.                              *)
(***************************************************************************)
EXTENDS WalLogRefines, FiniteSetTheorems, TLAPS

\* The in-flight count is the number of tickets that are out.
TicketsCounted ==
  /\ IsFiniteSet(Outstanding)
  /\ inFlight = Cardinality(Outstanding)

\* A call appends at most once, and only calls that have begun are in the log.
LogOfBegun == \A i \in 1 .. Len(log) : stage[log[i]] \notin {"idle", "gated"}

\* A call that holds a ticket, or has redeemed one and may still be
\* acknowledged, has its entry in the log.
LoggedStages == TicketStages \cup GateStages \cup {"due", "ok"}
AckedIsLogged ==
  \A c \in Calls : stage[c] \in LoggedStages => \E i \in 1 .. Len(log) : log[i] = c

\* A call past apply_* has its batch in the hot tier.
AppliedIsHot == \A c \in Calls : stage[c] = "applied" => BatchOf[c] \in hot

\* While the store serves, an unread entry without a ticket has been applied.
UnreadIsApplied ==
  Serving => \A i \in Unread : log[i] \in Outstanding \/ BatchOf[log[i]] \in hot

\* A checkpoint at work holds the gate, and past its wait nothing is in flight.
GateHeld ==
  \A a \in Actors :
    /\ stage[a] \in GateStages => gate = a
    /\ stage[a] \in {"flushing", "advancing"} => inFlight = 0

\* Past the flush, everything the cursor may still pass is durable.
FlushedBeforeAdvance ==
  \A a \in Actors : stage[a] = "advancing" =>
    \A i \in Unread : BatchOf[log[i]] \in synced

\* No actor is at work unless the process is serving, and a replay begins
\* with everything consumed.
AtRestWhenDown ==
  /\ ~Serving => \A a \in Actors : stage[a] \in Settled
  /\ phase = "replaying" => cursor = Len(log)

IInv ==
  /\ TypeOK
  /\ synced \subseteq hot
  /\ TicketsCounted
  /\ LogOfBegun
  /\ AckedIsLogged
  /\ AppliedIsHot
  /\ UnreadIsApplied
  /\ GateHeld
  /\ FlushedBeforeAdvance
  /\ AtRestWhenDown
  /\ CheckpointConsumesDurable
  /\ InFlightNeverConsumed
  /\ NothingLeftBehind

-----------------------------------------------------------------------------
(* How a step of one actor changes the set of tickets. *)

\* A step that moves no actor in or out of the ticket stages keeps the count.
LEMMA TicketsKept ==
  ASSUME NEW a \in Actors, NEW s \in Stages, TypeOK, To(a, s),
         a \in Calls => (stage[a] \in TicketStages <=> s \in TicketStages)
  PROVE  Outstanding' = Outstanding
BY DEF Outstanding, To, TypeOK, Actors

\* An append adds its own ticket to the count.
LEMMA TicketIssued ==
  ASSUME NEW c \in Calls, NEW s \in TicketStages, TypeOK, TicketsCounted,
         stage[c] \notin TicketStages, To(c, s), inFlight' = inFlight + 1
  PROVE  TicketsCounted'
<1>1. Outstanding' = Outstanding \cup {c} /\ c \notin Outstanding
  BY DEF Outstanding, To, TypeOK, Actors
<1> QED BY <1>1, FS_AddElement DEF TicketsCounted

\* mark_applied takes its own ticket out of the count.
LEMMA TicketRedeemed ==
  ASSUME NEW c \in Calls, NEW s \in Stages \ TicketStages, TypeOK, TicketsCounted,
         stage[c] \in TicketStages, To(c, s), inFlight' = inFlight - 1
  PROVE  TicketsCounted' /\ inFlight > 0 /\ inFlight' \in Nat
<1>1. Outstanding' = Outstanding \ {c} /\ c \in Outstanding
  BY DEF Outstanding, To, TypeOK, Actors
<1>2. IsFiniteSet(Outstanding') /\ Cardinality(Outstanding') = Cardinality(Outstanding) - 1
  BY <1>1, FS_RemoveElement DEF TicketsCounted
<1>3. inFlight > 0
  BY <1>1, FS_EmptySet, FS_CardinalityType DEF TicketsCounted, TypeOK
<1> QED BY <1>2, <1>3 DEF TicketsCounted, TypeOK

\* Nothing in flight means that no ticket is out.
LEMMA NoTickets ==
  ASSUME TypeOK, TicketsCounted, inFlight = 0
  PROVE  Outstanding = {}
BY FS_EmptySet DEF TicketsCounted

-----------------------------------------------------------------------------
(* Every step preserves the inductive invariant: the write path. *)

\* The append: a new unread entry with its ticket out.
LEMMA WriteLocalInv ==
  ASSUME WalAssumption, IInv, NEW c \in Calls, WriteLocal(c)
  PROVE  IInv'
<1> USE DEF IInv, WriteLocal, To, durable, counters, startup
<1>0. Appended(c) \in TicketStages \cap LoggedStages
  BY DEF Appended, TicketStages, LoggedStages
<1>1. TypeOK' /\ (synced \subseteq hot)'
  BY <1>0 DEF TypeOK, Actors, Stages
<1>2. TicketsCounted'
  BY <1>0, TicketIssued DEF TicketStages, To
<1>3. /\ Len(log') = Len(log) + 1
      /\ log'[Len(log')] = c
      /\ \A i \in 1 .. Len(log) : log'[i] = log[i]
  BY DEF TypeOK
<1>4. /\ stage'[c] \in {"appended", "shipped"} /\ stage[c] = "gated"
      /\ \A a \in Actors : a # c => stage'[a] = stage[a]
  BY DEF Appended, TypeOK, Actors
<1>5. \A i \in 1 .. Len(log) : log[i] \in Calls /\ log[i] # c
  BY <1>4 DEF LogOfBegun, TypeOK
<1>6. Outstanding' = Outstanding \cup {c}
  BY <1>4 DEF Outstanding, TicketStages, Actors, TypeOK
<1>7. LogOfBegun' /\ AckedIsLogged' /\ AppliedIsHot'
  BY <1>3, <1>4, <1>5 DEF LogOfBegun, AckedIsLogged, LoggedStages, AppliedIsHot, TypeOK, Actors,
     TicketStages, GateStages
<1>8. UnreadIsApplied' /\ NothingLeftBehind'
  BY <1>3, <1>5, <1>6 DEF UnreadIsApplied, NothingLeftBehind, Unread, Serving, TypeOK
<1>9. GateHeld' /\ FlushedBeforeAdvance' /\ AtRestWhenDown'
  BY <1>4 DEF GateHeld, FlushedBeforeAdvance, AtRestWhenDown, GateStages, Actors, Settled,
     WalAssumption, Serving
<1>10. Consumed' = Consumed /\ \A i \in Consumed : log'[i] = log[i] /\ i \in 1 .. Len(log)
  BY <1>3 DEF Consumed, TypeOK
<1>11. CheckpointConsumesDurable'
  BY <1>10 DEF CheckpointConsumesDurable
<1>12. InFlightNeverConsumed'
  BY <1>5, <1>6, <1>10 DEF InFlightNeverConsumed
<1> QED BY <1>1, <1>2, <1>7, <1>8, <1>9, <1>11, <1>12

\* A step of one actor that moves neither the log nor the hot tier, issues and
\* redeems no ticket, and respects the gate.
LEMMA StageStep ==
  ASSUME IInv, Serving, NEW a \in Actors, NEW s \in Stages, To(a, s),
         UNCHANGED <<durable, counters, startup>>,
         a \in Calls => (stage[a] \in TicketStages <=> s \in TicketStages),
         s \in LoggedStages => stage[a] \in LoggedStages \/ a = Flusher,
         s = "gated" => stage[a] = "idle",
         s \notin {"idle", "applied", "advancing"},
         gate' \in Actors \cup {Free},
         GateHeld'
  PROVE  IInv'
<1> USE DEF IInv, durable, counters, startup
<1>1. TypeOK' /\ (synced \subseteq hot)'
  BY DEF TypeOK, To
<1>2. Outstanding' = Outstanding
  BY TicketsKept
<1>3. stage'[a] = s /\ \A b \in Actors : b # a => stage'[b] = stage[b]
  BY DEF TypeOK, To
<1>4. \A i \in 1 .. Len(log) : log[i] \in Actors
  BY DEF TypeOK, Actors
<1>5. LogOfBegun'
  BY <1>3, <1>4 DEF LogOfBegun
<1>6. AckedIsLogged' /\ AppliedIsHot'
  BY <1>3, WalAssumption DEF AckedIsLogged, AppliedIsHot, Actors
<1>7. TicketsCounted' /\ UnreadIsApplied' /\ NothingLeftBehind' /\ InFlightNeverConsumed'
  BY <1>2 DEF TicketsCounted, UnreadIsApplied, NothingLeftBehind, InFlightNeverConsumed,
     Serving, Unread, Consumed
<1>8. FlushedBeforeAdvance' /\ AtRestWhenDown' /\ CheckpointConsumesDurable'
  BY <1>3 DEF FlushedBeforeAdvance, AtRestWhenDown, CheckpointConsumesDurable, Serving, Unread,
     Consumed
<1> QED BY <1>1, <1>5, <1>6, <1>7, <1>8

\* An actor that is not settled is at work in a serving process.
LEMMA WorkIsServing ==
  ASSUME IInv, NEW a \in Actors, stage[a] \notin Settled
  PROVE  Serving
BY DEF IInv, AtRestWhenDown

\* The steps of a call that leave the log, the hot tier and the counters.
LEMMA InsertStageInv ==
  ASSUME IInv, NEW c \in Calls, Begin(c) \/ WriteLocalFails(c) \/ Ship(c)
  PROVE  IInv'
<1> USE DEF To
<1>1. CASE Begin(c)
  <2>1. GateHeld'
    BY <1>1 DEF Begin, IInv, GateHeld, TypeOK, GateStages, Actors, counters
  <2> QED BY <1>1, <2>1, StageStep DEF Begin, IInv, TypeOK, Actors, Stages, TicketStages,
          LoggedStages, GateStages
<1>2. CASE WriteLocalFails(c)
  <2>1. GateHeld'
    BY <1>2 DEF WriteLocalFails, IInv, GateHeld, TypeOK, GateStages, Actors, counters
  <2>2. Serving
    BY <1>2, WorkIsServing DEF WriteLocalFails, Actors, Settled
  <2> QED BY <1>2, <2>1, <2>2, StageStep DEF WriteLocalFails, IInv, TypeOK, Actors, Stages,
          TicketStages, LoggedStages, GateStages, Settled
<1>3. CASE Ship(c)
  <2>1. PICK s \in {"stranded", "shipped"} : To(c, s)
    BY <1>3 DEF Ship
  <2>2. GateHeld'
    BY <1>3, <2>1 DEF Ship, IInv, GateHeld, TypeOK, GateStages, Actors, counters
  <2>3. Serving
    BY <1>3, WorkIsServing DEF Ship, Actors, Settled
  <2> QED BY <1>3, <2>1, <2>2, <2>3, StageStep DEF Ship, IInv, TypeOK, Actors, Stages,
          TicketStages, LoggedStages, GateStages
<1> QED BY <1>1, <1>2, <1>3

\* apply_*, successful or not, only adds the call's batch to the hot tier.
LEMMA ApplyInv ==
  ASSUME IInv, NEW c \in Calls, Apply(c) \/ ApplyFails(c)
  PROVE  IInv'
<1> USE DEF IInv, durable, counters, startup
<1>1. PICK s \in {"applied", "stranded"} :
        /\ To(c, s)
        /\ s = "applied" => hot' = hot \cup {BatchOf[c]}
  BY DEF Apply, ApplyFails
<1>2. /\ hot \subseteq hot' /\ hot' \subseteq hot \cup {BatchOf[c]}
      /\ UNCHANGED <<log, cursor, synced, gate, counters, startup>>
      /\ stage[c] = "shipped"
  BY DEF Apply, ApplyFails
<1>3. BatchOf[c] \in Batches
  BY WalAssumption
<1>4. stage'[c] = s /\ \A b \in Actors : b # c => stage'[b] = stage[b]
  BY <1>1 DEF To, TypeOK, Actors
<1>5. TypeOK' /\ (synced \subseteq hot)'
  BY <1>1, <1>2, <1>3 DEF TypeOK, To, Stages, TicketStages
<1>6. Outstanding' = Outstanding
  BY <1>1, <1>2, TicketsKept DEF Actors, TicketStages, Stages
<1>7. \A i \in 1 .. Len(log) : log[i] \in Actors
  BY DEF TypeOK, Actors
<1>8. LogOfBegun' /\ AckedIsLogged' /\ AppliedIsHot'
  BY <1>1, <1>2, <1>4, <1>7 DEF LogOfBegun, AckedIsLogged, AppliedIsHot, Actors, LoggedStages,
     TicketStages
<1>9. TicketsCounted' /\ UnreadIsApplied' /\ NothingLeftBehind' /\ InFlightNeverConsumed'
  BY <1>2, <1>6 DEF TicketsCounted, UnreadIsApplied, NothingLeftBehind, InFlightNeverConsumed,
     Serving, Unread, Consumed
<1>10. Serving
  BY <1>2, WorkIsServing DEF Actors, Settled
<1>11. GateHeld' /\ FlushedBeforeAdvance' /\ AtRestWhenDown' /\ CheckpointConsumesDurable'
  BY <1>1, <1>2, <1>4, <1>10 DEF GateHeld, FlushedBeforeAdvance, AtRestWhenDown,
     CheckpointConsumesDurable, Serving, Unread, Consumed, GateStages
<1> QED BY <1>5, <1>8, <1>9, <1>11

\* mark_applied redeems one ticket; the batch behind it is in the hot tier.
LEMMA MarkAppliedInv ==
  ASSUME IInv, NEW c \in Calls, MarkApplied(c)
  PROVE  IInv'
<1> USE DEF IInv, durable, startup
<1>1. PICK s \in {"due", "ok"} : To(c, s)
  BY DEF MarkApplied
<1>2. /\ UNCHANGED <<durable, gate, startup>>
      /\ stage[c] = "applied"
      /\ inFlight' = inFlight - 1 /\ applied' = applied + 1
  BY DEF MarkApplied
<1>3. stage'[c] = s /\ \A b \in Actors : b # c => stage'[b] = stage[b]
  BY <1>1 DEF To, TypeOK, Actors
<1>4. TicketsCounted' /\ inFlight > 0 /\ inFlight' \in Nat
  BY <1>1, <1>2, TicketRedeemed DEF TicketStages, Stages, Settled
<1>5. TypeOK' /\ (synced \subseteq hot)'
  <2>1. stage' \in [Actors -> Stages]
    BY <1>1 DEF TypeOK, To, Stages, Settled
  <2> QED BY <1>2, <1>4, <2>1 DEF TypeOK
<1>6. Outstanding' = Outstanding \ {c}
  BY <1>1, <1>2, <1>3 DEF Outstanding, TicketStages, Actors
<1>7. \A i \in 1 .. Len(log) : log[i] \in Actors
  BY DEF TypeOK, Actors
<1>8. LogOfBegun' /\ AckedIsLogged' /\ AppliedIsHot'
  BY <1>1, <1>2, <1>3, <1>7 DEF LogOfBegun, AckedIsLogged, AppliedIsHot, Actors, LoggedStages,
     TicketStages
<1>9. BatchOf[c] \in hot
  BY <1>2 DEF AppliedIsHot
<1>10. UnreadIsApplied' /\ InFlightNeverConsumed'
  BY <1>2, <1>6, <1>9 DEF UnreadIsApplied, InFlightNeverConsumed, Serving, Unread, Consumed
<1>11. NothingLeftBehind'
  BY <1>2 DEF NothingLeftBehind, TypeOK
<1>12. Serving
  BY <1>2, WorkIsServing DEF Actors, Settled
<1>13. GateHeld' /\ FlushedBeforeAdvance' /\ AtRestWhenDown' /\ CheckpointConsumesDurable'
  BY <1>1, <1>2, <1>3, <1>4, <1>12 DEF GateHeld, FlushedBeforeAdvance, AtRestWhenDown,
     CheckpointConsumesDurable, Serving, Unread, Consumed, GateStages
<1> QED BY <1>4, <1>5, <1>8, <1>10, <1>11, <1>13

-----------------------------------------------------------------------------
(* The checkpoint. *)

\* The steps of a checkpoint that move neither the cursor nor the counts.
LEMMA CheckpointStageInv ==
  ASSUME IInv, NEW a \in Actors,
         TakeGate(a) \/ Quiesced(a) \/ QuiesceTimeout(a) \/ CheckpointFails(a)
  PROVE  IInv'
<1>1. /\ UNCHANGED <<durable, counters, startup>>
      /\ stage[a] \in {"due"} \cup GateStages
      /\ stage[a] = "due" => gate = Free
  BY DEF TakeGate, Quiesced, QuiesceTimeout, CheckpointFails, GateStages
<1>2. PICK s \in {"quiescing", "flushing", "ok", "failed"} :
        /\ To(a, s)
        /\ s = "quiescing" => gate' = a
        /\ s = "flushing" => gate' = gate /\ stage[a] = "quiescing" /\ inFlight = 0
        /\ s \in {"ok", "failed"} => gate' = Free
  BY DEF TakeGate, Quiesced, QuiesceTimeout, CheckpointFails, Return
<1>3. stage'[a] = s /\ \A b \in Actors : b # a => stage'[b] = stage[b]
  BY <1>2 DEF To, TypeOK, IInv
<1>4. \A b \in Actors : b # a => stage[b] \notin GateStages \/ s \in {"flushing", "ok", "failed"}
  BY <1>1, <1>2, WalAssumption DEF IInv, GateHeld, GateStages, Actors, TakeGate, Quiesced,
     QuiesceTimeout, CheckpointFails, Return, To, TypeOK
<1>5. GateHeld'
  BY <1>1, <1>2, <1>3, <1>4, WalAssumption DEF IInv, GateHeld, GateStages, Actors, counters
<1>6. Serving
  BY <1>1, WorkIsServing DEF GateStages, Settled
<1>7. gate' \in Actors \cup {Free}
  BY <1>2 DEF IInv, TypeOK
<1>8. a \in Calls => (stage[a] \in TicketStages <=> s \in TicketStages)
  BY <1>1 DEF TicketStages, GateStages
<1>9. stage[a] \in LoggedStages
  BY <1>1 DEF LoggedStages
<1> QED BY <1>1, <1>2, <1>5, <1>6, <1>7, <1>8, <1>9, StageStep DEF IInv, Stages, GateStages, Settled

\* The flush: once everything in the hot tier is synced, so is every unread
\* entry, since nothing is in flight.
LEMMA FlushProjectionInv ==
  ASSUME IInv, NEW a \in Actors, FlushProjection(a)
  PROVE  IInv'
<1> USE DEF IInv, counters, startup
<1>1. /\ UNCHANGED <<log, cursor, hot, gate, counters, startup>>
      /\ stage[a] = "flushing" /\ synced' = hot /\ To(a, "advancing")
  BY DEF FlushProjection
<1>2. /\ stage'[a] = "advancing"
      /\ \A b \in Actors : b # a => stage'[b] = stage[b]
  BY <1>1 DEF To, TypeOK
<1>3. TypeOK' /\ (synced \subseteq hot)'
  BY <1>1 DEF TypeOK, To, Stages, GateStages
<1>4. Outstanding' = Outstanding
  BY <1>1, TicketsKept DEF TicketStages, Stages, GateStages
<1>5. \A i \in 1 .. Len(log) : log[i] \in Actors
  BY DEF TypeOK, Actors
<1>6. LogOfBegun' /\ AckedIsLogged' /\ AppliedIsHot'
  BY <1>1, <1>2, <1>5 DEF LogOfBegun, AckedIsLogged, AppliedIsHot, Actors, LoggedStages, GateStages
<1>7. TicketsCounted' /\ UnreadIsApplied' /\ NothingLeftBehind' /\ InFlightNeverConsumed'
  BY <1>1, <1>4 DEF TicketsCounted, UnreadIsApplied, NothingLeftBehind, InFlightNeverConsumed,
     Serving, Unread, Consumed
<1>8. Serving
  BY <1>1, WorkIsServing DEF Settled
<1>9. GateHeld' /\ AtRestWhenDown' /\ CheckpointConsumesDurable'
  BY <1>1, <1>2, <1>8 DEF GateHeld, AtRestWhenDown, CheckpointConsumesDurable, Serving, Consumed,
     GateStages
<1>10. inFlight = 0 /\ Outstanding = {}
  BY <1>1, NoTickets DEF GateHeld
<1>11. FlushedBeforeAdvance'
  BY <1>1, <1>8, <1>10 DEF FlushedBeforeAdvance, UnreadIsApplied, Unread
<1> QED BY <1>3, <1>6, <1>7, <1>9, <1>11

\* A batch of the drain passes only synced entries, none of them in flight.
LEMMA ConsumeBatchInv ==
  ASSUME IInv, NEW a \in Actors, ConsumeBatch(a)
  PROVE  IInv'
<1> USE DEF IInv, counters, startup
<1>1. /\ UNCHANGED <<log, hot, synced, stage, gate, counters, startup>>
      /\ stage[a] = "advancing" /\ cursor' \in Unread
  BY DEF ConsumeBatch
<1>2. TypeOK' /\ cursor < cursor' /\ cursor' \in Nat
  BY <1>1 DEF TypeOK, Unread
<1>3. /\ Unread' \subseteq Unread
      /\ \A i \in Consumed' : i \in Consumed \/ i \in Unread
  BY <1>1, <1>2 DEF Unread, Consumed, TypeOK
<1>4. inFlight = 0 /\ Outstanding = {} /\ Outstanding' = {}
  BY <1>1, NoTickets DEF GateHeld, Outstanding
<1>5. TicketsCounted' /\ LogOfBegun' /\ AckedIsLogged' /\ AppliedIsHot' /\ GateHeld'
  BY <1>1 DEF TicketsCounted, Outstanding, LogOfBegun, AckedIsLogged, AppliedIsHot, GateHeld
<1>6. UnreadIsApplied' /\ NothingLeftBehind' /\ FlushedBeforeAdvance'
  BY <1>1, <1>3, <1>4 DEF UnreadIsApplied, NothingLeftBehind, FlushedBeforeAdvance, Serving
<1>7. Serving
  BY <1>1, WorkIsServing DEF Settled
<1>8. AtRestWhenDown'
  BY <1>1, <1>7 DEF AtRestWhenDown, Serving
<1>9. CheckpointConsumesDurable' /\ InFlightNeverConsumed'
  BY <1>1, <1>3, <1>4 DEF CheckpointConsumesDurable, InFlightNeverConsumed, FlushedBeforeAdvance
<1> QED BY <1>1, <1>2, <1>5, <1>6, <1>8, <1>9

\* The end of a checkpoint: nothing is unread, so nothing is owed.
LEMMA FinishCheckpointInv ==
  ASSUME IInv, NEW a \in Actors, FinishCheckpoint(a)
  PROVE  IInv'
<1> USE DEF IInv, durable, startup
<1>1. /\ UNCHANGED <<durable, inFlight, startup>>
      /\ stage[a] = "advancing" /\ cursor = Len(log)
      /\ applied' = 0 /\ gate' = Free /\ To(a, "ok")
  BY DEF FinishCheckpoint, Return
<1>2. /\ stage'[a] = "ok"
      /\ \A b \in Actors : b # a => stage'[b] = stage[b]
  BY <1>1 DEF To, TypeOK
<1>3. TypeOK' /\ (synced \subseteq hot)'
  BY <1>1 DEF TypeOK, To, Stages, Settled
<1>4. Outstanding' = Outstanding
  BY <1>1, TicketsKept DEF TicketStages, Stages, Settled
<1>5. \A i \in 1 .. Len(log) : log[i] \in Actors
  BY DEF TypeOK, Actors
<1>6. LogOfBegun' /\ AckedIsLogged' /\ AppliedIsHot'
  BY <1>1, <1>2, <1>5 DEF LogOfBegun, AckedIsLogged, AppliedIsHot, Actors, LoggedStages, GateStages
<1>7. Unread' = {} /\ Consumed' = Consumed
  BY <1>1 DEF Unread, Consumed, TypeOK
<1>8. /\ TicketsCounted' /\ UnreadIsApplied' /\ NothingLeftBehind' /\ InFlightNeverConsumed'
      /\ FlushedBeforeAdvance' /\ CheckpointConsumesDurable'
  BY <1>1, <1>4, <1>7 DEF TicketsCounted, UnreadIsApplied, NothingLeftBehind,
     InFlightNeverConsumed, FlushedBeforeAdvance, CheckpointConsumesDurable
<1>9. Serving
  BY <1>1, WorkIsServing DEF Settled
<1>10. GateHeld' /\ AtRestWhenDown'
  BY <1>1, <1>2, <1>9, WalAssumption DEF GateHeld, AtRestWhenDown, Serving, GateStages, Actors
<1> QED BY <1>3, <1>6, <1>8, <1>10

-----------------------------------------------------------------------------
(* Failures and the start-up replay. *)

\* The death of the process: every actor settles, and what the cursor has
\* passed is still synced.
LEMMA DieInv ==
  ASSUME IInv, Crash \/ PowerLoss
  PROVE  IInv'
<1> USE DEF IInv
<1>1. /\ UNCHANGED <<log, cursor, drained>> /\ phase' = "down" /\ gate' = Free
      /\ inFlight' = 0 /\ applied' = 0 /\ replayQ' = <<>> /\ stage' = Aftermath
  BY DEF Crash, PowerLoss, Die
<1>2. /\ synced \subseteq synced' /\ synced' \subseteq hot' /\ hot' \subseteq hot
      /\ crashes' \in Nat /\ outages' \in Nat
  BY DEF Crash, PowerLoss, TypeOK
<1>3. /\ \A b \in Actors : stage'[b] \in Settled
      /\ \A c \in Calls : stage'[c] \notin {"idle", "gated"} \/ stage[c] \in {"idle", "gated"}
      /\ \A c \in Calls : stage'[c] = "ok" => stage[c] = "ok"
      /\ stage' \in [Actors -> Stages]
  BY <1>1, WalAssumption DEF Aftermath, Settled, Actors, Stages
<1>4. TypeOK'
  BY <1>1, <1>2, <1>3 DEF TypeOK
<1>5. Outstanding' = {}
  BY <1>3 DEF Outstanding, Actors, TicketStages, Settled
<1>6. TicketsCounted'
  BY <1>1, <1>5, FS_EmptySet DEF TicketsCounted
<1>7. \A i \in 1 .. Len(log) : log[i] \in Calls
  BY DEF TypeOK
<1>8. LogOfBegun' /\ AckedIsLogged' /\ AppliedIsHot'
  BY <1>1, <1>3, <1>7 DEF LogOfBegun, AckedIsLogged, AppliedIsHot, Actors, Settled, LoggedStages,
     GateStages, TicketStages
<1>9. UnreadIsApplied' /\ NothingLeftBehind' /\ AtRestWhenDown'
  BY <1>1, <1>3 DEF UnreadIsApplied, NothingLeftBehind, AtRestWhenDown, Serving
<1>10. GateHeld' /\ FlushedBeforeAdvance'
  BY <1>3 DEF GateHeld, FlushedBeforeAdvance, GateStages, Settled
<1>11. CheckpointConsumesDurable' /\ InFlightNeverConsumed'
  BY <1>1, <1>2, <1>5 DEF CheckpointConsumesDurable, InFlightNeverConsumed, Consumed
<1> QED BY <1>2, <1>4, <1>6, <1>8, <1>9, <1>10, <1>11

\* The steps of the start-up that leave the log, its cursor and the actors.
LEMMA ReplayInv ==
  ASSUME IInv, Open \/ DrainDone \/ ReplayOne \/ Serve
  PROVE  IInv'
<1> USE DEF IInv, durable, counters
<1>1. /\ UNCHANGED <<log, cursor, synced, stage, gate, counters, drained, crashes, outages>>
      /\ ~Serving
      /\ hot \subseteq hot'
  BY DEF Open, DrainDone, ReplayOne, Serve, Serving
<1>2. hot' \subseteq Batches
  <2>1. CASE ReplayOne
    <3>1. Head(replayQ) \in Calls
      BY <2>1 DEF ReplayOne, TypeOK
    <3> QED BY <2>1, <3>1, WalAssumption DEF ReplayOne, TypeOK
  <2> QED BY <2>1 DEF Open, DrainDone, Serve, TypeOK
<1>3. replayQ' \in Seq(Calls)
  <2>1. CASE ReplayOne
    BY <2>1 DEF ReplayOne, TypeOK
  <2>2. CASE Open \/ DrainDone \/ Serve
    BY <2>2 DEF Open, DrainDone, Serve, TypeOK
  <2> QED BY <2>1, <2>2
<1>4. /\ phase' \in {"down", "draining", "replaying", "serving"}
      /\ phase' \in {"replaying", "serving"} => cursor = Len(log)
  BY DEF Open, DrainDone, ReplayOne, Serve, TypeOK, AtRestWhenDown
<1>5. TypeOK' /\ (synced \subseteq hot)'
  BY <1>1, <1>2, <1>3, <1>4 DEF TypeOK
<1>6. Outstanding' = Outstanding /\ Unread' = Unread /\ Consumed' = Consumed
  BY <1>1 DEF Outstanding, Unread, Consumed
<1>7. TicketsCounted' /\ LogOfBegun' /\ AckedIsLogged' /\ AppliedIsHot' /\ GateHeld'
  BY <1>1, <1>6 DEF TicketsCounted, LogOfBegun, AckedIsLogged, AppliedIsHot, GateHeld
<1>8. FlushedBeforeAdvance' /\ CheckpointConsumesDurable' /\ InFlightNeverConsumed'
  BY <1>1, <1>6 DEF FlushedBeforeAdvance, CheckpointConsumesDurable, InFlightNeverConsumed
<1>9. Serving' => Unread' = {}
  BY <1>1, <1>4, <1>6 DEF Serving, Unread, TypeOK
<1>10. UnreadIsApplied' /\ NothingLeftBehind'
  BY <1>9 DEF UnreadIsApplied, NothingLeftBehind
<1>11. AtRestWhenDown'
  BY <1>1, <1>4 DEF AtRestWhenDown
<1> QED BY <1>5, <1>7, <1>8, <1>10, <1>11

\* A batch of the start-up drain: what it passes is recorded in drained.
LEMMA DrainBatchInv ==
  ASSUME IInv, DrainBatch
  PROVE  IInv'
<1> USE DEF IInv, counters
<1>1. PICK n \in Unread :
        /\ cursor' = n
        /\ replayQ' = replayQ \o SubSeq(log, cursor + 1, n)
        /\ drained' = drained \cup {log[i] : i \in (cursor + 1) .. n}
  BY DEF DrainBatch
<1>2. /\ UNCHANGED <<log, hot, synced, stage, gate, counters, phase, crashes, outages>>
      /\ phase = "draining" /\ ~Serving
  BY DEF DrainBatch, Serving
<1>3. n \in Nat /\ cursor < n /\ n <= Len(log)
  BY DEF Unread, TypeOK
<1>4. \A i \in 1 .. Len(log) : log[i] \in Calls
  BY DEF TypeOK
<1>5. SubSeq(log, cursor + 1, n) \in Seq(Calls)
  BY <1>3, <1>4 DEF TypeOK
<1>6. drained' \subseteq Calls
  BY <1>1, <1>3, <1>4 DEF TypeOK
<1>7. TypeOK' /\ (synced \subseteq hot)'
  BY <1>1, <1>2, <1>3, <1>5, <1>6 DEF TypeOK
<1>8. Outstanding' = Outstanding /\ Outstanding = {}
  BY <1>2 DEF Outstanding, AtRestWhenDown, Actors, TicketStages, Settled
<1>9. TicketsCounted' /\ LogOfBegun' /\ AckedIsLogged' /\ AppliedIsHot' /\ GateHeld'
  BY <1>2, <1>8 DEF TicketsCounted, LogOfBegun, AckedIsLogged, AppliedIsHot, GateHeld
<1>10. UnreadIsApplied' /\ NothingLeftBehind' /\ AtRestWhenDown' /\ FlushedBeforeAdvance'
  BY <1>2 DEF UnreadIsApplied, NothingLeftBehind, AtRestWhenDown, FlushedBeforeAdvance, Serving,
     Settled
<1>11. \A i \in Consumed' : i \in Consumed \/ log[i] \in drained'
  BY <1>1, <1>3 DEF Consumed, TypeOK
<1>12. CheckpointConsumesDurable' /\ InFlightNeverConsumed'
  BY <1>1, <1>2, <1>8, <1>11 DEF CheckpointConsumesDurable, InFlightNeverConsumed
<1> QED BY <1>7, <1>9, <1>10, <1>12

-----------------------------------------------------------------------------
(* The theorems. *)

\* An empty engine satisfies the invariant.
LEMMA InitInv == Init => IInv
<1> SUFFICES ASSUME Init PROVE IInv
  OBVIOUS
<1> USE WalAssumption DEF Init
<1>1. TypeOK
  BY DEF TypeOK, Stages, Settled
<1>2. Outstanding = {}
  BY DEF Outstanding, TicketStages, Actors
<1>3. TicketsCounted
  BY <1>2, FS_EmptySet DEF TicketsCounted
<1>4. Unread = {} /\ Consumed = {} /\ Len(log) = 0
  BY DEF Unread, Consumed
<1>5. LogOfBegun /\ AckedIsLogged /\ AppliedIsHot /\ UnreadIsApplied
  BY <1>4 DEF LogOfBegun, AckedIsLogged, AppliedIsHot, UnreadIsApplied, Actors, LoggedStages,
     GateStages, TicketStages
<1>6. GateHeld /\ FlushedBeforeAdvance /\ AtRestWhenDown
  BY DEF GateHeld, FlushedBeforeAdvance, AtRestWhenDown, GateStages, Settled, Serving
<1>7. CheckpointConsumesDurable /\ InFlightNeverConsumed /\ NothingLeftBehind
  BY <1>4 DEF CheckpointConsumesDurable, InFlightNeverConsumed, NothingLeftBehind
<1> QED BY <1>1, <1>3, <1>5, <1>6, <1>7 DEF IInv

\* Every step keeps the invariant.
LEMMA StepInv == IInv /\ [Next]_vars => IInv'
<1> SUFFICES ASSUME IInv, [Next]_vars PROVE IInv'
  OBVIOUS
<1>1. ASSUME NEW c \in Calls, Insert(c) PROVE IInv'
  BY <1>1, InsertStageInv, WriteLocalInv, ApplyInv, MarkAppliedInv, WalAssumption DEF Insert
<1>2. ASSUME NEW a \in Actors, Checkpoint(a) PROVE IInv'
  BY <1>2, CheckpointStageInv, FlushProjectionInv, ConsumeBatchInv, FinishCheckpointInv
     DEF Checkpoint
<1>3. CASE Flush
  <2>1. GateHeld'
    BY <1>3 DEF Flush, IInv, GateHeld, TypeOK, GateStages, Actors, counters, To
  <2> QED BY <1>3, <2>1, StageStep, WalAssumption DEF Flush, IInv, TypeOK, Actors, Stages,
          TicketStages
<1>4. CASE Crash \/ PowerLoss
  BY <1>4, DieInv
<1>5. CASE Replay
  BY <1>5, ReplayInv, DrainBatchInv DEF Replay
<1>6. CASE UNCHANGED vars
  BY <1>6 DEF vars, IInv, TypeOK, TicketsCounted, Outstanding, LogOfBegun, AckedIsLogged,
     AppliedIsHot, UnreadIsApplied, GateHeld, FlushedBeforeAdvance, AtRestWhenDown,
     CheckpointConsumesDurable, InFlightNeverConsumed, NothingLeftBehind, Serving, Unread, Consumed
<1> QED BY <1>1, <1>2, <1>3, <1>4, <1>5, <1>6 DEF Next

\* The inductive invariant holds in every reachable state.
THEOREM Invariance == Spec => []IInv
BY InitInv, StepInv, PTL DEF Spec

\* Every variable of the engine keeps its type: in particular the cursor never
\* runs past the end of the log and the in-flight count never goes below zero.
THEOREM TypeCorrect == Spec => []TypeOK
<1>1. IInv => TypeOK
  BY DEF IInv
<1> QED BY <1>1, Invariance, PTL

\* checkpoint() is exact: what it consumes is durable in the hot tier.
THEOREM CheckpointExact == Spec => []CheckpointConsumesDurable
<1>1. IInv => CheckpointConsumesDurable
  BY DEF IInv
<1> QED BY <1>1, Invariance, PTL

\* No record is consumed while its ticket is out.
THEOREM InFlightSafe == Spec => []InFlightNeverConsumed
<1>1. IInv => InFlightNeverConsumed
  BY DEF IInv
<1> QED BY <1>1, Invariance, PTL

\* The early return on applied = 0 skips no record.
THEOREM EarlyReturnSafe == Spec => []NothingLeftBehind
<1>1. IInv => NothingLeftBehind
  BY DEF IInv
<1> QED BY <1>1, Invariance, PTL

\* An acknowledged batch is served, unless a start-up replay consumed it.
THEOREM LossOnlyInReplay == Spec => []OnlyReplayLoses
<1>1. IInv => OnlyReplayLoses
  <2> SUFFICES ASSUME IInv, Serving, NEW c \in Calls, stage[c] = "ok", c \notin drained
               PROVE  BatchOf[c] \in hot
    BY DEF OnlyReplayLoses
  <2>1. PICK i \in 1 .. Len(log) : log[i] = c
    BY DEF IInv, AckedIsLogged, LoggedStages
  <2>2. CASE i \in Consumed
    BY <2>1, <2>2 DEF IInv, CheckpointConsumesDurable
  <2>3. CASE i \in Unread
    <3>1. c \notin Outstanding
      BY DEF Outstanding, TicketStages
    <3> QED BY <2>1, <2>3, <3>1 DEF IInv, UnreadIsApplied
  <2> QED BY <2>2, <2>3 DEF Consumed, Unread, IInv, TypeOK
<1> QED BY <1>1, Invariance, PTL

-----------------------------------------------------------------------------
(* How much a replay may have to do.                                       *)

\* While the store serves, an unread entry is in flight or counted as applied.
UnreadCounted == IF Serving THEN Len(log) - cursor <= applied + inFlight ELSE applied = 0

\* A due checkpoint is run, has failed, or waits for a ticket whose holder will be due.
DueStages == GateStages \cup {"due", "failed"}
DueIsPending ==
  Serving /\ applied >= Interval =>
    Outstanding # {} \/ \E a \in Actors : stage[a] \in DueStages

BoundInv == UnreadCounted /\ DueIsPending

\* Starting with an empty log, nothing is unread.
LEMMA InitBound == Init => BoundInv
BY WalAssumption DEF Init, BoundInv, UnreadCounted, DueIsPending

\* Steps of a call.
LEMMA InsertBound ==
  ASSUME IInv, BoundInv, NEW c \in Calls, Insert(c)
  PROVE  BoundInv'
<1> USE WalAssumption DEF IInv, TypeOK, BoundInv, UnreadCounted, DueIsPending
<1>1. Serving /\ Serving'
  <2>1. stage[c] \notin Settled => Serving
    BY WorkIsServing DEF Actors
  <2> QED BY <2>1 DEF Insert, Begin, WriteLocal, WriteLocalFails, Ship, Apply, ApplyFails, MarkApplied,
          startup, Serving, Settled
<1>2. /\ \A a \in Actors : a # c => stage'[a] = stage[a]
      /\ stage[c] \notin DueStages /\ c \in Actors
  BY DEF Insert, Begin, WriteLocal, WriteLocalFails, Ship, Apply, ApplyFails, MarkApplied, To, Actors,
     DueStages, GateStages
<1>3. CASE WriteLocal(c)
  <2>1. stage'[c] \in TicketStages
    BY <1>3 DEF WriteLocal, To, Appended, TicketStages, Actors
  <2>2. Outstanding' # {}
    BY <2>1 DEF Outstanding
  <2>3. Len(log') = Len(log) + 1 /\ cursor' = cursor /\ applied' = applied /\ inFlight' = inFlight + 1
    BY <1>3 DEF WriteLocal
  <2> QED BY <1>1, <2>2, <2>3
<1>4. CASE MarkApplied(c)
  <2>1. applied' >= Interval => stage'[c] \in DueStages
    BY <1>4 DEF MarkApplied, To, Actors, DueStages
  <2>2. /\ log' = log /\ cursor' = cursor /\ applied' = applied + 1 /\ inFlight' = inFlight - 1
    BY <1>4 DEF MarkApplied, durable
  <2> QED BY <1>1, <1>2, <2>1, <2>2
<1>5. CASE WriteLocalFails(c)
  <2>1. stage'[c] \in DueStages
    BY <1>5 DEF WriteLocalFails, To, Actors, DueStages
  <2>2. UNCHANGED <<log, cursor, applied, inFlight>>
    BY <1>5 DEF WriteLocalFails, durable, counters
  <2> QED BY <1>1, <1>2, <2>1, <2>2
<1>6. CASE Begin(c) \/ Ship(c) \/ Apply(c) \/ ApplyFails(c)
  <2>1. UNCHANGED <<log, cursor, applied, inFlight>>
    BY <1>6 DEF Begin, Ship, Apply, ApplyFails, durable, counters
  <2>2. stage[c] \in TicketStages => stage'[c] \in TicketStages
    BY <1>6 DEF Begin, Ship, Apply, ApplyFails, To, Actors, TicketStages
  <2>3. Outstanding \subseteq Outstanding'
    BY <1>2, <2>2 DEF Outstanding, Actors
  <2> QED BY <1>1, <1>2, <2>1, <2>3
<1> QED BY <1>3, <1>4, <1>5, <1>6 DEF Insert

\* Steps of a checkpoint: the one that finishes leaves nothing, the one that gives up
\* on its wait leaves a ticket.
LEMMA CheckpointBound ==
  ASSUME IInv, BoundInv, NEW a \in Actors, Checkpoint(a)
  PROVE  BoundInv'
<1> USE WalAssumption DEF IInv, TypeOK, BoundInv, UnreadCounted, DueIsPending
<1>1. Serving /\ Serving'
  <2>1. stage[a] \notin Settled
    BY DEF Checkpoint, TakeGate, Quiesced, QuiesceTimeout, FlushProjection, ConsumeBatch,
       FinishCheckpoint, CheckpointFails, Settled
  <2> QED BY <2>1, WorkIsServing DEF Checkpoint, TakeGate, Quiesced, QuiesceTimeout, FlushProjection, ConsumeBatch,
       FinishCheckpoint, CheckpointFails, startup, Serving
<1>2. Outstanding' = Outstanding
  <2>1. /\ \A b \in Actors : b # a => stage'[b] = stage[b]
        /\ stage[a] \notin TicketStages /\ stage'[a] \notin TicketStages
    BY DEF Checkpoint, TakeGate, Quiesced, QuiesceTimeout, FlushProjection, ConsumeBatch,
       FinishCheckpoint, CheckpointFails, To, Return, TicketStages
  <2> QED BY <2>1 DEF Outstanding, Actors
<1>3. CASE Quiesced(a) \/ TakeGate(a) \/ FlushProjection(a) \/ CheckpointFails(a)
  <2>1. UNCHANGED <<log, cursor, applied, inFlight>>
    BY <1>3 DEF Quiesced, TakeGate, FlushProjection, CheckpointFails, durable, counters
  <2>2. applied = 0 \/ stage'[a] \in DueStages
    BY <1>3 DEF Quiesced, TakeGate, FlushProjection, CheckpointFails, To, Return, DueStages, GateStages
  <2> QED BY <1>1, <2>1, <2>2
<1>4. CASE QuiesceTimeout(a)
  <2>1. UNCHANGED <<log, cursor, applied, inFlight>> /\ inFlight > 0
    BY <1>4 DEF QuiesceTimeout, durable, counters
  <2>2. Outstanding # {}
    BY <2>1, FS_EmptySet DEF TicketsCounted
  <2> QED BY <1>1, <1>2, <2>1, <2>2
<1>5. CASE ConsumeBatch(a)
  <2>1. UNCHANGED <<log, applied, inFlight, stage>> /\ cursor' \in Unread
    BY <1>5 DEF ConsumeBatch, counters
  <2> QED BY <1>1, <1>2, <2>1 DEF Unread
<1>6. CASE FinishCheckpoint(a)
  <2>1. UNCHANGED <<log, cursor, inFlight>> /\ applied' = 0 /\ cursor = Len(log)
    BY <1>6 DEF FinishCheckpoint, durable
  <2> QED BY <1>1, <2>1
<1> QED BY <1>3, <1>4, <1>5, <1>6 DEF Checkpoint

\* A process that starts to serve has read its whole log, and one that dies serves nothing.
LEMMA BoundStep == IInv /\ BoundInv /\ [Next]_vars => BoundInv'
<1> SUFFICES ASSUME IInv, BoundInv, [Next]_vars PROVE BoundInv'
  OBVIOUS
<1>1. CASE Flush
  <2>1. UNCHANGED <<log, cursor, applied, inFlight>> /\ Serving
    BY <1>1 DEF Flush, durable, counters
  <2>2. stage'[Flusher] \in DueStages
    BY <1>1 DEF Flush, To, DueStages, IInv, TypeOK, Actors
  <2>3. Serving' /\ Flusher \in Actors
    BY <1>1, <2>1 DEF Flush, startup, Serving, Actors
  <2> QED BY <2>1, <2>2, <2>3 DEF BoundInv, UnreadCounted, DueIsPending
<1>2. CASE Crash \/ PowerLoss
  BY <1>2 DEF Crash, PowerLoss, Die, BoundInv, UnreadCounted, DueIsPending, Serving
<1>3. CASE Open \/ DrainBatch \/ DrainDone \/ ReplayOne
  BY <1>3 DEF Open, DrainBatch, DrainDone, ReplayOne, BoundInv, UnreadCounted, DueIsPending, Serving, counters
<1>4. CASE Serve
  <2>1. UNCHANGED <<log, cursor, applied, inFlight, stage>> /\ cursor = Len(log)
    BY <1>4 DEF Serve, durable, counters, IInv, AtRestWhenDown
  <2>2. applied = 0
    BY <1>4 DEF Serve, BoundInv, UnreadCounted, Serving
  <2> QED BY <2>1, <2>2, WalAssumption DEF BoundInv, UnreadCounted, DueIsPending, IInv, TypeOK
<1>5. CASE UNCHANGED vars
  BY <1>5 DEF vars, BoundInv, UnreadCounted, DueIsPending, Serving, Outstanding
<1>6. CASE (\E c \in Calls : Insert(c)) \/ (\E a \in Actors : Checkpoint(a))
  BY <1>6, InsertBound, CheckpointBound
<1> QED BY <1>1, <1>2, <1>3, <1>4, <1>5, <1>6 DEF Next, Replay

\* Once all calls have returned, with no write stranded and no checkpoint failed, a
\* start-up has fewer than Interval records to apply again.
THEOREM ReplayBounded == Spec => []ReplayIsBounded
<1>1. IInv /\ BoundInv => ReplayIsBounded
  <2> SUFFICES ASSUME IInv, BoundInv, Serving, \A a \in Actors : stage[a] \in {"idle", "ok", "cut"}
               PROVE  Cardinality(Unread) < Interval
    BY DEF ReplayIsBounded
  <2> USE DEF IInv, TypeOK
  <2>1. Outstanding = {} /\ inFlight = 0
    BY FS_EmptySet DEF Outstanding, TicketStages, Actors, TicketsCounted
  <2>2. applied < Interval
    BY <2>1, WalAssumption DEF BoundInv, DueIsPending, DueStages, GateStages
  <2>3. Len(log) - cursor < Interval /\ cursor \in Nat /\ Len(log) \in Nat /\ cursor <= Len(log)
    BY <2>1, <2>2, WalAssumption DEF BoundInv, UnreadCounted
  <2>4. Cardinality(Unread) = Len(log) - cursor
    <3>1. cursor + 1 \in Int /\ Len(log) \in Int
      BY <2>3
    <3>2. Cardinality((cursor + 1) .. Len(log)) =
            IF cursor + 1 > Len(log) THEN 0 ELSE Len(log) - (cursor + 1) + 1
      BY <3>1, FS_Interval
    <3> QED BY <2>3, <3>2 DEF Unread
  <2> QED BY <2>3, <2>4
<1>2. Spec => []BoundInv
  BY InitBound, BoundStep, Invariance, PTL DEF Spec
<1> QED BY <1>1, <1>2, Invariance, PTL

-----------------------------------------------------------------------------
(* The engine implements the abstract store.                               *)

\* No failure takes what a start-up replay has consumed: it meets no replay half-way,
\* and no power loss a row that only a replay applied.
CutsNoReplay == phase' = "down" => \A c \in drained : BatchOf[c] \in hot'

Queued == {BatchOf[replayQ[i]] : i \in DOMAIN replayQ}

\* What a replay has consumed is applied, or it is still to come.
KeptInv ==
  /\ \A c \in drained : BatchOf[c] \in hot \cup Queued
  /\ phase \in {"serving", "down"} => replayQ = <<>>

\* An acknowledged batch is held, and by a serving store it is shown.
LEMMA PromisedIsHeld ==
  ASSUME IInv, KeptInv, NEW c \in Calls, stage[c] \in {"ok", "due"} \cup GateStages
  PROVE  BatchOf[c] \in Held /\ (Serving => BatchOf[c] \in hot)
<1> USE DEF IInv, TypeOK
<1>1. PICK i \in 1 .. Len(log) : log[i] = c
  BY DEF AckedIsLogged, LoggedStages
<1>2. c \notin Outstanding
  BY DEF Outstanding, TicketStages, GateStages
<1>3. CASE i \in Unread
  <2>1. BatchOf[c] \in {BatchOf[log[j]] : j \in Unread}
    BY <1>1, <1>3
  <2> QED BY <1>1, <1>2, <1>3, <2>1 DEF UnreadIsApplied, Held
<1>4. CASE i \in Consumed
  <2>1. BatchOf[c] \in hot \cup Queued
    BY <1>1, <1>4 DEF CheckpointConsumesDurable, KeptInv
  <2>2. Serving => Queued = {}
    BY DEF KeptInv, Serving, Queued
  <2> QED BY <2>1, <2>2 DEF Held, Queued
<1>5. i \in Unread \/ i \in Consumed
  BY DEF Unread, Consumed
<1> QED BY <1>3, <1>4, <1>5

\* A call between its append and its mark has its entry unread.
LEMMA TicketIsHeld ==
  ASSUME IInv, NEW c \in Calls, stage[c] = "shipped"
  PROVE  BatchOf[c] \in Held
<1> USE DEF IInv, TypeOK
<1>1. PICK i \in 1 .. Len(log) : log[i] = c
  BY DEF AckedIsLogged, LoggedStages, TicketStages
<1>2. c \in Outstanding
  BY DEF Outstanding, TicketStages
<1>3. i \in Unread
  BY <1>1, <1>2 DEF InFlightNeverConsumed, Unread, Consumed
<1> QED BY <1>1, <1>3 DEF Held

\* A drained batch of records joins the queue.
LEMMA QueueGrows ==
  ASSUME TypeOK, NEW n \in Unread, replayQ' = replayQ \o SubSeq(log, cursor + 1, n)
  PROVE  Queued' = Queued \cup {BatchOf[log[i]] : i \in (cursor + 1) .. n}
<1> USE DEF TypeOK
<1> DEFINE part == SubSeq(log, cursor + 1, n)
           more == n - cursor
<1>1. /\ cursor \in Nat /\ n \in Nat /\ more \in Nat /\ n = cursor + more
      /\ n \in cursor + 1 .. Len(log) /\ Len(log) \in Nat /\ Len(replayQ) \in Nat
  BY DEF Unread
<1>2. /\ part \in Seq(Calls) /\ Len(part) = more
      /\ \A i \in 1 .. more : part[i] = log[cursor + i]
  BY <1>1
<1>3. replayQ' = replayQ \o part
  OBVIOUS
<1> HIDE DEF part, more
<1>4. /\ DOMAIN replayQ = 1 .. Len(replayQ) /\ DOMAIN replayQ' = 1 .. Len(replayQ) + more
      /\ \A i \in 1 .. Len(replayQ) : replayQ'[i] = replayQ[i]
      /\ \A i \in 1 .. more : replayQ'[Len(replayQ) + i] = part[i]
  BY <1>1, <1>2, <1>3
<1>5. ASSUME NEW i \in 1 .. Len(replayQ) PROVE BatchOf[replayQ[i]] \in Queued'
  <2>1. i \in DOMAIN replayQ'
    BY <1>1, <1>4
  <2> QED BY <1>4, <2>1 DEF Queued
<1>6. ASSUME NEW i \in (cursor + 1) .. n PROVE BatchOf[log[i]] \in Queued'
  <2>1. i - cursor \in 1 .. more /\ cursor + (i - cursor) = i
    BY <1>1
  <2>2. Len(replayQ) + (i - cursor) \in DOMAIN replayQ'
    BY <1>1, <1>4, <2>1
  <2>3. replayQ'[Len(replayQ) + (i - cursor)] = log[i]
    BY <1>2, <1>4, <2>1
  <2> QED BY <2>2, <2>3 DEF Queued
<1>7. ASSUME NEW b \in Queued' PROVE b \in Queued \cup {BatchOf[log[i]] : i \in (cursor + 1) .. n}
  <2>1. PICK k \in DOMAIN replayQ' : b = BatchOf[replayQ'[k]]
    BY <1>7 DEF Queued
  <2>4. k \in Nat /\ 1 <= k /\ k <= Len(replayQ) + more
    BY <1>1, <1>4
  <2>2. CASE k <= Len(replayQ)
    <3>1. k \in 1 .. Len(replayQ)
      BY <1>1, <2>2, <2>4
    <3>2. k \in DOMAIN replayQ /\ replayQ'[k] = replayQ[k]
      BY <1>4, <3>1
    <3> QED BY <2>1, <3>2 DEF Queued
  <2>3. CASE ~(k <= Len(replayQ))
    <3> DEFINE j == k - Len(replayQ)
    <3>1. j \in 1 .. more /\ k = Len(replayQ) + j /\ cursor + j \in (cursor + 1) .. n
      BY <1>1, <2>3, <2>4
    <3> HIDE DEF j
    <3>2. replayQ'[k] = log[cursor + j]
      BY <1>2, <1>4, <3>1
    <3> QED BY <2>1, <3>1, <3>2
  <2> QED BY <2>1, <2>2, <2>3
<1>8. Queued \subseteq Queued'
  <2>1. ASSUME NEW b \in Queued PROVE b \in Queued'
    <3>1. PICK k \in DOMAIN replayQ : b = BatchOf[replayQ[k]]
      BY <2>1 DEF Queued
    <3> QED BY <1>4, <1>5, <3>1
  <2> QED BY <2>1
<1> QED BY <1>6, <1>7, <1>8

\* The next record of the queue goes to the hot tier.
LEMMA QueueShrinks ==
  ASSUME TypeOK, ReplayOne
  PROVE  hot' \cup Queued' = hot \cup Queued
<1> USE DEF TypeOK
<1>1. replayQ # <<>> /\ hot' = hot \cup {BatchOf[Head(replayQ)]} /\ replayQ' = Tail(replayQ)
  BY DEF ReplayOne
<1>2. /\ DOMAIN replayQ = 1 .. Len(replayQ) /\ DOMAIN replayQ' = 1 .. Len(replayQ) - 1
      /\ Len(replayQ) \in Nat \ {0} /\ Head(replayQ) = replayQ[1]
      /\ \A i \in 1 .. Len(replayQ) - 1 : replayQ'[i] = replayQ[i + 1]
  BY <1>1
<1>3. ASSUME NEW i \in 1 .. Len(replayQ) PROVE BatchOf[replayQ[i]] \in hot' \cup Queued'
  <2>1. CASE i = 1
    BY <1>1, <1>2, <2>1
  <2>2. CASE i # 1
    <3>1. i - 1 \in DOMAIN replayQ' /\ replayQ'[i - 1] = replayQ[i]
      BY <1>2, <2>2
    <3> QED BY <3>1 DEF Queued
  <2> QED BY <2>1, <2>2
<1>4. ASSUME NEW i \in DOMAIN replayQ' PROVE BatchOf[replayQ'[i]] \in Queued
  <2>1. i + 1 \in DOMAIN replayQ /\ replayQ'[i] = replayQ[i + 1]
    BY <1>2
  <2> QED BY <2>1 DEF Queued
<1>5. BatchOf[Head(replayQ)] \in Queued
  <2>1. 1 \in DOMAIN replayQ
    BY <1>2
  <2> QED BY <1>2, <2>1 DEF Queued
<1>6. Queued \subseteq hot' \cup Queued' /\ Queued' \subseteq Queued
  BY <1>2, <1>3, <1>4 DEF Queued
<1> QED BY <1>1, <1>5, <1>6

\* What is consumed is moved to the queue and from there to the hot tier.
LEMMA KeptStep ==
  ASSUME IInv, KeptInv, [Next]_vars, [CutsNoReplay]_vars
  PROVE  KeptInv'
<1> USE DEF IInv, TypeOK
<1>1. CASE Crash \/ PowerLoss
  <2>1. phase' = "down" /\ replayQ' = <<>> /\ drained' = drained
    BY <1>1 DEF Crash, PowerLoss, Die
  <2>2. \A c \in drained : BatchOf[c] \in hot'
    <3>1. CASE CutsNoReplay
      BY <2>1, <3>1 DEF CutsNoReplay
    <3>2. CASE UNCHANGED vars
      BY <2>1, <3>2 DEF KeptInv, Queued, vars
    <3> QED BY <3>1, <3>2
  <2> QED BY <2>1, <2>2 DEF KeptInv
<1>2. CASE DrainBatch
  <2>1. PICK n \in Unread :
          /\ replayQ' = replayQ \o SubSeq(log, cursor + 1, n)
          /\ drained' = drained \cup {log[i] : i \in (cursor + 1) .. n}
          /\ hot' = hot /\ phase' = phase /\ phase = "draining"
    BY <1>2 DEF DrainBatch
  <2>2. Queued' = Queued \cup {BatchOf[log[i]] : i \in (cursor + 1) .. n}
    BY <2>1, QueueGrows
  <2> QED BY <2>1, <2>2 DEF KeptInv
<1>3. CASE ReplayOne
  <2>1. drained' = drained /\ phase' = "replaying"
    BY <1>3 DEF ReplayOne
  <2>2. hot' \cup Queued' = hot \cup Queued
    BY <1>3, QueueShrinks
  <2> QED BY <2>1, <2>2 DEF KeptInv
<1>4. CASE UNCHANGED vars \/ Open \/ DrainDone \/ Serve \/ Flush
           \/ (\E c \in Calls : Insert(c)) \/ (\E a \in Actors : Checkpoint(a))
  <2>1. hot \subseteq hot' /\ UNCHANGED <<replayQ, drained>>
        /\ (phase' \in {"serving", "down"} => phase \in {"serving", "down"} \/ replayQ = <<>>)
    BY <1>4 DEF vars, Open, DrainDone, Serve, Flush, Insert, Checkpoint, Begin, WriteLocal, WriteLocalFails,
       Ship, Apply, ApplyFails, MarkApplied, TakeGate, Quiesced, QuiesceTimeout, FlushProjection, ConsumeBatch,
       FinishCheckpoint, CheckpointFails, durable, startup
  <2> QED BY <2>1 DEF KeptInv, Queued
<1> QED BY <1>1, <1>2, <1>3, <1>4 DEF Next, Replay

\* The initial states are initial states of the store.
LEMMA StoreInit == Init => Store!Init
<1> SUFFICES ASSUME Init PROVE Store!Init
  OBVIOUS
<1>1. Held = {}
  BY DEF Init, Held, Unread
<1>2. Promised = {}
  BY DEF Init, Promised, Actors
<1> QED BY <1>1, <1>2 DEF Init, Store!Init, Serving

\* A step after which the store holds, shows and has promised the same.
Stutters == UNCHANGED <<Held, IF Serving THEN hot ELSE {}, Promised, Serving>>

\* Nobody is promised anything by a step that brings no call to its end.
LEMMA PromisesKept ==
  ASSUME TypeOK, \A c \in Calls : stage'[c] = "ok" <=> stage[c] = "ok"
  PROVE  Promised' = Promised
BY DEF Promised

\* A call that returns is acknowledged, and what is acknowledged is shown.
LEMMA ReturnImplements ==
  ASSUME IInv, KeptInv, NEW c \in Calls, stage[c] \in {"due", "applied"} \cup GateStages, To(c, "ok"),
         Serving, UNCHANGED <<durable, startup>>
  PROVE  Store!Next
<1> USE DEF IInv, TypeOK
<1>1. BatchOf[c] \in hot /\ BatchOf[c] \in Batches
  <2>1. CASE stage[c] = "applied"
    BY <2>1, WalAssumption DEF AppliedIsHot
  <2>2. CASE stage[c] # "applied"
    BY <2>2, PromisedIsHeld, WalAssumption
  <2> QED BY <2>1, <2>2
<1>2. UNCHANGED <<Held, IF Serving THEN hot ELSE {}, Serving>>
  BY DEF Held, Unread, Serving, durable, startup
<1>3. Promised' = Promised \cup {BatchOf[c]}
  <2>1. stage'[c] = "ok" /\ \A d \in Calls : d # c => stage'[d] = stage[d]
    BY DEF To, Actors
  <2> QED BY <2>1 DEF Promised
<1> QED BY <1>1, <1>2, <1>3 DEF Store!Next, Store!Acknowledge

\* Steps of a call.
LEMMA InsertImplements ==
  ASSUME IInv, KeptInv, NEW c \in Calls, Insert(c)
  PROVE  Store!Next \/ Stutters
<1> USE DEF IInv, TypeOK
<1>1. c \in Actors /\ BatchOf[c] \in Batches
  BY WalAssumption DEF Actors
<1>2. Serving /\ Serving'
  <2>1. UNCHANGED startup
    BY DEF Insert, Begin, WriteLocal, WriteLocalFails, Ship, Apply, ApplyFails, MarkApplied
  <2>2. Serving
    BY <1>1, WorkIsServing DEF Insert, Begin, WriteLocal, WriteLocalFails, Ship, Apply, ApplyFails, MarkApplied, Settled
  <2> QED BY <2>1, <2>2 DEF startup, Serving
<1>3. CASE Begin(c) \/ WriteLocalFails(c) \/ Ship(c)
  <2>1. UNCHANGED <<durable, startup>> /\ \A d \in Calls : stage'[d] = "ok" <=> stage[d] = "ok"
    BY <1>1, <1>3 DEF Begin, WriteLocalFails, Ship, To, Actors
  <2> QED BY <2>1, PromisesKept DEF Stutters, Held, Unread, Serving, durable, startup
<1>4. CASE WriteLocal(c)
  <2>1. \A d \in Calls : stage'[d] = "ok" <=> stage[d] = "ok"
    BY <1>1, <1>4 DEF WriteLocal, Appended, To, Actors
  <2>2. log' = Append(log, c) /\ UNCHANGED <<cursor, hot, replayQ>>
    BY <1>4 DEF WriteLocal, startup
  <2>3. /\ Unread' = Unread \cup {Len(log) + 1} /\ log'[Len(log) + 1] = c
        /\ \A i \in Unread : log'[i] = log[i]
    BY <2>2 DEF Unread
  <2>4. Held' = Held \cup {BatchOf[c]}
    <3>1. {BatchOf[log'[i]] : i \in Unread'} = {BatchOf[log[i]] : i \in Unread} \cup {BatchOf[c]}
      BY <2>3
    <3> QED BY <2>2, <3>1 DEF Held
  <2> QED BY <1>1, <1>2, <2>1, <2>2, <2>4, PromisesKept DEF Store!Next, Store!Accept
<1>5. CASE Apply(c) \/ ApplyFails(c)
  <2>1. \A d \in Calls : stage'[d] = "ok" <=> stage[d] = "ok"
    BY <1>1, <1>5 DEF Apply, ApplyFails, To, Actors
  <2>2. hot' \in {hot, hot \cup {BatchOf[c]}} /\ UNCHANGED <<log, cursor, replayQ>>
    BY <1>5 DEF Apply, ApplyFails, startup
  <2>3. BatchOf[c] \in Held
    BY <1>5, TicketIsHeld DEF Apply, ApplyFails
  <2>4. Held' = Held
    BY <2>2, <2>3 DEF Held, Unread
  <2> QED BY <1>1, <1>2, <2>1, <2>2, <2>3, <2>4, PromisesKept DEF Store!Next, Store!Show, Stutters
<1>6. CASE MarkApplied(c)
  <2>1. UNCHANGED <<durable, startup>>
    BY <1>6 DEF MarkApplied
  <2>2. CASE To(c, "ok")
    BY <1>2, <1>6, <2>1, <2>2, ReturnImplements DEF MarkApplied
  <2>3. CASE To(c, "due")
    <3>1. \A d \in Calls : stage'[d] = "ok" <=> stage[d] = "ok"
      BY <1>1, <1>6, <2>3 DEF MarkApplied, To, Actors
    <3> QED BY <2>1, <3>1, PromisesKept DEF Stutters, Held, Unread, Serving, durable, startup
  <2> QED BY <1>6, <2>2, <2>3 DEF MarkApplied
<1> QED BY <1>3, <1>4, <1>5, <1>6 DEF Insert

\* Steps of a checkpoint: what it consumes is in the hot tier.
LEMMA CheckpointImplements ==
  ASSUME IInv, KeptInv, NEW a \in Actors, Checkpoint(a)
  PROVE  Store!Next \/ Stutters
<1> USE DEF IInv, TypeOK
<1>1. UNCHANGED startup /\ Serving /\ stage[a] \in {"due"} \cup GateStages
  <2>1. UNCHANGED startup /\ stage[a] \in {"due"} \cup GateStages
    BY DEF Checkpoint, TakeGate, Quiesced, QuiesceTimeout, FlushProjection, ConsumeBatch, FinishCheckpoint,
       CheckpointFails, GateStages
  <2> QED BY <2>1, WorkIsServing DEF GateStages, Settled
<1>2. CASE ConsumeBatch(a)
  <2>1. /\ \A i \in Unread : BatchOf[log[i]] \in hot
        /\ Unread' \subseteq Unread /\ UNCHANGED <<log, hot, stage, replayQ>>
    BY <1>1, <1>2 DEF ConsumeBatch, FlushedBeforeAdvance, Unread, startup
  <2>2. Held' = Held
    BY <2>1 DEF Held
  <2> QED BY <1>1, <2>1, <2>2 DEF Stutters, Promised, Serving, startup
<1>3. CASE FlushProjection(a)
  <2>1. /\ UNCHANGED <<log, cursor, hot, replayQ>> /\ \A d \in Calls : stage'[d] = "ok" <=> stage[d] = "ok"
    BY <1>1, <1>3 DEF FlushProjection, To, startup, Actors
  <2> QED BY <1>1, <2>1, PromisesKept DEF Stutters, Held, Unread, Serving, startup
<1>4. ASSUME UNCHANGED durable, NEW s \in Stages, To(a, s)
      PROVE  Store!Next \/ Stutters
  <2>1. CASE a \in Calls /\ s = "ok"
    BY <1>1, <1>4, <2>1, ReturnImplements
  <2>2. CASE ~(a \in Calls /\ s = "ok")
    <3>1. \A d \in Calls : stage'[d] = "ok" <=> stage[d] = "ok"
      BY <1>1, <1>4, <2>2 DEF To, Actors, GateStages
    <3> QED BY <1>1, <1>4, <3>1, PromisesKept DEF Stutters, Held, Unread, Serving, durable, startup
  <2> QED BY <2>1, <2>2
<1>5. CASE TakeGate(a) \/ Quiesced(a) \/ QuiesceTimeout(a) \/ FinishCheckpoint(a) \/ CheckpointFails(a)
  <2>1. UNCHANGED durable /\ \E s \in {"quiescing", "flushing", "ok", "failed"} : To(a, s)
    BY <1>5 DEF TakeGate, Quiesced, QuiesceTimeout, FinishCheckpoint, CheckpointFails, Return
  <2> QED BY <1>4, <2>1 DEF Stages, GateStages, Settled
<1> QED BY <1>2, <1>3, <1>5 DEF Checkpoint

\* What is promised is held, and a serving store shows it.
LEMMA PromisesHeld == IInv /\ KeptInv => Promised \subseteq Held /\ (Serving => Promised \subseteq hot)
BY PromisedIsHeld DEF Promised

\* The same of the state after a step.
LEMMA PromisesHeldNext ==
  (IInv /\ KeptInv)' => (Promised \subseteq Held /\ (Serving => Promised \subseteq hot))'
BY PromisesHeld, PTL

\* A failure closes the store and keeps what is promised.
LEMMA DeathImplements ==
  ASSUME IInv, KeptInv, IInv', KeptInv', Crash \/ PowerLoss
  PROVE  Store!Next
<1> USE DEF IInv, TypeOK
<1>1. /\ phase' = "down" /\ stage' = Aftermath /\ replayQ' = <<>> /\ UNCHANGED <<log, cursor>>
      /\ hot' \subseteq hot
  BY DEF Crash, PowerLoss, Die
<1>2. \A c \in Calls : stage'[c] = "ok" <=> stage[c] = "ok"
  BY <1>1, WalAssumption DEF Aftermath, Actors, Settled
<1>3. Promised' = Promised
  BY <1>2, PromisesKept
<1>4. Held' \subseteq Held
  BY <1>1 DEF Held, Unread
<1>5. Promised' \subseteq Held'
  BY PromisesHeldNext
<1> QED BY <1>1, <1>3, <1>4, <1>5 DEF Store!Next, Store!Fail, Serving

\* Steps of a start-up: records go from the log to the queue and from there to the hot
\* tier, and the store opens when the queue is empty.
LEMMA ReplayImplements ==
  ASSUME IInv, KeptInv, IInv', KeptInv', Replay
  PROVE  Store!Next \/ Stutters
<1> USE DEF IInv, TypeOK
<1>1. Promised' = Promised /\ ~Serving
  BY DEF Promised, Replay, Open, DrainBatch, DrainDone, ReplayOne, Serve, Serving
<1>2. CASE Open \/ DrainDone
  <2>1. UNCHANGED <<log, cursor, hot, replayQ>> /\ ~Serving'
    BY <1>2 DEF Open, DrainDone, durable, Serving
  <2> QED BY <1>1, <2>1 DEF Stutters, Held, Unread, Serving
<1>3. CASE DrainBatch
  <2>1. PICK n \in Unread : cursor' = n /\ replayQ' = replayQ \o SubSeq(log, cursor + 1, n)
    BY <1>3 DEF DrainBatch
  <2>2. n \in cursor + 1 .. Len(log) /\ UNCHANGED <<log, hot>> /\ ~Serving'
    BY <1>3 DEF DrainBatch, Unread, Serving
  <2>3. Queued' = Queued \cup {BatchOf[log[i]] : i \in (cursor + 1) .. n}
    BY <2>1, <2>2, QueueGrows
  <2>4. Unread = ((cursor + 1) .. n) \cup Unread'
    BY <2>1, <2>2 DEF Unread
  <2>5. {BatchOf[log[i]] : i \in Unread} = {BatchOf[log[i]] : i \in (cursor + 1) .. n} \cup {BatchOf[log[i]] : i \in Unread'}
    BY <2>4
  <2>6. Held' = Held
    BY <2>2, <2>3, <2>5 DEF Held, Queued
  <2> QED BY <1>1, <2>2, <2>6 DEF Stutters, Serving
<1>4. CASE ReplayOne
  <2>1. UNCHANGED <<log, cursor>> /\ ~Serving' /\ hot' \cup Queued' = hot \cup Queued
    BY <1>4, QueueShrinks DEF ReplayOne, Serving
  <2>2. Held' = Held
    BY <2>1 DEF Held, Unread, Queued
  <2> QED BY <1>1, <2>1, <2>2 DEF Stutters, Serving
<1>5. CASE Serve
  <2>1. Serving' /\ UNCHANGED <<log, cursor, hot, replayQ, stage>>
    BY <1>5 DEF Serve, Serving, durable
  <2>2. Held' = Held /\ hot \subseteq Held
    BY <2>1 DEF Held, Unread
  <2>3. Promised' \subseteq hot'
    BY <2>1, PromisesHeldNext
  <2> QED BY <1>1, <2>1, <2>2, <2>3 DEF Store!Next, Store!Reopen
<1> QED BY <1>2, <1>3, <1>4, <1>5 DEF Replay

\* Every step of the engine is a step of the store or none.
LEMMA StoreStep ==
  ASSUME IInv, KeptInv, IInv', KeptInv', [Next]_vars
  PROVE  [Store!Next]_(Store!vars)
<1>1. Stutters => UNCHANGED Store!vars
  BY DEF Stutters, Store!vars
<1>2. CASE Flush
  <2>1. UNCHANGED <<durable, startup>> /\ \A d \in Calls : stage'[d] = "ok" <=> stage[d] = "ok"
    BY <1>2, WalAssumption DEF Flush, To, Actors, IInv, TypeOK
  <2> QED BY <1>1, <2>1, PromisesKept DEF Stutters, Held, Unread, Serving, durable, startup, IInv
<1>3. CASE UNCHANGED vars
  BY <1>1, <1>3 DEF vars, Stutters, Held, Promised, Unread, Serving
<1>4. CASE Next
  BY <1>1, <1>2, <1>4, InsertImplements, CheckpointImplements, DeathImplements, ReplayImplements DEF Next
<1> QED BY <1>3, <1>4

\* The engine keeps the promises of the abstract store through any failures but those
\* that take what a start-up replay has consumed (finding 1).
THEOREM KeepsPromises == Spec /\ [][CutsNoReplay]_vars => ImplementsStore
<1>1. Init => KeptInv
  BY DEF Init, KeptInv, Queued
<1>2. IInv /\ KeptInv /\ [Next]_vars /\ [CutsNoReplay]_vars => KeptInv'
  BY KeptStep
<1>3. IInv /\ KeptInv /\ IInv' /\ KeptInv' /\ [Next]_vars => [Store!Next]_(Store!vars)
  BY StoreStep
<1> QED BY <1>1, <1>2, <1>3, StoreInit, Invariance, PTL DEF Spec, Store!Spec, ImplementsStore

\* Before the first failure nothing is drained.
OneFailure ==
  /\ crashes \in Nat /\ crashes <= MaxCrashes /\ outages \in Nat /\ outages <= MaxPowerLosses
  /\ crashes = 0 /\ outages = 0 => phase = "serving"
  /\ phase = "down" \/ (crashes = 0 /\ outages = 0) => drained = {}

\* The engine keeps the promises of the abstract store through any one failure.
THEOREM OneFailureIsSafe == ASSUME MaxCrashes + MaxPowerLosses <= 1 PROVE Spec => ImplementsStore
<1>1. Init => OneFailure
  BY WalAssumption DEF Init, OneFailure
<1>2. OneFailure /\ [Next]_vars => OneFailure' /\ [CutsNoReplay]_vars
  <2> SUFFICES ASSUME OneFailure, [Next]_vars PROVE OneFailure' /\ [CutsNoReplay]_vars
    OBVIOUS
  <2> USE DEF OneFailure
  <2>1. CASE Crash \/ PowerLoss
    <3>1. crashes = 0 /\ outages = 0 /\ drained = {} /\ drained' = {} /\ phase' = "down"
      BY <2>1, WalAssumption DEF Crash, PowerLoss, Die
    <3>2. (crashes' # 0 \/ outages' # 0) /\ crashes' \in Nat /\ outages' \in Nat /\ crashes' <= MaxCrashes /\ outages' <= MaxPowerLosses
      BY <2>1, <3>1, WalAssumption DEF Crash, PowerLoss
    <3>3. OneFailure'
      BY <3>1, <3>2
    <3>4. CutsNoReplay
      BY <3>1 DEF CutsNoReplay
    <3> QED BY <3>3, <3>4
  <2>2. CASE UNCHANGED startup
    BY <2>2 DEF startup, CutsNoReplay
  <2>3. CASE Replay
    BY <2>3, WalAssumption DEF Replay, Open, DrainBatch, DrainDone, ReplayOne, Serve, CutsNoReplay
  <2>4. (\E c \in Calls : Insert(c)) \/ (\E a \in Actors : Checkpoint(a)) \/ Flush => UNCHANGED startup
    BY DEF Flush, Insert, Checkpoint, Begin, WriteLocal, WriteLocalFails,
       Ship, Apply, ApplyFails, MarkApplied, TakeGate, Quiesced, QuiesceTimeout, FlushProjection, ConsumeBatch,
       FinishCheckpoint, CheckpointFails
  <2>5. UNCHANGED vars => UNCHANGED startup
    BY DEF vars, startup
  <2> QED BY <2>1, <2>2, <2>3, <2>4, <2>5 DEF Next
<1> QED BY <1>1, <1>2, KeepsPromises, PTL DEF Spec
=============================================================================
