------------------------------ MODULE Cluster ------------------------------
(***************************************************************************)
(* A replication group of tael-server nodes: the election loop and the     *)
(* epochs of cluster/mod.rs, the fence of cluster/election.rs, and the     *)
(* shipping of log records from a node to its standbys (RemoteWalSink and  *)
(* apply_wal_record).                                                      *)
(*                                                                         *)
(* Membership is gossip: every node has its own, delayed view of who is    *)
(* alive and of the epoch each member advertises.  A member is a node and  *)
(* the generation of its process, as a ChitchatId is.  Any node accepts    *)
(* inserts: leadership only decides which epoch its records carry.  What a *)
(* node has logged survives the death of its process (module WalLog); its  *)
(* epoch, its fence and its view do not.                                   *)
(***************************************************************************)
EXTENDS Naturals, FiniteSets

CONSTANTS
  Nodes,          \* node ids; elections order on them
  Standbys,       \* the standbys each node ships to
  RequiredAcks,   \* acks an append needs, before clamping
  Records,        \* what clients insert, each once
  MaxDeaths,      \* bound: deaths of processes
  MaxSuspicions   \* bound: live members a failure detector gives up on

ASSUME ClusterAssumption ==
  /\ Nodes \subseteq Nat /\ IsFiniteSet(Nodes)
  /\ Standbys \in [Nodes -> SUBSET Nodes]
  /\ RequiredAcks \in Nat /\ MaxDeaths \in Nat /\ MaxSuspicions \in Nat

VARIABLES
  up,        \* nodes whose process runs
  gen,       \* the generation of each node's process, or of its next one
  live,      \* members each node's failure detector takes for alive
  heard,     \* the epoch of each member, as far as each node has heard
  leader,    \* is_leader
  epoch,     \* leader_epoch, which the sinks stamp on what they ship
  highest,   \* EpochFencer.highest
  rows,      \* records in the log or the tiers of each node
  call,      \* the insert of each record
  net,       \* shipped records on their way to a standby or in its handler
  deaths,    \* processes that died so far
  suspicions \* live members given up on so far

view   == <<up, gen, live, heard, deaths, suspicions>>
reigns == <<leader, epoch>>
vars   == <<view, reigns, highest, rows, call, net>>

Members == [id : Nodes, gen : 0 .. MaxDeaths]
Self(n) == [id |-> n, gen |-> gen[n]]
Alive   == {Self(n) : n \in up}

Smallest(S) == CHOOSE n \in S : \A other \in S : n <= other
Largest(S)  == CHOOSE n \in S : \A other \in S : n >= other

Required(n) ==
  IF RequiredAcks < Cardinality(Standbys[n]) THEN RequiredAcks ELSE Cardinality(Standbys[n])

Idle == [at |-> "idle"]
Over(how, n) == [at |-> how, by |-> n]

Init ==
  /\ up = Nodes /\ gen = [n \in Nodes |-> 0]
  /\ live = [n \in Nodes |-> {[id |-> n, gen |-> 0]}]
  /\ heard = [n \in Nodes |-> [m \in Members |-> 0]]
  /\ leader = [n \in Nodes |-> FALSE] /\ epoch = [n \in Nodes |-> 0]
  /\ highest = [n \in Nodes |-> 0]
  /\ rows = [n \in Nodes |-> {}] /\ call = [r \in Records |-> Idle]
  /\ net = {} /\ deaths = 0 /\ suspicions = 0

-----------------------------------------------------------------------------
(* Gossip and failure detection (chitchat).                                *)

\* A gossip round brings to n the latest epochs that k knows of.
Gossip(n, k) ==
  /\ n \in up /\ k \in up /\ \E m \in Members : heard[k][m] > heard[n][m]
  /\ heard' = [heard EXCEPT ![n] = [m \in Members |-> Largest({@[m], heard[k][m]})]]
  /\ UNCHANGED <<up, gen, live, deaths, suspicions, reigns, highest, rows, call, net>>

\* Heartbeats of a running member reach n.
Trust(n, m) ==
  /\ n \in up /\ m \in Alive \ live[n]
  /\ live' = [live EXCEPT ![n] = @ \cup {m}]
  /\ UNCHANGED <<up, gen, heard, deaths, suspicions, reigns, highest, rows, call, net>>

\* n gives up on a member that is gone.
Bury(n, m) ==
  /\ n \in up /\ m \in live[n] \ Alive
  /\ live' = [live EXCEPT ![n] = @ \ {m}]
  /\ UNCHANGED <<up, gen, heard, deaths, suspicions, reigns, highest, rows, call, net>>

\* n gives up on a member that is only slow or unreachable.
Suspect(n, m) ==
  /\ n \in up /\ m \in (live[n] \cap Alive) \ {Self(n)} /\ suspicions < MaxSuspicions
  /\ suspicions' = suspicions + 1
  /\ live' = [live EXCEPT ![n] = @ \ {m}]
  /\ UNCHANGED <<up, gen, heard, deaths, reigns, highest, rows, call, net>>

-----------------------------------------------------------------------------
(* The election loop.                                                      *)

\* elect_leader: the smallest id among the live members.
ElectLeader(n) == Smallest({m.id : m \in live[n]})

\* The highest epoch that a live member advertises.
MaxEpoch(n) == Largest({heard[n][m] : m \in live[n]})

\* Mutant: is_leader is set on promotion and never taken back.
TickSticky(n) ==
  /\ n \in up /\ n = ElectLeader(n) /\ ~leader[n]
  /\ leader' = [leader EXCEPT ![n] = TRUE]
  /\ epoch' = [epoch EXCEPT ![n] = MaxEpoch(n) + 1]
  /\ heard' = [heard EXCEPT ![n][Self(n)] = MaxEpoch(n) + 1]
  /\ UNCHANGED <<up, gen, live, deaths, suspicions, highest, rows, call, net>>

\* Mutant: the new epoch is stored and not advertised.
TickUnadvertised(n) ==
  /\ n \in up
  /\ leader' = [leader EXCEPT ![n] = (n = ElectLeader(n))]
  /\ epoch' = [epoch EXCEPT ![n] = IF leader'[n] /\ ~leader[n] THEN MaxEpoch(n) + 1 ELSE @]
  /\ UNCHANGED <<up, gen, live, heard, deaths, suspicions, highest, rows, call, net>>

\* One tick of the election loop: a node that finds itself promoted takes an
\* epoch above those of the live members and advertises it; one that steps down
\* keeps stamping the epoch it had.
Tick(n) ==
  /\ n \in up
  /\ leader' = [leader EXCEPT ![n] = (n = ElectLeader(n))]
  /\ IF leader'[n] /\ ~leader[n]
     THEN /\ epoch' = [epoch EXCEPT ![n] = MaxEpoch(n) + 1]
          /\ heard' = [heard EXCEPT ![n][Self(n)] = MaxEpoch(n) + 1]
     ELSE UNCHANGED <<epoch, heard>>
  /\ UNCHANGED <<up, gen, live, deaths, suspicions, highest, rows, call, net>>

-----------------------------------------------------------------------------
(* An insert ships its record to one standby after the other.              *)

\* insert_*: logged by the node the client chose, leader or not.  `epoch` and
\* `barred` are history: the node's epoch as the call comes in, and the standbys
\* whose fence is then above it.
Accept(r, n) ==
  /\ n \in up /\ call[r].at = "idle"
  /\ rows' = [rows EXCEPT ![n] = @ \cup {r}]
  /\ call' = [call EXCEPT ![r] =
       [at |-> "shipping", by |-> n, todo |-> Standbys[n], acks |-> 0, epoch |-> epoch[n],
        barred |-> {Self(s) : s \in {t \in Standbys[n] : highest[t] > epoch[n]}}]]
  /\ UNCHANGED <<view, reigns, highest, net>>

\* The call has the standby's answer, or an error instead, and turns to the next.
Outcome(c, s, ok) ==
  [c EXCEPT !.at = "shipping", !.todo = @ \ {s}, !.acks = @ + (IF ok THEN 1 ELSE 0)]

\* append_framed: post the record under the node's epoch of the moment.  A
\* standby that is down may be back before the request times out.
Send(r) ==
  /\ call[r].at = "shipping" /\ call[r].todo # {}
  /\ LET n == call[r].by
         s == Smallest(call[r].todo)
     IN  /\ net' = net \cup {[rec |-> r, to |-> Self(s), epoch |-> epoch[n], at |-> "posted"]}
         /\ call' = [call EXCEPT ![r].at = "waiting"]
  /\ UNCHANGED <<view, reigns, highest, rows>>

\* The request fails: the standby is down or slow, or its answer is lost.  What
\* was posted may still arrive.
GiveUp(r) ==
  /\ call[r].at = "waiting"
  /\ call' = [call EXCEPT ![r] = Outcome(@, Smallest(@.todo), FALSE)]
  /\ UNCHANGED <<view, reigns, highest, rows, net>>

\* The handler's answer to m reaches the call, if it still waits for it.
Reply(m, ok) ==
  LET c == call[m.rec]
  IN  call' = IF c.at = "waiting" /\ Smallest(c.todo) = m.to.id
              THEN [call EXCEPT ![m.rec] = Outcome(c, m.to.id, ok)] ELSE call

Posted(m) == m.at = "posted" /\ m.to \in Alive

\* Mutant: the client does not look at the status of the answer.
RefuseUnseen(m) ==
  /\ Posted(m) /\ m.epoch < highest[m.to.id]
  /\ net' = net \ {m}
  /\ Reply(m, TRUE)
  /\ UNCHANGED <<view, reigns, highest, rows>>

\* apply_wal_record: the record is older than the fence, 409.
Refuse(m) ==
  /\ Posted(m) /\ m.epoch < highest[m.to.id]
  /\ net' = net \ {m}
  /\ Reply(m, FALSE)
  /\ UNCHANGED <<view, reigns, highest, rows>>

\* apply_wal_record: check_and_advance lets the record through.
Admit(m) ==
  /\ Posted(m) /\ m.epoch >= highest[m.to.id]
  /\ highest' = [highest EXCEPT ![m.to.id] = m.epoch]
  /\ net' = (net \ {m}) \cup {[m EXCEPT !.at = "admitted"]}
  /\ UNCHANGED <<view, reigns, rows, call>>

\* Mutant: the handler answers before it applies, whether or not that fails.
ApplyAfterAnswer(m) ==
  /\ m.at = "admitted"
  /\ net' = net \ {m}
  /\ rows' \in {rows, [rows EXCEPT ![m.to.id] = @ \cup {m.rec}]}
  /\ Reply(m, TRUE)
  /\ UNCHANGED <<view, reigns, highest>>

\* apply_wal_record: apply_framed_wal, 202.
ApplyShipped(m) ==
  /\ m.at = "admitted"
  /\ net' = net \ {m}
  /\ rows' = [rows EXCEPT ![m.to.id] = @ \cup {m.rec}]
  /\ Reply(m, TRUE)
  /\ UNCHANGED <<view, reigns, highest>>

\* apply_wal_record: apply_framed_wal fails before or after its append, 422.
ApplyShippedFails(m) ==
  /\ m.at = "admitted"
  /\ net' = net \ {m}
  /\ rows' \in {rows, [rows EXCEPT ![m.to.id] = @ \cup {m.rec}]}
  /\ Reply(m, FALSE)
  /\ UNCHANGED <<view, reigns, highest>>

\* append: all sinks have been tried.
Finish(r) ==
  /\ call[r].at = "shipping" /\ call[r].todo = {}
  /\ call' = [call EXCEPT ![r] =
       Over(IF @.acks >= Required(@.by) THEN "acked" ELSE "failed", @.by)]
  /\ UNCHANGED <<view, reigns, highest, rows, net>>

-----------------------------------------------------------------------------

\* The process dies: its calls are cut off, its handlers with them, and what the
\* coordinator held is gone.
Crash(n) ==
  /\ n \in up /\ deaths < MaxDeaths
  /\ deaths' = deaths + 1 /\ up' = up \ {n} /\ gen' = [gen EXCEPT ![n] = @ + 1]
  /\ call' = [r \in Records |->
       IF call[r].at \in {"shipping", "waiting"} /\ call[r].by = n
       THEN Over("cut", n) ELSE call[r]]
  /\ net' = {m \in net : m.to.id # n}
  /\ live' = [live EXCEPT ![n] = {[id |-> n, gen |-> gen[n] + 1]}]
  /\ heard' = [heard EXCEPT ![n] = [m \in Members |-> 0]]
  /\ leader' = [leader EXCEPT ![n] = FALSE] /\ epoch' = [epoch EXCEPT ![n] = 0]
  /\ highest' = [highest EXCEPT ![n] = 0]
  /\ UNCHANGED <<suspicions, rows>>

\* ClusterCoordinator::start in a new process, a member of its own.
Restart(n) ==
  /\ n \in Nodes \ up
  /\ up' = up \cup {n}
  /\ UNCHANGED <<gen, live, heard, deaths, suspicions, reigns, highest, rows, call, net>>

DetectAt(n) == \E m \in Members : Trust(n, m) \/ Bury(n, m)
Detect      == \E n \in Nodes : DetectAt(n)

Replicate ==
  \/ \E r \in Records : (\E n \in Nodes : Accept(r, n)) \/ Send(r) \/ GiveUp(r) \/ Finish(r)
  \/ \E m \in net : Refuse(m) \/ Admit(m) \/ ApplyShipped(m) \/ ApplyShippedFails(m)

\* The failure detector is right about whom it gives up on.
Trusting ==
  \/ \E n, k \in Nodes : Gossip(n, k)
  \/ Detect
  \/ \E n \in Nodes : Tick(n) \/ Crash(n) \/ Restart(n)
  \/ Replicate

Next == Trusting \/ \E n \in Nodes, m \in Members : Suspect(n, m)

Spec         == Init /\ [][Next]_vars
TrustingSpec == Init /\ [][Trusting]_vars

-----------------------------------------------------------------------------
(* Properties.                                                             *)

\* The state is well formed, and a running node is a live member to itself that
\* advertises the very epoch it stamps on its records.
TypeOK ==
  /\ up \subseteq Nodes /\ gen \in [Nodes -> 0 .. MaxDeaths]
  /\ live \in [Nodes -> SUBSET Members] /\ heard \in [Nodes -> [Members -> Nat]]
  /\ leader \in [Nodes -> BOOLEAN] /\ epoch \in [Nodes -> Nat] /\ highest \in [Nodes -> Nat]
  /\ rows \in [Nodes -> SUBSET Records]
  /\ call \in [Records -> {Idle}
       \cup [at : {"acked", "failed", "cut"}, by : Nodes]
       \cup [at : {"shipping", "waiting"}, by : Nodes, todo : SUBSET Nodes, acks : Nat,
             epoch : Nat, barred : SUBSET Members]]
  /\ net \subseteq [rec : Records, to : Members, epoch : Nat, at : {"posted", "admitted"}]
  /\ deaths \in 0 .. MaxDeaths /\ suspicions \in 0 .. MaxSuspicions
  /\ \A n \in Nodes : Self(n) \in live[n] /\ heard[n][Self(n)] = epoch[n]

\* A record is acknowledged only when as many standbys as asked for hold it,
\* whatever was refused, lost, late or interrupted: "a write survives node loss
\* because every standby has it before ack" (wal.rs).
AckedIsReplicated ==
  \A r \in Records :
    call[r].at = "acked" =>
      Cardinality({s \in Standbys[call[r].by] : r \in rows[s]}) >= Required(call[r].by)

\* A deposed leader cannot have its writes confirmed: unless it takes a new
\* epoch, a standby whose fence was above it when the call came in, and that has
\* not restarted since, is none of those an acknowledgement counts, however late
\* records, refusals and answers arrive.
DeposedIsNotConfirmed ==
  [][\A r \in Records :
       LET c == call[r]
       IN  call'[r].at = "acked" /\ c.at # "acked" /\ epoch[c.by] = c.epoch =>
             Required(c.by) <= Cardinality({s \in Standbys[c.by] : Self(s) \notin c.barred})]_vars

\* The smallest running node, and no other, is leader.
Settled == \A n \in up : leader[n] <=> n = Smallest(up)

\* However views differed, members were wrongly suspected and processes died before,
\* one leader is left.
OneLeaderInTheEnd == <>[]Settled

\* "A promoted node bumps past every epoch it has seen" (scaling-ha.md): a reign
\* that follows a leader's death begins above the epoch the node heard from it.
ReignBumpsPastTheDead ==
  [][\A n \in Nodes : epoch'[n] > epoch[n] =>
       \A m \in Members \ Alive : heard[n][m] < epoch'[n]]_vars
=============================================================================
