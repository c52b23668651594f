--------------------------- MODULE Cluster_proofs ---------------------------
(***************************************************************************)
(* What an acknowledgement of Cluster means, for any group, any number of  *)
(* standbys and acks, and any number of deaths and wrong suspicions.       *)
(***************************************************************************)
EXTENDS Cluster, FiniteSetTheorems, WellFoundedInduction, TLAPS

Active(r) == call[r].at \in {"shipping", "waiting"}

\* The node of r has begun no new reign since the call came in.
SameReign(r) == epoch[call[r].by] = call[r].epoch

\* The standbys that may have been counted for r.
Confirmed(r) ==
  {s \in Standbys[call[r].by] \ call[r].todo :
     r \in rows[s] /\ (SameReign(r) => Self(s) \notin call[r].barred)}

-----------------------------------------------------------------------------
(* The inductive invariant.                                                *)

\* Every generation follows a death, all epochs ever heard have a bound, and
\* nobody has heard more of a process than it says, or anything of a later one.
Bounded ==
  /\ \A n \in Nodes : gen[n] <= deaths
  /\ \E b \in Nat : \A n \in Nodes, m \in Members : heard[n][m] <= b
  /\ \A n \in Nodes, m \in Members :
       /\ m = Self(m.id) => heard[n][m] <= epoch[m.id]
       /\ m.gen > gen[m.id] => heard[n][m] = 0

\* A call in progress.
CallsOK ==
  \A r \in Records : Active(r) =>
    /\ call[r].todo \subseteq Standbys[call[r].by]
    /\ call[r].at = "waiting" => call[r].todo # {}
    /\ call[r].epoch <= epoch[call[r].by]
    /\ \A m \in call[r].barred : m.gen <= gen[m.id]

\* Records in flight are those of calls that came in, under the epoch of the
\* call while its node's reign lasts; one that is admitted is with the
\* process that admitted it.
NetOK ==
  \A m \in net :
    /\ call[m.rec] # Idle
    /\ Active(m.rec) /\ SameReign(m.rec) => m.epoch = call[m.rec].epoch
    /\ m.at = "admitted" => m.to = Self(m.to.id)

\* A standby that was fenced against the call stays so, and admits none of it.
StillBarred ==
  \A r \in Records, s \in Nodes :
    Active(r) /\ SameReign(r) /\ Self(s) \in call[r].barred =>
      /\ highest[s] > call[r].epoch
      /\ \A m \in net : m.rec = r /\ m.to = Self(s) => m.at = "posted"

\* The acks of a call are those of standbys that hold its record.
AcksCounted ==
  \A r \in Records : Active(r) => call[r].acks <= Cardinality(Confirmed(r))

CInv ==
  /\ TypeOK /\ Bounded /\ CallsOK /\ NetOK /\ StillBarred /\ AcksCounted
  /\ AckedIsReplicated

-----------------------------------------------------------------------------
(* Smallest and largest elements, and sets of standbys.                    *)

\* A set of numbers that is not empty has a least one.
LEMMA SmallestIn ==
  ASSUME NEW S \in SUBSET Nat, S # {}
  PROVE  Smallest(S) \in S /\ \A y \in S : Smallest(S) <= y
<1>1. PICK x \in S : \A y \in S : <<y, x>> \notin OpToRel(<, Nat)
  BY WFMin, NatLessThanWellFounded, Zenon
<1>2. \A y \in S : ~ (y < x)
  BY <1>1, Zenon DEF OpToRel
<1>3. \A y \in S : x <= y
  BY ONLY <1>2, S \in SUBSET Nat, x \in S
<1> HIDE <1>1
<1> QED BY <1>3 DEF Smallest

\* One that is bounded as well has a greatest.
LEMMA LargestIn ==
  ASSUME NEW S \in SUBSET Nat, S # {}, NEW b \in Nat, \A x \in S : x <= b
  PROVE  Largest(S) \in S /\ \A x \in S : x <= Largest(S)
<1> DEFINE U == {u \in Nat : \A x \in S : x <= u}
<1>1. U \in SUBSET Nat /\ U # {}
  OBVIOUS
<1> DEFINE u == Smallest(U)
<1>2. u \in U /\ \A y \in U : u <= y
  <2> HIDE DEF U
  <2> QED BY <1>1, SmallestIn
<1>3. u \in Nat /\ \A x \in S : x <= u
  BY <1>2
<1> HIDE DEF u
<1>4. u \in S
  <2> SUFFICES ASSUME u \notin S PROVE FALSE
    OBVIOUS
  <2>1. \A y \in S : y <= u - 1
    BY <1>3
  <2>0. PICK y \in S : y \in Nat /\ y <= u - 1
    BY <2>1
  <2>2. u - 1 \in Nat
    BY <1>3, <2>0
  <2>3. u - 1 \in U
    BY <2>1, <2>2
  <2>4. u <= u - 1
    BY <1>2, <2>3
  <2> QED BY <1>3, <2>4
<1> QED BY <1>3, <1>4 DEF Largest

\* Any part of the standbys of a node can be counted.
LEMMA StandbysFinite ==
  ASSUME ClusterAssumption, NEW n \in Nodes, NEW S \in SUBSET Standbys[n]
  PROVE  IsFiniteSet(S) /\ Cardinality(S) \in Nat
<1>1. S \subseteq Nodes
  BY DEF ClusterAssumption
<1> QED BY <1>1, FS_Subset, FS_CardinalityType DEF ClusterAssumption

\* Fewer standbys count for no more.
LEMMA MoreStandbys ==
  ASSUME ClusterAssumption, NEW n \in Nodes, NEW S \in SUBSET Standbys[n],
         NEW T \in SUBSET S
  PROVE  Cardinality(T) <= Cardinality(S)
BY StandbysFinite, FS_Subset

\* What stays true of a call as the standbys that confirm it grow in number.
LEMMA AcksStay ==
  ASSUME ClusterAssumption, TypeOK, NEW r \in Records, Active(r), Active(r)',
         call[r].acks <= Cardinality(Confirmed(r)),
         call'[r].by = call[r].by, call'[r].acks <= call[r].acks,
         call'[r].acks \in Nat,
         Confirmed(r) \subseteq Confirmed(r)'
  PROVE  call'[r].acks <= Cardinality(Confirmed(r)')
<1>1. call[r].by \in Nodes /\ call[r].acks \in Nat
  BY DEF TypeOK, Active, Idle
<1>2. Confirmed(r)' \subseteq Standbys[call[r].by]
  BY DEF Confirmed
<1>3. Cardinality(Confirmed(r)) <= Cardinality(Confirmed(r)')
  BY <1>1, <1>2, MoreStandbys
<1>4. Cardinality(Confirmed(r)) \in Nat /\ Cardinality(Confirmed(r)') \in Nat
  BY <1>1, <1>2, StandbysFinite DEF Confirmed
<1> QED BY <1>1, <1>3, <1>4

\* A confirmation more is an ack more.
LEMMA OneMore ==
  ASSUME ClusterAssumption, NEW n \in Nodes, NEW S \in SUBSET Standbys[n],
         NEW T \in SUBSET S, NEW s \in S \ T
  PROVE  Cardinality(T) + 1 <= Cardinality(S)
<1>1. T \cup {s} \in SUBSET S /\ T \in SUBSET Standbys[n] /\ T \cup {s} \in SUBSET Standbys[n]
  OBVIOUS
<1>2. IsFiniteSet(T) /\ Cardinality(T) \in Nat
  BY <1>1, StandbysFinite
<1>3. Cardinality(T \cup {s}) = Cardinality(T) + 1
  BY <1>2, FS_AddElement
<1>4. Cardinality(T \cup {s}) <= Cardinality(S)
  BY <1>1, MoreStandbys
<1> QED BY <1>3, <1>4

-----------------------------------------------------------------------------
(* Steps that change what nodes believe, and nothing they have shipped.    *)

\* A call in progress is a record with all of its fields.
LEMMA ActiveCall ==
  ASSUME TypeOK, NEW r \in Records, Active(r)
  PROVE  /\ call[r] \in [at : {"shipping", "waiting"}, by : Nodes, todo : SUBSET Nodes,
                         acks : Nat, epoch : Nat, barred : SUBSET Members]
         /\ call[r] # Idle
BY DEF TypeOK, Active, Idle

\* A node may begin a reign at any time: its calls then only lose constraints.
LEMMA BeliefStep ==
  ASSUME ClusterAssumption, CInv, TypeOK', Bounded',
         UNCHANGED <<gen, highest, rows, call, net>>,
         \A n \in Nodes : epoch[n] <= epoch'[n]
  PROVE  CInv'
<1> USE DEF CInv
<1>0. \A r \in Records : Active(r)' = Active(r)
  BY DEF Active
<1>1. ASSUME NEW r \in Records, Active(r), SameReign(r)'
      PROVE  SameReign(r)
  <2>1. call[r].by \in Nodes /\ call[r].epoch \in Nat
    BY <1>1, ActiveCall
  <2>2. /\ epoch[call[r].by] \in Nat
        /\ call[r].epoch <= epoch[call[r].by]
        /\ epoch[call[r].by] <= epoch'[call[r].by]
    BY <1>1, <2>1 DEF CallsOK, TypeOK
  <2> QED BY <1>1, <2>1, <2>2 DEF SameReign
<1>2. CallsOK'
  <2> SUFFICES ASSUME NEW r \in Records, Active(r)
               PROVE  call[r].epoch <= epoch'[call[r].by]
    BY <1>0 DEF CallsOK, Active
  <2>1. call[r].by \in Nodes /\ call[r].epoch \in Nat
    BY ActiveCall
  <2>2. /\ epoch[call[r].by] \in Nat /\ epoch'[call[r].by] \in Nat
        /\ call[r].epoch <= epoch[call[r].by]
        /\ epoch[call[r].by] <= epoch'[call[r].by]
    BY <2>1 DEF CallsOK, TypeOK
  <2> QED BY <2>1, <2>2
<1>3. NetOK'
  BY <1>0, <1>1 DEF NetOK, TypeOK, Self
<1>4. StillBarred'
  BY <1>0, <1>1 DEF StillBarred, Self
<1>5. AcksCounted'
  <2> SUFFICES ASSUME NEW r \in Records, Active(r)
               PROVE  call[r].acks <= Cardinality(Confirmed(r)')
    BY <1>0 DEF AcksCounted
  <2>1. Confirmed(r) \subseteq Confirmed(r)'
    BY <1>1 DEF Confirmed, Self
  <2>2. call[r].acks \in Nat
    BY ActiveCall
  <2> QED BY <1>0, <2>1, <2>2, AcksStay DEF AcksCounted
<1>6. AckedIsReplicated'
  BY DEF AckedIsReplicated, Required
<1>7. TypeOK' /\ Bounded'
  OBVIOUS
<1> QED BY <1>2, <1>3, <1>4, <1>5, <1>6, <1>7

\* What the steps below use of the type of the state.
LEMMA Types ==
  ASSUME CInv
  PROVE  /\ up \subseteq Nodes /\ gen \in [Nodes -> 0 .. MaxDeaths]
         /\ live \in [Nodes -> SUBSET Members] /\ heard \in [Nodes -> [Members -> Nat]]
         /\ leader \in [Nodes -> BOOLEAN] /\ epoch \in [Nodes -> Nat]
         /\ highest \in [Nodes -> Nat] /\ rows \in [Nodes -> SUBSET Records]
         /\ deaths \in 0 .. MaxDeaths /\ suspicions \in 0 .. MaxSuspicions
         /\ \A n \in Nodes : /\ Self(n) \in live[n] /\ heard[n][Self(n)] = epoch[n]
                             /\ Self(n) \in Members
<1>1. \A n \in Nodes : Self(n) \in Members
  BY DEF CInv, TypeOK, Self, Members
<1> QED BY <1>1 DEF CInv, TypeOK

\* Detection and restarts.
LEMMA DetectInv ==
  ASSUME ClusterAssumption, CInv, NEW n \in Nodes, NEW m \in Members,
         Trust(n, m) \/ Bury(n, m) \/ Suspect(n, m) \/ Restart(n)
  PROVE  CInv'
<1>0. CInv
  OBVIOUS
<1> HIDE <1>0
<1>1. UNCHANGED <<gen, heard, deaths, leader, epoch, highest, rows, call, net>>
  BY DEF Trust, Bury, Suspect, Restart, reigns
<1>2. \A i \in Nodes : Self(i)' = Self(i)
  BY <1>1 DEF Self
<1>3. live' \in [Nodes -> SUBSET Members] /\ \A i \in Nodes : Self(i) \in live'[i]
  <2>1. CASE Restart(n)
    BY <2>1, Types DEF Restart
  <2>2. CASE Trust(n, m)
    BY <2>2, Types DEF Trust
  <2>3. CASE Bury(n, m)
    <3>1. m # Self(n)
      BY <2>3 DEF Bury, Alive
    <3> QED BY <2>3, <3>1, Types DEF Bury
  <2>4. CASE Suspect(n, m)
    BY <2>4, Types DEF Suspect
  <2> QED BY <2>1, <2>2, <2>3, <2>4
<1>4. up' \subseteq Nodes /\ suspicions' \in 0 .. MaxSuspicions
  BY Types DEF Trust, Bury, Suspect, Restart, ClusterAssumption
<1>5. TypeOK'
  BY <1>0, <1>1, <1>2, <1>3, <1>4 DEF CInv, TypeOK
<1>6. Bounded'
  BY <1>0, <1>1, <1>2 DEF CInv, Bounded, Self
<1>7. \A i \in Nodes : epoch[i] <= epoch'[i]
  BY <1>1, Types
<1> QED BY <1>0, <1>1, <1>5, <1>6, <1>7, BeliefStep

\* The larger of two epochs.
LEMMA LargerOfTwo ==
  ASSUME NEW a \in Nat, NEW b \in Nat
  PROVE  Largest({a, b}) \in {a, b} /\ a <= Largest({a, b}) /\ b <= Largest({a, b})
<1> DEFINE S == {a, b}
<1>0. S \in SUBSET Nat /\ S # {} /\ a \in S /\ b \in S /\ a + b \in Nat
  OBVIOUS
<1>1. \A x \in S : x <= a + b
  OBVIOUS
<1>2. Largest(S) \in S /\ \A x \in S : x <= Largest(S)
  <2> HIDE DEF S
  <2> QED BY <1>0, <1>1, LargestIn
<1> QED BY <1>0, <1>2

\* A gossip round.
LEMMA GossipInv ==
  ASSUME ClusterAssumption, CInv, NEW n \in Nodes, NEW k \in Nodes, Gossip(n, k)
  PROVE  CInv'
<1>0. UNCHANGED <<up, gen, live, deaths, suspicions, leader, epoch, highest, rows, call, net>>
  BY DEF Gossip, reigns
<1>1. \A i \in Nodes, m \in Members : heard[i][m] \in Nat
  BY Types
<1>2. /\ \A m \in Members : heard'[n][m] = Largest({heard[n][m], heard[k][m]})
      /\ \A i \in Nodes \ {n} : heard'[i] = heard[i]
  BY Types DEF Gossip
<1>3. \A m \in Members : /\ heard'[n][m] \in {heard[n][m], heard[k][m]}
                         /\ heard[n][m] <= heard'[n][m] /\ heard[k][m] <= heard'[n][m]
  <2> SUFFICES ASSUME NEW m \in Members
               PROVE  /\ heard'[n][m] \in {heard[n][m], heard[k][m]}
                      /\ heard[n][m] <= heard'[n][m] /\ heard[k][m] <= heard'[n][m]
    OBVIOUS
  <2>1. heard[n][m] \in Nat /\ heard[k][m] \in Nat
    BY <1>1
  <2>2. heard'[n][m] = Largest({heard[n][m], heard[k][m]})
    BY <1>2
  <2> QED BY <2>1, <2>2, LargerOfTwo, Zenon
<1>4. heard' \in [Nodes -> [Members -> Nat]]
  <2>1. [m \in Members |-> Largest({heard[n][m], heard[k][m]})] \in [Members -> Nat]
    <3>1. \A m \in Members : Largest({heard[n][m], heard[k][m]}) \in {heard[n][m], heard[k][m]}
      BY <1>1, LargerOfTwo
    <3> QED BY <1>1, <3>1
  <2> QED BY <2>1, Types DEF Gossip
<1>5. \A i \in Nodes : heard'[i][Self(i)] = epoch[i]
  <2>1. Self(n) \in Members /\ Self(n).id = n
    BY Types DEF Self
  <2>2. heard[k][Self(n)] <= epoch[n] /\ heard[n][Self(n)] = epoch[n]
    BY <2>1, Types DEF CInv, Bounded
  <2>3. heard'[n][Self(n)] = epoch[n]
    <3>1. epoch[n] \in Nat /\ heard[k][Self(n)] \in Nat
      BY <1>1, <2>1, Types
    <3>2. /\ heard'[n][Self(n)] \in {heard[n][Self(n)], heard[k][Self(n)]}
          /\ heard[n][Self(n)] <= heard'[n][Self(n)]
      BY <1>3, <2>1
    <3> QED BY ONLY <2>2, <3>1, <3>2
  <2> QED BY <1>2, <2>3, Types
<1>6. TypeOK'
  BY <1>0, <1>4, <1>5 DEF CInv, TypeOK, Self
<1>7. Bounded'
  <2>1. PICK b \in Nat : \A i \in Nodes, m \in Members : heard[i][m] <= b
    BY DEF CInv, Bounded
  <2>2. \A i \in Nodes, m \in Members :
          heard'[i][m] \in {heard[i][m], heard[k][m]}
    BY <1>2, <1>3
  <2>3. \A i \in Nodes, m \in Members : heard'[i][m] <= b
    BY <2>1, <2>2
  <2>4. \A i \in Nodes, m \in Members :
          /\ m = Self(m.id) => heard'[i][m] <= epoch[m.id]
          /\ m.gen > gen[m.id] => heard'[i][m] = 0
    BY <2>2 DEF CInv, Bounded
  <2> QED BY <1>0, <2>3, <2>4 DEF CInv, Bounded, Self
<1>8. \A i \in Nodes : epoch[i] <= epoch'[i]
  BY <1>0, Types
<1> QED BY <1>0, <1>6, <1>7, <1>8, BeliefStep

\* A tick of the election loop.
LEMMA TickInv ==
  ASSUME ClusterAssumption, CInv, NEW n \in Nodes, Tick(n)
  PROVE  CInv'
<1>0. UNCHANGED <<up, gen, live, deaths, suspicions, highest, rows, call, net>>
  BY DEF Tick
<1>1. leader' \in [Nodes -> BOOLEAN]
  BY Types DEF Tick
<1>2. PICK b \in Nat : \A i \in Nodes, m \in Members : heard[i][m] <= b
  BY DEF CInv, Bounded
<1>3. CASE UNCHANGED <<epoch, heard>>
  <2>1. TypeOK'
    BY <1>0, <1>1, <1>3 DEF CInv, TypeOK, Self
  <2>2. Bounded'
    BY <1>0, <1>3 DEF CInv, Bounded, Self
  <2>3. \A i \in Nodes : epoch[i] <= epoch'[i]
    BY <1>3, Types
  <2> QED BY <1>0, <2>1, <2>2, <2>3, BeliefStep
<1>4. CASE /\ epoch' = [epoch EXCEPT ![n] = MaxEpoch(n) + 1]
           /\ heard' = [heard EXCEPT ![n][Self(n)] = MaxEpoch(n) + 1]
  <2> DEFINE e == MaxEpoch(n)
             H == {heard[n][m] : m \in live[n]}
  <2>1. /\ H \in SUBSET Nat /\ H # {} /\ epoch[n] \in H
        /\ \A x \in H : x <= b
    BY <1>2, Types
  <2>2. Largest(H) \in H /\ \A x \in H : x <= Largest(H)
    <3> HIDE DEF H
    <3> QED BY <2>1, LargestIn
  <2>3. e \in Nat /\ epoch[n] <= e /\ e <= b
    BY <2>1, <2>2 DEF MaxEpoch
  <2> HIDE DEF e, H
  <2>4. epoch' = [epoch EXCEPT ![n] = e + 1] /\ heard' = [heard EXCEPT ![n][Self(n)] = e + 1]
    BY <1>4 DEF e
  <2>5. /\ heard' \in [Nodes -> [Members -> Nat]] /\ epoch' \in [Nodes -> Nat]
        /\ heard'[n][Self(n)] = e + 1 /\ epoch'[n] = e + 1
        /\ \A i \in Nodes \ {n} : heard'[i] = heard[i] /\ epoch'[i] = epoch[i]
        /\ \A m \in Members \ {Self(n)} : heard'[n][m] = heard[n][m]
    BY <2>3, <2>4, Types
  <2>6. TypeOK'
    BY <1>0, <1>1, <2>5 DEF CInv, TypeOK, Self
  <2>7. \A i \in Nodes : epoch[i] <= epoch'[i]
    BY <2>3, <2>5, Types
  <2>8. Bounded'
    <3>1. \A i \in Nodes, m \in Members : heard'[i][m] <= b + 1
      BY <1>2, <2>3, <2>5, Types
    <3>2. ASSUME NEW i \in Nodes, NEW m \in Members
          PROVE  /\ m = Self(m.id) => heard'[i][m] <= epoch'[m.id]
                 /\ m.gen > gen[m.id] => heard'[i][m] = 0
      <4>1. m.id \in Nodes /\ epoch[m.id] <= epoch'[m.id]
        BY <2>7 DEF Members
      <4>2. /\ epoch[m.id] \in Nat /\ epoch'[m.id] \in Nat /\ heard[i][m] \in Nat
            /\ gen[m.id] \in 0 .. MaxDeaths
        <5>0. /\ epoch \in [Nodes -> Nat] /\ gen \in [Nodes -> 0 .. MaxDeaths]
              /\ heard \in [Nodes -> [Members -> Nat]]
          BY Types
        <5>1. epoch[m.id] \in Nat /\ gen[m.id] \in 0 .. MaxDeaths /\ heard[i][m] \in Nat
          BY <4>1, <5>0, ZenonT(60)
        <5>2. epoch'[m.id] \in Nat
          BY <4>1, <2>5
        <5> QED BY <5>1, <5>2
      <4>3. CASE i = n /\ m = Self(n)
        BY <2>5, <4>2, <4>3 DEF Self
      <4>4. CASE ~ (i = n /\ m = Self(n))
        <5>1. heard'[i][m] = heard[i][m]
          BY <2>5, <4>4
        <5>2. /\ m = Self(m.id) => heard[i][m] <= epoch[m.id]
              /\ m.gen > gen[m.id] => heard[i][m] = 0
          BY DEF CInv, Bounded
        <5>3. \A x \in Nat : x <= epoch[m.id] => x <= epoch'[m.id]
          BY <4>1, <4>2
        <5> QED BY <5>1, <5>2, <5>3, <4>2
      <4> QED BY <4>3, <4>4
    <3>3. \A i \in Nodes : Self(i)' = Self(i)
      BY <1>0 DEF Self
    <3>4. \A m \in Members : m.id \in Nodes
      BY DEF Members
    <3>5. b + 1 \in Nat
      OBVIOUS
    <3>6. \A i \in Nodes : gen'[i] <= deaths'
      BY <1>0 DEF CInv, Bounded
    <3>7. \A i \in Nodes, m \in Members :
            /\ m = Self(m.id)' => heard'[i][m] <= epoch'[m.id]
            /\ m.gen > gen'[m.id] => heard'[i][m] = 0
      BY <1>0, <3>2, <3>3, <3>4, Zenon
    <3>8. \E c \in Nat : \A i \in Nodes, m \in Members : heard'[i][m] <= c
      BY <3>1, <3>5
    <3> QED BY <3>6, <3>7, <3>8 DEF Bounded
  <2> QED BY <1>0, <2>6, <2>7, <2>8, BeliefStep
<1> QED BY <1>3, <1>4 DEF Tick

-----------------------------------------------------------------------------
(* Steps that ship a record, answer for it or give it up.                  *)

Tracked == [at : {"shipping", "waiting"}, by : Nodes, todo : SUBSET Nodes, acks : Nat,
            epoch : Nat, barred : SUBSET Members]
Closed  == [at : {"acked", "failed", "cut"}, by : Nodes]
Message == [rec : Records, to : Members, epoch : Nat, at : {"posted", "admitted"}]

\* The shapes a call and a message can have.
LEMMA CallTypes ==
  ASSUME CInv
  PROVE  /\ call \in [Records -> {Idle} \cup Closed \cup Tracked]
         /\ net \subseteq Message
         /\ \A r \in Records : Active(r) => call[r] \in Tracked
         /\ \A r \in Records : call[r].at = "idle" => call[r] = Idle
<1>1. call \in [Records -> {Idle} \cup Closed \cup Tracked] /\ net \subseteq Message
  BY DEF CInv, TypeOK, Tracked, Closed, Message
<1>2. \A r \in Records : Active(r) => call[r] \in Tracked
  BY ActiveCall DEF CInv, Tracked
<1>3. \A r \in Records : call[r].at = "idle" => call[r] = Idle
  <2> SUFFICES ASSUME NEW r \in Records, call[r].at = "idle"
               PROVE  call[r] = Idle
    OBVIOUS
  <2>1. call[r] \in {Idle} \cup Closed \cup Tracked
    BY <1>1
  <2> QED BY <2>1 DEF Closed, Tracked
<1> QED BY <1>1, <1>2, <1>3

\* A record that is acknowledged stays where it is.
LEMMA MoreHold ==
  ASSUME ClusterAssumption, CInv, \A s \in Nodes : rows[s] \subseteq rows'[s],
         \A r \in Records : call'[r].at = "acked" => call'[r] = call[r]
  PROVE  AckedIsReplicated'
<1> SUFFICES ASSUME NEW r \in Records, call'[r].at = "acked"
             PROVE  Cardinality({s \in Standbys[call'[r].by] : r \in rows'[s]})
                      >= Required(call'[r].by)
  BY DEF AckedIsReplicated, Required
<1>1. call'[r] = call[r]
  OBVIOUS
<1> DEFINE n == call[r].by
           S == {s \in Standbys[n] : r \in rows[s]}
           T == {s \in Standbys[n] : r \in rows'[s]}
<1>2. Cardinality(S) >= Required(n)
  BY <1>1 DEF CInv, AckedIsReplicated
<1>3. n \in Nodes
  BY <1>1, CallTypes DEF Closed, Tracked, Idle
<1>4. T \in SUBSET Standbys[n] /\ S \in SUBSET T /\ S \in SUBSET Standbys[n]
  BY <1>3 DEF ClusterAssumption
<1> HIDE DEF n, S, T
<1>5. Cardinality(S) <= Cardinality(T) /\ Cardinality(S) \in Nat /\ Cardinality(T) \in Nat
  BY <1>3, <1>4, MoreStandbys, StandbysFinite
<1>6. Required(n) \in Nat
  BY <1>3, StandbysFinite DEF Required, ClusterAssumption
<1>7. Cardinality(T) >= Required(n)
  BY <1>2, <1>5, <1>6
<1> QED BY <1>1, <1>7 DEF n, T

\* What becomes of a call that stays in progress.
Goes(r) ==
  /\ Active(r) /\ call'[r] \in Tracked
  /\ call'[r].by = call[r].by /\ call'[r].epoch = call[r].epoch
  /\ call'[r].barred = call[r].barred /\ call'[r].todo \subseteq call[r].todo
  /\ call'[r].at = "waiting" => call'[r].todo # {}
  /\ call'[r].acks = call[r].acks \/ call'[r].acks <= Cardinality(Confirmed(r)')

\* Such a step keeps the invariant when what it ships is in order.
LEMMA ShipStep ==
  ASSUME ClusterAssumption, CInv, UNCHANGED <<view, reigns>>,
         highest' \in [Nodes -> Nat], \A s \in Nodes : highest[s] <= highest'[s],
         rows' \in [Nodes -> SUBSET Records], \A s \in Nodes : rows[s] \subseteq rows'[s],
         call' \in [Records -> {Idle} \cup Closed \cup Tracked], net' \subseteq Message,
         \A r \in Records : call'[r] = call[r] \/ Goes(r),
         \A m \in net' \ net :
           /\ call[m.rec] # Idle
           /\ Active(m.rec) /\ SameReign(m.rec) => m.epoch = call[m.rec].epoch
           /\ m.at = "admitted" => m.to = Self(m.to.id) /\ m.epoch >= highest[m.to.id]
  PROVE  CInv'
<1>1. UNCHANGED <<up, gen, live, heard, deaths, suspicions, leader, epoch>>
  BY DEF view, reigns
<1>2. \A n \in Nodes : Self(n)' = Self(n)
  BY <1>1 DEF Self
<1>3. TypeOK'
  BY <1>1, <1>2, Types DEF TypeOK, Tracked, Closed, Message
<1>4. Bounded'
  BY <1>1 DEF CInv, Bounded, Self
<1>5. \A r \in Records : (Active(r)' => Active(r)) /\ (call[r] # Idle => call'[r] # Idle)
  BY DEF Goes, Active, Tracked, Idle
<1>6. \A r \in Records : Active(r)' =>
        /\ call'[r].by = call[r].by /\ call'[r].epoch = call[r].epoch
        /\ call'[r].barred = call[r].barred /\ call'[r].todo \subseteq call[r].todo
        /\ call'[r].at = "waiting" => call'[r].todo # {}
        /\ call'[r].acks = call[r].acks \/ call'[r].acks <= Cardinality(Confirmed(r)')
        /\ SameReign(r)' = SameReign(r)
  BY <1>1, <1>5 DEF Goes, CInv, CallsOK, SameReign, Active
<1>7. CallsOK'
  BY <1>1, <1>5, <1>6 DEF CInv, CallsOK
<1>8. NetOK'
  <2> SUFFICES ASSUME NEW m \in net'
               PROVE  /\ call'[m.rec] # Idle
                      /\ Active(m.rec)' /\ SameReign(m.rec)' => m.epoch = call'[m.rec].epoch
                      /\ m.at = "admitted" => m.to = Self(m.to.id)
    BY <1>1 DEF NetOK, Self
  <2>1. m.rec \in Records
    BY DEF Message
  <2>2. /\ call[m.rec] # Idle
        /\ Active(m.rec) /\ SameReign(m.rec) => m.epoch = call[m.rec].epoch
        /\ m.at = "admitted" => m.to = Self(m.to.id)
    BY DEF CInv, NetOK
  <2> QED BY <1>5, <1>6, <2>1, <2>2
<1>9. StillBarred'
  <2> SUFFICES ASSUME NEW r \in Records, NEW s \in Nodes, Active(r)', SameReign(r)',
                      Self(s) \in call'[r].barred
               PROVE  /\ highest'[s] > call'[r].epoch
                      /\ \A m \in net' : m.rec = r /\ m.to = Self(s) => m.at = "posted"
    BY <1>2 DEF StillBarred
  <2>1. /\ Active(r) /\ SameReign(r) /\ Self(s) \in call[r].barred
        /\ call'[r].epoch = call[r].epoch
    BY <1>5, <1>6
  <2>2. /\ highest[s] > call[r].epoch
        /\ \A m \in net : m.rec = r /\ m.to = Self(s) => m.at = "posted"
    BY <2>1 DEF CInv, StillBarred
  <2>3. /\ highest[s] \in Nat /\ highest'[s] \in Nat /\ call[r].epoch \in Nat
        /\ highest[s] <= highest'[s]
    BY <2>1, Types, CallTypes DEF Tracked
  <2>4. highest'[s] > call'[r].epoch
    BY <2>1, <2>2, <2>3
  <2>5. ASSUME NEW m \in net' \ net, m.rec = r, m.to = Self(s)
        PROVE  m.at = "posted"
    <3>1. m.at \in {"posted", "admitted"} /\ m.to.id = s
      BY <2>5 DEF Message, Self
    <3>2. m.epoch = call[r].epoch
      BY <2>1, <2>5
    <3>3. ~ (m.epoch >= highest[s])
      BY <2>2, <2>3, <3>2
    <3> QED BY <3>1, <3>3
  <2> QED BY <2>2, <2>4, <2>5
<1>10. AcksCounted'
  <2> SUFFICES ASSUME NEW r \in Records, Active(r)', call'[r].acks = call[r].acks
               PROVE  call'[r].acks <= Cardinality(Confirmed(r)')
    BY <1>6 DEF AcksCounted
  <2>1. Active(r) /\ call[r].acks <= Cardinality(Confirmed(r)) /\ call[r] \in Tracked
    BY <1>5, CallTypes DEF CInv, AcksCounted
  <2>2. Confirmed(r) \subseteq Confirmed(r)'
    <3>1. call[r].by \in Nodes /\ Standbys[call[r].by] \subseteq Nodes
      BY <2>1 DEF Tracked, ClusterAssumption
    <3> QED BY <1>2, <1>6, <3>1 DEF Confirmed
  <2>3. TypeOK /\ call'[r].by = call[r].by /\ call'[r].acks <= call[r].acks /\ call'[r].acks \in Nat
    BY <1>6, <2>1 DEF CInv, Tracked
  <2> QED BY <2>1, <2>2, <2>3, AcksStay
<1>11. AckedIsReplicated'
  <2>1. \A r \in Records : call'[r].at = "acked" => call'[r] = call[r]
    BY DEF Goes, Tracked
  <2> QED BY <2>1, MoreHold
<1> QED BY <1>3, <1>4, <1>7, <1>8, <1>9, <1>10, <1>11 DEF CInv

\* The request goes out.
LEMMA SendInv ==
  ASSUME ClusterAssumption, CInv, NEW r \in Records, Send(r)
  PROVE  CInv'
<1> DEFINE n == call[r].by
           s == Smallest(call[r].todo)
           m == [rec |-> r, to |-> Self(s), epoch |-> epoch[n], at |-> "posted"]
<1>1. /\ call[r].at = "shipping" /\ call[r].todo # {} /\ net' = net \cup {m}
      /\ call' = [call EXCEPT ![r].at = "waiting"]
      /\ UNCHANGED <<view, reigns, highest, rows>>
  BY DEF Send
<1>2. Active(r) /\ call[r] \in Tracked
  BY <1>1, CallTypes DEF Active
<1>3. n \in Nodes /\ call[r].todo \subseteq Nodes /\ call[r].todo \subseteq Nat
  BY <1>2 DEF Tracked, ClusterAssumption
<1>4. s \in Nodes
  BY <1>1, <1>3, SmallestIn
<1> HIDE DEF s
<1>5. m \in Message
  BY <1>3, <1>4, Types DEF Message
<1>6. /\ call'[r] = [call[r] EXCEPT !.at = "waiting"]
      /\ \A q \in Records : q # r => call'[q] = call[q]
      /\ call' \in [Records -> {Idle} \cup Closed \cup Tracked]
  BY <1>1, <1>2, CallTypes DEF Tracked
<1>7. Goes(r)
  BY <1>1, <1>2, <1>6 DEF Goes, Tracked
<1>8. /\ highest' \in [Nodes -> Nat] /\ \A i \in Nodes : highest[i] <= highest'[i]
      /\ rows' \in [Nodes -> SUBSET Records] /\ \A i \in Nodes : rows[i] \subseteq rows'[i]
  BY <1>1, Types
<1>9. ASSUME NEW x \in net' \ net
      PROVE  /\ call[x.rec] # Idle
             /\ Active(x.rec) /\ SameReign(x.rec) => x.epoch = call[x.rec].epoch
             /\ x.at = "admitted" => x.to = Self(x.to.id) /\ x.epoch >= highest[x.to.id]
  BY <1>1, <1>2, <1>9 DEF SameReign, Tracked, Idle
<1>10. net' \subseteq Message
  BY <1>1, <1>5, CallTypes
<1>11. \A q \in Records : call'[q] = call[q] \/ Goes(q)
  BY <1>6, <1>7
<1> QED BY <1>1, <1>6, <1>8, <1>9, <1>10, <1>11, ShipStep

\* What a call looks like after the answer of a standby, or without it.
Turned(c, s, k) == [c EXCEPT !.at = "shipping", !.todo = @ \ {s}, !.acks = k]

\* The fields of a call that has heard from a standby.
LEMMA OutcomeOf ==
  ASSUME NEW c \in Tracked, NEW s, NEW k \in Nat, NEW o, o = Turned(c, s, k)
  PROVE  /\ o \in Tracked /\ o.at = "shipping" /\ o.by = c.by /\ o.todo = c.todo \ {s}
         /\ o.acks = k /\ o.epoch = c.epoch /\ o.barred = c.barred
<1> DEFINE w == [c EXCEPT !.at = "shipping"]
           x == [w EXCEPT !.todo = c.todo \ {s}]
           y == [x EXCEPT !.acks = k]
<1>1. /\ w \in Tracked /\ w.at = "shipping" /\ w.todo = c.todo /\ w.acks = c.acks
      /\ w.by = c.by /\ w.epoch = c.epoch /\ w.barred = c.barred
  BY DEF Tracked
<1>0. c.todo \ {s} \in SUBSET Nodes
  BY DEF Tracked
<1>2. /\ x \in Tracked /\ x.at = "shipping" /\ x.todo = c.todo \ {s} /\ x.acks = c.acks
      /\ x.by = c.by /\ x.epoch = c.epoch /\ x.barred = c.barred
  <2> HIDE DEF w
  <2> QED BY <1>0, <1>1 DEF Tracked
<1>3. /\ y \in Tracked /\ y.at = "shipping" /\ y.todo = c.todo \ {s} /\ y.acks = k
      /\ y.by = c.by /\ y.epoch = c.epoch /\ y.barred = c.barred
  <2> HIDE DEF w, x
  <2> QED BY <1>0, <1>2 DEF Tracked
<1>4. o = y
  BY DEF Turned
<1> HIDE DEF y
<1> QED BY <1>3, <1>4

\* A call turns to its next standby with no ack more.
LEMMA TurnsTo ==
  ASSUME ClusterAssumption, CInv, NEW r \in Records, call[r].at = "waiting", NEW s,
         call' = [call EXCEPT ![r] = Outcome(call[r], s, FALSE)]
  PROVE  /\ call' \in [Records -> {Idle} \cup Closed \cup Tracked]
         /\ \A q \in Records : call'[q] = call[q] \/ Goes(q)
<1>1. Active(r) /\ call[r] \in Tracked
  BY CallTypes DEF Active
<1>0. call[r].acks \in Nat /\ call[r].acks + 0 = call[r].acks
  BY <1>1 DEF Tracked
<1>2. /\ call'[r] = Turned(call[r], s, call[r].acks)
      /\ \A q \in Records : q # r => call'[q] = call[q]
  BY <1>0, CallTypes DEF Outcome, Turned
<1>3. /\ call'[r] \in Tracked /\ call'[r].acks = call[r].acks /\ call'[r].at = "shipping"
      /\ call'[r].by = call[r].by /\ call'[r].todo = call[r].todo \ {s}
      /\ call'[r].epoch = call[r].epoch /\ call'[r].barred = call[r].barred
  BY ONLY <1>0, <1>1, <1>2, OutcomeOf
<1>5. Goes(r)
  BY <1>1, <1>3 DEF Goes
<1>6. call' \in [Records -> {Idle} \cup Closed \cup Tracked]
  BY <1>2, <1>3, CallTypes
<1> QED BY <1>2, <1>5, <1>6

\* Giving up on a standby: it no longer counts as asked.
LEMMA GiveUpInv ==
  ASSUME ClusterAssumption, CInv, NEW r \in Records, GiveUp(r)
  PROVE  CInv'
<1>1. UNCHANGED <<view, reigns, highest, rows, net>> /\ call[r].at = "waiting"
  BY DEF GiveUp
<1>2. /\ call' \in [Records -> {Idle} \cup Closed \cup Tracked]
      /\ \A q \in Records : call'[q] = call[q] \/ Goes(q)
  BY <1>1, TurnsTo DEF GiveUp
<1>3. /\ highest' \in [Nodes -> Nat] /\ \A i \in Nodes : highest[i] <= highest'[i]
      /\ rows' \in [Nodes -> SUBSET Records] /\ \A i \in Nodes : rows[i] \subseteq rows'[i]
      /\ net' \subseteq Message /\ net' \ net = {}
  BY <1>1, Types, CallTypes
<1> QED BY <1>1, <1>2, <1>3, ShipStep

\* An answer that does not confirm.
LEMMA ReplyNo ==
  ASSUME ClusterAssumption, CInv, NEW m \in net, Reply(m, FALSE)
  PROVE  /\ call' \in [Records -> {Idle} \cup Closed \cup Tracked]
         /\ \A q \in Records : call'[q] = call[q] \/ Goes(q)
<1>1. m.rec \in Records
  BY CallTypes DEF Message
<1>2. CASE call' = call
  BY <1>2, CallTypes
<1>3. CASE /\ call[m.rec].at = "waiting"
           /\ call' = [call EXCEPT ![m.rec] = Outcome(call[m.rec], m.to.id, FALSE)]
  BY <1>1, <1>3, TurnsTo
<1> QED BY <1>2, <1>3 DEF Reply

\* A shipped record that is refused.
LEMMA RefuseInv ==
  ASSUME ClusterAssumption, CInv, NEW m \in net, Refuse(m)
  PROVE  CInv'
<1>1. UNCHANGED <<view, reigns, highest, rows>> /\ net' = net \ {m} /\ Reply(m, FALSE)
  BY DEF Refuse
<1>2. /\ call' \in [Records -> {Idle} \cup Closed \cup Tracked]
      /\ \A q \in Records : call'[q] = call[q] \/ Goes(q)
  BY <1>1, ReplyNo
<1>3. /\ highest' \in [Nodes -> Nat] /\ \A i \in Nodes : highest[i] <= highest'[i]
      /\ rows' \in [Nodes -> SUBSET Records] /\ \A i \in Nodes : rows[i] \subseteq rows'[i]
      /\ net' \subseteq Message /\ net' \ net = {}
  BY <1>1, Types, CallTypes
<1> QED BY <1>1, <1>2, <1>3, ShipStep

\* The fence lets a record through, and will not let an older one through.
LEMMA AdmitInv ==
  ASSUME ClusterAssumption, CInv, NEW m \in net, Admit(m)
  PROVE  CInv'
<1> DEFINE a == [m EXCEPT !.at = "admitted"]
<1>1. /\ UNCHANGED <<view, reigns, rows, call>> /\ m.to \in Alive /\ m.epoch >= highest[m.to.id]
      /\ highest' = [highest EXCEPT ![m.to.id] = m.epoch]
      /\ net' = (net \ {m}) \cup {a}
  BY DEF Admit, Posted
<1>2. m \in Message /\ m.to.id \in Nodes /\ m.to = Self(m.to.id) /\ m.epoch \in Nat
  <2>1. m \in Message
    BY CallTypes
  <2>2. m.to \in Members /\ m.epoch \in Nat
    BY <2>1 DEF Message
  <2>3. m.to.id \in Nodes
    BY <2>2 DEF Members
  <2>4. m.to = Self(m.to.id)
    BY <1>1 DEF Alive, Self
  <2> QED BY <2>1, <2>2, <2>3, <2>4
<1>3. /\ a \in Message /\ a.rec = m.rec /\ a.to = m.to /\ a.epoch = m.epoch
  <2>1. m \in [rec : Records, to : Members, epoch : Nat, at : {"posted", "admitted"}]
    BY <1>2 DEF Message
  <2>2. /\ a \in [rec : Records, to : Members, epoch : Nat, at : {"posted", "admitted"}]
        /\ a.rec = m.rec /\ a.to = m.to /\ a.epoch = m.epoch
    BY ONLY <2>1
  <2> QED BY <2>2 DEF Message
<1>4. /\ highest' \in [Nodes -> Nat] /\ \A i \in Nodes : highest[i] <= highest'[i]
      /\ rows' \in [Nodes -> SUBSET Records] /\ \A i \in Nodes : rows[i] \subseteq rows'[i]
  BY <1>1, <1>2, Types
<1>5. net' \subseteq Message /\ net' \ net \subseteq {a}
  BY <1>1, <1>3, CallTypes
<1> HIDE DEF a
<1>6. /\ call[a.rec] # Idle
      /\ Active(a.rec) /\ SameReign(a.rec) => a.epoch = call[a.rec].epoch
      /\ a.to = Self(a.to.id) /\ a.epoch >= highest[a.to.id]
  BY <1>1, <1>2, <1>3 DEF CInv, NetOK
<1>7. ASSUME NEW x \in net' \ net
      PROVE  /\ call[x.rec] # Idle
             /\ Active(x.rec) /\ SameReign(x.rec) => x.epoch = call[x.rec].epoch
             /\ x.at = "admitted" => x.to = Self(x.to.id) /\ x.epoch >= highest[x.to.id]
  BY <1>5, <1>6
<1>8. /\ call' \in [Records -> {Idle} \cup Closed \cup Tracked]
      /\ \A q \in Records : call'[q] = call[q]
  BY <1>1, CallTypes
<1> QED BY <1>1, <1>4, <1>5, <1>7, <1>8, ShipStep

\* A shipped record whose application fails, before or after it is stored.
LEMMA ApplyFailsInv ==
  ASSUME ClusterAssumption, CInv, NEW m \in net, ApplyShippedFails(m)
  PROVE  CInv'
<1>1. /\ UNCHANGED <<view, reigns, highest>> /\ net' = net \ {m} /\ Reply(m, FALSE)
      /\ rows' \in {rows, [rows EXCEPT ![m.to.id] = @ \cup {m.rec}]}
  BY DEF ApplyShippedFails
<1>2. /\ call' \in [Records -> {Idle} \cup Closed \cup Tracked]
      /\ \A q \in Records : call'[q] = call[q] \/ Goes(q)
  BY <1>1, ReplyNo
<1>3. m.rec \in Records
  BY CallTypes DEF Message
<1>4. /\ highest' \in [Nodes -> Nat] /\ \A i \in Nodes : highest[i] <= highest'[i]
      /\ rows' \in [Nodes -> SUBSET Records] /\ \A i \in Nodes : rows[i] \subseteq rows'[i]
      /\ net' \subseteq Message /\ net' \ net = {}
  BY <1>1, <1>3, Types, CallTypes
<1> QED BY <1>1, <1>2, <1>4, ShipStep

\* The standby applies the record and its answer counts.
LEMMA ApplyInv ==
  ASSUME ClusterAssumption, CInv, NEW m \in net, ApplyShipped(m)
  PROVE  CInv'
<1> DEFINE r == m.rec
           s == m.to.id
<1>1. /\ UNCHANGED <<view, reigns, highest>> /\ net' = net \ {m} /\ Reply(m, TRUE)
      /\ m.at = "admitted" /\ rows' = [rows EXCEPT ![s] = @ \cup {r}]
  BY DEF ApplyShipped
<1>2. r \in Records /\ s \in Nodes /\ m.to = Self(s)
  <2>1. m \in Message
    BY CallTypes
  <2>2. m.to \in Members /\ r \in Records
    BY <2>1 DEF Message
  <2> QED BY <1>1, <2>2 DEF CInv, NetOK, Members
<1>3. /\ highest' \in [Nodes -> Nat] /\ \A i \in Nodes : highest[i] <= highest'[i]
      /\ rows' \in [Nodes -> SUBSET Records] /\ \A i \in Nodes : rows[i] \subseteq rows'[i]
      /\ net' \subseteq Message /\ net' \ net = {} /\ r \in rows'[s]
  <2> HIDE DEF r, s
  <2>1. highest' = highest /\ net' = net \ {m} /\ net \subseteq Message
    BY <1>1, CallTypes
  <2>2. /\ rows' \in [Nodes -> SUBSET Records] /\ r \in rows'[s]
        /\ \A i \in Nodes : rows[i] \subseteq rows'[i]
    BY <1>1, <1>2, Types
  <2> QED BY <2>1, <2>2, Types
<1>4. /\ call' \in [Records -> {Idle} \cup Closed \cup Tracked]
      /\ \A q \in Records : call'[q] = call[q] \/ Goes(q)
  <2>1. CASE call' = call
    BY <2>1, CallTypes
  <2>2. CASE /\ call[r].at = "waiting" /\ Smallest(call[r].todo) = s
             /\ call' = [call EXCEPT ![r] = Outcome(call[r], s, TRUE)]
    <3> HIDE DEF r, s
    <3>1. Active(r) /\ call[r] \in Tracked
      BY <1>2, <2>2, CallTypes DEF Active
    <3>0. call[r].acks + 1 \in Nat
      BY <3>1 DEF Tracked
    <3>2. /\ call'[r] = Turned(call[r], s, call[r].acks + 1)
          /\ \A q \in Records : q # r => call'[q] = call[q]
      BY <1>2, <2>2, CallTypes DEF Outcome, Turned
    <3>3. /\ call'[r] \in Tracked /\ call'[r].at = "shipping" /\ call'[r].acks = call[r].acks + 1
          /\ call'[r].by = call[r].by /\ call'[r].todo = call[r].todo \ {s}
          /\ call'[r].epoch = call[r].epoch /\ call'[r].barred = call[r].barred
      BY <3>0, <3>1, <3>2, OutcomeOf
    <3> DEFINE n == call[r].by
    <3>4. /\ n \in Nodes /\ call[r].todo \subseteq Standbys[n] /\ call[r].todo # {}
          /\ Standbys[n] \subseteq Nat /\ Standbys[n] \subseteq Nodes
      BY <1>2, <2>2, <3>1 DEF Tracked, ClusterAssumption, CInv, CallsOK
    <3>5. s \in call[r].todo
      BY <2>2, <3>4, SmallestIn
    <3>6. epoch' = epoch /\ gen' = gen /\ \A i \in Nodes : Self(i)' = Self(i)
      BY <1>1 DEF reigns, view, Self
    <3>7. SameReign(r)' = SameReign(r)
      BY <3>3, <3>6 DEF SameReign
    <3>8. SameReign(r) => Self(s) \notin call[r].barred
      BY <1>1, <1>2, <3>1 DEF CInv, StillBarred, r
    <3>9. s \in Confirmed(r)' /\ s \notin Confirmed(r)
      BY <1>2, <1>3, <3>3, <3>4, <3>5, <3>6, <3>7, <3>8 DEF Confirmed
    <3>10. Confirmed(r) \subseteq Confirmed(r)' /\ Confirmed(r)' \subseteq Standbys[n]
      BY <1>3, <3>3, <3>4, <3>6, <3>7 DEF Confirmed
    <3>11. Cardinality(Confirmed(r)) + 1 <= Cardinality(Confirmed(r)')
      BY <3>4, <3>9, <3>10, OneMore
    <3>12. call[r].acks <= Cardinality(Confirmed(r)) /\ call[r].acks \in Nat
      BY <1>2, <3>1 DEF CInv, AcksCounted, Tracked
    <3>13. Cardinality(Confirmed(r)) \in Nat /\ Cardinality(Confirmed(r)') \in Nat
      BY <3>4, <3>10, StandbysFinite
    <3>14. call'[r].acks <= Cardinality(Confirmed(r)')
      BY <3>3, <3>11, <3>12, <3>13
    <3>15. Goes(r)
      BY <3>1, <3>3, <3>14 DEF Goes
    <3>16. call' \in [Records -> {Idle} \cup Closed \cup Tracked]
      BY <1>2, <2>2, <3>2, <3>3, CallTypes
    <3> QED BY <3>2, <3>15, <3>16
  <2> QED BY <1>1, <2>1, <2>2 DEF Reply
<1> QED BY <1>1, <1>3, <1>4, ShipStep

-----------------------------------------------------------------------------
(* A call comes in, and ends.                                              *)

\* A write is accepted by a node that leads: its call begins.
LEMMA AcceptInv ==
  ASSUME ClusterAssumption, CInv, NEW r \in Records, NEW n \in Nodes, Accept(r, n)
  PROVE  CInv'
<1> DEFINE B == {Self(s) : s \in {t \in Standbys[n] : highest[t] > epoch[n]}}
           c == [at |-> "shipping", by |-> n, todo |-> Standbys[n], acks |-> 0,
                 epoch |-> epoch[n], barred |-> B]
<1>1. /\ UNCHANGED <<view, reigns, highest, net>> /\ call[r] = Idle
      /\ rows' = [rows EXCEPT ![n] = @ \cup {r}] /\ call' = [call EXCEPT ![r] = c]
  BY CallTypes DEF Accept
<1>2. /\ UNCHANGED <<up, gen, live, heard, deaths, suspicions, leader, epoch, highest, net>>
      /\ \A i \in Nodes : Self(i)' = Self(i)
  BY <1>1 DEF view, reigns, Self
<1>3. Standbys[n] \subseteq Nodes /\ B \subseteq Members /\ epoch[n] \in Nat
  BY Types DEF ClusterAssumption
<1>4. \A m \in B : m.gen <= gen[m.id] /\ highest[m.id] > epoch[n]
  BY <1>3, Types DEF Self
<1> HIDE DEF B
<1>5. c \in Tracked
  BY <1>3 DEF Tracked
<1>6. /\ call' \in [Records -> {Idle} \cup Closed \cup Tracked]
      /\ call'[r] = c /\ \A q \in Records : q # r => call'[q] = call[q]
  BY <1>1, <1>5, CallTypes
<1>7. rows' \in [Nodes -> SUBSET Records] /\ \A i \in Nodes : rows[i] \subseteq rows'[i]
  BY <1>1, Types
<1>8. TypeOK'
  BY <1>2, <1>6, <1>7, Types, CallTypes DEF TypeOK, Tracked, Closed, Message
<1>9. Bounded'
  BY <1>2 DEF CInv, Bounded, Self
<1>10. \A q \in Records : q # r => /\ Active(q)' = Active(q) /\ SameReign(q)' = SameReign(q)
                                 /\ call'[q] = call[q]
  BY <1>2, <1>6 DEF Active, SameReign
<1>11. CallsOK'
  <2>1. /\ call'[r].todo \subseteq Standbys[call'[r].by] /\ call'[r].at # "waiting"
        /\ call'[r].epoch <= epoch'[call'[r].by]
        /\ \A m \in call'[r].barred : m.gen <= gen'[m.id]
    BY <1>2, <1>3, <1>4, <1>6
  <2> QED BY <1>2, <1>10, <2>1 DEF CInv, CallsOK
<1>12. \A m \in net : m.rec # r /\ m.rec \in Records
  BY <1>1, CallTypes DEF CInv, NetOK, Message
<1>13. NetOK'
  BY <1>2, <1>10, <1>12 DEF CInv, NetOK, Self
<1>14. StillBarred'
  <2> SUFFICES ASSUME NEW q \in Records, NEW s \in Nodes, Active(q)', SameReign(q)',
                      Self(s) \in call'[q].barred
               PROVE  /\ highest[s] > call'[q].epoch
                      /\ \A m \in net : m.rec = q /\ m.to = Self(s) => m.at = "posted"
    BY <1>2 DEF StillBarred
  <2>1. CASE q = r
    <3>1. Self(s) \in B /\ Self(s).id = s /\ call'[q].epoch = epoch[n]
      BY <1>6, <2>1 DEF Self
    <3>2. highest[s] > epoch[n]
      BY <1>4, <3>1
    <3> QED BY <1>12, <2>1, <3>1, <3>2
  <2>2. CASE q # r
    BY <1>10, <2>2 DEF CInv, StillBarred
  <2> QED BY <2>1, <2>2
<1>15. AcksCounted'
  <2> SUFFICES ASSUME NEW q \in Records, Active(q)'
               PROVE  call'[q].acks <= Cardinality(Confirmed(q)')
    BY DEF AcksCounted
  <2>1. CASE q = r
    <3>1. Confirmed(r)' \in SUBSET Standbys[n] /\ call'[r].acks = 0
      BY <1>6 DEF Confirmed
    <3> QED BY <2>1, <3>1, StandbysFinite
  <2>2. CASE q # r
    <3>1. Active(q) /\ call'[q] = call[q] /\ call[q] \in Tracked
      BY <1>10, <2>2, CallTypes
    <3>2. Confirmed(q) \subseteq Confirmed(q)'
      <4>1. call[q].by \in Nodes /\ Standbys[call[q].by] \subseteq Nodes
        BY <3>1 DEF Tracked, ClusterAssumption
      <4> QED BY <1>2, <1>7, <1>10, <2>2, <4>1 DEF Confirmed
    <3>3. TypeOK /\ call[q].acks \in Nat /\ call[q].acks <= Cardinality(Confirmed(q))
      BY <3>1 DEF CInv, AcksCounted, Tracked
    <3> QED BY <3>1, <3>2, <3>3, AcksStay
  <2> QED BY <2>1, <2>2
<1>16. AckedIsReplicated'
  BY <1>6, <1>7, MoreHold DEF CInv
<1> QED BY <1>8, <1>9, <1>11, <1>13, <1>14, <1>15, <1>16 DEF CInv

\* A call that ends leaves only constraints behind that hold already.
LEMMA EndStep ==
  ASSUME ClusterAssumption, CInv, UNCHANGED rows, TypeOK', Bounded',
         \A r \in Records : Active(r)' =>
           /\ call'[r] = call[r] /\ epoch'[call[r].by] = epoch[call[r].by]
           /\ \A s \in Nodes : Self(s)' \in call[r].barred =>
                Self(s)' = Self(s) /\ highest'[s] = highest[s],
         \A r \in Records : call[r] # Idle => call'[r] # Idle,
         \A s \in Nodes : gen[s] <= gen'[s],
         net' \subseteq net, \A m \in net' : Self(m.to.id)' = Self(m.to.id),
         AckedIsReplicated'
  PROVE  CInv'
<1>1. \A r \in Records : Active(r)' => /\ Active(r) /\ SameReign(r)' = SameReign(r)
                                     /\ call[r] \in Tracked
  BY CallTypes DEF Active, SameReign
<1>2. \A m \in net : m.rec \in Records
  BY CallTypes DEF Message
<1>3. CallsOK'
  <2> SUFFICES ASSUME NEW r \in Records, Active(r)'
               PROVE  /\ call[r].todo \subseteq Standbys[call[r].by]
                      /\ call[r].at = "waiting" => call[r].todo # {}
                      /\ call[r].epoch <= epoch[call[r].by]
                      /\ \A m \in call[r].barred : m.gen <= gen'[m.id]
    BY DEF CallsOK
  <2>1. Active(r) /\ call[r] \in Tracked
    BY <1>1
  <2>2. ASSUME NEW m \in call[r].barred
        PROVE  m.gen <= gen'[m.id]
    <3>1. m \in Members /\ m.gen <= gen[m.id]
      BY <2>1 DEF Tracked, CInv, CallsOK
    <3>2. m.id \in Nodes /\ m.gen \in Nat
      BY <3>1 DEF Members
    <3>0. gen \in [Nodes -> 0 .. MaxDeaths] /\ gen' \in [Nodes -> 0 .. MaxDeaths]
      BY Types DEF TypeOK
    <3>3. /\ gen[m.id] \in 0 .. MaxDeaths /\ gen'[m.id] \in 0 .. MaxDeaths
          /\ gen[m.id] <= gen'[m.id]
      BY <3>0, <3>2
    <3> QED BY <3>1, <3>2, <3>3
  <2> QED BY <2>1, <2>2 DEF CInv, CallsOK
<1>4. NetOK'
  BY <1>1, <1>2 DEF CInv, NetOK
<1>5. StillBarred'
  <2> SUFFICES ASSUME NEW r \in Records, NEW s \in Nodes, Active(r)', SameReign(r)',
                      Self(s)' \in call'[r].barred
               PROVE  /\ highest'[s] > call'[r].epoch
                      /\ \A m \in net' : m.rec = r /\ m.to = Self(s)' => m.at = "posted"
    BY DEF StillBarred
  <2>1. /\ Active(r) /\ SameReign(r) /\ call'[r] = call[r] /\ Self(s)' = Self(s)
        /\ highest'[s] = highest[s] /\ Self(s) \in call[r].barred
    BY <1>1
  <2> QED BY <2>1 DEF CInv, StillBarred
<1>6. AcksCounted'
  <2> SUFFICES ASSUME NEW r \in Records, Active(r)'
               PROVE  call'[r].acks <= Cardinality(Confirmed(r)')
    BY DEF AcksCounted
  <2>1. /\ Active(r) /\ call'[r] = call[r] /\ call[r] \in Tracked /\ SameReign(r)' = SameReign(r)
    BY <1>1
  <2>2. Confirmed(r) \subseteq Confirmed(r)'
    <3>1. call[r].by \in Nodes /\ Standbys[call[r].by] \subseteq Nodes
      BY <2>1 DEF Tracked, ClusterAssumption
    <3> QED BY <2>1, <3>1 DEF Confirmed
  <2>3. TypeOK /\ call[r].acks \in Nat /\ call[r].acks <= Cardinality(Confirmed(r))
    BY <2>1 DEF CInv, AcksCounted, Tracked
  <2> QED BY <2>1, <2>2, <2>3, AcksStay
<1> QED BY <1>3, <1>4, <1>5, <1>6 DEF CInv

\* What an acknowledged call has been confirmed by.
LEMMA ConfirmedEnough ==
  ASSUME ClusterAssumption, CInv, NEW r \in Records, Finish(r), call'[r].at = "acked"
  PROVE  /\ call[r] \in Tracked /\ call'[r].by = call[r].by
         /\ Required(call[r].by) <= Cardinality(Confirmed(r))
<1>1. Active(r) /\ call[r] \in Tracked
  BY CallTypes DEF Active, Finish
<1>2. call'[r] = Over(IF call[r].acks >= Required(call[r].by) THEN "acked" ELSE "failed", call[r].by)
  BY CallTypes DEF Finish
<1>3. call'[r].by = call[r].by /\ call[r].acks >= Required(call[r].by)
  BY <1>2 DEF Over
<1>4. call[r].by \in Nodes /\ call[r].acks \in Nat /\ call[r].acks <= Cardinality(Confirmed(r))
  BY <1>1 DEF Tracked, CInv, AcksCounted
<1>5. Required(call[r].by) \in Nat
  BY <1>4, StandbysFinite DEF Required, ClusterAssumption
<1>6. Cardinality(Confirmed(r)) \in Nat
  BY <1>4, StandbysFinite DEF Confirmed
<1> QED BY <1>1, <1>3, <1>4, <1>5, <1>6

\* A call ends, acknowledged or failed.
LEMMA FinishInv ==
  ASSUME ClusterAssumption, CInv, NEW r \in Records, Finish(r)
  PROVE  CInv'
<1> DEFINE n == call[r].by
           o == Over(IF call[r].acks >= Required(n) THEN "acked" ELSE "failed", n)
<1>1. /\ UNCHANGED <<view, reigns, highest, rows, net>> /\ Active(r) /\ call[r] \in Tracked
      /\ call' = [call EXCEPT ![r] = o]
  BY CallTypes DEF Finish, Active
<1>2. o \in Closed /\ o # Idle /\ n \in Nodes
  BY <1>1 DEF Over, Closed, Tracked, Idle
<1> HIDE DEF o
<1>3. /\ call' \in [Records -> {Idle} \cup Closed \cup Tracked]
      /\ call'[r] = o /\ \A q \in Records : q # r => call'[q] = call[q]
  BY <1>1, <1>2, CallTypes
<1>4. /\ UNCHANGED <<up, gen, live, heard, deaths, suspicions, leader, epoch, highest, net, rows>>
      /\ \A i : Self(i)' = Self(i)
  BY <1>1 DEF view, reigns, Self
<1>5. TypeOK'
  BY <1>3, <1>4, Types, CallTypes DEF TypeOK, Tracked, Closed, Message
<1>6. Bounded'
  BY <1>4 DEF CInv, Bounded, Self
<1>7. \A q \in Records : Active(q)' => call'[q] = call[q]
  BY <1>2, <1>3 DEF Active, Closed
<1>8. \A q \in Records : call[q] # Idle => call'[q] # Idle
  BY <1>2, <1>3
<1>9. AckedIsReplicated'
  <2> SUFFICES ASSUME NEW q \in Records, call'[q].at = "acked"
               PROVE  Cardinality({s \in Standbys[call'[q].by] : q \in rows[s]})
                        >= Required(call'[q].by)
    BY <1>4 DEF AckedIsReplicated, Required
  <2>1. CASE q = r
    <3> DEFINE T == {s \in Standbys[n] : r \in rows[s]}
    <3>1. call'[r].by = n /\ Required(n) <= Cardinality(Confirmed(r))
      BY <2>1, ConfirmedEnough
    <3>2. Confirmed(r) \in SUBSET T /\ T \in SUBSET Standbys[n]
      BY DEF Confirmed
    <3>3. Cardinality(Confirmed(r)) <= Cardinality(T)
      BY <1>2, <3>2, MoreStandbys
    <3>4. Required(n) \in Nat /\ Cardinality(Confirmed(r)) \in Nat /\ Cardinality(T) \in Nat
      BY <1>2, <3>2, StandbysFinite DEF Required, ClusterAssumption
    <3> HIDE DEF T, n
    <3>5. Cardinality(T) >= Required(n)
      BY <3>1, <3>3, <3>4
    <3>6. T = {s \in Standbys[call'[r].by] : r \in rows[s]}
      BY <3>1 DEF T
    <3> QED BY <2>1, <3>1, <3>5, <3>6
  <2>2. CASE q # r
    BY <1>3, <2>2 DEF CInv, AckedIsReplicated
  <2> QED BY <2>1, <2>2
<1>10. \A i \in Nodes : gen[i] <= gen'[i]
  BY <1>4, Types
<1> QED BY <1>4, <1>5, <1>6, <1>7, <1>8, <1>9, <1>10, EndStep

-----------------------------------------------------------------------------
(* A process dies.                                                         *)

\* A node dies, and with it its calls and the messages to it.
LEMMA CrashInv ==
  ASSUME ClusterAssumption, CInv, NEW n \in Nodes, Crash(n)
  PROVE  CInv'
<1>1. /\ deaths < MaxDeaths /\ deaths' = deaths + 1 /\ up' = up \ {n}
      /\ gen' = [gen EXCEPT ![n] = @ + 1]
      /\ call' = [r \in Records |-> IF Active(r) /\ call[r].by = n THEN Over("cut", n) ELSE call[r]]
      /\ net' = {m \in net : m.to.id # n}
      /\ live' = [live EXCEPT ![n] = {[id |-> n, gen |-> gen[n] + 1]}]
      /\ heard' = [heard EXCEPT ![n] = [m \in Members |-> 0]]
      /\ leader' = [leader EXCEPT ![n] = FALSE] /\ epoch' = [epoch EXCEPT ![n] = 0]
      /\ highest' = [highest EXCEPT ![n] = 0] /\ UNCHANGED <<suspicions, rows>>
  BY DEF Crash, Active
<1>2. /\ gen[n] \in 0 .. MaxDeaths /\ gen[n] + 1 \in 0 .. MaxDeaths /\ gen[n] + 1 <= deaths'
      /\ deaths' \in 0 .. MaxDeaths
  <2>1. gen[n] \in 0 .. MaxDeaths /\ deaths \in 0 .. MaxDeaths /\ gen[n] <= deaths
    BY Types DEF CInv, Bounded
  <2>2. MaxDeaths \in Nat
    BY DEF ClusterAssumption
  <2> QED BY <1>1, <2>1, <2>2
<1>3. /\ gen' \in [Nodes -> 0 .. MaxDeaths] /\ gen'[n] = gen[n] + 1
      /\ \A i \in Nodes \ {n} : gen'[i] = gen[i]
  BY <1>1, <1>2, Types
<1>4. /\ Self(n)' = [id |-> n, gen |-> gen[n] + 1] /\ Self(n)' \in Members
      /\ \A i \in Nodes \ {n} : Self(i)' = Self(i)
  BY <1>2, <1>3 DEF Self, Members
<1>5. /\ live' \in [Nodes -> SUBSET Members] /\ \A i \in Nodes : Self(i)' \in live'[i]
  BY <1>1, <1>4, Types
<1>6. /\ heard' \in [Nodes -> [Members -> Nat]] /\ epoch' \in [Nodes -> Nat]
      /\ epoch'[n] = 0 /\ \A m \in Members : heard'[n][m] = 0
      /\ \A i \in Nodes \ {n} : heard'[i] = heard[i] /\ epoch'[i] = epoch[i]
  BY <1>1, Types
<1>7. \A i \in Nodes : heard'[i][Self(i)'] = epoch'[i]
  BY <1>4, <1>6, Types
<1>8. ASSUME NEW r \in Records
      PROVE  \/ call'[r] = Over("cut", n)
             \/ call'[r] = call[r] /\ ~ (Active(r) /\ call[r].by = n)
  <2>1. CASE Active(r) /\ call[r].by = n
    BY <1>1, <2>1
  <2>2. CASE ~ (Active(r) /\ call[r].by = n)
    BY <1>1, <2>2
  <2> QED BY <2>1, <2>2
<1>9. Over("cut", n) \in Closed /\ Over("cut", n) # Idle /\ Over("cut", n).at = "cut"
  BY DEF Over, Closed, Idle
<1>10. call' \in [Records -> {Idle} \cup Closed \cup Tracked] /\ net' \subseteq Message
  BY <1>1, <1>9, CallTypes
<1>11. TypeOK'
  <2>1. /\ up' \subseteq Nodes /\ leader' \in [Nodes -> BOOLEAN] /\ highest' \in [Nodes -> Nat]
        /\ rows' \in [Nodes -> SUBSET Records] /\ suspicions' \in 0 .. MaxSuspicions
    BY <1>1, Types
  <2> QED BY <2>1, <1>2, <1>3, <1>5, <1>6, <1>7, <1>10 DEF TypeOK, Tracked, Closed, Message
<1>12. Bounded'
  <2>1. PICK b \in Nat : \A i \in Nodes, m \in Members : heard[i][m] <= b
    BY DEF CInv, Bounded
  <2>2. \A i \in Nodes, m \in Members : heard'[i][m] <= b
    <3> SUFFICES ASSUME NEW i \in Nodes, NEW m \in Members
                 PROVE  heard'[i][m] <= b
      OBVIOUS
    <3>1. CASE i = n
      <4>1. heard'[i][m] = 0
        BY <1>6, <3>1
      <4> QED BY <4>1
    <3>2. CASE i # n
      <4>1. heard'[i] = heard[i]
        BY <1>6, <3>2
      <4> QED BY <2>1, <4>1
    <3> QED BY <3>1, <3>2
  <2>3. \A i \in Nodes : gen'[i] <= deaths'
    <3>1. \A i \in Nodes \ {n} : gen[i] \in 0 .. MaxDeaths /\ gen[i] <= deaths
      BY Types DEF CInv, Bounded
    <3>2. deaths \in 0 .. MaxDeaths /\ MaxDeaths \in Nat
      BY Types DEF ClusterAssumption
    <3> QED BY <1>1, <1>2, <1>3, <3>1, <3>2
  <2>4. ASSUME NEW i \in Nodes, NEW m \in Members
        PROVE  /\ m = Self(m.id)' => heard'[i][m] <= epoch'[m.id]
               /\ m.gen > gen'[m.id] => heard'[i][m] = 0
    <3>1. m.id \in Nodes /\ m.gen \in 0 .. MaxDeaths /\ epoch'[m.id] \in Nat
      BY <1>6 DEF Members
    <3>2. CASE i = n
      BY <1>6, <3>1, <3>2
    <3>3. CASE i # n /\ m.id # n
      <4>1. /\ Self(m.id)' = Self(m.id) /\ heard'[i] = heard[i]
            /\ epoch'[m.id] = epoch[m.id] /\ gen'[m.id] = gen[m.id]
        BY <1>3, <1>4, <1>6, <3>1, <3>3
      <4>2. /\ m = Self(m.id) => heard[i][m] <= epoch[m.id]
            /\ m.gen > gen[m.id] => heard[i][m] = 0
        BY DEF CInv, Bounded
      <4> QED BY <4>1, <4>2
    <3>4. CASE i # n /\ m.id = n
      <4>1. m = Self(n)' \/ m.gen > gen'[n] => m.gen > gen[n]
        BY <1>2, <1>3, <1>4, <3>1
      <4>2. m.gen > gen[n] => heard[i][m] = 0
        BY <3>4 DEF CInv, Bounded
      <4> QED BY <1>6, <3>4, <4>1, <4>2
    <3> QED BY <3>2, <3>3, <3>4
  <2> QED BY <2>2, <2>3, <2>4 DEF Bounded
<1>13. \A r \in Records : Active(r)' => Active(r) /\ call'[r] = call[r] /\ call[r].by # n
  <2> SUFFICES ASSUME NEW r \in Records, Active(r)'
               PROVE  Active(r) /\ call'[r] = call[r] /\ call[r].by # n
    OBVIOUS
  <2>1. call'[r] # Over("cut", n)
    BY <1>9 DEF Active
  <2>2. call'[r] = call[r] /\ ~ (Active(r) /\ call[r].by = n)
    BY <1>8, <2>1
  <2> QED BY <2>2 DEF Active
<1>14. ASSUME NEW r \in Records, Active(r)'
       PROVE  /\ epoch'[call[r].by] = epoch[call[r].by]
              /\ \A s \in Nodes : Self(s)' \in call[r].barred =>
                   Self(s)' = Self(s) /\ highest'[s] = highest[s]
  <2>1. Active(r) /\ call[r].by \in Nodes \ {n}
    BY <1>13, <1>14, CallTypes DEF Tracked
  <2>2. Self(n)' \notin call[r].barred
    <3>1. \A m \in call[r].barred : m.gen <= gen[m.id]
      BY <2>1 DEF CInv, CallsOK
    <3>2. ~ (gen[n] + 1 <= gen[n])
      BY <1>2
    <3> QED BY <1>4, <3>1, <3>2
  <2>3. \A s \in Nodes \ {n} : highest'[s] = highest[s]
    BY <1>1, Types
  <2> QED BY <1>4, <1>6, <2>1, <2>2, <2>3
<1>15. \A r \in Records : call[r] # Idle => call'[r] # Idle
  <2> SUFFICES ASSUME NEW r \in Records, call[r] # Idle
               PROVE  call'[r] # Idle
    OBVIOUS
  <2>1. call'[r] \in {Over("cut", n), call[r]}
    BY <1>8
  <2> QED BY <1>9, <2>1
<1>16. \A i \in Nodes : gen[i] <= gen'[i]
  BY <1>2, <1>3, Types
<1>17. net' \subseteq net /\ \A m \in net' : Self(m.to.id)' = Self(m.to.id)
  <2>1. \A m \in net' : m \in net /\ m.to.id # n /\ m.to \in Members
    BY <1>1, CallTypes DEF Message
  <2> QED BY <1>4, <2>1 DEF Members
<1>18. AckedIsReplicated'
  <2>1. \A r \in Records : call'[r].at = "acked" => call'[r] = call[r]
    <3> SUFFICES ASSUME NEW r \in Records, call'[r].at = "acked"
                 PROVE  call'[r] = call[r]
      OBVIOUS
    <3>1. call'[r] # Over("cut", n)
      BY <1>9
    <3> QED BY <1>8, <3>1
  <2> QED BY <1>1, <2>1, MoreHold
<1> QED BY <1>1, <1>11, <1>12, <1>13, <1>14, <1>15, <1>16, <1>17, <1>18, EndStep

-----------------------------------------------------------------------------
(* The theorems.                                                           *)

\* The invariant holds at the start ...
LEMMA CInvInit ==
  ASSUME ClusterAssumption, Init
  PROVE  CInv
<1>1. \A n \in Nodes : Self(n) = [id |-> n, gen |-> 0] /\ Self(n) \in Members
  BY DEF Init, Self, Members, ClusterAssumption
<1>2. TypeOK
  BY <1>1 DEF Init, TypeOK, ClusterAssumption
<1>3. Bounded
  BY DEF Init, Bounded, Members
<1>4. \A r \in Records : ~ Active(r) /\ call[r].at # "acked"
  BY DEF Init, Active, Idle
<1>5. net = {}
  BY DEF Init
<1> QED BY <1>2, <1>3, <1>4, <1>5
        DEF CInv, CallsOK, NetOK, StillBarred, AcksCounted, AckedIsReplicated

\* ... and every step keeps it.
LEMMA CInvStep ==
  ASSUME ClusterAssumption, CInv, [Next]_vars
  PROVE  CInv'
<1>1. CASE UNCHANGED vars
  <2>1. UNCHANGED <<up, gen, live, heard, deaths, suspicions, leader, epoch, highest, rows, call, net>>
    BY <1>1 DEF vars, view, reigns
  <2> QED BY <2>1 DEF CInv, TypeOK, Bounded, CallsOK, NetOK, StillBarred, AcksCounted,
                      AckedIsReplicated, Active, SameReign, Confirmed, Self, Required
<1>2. CASE \E n, k \in Nodes : Gossip(n, k)
  BY <1>2, GossipInv
<1>3. CASE Detect \/ \E n \in Nodes, m \in Members : Suspect(n, m)
  BY <1>3, DetectInv DEF Detect, DetectAt
<1>4. ASSUME NEW n \in Nodes, Tick(n) \/ Crash(n) \/ Restart(n)
      PROVE  CInv'
  <2>1. Self(n) \in Members
    BY Types
  <2> QED BY <1>4, <2>1, TickInv, CrashInv, DetectInv
<1>5. ASSUME NEW r \in Records,
             (\E n \in Nodes : Accept(r, n)) \/ Send(r) \/ GiveUp(r) \/ Finish(r)
      PROVE  CInv'
  BY <1>5, AcceptInv, SendInv, GiveUpInv, FinishInv
<1>6. ASSUME NEW m \in net, Refuse(m) \/ Admit(m) \/ ApplyShipped(m) \/ ApplyShippedFails(m)
      PROVE  CInv'
  BY <1>6, RefuseInv, AdmitInv, ApplyInv, ApplyFailsInv
<1> QED BY <1>1, <1>2, <1>3, <1>4, <1>5, <1>6 DEF Next, Trusting, Replicate

\* A call is acknowledged by Finish alone.
LEMMA OnlyFinishAcks ==
  ASSUME ClusterAssumption, CInv, [Next]_vars, NEW r \in Records,
         call'[r].at = "acked", call[r].at # "acked"
  PROVE  Finish(r)
<1>0. call'[r] # call[r]
  OBVIOUS
<1>1. CASE UNCHANGED call
  BY <1>0, <1>1
<1>2. ASSUME NEW n \in Nodes, Crash(n)
      PROVE  FALSE
  BY <1>0, <1>2 DEF Crash, Over
<1>3. ASSUME NEW q \in Records, NEW n \in Nodes, Accept(q, n)
      PROVE  FALSE
  BY <1>0, <1>3, CallTypes DEF Accept
<1>4. ASSUME NEW q \in Records, Send(q)
      PROVE  FALSE
  <2>1. call[q] \in Tracked
    BY <1>4, CallTypes DEF Send, Active
  <2> QED BY <1>0, <1>4, <2>1, CallTypes DEF Send, Tracked
<1>5. ASSUME NEW q \in Records, call[q].at = "waiting", NEW s, NEW ok,
             call' = [call EXCEPT ![q] = Outcome(call[q], s, ok)]
      PROVE  FALSE
  <2>1. call[q] \in Tracked
    BY <1>5, CallTypes DEF Active
  <2>2. Outcome(call[q], s, ok).at = "shipping"
    BY <2>1 DEF Outcome, Tracked
  <2> QED BY <1>0, <1>5, <2>2, CallTypes
<1>6. ASSUME NEW q \in Records, GiveUp(q)
      PROVE  FALSE
  BY <1>5, <1>6 DEF GiveUp
<1>7. ASSUME NEW m \in net, NEW ok, Reply(m, ok)
      PROVE  FALSE
  <2>1. m.rec \in Records
    BY CallTypes DEF Message
  <2> QED BY <1>0, <1>5, <1>7, <2>1 DEF Reply
<1>8. ASSUME NEW q \in Records, Finish(q), q # r
      PROVE  FALSE
  BY <1>0, <1>8, CallTypes DEF Finish
<1>10. CASE UNCHANGED vars
  BY <1>1, <1>10 DEF vars
<1>11. ASSUME NEW m \in net
       PROVE  /\ Refuse(m) => Reply(m, FALSE)
              /\ Admit(m) => UNCHANGED call
              /\ ApplyShipped(m) => Reply(m, TRUE)
              /\ ApplyShippedFails(m) => Reply(m, FALSE)
  BY DEF Refuse, Admit, ApplyShipped, ApplyShippedFails
<1>12. CASE Replicate
  BY <1>1, <1>3, <1>4, <1>6, <1>7, <1>8, <1>11, <1>12 DEF Replicate
<1>13. CASE \E n \in Nodes : Tick(n) \/ Restart(n) \/ Crash(n)
  BY <1>0, <1>2, <1>13 DEF Tick, Restart
<1>14. CASE (\E n, k \in Nodes : Gossip(n, k)) \/ Detect \/ \E n \in Nodes, m \in Members : Suspect(n, m)
  BY <1>0, <1>14 DEF Gossip, Detect, DetectAt, Trust, Bury, Suspect
<1> QED BY <1>10, <1>12, <1>13, <1>14 DEF Next, Trusting

\* The invariant holds of every group, with any standbys, acks and deaths.
THEOREM ClusterInvariant ==
  ASSUME ClusterAssumption
  PROVE  Spec => []CInv
<1>1. Init => CInv
  BY CInvInit
<1>2. CInv /\ [Next]_vars => CInv'
  BY CInvStep
<1> QED BY <1>1, <1>2, PTL DEF Spec

\* The state of a group stays well formed: a running node is a live member to
\* itself and advertises the epoch it stamps (ClusterCoordinator).
THEOREM ClusterTypeOK ==
  ASSUME ClusterAssumption
  PROVE  Spec => []TypeOK
<1>1. CInv => TypeOK
  BY DEF CInv
<1> QED BY <1>1, ClusterInvariant, PTL

\* An acknowledged record is on as many standbys as were asked for, whatever
\* was refused, lost, late or interrupted (RemoteWalSink, apply_wal_record).
THEOREM AckedReplicated ==
  ASSUME ClusterAssumption
  PROVE  Spec => []AckedIsReplicated
<1>1. CInv => AckedIsReplicated
  BY DEF CInv
<1> QED BY <1>1, ClusterInvariant, PTL

\* No standby that had fenced the leader off when the call came in, and has not
\* restarted, is among those an acknowledgement counts (EpochFencer).
THEOREM DeposedNeverConfirmed ==
  ASSUME ClusterAssumption
  PROVE  Spec => DeposedIsNotConfirmed
<1>1. ASSUME CInv, [Next]_vars, NEW r \in Records,
             call'[r].at = "acked", call[r].at # "acked", epoch[call[r].by] = call[r].epoch
      PROVE  Required(call[r].by)
               <= Cardinality({s \in Standbys[call[r].by] : Self(s) \notin call[r].barred})
  <2>1. Finish(r)
    BY <1>1, OnlyFinishAcks
  <2> DEFINE S == {s \in Standbys[call[r].by] : Self(s) \notin call[r].barred}
  <2>2. call[r] \in Tracked /\ Required(call[r].by) <= Cardinality(Confirmed(r))
    BY <1>1, <2>1, ConfirmedEnough
  <2>3. call[r].by \in Nodes /\ Confirmed(r) \in SUBSET S /\ S \in SUBSET Standbys[call[r].by]
    BY <1>1, <2>2 DEF Confirmed, SameReign, Tracked
  <2>4. Cardinality(Confirmed(r)) <= Cardinality(S)
    BY <2>3, MoreStandbys
  <2>5. /\ Required(call[r].by) \in Nat /\ Cardinality(S) \in Nat
        /\ Cardinality(Confirmed(r)) \in Nat
    BY <2>3, StandbysFinite DEF Required, ClusterAssumption
  <2> HIDE DEF S
  <2>6. Required(call[r].by) <= Cardinality(S)
    BY <2>2, <2>4, <2>5
  <2> QED BY <2>6 DEF S
<1>2. CInv /\ [Next]_vars =>
        [\A r \in Records :
           LET c == call[r]
           IN  call'[r].at = "acked" /\ c.at # "acked" /\ epoch[c.by] = c.epoch =>
                 Required(c.by) <= Cardinality({s \in Standbys[c.by] : Self(s) \notin c.barred})]_vars
  BY <1>1
<1> QED BY <1>2, ClusterInvariant, PTL DEF Spec, DeposedIsNotConfirmed
=============================================================================
