------------------------------- MODULE BlobGC -------------------------------
(***************************************************************************)
(* The payload blob store, which nodes may share, and its collection.  An  *)
(* upload puts its payload, unless the store has it, and then inserts the  *)
(* row that refers to it: into the log of its node first, which brings the *)
(* row back when the node starts, until a checkpoint.  A maintenance pass  *)
(* moves and drops rows of its own node, marks what rows refer to, here    *)
(* and at the peers, and removes the rest one blob after the other.        *)
(***************************************************************************)
EXTENDS Naturals, FiniteSets

CONSTANTS
  Nodes,
  Uploads,      \* rows with a payload that clients send
  NodeOf,       \* the node that takes each
  HashOf,       \* the hash of its payload
  PeersOf,      \* TAEL_BLOB_GC_PEERS of each node
  Ownership,    \* "always", "leader" or "never" for each node
  MaxBlobFaults \* bound: errors and deaths

VARIABLES
  upload,     \* where each upload is
  hashed,     \* uploads whose row refers to the payload
  logged,     \* uploads whose row the log of their node would bring back
  blobRows,   \* uploads with a row in a tier
  moving,     \* rows in the hands of a pass, between the tiers
  blobStore,  \* the store
  leader,     \* nodes that believe they lead
  pass,       \* the maintenance pass of each node
  down,       \* nodes that died and have not started again
  blobFaults,
  exposed     \* history: uploads that met a collection half-way, or that only the log had

blobVars == <<upload, hashed, logged, blobRows, moving, blobStore, leader, pass, down, blobFaults, exposed>>

Hashes == {HashOf[u] : u \in Uploads}
NoPass == [at |-> "idle", owner |-> FALSE, live |-> {}, ask |-> {}, sweep |-> {}]

BlobInit ==
  /\ upload = [u \in Uploads |-> "new"] /\ hashed = {}
  /\ logged = {} /\ blobRows = {} /\ moving = {} /\ blobStore = {} /\ down = {}
  /\ leader \in SUBSET Nodes /\ pass = [n \in Nodes |-> NoPass] /\ blobFaults = 0
  /\ exposed = {}

Marking(n)    == pass[n].at \in {"mark", "ask", "list", "sweep"}
Collecting    == \E n \in Nodes : Marking(n)
UnderWay(u)   == upload[u] \in {"found", "absent", "put", "appended"}
BlobFault     == blobFaults < MaxBlobFaults /\ blobFaults' = blobFaults + 1
ExposedNow(u) == IF Collecting THEN exposed \cup {u} ELSE exposed

-----------------------------------------------------------------------------
(* Uploads.                                                                *)

\* put: is the payload there already?
LookUp(u) ==
  /\ upload[u] = "new" /\ NodeOf[u] \notin down
  /\ upload' = [upload EXCEPT ![u] = IF HashOf[u] \in blobStore THEN "found" ELSE "absent"]
  /\ exposed' = ExposedNow(u)
  /\ UNCHANGED <<hashed, logged, blobRows, moving, blobStore, leader, pass, down, blobFaults>>

\* put: it is written if it was not; the row will carry the hash.
Put(u) ==
  /\ upload[u] \in {"found", "absent"}
  /\ upload' = [upload EXCEPT ![u] = "put"]
  /\ blobStore' = IF upload[u] = "absent" THEN blobStore \cup {HashOf[u]} ELSE blobStore
  /\ hashed' = hashed \cup {u}
  /\ UNCHANGED <<logged, blobRows, moving, leader, pass, down, blobFaults, exposed>>

\* blob_value: without its payload the row is inserted all the same.
PutFails(u) ==
  /\ upload[u] = "absent" /\ BlobFault
  /\ upload' = [upload EXCEPT ![u] = "put"]
  /\ UNCHANGED <<hashed, logged, blobRows, moving, blobStore, leader, pass, down, exposed>>

\* insert_spans: the log comes first ...
LogRow(u) ==
  /\ upload[u] = "put"
  /\ upload' = [upload EXCEPT ![u] = "appended"] /\ logged' = logged \cup {u}
  /\ UNCHANGED <<hashed, blobRows, moving, blobStore, leader, pass, down, blobFaults, exposed>>

\* ... and if it refuses the record, the payload is an orphan.
LogRefuses(u) ==
  /\ upload[u] = "put" /\ BlobFault
  /\ upload' = [upload EXCEPT ![u] = "done"]
  /\ UNCHANGED <<hashed, logged, blobRows, moving, blobStore, leader, pass, down, exposed>>

InsertRow(u) ==
  /\ upload[u] = "appended"
  /\ upload' = [upload EXCEPT ![u] = "done"] /\ blobRows' = blobRows \cup {u}
  /\ UNCHANGED <<hashed, logged, moving, blobStore, leader, pass, down, blobFaults, exposed>>

\* Too few standbys confirm, or the row is refused after it is written or before: its
\* record stays in the log, where a ticket that nobody redeems keeps it.
InsertRowFails(u) ==
  /\ upload[u] = "appended" /\ BlobFault
  /\ upload' = [upload EXCEPT ![u] = "stranded"] /\ blobRows' \in {blobRows, blobRows \cup {u}}
  /\ UNCHANGED <<hashed, logged, moving, blobStore, leader, pass, down, exposed>>

\* checkpoint: with no ticket out, the log forgets what the tiers have had.
Checkpoint(n) ==
  LET own == {u \in Uploads : NodeOf[u] = n}
  IN  /\ n \notin down /\ logged \cap own # {}
      /\ \A u \in own : upload[u] \notin {"appended", "stranded"}
      /\ logged' = logged \ own
      /\ UNCHANGED <<upload, hashed, blobRows, moving, blobStore, leader, pass, down, blobFaults, exposed>>

-----------------------------------------------------------------------------
(* The pass of spawn_span_compactor.                                       *)

\* may_gc.
MayGC(n) == Ownership[n] = "always" \/ (Ownership[n] = "leader" /\ n \in leader)

OwnRows(n) == {u \in blobRows : NodeOf[u] = n}

\* A tick: ownership is sampled for the whole pass, and rows leave the hot tier.
StartPass(n) ==
  /\ pass[n].at = "idle" /\ n \notin down
  /\ \E aged \in SUBSET OwnRows(n) :
       moving' = moving \cup aged /\ blobRows' = blobRows \ aged
  /\ pass' = [pass EXCEPT ![n] = [NoPass EXCEPT !.at = "move", !.owner = MayGC(n)]]
  /\ UNCHANGED <<upload, hashed, logged, blobStore, leader, down, blobFaults, exposed>>

\* They arrive in the cold tier, and retention drops others from it.
Settle(n) ==
  /\ pass[n].at = "move"
  /\ LET aged == {u \in moving : NodeOf[u] = n}
     IN  \E expired \in SUBSET (OwnRows(n) \cup aged) :
           moving' = moving \ aged /\ blobRows' = (blobRows \cup aged) \ expired
  /\ pass' = [pass EXCEPT ![n].at = IF pass[n].owner THEN "mark" ELSE "idle"]
  /\ exposed' = IF pass[n].owner THEN exposed \cup {u \in Uploads : UnderWay(u)} ELSE exposed
  /\ UNCHANGED <<upload, hashed, logged, blobStore, leader, down, blobFaults>>

\* Of the rows in the hands of a pass, those it has written to the cold tier.
LetsGo(n) ==
  LET aged == {u \in moving : NodeOf[u] = n}
  IN  /\ moving' = moving \ aged
      /\ \E written \in SUBSET aged : blobRows' = blobRows \cup written

\* An error ends the pass; the other rows in its hands are lost.
PassFails(n) ==
  /\ pass[n].at # "idle" /\ BlobFault
  /\ LetsGo(n)
  /\ pass' = [pass EXCEPT ![n] = NoPass]
  /\ UNCHANGED <<upload, hashed, logged, blobStore, leader, down, exposed>>

\* Mutant: rows that are gone still count.
LiveEver(n) == {HashOf[u] : u \in {v \in hashed : NodeOf[v] = n}}

\* collect_live_blob_hashes: what the rows of a node refer to, in both tiers.
LiveAt(n) == {HashOf[u] : u \in OwnRows(n) \cap hashed}

\* Rows that a node would only have again once it starts.
InLogOnly(n) == {u \in logged \ blobRows : NodeOf[u] = n}

Mark(n) ==
  /\ pass[n].at = "mark"
  /\ pass' = [pass EXCEPT ![n].live = LiveAt(n), ![n].ask = PeersOf[n], ![n].at = "ask"]
  /\ exposed' = exposed \cup InLogOnly(n)
  /\ UNCHANGED <<upload, hashed, logged, blobRows, moving, blobStore, leader, down, blobFaults>>

\* Mutant: a peer that does not answer is passed over.
SkipPeer(n, p) ==
  /\ pass[n].at = "ask" /\ p \in pass[n].ask /\ BlobFault
  /\ pass' = [pass EXCEPT ![n].ask = @ \ {p}]
  /\ UNCHANGED <<upload, hashed, logged, blobRows, moving, blobStore, leader, down, exposed>>

\* live_blob_hashes of a peer, whose own pass may have rows in its hands.
AskPeer(n, p) ==
  /\ pass[n].at = "ask" /\ p \in pass[n].ask /\ p \notin down
  /\ pass' = [pass EXCEPT ![n].ask = @ \ {p}, ![n].live = @ \cup LiveAt(p)]
  /\ exposed' = exposed \cup InLogOnly(p) \cup {u \in moving : NodeOf[u] = p}
  /\ UNCHANGED <<upload, hashed, logged, blobRows, moving, blobStore, leader, down, blobFaults>>

\* A peer that does not answer: nothing is removed in this pass.
PeerFails(n, p) ==
  /\ pass[n].at = "ask" /\ p \in pass[n].ask
  /\ BlobFault \/ (p \in down /\ UNCHANGED blobFaults)
  /\ pass' = [pass EXCEPT ![n] = NoPass]
  /\ UNCHANGED <<upload, hashed, logged, blobRows, moving, blobStore, leader, down, exposed>>

\* gc: the blobs that are in the store and not marked.
ListBlobs(n) ==
  /\ pass[n].at = "ask" /\ pass[n].ask = {}
  /\ pass' = [pass EXCEPT ![n].at = "sweep", ![n].sweep = blobStore \ pass[n].live]
  /\ UNCHANGED <<upload, hashed, logged, blobRows, moving, blobStore, leader, down, blobFaults, exposed>>

\* gc: one after the other.
RemoveBlob(n, h) ==
  /\ pass[n].at = "sweep" /\ h \in pass[n].sweep
  /\ blobStore' = blobStore \ {h}
  /\ pass' = [pass EXCEPT ![n].sweep = @ \ {h}]
  /\ UNCHANGED <<upload, hashed, logged, blobRows, moving, leader, down, blobFaults, exposed>>

EndSweep(n) ==
  /\ pass[n].at = "sweep" /\ pass[n].sweep = {}
  /\ pass' = [pass EXCEPT ![n] = NoPass]
  /\ UNCHANGED <<upload, hashed, logged, blobRows, moving, blobStore, leader, down, blobFaults, exposed>>

\* Views of who leads change, at any point of a pass; two may hold for a while.
Reelect ==
  /\ \E n \in Nodes \ down : Ownership[n] = "leader" /\ leader' \in {leader \cup {n}, leader \ {n}}
  /\ leader' # leader
  /\ UNCHANGED <<upload, hashed, logged, blobRows, moving, blobStore, pass, down, blobFaults, exposed>>

\* A node dies with its uploads and its pass; its log stays.
NodeDies(n) ==
  /\ n \notin down /\ BlobFault
  /\ upload' = [u \in Uploads |-> IF NodeOf[u] = n /\ (UnderWay(u) \/ upload[u] = "stranded")
                                  THEN "done" ELSE upload[u]]
  /\ LetsGo(n)
  /\ pass' = [pass EXCEPT ![n] = NoPass] /\ down' = down \cup {n} /\ leader' = leader \ {n}
  /\ UNCHANGED <<hashed, logged, blobStore, exposed>>

\* replay: it starts with the rows its log has (WalLog has the replays that fail).
NodeStarts(n) ==
  /\ n \in down /\ down' = down \ {n}
  /\ LET own == {u \in logged : NodeOf[u] = n}
     IN  blobRows' = blobRows \cup own /\ logged' = logged \ own
  /\ UNCHANGED <<upload, hashed, moving, blobStore, leader, pass, blobFaults, exposed>>

PassSteps(n) ==
  \/ Settle(n) \/ Mark(n) \/ ListBlobs(n) \/ EndSweep(n)
  \/ \E p \in Nodes : AskPeer(n, p) \/ PeerFails(n, p)
  \/ \E h \in Hashes : RemoveBlob(n, h)

BlobNext ==
  \/ \E u \in Uploads : \/ LookUp(u) \/ Put(u) \/ PutFails(u)
                        \/ LogRow(u) \/ LogRefuses(u) \/ InsertRow(u) \/ InsertRowFails(u)
  \/ \E n \in Nodes : \/ StartPass(n) \/ PassSteps(n) \/ PassFails(n)
                      \/ Checkpoint(n) \/ NodeDies(n) \/ NodeStarts(n)
  \/ Reelect

BlobSpec == BlobInit /\ [][BlobNext]_blobVars

\* The placement a shared store needs: whoever may collect asks every node that can
\* hold a row (TAEL_BLOB_GC_PEERS names all the others).
BlobPlacement ==
  /\ NodeOf \in [Uploads -> Nodes] /\ PeersOf \in [Nodes -> SUBSET Nodes]
  /\ \A n \in Nodes : Ownership[n] # "never" => Nodes \ {n} \subseteq PeersOf[n]
-----------------------------------------------------------------------------
(* Properties.                                                             *)

Missing == {u \in blobRows \cap hashed : HashOf[u] \notin blobStore}
Orphans ==
  {h \in blobStore : \A u \in Uploads : HashOf[u] = h => u \notin blobRows \cup moving /\ ~UnderWay(u)}

\* Types; rows are at rest or in one pair of hands.
BlobTypeOK ==
  /\ blobStore \subseteq Hashes /\ blobRows \cap moving = {} /\ hashed \subseteq Uploads
  /\ \A u \in logged : upload[u] \in {"appended", "stranded", "done"}
  /\ \A n \in Nodes : pass[n].live \cup pass[n].sweep \subseteq Hashes /\ pass[n].ask \subseteq PeersOf[n]

\* A row keeps its payload, however many nodes believe they own the store, over failed
\* inserts, deaths and replays, unless its upload met a collection half-way, its move
\* between tiers met a peer's mark, or a mark found it in the log of a node and in no tier,
\* from where the next start brings it back.
OnlyRacesLosePayloads == Missing \subseteq exposed

\* "an orphan = a row that never landed, or a row that retention has since dropped":
\* whatever is removed has no row, and no upload that counts on it.  TLC refutes it: an
\* upload finds its payload in the store just before it is swept.
RemovesOnlyOrphans ==
  [][\A h \in blobStore \ blobStore' : h \in Orphans]_blobVars

\* The blob of a row that is gone goes too, as long as some node stays the owner and no
\* node stays down.
OrphansGo ==
  \A n \in Nodes : <>[](MayGC(n) /\ down = {}) => \A h \in Hashes : []<>(h \notin Orphans)
=============================================================================
