------------------------------- MODULE Suites -------------------------------
(***************************************************************************)
(* Eval suites (suites.rs): a working set of cases that a push replaces,   *)
(* and snapshots of it, in a file that RuleFile models.  A snapshot's id   *)
(* is derived from its cases, so it is the cases here; a prefix of an id   *)
(* is the set of the snapshots it may stand for.                           *)
(***************************************************************************)
EXTENDS Naturals, Sequences, FiniteSets

CONSTANTS
  Ids, Contents,   \* case ids and the hashes of their content
  MaxCases,        \* bound: cases of one push
  MaxPushes,       \* bound: pushes
  Clients,
  MaxSuiteDeaths   \* bound: deaths of the process

ASSUME SuitesAssumption == MaxCases \in Nat

VARIABLES
  suite,      \* one entry of SuiteStore.suites; one without cases is one that is missing
  asked,      \* the request each client waits for
  pinned,     \* history: snapshots confirmed after a save of their own
  pushes,
  running, deaths,
  file, tmp, save, overlapped

NoSuite == [cases |-> <<>>, snapshots |-> <<>>]
File == INSTANCE RuleFile WITH table <- suite, NoRows <- NoSuite

fileVars  == <<file, tmp, save, overlapped>>
suiteVars == <<suite, asked, pinned, pushes, running, deaths, fileVars>>

Refs     == [id : Ids, content : Contents]
CaseSets == UNION {[1 .. k -> Refs] : k \in 0 .. MaxCases}
Elements(seq) == {seq[i] : i \in 1 .. Len(seq)}
Nothing  == [what |-> "nothing"]

SuiteInit ==
  /\ suite = NoSuite /\ asked = [c \in Clients |-> Nothing] /\ pinned = {} /\ pushes = 0
  /\ running = TRUE /\ deaths = 0
  /\ File!InitFile

\* push: refused if one id has two contents.
Consistent(cases) ==
  \A r, q \in Elements(cases) : r.id = q.id => r.content = q.content

Push(c, cases) ==
  /\ running /\ asked[c] = Nothing /\ pushes < MaxPushes /\ Consistent(cases)
  /\ suite' = [suite EXCEPT !.cases = cases] /\ pushes' = pushes + 1
  /\ asked' = [asked EXCEPT ![c] = [what |-> "push"]]
  /\ save' = [save EXCEPT ![c].at = "clone"]
  /\ UNCHANGED <<pinned, running, deaths, file, tmp, overlapped>>

\* Mutant: the newest snapshot comes first.
FreezeFirst(old, cases) == <<cases>> \o old

Freeze(old, cases) == Append(old, cases)

\* snapshot: a working set that was frozen before is confirmed at once, even while
\* the save of that snapshot is under way or after it failed.
Snapshot(c) ==
  /\ running /\ asked[c] = Nothing /\ suite.cases # <<>>
  /\ IF suite.cases \in Elements(suite.snapshots)
     THEN UNCHANGED <<suite, asked, save>>
     ELSE /\ suite' = [suite EXCEPT !.snapshots = Freeze(@, suite.cases)]
          /\ asked' = [asked EXCEPT ![c] = [what |-> "snapshot", cases |-> suite.cases]]
          /\ save' = [save EXCEPT ![c].at = "clone"]
  /\ UNCHANGED <<pinned, pushes, running, deaths, file, tmp, overlapped>>

SaveSuites(c) ==
  /\ running /\ File!SaveStep(c)
  /\ UNCHANGED <<asked, pinned, pushes, running, deaths>>

\* The answer of the request, an error if its save failed.
AnswerSuite(c) ==
  /\ running /\ save[c].at \in {"saved", "failed"}
  /\ pinned' = IF save[c].at = "saved" /\ asked[c].what = "snapshot"
               THEN pinned \cup {asked[c].cases} ELSE pinned
  /\ asked' = [asked EXCEPT ![c] = Nothing]
  /\ save' = [save EXCEPT ![c] = File!NoSave]
  /\ UNCHANGED <<suite, pushes, running, deaths, file, tmp, overlapped>>

SuiteCrash ==
  /\ running /\ deaths < MaxSuiteDeaths
  /\ running' = FALSE /\ deaths' = deaths + 1
  /\ suite' = NoSuite /\ asked' = [c \in Clients |-> Nothing]
  /\ File!DropSaves
  /\ UNCHANGED <<pinned, pushes>>

SuiteOpen ==
  /\ ~running /\ running' = TRUE
  /\ File!Loads(file.rows) /\ suite' = file.rows
  /\ UNCHANGED <<asked, pinned, pushes, deaths, fileVars>>

\* resolve: the first snapshot whose id begins with the reference.
ResolveRef(snapshots, ref) ==
  LET found == {i \in 1 .. Len(snapshots) : snapshots[i] \in ref}
  IN  {snapshots[i] : i \in {j \in found : \A k \in found : j <= k}}

\* diff_cases.
Content(cases, id) == {r.content : r \in {q \in Elements(cases) : q.id = id}}
DiffCases(from, to) ==
  [added   |-> {r \in Elements(to) : Content(from, r.id) = {}},
   removed |-> {r \in Elements(from) : Content(to, r.id) = {}},
   changed |-> {[id |-> r.id, from |-> old, to |-> r.content] :
                  r \in {q \in Elements(to) : Content(from, q.id) \notin {{}, {q.content}}},
                  old \in UNION {Content(from, id) : id \in Ids}}
               \cap {ch \in [id : Ids, from : Contents, to : Contents] : ch.from \in Content(from, ch.id)},
   unchanged |-> Cardinality({i \in 1 .. Len(to) : Content(from, to[i].id) = {to[i].content}})]

SuiteNext ==
  \/ \E c \in Clients :
       \/ \E cases \in CaseSets : Push(c, cases)
       \/ Snapshot(c) \/ SaveSuites(c) \/ AnswerSuite(c)
  \/ SuiteCrash \/ SuiteOpen

SuiteSpec == SuiteInit /\ [][SuiteNext]_suiteVars
-----------------------------------------------------------------------------
(* Properties.                                                             *)

\* Types; a working set and a snapshot hold one content per id; snapshots differ.
SuiteTypeOK ==
  /\ \A cases \in {suite.cases} \cup Elements(suite.snapshots) : cases \in CaseSets /\ Consistent(cases)
  /\ Cardinality(Elements(suite.snapshots)) = Len(suite.snapshots)

\* The file parses, and has each snapshot that was confirmed after its save, through
\* any pushes, failed saves and deaths, as long as no two saves met.
ConfirmedSnapshotsAreSaved ==
  overlapped \/ (file.is = "whole" /\ pinned \subseteq Elements(file.rows.snapshots))

PinsKept ==
  running /\ running' =>
    \A ref \in SUBSET (Elements(suite.snapshots) \cup Elements(suite.snapshots')) :
      ResolveRef(suite.snapshots, ref) \in {{}, ResolveRef(suite.snapshots', ref)}

\* "two runs pinned to this snapshot compared the same data": what a reference
\* stands for stays the same while the process runs, for a prefix too.
PinsAreStable == [][PinsKept]_suiteVars

\* A pin means the same cases before and after a restart.
PinsHold == PinsAreStable /\ []ConfirmedSnapshotsAreSaved

\* Applied to the left side, a diff gives the right side, and read backwards it is
\* the diff of the sides swapped.
DiffExplains(from, to) ==
  LET d == DiffCases(from, to)  back == DiffCases(to, from)
      kept == {r \in Elements(from) : r.id \notin {ch.id : ch \in d.changed}} \ d.removed
  IN  /\ Elements(to) = kept \cup d.added \cup {[id |-> ch.id, content |-> ch.to] : ch \in d.changed}
      /\ d.added = back.removed /\ Cardinality(d.changed) = Cardinality(back.changed)
      /\ (d.unchanged = 0) = (kept = {})
=============================================================================
