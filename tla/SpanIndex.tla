----------------------------- MODULE SpanIndex -----------------------------
(***************************************************************************)
(* The span keyspaces of the hot tier: the spans by identity, and three    *)
(* indexes over them by time, by service and, of error spans only, by time *)
(* again.  An insert overwrites the span and adds its entries one keyspace *)
(* after the other; an eviction and the scans work on them meanwhile.      *)
(***************************************************************************)
EXTENDS Naturals, FiniteSets

CONSTANTS
  Versions,   \* what is sent: [id, start, service, error]
  Queries,    \* scans: [service, errors, since], the service "any" for none
  Limit,      \* of a scan
  Cutoffs,    \* of evictions
  MaxDeaths   \* bound: deaths of the process

VARIABLES
  spans,      \* the stored versions, one per identity
  index,      \* the entries of each index
  insert,     \* how far the insert of each version is
  evict,      \* the eviction under way
  scan,       \* the scan under way
  indexDeaths,
  rekeyed,    \* history: identities stored again with other index keys
  collided    \* history: identities an eviction and an insert had at once

indexVars == <<spans, index, insert, evict, scan, indexDeaths, rekeyed, collided>>

Keyspaces == {"time", "svc", "err"}
NoEvict == [at |-> "idle", todo |-> {}, spans |-> {}, keys |-> {}]
NoScan  == [at |-> "idle"]

\* span_time_key and span_service_key: functions of the span and nothing else.
Key(k, v) == IF k = "svc" THEN <<v.service, v.start, v.id>> ELSE <<v.start, v.id>>

\* An entry has the key, and what encode_index_entry takes from the span.
Entry(k, v) == [key |-> Key(k, v), of |-> v]

\* Mutant: every span is in the error index.
KeyspacesOfAll(v) == Keyspaces

KeyspacesOf(v) == IF v.error THEN Keyspaces ELSE {"time", "svc"}

\* fjall's insert: one entry per key.
Overwrite(k, v) ==
  [index EXCEPT ![k] = {e \in @ : e.key # Key(k, v)} \cup {Entry(k, v)}]

Stored(id)    == {v \in spans : v.id = id}
\* An eviction has read one of its entries, whether a span was behind it or not.
InEviction(id) == \E key \in evict.keys : key[2] = id

IndexInit ==
  /\ spans = {} /\ index = [k \in Keyspaces |-> {}] /\ insert = [v \in Versions |-> "new"]
  /\ evict = NoEvict /\ scan = NoScan /\ indexDeaths = 0 /\ rekeyed = {} /\ collided = {}

-----------------------------------------------------------------------------
(* insert_spans.                                                           *)

Inserting(id) == \E v \in Versions : v.id = id /\ insert[v] \notin {"new", "done"}

\* A start-up serves nothing before it has applied the log again.
Serving == \A v \in Versions : insert[v] # "replay"

Unsteady(id) == IF scan.at = "walk" THEN [scan EXCEPT !.steady = @ \ {id}] ELSE scan

\* A version overwrites the one before it, wherever its index keys are.
InsertSpan(v) ==
  /\ insert[v] = "replay" \/ (insert[v] = "new" /\ Serving)
  /\ insert' = [insert EXCEPT ![v] = "time"]
  /\ spans' = (spans \ Stored(v.id)) \cup {v}
  /\ rekeyed' = IF \E w \in Stored(v.id) : ~ {Key(k, w) : k \in KeyspacesOf(w)}
                                             \subseteq {Key(k, v) : k \in KeyspacesOf(v)}
                  \/ (w.error /\ ~v.error)
                THEN rekeyed \cup {v.id} ELSE rekeyed
  /\ collided' = IF InEviction(v.id) \/ \E w \in Versions \ {v} : w.id = v.id /\ insert[w] \notin {"new", "done"}
               THEN collided \cup {v.id} ELSE collided
  /\ scan' = Unsteady(v.id)
  /\ UNCHANGED <<index, evict, indexDeaths>>

InsertEntry(v) ==
  /\ insert[v] \in Keyspaces
  /\ index' = Overwrite(insert[v], v)
  /\ insert' = [insert EXCEPT ![v] = CASE @ = "time" -> "svc"
                                       [] @ = "svc" /\ "err" \in KeyspacesOf(v) -> "err"
                                       [] OTHER -> "done"]
  /\ UNCHANGED <<spans, evict, scan, indexDeaths, rekeyed, collided>>

-----------------------------------------------------------------------------
(* evict_spans_before.                                                     *)

\* The range of the time index, as it is now.
EvictBegin(cutoff) ==
  /\ Serving /\ evict.at = "idle" /\ \E e \in index["time"] : e.of.start < cutoff
  /\ evict' = [NoEvict EXCEPT !.at = "read", !.todo = {e \in index["time"] : e.of.start < cutoff}]
  /\ UNCHANGED <<spans, index, insert, scan, indexDeaths, rekeyed, collided>>

\* The span behind an entry, as it is when its turn comes.
EvictRead(e) ==
  /\ evict.at = "read" /\ e \in evict.todo
  /\ evict' = [evict EXCEPT !.todo = @ \ {e}, !.keys = @ \cup {e.key},
                            !.spans = @ \cup Stored(e.of.id)]
  /\ collided' = IF Inserting(e.of.id) THEN collided \cup {e.of.id} ELSE collided
  /\ scan' = Unsteady(e.of.id)
  /\ UNCHANGED <<spans, index, insert, indexDeaths, rekeyed>>

EvictReadAll ==
  /\ evict.at = "read" /\ evict.todo = {}
  /\ evict' = [evict EXCEPT !.at = "primary", !.todo = {v.id : v \in evict.spans}]
  /\ UNCHANGED <<spans, index, insert, scan, indexDeaths, rekeyed, collided>>

EvictSpan(id) ==
  /\ evict.at = "primary" /\ id \in evict.todo
  /\ spans' = spans \ Stored(id)
  /\ evict' = [evict EXCEPT !.todo = @ \ {id}]
  /\ UNCHANGED <<index, insert, scan, indexDeaths, rekeyed, collided>>

EvictedSpans ==
  /\ evict.at = "primary" /\ evict.todo = {}
  /\ evict' = [evict EXCEPT !.at = "entries", !.todo = evict.spans]
  /\ UNCHANGED <<spans, index, insert, scan, indexDeaths, rekeyed, collided>>

\* Mutant: the error index is forgotten.
EvictEntriesBut(v) ==
  /\ evict.at = "entries" /\ v \in evict.todo
  /\ index' = [index EXCEPT !["svc"] = {e \in @ : e.key # Key("svc", v)}]
  /\ evict' = [evict EXCEPT !.todo = @ \ {v}]
  /\ UNCHANGED <<spans, insert, scan, indexDeaths, rekeyed, collided>>

\* The keys come from the span that was read, whatever was stored before it.
EvictEntries(v) ==
  /\ evict.at = "entries" /\ v \in evict.todo
  /\ index' = [k \in Keyspaces |->
                 IF k \in KeyspacesOf(v) \ {"time"} THEN {e \in index[k] : e.key # Key(k, v)}
                 ELSE index[k]]
  /\ evict' = [evict EXCEPT !.todo = @ \ {v}]
  /\ UNCHANGED <<spans, insert, scan, indexDeaths, rekeyed, collided>>

EvictDone ==
  /\ evict.at = "entries" /\ evict.todo = {}
  /\ index' = [index EXCEPT !["time"] = {e \in @ : e.key \notin evict.keys}]
  /\ evict' = NoEvict
  /\ UNCHANGED <<spans, insert, scan, indexDeaths, rekeyed, collided>>

-----------------------------------------------------------------------------
(* scan_spans.                                                             *)

\* SpanIndex::choose.
Choose(q) == IF q.errors THEN "err" ELSE IF q.service # "any" THEN "svc" ELSE "time"

\* span_matches.
Matches(v, q) ==
  /\ q.service = "any" \/ v.service = q.service
  /\ q.errors => v.error
  /\ v.start >= q.since

\* Mutant: the bound itself is left out.
InRangeAfter(k, e, q) ==
  /\ e.of.start > q.since
  /\ k = "svc" => e.of.service = q.service

\* The bounds of the range that is walked: service_bounds, time_lower_bound.
InRange(k, e, q) ==
  /\ e.of.start >= q.since
  /\ k = "svc" => e.of.service = q.service

\* could_match: what the header alone refuses.
CouldMatch(e, q) ==
  /\ q.service = "any" \/ e.of.service = q.service
  /\ q.errors => e.of.error

\* The iterator is a snapshot; the spans are read one by one.
ScanBegin(q) ==
  /\ Serving /\ scan.at = "idle"
  /\ scan' = [at |-> "walk", query |-> q,
              todo |-> {e \in index[Choose(q)] : InRange(Choose(q), e, q)}, found |-> {},
              steady |-> {v.id : v \in {w \in spans : insert[w] = "done" /\ ~InEviction(w.id)}}
                           \ collided]
  /\ UNCHANGED <<spans, index, insert, evict, indexDeaths, rekeyed, collided>>

\* The newest entry left; its span is read and put to the whole test.
Take(e) ==
  /\ scan.at = "walk" /\ e \in scan.todo /\ Cardinality(scan.found) < Limit
  /\ \A f \in scan.todo : f.of.start <= e.of.start
  /\ scan' = [scan EXCEPT !.todo = @ \ {e},
       !.found = @ \cup {v \in Stored(e.of.id) : CouldMatch(e, scan.query)
                                                  /\ Matches(v, scan.query)}]
  /\ UNCHANGED <<spans, index, insert, evict, indexDeaths, rekeyed, collided>>

Scanned == scan.at = "walk" /\ (scan.todo = {} \/ Cardinality(scan.found) >= Limit)

ScanEnd ==
  /\ Scanned /\ scan' = NoScan
  /\ UNCHANGED <<spans, index, insert, evict, indexDeaths, rekeyed, collided>>

\* The process dies.  Records of the log that were not consumed are applied again
\* from the start; what the eviction had not yet removed stays.
IndexDies ==
  /\ indexDeaths < MaxDeaths /\ indexDeaths' = indexDeaths + 1
  /\ insert' = [v \in Versions |-> IF insert[v] \in Keyspaces THEN "replay" ELSE insert[v]]
  /\ evict' = NoEvict /\ scan' = NoScan
  /\ collided' = collided \cup {v.id : v \in evict.spans}
  /\ UNCHANGED <<spans, index, rekeyed>>

IndexNext ==
  \/ \E v \in Versions : InsertSpan(v) \/ InsertEntry(v) \/ EvictEntries(v)
  \/ \E cutoff \in Cutoffs : EvictBegin(cutoff)
  \/ \E e \in evict.todo : EvictRead(e)
  \/ \E id \in {v.id : v \in Versions} : EvictSpan(id)
  \/ EvictReadAll \/ EvictedSpans \/ EvictDone
  \/ \E q \in Queries : ScanBegin(q)
  \/ scan.at = "walk" /\ \E e \in scan.todo : Take(e)
  \/ ScanEnd
  \/ IndexDies
IndexSpec == IndexInit /\ [][IndexNext]_indexVars
-----------------------------------------------------------------------------
(* Properties.                                                             *)

\* Types; one version per identity, and no key twice in an index.
IndexTypeOK ==
  /\ spans \subseteq Versions
  /\ \A v, w \in spans : v.id = w.id => v = w
  /\ \A k \in Keyspaces : \A e, f \in index[k] : e.key = f.key => e = f
  /\ \A e \in index["err"] : e.of.error

Quiet(id) == ~Inserting(id) /\ ~InEviction(id)

\* Between inserts and evictions, each index has exactly the entries of the stored
\* version of a span, unless it was stored under other keys before or an eviction
\* met one of its inserts: no entry is missing, none is left behind.
IndexesAgree ==
  \A v \in Versions : Quiet(v.id) /\ v.id \notin rekeyed \cup collided =>
    \A k \in Keyspaces : {e \in index[k] : e.of.id = v.id}
                            = {Entry(k, w) : w \in {u \in Stored(v.id) : k \in KeyspacesOf(u)}}

\* Whatever index is walked, and however stale an entry is, what a scan returns was
\* sent and matches the query.
ScansReturnMatches ==
  scan.at = "walk" => \A v \in scan.found : Matches(v, scan.query)

\* A span that is stored, whole and left alone throughout a scan that it matches is
\* returned, unless the limit was reached with spans as new as it.
ScansMissNothing ==
  Scanned => \A v \in spans :
    v.id \in scan.steady /\ Matches(v, scan.query) =>
      \/ v \in scan.found
      \/ Cardinality(scan.found) >= Limit

\* Indexes are right when left alone, and a scan finds what it should and nothing else
\* while inserts and evictions go on.
IndexesAreExact == IndexesAgree /\ ScansReturnMatches /\ ScansMissNothing
=============================================================================
