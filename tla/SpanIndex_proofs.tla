-------------------------- MODULE SpanIndex_proofs --------------------------
(***************************************************************************)
(* Proofs about the span indexes: what an index holds, and what a scan     *)
(* finds while inserts and evictions go on, for any spans, resent versions,*)
(* queries and cutoffs.                                                    *)
(***************************************************************************)
EXTENDS SpanIndex, TLAPS

SpanIds    == {v.id : v \in Versions}
Entries(k) == {Entry(k, v) : v \in {w \in Versions : k \in KeyspacesOf(w)}}
Stages     == {"new", "done", "replay"} \cup Keyspaces

-----------------------------------------------------------------------------
(* The inductive invariant.                                                *)

\* A version that is stored was sent; an identity has one version, a key one entry.
StoreOK ==
  /\ spans \subseteq Versions /\ \A v, w \in spans : v.id = w.id => v = w
  /\ insert \in [Versions -> Stages] /\ \A v \in spans : insert[v] # "new"
  /\ index = [k \in Keyspaces |-> index[k]]
  /\ \A k \in Keyspaces : index[k] \subseteq Entries(k) /\ \A e, f \in index[k] : e.key = f.key => e = f
  /\ \A v \in Versions : insert[v] = "err" => "err" \in KeyspacesOf(v)

\* The eviction works on entries of the time index, then on spans it read.
EvictOK ==
  /\ \E at, todo, read, keys : evict = [at |-> at, todo |-> todo, spans |-> read, keys |-> keys]
  /\ evict.at = "idle" => evict = NoEvict
  /\ evict.spans \subseteq Versions /\ \A v \in evict.spans : InEviction(v.id)
  /\ evict.at = "read" => /\ evict.todo \subseteq Entries("time")
                          /\ \A e, f \in evict.todo : e.key = f.key => e = f
  /\ evict.at = "primary" => evict.todo \subseteq {v.id : v \in evict.spans}
  /\ evict.at = "entries" => evict.todo \subseteq evict.spans

\* The entries of a version that its insert has come by.
Holds(v, k) == Entry(k, v) \in index[k]
WrittenBy(v) == CASE insert[v] = "svc" -> {"time"}
                  [] insert[v] = "err" -> {"time", "svc"}
                  [] insert[v] = "done" -> KeyspacesOf(v)
                  [] OTHER -> {}

\* What an eviction has read of an identity is what is stored of it, until it is gone.
Taken(id) ==
  /\ Stored(id) \subseteq evict.spans
  /\ evict.at = "read" \/ Stored(id) = {} \/ (evict.at = "primary" /\ id \in evict.todo)

\* Where inserts and evictions did not meet: an insert works on the stored version, an
\* eviction on what it has read, and what is stored has its entries.
Apart(id) ==
  /\ \A v \in Versions : v.id = id /\ insert[v] \notin {"new", "done"} => v \in spans /\ ~InEviction(id)
  /\ InEviction(id) => Taken(id)
  /\ ~InEviction(id) => \A v \in Stored(id) : \A k \in WrittenBy(v) : Holds(v, k)

ApartOK == \A id \in SpanIds \ collided : Apart(id)

\* An entry is that of a version, or of one it replaced under the same key.
Fits(e, k, v) == e.key = Key(k, v) /\ k \in KeyspacesOf(v)

\* The version of an identity that is evicted, and what is left of its entries.
Leaving(id, v) ==
  /\ v.id = id /\ Key("time", v) \in evict.keys /\ Stored(id) \subseteq {v}
  /\ \A w \in evict.spans : w.id = id => w = v
  /\ \A k \in Keyspaces : \A e \in index[k] :
       e.of.id = id => Fits(e, k, v) /\ (evict.at = "entries" /\ v \notin evict.todo => k = "time")

\* Where, besides, no version came with other keys: nothing is left behind.
Exact(id) ==
  /\ InEviction(id) => \E v \in evict.spans : Leaving(id, v)
  /\ ~InEviction(id) => \A k \in Keyspaces : \A e \in index[k] :
       e.of.id = id => \E v \in Stored(id) : Fits(e, k, v)
  /\ evict.at = "read" => \A e \in evict.todo :
       e.of.id = id => ~InEviction(id) /\ \E v \in Stored(id) : Fits(e, "time", v)

ExactOK == \A id \in SpanIds \ (collided \cup rekeyed) : Exact(id)

\* A span that is left alone is found, or its entry is still to be read.
ScanOK ==
  /\ scan = NoScan \/ \E query, todo, found, steady :
       scan = [at |-> "walk", query |-> query, todo |-> todo, found |-> found, steady |-> steady]
  /\ scan.at = "walk" =>
       \A v \in spans : v.id \in scan.steady /\ Matches(v, scan.query) =>
         v \in scan.found \/ Entry(Choose(scan.query), v) \in scan.todo

IndexInv == StoreOK /\ EvictOK /\ ApartOK /\ ExactOK /\ ScanOK /\ ScansReturnMatches

-----------------------------------------------------------------------------
(* Keys and entries.                                                       *)

\* A key tells the identity, and keys of different lengths are never the same.
LEMMA KeysTell ==
  /\ \A v : Key("time", v)[2] = v.id /\ Key("err", v) = Key("time", v)
  /\ \A k \in Keyspaces : \A v, w : Key(k, v) = Key(k, w) => v.id = w.id /\ v.start = w.start
  /\ \A v, w : Key("svc", v) = Key("svc", w) => v.service = w.service
  /\ \A v, w : Key("svc", v) # Key("time", w)
  /\ \A v, w : v.id = w.id /\ v.start = w.start => Key("time", v) = Key("time", w)
<1>1. \A v : Key("svc", v) = <<v.service, v.start, v.id>>
  BY DEF Key
<1>2. \A v : Key("time", v) = <<v.start, v.id>> /\ Key("err", v) = <<v.start, v.id>>
  BY DEF Key
<1>3. \A a, b, c, d, e : <<a, b, c>> # <<d, e>>
  OBVIOUS
<1>4. \A a, b, d, e : <<a, b>> = <<d, e>> => a = d /\ b = e
  OBVIOUS
<1>5. \A a, b, c, d, e, f : <<a, b, c>> = <<d, e, f>> => a = d /\ b = e /\ c = f
  OBVIOUS
<1>6. \A v : Key("time", v)[2] = v.id
  <2>1. \A a, b : <<a, b>>[2] = b
    OBVIOUS
  <2> QED BY <1>2, <2>1
<1>7. ASSUME NEW v, NEW w, Key("svc", v) = Key("svc", w)
      PROVE  v.id = w.id /\ v.start = w.start /\ v.service = w.service
  <2>1. <<v.service, v.start, v.id>> = <<w.service, w.start, w.id>>
    BY <1>1, <1>7
  <2> QED BY <1>5, <2>1
<1>8. ASSUME NEW v, NEW w, Key("time", v) = Key("time", w)
      PROVE  v.id = w.id /\ v.start = w.start
  <2>1. <<v.start, v.id>> = <<w.start, w.id>>
    BY <1>2, <1>8
  <2> QED BY <1>4, <2>1
<1>9. ASSUME NEW v, NEW w PROVE Key("svc", v) # Key("time", w)
  <2>1. <<v.service, v.start, v.id>> # <<w.start, w.id>>
    BY <1>3
  <2>2. Key("svc", v) = <<v.service, v.start, v.id>> /\ Key("time", w) = <<w.start, w.id>>
    BY <1>1, <1>2
  <2> QED BY <2>1, <2>2
<1>10. \A v : Key("err", v) = Key("time", v)
  BY <1>2
<1>11. \A v, w : v.id = w.id /\ v.start = w.start => Key("time", v) = Key("time", w)
  BY <1>2
<1>12. ASSUME NEW k \in Keyspaces, NEW v, NEW w, Key(k, v) = Key(k, w)
       PROVE  v.id = w.id /\ v.start = w.start
  BY <1>7, <1>8, <1>10, <1>12 DEF Keyspaces
<1> QED BY <1>6, <1>7, <1>9, <1>10, <1>11, <1>12

\* An entry tells its version.
LEMMA EntryTells ==
  /\ \A k, v : Entry(k, v).key = Key(k, v) /\ Entry(k, v).of = v
  /\ \A k : \A e \in Entries(k) : e = Entry(k, e.of) /\ e.of \in Versions /\ e.key = Key(k, e.of) /\ k \in KeyspacesOf(e.of)
  /\ \A k : \A v \in Versions : k \in KeyspacesOf(v) => Entry(k, v) \in Entries(k)
  /\ \A v : "time" \in KeyspacesOf(v) /\ "svc" \in KeyspacesOf(v) /\ KeyspacesOf(v) \subseteq Keyspaces
  /\ \A v : "err" \in KeyspacesOf(v) <=> v.error
<1>1. \A k, v : Entry(k, v).key = Key(k, v) /\ Entry(k, v).of = v
  BY DEF Entry
<1>2. \A k : \A e \in Entries(k) : \E v \in Versions : e = Entry(k, v) /\ k \in KeyspacesOf(v)
  BY DEF Entries
<1> QED BY <1>1, <1>2 DEF Entries, KeyspacesOf, Keyspaces

\* A version whose keys cover those of another one has the same keys, and is in as many indexes.
LEMMA SameKeys ==
  ASSUME NEW v, NEW w, v.id = w.id, w.error => v.error,
         {Key(k, w) : k \in KeyspacesOf(w)} \subseteq {Key(k, v) : k \in KeyspacesOf(v)}
  PROVE  \A k \in Keyspaces : Key(k, w) = Key(k, v) /\ (k \in KeyspacesOf(w) => k \in KeyspacesOf(v))
<1>1. \E k \in KeyspacesOf(v) : Key("time", w) = Key(k, v)
  BY EntryTells
<1>0. KeyspacesOf(v) \subseteq {"time", "svc", "err"} /\ Key("err", v) = Key("time", v)
  BY EntryTells, KeysTell DEF Keyspaces
<1>2. Key("time", w) = Key("time", v)
  <2>1. Key("svc", v) # Key("time", w)
    BY KeysTell
  <2> QED BY <1>0, <1>1, <2>1
<1>3. \E k \in KeyspacesOf(v) : Key("svc", w) = Key(k, v)
  BY EntryTells
<1>4. Key("svc", w) = Key("svc", v)
  <2>1. Key("svc", w) # Key("time", v)
    BY KeysTell
  <2> QED BY <1>0, <1>3, <2>1
<1>5. Key("err", w) = Key("err", v)
  BY <1>2, KeysTell
<1> QED BY <1>2, <1>4, <1>5, EntryTells DEF Keyspaces

-----------------------------------------------------------------------------
(* What the steps do.                                                      *)

\* What an eviction's steps make of it.
LEMMA EvictViews ==
  ASSUME EvictOK
  PROVE  /\ \A cutoff : EvictBegin(cutoff) =>
              /\ evict.at = "idle" /\ evict'.at = "read" /\ evict'.spans = {} /\ evict'.keys = {}
              /\ evict'.todo \subseteq index["time"]
              /\ evict' = [at |-> "read", todo |-> evict'.todo, spans |-> {}, keys |-> {}]
         /\ \A e : EvictRead(e) =>
              /\ evict.at = "read" /\ e \in evict.todo /\ evict'.at = "read" /\ evict'.todo = evict.todo \ {e}
              /\ evict'.spans = evict.spans \cup Stored(e.of.id) /\ evict'.keys = evict.keys \cup {e.key}
              /\ evict' = [at |-> "read", todo |-> evict'.todo, spans |-> evict'.spans, keys |-> evict'.keys]
         /\ EvictReadAll =>
              /\ evict.at = "read" /\ evict'.at = "primary" /\ evict'.todo = {v.id : v \in evict.spans}
              /\ evict'.spans = evict.spans /\ evict'.keys = evict.keys
              /\ evict' = [at |-> "primary", todo |-> evict'.todo, spans |-> evict.spans, keys |-> evict.keys]
         /\ \A id : EvictSpan(id) =>
              /\ evict.at = "primary" /\ id \in evict.todo /\ evict'.at = "primary" /\ evict'.todo = evict.todo \ {id}
              /\ evict'.spans = evict.spans /\ evict'.keys = evict.keys
              /\ evict' = [at |-> "primary", todo |-> evict'.todo, spans |-> evict.spans, keys |-> evict.keys]
         /\ EvictedSpans =>
              /\ evict.at = "primary" /\ evict.todo = {} /\ evict'.at = "entries" /\ evict'.todo = evict.spans
              /\ evict'.spans = evict.spans /\ evict'.keys = evict.keys
              /\ evict' = [at |-> "entries", todo |-> evict'.todo, spans |-> evict.spans, keys |-> evict.keys]
         /\ \A v : EvictEntries(v) =>
              /\ evict.at = "entries" /\ v \in evict.todo /\ evict'.at = "entries" /\ evict'.todo = evict.todo \ {v}
              /\ evict'.spans = evict.spans /\ evict'.keys = evict.keys
              /\ evict' = [at |-> "entries", todo |-> evict'.todo, spans |-> evict.spans, keys |-> evict.keys]
<1>1. PICK at, todo, read, keys : evict = [at |-> at, todo |-> todo, spans |-> read, keys |-> keys]
  BY DEF EvictOK
<1>2. ASSUME NEW cutoff, EvictBegin(cutoff)
      PROVE  /\ evict.at = "idle" /\ evict'.at = "read" /\ evict'.spans = {} /\ evict'.keys = {}
             /\ evict'.todo \subseteq index["time"]
             /\ evict' = [at |-> "read", todo |-> evict'.todo, spans |-> {}, keys |-> {}]
  <2> DEFINE old == {e \in index["time"] : e.of.start < cutoff}
  <2>1. evict' = [at |-> "read", todo |-> old, spans |-> {}, keys |-> {}] /\ evict.at = "idle"
    BY <1>2 DEF EvictBegin, NoEvict
  <2>2. old \subseteq index["time"]
    OBVIOUS
  <2> HIDE DEF old
  <2> QED BY <2>1, <2>2
<1>3. ASSUME NEW e, EvictRead(e)
      PROVE  /\ evict.at = "read" /\ e \in evict.todo /\ evict'.at = "read" /\ evict'.todo = evict.todo \ {e}
             /\ evict'.spans = evict.spans \cup Stored(e.of.id) /\ evict'.keys = evict.keys \cup {e.key}
             /\ evict' = [at |-> "read", todo |-> evict'.todo, spans |-> evict'.spans, keys |-> evict'.keys]
  <2>1. /\ at = "read" /\ e \in todo
        /\ evict' = [evict EXCEPT !.todo = @ \ {e}, !.keys = @ \cup {e.key}, !.spans = @ \cup Stored(e.of.id)]
    BY <1>1, <1>3 DEF EvictRead
  <2>2. evict' = [at |-> at, todo |-> todo \ {e}, spans |-> read \cup Stored(e.of.id), keys |-> keys \cup {e.key}]
    BY <1>1, <2>1
  <2> QED BY <1>1, <2>1, <2>2
<1>4. EvictReadAll =>
        /\ evict.at = "read" /\ evict'.at = "primary" /\ evict'.todo = {v.id : v \in evict.spans}
        /\ evict'.spans = evict.spans /\ evict'.keys = evict.keys
        /\ evict' = [at |-> "primary", todo |-> evict'.todo, spans |-> evict.spans, keys |-> evict.keys]
  <2> SUFFICES ASSUME EvictReadAll
               PROVE  /\ evict.at = "read" /\ evict'.at = "primary" /\ evict'.todo = {v.id : v \in evict.spans}
                      /\ evict'.spans = evict.spans /\ evict'.keys = evict.keys
                      /\ evict' = [at |-> "primary", todo |-> evict'.todo, spans |-> evict.spans, keys |-> evict.keys]
    OBVIOUS
  <2> DEFINE ids == {v.id : v \in evict.spans}
  <2>1. at = "read" /\ evict' = [evict EXCEPT !.at = "primary", !.todo = ids]
    BY <1>1 DEF EvictReadAll
  <2> HIDE DEF ids
  <2>2. evict' = [at |-> "primary", todo |-> ids, spans |-> read, keys |-> keys]
    BY <1>1, <2>1
  <2> QED BY <1>1, <2>1, <2>2 DEF ids
<1>5. ASSUME NEW id, EvictSpan(id)
      PROVE  /\ evict.at = "primary" /\ id \in evict.todo /\ evict'.at = "primary" /\ evict'.todo = evict.todo \ {id}
             /\ evict'.spans = evict.spans /\ evict'.keys = evict.keys
             /\ evict' = [at |-> "primary", todo |-> evict'.todo, spans |-> evict.spans, keys |-> evict.keys]
  <2>1. at = "primary" /\ id \in todo /\ evict' = [evict EXCEPT !.todo = @ \ {id}]
    BY <1>1, <1>5 DEF EvictSpan
  <2>2. evict' = [at |-> at, todo |-> todo \ {id}, spans |-> read, keys |-> keys]
    BY <1>1, <2>1
  <2> QED BY <1>1, <2>1, <2>2
<1>6. EvictedSpans =>
        /\ evict.at = "primary" /\ evict.todo = {} /\ evict'.at = "entries" /\ evict'.todo = evict.spans
        /\ evict'.spans = evict.spans /\ evict'.keys = evict.keys
        /\ evict' = [at |-> "entries", todo |-> evict'.todo, spans |-> evict.spans, keys |-> evict.keys]
  <2> SUFFICES ASSUME EvictedSpans
               PROVE  /\ evict.at = "primary" /\ evict.todo = {} /\ evict'.at = "entries" /\ evict'.todo = evict.spans
                      /\ evict'.spans = evict.spans /\ evict'.keys = evict.keys
                      /\ evict' = [at |-> "entries", todo |-> evict'.todo, spans |-> evict.spans, keys |-> evict.keys]
    OBVIOUS
  <2>1. at = "primary" /\ todo = {} /\ evict' = [evict EXCEPT !.at = "entries", !.todo = read]
    BY <1>1 DEF EvictedSpans
  <2>2. evict' = [at |-> "entries", todo |-> read, spans |-> read, keys |-> keys]
    BY <1>1, <2>1
  <2> QED BY <1>1, <2>1, <2>2
<1>7. ASSUME NEW v, EvictEntries(v)
      PROVE  /\ evict.at = "entries" /\ v \in evict.todo /\ evict'.at = "entries" /\ evict'.todo = evict.todo \ {v}
             /\ evict'.spans = evict.spans /\ evict'.keys = evict.keys
             /\ evict' = [at |-> "entries", todo |-> evict'.todo, spans |-> evict.spans, keys |-> evict.keys]
  <2>1. at = "entries" /\ v \in todo /\ evict' = [evict EXCEPT !.todo = @ \ {v}]
    BY <1>1, <1>7 DEF EvictEntries
  <2>2. evict' = [at |-> at, todo |-> todo \ {v}, spans |-> read, keys |-> keys]
    BY <1>1, <2>1
  <2> QED BY <1>1, <2>1, <2>2
<1> QED BY <1>2, <1>3, <1>4, <1>5, <1>6, <1>7

\* What a scan sees of inserts and evictions: it holds back what they touch.
LEMMA Unsteadied ==
  ASSUME ScanOK, NEW id, scan' = Unsteady(id)
  PROVE  /\ scan'.at = scan.at
         /\ scan.at = "walk" =>
              /\ scan'.query = scan.query /\ scan'.todo = scan.todo /\ scan'.found = scan.found
              /\ scan'.steady = scan.steady \ {id}
              /\ scan' = [at |-> "walk", query |-> scan.query, todo |-> scan.todo, found |-> scan.found, steady |-> scan'.steady]
         /\ scan.at # "walk" => scan' = scan
<1>1. CASE scan.at # "walk"
  BY <1>1 DEF Unsteady
<1>2. CASE scan.at = "walk"
  <2>1. PICK query, todo, found, steady :
          scan = [at |-> "walk", query |-> query, todo |-> todo, found |-> found, steady |-> steady]
    BY <1>2 DEF ScanOK, NoScan
  <2>2. scan' = [scan EXCEPT !.steady = @ \ {id}]
    BY <1>2 DEF Unsteady
  <2>3. scan' = [at |-> "walk", query |-> query, todo |-> todo, found |-> found, steady |-> steady \ {id}]
    BY <2>1, <2>2
  <2> QED BY <1>2, <2>1, <2>3
<1> QED BY <1>1, <1>2

\* An insert of one entry changes one index, and there only what is of its identity.
LEMMA Overwritten ==
  ASSUME StoreOK, NEW v \in Versions, InsertEntry(v)
  PROVE  /\ insert[v] \in Keyspaces /\ insert[v] \in KeyspacesOf(v)
         /\ index' = [k \in Keyspaces |-> index'[k]]
         /\ \A k \in Keyspaces : k # insert[v] => index'[k] = index[k]
         /\ index'[insert[v]] = {e \in index[insert[v]] : e.key # Key(insert[v], v)} \cup {Entry(insert[v], v)}
         /\ \A k \in Keyspaces : \A e \in index[k] : e.of.id # v.id => e \in index'[k]
         /\ \A k \in Keyspaces : \A e \in index'[k] : e \in index[k] \/ (k = insert[v] /\ e = Entry(k, v))
         /\ insert' = [insert EXCEPT ![v] = IF insert[v] = "time" THEN "svc"
                                           ELSE IF insert[v] = "svc" /\ v.error THEN "err" ELSE "done"]
<1> DEFINE k0 == insert[v]
<1>1. k0 \in Keyspaces /\ index' = [index EXCEPT ![k0] = {e \in @ : e.key # Key(k0, v)} \cup {Entry(k0, v)}]
  BY DEF InsertEntry, Overwrite
<1>2. k0 \in KeyspacesOf(v)
  BY <1>1, EntryTells DEF StoreOK, Keyspaces
<1>3. index = [k \in Keyspaces |-> index[k]]
  BY DEF StoreOK
<1>4. /\ index' = [k \in Keyspaces |-> index'[k]]
      /\ \A k \in Keyspaces : k # k0 => index'[k] = index[k]
      /\ index'[k0] = {e \in index[k0] : e.key # Key(k0, v)} \cup {Entry(k0, v)}
  BY <1>1, <1>3
<1>5. \A k \in Keyspaces : \A e \in index[k] : e.key = Key(k, e.of)
  BY EntryTells DEF StoreOK
<1>6. \A e \in index[k0] : e.of.id # v.id => e.key # Key(k0, v)
  BY <1>1, <1>5, KeysTell
<1>7. insert' = [insert EXCEPT ![v] = IF insert[v] = "time" THEN "svc"
                                      ELSE IF insert[v] = "svc" /\ v.error THEN "err" ELSE "done"]
  <2>1. insert' = [insert EXCEPT ![v] = CASE insert[v] = "time" -> "svc"
                                       [] insert[v] = "svc" /\ "err" \in KeyspacesOf(v) -> "err"
                                       [] OTHER -> "done"]
    BY DEF InsertEntry
  <2> QED BY <1>1, <2>1, EntryTells DEF Keyspaces
<1> HIDE DEF k0
<1>8. \A k \in Keyspaces : \A e \in index[k] : e.of.id # v.id => e \in index'[k]
  BY <1>4, <1>6
<1>9. \A k \in Keyspaces : \A e \in index'[k] : e \in index[k] \/ (k = k0 /\ e = Entry(k, v))
  BY <1>4
<1> QED BY <1>1, <1>2, <1>4, <1>7, <1>8, <1>9 DEF k0

\* A step is one of these.
LEMMA Steps ==
  ASSUME IndexNext
  PROVE  \/ \E v \in Versions : InsertSpan(v)
         \/ \E v \in Versions : InsertEntry(v)
         \/ \E v \in Versions : EvictEntries(v)
         \/ \E cutoff \in Cutoffs : EvictBegin(cutoff)
         \/ \E e \in evict.todo : EvictRead(e)
         \/ \E id \in SpanIds : EvictSpan(id)
         \/ EvictReadAll \/ EvictedSpans \/ EvictDone
         \/ \E q \in Queries : ScanBegin(q)
         \/ scan.at = "walk" /\ \E e \in scan.todo : Take(e)
         \/ ScanEnd
         \/ IndexDies
BY DEF IndexNext, SpanIds

\* What an eviction removes from the indexes was of versions it has read, or under keys it has read.
LEMMA Removed ==
  ASSUME StoreOK, EvictOK
  PROVE  /\ \A v \in Versions : EvictEntries(v) =>
              /\ index' = [k \in Keyspaces |-> index'[k]] /\ InEviction(v.id)
              /\ \A k \in Keyspaces : index'[k] \subseteq index[k]
              /\ \A k \in Keyspaces : \A e \in index[k] : e.of.id # v.id => e \in index'[k]
              /\ \A k \in KeyspacesOf(v) \ {"time"} : \A e \in index'[k] : e.key # Key(k, v)
         /\ EvictDone =>
              /\ index' = [k \in Keyspaces |-> index'[k]]
              /\ \A k \in Keyspaces : index'[k] \subseteq index[k]
              /\ \A k \in Keyspaces : \A e \in index[k] : ~InEviction(e.of.id) => e \in index'[k]
              /\ \A e \in index'["time"] : e.key \notin evict.keys
<1>1. index = [k \in Keyspaces |-> index[k]] /\ \A k \in Keyspaces : \A e \in index[k] : e.key = Key(k, e.of)
  BY EntryTells DEF StoreOK
<1>2. ASSUME NEW v \in Versions, EvictEntries(v)
      PROVE  /\ index' = [k \in Keyspaces |-> index'[k]] /\ InEviction(v.id)
             /\ \A k \in Keyspaces : index'[k] \subseteq index[k]
             /\ \A k \in Keyspaces : \A e \in index[k] : e.of.id # v.id => e \in index'[k]
             /\ \A k \in KeyspacesOf(v) \ {"time"} : \A e \in index'[k] : e.key # Key(k, v)
  <2>1. index' = [k \in Keyspaces |-> IF k \in KeyspacesOf(v) \ {"time"} THEN {e \in index[k] : e.key # Key(k, v)}
                                      ELSE index[k]]
    BY <1>2 DEF EvictEntries
  <2>2. InEviction(v.id)
    BY <1>2 DEF EvictEntries, EvictOK
  <2>3. \A k \in Keyspaces : \A e \in index[k] : e.of.id # v.id => e.key # Key(k, v)
    BY <1>1, KeysTell
  <2>4. KeyspacesOf(v) \subseteq Keyspaces
    BY EntryTells
  <2>5. \A k \in Keyspaces : index'[k] = IF k \in KeyspacesOf(v) \ {"time"} THEN {e \in index[k] : e.key # Key(k, v)} ELSE index[k]
    BY <2>1
  <2>6. index' = [k \in Keyspaces |-> index'[k]]
    BY <2>1
  <2> QED BY <2>2, <2>3, <2>4, <2>5, <2>6
<1>3. ASSUME EvictDone
      PROVE  /\ index' = [k \in Keyspaces |-> index'[k]]
             /\ \A k \in Keyspaces : index'[k] \subseteq index[k]
             /\ \A k \in Keyspaces : \A e \in index[k] : ~InEviction(e.of.id) => e \in index'[k]
             /\ \A e \in index'["time"] : e.key \notin evict.keys
  <2>1. index' = [index EXCEPT !["time"] = {e \in @ : e.key \notin evict.keys}] /\ "time" \in Keyspaces
    BY <1>3 DEF EvictDone, Keyspaces
  <2>2. /\ index' = [k \in Keyspaces |-> index'[k]]
        /\ index'["time"] = {e \in index["time"] : e.key \notin evict.keys}
        /\ \A k \in Keyspaces : k # "time" => index'[k] = index[k]
    BY <1>1, <2>1
  <2>3. \A e \in index["time"] : e.key[2] = e.of.id
    BY <1>1, <2>1, KeysTell
  <2>4. \A e \in index["time"] : ~InEviction(e.of.id) => e.key \notin evict.keys
    BY <2>3 DEF InEviction
  <2> QED BY <2>2, <2>4
<1> QED BY <1>2, <1>3

-----------------------------------------------------------------------------
(* Each part of the invariant is kept.                                     *)

\* Removing spans and entries leaves the rest as it was.
LEMMA StoreShrinks ==
  ASSUME StoreOK, spans' \subseteq spans, insert' = insert, index' = [k \in Keyspaces |-> index'[k]],
         \A k \in Keyspaces : index'[k] \subseteq index[k]
  PROVE  StoreOK'
<1>1. spans' \subseteq Versions /\ (\A v, w \in spans' : v.id = w.id => v = w) /\ \A v \in spans' : insert'[v] # "new"
  BY DEF StoreOK
<1>2. insert' \in [Versions -> Stages] /\ \A v \in Versions : insert'[v] = "err" => "err" \in KeyspacesOf(v)
  BY DEF StoreOK
<1>3. \A k \in Keyspaces : index'[k] \subseteq Entries(k) /\ \A e, f \in index'[k] : e.key = f.key => e = f
  BY DEF StoreOK
<1> QED BY <1>1, <1>2, <1>3 DEF StoreOK

\* The store keeps its shape.
LEMMA StoreStep ==
  ASSUME StoreOK, EvictOK, IndexNext
  PROVE  StoreOK'
<1>1. ASSUME NEW v \in Versions, InsertSpan(v) PROVE StoreOK'
  <2>1. index' = index /\ insert' = [insert EXCEPT ![v] = "time"] /\ spans' = (spans \ Stored(v.id)) \cup {v}
    BY <1>1 DEF InsertSpan
  <2>2. "time" \in Stages /\ "time" # "new" /\ "time" # "err"
    BY DEF Stages, Keyspaces
  <2>3. insert' \in [Versions -> Stages] /\ insert'[v] = "time" /\ \A w \in Versions : w # v => insert'[w] = insert[w]
    BY <2>1, <2>2 DEF StoreOK
  <2>4. spans' \subseteq Versions /\ (\A u, w \in spans' : u.id = w.id => u = w) /\ \A w \in spans' : insert'[w] # "new"
    BY <2>1, <2>2, <2>3 DEF StoreOK, Stored
  <2>5. \A w \in Versions : insert'[w] = "err" => "err" \in KeyspacesOf(w)
    BY <2>2, <2>3 DEF StoreOK
  <2>6. \A k \in Keyspaces : index'[k] \subseteq Entries(k) /\ \A e, f \in index'[k] : e.key = f.key => e = f
    BY <2>1 DEF StoreOK
  <2>7. index' = [k \in Keyspaces |-> index'[k]]
    BY <2>1 DEF StoreOK
  <2> QED BY <2>3, <2>4, <2>5, <2>6, <2>7 DEF StoreOK
<1>2. ASSUME NEW v \in Versions, InsertEntry(v) PROVE StoreOK'
  <2> DEFINE next == IF insert[v] = "time" THEN "svc" ELSE IF insert[v] = "svc" /\ v.error THEN "err" ELSE "done"
  <2>1. /\ insert[v] \in Keyspaces /\ insert[v] \in KeyspacesOf(v)
        /\ index' = [k \in Keyspaces |-> index'[k]]
        /\ \A k \in Keyspaces : k # insert[v] => index'[k] = index[k]
        /\ index'[insert[v]] = {e \in index[insert[v]] : e.key # Key(insert[v], v)} \cup {Entry(insert[v], v)}
    BY <1>2, Overwritten
  <2>2. insert' = [insert EXCEPT ![v] = next]
    BY <1>2, Overwritten
  <2>3. spans' = spans
    BY <1>2 DEF InsertEntry
  <2>4. next \in Stages /\ next # "new" /\ (next = "err" => v.error)
    BY DEF Stages, Keyspaces
  <2> HIDE DEF next
  <2>5. insert' \in [Versions -> Stages] /\ insert'[v] = next /\ \A w \in Versions : w # v => insert'[w] = insert[w]
    BY <2>2, <2>4 DEF StoreOK
  <2>6. (\A w \in spans' : insert'[w] # "new") /\ \A w \in Versions : insert'[w] = "err" => "err" \in KeyspacesOf(w)
    BY <2>3, <2>4, <2>5, EntryTells DEF StoreOK
  <2>7. ASSUME NEW k \in Keyspaces
        PROVE  index'[k] \subseteq Entries(k) /\ \A e, f \in index'[k] : e.key = f.key => e = f
    <3>1. CASE k # insert[v]
      BY <2>1, <3>1 DEF StoreOK
    <3>2. CASE k = insert[v]
      <4>1. Entry(k, v) \in Entries(k) /\ Entry(k, v).key = Key(k, v)
        BY <2>1, <3>2, EntryTells
      <4>2. index'[k] = {e \in index[k] : e.key # Key(k, v)} \cup {Entry(k, v)}
        BY <2>1, <3>2
      <4> QED BY <4>1, <4>2 DEF StoreOK
    <3> QED BY <3>1, <3>2
  <2>8. spans' \subseteq Versions /\ \A u, w \in spans' : u.id = w.id => u = w
    BY <2>3 DEF StoreOK
  <2> QED BY <2>1, <2>5, <2>6, <2>7, <2>8 DEF StoreOK
<1>3. ASSUME NEW v \in Versions, EvictEntries(v) PROVE StoreOK'
  BY <1>3, Removed, StoreShrinks DEF EvictEntries
<1>4. ASSUME EvictDone PROVE StoreOK'
  BY <1>4, Removed, StoreShrinks DEF EvictDone
<1>5. ASSUME NEW id, EvictSpan(id) PROVE StoreOK'
  <2>1. spans' \subseteq spans /\ insert' = insert /\ index' = index
    BY <1>5 DEF EvictSpan
  <2>2. index' = [k \in Keyspaces |-> index'[k]]
    BY <2>1 DEF StoreOK
  <2> QED BY <2>1, <2>2, StoreShrinks
<1>6. ASSUME UNCHANGED <<spans, index, insert>> PROVE StoreOK'
  <2>1. index' = [k \in Keyspaces |-> index'[k]]
    BY <1>6 DEF StoreOK
  <2> QED BY <1>6, <2>1, StoreShrinks
<1>7. ASSUME IndexDies PROVE StoreOK'
  <2>1. /\ spans' = spans /\ index' = index
        /\ insert' = [v \in Versions |-> IF insert[v] \in Keyspaces THEN "replay" ELSE insert[v]]
    BY <1>7 DEF IndexDies
  <2>2. "replay" \in Stages /\ "replay" # "new" /\ "replay" # "err" /\ "new" \notin Keyspaces
    BY DEF Stages, Keyspaces
  <2>3. insert' \in [Versions -> Stages]
    BY <2>1, <2>2 DEF StoreOK
  <2>4. \A v \in Versions : (insert[v] # "new" => insert'[v] # "new") /\ (insert'[v] = "err" => insert[v] = "err")
    BY <2>1, <2>2
  <2>5. spans' \subseteq Versions /\ (\A v, w \in spans' : v.id = w.id => v = w) /\ \A v \in spans' : insert'[v] # "new"
    BY <2>1, <2>4 DEF StoreOK
  <2>6. \A v \in Versions : insert'[v] = "err" => "err" \in KeyspacesOf(v)
    BY <2>4 DEF StoreOK
  <2>7. \A k \in Keyspaces : index'[k] \subseteq Entries(k) /\ \A e, f \in index'[k] : e.key = f.key => e = f
    BY <2>1 DEF StoreOK
  <2>8. index' = [k \in Keyspaces |-> index'[k]]
    BY <2>1 DEF StoreOK
  <2> QED BY <2>3, <2>5, <2>6, <2>7, <2>8 DEF StoreOK
<1>8. (\E cutoff \in Cutoffs : EvictBegin(cutoff)) \/ (\E e \in evict.todo : EvictRead(e)) \/ EvictReadAll
        \/ EvictedSpans => UNCHANGED <<spans, index, insert>>
  BY DEF EvictBegin, EvictRead, EvictReadAll, EvictedSpans
<1>9. (\E q \in Queries : ScanBegin(q)) \/ (\E e \in scan.todo : Take(e)) \/ ScanEnd => UNCHANGED <<spans, index, insert>>
  BY DEF ScanBegin, Take, ScanEnd
<1> QED BY <1>1, <1>2, <1>3, <1>4, <1>5, <1>6, <1>7, <1>8, <1>9, Steps

\* The eviction keeps its shape.
LEMMA EvictStep ==
  ASSUME StoreOK, EvictOK, IndexNext
  PROVE  EvictOK'
<1>1. \A at, todo, read, keys : evict' = [at |-> at, todo |-> todo, spans |-> read, keys |-> keys] =>
        evict'.at = at /\ evict'.todo = todo /\ evict'.spans = read /\ evict'.keys = keys
  OBVIOUS
<1>2. ASSUME NEW cutoff, EvictBegin(cutoff) PROVE EvictOK'
  <2>1. /\ evict'.at = "read" /\ evict'.spans = {} /\ evict'.keys = {} /\ evict'.todo \subseteq index["time"]
        /\ evict' = [at |-> "read", todo |-> evict'.todo, spans |-> {}, keys |-> {}]
    BY <1>2, EvictViews
  <2>2. "time" \in Keyspaces
    BY DEF Keyspaces
  <2>3. evict'.todo \subseteq Entries("time") /\ \A e, f \in evict'.todo : e.key = f.key => e = f
    BY <2>1, <2>2 DEF StoreOK
  <2> QED BY <2>1, <2>3 DEF EvictOK
<1>3. ASSUME NEW e \in evict.todo, EvictRead(e) PROVE EvictOK'
  <2>1. /\ evict.at = "read" /\ evict'.at = "read" /\ evict'.todo = evict.todo \ {e}
        /\ evict'.spans = evict.spans \cup Stored(e.of.id) /\ evict'.keys = evict.keys \cup {e.key}
        /\ evict' = [at |-> "read", todo |-> evict'.todo, spans |-> evict'.spans, keys |-> evict'.keys]
    BY <1>3, EvictViews
  <2>2. e.key[2] = e.of.id
    <3>1. e \in Entries("time")
      BY <2>1 DEF EvictOK
    <3>2. e.key = Key("time", e.of)
      BY <3>1, EntryTells
    <3> QED BY <3>2, KeysTell
  <2>3. \A v \in evict'.spans : v \in Versions /\ InEviction(v.id)'
    BY <2>1, <2>2 DEF EvictOK, StoreOK, Stored, InEviction
  <2>4. evict'.todo \subseteq Entries("time") /\ \A f, g \in evict'.todo : f.key = g.key => f = g
    BY <2>1 DEF EvictOK
  <2> QED BY <2>1, <2>3, <2>4 DEF EvictOK
<1>4. ASSUME EvictReadAll PROVE EvictOK'
  <2>1. /\ evict'.at = "primary" /\ evict'.todo = {v.id : v \in evict.spans} /\ evict'.spans = evict.spans /\ evict'.keys = evict.keys
        /\ evict' = [at |-> "primary", todo |-> evict'.todo, spans |-> evict.spans, keys |-> evict.keys]
    BY <1>4, EvictViews
  <2>2. \A v \in evict'.spans : v \in Versions /\ InEviction(v.id)'
    BY <2>1 DEF EvictOK, InEviction
  <2> QED BY <2>1, <2>2 DEF EvictOK
<1>5. ASSUME NEW id, EvictSpan(id) PROVE EvictOK'
  <2>1. /\ evict.at = "primary" /\ evict'.at = "primary" /\ evict'.todo = evict.todo \ {id} /\ evict'.spans = evict.spans /\ evict'.keys = evict.keys
        /\ evict' = [at |-> "primary", todo |-> evict'.todo, spans |-> evict.spans, keys |-> evict.keys]
    BY <1>5, EvictViews
  <2>2. \A v \in evict'.spans : v \in Versions /\ InEviction(v.id)'
    BY <2>1 DEF EvictOK, InEviction
  <2>3. evict'.todo \subseteq {v.id : v \in evict'.spans}
    BY <2>1 DEF EvictOK
  <2> QED BY <2>1, <2>2, <2>3 DEF EvictOK
<1>6. ASSUME EvictedSpans PROVE EvictOK'
  <2>1. /\ evict'.at = "entries" /\ evict'.todo = evict.spans /\ evict'.spans = evict.spans /\ evict'.keys = evict.keys
        /\ evict' = [at |-> "entries", todo |-> evict'.todo, spans |-> evict.spans, keys |-> evict.keys]
    BY <1>6, EvictViews
  <2>2. \A v \in evict'.spans : v \in Versions /\ InEviction(v.id)'
    BY <2>1 DEF EvictOK, InEviction
  <2> QED BY <2>1, <2>2 DEF EvictOK
<1>7. ASSUME NEW v, EvictEntries(v) PROVE EvictOK'
  <2>1. /\ evict.at = "entries" /\ evict'.at = "entries" /\ evict'.todo = evict.todo \ {v} /\ evict'.spans = evict.spans /\ evict'.keys = evict.keys
        /\ evict' = [at |-> "entries", todo |-> evict'.todo, spans |-> evict.spans, keys |-> evict.keys]
    BY <1>7, EvictViews
  <2>2. \A w \in evict'.spans : w \in Versions /\ InEviction(w.id)'
    BY <2>1 DEF EvictOK, InEviction
  <2>3. evict'.todo \subseteq evict'.spans
    BY <2>1 DEF EvictOK
  <2> QED BY <2>1, <2>2, <2>3 DEF EvictOK
<1>8. ASSUME evict' = NoEvict PROVE EvictOK'
  <2>1. evict' = [at |-> "idle", todo |-> {}, spans |-> {}, keys |-> {}]
    BY <1>8 DEF NoEvict
  <2>2. evict'.at = "idle" /\ evict'.spans = {}
    BY <2>1
  <2> QED BY <1>8, <2>1, <2>2 DEF EvictOK
<1>9. ASSUME evict' = evict PROVE EvictOK'
  BY <1>9 DEF EvictOK, InEviction
<1>10. /\ (\E v \in Versions : InsertSpan(v) \/ InsertEntry(v)) => evict' = evict
       /\ (\E q \in Queries : ScanBegin(q)) \/ (\E e \in scan.todo : Take(e)) \/ ScanEnd => evict' = evict
       /\ EvictDone \/ IndexDies => evict' = NoEvict
  BY DEF InsertSpan, InsertEntry, ScanBegin, Take, ScanEnd, EvictDone, IndexDies
<1> QED BY <1>2, <1>3, <1>4, <1>5, <1>6, <1>7, <1>8, <1>9, <1>10, Steps

\* An identity whose span, inserts and entries are left alone stays apart.
LEMMA ApartKept ==
  ASSUME StoreOK, NEW id, Apart(id), Stored(id)' = Stored(id),
         \A v \in Versions : v.id = id => insert'[v] = insert[v],
         InEviction(id)' <=> InEviction(id), InEviction(id) => Taken(id)',
         InEviction(id) \/ \A k \in Keyspaces : \A e \in index[k] : e.of.id = id => e \in index'[k]
  PROVE  Apart(id)'
<1>1. ASSUME NEW v \in Versions, v.id = id, insert'[v] \notin {"new", "done"} PROVE v \in spans' /\ ~InEviction(id)'
  <2>1. v \in spans /\ ~InEviction(id)
    BY <1>1 DEF Apart
  <2>2. v \in Stored(id)'
    BY <1>1, <2>1 DEF Stored
  <2> QED BY <2>1, <2>2 DEF Stored
<1>2. ASSUME ~InEviction(id)', NEW v \in Stored(id)', NEW k \in WrittenBy(v)' PROVE Holds(v, k)'
  <2>1. v \in Stored(id) /\ v \in Versions /\ v.id = id
    BY DEF Stored, StoreOK
  <2>2. k \in WrittenBy(v)
    BY <2>1 DEF WrittenBy
  <2>3. Entry(k, v) \in index[k]
    BY <1>2, <2>1, <2>2 DEF Apart, Holds
  <2>4. k \in Keyspaces /\ Entry(k, v).of.id = id
    BY <2>1, <2>2, EntryTells DEF WrittenBy, Keyspaces
  <2>5. Entry(k, v) \in index'[k]
    BY <1>2, <2>3, <2>4
  <2> QED BY <2>5 DEF Holds
<1>3. InEviction(id)' => Taken(id)'
  OBVIOUS
<1> QED BY <1>1, <1>2, <1>3 DEF Apart

\* Inserts and evictions that did not meet stay apart.
LEMMA ApartStep ==
  ASSUME StoreOK, EvictOK, ApartOK, IndexNext
  PROVE  ApartOK'
<1> SUFFICES ASSUME NEW id \in SpanIds, id \notin collided' PROVE Apart(id)'
  BY DEF ApartOK, SpanIds
<1>0. collided \subseteq collided'
  BY Steps DEF InsertSpan, InsertEntry, EvictEntries, EvictBegin, EvictRead, EvictSpan, EvictReadAll, EvictedSpans,
               EvictDone, ScanBegin, Take, ScanEnd, IndexDies
<1>a. Apart(id)
  BY <1>0 DEF ApartOK
<1>b. StoreOK'
  BY StoreStep
<1>1. ASSUME NEW v \in Versions, InsertSpan(v) PROVE Apart(id)'
  <2>1. /\ index' = index /\ evict' = evict /\ insert' = [insert EXCEPT ![v] = "time"]
        /\ spans' = (spans \ Stored(v.id)) \cup {v}
    BY <1>1 DEF InsertSpan
  <2>2. insert'[v] = "time" /\ \A w \in Versions : w # v => insert'[w] = insert[w]
    BY <2>1 DEF StoreOK
  <2>3. InEviction(id)' <=> InEviction(id)
    BY <2>1 DEF InEviction
  <2>4. CASE id # v.id
    <3>1. Stored(id)' = Stored(id)
      BY <2>1, <2>4 DEF Stored
    <3>2. InEviction(id) => Taken(id)'
      BY <1>a, <2>1, <3>1 DEF Apart, Taken
    <3> QED BY <1>a, <2>1, <2>2, <2>3, <2>4, <3>1, <3>2, ApartKept
  <2>5. CASE id = v.id
    <3>1. ~InEviction(id) /\ \A w \in Versions \ {v} : w.id = id => insert[w] \in {"new", "done"}
      BY <1>1, <2>5 DEF InsertSpan
    <3>2. v \in spans' /\ Stored(id)' = {v}
      BY <2>1, <2>5 DEF Stored
    <3>3. WrittenBy(v)' = {}
      BY <2>2 DEF WrittenBy
    <3>4. \A w \in Versions : w.id = id /\ insert'[w] \notin {"new", "done"} => w = v
      BY <2>2, <3>1
    <3> QED BY <2>3, <3>1, <3>2, <3>3, <3>4 DEF Apart
  <2> QED BY <2>4, <2>5
<1>2. ASSUME NEW v \in Versions, InsertEntry(v) PROVE Apart(id)'
  <2> DEFINE next == IF insert[v] = "time" THEN "svc" ELSE IF insert[v] = "svc" /\ v.error THEN "err" ELSE "done"
  <2>1. spans' = spans /\ evict' = evict
    BY <1>2 DEF InsertEntry
  <2>2. /\ insert[v] \in Keyspaces /\ insert[v] \in KeyspacesOf(v)
        /\ \A k \in Keyspaces : k # insert[v] => index'[k] = index[k]
        /\ index'[insert[v]] = {e \in index[insert[v]] : e.key # Key(insert[v], v)} \cup {Entry(insert[v], v)}
        /\ \A k \in Keyspaces : \A e \in index[k] : e.of.id # v.id => e \in index'[k]
    BY <1>2, Overwritten
  <2>3. insert' = [insert EXCEPT ![v] = next]
    BY <1>2, Overwritten
  <2> HIDE DEF next
  <2>4. insert'[v] = next /\ \A w \in Versions : w # v => insert'[w] = insert[w]
    BY <2>3 DEF StoreOK
  <2>5. InEviction(id)' <=> InEviction(id)
    BY <2>1 DEF InEviction
  <2>6. Stored(id)' = Stored(id)
    BY <2>1 DEF Stored
  <2>7. CASE id # v.id
    <3>1. InEviction(id) => Taken(id)'
      BY <1>a, <2>1, <2>6 DEF Apart, Taken
    <3>2. \A k \in Keyspaces : \A e \in index[k] : e.of.id = id => e \in index'[k]
      BY <2>2, <2>7
    <3>3. \A w \in Versions : w.id = id => insert'[w] = insert[w]
      BY <2>4, <2>7
    <3> QED BY <1>a, <2>5, <2>6, <3>1, <3>2, <3>3, ApartKept
  <2>8. CASE id = v.id
    <3>0. insert[v] \notin {"new", "done"}
      BY <2>2 DEF Keyspaces
    <3>1. v \in spans /\ ~InEviction(id)
      BY <1>a, <2>8, <3>0 DEF Apart
    <3>2. Stored(id)' = {v}
      BY <2>6, <2>8, <3>1 DEF Stored, StoreOK
    <3>3. \A w \in Versions : w.id = id /\ insert'[w] \notin {"new", "done"} => insert[w] \notin {"new", "done"}
      BY <2>4, <3>0
    <3>4. \A w \in Versions : w.id = id /\ insert'[w] \notin {"new", "done"} => w \in spans' /\ ~InEviction(id)'
      BY <1>a, <2>1, <2>5, <3>3 DEF Apart
    <3>5. KeyspacesOf(v) = IF v.error THEN {"time", "svc", "err"} ELSE {"time", "svc"}
      BY DEF KeyspacesOf, Keyspaces
    <3>6. \A k : k \in WrittenBy(v)' => k = insert[v] \/ k \in WrittenBy(v)
      <4>1. CASE insert[v] = "time"
        BY <2>4, <4>1 DEF WrittenBy, next
      <4>2. CASE insert[v] = "svc"
        BY <2>4, <3>5, <4>2 DEF WrittenBy, next
      <4>3. CASE insert[v] = "err"
        BY <2>4, <3>5, <4>3 DEF WrittenBy, next
      <4> QED BY <2>2, <4>1, <4>2, <4>3 DEF Keyspaces
    <3>7. ASSUME NEW k \in WrittenBy(v)' PROVE Holds(v, k)'
      <4>1. CASE k = insert[v]
        BY <2>2, <4>1 DEF Holds
      <4>2. CASE k # insert[v]
        <5>1. k \in WrittenBy(v)
          BY <3>6, <4>2
        <5>2. k \in Keyspaces
          BY <3>5, <5>1 DEF WrittenBy, Keyspaces
        <5>3. v \in Stored(id)
          BY <2>8, <3>1 DEF Stored
        <5>4. Holds(v, k)
          BY <1>a, <3>1, <5>1, <5>3 DEF Apart
        <5> QED BY <2>2, <4>2, <5>2, <5>4 DEF Holds
      <4> QED BY <4>1, <4>2
    <3> QED BY <2>5, <3>1, <3>2, <3>4, <3>7 DEF Apart
  <2> QED BY <2>7, <2>8
<1>3. ASSUME NEW v \in Versions, EvictEntries(v) PROVE Apart(id)'
  <2>1. spans' = spans /\ insert' = insert
    BY <1>3 DEF EvictEntries
  <2>2. evict.at = "entries" /\ evict'.at = "entries" /\ evict'.spans = evict.spans /\ evict'.keys = evict.keys
    BY <1>3, EvictViews
  <2>3. InEviction(v.id) /\ \A k \in Keyspaces : \A e \in index[k] : e.of.id # v.id => e \in index'[k]
    BY <1>3, Removed
  <2>4. (InEviction(id)' <=> InEviction(id)) /\ Stored(id)' = Stored(id)
    BY <2>1, <2>2 DEF InEviction, Stored
  <2>5. InEviction(id) => Taken(id)'
    BY <1>a, <2>2, <2>4 DEF Apart, Taken
  <2>6. InEviction(id) \/ \A k \in Keyspaces : \A e \in index[k] : e.of.id = id => e \in index'[k]
    BY <2>3
  <2> QED BY <1>a, <2>1, <2>4, <2>5, <2>6, ApartKept
<1>4. ASSUME EvictDone PROVE Apart(id)'
  <2>1. spans' = spans /\ insert' = insert /\ evict.at = "entries" /\ evict' = NoEvict
    BY <1>4 DEF EvictDone
  <2>2. \A k \in Keyspaces : \A e \in index[k] : ~InEviction(e.of.id) => e \in index'[k]
    BY <1>4, Removed
  <2>3. ~InEviction(id)' /\ Stored(id)' = Stored(id)
    BY <2>1 DEF InEviction, Stored, NoEvict
  <2>4. CASE InEviction(id)
    <3>1. Stored(id)' = {}
      BY <1>a, <2>1, <2>3, <2>4 DEF Apart, Taken
    <3>2. \A v \in Versions : v.id = id => insert'[v] \in {"new", "done"}
      BY <1>a, <2>1, <2>4 DEF Apart
    <3> QED BY <2>3, <3>1, <3>2 DEF Apart
  <2>5. CASE ~InEviction(id)
    BY <1>a, <2>1, <2>2, <2>3, <2>5, ApartKept
  <2> QED BY <2>4, <2>5
<1>5. ASSUME NEW i \in SpanIds, EvictSpan(i) PROVE Apart(id)'
  <2>1. spans' = spans \ Stored(i) /\ insert' = insert /\ index' = index
    BY <1>5 DEF EvictSpan
  <2>2. /\ evict.at = "primary" /\ i \in evict.todo /\ evict'.at = "primary" /\ evict'.todo = evict.todo \ {i}
        /\ evict'.spans = evict.spans /\ evict'.keys = evict.keys
    BY <1>5, EvictViews
  <2>3. InEviction(id)' <=> InEviction(id)
    BY <2>2 DEF InEviction
  <2>4. CASE id = i
    <3>1. InEviction(id)
      BY <2>2, <2>4 DEF EvictOK
    <3>2. Stored(id)' = {}
      BY <2>1, <2>4 DEF Stored
    <3>3. \A v \in Versions : v.id = id => insert'[v] \in {"new", "done"}
      BY <1>a, <2>1, <3>1 DEF Apart
    <3> QED BY <2>3, <3>1, <3>2, <3>3 DEF Apart, Taken
  <2>5. CASE id # i
    <3>1. Stored(id)' = Stored(id)
      BY <2>1, <2>5 DEF Stored
    <3>2. InEviction(id) => Taken(id)'
      BY <1>a, <2>2, <2>5, <3>1 DEF Apart, Taken
    <3> QED BY <1>a, <2>1, <2>3, <3>1, <3>2, ApartKept
  <2> QED BY <2>4, <2>5
<1>6. ASSUME NEW cutoff, EvictBegin(cutoff) PROVE Apart(id)'
  <2>1. spans' = spans /\ insert' = insert /\ index' = index
    BY <1>6 DEF EvictBegin
  <2>2. evict.at = "idle" /\ evict'.keys = {}
    BY <1>6, EvictViews
  <2>3. ~InEviction(id) /\ ~InEviction(id)' /\ Stored(id)' = Stored(id)
    BY <2>1, <2>2 DEF InEviction, EvictOK, NoEvict, Stored
  <2> QED BY <1>a, <2>1, <2>3, ApartKept
<1>7. ASSUME NEW e \in evict.todo, EvictRead(e) PROVE Apart(id)'
  <2>1. /\ spans' = spans /\ insert' = insert /\ index' = index
        /\ collided' = IF Inserting(e.of.id) THEN collided \cup {e.of.id} ELSE collided
    BY <1>7 DEF EvictRead
  <2>2. /\ evict.at = "read" /\ evict'.at = "read"
        /\ evict'.spans = evict.spans \cup Stored(e.of.id) /\ evict'.keys = evict.keys \cup {e.key}
    BY <1>7, EvictViews
  <2>3. e.key[2] = e.of.id
    <3>1. e \in Entries("time")
      BY <2>2 DEF EvictOK
    <3>2. e.key = Key("time", e.of)
      BY <3>1, EntryTells
    <3> QED BY <3>2, KeysTell
  <2>4. Stored(id)' = Stored(id)
    BY <2>1 DEF Stored
  <2>5. CASE id = e.of.id
    <3>1. \A v \in Versions : v.id = id => insert'[v] \in {"new", "done"}
      BY <2>1, <2>5 DEF Inserting
    <3>2. InEviction(id)' /\ Taken(id)'
      BY <2>2, <2>3, <2>4, <2>5 DEF InEviction, Taken
    <3> QED BY <3>1, <3>2 DEF Apart
  <2>6. CASE id # e.of.id
    <3>1. InEviction(id)' <=> InEviction(id)
      BY <2>2, <2>3, <2>6 DEF InEviction
    <3>2. InEviction(id) => Taken(id)'
      BY <1>a, <2>2, <2>4 DEF Apart, Taken
    <3> QED BY <1>a, <2>1, <2>4, <3>1, <3>2, ApartKept
  <2> QED BY <2>5, <2>6
<1>8. ASSUME EvictReadAll PROVE Apart(id)'
  <2>1. spans' = spans /\ insert' = insert /\ index' = index
    BY <1>8 DEF EvictReadAll
  <2>2. /\ evict.at = "read" /\ evict'.at = "primary" /\ evict'.todo = {v.id : v \in evict.spans}
        /\ evict'.spans = evict.spans /\ evict'.keys = evict.keys
    BY <1>8, EvictViews
  <2>3. (InEviction(id)' <=> InEviction(id)) /\ Stored(id)' = Stored(id)
    BY <2>1, <2>2 DEF InEviction, Stored
  <2>4. ASSUME InEviction(id) PROVE Taken(id)'
    <3>1. Stored(id) \subseteq evict.spans
      BY <1>a, <2>4 DEF Apart, Taken
    <3>2. Stored(id) = {} \/ id \in evict'.todo
      BY <2>2, <3>1 DEF Stored
    <3> QED BY <2>2, <2>3, <3>1, <3>2 DEF Taken
  <2> QED BY <1>a, <2>1, <2>3, <2>4, ApartKept
<1>9. ASSUME EvictedSpans PROVE Apart(id)'
  <2>1. spans' = spans /\ insert' = insert /\ index' = index
    BY <1>9 DEF EvictedSpans
  <2>2. /\ evict.at = "primary" /\ evict.todo = {} /\ evict'.spans = evict.spans /\ evict'.keys = evict.keys
    BY <1>9, EvictViews
  <2>3. (InEviction(id)' <=> InEviction(id)) /\ Stored(id)' = Stored(id)
    BY <2>1, <2>2 DEF InEviction, Stored
  <2>4. InEviction(id) => Taken(id)'
    BY <1>a, <2>2, <2>3 DEF Apart, Taken
  <2> QED BY <1>a, <2>1, <2>3, <2>4, ApartKept
<1>10. ASSUME UNCHANGED <<spans, index, insert, evict>> PROVE Apart(id)'
  <2>1. (InEviction(id)' <=> InEviction(id)) /\ Stored(id)' = Stored(id) /\ (Taken(id)' <=> Taken(id))
    BY <1>10 DEF InEviction, Stored, Taken
  <2> QED BY <1>10, <1>a, <2>1, ApartKept DEF Apart
<1>11. ASSUME IndexDies PROVE Apart(id)'
  <2>1. /\ spans' = spans /\ index' = index /\ evict' = NoEvict
        /\ insert' = [v \in Versions |-> IF insert[v] \in Keyspaces THEN "replay" ELSE insert[v]]
        /\ collided' = collided \cup {v.id : v \in evict.spans}
    BY <1>11 DEF IndexDies
  <2>2. ~InEviction(id)' /\ Stored(id)' = Stored(id)
    BY <2>1 DEF InEviction, Stored, NoEvict
  <2>3. \A v \in Versions : /\ insert'[v] \notin {"new", "done"} => insert[v] \notin {"new", "done"}
                            /\ insert'[v] = insert[v] \/ insert'[v] = "replay"
    BY <2>1 DEF Keyspaces
  <2>4. CASE InEviction(id)
    <3>1. Stored(id) = {}
      BY <1>a, <2>1, <2>4 DEF Apart, Taken, Stored
    <3>2. \A v \in Versions : v.id = id => insert'[v] \in {"new", "done"}
      BY <1>a, <2>3, <2>4 DEF Apart
    <3> QED BY <2>2, <3>1, <3>2 DEF Apart
  <2>5. CASE ~InEviction(id)
    <3>1. \A v \in Versions : v.id = id /\ insert'[v] \notin {"new", "done"} => v \in spans'
      BY <1>a, <2>1, <2>3 DEF Apart
    <3>2. ASSUME NEW v \in Stored(id), NEW k \in WrittenBy(v)' PROVE Holds(v, k)'
      <4>1. v \in Versions
        BY DEF Stored, StoreOK
      <4>2. k \in WrittenBy(v)
        BY <2>3, <4>1 DEF WrittenBy
      <4> QED BY <1>a, <2>1, <2>5, <4>2 DEF Apart, Holds
    <3> QED BY <2>2, <3>1, <3>2 DEF Apart
  <2> QED BY <2>4, <2>5
<1>12. (\E q \in Queries : ScanBegin(q)) \/ (\E e \in scan.todo : Take(e)) \/ ScanEnd => UNCHANGED <<spans, index, insert, evict>>
  BY DEF ScanBegin, Take, ScanEnd
<1> QED BY <1>1, <1>2, <1>3, <1>4, <1>5, <1>6, <1>7, <1>8, <1>9, <1>10, <1>11, <1>12, Steps

\* An identity that is not being evicted, and of which nothing is added, has nothing left behind.
LEMMA ExactRests ==
  ASSUME NEW id, Exact(id), ~InEviction(id), ~InEviction(id)', Stored(id)' = Stored(id),
         \A k \in Keyspaces : index'[k] \subseteq index[k], evict'.at # "read" \/ evict' = evict
  PROVE  Exact(id)'
<1>1. \A k \in Keyspaces : \A e \in index'[k] : e.of.id = id => \E v \in Stored(id)' : Fits(e, k, v)
  BY DEF Exact
<1>2. evict'.at = "read" => \A e \in evict'.todo : e.of.id = id => \E v \in Stored(id)' : Fits(e, "time", v)
  BY DEF Exact
<1> QED BY <1>1, <1>2 DEF Exact, Fits

\* An identity of which an eviction goes on has left what the eviction has read.
LEMMA ExactLeaves ==
  ASSUME NEW id, Exact(id), InEviction(id), InEviction(id)', Stored(id)' \subseteq Stored(id),
         evict'.spans = evict.spans, evict'.keys = evict.keys, index' = index,
         evict'.at = "read" => evict.at = "read" /\ evict'.todo \subseteq evict.todo,
         evict'.at = "entries" => evict'.todo = evict.spans
  PROVE  Exact(id)'
<1>1. PICK v \in evict.spans : Leaving(id, v)
  BY DEF Exact
<1>2. Leaving(id, v)'
  BY <1>1 DEF Leaving, Fits
<1>3. evict'.at = "read" => \A e \in evict'.todo : e.of.id # id
  BY DEF Exact
<1> QED BY <1>1, <1>2, <1>3 DEF Exact

\* Where no version came with other keys, nothing is left behind.
LEMMA ExactStep ==
  ASSUME StoreOK, EvictOK, ApartOK, ExactOK, IndexNext
  PROVE  ExactOK'
<1> SUFFICES ASSUME NEW id \in SpanIds, id \notin collided', id \notin rekeyed' PROVE Exact(id)'
  BY DEF ExactOK, SpanIds
<1>0. collided \subseteq collided' /\ rekeyed \subseteq rekeyed'
  BY Steps DEF InsertSpan, InsertEntry, EvictEntries, EvictBegin, EvictRead, EvictSpan, EvictReadAll, EvictedSpans,
               EvictDone, ScanBegin, Take, ScanEnd, IndexDies
<1>a. Apart(id) /\ Exact(id)
  BY <1>0 DEF ApartOK, ExactOK
<1>1. ASSUME NEW v \in Versions, InsertSpan(v) PROVE Exact(id)'
  <2>1. index' = index /\ evict' = evict /\ spans' = (spans \ Stored(v.id)) \cup {v}
    BY <1>1 DEF InsertSpan
  <2>2. InEviction(id)' <=> InEviction(id)
    BY <2>1 DEF InEviction
  <2>3. CASE id # v.id
    <3>1. Stored(id)' = Stored(id)
      BY <2>1, <2>3 DEF Stored
    <3>2. \A w : Leaving(id, w) => Leaving(id, w)'
      BY <2>1, <3>1 DEF Leaving, Fits
    <3>3. CASE InEviction(id)
      <4>1. PICK w \in evict.spans : Leaving(id, w)
        BY <1>a, <3>3 DEF Exact
      <4>2. evict.at = "read" => \A e \in evict.todo : e.of.id # id
        BY <1>a, <3>3 DEF Exact
      <4> QED BY <2>1, <2>2, <3>2, <3>3, <4>1, <4>2 DEF Exact
    <3>4. CASE ~InEviction(id)
      BY <1>a, <2>1, <2>2, <3>1, <3>4, ExactRests
    <3> QED BY <3>3, <3>4
  <2>4. CASE id = v.id
    <3>1. ~InEviction(id)
      BY <1>1, <2>4 DEF InsertSpan
    <3>2. v \in Stored(id)'
      BY <2>1, <2>4 DEF Stored
    <3>3. ASSUME NEW w \in Stored(id)
          PROVE  \A k \in Keyspaces : Key(k, w) = Key(k, v) /\ (k \in KeyspacesOf(w) => k \in KeyspacesOf(v))
      <4>1. w \in Stored(v.id) /\ w.id = v.id
        BY <2>4 DEF Stored
      <4> DEFINE covered == {Key(k, w) : k \in KeyspacesOf(w)} \subseteq {Key(k, v) : k \in KeyspacesOf(v)}
      <4>2. covered /\ (w.error => v.error)
        BY <1>1, <2>4, <4>1 DEF InsertSpan
      <4> QED BY <4>1, <4>2, SameKeys
    <3>4. \A k \in Keyspaces : \A e : \A w \in Stored(id) : Fits(e, k, w) => Fits(e, k, v)
      BY <3>3 DEF Fits
    <3>5. \A k \in Keyspaces : \A e \in index'[k] : e.of.id = id => Fits(e, k, v)
      BY <1>a, <2>1, <3>1, <3>4 DEF Exact
    <3>6. evict'.at = "read" => \A e \in evict'.todo : e.of.id = id => Fits(e, "time", v)
      BY <1>a, <2>1, <3>1, <3>4 DEF Exact, Keyspaces
    <3> QED BY <2>2, <3>1, <3>2, <3>5, <3>6 DEF Exact, Fits
  <2> QED BY <2>3, <2>4
<1>2. ASSUME NEW v \in Versions, InsertEntry(v) PROVE Exact(id)'
  <2>1. spans' = spans /\ evict' = evict
    BY <1>2 DEF InsertEntry
  <2>2. /\ insert[v] \in Keyspaces /\ insert[v] \in KeyspacesOf(v)
        /\ \A k \in Keyspaces : \A e \in index'[k] : e \in index[k] \/ (k = insert[v] /\ e = Entry(k, v))
    BY <1>2, Overwritten
  <2>3. (InEviction(id)' <=> InEviction(id)) /\ Stored(id)' = Stored(id)
    BY <2>1 DEF InEviction, Stored
  <2>4. \A k : Entry(k, v).of.id = v.id /\ Entry(k, v).key = Key(k, v)
    BY EntryTells
  <2>5. CASE InEviction(id)
    <3>1. id # v.id
      BY <1>a, <2>2, <2>5 DEF Apart, Keyspaces
    <3>2. \A k \in Keyspaces : \A e \in index'[k] : e.of.id = id => e \in index[k]
      BY <2>2, <2>4, <3>1
    <3>3. PICK w \in evict.spans : Leaving(id, w)
      BY <1>a, <2>5 DEF Exact
    <3>4. Leaving(id, w)'
      BY <2>1, <2>3, <3>2, <3>3 DEF Leaving, Fits
    <3>5. evict'.at = "read" => \A e \in evict'.todo : e.of.id # id
      BY <1>a, <2>1, <2>5 DEF Exact
    <3> QED BY <2>1, <2>3, <2>5, <3>3, <3>4, <3>5 DEF Exact
  <2>6. CASE ~InEviction(id)
    <3>1. id = v.id => v \in Stored(id)
      BY <1>a, <2>2 DEF Apart, Stored, Keyspaces
    <3>2. ASSUME NEW k \in Keyspaces, NEW e \in index'[k], e.of.id = id PROVE \E w \in Stored(id)' : Fits(e, k, w)
      <4>1. CASE e \in index[k]
        BY <1>a, <2>3, <2>6, <3>2, <4>1 DEF Exact
      <4>2. CASE k = insert[v] /\ e = Entry(k, v)
        BY <2>2, <2>3, <2>4, <3>1, <3>2, <4>2 DEF Fits
      <4> QED BY <2>2, <4>1, <4>2
    <3>3. evict'.at = "read" => \A e \in evict'.todo : e.of.id = id => \E w \in Stored(id)' : Fits(e, "time", w)
      BY <1>a, <2>1, <2>3 DEF Exact
    <3> QED BY <2>3, <2>6, <3>2, <3>3 DEF Exact, Fits
  <2> QED BY <2>5, <2>6
<1>3. ASSUME NEW u \in Versions, EvictEntries(u) PROVE Exact(id)'
  <2>1. spans' = spans
    BY <1>3 DEF EvictEntries
  <2>2. /\ evict.at = "entries" /\ u \in evict.todo /\ evict'.at = "entries" /\ evict'.todo = evict.todo \ {u}
        /\ evict'.spans = evict.spans /\ evict'.keys = evict.keys
    BY <1>3, EvictViews
  <2>3. /\ \A k \in Keyspaces : index'[k] \subseteq index[k]
        /\ \A k \in KeyspacesOf(u) \ {"time"} : \A e \in index'[k] : e.key # Key(k, u)
    BY <1>3, Removed
  <2>4. (InEviction(id)' <=> InEviction(id)) /\ Stored(id)' = Stored(id)
    BY <2>1, <2>2 DEF InEviction, Stored
  <2>5. CASE InEviction(id)
    <3>1. PICK v \in evict.spans : Leaving(id, v)
      BY <1>a, <2>5 DEF Exact
    <3>2. ASSUME NEW k \in Keyspaces, NEW e \in index'[k], e.of.id = id, v \notin evict'.todo, k # "time" PROVE FALSE
      <4>1. e \in index[k] /\ Fits(e, k, v) /\ v = u
        BY <2>2, <2>3, <3>1, <3>2 DEF Leaving
      <4> QED BY <2>3, <3>2, <4>1 DEF Fits
    <3>3. \A k \in Keyspaces : \A e \in index'[k] : e.of.id = id => Fits(e, k, v)
      BY <2>3, <3>1 DEF Leaving
    <3>4. Leaving(id, v)'
      BY <2>2, <2>4, <3>1, <3>2, <3>3 DEF Leaving, Fits
    <3> QED BY <2>2, <2>4, <2>5, <3>1, <3>4 DEF Exact
  <2>6. CASE ~InEviction(id)
    BY <1>a, <2>2, <2>3, <2>4, <2>6, ExactRests
  <2> QED BY <2>5, <2>6
<1>4. ASSUME EvictDone PROVE Exact(id)'
  <2>1. spans' = spans /\ evict.at = "entries" /\ evict.todo = {} /\ evict' = NoEvict
    BY <1>4 DEF EvictDone
  <2>2. /\ \A k \in Keyspaces : index'[k] \subseteq index[k]
        /\ \A e \in index'["time"] : e.key \notin evict.keys
    BY <1>4, Removed
  <2>3. ~InEviction(id)' /\ Stored(id)' = Stored(id) /\ evict'.at = "idle"
    BY <2>1 DEF InEviction, Stored, NoEvict
  <2>4. CASE InEviction(id)
    <3>1. PICK v \in evict.spans : Leaving(id, v)
      BY <1>a, <2>4 DEF Exact
    <3>2. ASSUME NEW k \in Keyspaces, NEW e \in index'[k], e.of.id = id PROVE FALSE
      <4>1. Fits(e, k, v) /\ k = "time"
        BY <2>1, <2>2, <3>1, <3>2 DEF Leaving
      <4>2. e.key \in evict.keys
        BY <3>1, <4>1 DEF Leaving, Fits
      <4> QED BY <2>2, <4>1, <4>2
    <3> QED BY <2>3, <3>2 DEF Exact
  <2>5. CASE ~InEviction(id)
    BY <1>a, <2>2, <2>3, <2>5, ExactRests
  <2> QED BY <2>4, <2>5
<1>5. ASSUME NEW i \in SpanIds, EvictSpan(i) PROVE Exact(id)'
  <2>1. spans' = spans \ Stored(i) /\ index' = index
    BY <1>5 DEF EvictSpan
  <2>2. /\ evict.at = "primary" /\ i \in evict.todo /\ evict'.at = "primary" /\ evict'.todo = evict.todo \ {i}
        /\ evict'.spans = evict.spans /\ evict'.keys = evict.keys
    BY <1>5, EvictViews
  <2>3. InEviction(id)' <=> InEviction(id)
    BY <2>2 DEF InEviction
  <2>4. Stored(id)' \subseteq Stored(id)
    BY <2>1 DEF Stored
  <2>5. CASE InEviction(id)
    BY <1>a, <2>1, <2>2, <2>3, <2>4, <2>5, ExactLeaves
  <2>6. CASE ~InEviction(id)
    <3>1. id # i
      BY <2>2, <2>6 DEF EvictOK
    <3>2. Stored(id)' = Stored(id)
      BY <2>1, <3>1 DEF Stored
    <3> QED BY <1>a, <2>1, <2>2, <2>3, <2>6, <3>2, ExactRests
  <2> QED BY <2>5, <2>6
<1>6. ASSUME NEW cutoff, EvictBegin(cutoff) PROVE Exact(id)'
  <2>1. spans' = spans /\ index' = index
    BY <1>6 DEF EvictBegin
  <2>2. evict.at = "idle" /\ evict'.keys = {} /\ evict'.todo \subseteq index["time"]
    BY <1>6, EvictViews
  <2>3. ~InEviction(id) /\ ~InEviction(id)' /\ Stored(id)' = Stored(id)
    BY <2>1, <2>2 DEF InEviction, EvictOK, NoEvict, Stored
  <2>4. \A k \in Keyspaces : \A e \in index'[k] : e.of.id = id => \E v \in Stored(id)' : Fits(e, k, v)
    BY <1>a, <2>1, <2>3 DEF Exact
  <2>5. \A e \in evict'.todo : e.of.id = id => \E v \in Stored(id)' : Fits(e, "time", v)
    BY <2>1, <2>2, <2>4 DEF Keyspaces
  <2> QED BY <2>3, <2>4, <2>5 DEF Exact, Fits
<1>7. ASSUME NEW e \in evict.todo, EvictRead(e) PROVE Exact(id)'
  <2>1. spans' = spans /\ index' = index
    BY <1>7 DEF EvictRead
  <2>2. /\ evict.at = "read" /\ evict'.at = "read" /\ evict'.todo = evict.todo \ {e}
        /\ evict'.spans = evict.spans \cup Stored(e.of.id) /\ evict'.keys = evict.keys \cup {e.key}
    BY <1>7, EvictViews
  <2>3. e.key[2] = e.of.id
    <3>1. e \in Entries("time")
      BY <2>2 DEF EvictOK
    <3>2. e.key = Key("time", e.of)
      BY <3>1, EntryTells
    <3> QED BY <3>2, KeysTell
  <2>4. Stored(id)' = Stored(id)
    BY <2>1 DEF Stored
  <2>5. CASE id = e.of.id
    <3>1. ~InEviction(id)
      BY <1>a, <2>2, <2>5 DEF Exact
    <3>2. PICK v \in Stored(id) : Fits(e, "time", v)
      BY <1>a, <2>2, <2>5 DEF Exact
    <3>3. \A w \in Stored(id) : w = v
      BY <3>2 DEF Stored, StoreOK
    <3>4. v.id = id /\ e.key = Key("time", v) /\ v \in evict'.spans
      BY <2>2, <2>5, <3>2 DEF Stored, Fits
    <3>5. \A w \in evict'.spans : w.id = id => w = v
      BY <2>2, <2>5, <3>1, <3>3 DEF EvictOK
    <3>6. \A k \in Keyspaces : \A f \in index'[k] : f.of.id = id => Fits(f, k, v)
      BY <1>a, <2>1, <3>1, <3>3 DEF Exact
    <3>7. Leaving(id, v)'
      BY <2>2, <2>4, <3>3, <3>4, <3>5, <3>6 DEF Leaving, Fits
    <3>8. ASSUME NEW f \in evict'.todo, f.of.id = id PROVE FALSE
      <4>1. f \in evict.todo /\ f # e
        BY <2>2
      <4>2. PICK w \in Stored(id) : Fits(f, "time", w)
        BY <1>a, <2>2, <3>8, <4>1 DEF Exact
      <4>3. f.key = e.key
        BY <3>3, <3>4, <4>2 DEF Fits
      <4> QED BY <2>2, <4>1, <4>3 DEF EvictOK
    <3>9. InEviction(id)'
      BY <2>2, <2>3, <2>5 DEF InEviction
    <3> QED BY <3>4, <3>7, <3>8, <3>9 DEF Exact
  <2>6. CASE id # e.of.id
    <3>1. InEviction(id)' <=> InEviction(id)
      BY <2>2, <2>3, <2>6 DEF InEviction
    <3>2. CASE InEviction(id)
      <4>1. PICK v \in evict.spans : Leaving(id, v)
        BY <1>a, <3>2 DEF Exact
      <4>2. \A w \in evict'.spans : w.id = id => w \in evict.spans
        BY <2>2, <2>6 DEF Stored
      <4>3. Leaving(id, v)' /\ v \in evict'.spans
        BY <2>1, <2>2, <2>4, <4>1, <4>2 DEF Leaving, Fits
      <4>4. \A f \in evict'.todo : f.of.id # id
        BY <1>a, <2>2, <3>2 DEF Exact
      <4> QED BY <3>1, <3>2, <4>3, <4>4 DEF Exact
    <3>3. CASE ~InEviction(id)
      <4>1. \A k \in Keyspaces : \A f \in index'[k] : f.of.id = id => \E v \in Stored(id)' : Fits(f, k, v)
        BY <1>a, <2>1, <2>4, <3>3 DEF Exact
      <4>2. \A f \in evict'.todo : f.of.id = id => \E v \in Stored(id)' : Fits(f, "time", v)
        BY <1>a, <2>2, <2>4 DEF Exact
      <4> QED BY <3>1, <3>3, <4>1, <4>2 DEF Exact, Fits
    <3> QED BY <3>2, <3>3
  <2> QED BY <2>5, <2>6
<1>8. ASSUME EvictReadAll \/ EvictedSpans PROVE Exact(id)'
  <2>1. spans' = spans /\ index' = index
    BY <1>8 DEF EvictReadAll, EvictedSpans
  <2>2. /\ evict'.at # "read" /\ evict'.spans = evict.spans /\ evict'.keys = evict.keys
        /\ evict'.at = "entries" => evict'.todo = evict.spans
    BY <1>8, EvictViews
  <2>3. (InEviction(id)' <=> InEviction(id)) /\ Stored(id)' = Stored(id)
    BY <2>1, <2>2 DEF InEviction, Stored
  <2>4. CASE InEviction(id)
    BY <1>a, <2>1, <2>2, <2>3, <2>4, ExactLeaves
  <2>5. CASE ~InEviction(id)
    BY <1>a, <2>1, <2>2, <2>3, <2>5, ExactRests
  <2> QED BY <2>4, <2>5
<1>9. ASSUME UNCHANGED <<spans, index, evict>> PROVE Exact(id)'
  <2>1. (InEviction(id)' <=> InEviction(id)) /\ Stored(id)' = Stored(id) /\ \A v : Leaving(id, v)' <=> Leaving(id, v)
    BY <1>9 DEF InEviction, Stored, Leaving, Fits
  <2>2. \A e, k, v : Fits(e, k, v)' <=> Fits(e, k, v)
    BY DEF Fits
  <2> QED BY <1>9, <1>a, <2>1, <2>2 DEF Exact
<1>10. ASSUME IndexDies PROVE Exact(id)'
  <2>1. spans' = spans /\ index' = index /\ evict' = NoEvict /\ collided' = collided \cup {v.id : v \in evict.spans}
    BY <1>10 DEF IndexDies
  <2>2. ~InEviction(id)' /\ Stored(id)' = Stored(id) /\ evict'.at = "idle"
    BY <2>1 DEF InEviction, Stored, NoEvict
  <2>3. ~InEviction(id)
    BY <1>a, <2>1 DEF Exact, Leaving
  <2> QED BY <1>a, <2>1, <2>2, <2>3, ExactRests
<1>11. (\E q \in Queries : ScanBegin(q)) \/ (\E e \in scan.todo : Take(e)) \/ ScanEnd => UNCHANGED <<spans, index, evict>>
  BY DEF ScanBegin, Take, ScanEnd
<1> QED BY <1>1, <1>2, <1>3, <1>4, <1>5, <1>6, <1>7, <1>8, <1>9, <1>10, <1>11, Steps

\* A span that is left alone throughout a scan is found, or its entry is still to be read.
LEMMA ScanStep ==
  ASSUME StoreOK, EvictOK, ApartOK, ScanOK, ScansReturnMatches, IndexNext
  PROVE  ScanOK' /\ ScansReturnMatches'
<1> DEFINE Found(v) == v.id \in scan.steady /\ Matches(v, scan.query) =>
                         v \in scan.found \/ Entry(Choose(scan.query), v) \in scan.todo
<1>1. ASSUME NEW id, scan' = Unsteady(id), \A v \in spans' : v.id # id => v \in spans
      PROVE  ScanOK' /\ ScansReturnMatches'
  <2>1. CASE scan.at # "walk"
    <3>1. scan' = scan /\ scan = NoScan
      BY <1>1, <2>1, Unsteadied DEF ScanOK
    <3> QED BY <2>1, <3>1 DEF ScanOK, ScansReturnMatches
  <2>2. CASE scan.at = "walk"
    <3>1. /\ scan'.at = "walk" /\ scan'.query = scan.query /\ scan'.todo = scan.todo /\ scan'.found = scan.found
          /\ scan'.steady = scan.steady \ {id}
          /\ scan' = [at |-> "walk", query |-> scan.query, todo |-> scan.todo, found |-> scan.found, steady |-> scan'.steady]
      BY <1>1, <2>2, Unsteadied
    <3>2. \A v \in spans' : v.id \in scan'.steady => v \in spans /\ v.id \in scan.steady
      BY <1>1, <3>1
    <3>3. \A v \in spans' : v.id \in scan'.steady /\ Matches(v, scan'.query) =>
            v \in scan'.found \/ Entry(Choose(scan'.query), v) \in scan'.todo
      BY <2>2, <3>1, <3>2 DEF ScanOK
    <3>4. ScanOK'
      BY <3>1, <3>3 DEF ScanOK, Matches, Choose, Entry, Key
    <3>5. ScansReturnMatches'
      BY <2>2, <3>1 DEF ScansReturnMatches, Matches
    <3> QED BY <3>4, <3>5
  <2> QED BY <2>1, <2>2
<1>2. ASSUME scan' = scan, spans' \subseteq spans PROVE ScanOK' /\ ScansReturnMatches'
  BY <1>2 DEF ScanOK, ScansReturnMatches, Matches, Choose, Entry, Key
<1>3. ASSUME scan' = NoScan PROVE ScanOK' /\ ScansReturnMatches'
  <2>1. scan'.at = "idle"
    BY <1>3 DEF NoScan
  <2> QED BY <1>3, <2>1 DEF ScanOK, ScansReturnMatches
<1>4. ASSUME NEW q \in Queries, ScanBegin(q) PROVE ScanOK' /\ ScansReturnMatches'
  <2> DEFINE walked == {e \in index[Choose(q)] : InRange(Choose(q), e, q)}
             left   == {v.id : v \in {w \in spans : insert[w] = "done" /\ ~InEviction(w.id)}} \ collided
  <2>1. spans' = spans /\ scan' = [at |-> "walk", query |-> q, todo |-> walked, found |-> {}, steady |-> left]
    BY <1>4 DEF ScanBegin
  <2>2. ASSUME NEW v \in spans, v.id \in left, Matches(v, q) PROVE Entry(Choose(q), v) \in walked
    <3>1. PICK w \in spans : insert[w] = "done" /\ ~InEviction(w.id) /\ w.id = v.id
      BY <2>2
    <3>2. w = v /\ v \in Versions /\ v.id \in SpanIds \ collided
      BY <2>2, <3>1 DEF StoreOK, SpanIds
    <3>3. \A k \in KeyspacesOf(v) : Holds(v, k)
      <4>1. WrittenBy(v) = KeyspacesOf(v)
        BY <3>1, <3>2 DEF WrittenBy
      <4> QED BY <3>1, <3>2, <4>1 DEF ApartOK, Apart, Stored
    <3>4. Choose(q) \in KeyspacesOf(v)
      BY <2>2, EntryTells DEF Choose, Matches
    <3>5. Choose(q) = "svc" => v.service = q.service
      BY <2>2 DEF Choose, Matches
    <3>6. Entry(Choose(q), v).of = v
      BY EntryTells
    <3>7. InRange(Choose(q), Entry(Choose(q), v), q)
      BY <2>2, <3>5, <3>6 DEF InRange, Matches
    <3> QED BY <3>3, <3>4, <3>7 DEF Holds
  <2> HIDE DEF walked, left
  <2>3. /\ scan'.at = "walk" /\ scan'.query = q /\ scan'.todo = walked /\ scan'.found = {} /\ scan'.steady = left
        /\ scan' = [at |-> "walk", query |-> q, todo |-> walked, found |-> {}, steady |-> left]
    BY <2>1
  <2>4. \A v \in spans' : v.id \in scan'.steady /\ Matches(v, scan'.query) =>
          v \in scan'.found \/ Entry(Choose(scan'.query), v) \in scan'.todo
    BY <2>1, <2>2, <2>3
  <2>5. ScanOK'
    BY <2>3, <2>4 DEF ScanOK, Matches, Choose, Entry, Key
  <2> QED BY <2>3, <2>5 DEF ScansReturnMatches
<1>5. ASSUME scan.at = "walk", NEW e \in scan.todo, Take(e) PROVE ScanOK' /\ ScansReturnMatches'
  <2> DEFINE taken == {v \in Stored(e.of.id) : CouldMatch(e, scan.query) /\ Matches(v, scan.query)}
  <2>1. PICK query, todo, found, steady :
          scan = [at |-> "walk", query |-> query, todo |-> todo, found |-> found, steady |-> steady]
    BY <1>5 DEF ScanOK, NoScan
  <2>2. spans' = spans /\ scan' = [scan EXCEPT !.todo = @ \ {e}, !.found = @ \cup taken]
    BY <1>5 DEF Take
  <2>3. taken \subseteq {v \in Stored(e.of.id) : Matches(v, scan.query)}
    OBVIOUS
  <2>4. ASSUME NEW v \in spans, Matches(v, scan.query), e = Entry(Choose(scan.query), v) PROVE v \in taken
    <3>1. e.of = v
      BY <2>4, EntryTells
    <3>2. CouldMatch(e, scan.query)
      BY <2>4, <3>1 DEF CouldMatch, Matches
    <3> QED BY <2>4, <3>1, <3>2 DEF Stored
  <2> HIDE DEF taken
  <2>5. scan' = [at |-> "walk", query |-> query, todo |-> todo \ {e}, found |-> found \cup taken, steady |-> steady]
    BY <2>1, <2>2
  <2>6. /\ scan'.at = "walk" /\ scan'.query = scan.query /\ scan'.todo = scan.todo \ {e}
        /\ scan'.found = scan.found \cup taken /\ scan'.steady = scan.steady
    BY <2>1, <2>5
  <2>7. \A v \in spans' : v.id \in scan'.steady /\ Matches(v, scan'.query) =>
          v \in scan'.found \/ Entry(Choose(scan'.query), v) \in scan'.todo
    <3> SUFFICES ASSUME NEW v \in spans, v.id \in scan.steady, Matches(v, scan.query)
                 PROVE  v \in scan'.found \/ Entry(Choose(scan.query), v) \in scan'.todo
      BY <2>2, <2>6
    <3>1. v \in scan.found \/ Entry(Choose(scan.query), v) \in scan.todo
      BY <1>5 DEF ScanOK
    <3>2. CASE e = Entry(Choose(scan.query), v)
      BY <2>4, <2>6, <3>2
    <3>3. CASE e # Entry(Choose(scan.query), v)
      BY <2>6, <3>1, <3>3
    <3> QED BY <3>2, <3>3
  <2>8. ScanOK'
    BY <2>5, <2>7 DEF ScanOK, Matches, Choose, Entry, Key
  <2>9. \A v \in scan'.found : Matches(v, scan'.query)
    BY <1>5, <2>3, <2>6 DEF ScansReturnMatches
  <2> QED BY <2>8, <2>9 DEF ScansReturnMatches, Matches
<1>6. ASSUME NEW v \in Versions, InsertSpan(v) PROVE ScanOK' /\ ScansReturnMatches'
  <2>1. scan' = Unsteady(v.id) /\ \A u \in spans' : u.id # v.id => u \in spans
    BY <1>6 DEF InsertSpan
  <2> QED BY <1>1, <2>1
<1>7. ASSUME NEW e, EvictRead(e) PROVE ScanOK' /\ ScansReturnMatches'
  <2>1. scan' = Unsteady(e.of.id) /\ spans' = spans
    BY <1>7 DEF EvictRead
  <2> QED BY <1>1, <2>1
<1>8. /\ (\E v \in Versions : InsertEntry(v) \/ EvictEntries(v)) => scan' = scan /\ spans' \subseteq spans
      /\ (\E cutoff \in Cutoffs : EvictBegin(cutoff)) => scan' = scan /\ spans' \subseteq spans
      /\ (\E id \in SpanIds : EvictSpan(id)) => scan' = scan /\ spans' \subseteq spans
      /\ EvictReadAll \/ EvictedSpans \/ EvictDone => scan' = scan /\ spans' \subseteq spans
      /\ ScanEnd \/ IndexDies => scan' = NoScan
  BY DEF InsertEntry, EvictEntries, EvictBegin, EvictSpan, EvictReadAll, EvictedSpans, EvictDone, ScanEnd, IndexDies
<1> QED BY <1>2, <1>3, <1>4, <1>5, <1>6, <1>7, <1>8, Steps

-----------------------------------------------------------------------------
(* The theorems.                                                           *)

\* An empty store has it all.
LEMMA IndexInitially ==
  ASSUME IndexInit
  PROVE  IndexInv
<1>1. /\ spans = {} /\ index = [k \in Keyspaces |-> {}] /\ insert = [v \in Versions |-> "new"]
      /\ evict = NoEvict /\ scan = NoScan
  BY DEF IndexInit
<1>2. evict.at = "idle" /\ evict.spans = {} /\ evict.keys = {} /\ scan.at = "idle"
  BY <1>1 DEF NoEvict, NoScan
<1>3. StoreOK
  BY <1>1 DEF StoreOK, Stages
<1>4. EvictOK
  BY <1>1, <1>2 DEF EvictOK, NoEvict
<1>5. ApartOK
  BY <1>1, <1>2 DEF ApartOK, Apart, InEviction, Stored
<1>6. ExactOK
  BY <1>1, <1>2 DEF ExactOK, Exact, InEviction
<1>7. ScanOK /\ ScansReturnMatches
  BY <1>1, <1>2 DEF ScanOK, ScansReturnMatches
<1> QED BY <1>3, <1>4, <1>5, <1>6, <1>7 DEF IndexInv

\* Every step keeps it.
LEMMA IndexStep ==
  ASSUME IndexInv, [IndexNext]_indexVars
  PROVE  IndexInv'
<1>1. CASE IndexNext
  BY <1>1, StoreStep, EvictStep, ApartStep, ExactStep, ScanStep DEF IndexInv
<1>2. CASE UNCHANGED indexVars
  <2>1. UNCHANGED <<spans, index, insert, evict, scan, collided, rekeyed>>
    BY <1>2 DEF indexVars
  <2>2. StoreOK'
    BY <2>1 DEF IndexInv, StoreOK
  <2>3. EvictOK'
    BY <2>1 DEF IndexInv, EvictOK, InEviction
  <2>4. \A id : (InEviction(id)' <=> InEviction(id)) /\ Stored(id)' = Stored(id) /\ (Taken(id)' <=> Taken(id))
    BY <2>1 DEF InEviction, Stored, Taken
  <2>5. \A v : WrittenBy(v)' = WrittenBy(v) /\ \A k : Holds(v, k)' <=> Holds(v, k)
    BY <2>1 DEF WrittenBy, Holds
  <2>6. \A id : Apart(id) => Apart(id)'
    BY <2>1, <2>4, <2>5 DEF Apart
  <2>7. ApartOK'
    BY <2>1, <2>6 DEF IndexInv, ApartOK, SpanIds
  <2>8. \A id, v : Leaving(id, v)' <=> Leaving(id, v)
    BY <2>1, <2>4 DEF Leaving, Fits
  <2>9. \A id : Exact(id) => Exact(id)'
    BY <2>1, <2>4, <2>8 DEF Exact, Fits
  <2>10. ExactOK'
    BY <2>1, <2>9 DEF IndexInv, ExactOK, SpanIds
  <2>11. ScanOK' /\ ScansReturnMatches'
    BY <2>1 DEF IndexInv, ScanOK, ScansReturnMatches, Matches, Choose, Entry, Key
  <2> QED BY <2>2, <2>3, <2>7, <2>10, <2>11 DEF IndexInv
<1> QED BY <1>1, <1>2

\* The invariant says that indexes and scans are right.
LEMMA InvIsExact ==
  ASSUME IndexInv
  PROVE  IndexTypeOK /\ IndexesAreExact
<1>1. IndexTypeOK
  <2>1. \A k \in Keyspaces : \A e, f \in index[k] : e.key = f.key => e = f
    BY DEF IndexInv, StoreOK
  <2>2. \A e \in index["err"] : e.of.error
    BY EntryTells DEF IndexInv, StoreOK, Keyspaces
  <2> QED BY <2>1, <2>2 DEF IndexTypeOK, IndexInv, StoreOK
<1>2. ASSUME NEW u \in Versions, Quiet(u.id), u.id \notin rekeyed \cup collided, NEW k \in Keyspaces
      PROVE  {e \in index[k] : e.of.id = u.id} = {Entry(k, w) : w \in {x \in Stored(u.id) : k \in KeyspacesOf(x)}}
  <2>1. Apart(u.id) /\ Exact(u.id) /\ ~InEviction(u.id) /\ ~Inserting(u.id)
    BY <1>2 DEF IndexInv, ApartOK, ExactOK, SpanIds, Quiet
  <2>2. ASSUME NEW w \in Stored(u.id), k \in KeyspacesOf(w) PROVE Entry(k, w) \in index[k] /\ Entry(k, w).of = w /\ w.id = u.id
    <3>1. w \in Versions /\ w.id = u.id /\ w \in spans
      BY DEF IndexInv, StoreOK, Stored
    <3>2. insert[w] = "done"
      BY <2>1, <3>1 DEF IndexInv, StoreOK, Inserting
    <3>3. WrittenBy(w) = KeyspacesOf(w)
      BY <3>2 DEF WrittenBy
    <3> QED BY <2>1, <2>2, <3>1, <3>3, EntryTells DEF Apart, Holds
  <2>3. ASSUME NEW e \in index[k], e.of.id = u.id
        PROVE  \E w \in Stored(u.id) : k \in KeyspacesOf(w) /\ e = Entry(k, w)
    <3>1. PICK w \in Stored(u.id) : e.key = Key(k, w) /\ k \in KeyspacesOf(w)
      BY <2>1, <2>3 DEF Exact, Fits
    <3>2. Entry(k, w) \in index[k] /\ Entry(k, w).key = e.key
      BY <2>2, <3>1, EntryTells
    <3>3. e = Entry(k, w)
      BY <3>2 DEF IndexInv, StoreOK
    <3> QED BY <3>1, <3>3
  <2> QED BY <2>2, <2>3
<1>3. IndexesAgree
  BY <1>2 DEF IndexesAgree
<1>4. ScansMissNothing
  <2> SUFFICES ASSUME Scanned, NEW v \in spans, v.id \in scan.steady, Matches(v, scan.query)
               PROVE  v \in scan.found \/ Cardinality(scan.found) >= Limit
    BY DEF ScansMissNothing
  <2>1. v \in scan.found \/ Entry(Choose(scan.query), v) \in scan.todo
    BY DEF IndexInv, ScanOK, Scanned
  <2> QED BY <2>1 DEF Scanned
<1> QED BY <1>1, <1>3, <1>4 DEF IndexesAreExact, IndexInv

\* For any spans, however they are sent again, evicted and scanned meanwhile: an index
\* that is left alone has the entries of the stored spans and no others, a scan returns
\* what matches, and it misses no span that is left alone.
THEOREM IndexesExact == IndexSpec => []IndexesAreExact
<1>1. IndexSpec => []IndexInv
  BY IndexInitially, IndexStep, PTL DEF IndexSpec
<1>2. IndexInv => IndexesAreExact
  BY InvIsExact
<1> QED BY <1>1, <1>2, PTL

\* One version per identity, one entry per key, and only error spans in the error index.
THEOREM IndexTypes == IndexSpec => []IndexTypeOK
<1>1. IndexSpec => []IndexInv
  BY IndexInitially, IndexStep, PTL DEF IndexSpec
<1>2. IndexInv => IndexTypeOK
  BY InvIsExact
<1> QED BY <1>1, <1>2, PTL
=============================================================================
