---------------------------- MODULE Stores_proofs ----------------------------
(***************************************************************************)
(* Proofs about three stores that others rely on: the API keys, whose copy *)
(* in the server follows the file, for any keys, commands and requests;    *)
(* the sharded store, for any number of shards, spans and inserts; and the *)
(* eval suites, for any cases, pushes and clients.                         *)
(***************************************************************************)
EXTENDS MCStores, SpanIndex_proofs, TieredStore_proofs, FiniteSetTheorems, WellFoundedInduction, TLAPS

-----------------------------------------------------------------------------
(* The API keys: shapes.                                                   *)

Known     == InitialKeys \cup {c.key : c \in Commands}
Settings  == Configs \cup {[explicit |-> "off", listeners |-> {}]}
Copies    == [keys : SUBSET Known, time : Nat]
Texts     == [is : {"none", "whole", "empty", "mixed"}, keys : SUBSET Known, time : Nat]
AtStages  == {"new", "refused", "loaded", "opened", "written", "done", "failed"}
CommandAt == [at : AtStages, keys : SUBSET Known, on : {"nothing", "tmp", "file"}]
Phases    == {"new", "timed", "missed", "loaded", "done"}
Answers   == {"none", "unauthorized", "forbidden", "accepted"}
Sources   == {"none", "copy", "file", "fallback"}
RequestAt == [at : Phases, time : Nat, keys : SUBSET Known, by : Sources, answer : Answers]
ServerAt  == [at : {"down", "loaded", "timed", "refused", "up"},
              mode : {Resolve(config) : config \in Settings}, config : Settings, copy : Copies]

\* The variables hold what they are meant to.
KeyShapes ==
  /\ keyFile \in Texts /\ keyTmp \in Texts
  /\ command \in [Commands -> CommandAt] /\ server \in ServerAt
  /\ request \in [Requests -> RequestAt] /\ clock \in Nat
  /\ DOMAIN inPlace = Requests /\ crossed \subseteq Commands

\* The shapes of what is in a table.
LEMMA Fields ==
  ASSUME KeyShapes
  PROVE  /\ \A c \in Commands : command[c].keys \in SUBSET Known
         /\ \A r \in Requests : request[r].keys \in SUBSET Known /\ request[r].time \in Nat
         /\ keyFile.keys \in SUBSET Known /\ keyFile.time \in Nat
         /\ server.copy.keys \in SUBSET Known /\ server.copy.time \in Nat
         /\ server.copy \in Copies /\ keyTmp.keys \in SUBSET Known /\ keyTmp.time \in Nat
BY DEF KeyShapes, Copies, Texts, CommandAt, RequestAt, ServerAt

\* A text that some keys, or none, are written to.
LEMMA TextShapes ==
  ASSUME KeyShapes, NEW is \in {"whole", "empty", "mixed"}, NEW keys \in SUBSET Known
  PROVE  /\ KeyText(is, keys) \in Texts /\ NoFile \in Texts /\ NoFile.is = "none"
         /\ KeyText(is, keys).is = is /\ KeyText(is, keys).keys = keys
         /\ KeyText(is, keys).time = clock
BY DEF KeyShapes, KeyText, NoFile, Texts

\* A request that is judged by some keys.
LEMMA Judging ==
  ASSUME KeyShapes, NEW r \in Requests, NEW keys \in SUBSET Known, NEW by \in Sources
  PROVE  /\ Finish(r, keys, by) \in RequestAt
         /\ Finish(r, keys, by).at = "done" /\ Finish(r, keys, by).keys = keys
         /\ Finish(r, keys, by).by = by /\ Finish(r, keys, by).time = request[r].time
         /\ Finish(r, keys, by).answer = "accepted" => r.key \in keys /\ ~(RoleOf[r.key] < r.needs)
<1> DEFINE answer == IF r.key \notin keys THEN "unauthorized"
                     ELSE IF RoleOf[r.key] < r.needs THEN "forbidden" ELSE "accepted"
<1>1. answer \in Answers /\ (answer = "accepted" => r.key \in keys /\ ~(RoleOf[r.key] < r.needs))
  BY DEF Answers
<1>2. Finish(r, keys, by) = [request[r] EXCEPT !.at = "done", !.keys = keys, !.by = by, !.answer = answer]
  BY DEF Finish
<1> HIDE DEF answer
<1>3. request[r] \in RequestAt
  BY DEF KeyShapes
<1> QED BY <1>1, <1>2, <1>3 DEF RequestAt, Phases

\* Every step of a command leaves the server and its requests alone; what it does to the
\* keystore is to put a file, or other content, in its place.
LEMMA FileSteps ==
  ASSUME KeyShapes, NEW c \in Commands,
         Load(c) \/ OpenTmp(c) \/ Fill(c) \/ Install(c) \/ CommandDies(c)
  PROVE  /\ UNCHANGED <<server, request, clock>>
         /\ \/ UNCHANGED <<keyFile, inPlace, placed, dubious>>
            \/ Places(keyTmp) /\ keyTmp.is # "none"
            \/ \E f \in Texts : Places(f) /\ f.is # "none" /\ f.time = clock
<1>1. CASE Load(c) \/ OpenTmp(c) \/ CommandDies(c)
  BY <1>1 DEF Load, OpenTmp, CommandDies
<1>2. CASE Install(c)
  BY <1>2 DEF Install
<1>3. CASE Fill(c)
  <2>1. UNCHANGED <<server, request, clock>>
    BY <1>3 DEF Fill
  <2>2. \/ UNCHANGED <<keyFile, inPlace, placed, dubious>>
        \/ \E f \in Rewritten(keyFile, command[c].keys) : Places(f)
    BY <1>3 DEF Fill
  <2>3. \A f \in Rewritten(keyFile, command[c].keys) : f \in Texts /\ f.is # "none" /\ f.time = clock
    <3>1. command[c].keys \in SUBSET Known /\ {} \in SUBSET Known
      BY Fields
    <3>2. \A f \in Rewritten(keyFile, command[c].keys) :
            f = KeyText("whole", command[c].keys) \/ f = KeyText("mixed", {})
      BY DEF Rewritten
    <3> QED BY <3>1, <3>2, TextShapes
  <2> QED BY <2>1, <2>2, <2>3
<1> QED BY <1>1, <1>2, <1>3

\* What comes with a file that comes into place.
LEMMA PlaceSteps ==
  ASSUME KeyShapes, NEW f \in Texts, Places(f)
  PROVE  /\ keyFile' = f /\ f \in placed' /\ placed \subseteq placed' /\ dubious \subseteq dubious'
         /\ server.at = "loaded" => f.time \in dubious'
         /\ (\E old \in placed : old.time = f.time) => f.time \in dubious'
         /\ \A r \in Requests : inPlace[r] \subseteq inPlace'[r]
         /\ \A r \in Requests : Checking(r) /\ f.is = "whole" => f.keys \in inPlace'[r]
         /\ \A r \in Requests : ~Checking(r) => inPlace'[r] = inPlace[r]
         /\ DOMAIN inPlace' = Requests
<1>1. inPlace' = [r \in Requests |-> IF Checking(r) /\ f.is = "whole" THEN inPlace[r] \cup {f.keys}
                                     ELSE inPlace[r]]
  BY DEF Places
<1>2. /\ keyFile' = f /\ placed' = placed \cup {f}
      /\ dubious' = IF server.at = "loaded" \/ \E old \in placed : old.time = f.time
                    THEN dubious \cup {f.time} ELSE dubious
  BY DEF Places
<1> QED BY <1>1, <1>2

\* They hold at the start ...
LEMMA KeyShapesInit == ASSUME KeysInit PROVE KeyShapes
<1>1. server \in ServerAt
  <2> DEFINE closed == [explicit |-> "off", listeners |-> {}]
  <2>1. closed \in Settings /\ Resolve(closed) = "off"
    BY DEF Settings, Resolve
  <2>2. NoCopy \in Copies
    BY DEF NoCopy, Copies
  <2> QED BY <2>1, <2>2 DEF KeysInit, ServerAt
<1>2. request \in [Requests -> RequestAt]
  BY DEF KeysInit, RequestAt, Phases, Answers, Sources
<1>3. keyFile \in Texts /\ keyTmp \in Texts
  BY DEF KeysInit, KeyText, NoFile, Texts, Known
<1>4. command \in [Commands -> CommandAt]
  BY DEF KeysInit, CommandAt, AtStages
<1> QED BY <1>1, <1>2, <1>3, <1>4 DEF KeysInit, KeyShapes

\* ... and every step keeps them.
LEMMA KeyShapesStep ==
  ASSUME KeyShapes, [KeysNext]_keyVars
  PROVE  KeyShapes'
<1>0. ASSUME NEW c \in Commands, Load(c) \/ OpenTmp(c) \/ Fill(c) \/ Install(c) \/ CommandDies(c)
      PROVE  /\ UNCHANGED <<server, request, clock>>
             /\ keyFile' \in Texts /\ DOMAIN inPlace' = Requests
  BY <1>0, FileSteps, PlaceSteps DEF KeyShapes
<1>1. ASSUME NEW c \in Commands, Load(c) PROVE KeyShapes'
  <2>1. keyFile.keys \cup {c.key} \in SUBSET Known /\ keyFile.keys \ {c.key} \in SUBSET Known
    BY Fields DEF Known
  <2> DEFINE refused == [at |-> "refused", keys |-> {}, on |-> "nothing"]
             more    == [at |-> "loaded", on |-> "nothing", keys |-> keyFile.keys \cup {c.key}]
             fewer   == [at |-> "loaded", on |-> "nothing", keys |-> keyFile.keys \ {c.key}]
  <2>2. PICK next \in CommandAt : command' = [command EXCEPT ![c] = next]
    <3>1. refused \in CommandAt /\ more \in CommandAt /\ fewer \in CommandAt
      BY <2>1 DEF CommandAt, AtStages
    <3>2. \/ command' = [command EXCEPT ![c] = refused]
          \/ command' = [command EXCEPT ![c] = more]
          \/ command' = [command EXCEPT ![c] = fewer]
      BY <1>1 DEF Load
    <3> QED BY <3>1, <3>2, Zenon
  <2>3. command' \in [Commands -> CommandAt] /\ crossed' \subseteq Commands
    BY <1>1, <2>2 DEF Load, KeyShapes
  <2> QED BY <1>1, <2>3 DEF Load, KeyShapes
<1>2. ASSUME NEW c \in Commands, OpenTmp(c) PROVE KeyShapes'
  <2>1. command' \in [Commands -> CommandAt]
    BY <1>2 DEF OpenTmp, KeyShapes, CommandAt, AtStages
  <2>2. keyTmp' \in Texts
    BY <1>2, TextShapes DEF OpenTmp
  <2> QED BY <1>2, <2>1, <2>2 DEF OpenTmp, KeyShapes
<1>3. ASSUME NEW c \in Commands, Fill(c) PROVE KeyShapes'
  <2>1. command' \in [Commands -> CommandAt] /\ crossed' = crossed
    BY <1>3 DEF Fill, KeyShapes, CommandAt, AtStages
  <2>2. keyTmp' \in Texts
    <3>1. command[c].keys \in SUBSET Known /\ {} \in SUBSET Known
      BY Fields
    <3>2. KeyText("whole", command[c].keys) \in Texts /\ KeyText("mixed", {}) \in Texts
      BY <3>1, TextShapes
    <3>3. keyTmp' = keyTmp \/ keyTmp' = KeyText("whole", command[c].keys) \/ keyTmp' = KeyText("mixed", {})
      BY <1>3 DEF Fill, Rewritten
    <3> QED BY <3>2, <3>3 DEF KeyShapes
  <2> QED BY <1>0, <1>3, <2>1, <2>2 DEF KeyShapes
<1>4. ASSUME NEW c \in Commands, Install(c) PROVE KeyShapes'
  <2>1. command' \in [Commands -> CommandAt]
    <3>1. CASE keyTmp.is = "none"
      BY <1>4, <3>1 DEF Install, KeyShapes, CommandAt, AtStages
    <3>2. CASE keyTmp.is # "none"
      <4>1. command' = [d \in Commands |-> IF d = c THEN [command[d] EXCEPT !.at = "done"]
                                            ELSE [command[d] EXCEPT !.on = Moved(@)]]
        BY <1>4, <3>2, Zenon DEF Install
      <4>2. ASSUME NEW d \in Commands
            PROVE  /\ [command[d] EXCEPT !.at = "done"] \in CommandAt
                   /\ [command[d] EXCEPT !.on = Moved(@)] \in CommandAt
        <5>1. command[d] \in CommandAt
          BY DEF KeyShapes
        <5> QED BY <5>1 DEF CommandAt, AtStages, Moved
      <4> QED BY <4>1, <4>2
    <3> QED BY <3>1, <3>2
  <2>2. keyTmp' \in Texts /\ crossed' = crossed
    BY <1>4, TextShapes DEF Install, KeyShapes
  <2> QED BY <1>0, <1>4, <2>1, <2>2 DEF KeyShapes
<1>5. ASSUME NEW c \in Commands, CommandDies(c) PROVE KeyShapes'
  <2>1. command' \in [Commands -> CommandAt]
    BY <1>5 DEF CommandDies, KeyShapes, CommandAt, AtStages
  <2> QED BY <1>5, <2>1 DEF CommandDies, KeyShapes
<1>6. ASSUME NEW config \in Configs, ReadCopy(config) PROVE KeyShapes'
  <2>1. server' \in ServerAt
    BY <1>6, Fields DEF ReadCopy, ServerAt, Copies, Settings
  <2> QED BY <1>6, <2>1 DEF ReadCopy, KeyShapes
<1>7. ASSUME TimeCopy PROVE KeyShapes'
  <2>1. server' \in ServerAt
    BY <1>7, Fields DEF TimeCopy, KeyShapes, ServerAt, Copies
  <2> QED BY <1>7, <2>1 DEF TimeCopy, KeyShapes
<1>8. ASSUME Serve PROVE KeyShapes'
  <2>1. server' = [server EXCEPT !.at = "refused"] \/ server' = [server EXCEPT !.at = "up"]
    BY <1>8 DEF Serve
  <2>2. server' \in ServerAt
    BY <2>1 DEF KeyShapes, ServerAt
  <2> QED BY <1>8, <2>2 DEF Serve, KeyShapes
<1>9. ASSUME NEW r \in Requests, Begin(r) PROVE KeyShapes'
  <2>1. request' \in [Requests -> RequestAt]
    <3>1. request[r] \in RequestAt /\ keyFile.time \in Nat
      BY Fields DEF KeyShapes
    <3>2. /\ [request[r] EXCEPT !.at = "done", !.answer = "accepted"] \in RequestAt
          /\ [request[r] EXCEPT !.at = "timed", !.time = keyFile.time] \in RequestAt
      BY <3>1 DEF RequestAt, Phases, Answers
    <3> QED BY <1>9, <3>2 DEF Begin, KeyShapes
  <2> QED BY <1>9, <2>1 DEF Begin, KeyShapes
<1>10. ASSUME NEW r \in Requests, Compare(r) PROVE KeyShapes'
  <2>1. request[r] \in RequestAt
    BY DEF KeyShapes
  <2>2. [request[r] EXCEPT !.at = "missed"] \in RequestAt
    BY <2>1 DEF RequestAt, Phases
  <2>3. Finish(r, server.copy.keys, "copy") \in RequestAt
    BY Judging, Fields DEF Sources
  <2>4. request' \in [Requests -> RequestAt]
    BY <1>10, <2>2, <2>3 DEF Compare, KeyShapes
  <2> QED BY <1>10, <2>4 DEF Compare, KeyShapes
<1>11. ASSUME NEW r \in Requests, Reread(r) PROVE KeyShapes'
  <2>1. request[r] \in RequestAt
    BY DEF KeyShapes
  <2>2. [request[r] EXCEPT !.at = "loaded", !.keys = keyFile.keys] \in RequestAt
    BY <2>1, Fields DEF RequestAt, Phases
  <2>3. request' \in [Requests -> RequestAt]
    BY <1>11, <2>2 DEF Reread, KeyShapes
  <2> QED BY <1>11, <2>3 DEF Reread, KeyShapes
<1>12. ASSUME NEW r \in Requests, Cache(r) PROVE KeyShapes'
  <2>1. Finish(r, request[r].keys, "file") \in RequestAt
    BY Judging, Fields DEF Sources
  <2>2. request' \in [Requests -> RequestAt]
    BY <1>12, <2>1 DEF Cache, KeyShapes
  <2>3. [keys |-> request[r].keys, time |-> request[r].time] \in Copies
    BY Fields DEF Copies
  <2>4. server' \in ServerAt
    BY <1>12, <2>3 DEF Cache, KeyShapes, ServerAt
  <2> QED BY <1>12, <2>2, <2>4 DEF Cache, KeyShapes
<1>13. ASSUME NEW r \in Requests, RereadFails(r) PROVE KeyShapes'
  <2>1. Finish(r, server.copy.keys, "fallback") \in RequestAt
    BY Judging, Fields DEF Sources
  <2>2. request' \in [Requests -> RequestAt]
    BY <1>13, <2>1 DEF RereadFails, KeyShapes
  <2> QED BY <1>13, <2>2 DEF RereadFails, KeyShapes
<1>14. CASE Passes \/ UNCHANGED keyVars
  BY <1>14 DEF Passes, keyVars, KeyShapes
<1> QED BY <1>1, <1>2, <1>3, <1>4, <1>5, <1>6, <1>7, <1>8, <1>9, <1>10, <1>11, <1>12, <1>13, <1>14
        DEF KeysNext

-----------------------------------------------------------------------------
(* The copy in the server, and what requests are judged by.                *)

\* There was a file with the time, or with the keys.
Used(time)      == \E f \in placed : f.time = time
WasPlaced(keys) == \E f \in placed : f.is = "whole" /\ f.keys = keys

\* Keys that go by the time of the file are the file's.
Agrees(keys, time) ==
  time = keyFile.time => time \in dubious \/ (keyFile.is = "whole" /\ keys = keyFile.keys)

\* A modification time that is the file's stands for the file's keys, in the copy and in
\* what a request has read, unless it is dubious.
CopiesInv ==
  /\ keyFile \in placed /\ keyFile.time \in 1 .. clock
  /\ keyTmp.is # "none" => keyTmp.time \in 1 .. clock
  /\ server.at # "up" => \A r \in Requests : request[r].at = "new"
  /\ server.at \in {"loaded", "timed", "up"} => WasPlaced(server.copy.keys)
  /\ server.at = "loaded" => Agrees(server.copy.keys, keyFile.time)
  /\ server.at \in {"timed", "up"} => Used(server.copy.time) /\ Agrees(server.copy.keys, server.copy.time)
  /\ \A r \in Requests :
       /\ request[r].at \in {"timed", "missed", "loaded"} => Used(request[r].time)
       /\ request[r].at = "loaded" => WasPlaced(request[r].keys) /\ Agrees(request[r].keys, request[r].time)

\* Whoever goes by the time takes what was in place since the request began.
Current(r) ==
  \/ request[r].time \in dubious
  \/ /\ server.copy.time = request[r].time => server.copy.keys \in inPlace[r]
     /\ \A q \in Requests : request[q].at = "loaded" /\ request[q].time = request[r].time
                              => request[q].keys \in inPlace[r]

\* What a request has been judged by.
Judged(r) ==
  /\ WasPlaced(request[r].keys)
  /\ request[r].by = "file" => request[r].keys \in inPlace[r]
  /\ request[r].by = "copy" => request[r].keys \in inPlace[r] \/ request[r].time \in dubious
  /\ request[r].answer = "accepted" => r.key \in request[r].keys /\ ~(RoleOf[r.key] < r.needs)

\* What a request is judged by was in place since it began, and it is accepted for a key
\* that suffices.
JudgedInv ==
  /\ server.mode = Resolve(server.config)
  /\ \A r \in Requests :
       /\ Checking(r) /\ keyFile.is = "whole" => keyFile.keys \in inPlace[r]
       /\ request[r].at = "loaded" => request[r].keys \in inPlace[r]
       /\ request[r].at # "done" => request[r].answer = "none"
       /\ request[r].at = "timed" => Current(r)
       /\ request[r].at = "done" /\ server.mode # "off" => Judged(r)

\* Judged by some keys, and accepted for one of them only.
JudgedBy(next, r, keys, by) ==
  /\ next.at = "done" /\ next.keys = keys /\ next.by = by /\ next.time = request[r].time
  /\ next.answer = "accepted" => r.key \in keys /\ ~(RoleOf[r.key] < r.needs)

\* What a step makes of one request, and that it leaves the others alone.
LEMMA RequestSteps ==
  ASSUME KeyShapes, NEW r \in Requests
  PROVE  /\ Begin(r) \/ Compare(r) \/ Reread(r) \/ Cache(r) \/ RereadFails(r)
              => \A q \in Requests \ {r} : request'[q] = request[q]
         /\ Begin(r) /\ server.mode = "off" => request'[r].at = "done"
         /\ Begin(r) /\ server.mode # "off" =>
              /\ request'[r].at = "timed" /\ request'[r].time = keyFile.time
              /\ request'[r].answer = request[r].answer
         /\ Compare(r) /\ server.copy.time = request[r].time =>
              JudgedBy(request'[r], r, server.copy.keys, "copy")
         /\ Compare(r) /\ server.copy.time # request[r].time =>
              /\ request'[r].at = "missed" /\ request'[r].time = request[r].time
              /\ request'[r].answer = request[r].answer
         /\ Reread(r) => /\ request'[r].at = "loaded" /\ request'[r].keys = keyFile.keys
                         /\ request'[r].time = request[r].time /\ request'[r].answer = request[r].answer
         /\ Cache(r) => JudgedBy(request'[r], r, request[r].keys, "file")
         /\ RereadFails(r) => JudgedBy(request'[r], r, server.copy.keys, "fallback")
<1>1. \A next, q \in Requests : q # r => [request EXCEPT ![r] = next][q] = request[q]
  BY DEF KeyShapes
<1>2. \A next : [request EXCEPT ![r] = next][r] = next
  BY DEF KeyShapes
<1>3. request[r] \in RequestAt
  BY DEF KeyShapes
<1> DEFINE let    == [request[r] EXCEPT !.at = "done", !.answer = "accepted"]
           timed  == [request[r] EXCEPT !.at = "timed", !.time = keyFile.time]
           missed == [request[r] EXCEPT !.at = "missed"]
           loaded == [request[r] EXCEPT !.at = "loaded", !.keys = keyFile.keys]
           copy   == Finish(r, server.copy.keys, "copy")
           own    == Finish(r, request[r].keys, "file")
           last   == Finish(r, server.copy.keys, "fallback")
<1>4. /\ let.at = "done"
      /\ timed.at = "timed" /\ timed.time = keyFile.time /\ timed.answer = request[r].answer
      /\ missed.at = "missed" /\ missed.time = request[r].time /\ missed.answer = request[r].answer
      /\ loaded.at = "loaded" /\ loaded.keys = keyFile.keys /\ loaded.time = request[r].time
      /\ loaded.answer = request[r].answer
  BY <1>3 DEF RequestAt
<1>5. /\ Begin(r) /\ server.mode = "off" => request' = [request EXCEPT ![r] = let]
      /\ Begin(r) /\ server.mode # "off" => request' = [request EXCEPT ![r] = timed]
      /\ Compare(r) /\ server.copy.time = request[r].time => request' = [request EXCEPT ![r] = copy]
      /\ Compare(r) /\ server.copy.time # request[r].time => request' = [request EXCEPT ![r] = missed]
      /\ Reread(r) => request' = [request EXCEPT ![r] = loaded]
      /\ Cache(r) => request' = [request EXCEPT ![r] = own]
      /\ RereadFails(r) => request' = [request EXCEPT ![r] = last]
  BY DEF Begin, Compare, Reread, Cache, RereadFails
<1> HIDE DEF let, timed, missed, loaded, copy, own, last
<1>6. Begin(r) \/ Compare(r) \/ Reread(r) \/ Cache(r) \/ RereadFails(r)
        => \A q \in Requests \ {r} : request'[q] = request[q]
  <2> SUFFICES ASSUME Begin(r) \/ Compare(r) \/ Reread(r) \/ Cache(r) \/ RereadFails(r)
               PROVE  \A q \in Requests \ {r} : request'[q] = request[q]
    OBVIOUS
  <2>1. PICK next : request' = [request EXCEPT ![r] = next]
    BY <1>5, Zenon
  <2> QED BY <2>1 DEF KeyShapes
<1>7. /\ Begin(r) /\ server.mode = "off" => request'[r] = let
      /\ Begin(r) /\ server.mode # "off" => request'[r] = timed
      /\ Compare(r) /\ server.copy.time = request[r].time => request'[r] = copy
      /\ Compare(r) /\ server.copy.time # request[r].time => request'[r] = missed
      /\ Reread(r) => request'[r] = loaded
      /\ Cache(r) => request'[r] = own
      /\ RereadFails(r) => request'[r] = last
  BY <1>2, <1>5
<1>8. \A keys \in SUBSET Known, by \in Sources : JudgedBy(Finish(r, keys, by), r, keys, by)
  BY Judging DEF JudgedBy
<1>9. server.copy.keys \in SUBSET Known /\ request[r].keys \in SUBSET Known
  BY Fields
<1>10. /\ JudgedBy(copy, r, server.copy.keys, "copy") /\ JudgedBy(own, r, request[r].keys, "file")
       /\ JudgedBy(last, r, server.copy.keys, "fallback")
  BY <1>8, <1>9 DEF Sources, copy, own, last
<1> QED BY <1>4, <1>6, <1>7, <1>10

\* What was placed stays so, and so does what is dubious.
LEMMA PlaceKeeps ==
  ASSUME KeyShapes, CopiesInv, NEW f \in Texts, Places(f)
  PROVE  /\ \A keys : WasPlaced(keys) => WasPlaced(keys)'
         /\ \A time : Used(time) => Used(time)'
         /\ \A keys, time : Used(time) => Agrees(keys, time)'
         /\ server.at = "loaded" => \A keys : Agrees(keys, f.time)'
<1>1. /\ keyFile' = f /\ placed \subseteq placed' /\ dubious \subseteq dubious'
      /\ (\E old \in placed : old.time = f.time) => f.time \in dubious'
      /\ server.at = "loaded" => f.time \in dubious'
  BY PlaceSteps
<1> QED BY <1>1 DEF WasPlaced, Used, Agrees

\* A copy goes stale with a save that the modification time shows, or one that makes it dubious.
LEMMA CopiesStep ==
  ASSUME KeyShapes, CopiesInv, [KeysNext]_keyVars
  PROVE  CopiesInv'
<1>0. /\ keyFile.time \in Nat /\ clock \in Nat /\ server.copy.time \in Nat
      /\ \A r \in Requests : request[r].time \in Nat
  BY Fields DEF KeyShapes
<1>1. ASSUME NEW c \in Commands, Load(c) \/ OpenTmp(c) \/ Fill(c) \/ Install(c) \/ CommandDies(c)
      PROVE  CopiesInv'
  <2>1. UNCHANGED <<server, request, clock>>
    BY <1>1, FileSteps
  <2>2. keyTmp'.is # "none" => keyTmp'.time \in 1 .. clock
    <3>1. clock \in 1 .. clock
      BY <1>0 DEF CopiesInv
    <3>2. command[c].keys \in SUBSET Known /\ {} \in SUBSET Known
      BY Fields
    <3>3. \/ keyTmp' = keyTmp \/ keyTmp' = NoFile \/ keyTmp' = KeyText("empty", {})
          \/ keyTmp' = KeyText("whole", command[c].keys) \/ keyTmp' = KeyText("mixed", {})
      BY <1>1 DEF Load, OpenTmp, Fill, Install, CommandDies, Rewritten
    <3>4. /\ NoFile.is = "none" /\ KeyText("empty", {}).time = clock
          /\ KeyText("whole", command[c].keys).time = clock /\ KeyText("mixed", {}).time = clock
      BY <3>2, TextShapes
    <3> QED BY <3>1, <3>3, <3>4 DEF CopiesInv
  <2>3. CASE UNCHANGED <<keyFile, inPlace, placed, dubious>>
    BY <2>1, <2>2, <2>3 DEF CopiesInv, Used, WasPlaced, Agrees
  <2>4. ASSUME NEW f \in Texts, Places(f), f.time \in 1 .. clock PROVE CopiesInv'
    <3>1. keyFile' = f /\ f \in placed'
      BY <2>4, PlaceSteps
    <3>2. server.at \in {"loaded", "timed", "up"} => WasPlaced(server.copy.keys)'
      BY <2>1, <2>4, PlaceKeeps DEF CopiesInv, WasPlaced
    <3>3. server.at = "loaded" => Agrees(server.copy.keys, keyFile.time)'
      BY <2>1, <2>4, PlaceSteps DEF Agrees
    <3>4. server.at \in {"timed", "up"} =>
            Used(server.copy.time)' /\ Agrees(server.copy.keys, server.copy.time)'
      BY <2>1, <2>4, PlaceKeeps DEF CopiesInv, Used, Agrees
    <3>5. ASSUME NEW r \in Requests
          PROVE  /\ request[r].at \in {"timed", "missed", "loaded"} => Used(request[r].time)'
                 /\ request[r].at = "loaded" =>
                      WasPlaced(request[r].keys)' /\ Agrees(request[r].keys, request[r].time)'
      BY <2>1, <2>4, PlaceKeeps DEF CopiesInv, Used, Agrees, WasPlaced
    <3> QED BY <2>1, <2>2, <2>4, <3>1, <3>2, <3>3, <3>4, <3>5 DEF CopiesInv
  <2>5. keyTmp \in Texts
    BY DEF KeyShapes
  <2>6. clock \in 1 .. clock
    BY <1>0 DEF CopiesInv
  <2> QED BY <1>1, <2>3, <2>4, <2>5, <2>6, FileSteps DEF CopiesInv
<1>2. ASSUME NEW config \in Configs, ReadCopy(config) PROVE CopiesInv'
  <2>1. /\ server'.at = (IF keyFile.is = "whole" THEN "loaded" ELSE "refused")
        /\ server'.copy.keys = keyFile.keys /\ server.at = "down"
        /\ UNCHANGED <<keyFile, keyTmp, request, clock, placed, dubious>>
    BY <1>2 DEF ReadCopy
  <2> QED BY <2>1 DEF CopiesInv, Used, WasPlaced, Agrees
<1>3. ASSUME TimeCopy PROVE CopiesInv'
  <2>1. /\ server.at = "loaded" /\ server'.at = "timed" /\ server'.copy.time = keyFile.time
        /\ server'.copy.keys = server.copy.keys
        /\ UNCHANGED <<keyFile, keyTmp, request, clock, placed, dubious>>
    BY <1>3 DEF TimeCopy, KeyShapes, ServerAt, Copies
  <2> QED BY <2>1 DEF CopiesInv, Used, WasPlaced, Agrees
<1>4. ASSUME Serve PROVE CopiesInv'
  <2>1. /\ server.at = "timed" /\ server'.at \in {"refused", "up"} /\ server'.copy = server.copy
        /\ UNCHANGED <<keyFile, keyTmp, request, clock, placed, dubious>>
    BY <1>4 DEF Serve, KeyShapes, ServerAt
  <2> QED BY <2>1 DEF CopiesInv, Used, WasPlaced, Agrees
<1>5. ASSUME NEW r \in Requests, Begin(r) PROVE CopiesInv'
  <2>1. /\ server.at = "up" /\ UNCHANGED <<keyFile, keyTmp, server, clock, placed, dubious>>
        /\ request'[r].at = "done" \/ (request'[r].at = "timed" /\ request'[r].time = keyFile.time)
        /\ \A q \in Requests \ {r} : request'[q] = request[q]
    BY <1>5, RequestSteps DEF Begin
  <2> QED BY <2>1 DEF CopiesInv, Used, WasPlaced, Agrees
<1>6. ASSUME NEW r \in Requests, Compare(r) PROVE CopiesInv'
  <2>1. /\ UNCHANGED <<keyFile, keyTmp, server, clock, placed, dubious>> /\ request[r].at = "timed"
        /\ request'[r].at = "done" \/ (request'[r].at = "missed" /\ request'[r].time = request[r].time)
        /\ \A q \in Requests \ {r} : request'[q] = request[q]
    BY <1>6, RequestSteps DEF JudgedBy, Compare
  <2> QED BY <2>1 DEF CopiesInv, Used, WasPlaced, Agrees
<1>7. ASSUME NEW r \in Requests, Reread(r) PROVE CopiesInv'
  <2>1. /\ UNCHANGED <<keyFile, keyTmp, server, clock, placed, dubious>> /\ request[r].at = "missed"
        /\ keyFile.is = "whole"
        /\ request'[r].at = "loaded" /\ request'[r].keys = keyFile.keys
        /\ request'[r].time = request[r].time
        /\ \A q \in Requests \ {r} : request'[q] = request[q]
    BY <1>7, RequestSteps DEF Reread
  <2> QED BY <2>1 DEF CopiesInv, Used, WasPlaced, Agrees
<1>8. ASSUME NEW r \in Requests, Cache(r) PROVE CopiesInv'
  <2>1. /\ UNCHANGED <<keyFile, keyTmp, clock, placed, dubious>>
        /\ request[r].at = "loaded" /\ request'[r].at = "done"
        /\ \A q \in Requests \ {r} : request'[q] = request[q]
    BY <1>8, RequestSteps DEF JudgedBy, Cache
  <2>2. /\ server'.at = server.at /\ server'.copy.keys = request[r].keys
        /\ server'.copy.time = request[r].time
    BY <1>8 DEF Cache, KeyShapes, ServerAt
  <2>3. server.at = "up"
    BY <2>1 DEF CopiesInv
  <2> QED BY <2>1, <2>2, <2>3 DEF CopiesInv, Used, WasPlaced, Agrees
<1>9. ASSUME NEW r \in Requests, RereadFails(r) PROVE CopiesInv'
  <2>1. /\ UNCHANGED <<keyFile, keyTmp, server, clock, placed, dubious>> /\ request[r].at = "missed"
        /\ request'[r].at = "done" /\ \A q \in Requests \ {r} : request'[q] = request[q]
    BY <1>9, RequestSteps DEF JudgedBy, RereadFails
  <2> QED BY <2>1 DEF CopiesInv, Used, WasPlaced, Agrees
<1>10. CASE Passes
  BY <1>0, <1>10 DEF Passes, CopiesInv, Used, WasPlaced, Agrees
<1>11. CASE UNCHANGED keyVars
  BY <1>11 DEF keyVars, CopiesInv, Used, WasPlaced, Agrees
<1> QED BY <1>1, <1>2, <1>3, <1>4, <1>5, <1>6, <1>7, <1>8, <1>9, <1>10, <1>11 DEF KeysNext

\* The keys in place gather, and a request takes what it is judged by from them.
LEMMA JudgedStep ==
  ASSUME KeyShapes, CopiesInv, JudgedInv, [KeysNext]_keyVars
  PROVE  JudgedInv'
<1>1. ASSUME NEW c \in Commands, Load(c) \/ OpenTmp(c) \/ Fill(c) \/ Install(c) \/ CommandDies(c)
      PROVE  JudgedInv'
  <2>1. UNCHANGED <<server, request>>
    BY <1>1, FileSteps
  <2>2. CASE UNCHANGED <<keyFile, inPlace, placed, dubious>>
    BY <2>1, <2>2 DEF JudgedInv, Judged, Current, Checking, WasPlaced
  <2>3. ASSUME NEW f \in Texts, Places(f) PROVE JudgedInv'
    <3>1. /\ keyFile' = f /\ dubious \subseteq dubious'
          /\ \A r \in Requests : inPlace[r] \subseteq inPlace'[r]
          /\ \A r \in Requests : Checking(r) /\ f.is = "whole" => f.keys \in inPlace'[r]
          /\ \A keys : WasPlaced(keys) => WasPlaced(keys)'
      BY <2>3, PlaceSteps, PlaceKeeps
    <3>2. ASSUME NEW r \in Requests PROVE (Current(r) => Current(r)') /\ (Judged(r) => Judged(r)')
      BY <2>1, <3>1 DEF Current, Judged, WasPlaced
    <3> QED BY <2>1, <3>1, <3>2 DEF JudgedInv, Checking
  <2>4. keyTmp \in Texts
    BY DEF KeyShapes
  <2> QED BY <1>1, <2>2, <2>3, <2>4, FileSteps
<1>2. ASSUME NEW config \in Configs, ReadCopy(config) PROVE JudgedInv'
  <2>1. /\ server'.mode = Resolve(server'.config) /\ UNCHANGED <<keyFile, request, inPlace>>
        /\ server.at # "up"
    BY <1>2 DEF ReadCopy
  <2> QED BY <2>1 DEF CopiesInv, JudgedInv, Checking
<1>3. ASSUME TimeCopy \/ Serve PROVE JudgedInv'
  <2>1. /\ server'.mode = server.mode /\ server'.config = server.config /\ server.at # "up"
        /\ UNCHANGED <<keyFile, request, inPlace>>
    BY <1>3 DEF TimeCopy, Serve, KeyShapes, ServerAt
  <2> QED BY <2>1 DEF CopiesInv, JudgedInv, Checking
<1>4. ASSUME NEW r \in Requests, Begin(r) PROVE JudgedInv'
  <2>1. /\ UNCHANGED <<keyFile, server, placed, dubious>> /\ request[r].at = "new" /\ server.at = "up"
        /\ server.mode = "off" => request'[r].at = "done"
        /\ server.mode # "off" => /\ request'[r].at = "timed" /\ request'[r].time = keyFile.time
                                  /\ request'[r].answer = request[r].answer
        /\ \A q \in Requests \ {r} : request'[q] = request[q]
    BY <1>4, RequestSteps DEF Begin
  <2>2. /\ inPlace'[r] = (IF keyFile.is = "whole" THEN {keyFile.keys} ELSE {})
        /\ \A q \in Requests \ {r} : inPlace'[q] = inPlace[q]
    BY <1>4 DEF Begin, KeyShapes
  <2>3. server.mode # "off" => Current(r)'
    <3> SUFFICES ASSUME server.mode # "off", keyFile.time \notin dubious PROVE Current(r)'
      BY <2>1 DEF Current
    <3>1. server.copy.time = keyFile.time => server.copy.keys \in inPlace'[r]
      BY <2>1, <2>2 DEF CopiesInv, Agrees
    <3>2. \A q \in Requests \ {r} : request[q].at = "loaded" /\ request[q].time = keyFile.time
                                     => request[q].keys \in inPlace'[r]
      BY <2>2 DEF CopiesInv, Agrees
    <3> QED BY <2>1, <3>1, <3>2 DEF Current
  <2>4. ASSUME NEW q \in Requests \ {r}
        PROVE (Current(q) => Current(q)') /\ (Judged(q) => Judged(q)')
    BY <2>1, <2>2 DEF Current, Judged, WasPlaced
  <2> QED BY <2>1, <2>2, <2>3, <2>4 DEF JudgedInv, Checking
<1>5. ASSUME NEW r \in Requests, Compare(r) PROVE JudgedInv'
  <2>1. /\ UNCHANGED <<keyFile, server, placed, dubious, inPlace>> /\ request[r].at = "timed"
        /\ server.at = "up" /\ \A q \in Requests \ {r} : request'[q] = request[q]
    BY <1>5, RequestSteps DEF Compare, CopiesInv
  <2>2. \/ /\ server.copy.time = request[r].time
           /\ JudgedBy(request'[r], r, server.copy.keys, "copy")
        \/ request'[r].at = "missed" /\ request'[r].answer = request[r].answer
    BY <1>5, RequestSteps
  <2>3. server.copy.time = request[r].time => WasPlaced(server.copy.keys) /\
          (server.copy.keys \in inPlace[r] \/ request[r].time \in dubious)
    BY <2>1 DEF CopiesInv, JudgedInv, Current
  <2>4. request'[r].at = "done" => Judged(r)'
    BY <2>1, <2>2, <2>3 DEF JudgedBy, Judged, WasPlaced
  <2>5. ASSUME NEW q \in Requests \ {r}
        PROVE (Current(q) => Current(q)') /\ (Judged(q) => Judged(q)')
    BY <2>1, <2>2 DEF Current, Judged, WasPlaced, JudgedBy
  <2> QED BY <2>1, <2>2, <2>4, <2>5 DEF JudgedInv, Checking, JudgedBy
<1>6. ASSUME NEW r \in Requests, Reread(r) PROVE JudgedInv'
  <2>1. /\ UNCHANGED <<keyFile, server, placed, dubious, inPlace>> /\ request[r].at = "missed"
        /\ keyFile.is = "whole"
        /\ request'[r].at = "loaded" /\ request'[r].keys = keyFile.keys
        /\ request'[r].time = request[r].time /\ request'[r].answer = request[r].answer
        /\ \A q \in Requests \ {r} : request'[q] = request[q]
    BY <1>6, RequestSteps DEF Reread
  <2>2. ASSUME NEW q \in Requests \ {r}
        PROVE (request[q].at = "timed" /\ Current(q) => Current(q)') /\ (Judged(q) => Judged(q)')
    BY <2>1, <2>2 DEF Current, Judged, WasPlaced, JudgedInv, Checking
  <2> QED BY <2>1, <2>2 DEF JudgedInv, Checking
<1>7. ASSUME NEW r \in Requests, Cache(r) PROVE JudgedInv'
  <2>1. /\ UNCHANGED <<keyFile, placed, dubious, inPlace>> /\ request[r].at = "loaded"
        /\ JudgedBy(request'[r], r, request[r].keys, "file")
        /\ \A q \in Requests \ {r} : request'[q] = request[q]
    BY <1>7, RequestSteps DEF Cache
  <2>2. /\ server'.mode = server.mode /\ server'.config = server.config
        /\ server'.copy.keys = request[r].keys /\ server'.copy.time = request[r].time
    BY <1>7 DEF Cache, KeyShapes, ServerAt
  <2>3. Judged(r)'
    BY <2>1 DEF JudgedBy, Judged, WasPlaced, JudgedInv, CopiesInv
  <2>4. ASSUME NEW q \in Requests \ {r}
        PROVE (request[q].at = "timed" /\ Current(q) => Current(q)') /\ (Judged(q) => Judged(q)')
    BY <2>1, <2>2 DEF Current, Judged, WasPlaced, JudgedBy
  <2> QED BY <2>1, <2>2, <2>3, <2>4 DEF JudgedInv, Checking, JudgedBy
<1>8. ASSUME NEW r \in Requests, RereadFails(r) PROVE JudgedInv'
  <2>1. /\ UNCHANGED <<keyFile, server, placed, dubious, inPlace>> /\ request[r].at = "missed"
        /\ server.at = "up" /\ JudgedBy(request'[r], r, server.copy.keys, "fallback")
        /\ \A q \in Requests \ {r} : request'[q] = request[q]
    BY <1>8, RequestSteps DEF RereadFails, CopiesInv
  <2>2. Judged(r)'
    BY <2>1 DEF JudgedBy, Judged, WasPlaced, CopiesInv
  <2>3. ASSUME NEW q \in Requests \ {r}
        PROVE (Current(q) => Current(q)') /\ (Judged(q) => Judged(q)')
    BY <2>1 DEF Current, Judged, WasPlaced, JudgedBy
  <2> QED BY <2>1, <2>2, <2>3 DEF JudgedInv, Checking, JudgedBy
<1>9. CASE Passes \/ UNCHANGED keyVars
  BY <1>9 DEF Passes, keyVars, JudgedInv, Judged, Current, Checking, WasPlaced
<1> QED BY <1>1, <1>2, <1>3, <1>4, <1>5, <1>6, <1>7, <1>8, <1>9 DEF KeysNext

-----------------------------------------------------------------------------
(* What commands report.                                                   *)

Works(c, keys) == c.key \in keys <=> c.op = "create"

\* No other command is about the key.
Sole(c) == \A d \in Commands \ {c} : d.key # c.key

\* A command that overlaps no other has the temporary file to itself; once it is done,
\* whatever may come to be the file holds its effect, or does not parse.
Stands(c) ==
  /\ Running(c) => (\A d \in Commands \ {c} : ~Running(d)) /\ Works(c, command[c].keys)
  /\ command[c].at = "opened" => command[c].on = "tmp" /\ keyTmp.is = "empty"
  /\ command[c].at = "written" => keyTmp.is = "whole" /\ keyTmp.keys = command[c].keys
  /\ command[c].at = "done" /\ Sole(c) =>
       /\ keyFile.is = "whole" => Works(c, keyFile.keys)
       /\ keyTmp.is = "whole" => Works(c, keyTmp.keys)
       /\ \A d \in Commands : Running(d) => Works(c, command[d].keys)

StandInv ==
  /\ keyFile.is # "whole" => crossed # {}
  /\ \A c \in Commands \ crossed : Stands(c)

\* What a command does to its place and keys, and to those of others.
LEMMA CommandSteps ==
  ASSUME KeyShapes, NEW c \in Commands
  PROVE  /\ Load(c) \/ OpenTmp(c) \/ Fill(c) \/ Install(c) \/ CommandDies(c) =>
              \A d \in Commands \ {c} :
                /\ command'[d].at = command[d].at /\ command'[d].keys = command[d].keys
                /\ ~Install(c) => command'[d] = command[d]
         /\ Load(c) /\ command'[c].at # "refused" =>
              /\ command'[c].at = "loaded" /\ Works(c, command'[c].keys) /\ keyFile.is = "whole"
              /\ \A d \in Commands : d.key # c.key =>
                   (d.key \in command'[c].keys <=> d.key \in keyFile.keys)
         /\ OpenTmp(c) => /\ command'[c].at = "opened" /\ command'[c].keys = command[c].keys
                          /\ command'[c].on = "tmp"
         /\ Fill(c) => command'[c].at = "written" /\ command'[c].keys = command[c].keys
         /\ Install(c) => command'[c].at = IF keyTmp.is = "none" THEN "failed" ELSE "done"
         /\ CommandDies(c) => command'[c].at = "failed"
<1> DEFINE refused == [at |-> "refused", keys |-> {}, on |-> "nothing"]
           more    == [at |-> "loaded", on |-> "nothing", keys |-> keyFile.keys \cup {c.key}]
           fewer   == [at |-> "loaded", on |-> "nothing", keys |-> keyFile.keys \ {c.key}]
           next    == command'[c]
<1>1. \A d \in Commands : command[d] \in CommandAt
  BY DEF KeyShapes
<1>2. DOMAIN command = Commands
  BY DEF KeyShapes
<1>3. Load(c) => \/ command' = [command EXCEPT ![c] = refused]
                 \/ keyFile.is = "whole" /\ c.op = "create" /\ command' = [command EXCEPT ![c] = more]
                 \/ keyFile.is = "whole" /\ c.op # "create" /\ command' = [command EXCEPT ![c] = fewer]
  BY DEF Load
<1>4. Load(c) => /\ \/ next = refused \/ (keyFile.is = "whole" /\ c.op = "create" /\ next = more)
                    \/ (keyFile.is = "whole" /\ c.op # "create" /\ next = fewer)
                 /\ \A d \in Commands \ {c} : command'[d] = command[d]
  BY <1>2, <1>3
<1>5. /\ refused.at = "refused" /\ more.at = "loaded" /\ more.keys = keyFile.keys \cup {c.key}
      /\ fewer.at = "loaded" /\ fewer.keys = keyFile.keys \ {c.key}
  OBVIOUS
<1>6. Load(c) /\ next.at # "refused" =>
        /\ next.at = "loaded" /\ Works(c, next.keys) /\ keyFile.is = "whole"
        /\ \A d \in Commands : d.key # c.key => (d.key \in next.keys <=> d.key \in keyFile.keys)
  <2> HIDE DEF refused, more, fewer, next
  <2> QED BY <1>4, <1>5 DEF Works
<1>7. OpenTmp(c) => /\ next.at = "opened" /\ next.keys = command[c].keys /\ next.on = "tmp"
                    /\ \A d \in Commands \ {c} : command'[d] = command[d]
  BY <1>1, <1>2 DEF OpenTmp, CommandAt
<1>8. Fill(c) => /\ next.at = "written" /\ next.keys = command[c].keys
                 /\ \A d \in Commands \ {c} : command'[d] = command[d]
  BY <1>1, <1>2 DEF Fill, CommandAt
<1>9. CommandDies(c) => /\ next.at = "failed"
                        /\ \A d \in Commands \ {c} : command'[d] = command[d]
  BY <1>1, <1>2 DEF CommandDies, CommandAt
<1>10. Install(c) => /\ next.at = IF keyTmp.is = "none" THEN "failed" ELSE "done"
                     /\ \A d \in Commands \ {c} :
                          command'[d].at = command[d].at /\ command'[d].keys = command[d].keys
  <2>1. CASE keyTmp.is = "none"
    BY <1>1, <1>2, <2>1 DEF Install, CommandAt
  <2>2. CASE keyTmp.is # "none"
    <3> SUFFICES ASSUME Install(c)
                 PROVE  next.at = "done" /\ \A d \in Commands \ {c} :
                          command'[d].at = command[d].at /\ command'[d].keys = command[d].keys
      BY <2>2
    <3>1. command' = [d \in Commands |-> IF d = c THEN [command[d] EXCEPT !.at = "done"]
                                          ELSE [command[d] EXCEPT !.on = Moved(@)]]
      BY <2>2, Zenon DEF Install
    <3>2. next = [command[c] EXCEPT !.at = "done"]
          /\ \A d \in Commands \ {c} : command'[d] = [command[d] EXCEPT !.on = Moved(@)]
      BY <3>1
    <3>3. next.at = "done"
      BY <1>1, <3>2 DEF CommandAt
    <3>4. ASSUME NEW d \in Commands \ {c}
          PROVE  command'[d].at = command[d].at /\ command'[d].keys = command[d].keys
      <4>1. command[d] \in CommandAt /\ command'[d] = [command[d] EXCEPT !.on = Moved(command[d].on)]
        BY <1>1, <3>2
      <4> QED BY <4>1 DEF CommandAt
    <3> QED BY <3>3, <3>4
  <2> QED BY <2>1, <2>2
<1> HIDE DEF refused, more, fewer
<1> QED BY <1>4, <1>6, <1>7, <1>8, <1>9, <1>10

\* A command that is under way, and what a step of it means for those it has not crossed.
LEMMA Alone ==
  ASSUME StandInv, NEW c \in Commands, Running(c), NEW d \in Commands \ crossed, d # c
  PROVE  ~Running(d) /\ command[d].at \notin {"opened", "written"}
BY DEF StandInv, Stands, Running

\* A command crosses those it meets on its way.
LEMMA StandStep ==
  ASSUME KeyShapes, StandInv, [KeysNext]_keyVars
  PROVE  StandInv'
<1>1. ASSUME NEW c \in Commands, Load(c) PROVE StandInv'
  <2>1. /\ UNCHANGED <<keyFile, keyTmp>> /\ crossed \subseteq crossed'
        /\ command[c].at = "new" /\ \A d \in Commands \ {c} : command'[d] = command[d]
        /\ c \notin crossed' => \A d \in Commands \ {c} : ~Running(d)
        /\ \A d \in Commands \ {c} : Running(d) => d \in crossed'
    BY <1>1, CommandSteps DEF Load, Install
  <2>2. command'[c].at # "refused" =>
          /\ command'[c].at = "loaded" /\ Works(c, command'[c].keys) /\ keyFile.is = "whole"
          /\ \A d \in Commands : d.key # c.key =>
               (d.key \in command'[c].keys <=> d.key \in keyFile.keys)
    BY <1>1, CommandSteps
  <2>3. ASSUME NEW d \in Commands \ crossed', d # c PROVE Stands(d)'
    <3>1. ~Running(d) /\ ~Running(d)' /\ Stands(d)
      BY <2>1, <2>3 DEF Running, StandInv
    <3>2. ASSUME command'[d].at = "done", Sole(d), NEW e \in Commands, Running(e)'
          PROVE  Works(d, command'[e].keys)
      <4>1. CASE e = c
        BY <2>1, <2>2, <2>3, <3>1, <3>2, <4>1 DEF Running, Sole, Works, Stands
      <4>2. CASE e # c
        BY <2>1, <2>3, <3>1, <3>2, <4>2 DEF Running, Stands
      <4> QED BY <4>1, <4>2
    <3> QED BY <2>1, <2>3, <3>1, <3>2 DEF Works, Running, Stands, Sole
  <2>4. c \notin crossed' => Stands(c)'
    BY <2>1, <2>2 DEF Running, Stands
  <2> QED BY <2>1, <2>3, <2>4 DEF StandInv
<1>2. ASSUME NEW c \in Commands, OpenTmp(c) PROVE StandInv'
  <2>1. /\ UNCHANGED <<keyFile, crossed>> /\ command[c].at = "loaded"
        /\ command'[c].at = "opened" /\ command'[c].keys = command[c].keys
        /\ command'[c].on = "tmp"
        /\ \A d \in Commands \ {c} : command'[d] = command[d]
    BY <1>2, CommandSteps DEF OpenTmp, Install
  <2>2. keyTmp'.is = "empty"
    BY <1>2, TextShapes DEF OpenTmp
  <2>3. \A d \in Commands : (Running(d)' <=> Running(d)) /\ command'[d].keys = command[d].keys
    BY <2>1 DEF Running
  <2>4. Running(c)
    BY <2>1 DEF Running
  <2>5. ASSUME NEW d \in Commands \ crossed, d # c PROVE Stands(d)'
    BY <2>1, <2>2, <2>3, <2>4, <2>5, Alone DEF StandInv, Stands, Works, Sole
  <2>6. c \notin crossed => Stands(c)'
    BY <2>1, <2>2, <2>3, <2>4 DEF StandInv, Stands, Works
  <2> QED BY <2>1, <2>5, <2>6 DEF StandInv
<1>3. ASSUME NEW c \in Commands, Fill(c) PROVE StandInv'
  <2>1. /\ crossed' = crossed /\ command[c].at = "opened"
        /\ command'[c].at = "written" /\ command'[c].keys = command[c].keys
        /\ \A d \in Commands \ {c} : command'[d] = command[d]
    BY <1>3, CommandSteps DEF Fill, Install
  <2>2. \A d \in Commands : (Running(d)' <=> Running(d)) /\ command'[d].keys = command[d].keys
    BY <2>1 DEF Running
  <2>3. Running(c)
    BY <2>1 DEF Running
  <2>4. /\ keyTmp'.is = "whole" => keyTmp'.keys = command[c].keys \/ keyTmp' = keyTmp
        /\ keyFile'.is = "whole" => keyFile'.keys = command[c].keys \/ keyFile' = keyFile
        /\ c \notin crossed => /\ keyTmp'.is = "whole" /\ keyTmp'.keys = command[c].keys
                               /\ keyFile' = keyFile
    <3>1. command[c].keys \in SUBSET Known /\ {} \in SUBSET Known
      BY Fields
    <3> DEFINE whole == KeyText("whole", command[c].keys)
               mixed == KeyText("mixed", {})
    <3>2. whole.is = "whole" /\ whole.keys = command[c].keys /\ mixed.is = "mixed"
      BY <3>1, TextShapes
    <3>3. /\ keyTmp' = keyTmp \/ keyTmp' = whole \/ keyTmp' = mixed
          /\ keyFile' = keyFile \/ keyFile' = whole \/ keyFile' = mixed
          /\ command[c].on = "tmp" /\ keyTmp.is = "empty" => keyTmp' = whole /\ keyFile' = keyFile
      BY <1>3 DEF Fill, Rewritten, Places
    <3>4. c \notin crossed => command[c].on = "tmp" /\ keyTmp.is = "empty"
      BY <2>1 DEF StandInv, Stands
    <3> HIDE DEF whole, mixed
    <3> QED BY <3>2, <3>3, <3>4
  <2>5. ASSUME NEW d \in Commands \ crossed, d # c PROVE Stands(d)'
    <3>1. Stands(d) /\ ~Running(d) /\ command[d].at \notin {"opened", "written"}
      BY <2>3, <2>5, Alone DEF StandInv
    <3>2. command[d].at = "done" /\ Sole(d) =>
            /\ keyFile'.is = "whole" => Works(d, keyFile'.keys)
            /\ keyTmp'.is = "whole" => Works(d, keyTmp'.keys)
      BY <2>3, <2>4, <3>1 DEF Stands
    <3>3. command'[d].at = command[d].at /\ ~Running(d)'
      BY <2>1, <2>2, <2>5, <3>1
    <3>4. ASSUME NEW e \in Commands, Running(e)'
          PROVE  Running(e) /\ command'[e].keys = command[e].keys
      BY <2>2, <3>4
    <3> QED BY <3>1, <3>2, <3>3, <3>4 DEF Stands, Works, Sole
  <2>6. c \notin crossed => Stands(c)'
    BY <2>1, <2>2, <2>3, <2>4 DEF StandInv, Stands, Works
  <2>7. keyFile'.is # "whole" => crossed # {}
    BY <2>4 DEF StandInv
  <2> QED BY <2>1, <2>5, <2>6, <2>7 DEF StandInv
<1>4. ASSUME NEW c \in Commands, Install(c) PROVE StandInv'
  <2>1. /\ command[c].at = "written" /\ crossed' = crossed
        /\ command'[c].at = (IF keyTmp.is = "none" THEN "failed" ELSE "done")
        /\ \A d \in Commands \ {c} :
             command'[d].at = command[d].at /\ command'[d].keys = command[d].keys
    BY <1>4, CommandSteps DEF Install
  <2>2. Running(c) /\ ~Running(c)' /\ \A d \in Commands \ {c} : (Running(d)' <=> Running(d))
    BY <2>1 DEF Running
  <2>3. CASE keyTmp.is # "none"
    <3>1. keyFile' = keyTmp /\ keyTmp'.is = "none"
      BY <1>4, <2>3 DEF Install, Places, NoFile
    <3>2. command'[c].at = "done"
      BY <2>1, <2>3
    <3>3. c \notin crossed => /\ keyTmp.is = "whole" /\ keyTmp.keys = command[c].keys
                              /\ Works(c, command[c].keys) /\ \A d \in Commands \ {c} : ~Running(d)
      BY <2>1, <2>2 DEF StandInv, Stands
    <3>4. ASSUME NEW d \in Commands \ crossed, d # c PROVE Stands(d)'
      <4>1. Stands(d) /\ ~Running(d) /\ command[d].at \notin {"opened", "written"}
        BY <2>2, <3>4, Alone DEF StandInv
      <4>2. command'[d].at = command[d].at /\ ~Running(d)'
        BY <2>1, <2>2, <3>4, <4>1
      <4>3. ASSUME NEW e \in Commands, Running(e)'
            PROVE  Running(e) /\ command'[e].keys = command[e].keys
        BY <2>1, <2>2, <4>3
      <4> QED BY <3>1, <4>1, <4>2, <4>3 DEF Stands, Works, Sole
    <3>5. c \notin crossed => Stands(c)'
      BY <2>2, <3>1, <3>2, <3>3 DEF Stands, Works
    <3>6. keyFile'.is # "whole" => crossed # {}
      BY <3>1, <3>3
    <3> QED BY <2>1, <3>4, <3>5, <3>6 DEF StandInv
  <2>4. CASE keyTmp.is = "none"
    <3>1. keyFile' = keyFile /\ keyTmp' = keyTmp
      BY <1>4, <2>4 DEF Install
    <3>2. command'[c].at = "failed"
      BY <2>1, <2>4
    <3>3. ASSUME NEW d \in Commands \ crossed, d # c PROVE Stands(d)'
      <4>1. Stands(d) /\ ~Running(d) /\ command[d].at \notin {"opened", "written"}
        BY <2>2, <3>3, Alone DEF StandInv
      <4>2. command'[d].at = command[d].at /\ ~Running(d)'
        BY <2>1, <2>2, <3>3, <4>1
      <4>3. ASSUME NEW e \in Commands, Running(e)'
            PROVE  Running(e) /\ command'[e].keys = command[e].keys
        BY <2>1, <2>2, <4>3
      <4> QED BY <3>1, <4>1, <4>2, <4>3 DEF Stands, Works, Sole
    <3>4. c \notin crossed => Stands(c)'
      BY <2>2, <3>2 DEF Stands
    <3> QED BY <2>1, <3>1, <3>3, <3>4 DEF StandInv
  <2> QED BY <2>3, <2>4
<1>5. ASSUME NEW c \in Commands, CommandDies(c) PROVE StandInv'
  <2>1. /\ UNCHANGED <<keyFile, keyTmp, crossed>> /\ command'[c].at = "failed"
        /\ \A d \in Commands \ {c} : command'[d] = command[d]
    BY <1>5, CommandSteps DEF CommandDies, KeyShapes
  <2>2. ~Running(c)' /\ \A d \in Commands \ {c} : (Running(d)' <=> Running(d))
    BY <2>1 DEF Running
  <2>3. ASSUME NEW d \in Commands \ crossed, d # c PROVE Stands(d)'
    BY <2>1, <2>2, <2>3 DEF StandInv, Stands, Works, Sole
  <2>4. c \notin crossed => Stands(c)'
    BY <2>1, <2>2 DEF Stands
  <2> QED BY <2>1, <2>3, <2>4 DEF StandInv
<1>6. CASE ~(\E c \in Commands : Load(c) \/ OpenTmp(c) \/ Fill(c) \/ Install(c) \/ CommandDies(c))
  <2>1. UNCHANGED <<keyFile, keyTmp, command, crossed>>
    BY <1>6 DEF KeysNext, keyVars, Passes, ReadCopy, TimeCopy, Serve, Begin, Compare, Reread, Cache, RereadFails
  <2> QED BY <2>1 DEF StandInv, Stands, Running, Works, Sole
<1> QED BY <1>1, <1>2, <1>3, <1>4, <1>5, <1>6

-----------------------------------------------------------------------------
(* Theorems about keys.                                                    *)

KeysInv == KeyShapes /\ CopiesInv /\ JudgedInv /\ StandInv

\* The invariant of the keystore, its copy, and those who use them.
THEOREM KeysInvariant == KeysSpec => []KeysInv
<1>1. KeysInit => KeysInv
  <2> SUFFICES ASSUME KeysInit PROVE KeysInv
    OBVIOUS
  <2>1. KeyShapes
    BY KeyShapesInit
  <2>2. keyFile.is = "whole" /\ keyFile.time = 1 /\ keyTmp.is = "none" /\ clock = 1
    BY DEF KeysInit, KeyText, NoFile
  <2>3. CopiesInv
    BY <2>2 DEF KeysInit, CopiesInv
  <2>4. server.mode = Resolve(server.config)
    BY DEF KeysInit, Resolve
  <2>5. JudgedInv
    BY <2>4 DEF KeysInit, JudgedInv, Checking
  <2>6. StandInv
    BY <2>2 DEF KeysInit, StandInv, Stands, Running
  <2> QED BY <2>1, <2>3, <2>5, <2>6 DEF KeysInv
<1>2. KeysInv /\ [KeysNext]_keyVars => KeysInv'
  BY KeyShapesStep, CopiesStep, JudgedStep, StandStep DEF KeysInv
<1> QED BY <1>1, <1>2, PTL DEF KeysSpec

\* A key is worth what the file says of it: who reads the file is judged by keys in place
\* since, and so is who relies on a copy of its modification time, but for a time that is
\* dubious; a command that reports success and met no other has had its effect; only saves
\* that overlap tear the file; and a server that is reachable from elsewhere lets nobody in
\* without a key.
THEOREM KeysCurrent == KeysSpec => []KeysAreCurrent
<1>1. KeysInv => KeysAreCurrent
  <2> SUFFICES ASSUME KeysInv PROVE KeysAreCurrent
    OBVIOUS
  <2>1. JudgedByTheFile
    BY DEF KeysInv, JudgedInv, Judged, WasPlaced, JudgedByTheFile
  <2>2. CommandsStand
    BY DEF KeysInv, StandInv, Stands, CommandsStand, Sole, Works
  <2>3. TornBySavesThatCross
    BY DEF KeysInv, StandInv, TornBySavesThatCross
  <2>4. "offbox" \in server.config.listeners /\ server.config.explicit # "off" => server.mode # "off"
    BY DEF KeysInv, JudgedInv, Resolve
  <2>5. NeverOpenByDefault
    BY <2>4 DEF KeysInv, JudgedInv, Judged, NeverOpenByDefault
  <2> QED BY <2>1, <2>2, <2>3, <2>5 DEF KeysAreCurrent
<1> QED BY <1>1, KeysInvariant, PTL

\* Only keys there are get into the file or the copy, the copy has the time of a file there
\* was, and a role suffices for what its key is accepted for.
THEOREM KeysTypes == KeysSpec => []KeysTypeOK
<1>1. KeysInv => KeysTypeOK
  <2> SUFFICES ASSUME KeysInv PROVE KeysTypeOK
    OBVIOUS
  <2>1. Known \subseteq Keys
    BY KeysAssumption DEF Known
  <2>2. keyFile.keys \cup keyTmp.keys \cup server.copy.keys \subseteq Keys
    BY <2>1, Fields DEF KeysInv
  <2>3. ASSUME NEW r \in Requests, server.mode = "required", request[r].answer = "accepted"
        PROVE  RoleOf[r.key] >= r.needs
    <3>1. ~(RoleOf[r.key] < r.needs)
      BY <2>3 DEF KeysInv, JudgedInv, Judged
    <3> QED BY <3>1, KeysAssumption
  <2> QED BY <2>2, <2>3 DEF KeysInv, CopiesInv, Used, KeysTypeOK
<1> QED BY <1>1, KeysInvariant, PTL

-----------------------------------------------------------------------------
(* The sharded store: the newest rows of a set.                            *)

Above(rows, t) == {x \in rows : x.start > t}
Below(rows, t) == {x \in rows : x.start < t}

\* Parts of what shards hold can be counted.
LEMMA RowsFinite ==
  ASSUME NEW rows \in SUBSET ShardRows
  PROVE  /\ IsFiniteSet(rows) /\ Cardinality(rows) \in Nat
         /\ \A part \in SUBSET rows :
              /\ IsFiniteSet(part) /\ Cardinality(part) \in Nat /\ Cardinality(part) <= Cardinality(rows)
              /\ Cardinality(part) = Cardinality(rows) => part = rows
<1>1. IsFiniteSet(rows)
  BY FanAssumption, FS_Subset
<1> QED BY <1>1, FS_Subset, FS_CardinalityType

\* A set of numbers that is not empty has a least one.
LEMMA LeastOf ==
  ASSUME NEW S \in SUBSET Nat, S # {}
  PROVE  \E x \in S : \A y \in S : x <= y
<1>1. PICK x \in S : \A y \in S : <<y, x>> \notin OpToRel(<, Nat)
  BY WFMin, NatLessThanWellFounded, Zenon
<1>2. \A y \in S : ~ (y < x)
  BY <1>1, Zenon DEF OpToRel
<1>3. \A y \in S : x <= y
  BY ONLY <1>2, S \in SUBSET Nat, x \in S
<1> QED BY <1>3, Zenon

\* Of some rows one is newest: the one with fewest above it.
LEMMA LatestOf ==
  ASSUME NEW rows \in SUBSET ShardRows, rows # {}
  PROVE  \E m \in rows : \A x \in rows : x.start <= m.start
<1> DEFINE count(m) == Cardinality(Above(rows, m.start))
<1>1. \A m \in rows : Above(rows, m.start) \in SUBSET rows /\ count(m) \in Nat
  BY RowsFinite DEF Above
<1>2. {count(m) : m \in rows} \in SUBSET Nat /\ {count(m) : m \in rows} # {}
  BY <1>1
<1>3. PICK m \in rows : \A x \in rows : count(m) <= count(x)
  <2> HIDE DEF count
  <2>1. PICK k \in {count(m) : m \in rows} : \A y \in {count(m) : m \in rows} : k <= y
    BY <1>2, LeastOf
  <2> QED BY <2>1
<1>4. ASSUME NEW x \in rows, x.start > m.start PROVE FALSE
  <2>1. m.start \in Nat /\ x.start \in Nat /\ \A y \in rows : y.start \in Nat
    BY FanAssumption
  <2>2. Above(rows, x.start) \in SUBSET Above(rows, m.start) /\ Above(rows, m.start) \in SUBSET ShardRows
    BY <1>4, <2>1 DEF Above
  <2>3. x \in Above(rows, m.start) /\ x \notin Above(rows, x.start)
    BY <1>4, <2>1 DEF Above
  <2>4. count(x) <= count(m) /\ count(x) # count(m)
    BY <2>2, <2>3, RowsFinite
  <2> QED BY <1>1, <1>3, <2>4
<1> QED BY <1>3, <1>4, FanAssumption

\* And one is oldest.
LEMMA EarliestOf ==
  ASSUME NEW rows \in SUBSET ShardRows, rows # {}
  PROVE  \E m \in rows : \A x \in rows : m.start <= x.start
<1> DEFINE count(m) == Cardinality(Below(rows, m.start))
<1>1. \A m \in rows : Below(rows, m.start) \in SUBSET rows /\ count(m) \in Nat
  BY RowsFinite DEF Below
<1>2. {count(m) : m \in rows} \in SUBSET Nat /\ {count(m) : m \in rows} # {}
  BY <1>1
<1>3. PICK m \in rows : \A x \in rows : count(m) <= count(x)
  <2> HIDE DEF count
  <2>1. PICK k \in {count(m) : m \in rows} : \A y \in {count(m) : m \in rows} : k <= y
    BY <1>2, LeastOf
  <2> QED BY <2>1
<1>4. ASSUME NEW x \in rows, x.start < m.start PROVE FALSE
  <2>1. m.start \in Nat /\ x.start \in Nat /\ \A y \in rows : y.start \in Nat
    BY FanAssumption
  <2>2. Below(rows, x.start) \in SUBSET Below(rows, m.start) /\ Below(rows, m.start) \in SUBSET ShardRows
    BY <1>4, <2>1 DEF Below
  <2>3. x \in Below(rows, m.start) /\ x \notin Below(rows, x.start)
    BY <1>4, <2>1 DEF Below
  <2>4. count(x) <= count(m) /\ count(x) # count(m)
    BY <2>2, <2>3, RowsFinite
  <2> QED BY <1>1, <1>3, <2>4
<1> QED BY <1>3, <1>4, FanAssumption

\* The newest n are n at most, as each has a start of its own.
LEMMA NewestAreFew ==
  ASSUME NEW rows \in SUBSET ShardRows, NEW n \in Nat
  PROVE  /\ Newest(rows, n) \in SUBSET rows /\ IsFiniteSet(Newest(rows, n))
         /\ Cardinality(Newest(rows, n)) \in Nat /\ Cardinality(Newest(rows, n)) <= n
<1> DEFINE N == Newest(rows, n)
<1>1. N \in SUBSET rows
  BY DEF Newest
<1>2. IsFiniteSet(N) /\ Cardinality(N) \in Nat
  BY <1>1, RowsFinite
<1>3. CASE N = {}
  BY <1>2, <1>3, FS_EmptySet
<1>4. CASE N # {}
  <2>1. PICK m \in N : \A x \in N : m.start <= x.start
    BY <1>1, <1>4, EarliestOf
  <2>2. Cardinality(Above(rows, m.start)) < n
    BY <2>1 DEF Newest, Above
  <2>3. N \ {m} \in SUBSET Above(rows, m.start)
    <3>1. \A x \in N \ {m} : x.start # m.start /\ x.start \in Nat /\ m.start \in Nat
      BY <1>1, <2>1, FanAssumption
    <3> QED BY <1>1, <2>1, <3>1 DEF Above
  <2>4. /\ Cardinality(N \ {m}) <= Cardinality(Above(rows, m.start))
        /\ Cardinality(N \ {m}) \in Nat /\ Cardinality(Above(rows, m.start)) \in Nat
    <3>1. Above(rows, m.start) \in SUBSET ShardRows
      BY DEF Above
    <3> QED BY <2>3, <3>1, RowsFinite
  <2>5. Cardinality(N \ {m}) = Cardinality(N) - 1
    BY <1>2, <2>1, FS_RemoveElement
  <2> QED BY <1>1, <1>2, <2>2, <2>4, <2>5
<1> QED BY <1>1, <1>3, <1>4

\* If n rows are newer than some time, n of the newest n are.
LEMMA NewestAreEnough ==
  ASSUME NEW rows \in SUBSET ShardRows, NEW n \in Nat, NEW t \in Nat,
         Cardinality(Above(rows, t)) >= n
  PROVE  Cardinality(Above(Newest(rows, n), t)) >= n
<1> DEFINE N == Newest(rows, n)
<1>1. N \in SUBSET rows /\ N \in SUBSET ShardRows
  BY DEF Newest
<1>2. \A r \in rows : Above(rows, r.start) \in SUBSET rows /\ r.start \in Nat
  BY FanAssumption DEF Above
<1>3. \A r \in rows : r \in N <=> Cardinality(Above(rows, r.start)) < n
  BY DEF Newest, Above
<1>4. Above(N, t) = N
  <2> SUFFICES ASSUME NEW x \in N, ~(x.start > t) PROVE FALSE
    BY DEF Above
  <2>1. x \in rows /\ x.start \in Nat
    BY <1>1, <1>2
  <2>2. Above(rows, t) \in SUBSET Above(rows, x.start) /\ Above(rows, x.start) \in SUBSET ShardRows
    BY <1>1, <1>2, <2>1 DEF Above
  <2>3. /\ Cardinality(Above(rows, t)) <= Cardinality(Above(rows, x.start))
        /\ Cardinality(Above(rows, t)) \in Nat /\ Cardinality(Above(rows, x.start)) \in Nat
    BY <2>2, RowsFinite
  <2>4. Cardinality(Above(rows, x.start)) < n
    BY <1>3, <2>1
  <2> QED BY <2>3, <2>4
<1>5. Cardinality(N) >= n
  <2> SUFFICES ASSUME ~(Cardinality(N) >= n) PROVE FALSE
    OBVIOUS
  <2>1. Cardinality(N) \in Nat /\ Cardinality(rows) \in Nat /\ Above(rows, t) \in SUBSET rows
        /\ Cardinality(Above(rows, t)) \in Nat /\ Cardinality(Above(rows, t)) <= Cardinality(rows)
    BY <1>1, RowsFinite DEF Above
  <2>2. rows \ N # {}
    <3> SUFFICES ASSUME N = rows PROVE FALSE
      BY <1>1
    <3> HIDE DEF N
    <3> QED BY <2>1
  <2>3. PICK m \in rows \ N : \A x \in rows \ N : x.start <= m.start
    BY <2>2, LatestOf
  <2>4. Above(rows, m.start) \in SUBSET N
    <3> SUFFICES ASSUME NEW x \in rows, x.start > m.start, x \notin N PROVE FALSE
      BY DEF Above
    <3>1. x.start <= m.start /\ x.start \in Nat /\ m.start \in Nat
      BY <1>2, <2>3
    <3> QED BY <3>1
  <2>5. Cardinality(Above(rows, m.start)) <= Cardinality(N) /\ Cardinality(Above(rows, m.start)) \in Nat
    BY <1>1, <2>4, RowsFinite
  <2>6. ~(Cardinality(Above(rows, m.start)) < n)
    BY <1>3, <2>3
  <2> QED BY <2>1, <2>5, <2>6
<1> QED BY <1>4, <1>5

-----------------------------------------------------------------------------
(* The sharded store: what is written.                                     *)

InsertAt  == [at : {"new", "sending", "done", "failed"}, left : SUBSET Shards]
StrayRows == {x.row : x \in Strays}

\* A shard has what was left behind there, and whole groups of its own; an insert has sent
\* what it need not send any more.
GroupsInv ==
  /\ shardRows \in [Shards -> SUBSET ShardRows] /\ batch \in [Batches -> InsertAt]
  /\ \A s \in Shards : \A r \in shardRows[s] \ StrayRows :
       Home(r) = s /\ \E b \in Batches : r \in b /\ Group(b, s) \subseteq shardRows[s]
  /\ \A b \in Batches : \A r \in b :
       /\ batch[b].at = "sending" => Home(r) \in batch[b].left \/ r \in shardRows[Home(r)]
       /\ batch[b].at = "done" => r \in shardRows[Home(r)]

\* What a shard has it keeps.
Kept == \A s \in Shards : shardRows[s] \subseteq shardRows'[s]

\* The home of a row is a shard.
LEMMA Homes ==
  /\ \A r \in ShardRows : Home(r) \in Shards /\ r.start \in Nat
  /\ \A b \in Batches : b \in SUBSET ShardRows
BY FanAssumption DEF Home

\* A group that is sent is there as a whole, and an insert is done with the last.
LEMMA SendSteps ==
  ASSUME GroupsInv, NEW b \in Batches, NEW s \in Shards, SendGroup(b, s)
  PROVE  /\ shardRows' = [shardRows EXCEPT ![s] = @ \cup Group(b, s)] /\ Group(b, s) \in SUBSET b
         /\ batch[b].at = "sending" /\ s \in batch[b].left
         /\ batch'[b].left = batch[b].left \ {s}
         /\ batch'[b].at = IF batch[b].left = {s} THEN "done" ELSE "sending"
         /\ \A c \in Batches \ {b} : batch'[c] = batch[c]
         /\ batch' \in [Batches -> InsertAt]
<1>1. /\ shardRows' = [shardRows EXCEPT ![s] = @ \cup Group(b, s)] /\ Group(b, s) \in SUBSET b
      /\ batch[b].at = "sending" /\ s \in batch[b].left
  BY DEF SendGroup, Group
<1>2. PICK l \in SUBSET Shards : batch[b] = [at |-> "sending", left |-> l]
  BY <1>1 DEF GroupsInv, InsertAt
<1> DEFINE rest == batch[b].left \ {s}
           then == IF batch[b].left = {s} THEN "done" ELSE batch[b].at
<1>3. batch' = [batch EXCEPT ![b].left = rest, ![b].at = then]
  BY DEF SendGroup
<1>4. rest \in SUBSET Shards /\ then \in {"done", "sending"}
  BY <1>2
<1>5. batch'[b].left = rest /\ batch'[b].at = then /\ \A c \in Batches \ {b} : batch'[c] = batch[c]
  <2> HIDE DEF rest, then
  <2> QED BY <1>2, <1>3 DEF GroupsInv
<1>6. batch' \in [Batches -> InsertAt]
  <2> HIDE DEF rest, then
  <2> QED BY <1>2, <1>3, <1>4 DEF GroupsInv, InsertAt
<1>7. then = IF batch[b].left = {s} THEN "done" ELSE "sending"
  BY <1>2
<1> QED BY <1>1, <1>5, <1>6, <1>7

\* Shards only gain rows, group by group.
LEMMA WrittenStep ==
  ASSUME GroupsInv, [FanNext]_fanVars
  PROVE  GroupsInv' /\ Kept
<1> USE DEF GroupsInv, Kept
<1>1. ASSUME NEW b \in Batches, BeginInsert(b) PROVE GroupsInv' /\ Kept
  <2> DEFINE homes == {Home(r) : r \in b}
  <2>1. homes \in SUBSET Shards
    BY Homes
  <2>2. /\ batch' = [batch EXCEPT ![b] = [at |-> "sending", left |-> homes]] /\ shardRows' = shardRows
    BY <1>1 DEF BeginInsert
  <2>3. batch' \in [Batches -> InsertAt]
    BY <2>1, <2>2 DEF InsertAt
  <2>4. batch'[b].left = homes /\ batch'[b].at = "sending" /\ \A c \in Batches \ {b} : batch'[c] = batch[c]
    BY <2>2
  <2> QED BY <2>2, <2>3, <2>4
<1>2. ASSUME NEW b \in Batches, NEW s \in Shards, SendGroup(b, s) PROVE GroupsInv' /\ Kept
  <2> DEFINE group == Group(b, s)
  <2>1. /\ shardRows' = [shardRows EXCEPT ![s] = @ \cup group] /\ group \in SUBSET ShardRows
        /\ batch[b].at = "sending" /\ s \in batch[b].left
        /\ batch'[b].left = batch[b].left \ {s}
        /\ batch'[b].at = IF batch[b].left = {s} THEN "done" ELSE "sending"
        /\ \A c \in Batches \ {b} : batch'[c] = batch[c]
        /\ batch' \in [Batches -> InsertAt]
    BY <1>2, SendSteps, Homes
  <2>2. /\ shardRows' \in [Shards -> SUBSET ShardRows] /\ shardRows'[s] = shardRows[s] \cup group
        /\ \A t \in Shards \ {s} : shardRows'[t] = shardRows[t]
    BY <2>1
  <2>3. Kept
    BY <2>2
  <2>4. ASSUME NEW t \in Shards, NEW r \in shardRows'[t] \ StrayRows
        PROVE  Home(r) = t /\ \E c \in Batches : r \in c /\ Group(c, t) \subseteq shardRows'[t]
    <3>1. CASE r \in shardRows[t]
      BY <2>3, <2>4, <3>1
    <3>2. CASE r \notin shardRows[t]
      <4>1. t = s /\ r \in group
        BY <2>2, <2>4, <3>2
      <4> QED BY <2>2, <4>1 DEF Group
    <3> QED BY <3>1, <3>2
  <2>5. ASSUME NEW c \in Batches, NEW r \in c
        PROVE  /\ batch'[c].at = "sending" => Home(r) \in batch'[c].left \/ r \in shardRows'[Home(r)]
               /\ batch'[c].at = "done" => r \in shardRows'[Home(r)]
    <3>1. Home(r) \in Shards
      BY Homes
    <3>2. CASE c # b
      BY <2>1, <2>3, <3>1, <3>2
    <3>3. CASE c = b
      <4>1. Home(r) = s => r \in shardRows'[s]
        BY <2>2, <3>3 DEF Group
      <4>2. Home(r) # s => Home(r) \in batch[b].left \ {s} \/ r \in shardRows'[Home(r)]
        BY <2>1, <2>3, <3>1, <3>3
      <4> QED BY <2>1, <3>3, <4>1, <4>2
    <3> QED BY <3>2, <3>3
  <2> QED BY <2>1, <2>2, <2>3, <2>4, <2>5
<1>3. ASSUME NEW b \in Batches, NEW s \in Shards, SendFails(b, s) PROVE GroupsInv' /\ Kept
  <2>1. /\ batch' = [batch EXCEPT ![b] = [at |-> "failed", left |-> {}]] /\ shardRows' = shardRows
    BY <1>3 DEF SendFails
  <2>2. batch' \in [Batches -> InsertAt]
    BY <2>1 DEF InsertAt
  <2>3. batch'[b].at = "failed" /\ \A c \in Batches \ {b} : batch'[c] = batch[c]
    BY <2>1
  <2> QED BY <2>1, <2>2, <2>3
<1>4. CASE ~(\E b \in Batches : BeginInsert(b) \/ \E s \in Shards : SendGroup(b, s) \/ SendFails(b, s))
  <2>1. UNCHANGED <<shardRows, batch>>
    BY <1>4 DEF FanNext, fanVars, BeginRead, BeginTrace, Ask, Gather, AskOwner, AskOthers, ShardFails, ShardReturns
  <2> QED BY <2>1
<1> QED BY <1>1, <1>2, <1>3, <1>4

\* The spans of a trace that an insert has are together, as they share a home.
LEMMA WrittenTogether ==
  ASSUME GroupsInv
  PROVE  TracesLandTogether
<1>1. ASSUME NEW b \in Batches, NEW t \in Traces
      PROVE  LET part == {r \in b : r.trace = t} \ StrayRows IN part \cap All \in {{}, part}
  <2> DEFINE part == {r \in b : r.trace = t} \ StrayRows
  <2>1. ASSUME NEW r \in part, r \in All, NEW q \in part PROVE q \in All
    <3>1. PICK s \in Shards : r \in shardRows[s]
      BY <2>1 DEF All
    <3>2. PICK c \in Batches : r \in c /\ Group(c, s) \subseteq shardRows[s]
      BY <2>1, <3>1 DEF GroupsInv
    <3>3. Home(r) = s /\ r.trace = t /\ q.trace = t /\ r \in b /\ q \in b
      BY <2>1, <3>1 DEF GroupsInv
    <3>4. q \in c
      BY <3>2, <3>3, FanAssumption
    <3>5. q \in Group(c, s)
      BY <3>3, <3>4 DEF Group, Home
    <3> QED BY <3>2, <3>5 DEF All
  <2> QED BY <2>1
<1>2. ASSUME NEW b \in Batches, batch[b].at = "done" PROVE b \subseteq All
  BY <1>2, Homes DEF GroupsInv, All
<1> QED BY <1>1, <1>2 DEF TracesLandTogether, StrayRows

-----------------------------------------------------------------------------
(* The sharded store: what is read.                                        *)

Counts == [shard : Shards, service : Services, count : Nat]

Reads == [op : {"query", "summary", "trace"}, at : {"asking", "answered", "error"},
          trace : Traces \cup {"all"}, next : 0 .. NumShards + 1, rows : SUBSET ShardRows,
          counts : SUBSET Counts, failed : SUBSET Shards, fresh : SUBSET ShardRows,
          begun : [Shards -> SUBSET ShardRows]]

\* The shards that answered so far.
Passed == {s \in Shards : s < call.next /\ s \notin call.failed}

\* What is missing of what they had is older than a full answer; or they had nothing of
\* the trace.
Covered  == \A s \in Passed : \A r \in call.begun[s] \ call.rows :
              Cardinality(Above(call.rows, r.start)) >= QueryLimit
NotFound == call.rows = {} /\ \A s \in Passed : \A r \in call.begun[s] : r.trace # call.trace

ReadShape ==
  \/ call = Idle
  \/ call \in Reads /\ (call.op = "trace" => call.trace \in Traces)

\* A read asks its shards in turn, and what they had when it began they still have.
AskingInv ==
  call.at = "asking" =>
    /\ \A s \in Shards : call.begun[s] \subseteq shardRows[s]
    /\ call.op # "trace" => call.next >= 1 /\ Covered
    /\ call.op = "trace" => NotFound

ReadInv == ReadShape /\ AskingInv /\ NewestAreReturned /\ ReadsTolerateShards /\ TracesAreFound

\* A call that is not idle has all its fields.
LEMMA ReadFields ==
  ASSUME ReadShape, call.at # "idle"
  PROVE  call \in Reads /\ (call.op = "trace" => call.trace \in Traces)
BY DEF ReadShape, Idle

\* What a shard says of its services are counts.
LEMMA TopCounts ==
  ASSUME NEW s \in Shards, NEW rows \in SUBSET ShardRows
  PROVE  {[shard |-> s, service |-> c.service, count |-> c.count] : c \in TopOf(rows)} \in SUBSET Counts
<1>1. ASSUME NEW v \in Services PROVE CountOf(rows, v) \in Nat
  <2>1. {r \in rows : r.service = v} \in SUBSET rows
    OBVIOUS
  <2> QED BY <2>1, RowsFinite DEF CountOf
<1>2. ASSUME NEW c \in TopOf(rows) PROVE c.service \in Services /\ c.count \in Nat
  <2> HIDE DEF CountOf
  <2>1. PICK v \in Services : c = [service |-> v, count |-> CountOf(rows, v)]
    BY <1>2 DEF TopOf
  <2> QED BY <1>1, <2>1
<1> HIDE DEF TopOf
<1> QED BY <1>2 DEF Counts

\* A new read has asked nobody.
LEMMA BeginSteps ==
  ASSUME GroupsInv, NEW op \in {"query", "summary", "trace"}, NEW t \in Traces \cup {"all"},
         NEW first \in {0, 1}, call' = Asking(op, t, first)
  PROVE  /\ call' \in Reads /\ call'.op = op /\ call'.at = "asking" /\ call'.next = first
         /\ call'.rows = {} /\ call'.failed = {} /\ call'.begun = shardRows /\ call'.trace = t
BY FanAssumption DEF Asking, Reads, GroupsInv

\* A shard's answer is added to the others', or it is passed over.
LEMMA AskSteps ==
  ASSUME call \in Reads, GroupsInv, Ask
  PROVE  /\ call' \in Reads /\ call'.op = call.op /\ call'.at = "asking" /\ call'.begun = call.begun
         /\ call.at = "asking" /\ call.op # "trace"
         /\ call.next \in Shards /\ call'.next = call.next + 1
         /\ \/ call'.failed = call.failed \cup {call.next} /\ call'.rows = call.rows
            \/ /\ call'.failed = call.failed
               /\ call'.rows = call.rows \cup Newest(shardRows[call.next], QueryLimit)
<1> DEFINE n == call.next
           rows == call.rows \cup Newest(shardRows[n], QueryLimit)
           counts == call.counts \cup {[shard |-> n, service |-> c.service, count |-> c.count] : c \in TopOf(shardRows[n])}
           failed == call.failed \cup {n}
<1>1. n \in Shards /\ call.at = "asking" /\ call.op # "trace" /\ n + 1 \in 0 .. NumShards + 1
  BY FanAssumption DEF Ask, Shards
<1>2. rows \in SUBSET ShardRows /\ counts \in SUBSET Counts /\ failed \in SUBSET Shards
  <2>1. shardRows[n] \in SUBSET ShardRows
    BY <1>1 DEF GroupsInv
  <2>2. Newest(shardRows[n], QueryLimit) \in SUBSET ShardRows
    BY <2>1 DEF Newest
  <2>3. {[shard |-> n, service |-> c.service, count |-> c.count] : c \in TopOf(shardRows[n])} \in SUBSET Counts
    BY <1>1, <2>1, TopCounts
  <2>4. call.rows \in SUBSET ShardRows /\ call.counts \in SUBSET Counts /\ call.failed \in SUBSET Shards
    BY DEF Reads
  <2> QED BY <1>1, <2>2, <2>3, <2>4
<1>3. \/ call' = [call EXCEPT !.next = n + 1, !.failed = failed]
      \/ call' = [call EXCEPT !.next = n + 1, !.rows = rows, !.counts = counts]
  BY DEF Ask
<1> HIDE DEF rows, counts, failed
<1>4. CASE call' = [call EXCEPT !.next = n + 1, !.failed = failed]
  <2>1. call'.failed = failed /\ call'.rows = call.rows
    BY <1>4 DEF Reads
  <2>2. call' \in Reads /\ call'.op = call.op /\ call'.at = "asking" /\ call'.begun = call.begun /\ call'.next = n + 1
    BY <1>1, <1>2, <1>4 DEF Reads
  <2> QED BY <1>1, <2>1, <2>2 DEF failed
<1>5. CASE call' = [call EXCEPT !.next = n + 1, !.rows = rows, !.counts = counts]
  <2>1. call'.failed = call.failed /\ call'.rows = rows
    BY <1>5 DEF Reads
  <2>2. call' \in Reads /\ call'.op = call.op /\ call'.at = "asking" /\ call'.begun = call.begun /\ call'.next = n + 1
    BY <1>1, <1>2, <1>5 DEF Reads
  <2> QED BY <1>1, <2>1, <2>2 DEF rows
<1> QED BY <1>3, <1>4, <1>5

\* When all were asked, the newest are kept.
LEMMA GatherSteps ==
  ASSUME call \in Reads, Gather
  PROVE  /\ call' \in Reads /\ call'.op = call.op /\ call'.begun = call.begun /\ call'.failed = call.failed
         /\ call.at = "asking" /\ call.op # "trace" /\ call.next = NumShards + 1
         /\ call'.rows = Newest(call.rows, QueryLimit)
         /\ call'.at \in {"answered", "error"} /\ (call'.at = "error" => call.failed = Shards)
<1> DEFINE at == IF call.failed = Shards THEN "error" ELSE "answered"
           rows == Newest(call.rows, QueryLimit)
<1>1. call.at = "asking" /\ call.op # "trace" /\ call.next = NumShards + 1
  BY DEF Gather
<1>2. at \in {"answered", "error"} /\ (at = "error" => call.failed = Shards)
  OBVIOUS
<1>3. call' = [call EXCEPT !.at = at, !.rows = rows]
  BY DEF Gather, Relimit
<1>4. rows \in SUBSET ShardRows
  BY DEF Reads, Newest
<1> HIDE DEF at, rows
<1>5. call' \in Reads /\ call'.op = call.op /\ call'.begun = call.begun /\ call'.failed = call.failed /\ call'.rows = rows /\ call'.at = at
  BY <1>2, <1>3, <1>4 DEF Reads
<1> QED BY <1>1, <1>2, <1>5 DEF rows

\* The trace is asked of its owner: the answer is found or an error, or others are next.
LEMMA OwnerSteps ==
  ASSUME call \in Reads, call.trace \in Traces, GroupsInv, AskOwner
  PROVE  /\ call' \in Reads /\ call'.op = "trace" /\ call'.trace = call.trace
         /\ call.op = "trace" /\ call.at = "asking"
         /\ \/ call'.at = "error"
            \/ call'.at = "answered" /\ call'.rows # {}
            \/ call'.at = "asking" /\ call'.next = 1 /\ call'.rows = call.rows /\ call'.begun = call.begun
<1> DEFINE s == OwnerOf[call.trace]
           found == OfTrace(s)
<1>1. call.op = "trace" /\ call.at = "asking" /\ 1 \in 0 .. NumShards + 1
  BY FanAssumption DEF AskOwner
<1>2. \/ call' = [call EXCEPT !.at = "error", !.failed = {s}]
      \/ found # {} /\ call' = [call EXCEPT !.at = "answered", !.rows = found]
      \/ call' = [call EXCEPT !.next = 1]
  BY DEF AskOwner
<1>3. s \in Shards
  BY FanAssumption DEF Traces
<1>4. found \in SUBSET ShardRows
  BY <1>3 DEF GroupsInv, OfTrace
<1> HIDE DEF s, found
<1>5. CASE call' = [call EXCEPT !.at = "error", !.failed = {s}]
  BY <1>1, <1>3, <1>5 DEF Reads
<1>6. CASE found # {} /\ call' = [call EXCEPT !.at = "answered", !.rows = found]
  BY <1>1, <1>4, <1>6 DEF Reads
<1>7. CASE call' = [call EXCEPT !.next = 1]
  BY <1>1, <1>7 DEF Reads
<1> QED BY <1>2, <1>5, <1>6, <1>7

\* Then of the next, unless there is none.
LEMMA OthersSteps ==
  ASSUME call \in Reads, GroupsInv, AskOthers
  PROVE  /\ call' \in Reads /\ call'.op = "trace" /\ call'.trace = call.trace
         /\ call.op = "trace" /\ call.at = "asking"
         /\ \/ /\ call'.at = "answered" /\ call.next = NumShards + 1 /\ call'.rows = call.rows
               /\ call'.failed = call.failed /\ call'.begun = call.begun
            \/ call'.at = "answered" /\ call'.rows # {}
            \/ /\ call'.at = "asking" /\ call.next \in Shards /\ call'.next = call.next + 1
               /\ call'.rows = call.rows /\ call'.begun = call.begun
               /\ \/ call'.failed = call.failed \cup {call.next}
                  \/ call'.failed = call.failed /\ OfTrace(call.next) = {}
<1> DEFINE n == call.next
           found == OfTrace(n)
           failed == call.failed \cup {n}
<1>1. call.op = "trace" /\ call.at = "asking" /\ n \in 0 .. NumShards + 1 /\ n # 0
  BY DEF AskOthers, Reads
<1>2. CASE n > NumShards
  <2>1. n = NumShards + 1
    BY <1>1, <1>2, FanAssumption
  <2>2. call' = [call EXCEPT !.at = "answered"]
    BY <1>2 DEF AskOthers
  <2> QED BY <1>1, <2>1, <2>2 DEF Reads
<1>3. CASE ~(n > NumShards)
  <2>1. n \in Shards /\ n + 1 \in 0 .. NumShards + 1
    BY <1>1, <1>3, FanAssumption DEF Shards
  <2>2. \/ call' = [call EXCEPT !.next = n + 1, !.failed = failed]
        \/ found # {} /\ call' = [call EXCEPT !.at = "answered", !.rows = found]
        \/ found = {} /\ call' = [call EXCEPT !.next = n + 1]
    BY <1>3 DEF AskOthers
  <2>3. found \in SUBSET ShardRows /\ failed \in SUBSET Shards
    BY <2>1 DEF GroupsInv, OfTrace, Reads
  <2> HIDE DEF found, failed
  <2>4. CASE call' = [call EXCEPT !.next = n + 1, !.failed = failed]
    <3>1. call'.failed = failed
      BY <2>4 DEF Reads
    <3>2. /\ call' \in Reads /\ call'.op = "trace" /\ call'.trace = call.trace /\ call'.at = "asking"
          /\ call'.next = n + 1 /\ call'.rows = call.rows /\ call'.begun = call.begun
      BY <1>1, <2>1, <2>3, <2>4 DEF Reads
    <3> QED BY <1>1, <2>1, <3>1, <3>2 DEF failed
  <2>5. CASE found # {} /\ call' = [call EXCEPT !.at = "answered", !.rows = found]
    BY <1>1, <2>3, <2>5 DEF Reads
  <2>6. CASE found = {} /\ call' = [call EXCEPT !.next = n + 1]
    <3>1. /\ call' \in Reads /\ call'.op = "trace" /\ call'.trace = call.trace /\ call'.at = "asking"
          /\ call'.next = n + 1 /\ call'.rows = call.rows /\ call'.begun = call.begun /\ call'.failed = call.failed
      BY <1>1, <2>1, <2>6 DEF Reads
    <3> QED BY <1>1, <2>1, <2>6, <3>1 DEF found
  <2> QED BY <2>2, <2>4, <2>5, <2>6
<1> QED BY <1>2, <1>3

\* What is stored meanwhile is noted, and nothing else of the read changes.
LEMMA NoteSteps ==
  ASSUME ReadShape, GroupsInv, NEW b \in Batches, NEW s \in Shards, SendGroup(b, s)
  PROVE  /\ ReadShape' /\ call'.op = call.op /\ call'.at = call.at
         /\ call' # call => /\ call' \in Reads /\ call'.trace = call.trace /\ call'.next = call.next
                            /\ call'.rows = call.rows /\ call'.failed = call.failed /\ call'.begun = call.begun
<1> DEFINE fresh == call.fresh \cup Group(b, s)
<1>1. \/ call' = call
      \/ call.at = "asking" /\ call' = [call EXCEPT !.fresh = fresh]
  BY DEF SendGroup
<1>2. Group(b, s) \in SUBSET ShardRows
  BY Homes DEF Group
<1>3. CASE call' = call
  BY <1>3 DEF ReadShape
<1>4. CASE call.at = "asking" /\ call' = [call EXCEPT !.fresh = fresh]
  <2>1. call \in Reads /\ (call.op = "trace" => call.trace \in Traces)
    BY <1>4, ReadFields
  <2>2. fresh \in SUBSET ShardRows
    BY <1>2, <2>1 DEF Reads
  <2> HIDE DEF fresh
  <2>3. /\ call' \in Reads /\ call'.op = call.op /\ call'.at = call.at /\ call'.trace = call.trace /\ call'.next = call.next
        /\ call'.rows = call.rows /\ call'.failed = call.failed /\ call'.begun = call.begun
    BY <1>4, <2>1, <2>2 DEF Reads
  <2> QED BY <2>1, <2>3 DEF ReadShape
<1> QED BY <1>1, <1>3, <1>4

\* More rows have no fewer above a time.
LEMMA AboveGrows ==
  ASSUME NEW more \in SUBSET ShardRows, NEW rows \in SUBSET more, NEW t \in Nat,
         Cardinality(Above(rows, t)) >= QueryLimit
  PROVE  Cardinality(Above(more, t)) >= QueryLimit
<1>1. Above(rows, t) \in SUBSET Above(more, t) /\ Above(more, t) \in SUBSET ShardRows
  BY DEF Above
<1> QED BY <1>1, RowsFinite, FanAssumption

\* A shard that answers with its newest rows lacks only what its full answer outdoes.
LEMMA CoveredStep ==
  ASSUME call \in Reads, AskingInv, GroupsInv, Ask
  PROVE  Covered'
<1>1. /\ call' \in Reads /\ call'.begun = call.begun
      /\ call.at = "asking" /\ call.op # "trace"
      /\ call.next \in Shards /\ call'.next = call.next + 1
  BY AskSteps
<1>2. Covered /\ \A s \in Shards : call.begun[s] \subseteq shardRows[s] /\ shardRows[s] \in SUBSET ShardRows
  BY <1>1 DEF AskingInv, GroupsInv
<1> SUFFICES ASSUME NEW s \in Shards, s < call'.next, s \notin call'.failed, NEW r \in call'.begun[s] \ call'.rows
             PROVE  Cardinality(Above(call'.rows, r.start)) >= QueryLimit
  BY DEF Covered, Passed
<1>3. r \in ShardRows /\ r.start \in Nat /\ call'.rows \in SUBSET ShardRows /\ call.rows \in SUBSET call'.rows
  BY <1>1, <1>2, Homes, AskSteps DEF Reads
<1>4. CASE s \in Passed
  <2>1. Cardinality(Above(call.rows, r.start)) >= QueryLimit
    BY <1>1, <1>2, <1>3, <1>4 DEF Covered
  <2> QED BY <1>3, <2>1, AboveGrows
<1>5. CASE s \notin Passed
  <2> DEFINE newest == Newest(shardRows[s], QueryLimit)
  <2>1. s = call.next /\ call'.failed = call.failed /\ call'.rows = call.rows \cup newest
    BY <1>1, <1>5, AskSteps DEF Passed, Shards
  <2>2. r \in shardRows[s] /\ r \notin newest
    BY <1>1, <1>2, <2>1
  <2>3. Cardinality(Above(shardRows[s], r.start)) >= QueryLimit
    <3>1. ~(Cardinality(Above(shardRows[s], r.start)) < QueryLimit)
      BY <2>2 DEF Newest, Above
    <3>2. Above(shardRows[s], r.start) \in SUBSET ShardRows
      BY <1>2 DEF Above
    <3> QED BY <3>1, <3>2, RowsFinite, FanAssumption
  <2>4. Cardinality(Above(newest, r.start)) >= QueryLimit
    BY <1>2, <1>3, <2>3, FanAssumption, NewestAreEnough
  <2>5. newest \in SUBSET call'.rows
    BY <2>1
  <2> HIDE DEF newest
  <2> QED BY <1>3, <2>4, <2>5, AboveGrows
<1> QED BY <1>4, <1>5

\* The newest of all answers lack only what a full answer outdoes.
LEMMA GatherStep ==
  ASSUME call \in Reads, AskingInv, GroupsInv, Gather
  PROVE  NewestAreReturned'
<1> DEFINE newest == Newest(call.rows, QueryLimit)
<1>1. /\ call' \in Reads /\ call'.begun = call.begun /\ call'.failed = call.failed
      /\ call.at = "asking" /\ call.op # "trace" /\ call.next = NumShards + 1
      /\ call'.rows = newest /\ call.rows \in SUBSET ShardRows
  BY GatherSteps DEF Reads
<1>2. Covered /\ \A s \in Shards : call.begun[s] \subseteq shardRows[s] /\ shardRows[s] \in SUBSET ShardRows
  BY <1>1 DEF AskingInv, GroupsInv
<1>3. Cardinality(newest) <= QueryLimit
  BY <1>1, FanAssumption, NewestAreFew
<1>4. ASSUME NEW s \in Shards \ call.failed, NEW r \in call.begun[s] \ newest
      PROVE  Cardinality(Above(newest, r.start)) >= QueryLimit
  <2>1. r \in ShardRows /\ r.start \in Nat /\ Above(call.rows, r.start) \in SUBSET ShardRows
    BY <1>1, <1>2, <1>4, Homes DEF Above
  <2>2. s \in Passed
    BY <1>1, <1>4, FanAssumption DEF Passed, Shards
  <2>3. Cardinality(Above(call.rows, r.start)) >= QueryLimit
    <3>1. CASE r \in call.rows
      <4>1. ~(Cardinality(Above(call.rows, r.start)) < QueryLimit)
        BY <1>4, <3>1 DEF Newest, Above
      <4> QED BY <2>1, <4>1, RowsFinite, FanAssumption
    <3>2. CASE r \notin call.rows
      BY <1>2, <1>4, <2>2, <3>2 DEF Covered
    <3> QED BY <3>1, <3>2
  <2> QED BY <1>1, <2>1, <2>3, FanAssumption, NewestAreEnough
<1> HIDE DEF newest
<1> QED BY <1>1, <1>3, <1>4 DEF NewestAreReturned, Above

\* A read keeps what it has found out.
LEMMA ReadStep ==
  ASSUME GroupsInv, Kept, ReadInv, [FanNext]_fanVars
  PROVE  ReadInv'
<1>1. ASSUME NEW op \in {"query", "summary", "trace"}, NEW t \in Traces \cup {"all"}, NEW first \in {0, 1},
             call' = Asking(op, t, first), shardRows' = shardRows,
             op = "trace" => t \in Traces /\ first = 0, op # "trace" => first = 1
      PROVE  ReadInv'
  <2>1. /\ call' \in Reads /\ call'.op = op /\ call'.at = "asking" /\ call'.next = first
        /\ call'.rows = {} /\ call'.failed = {} /\ call'.begun = shardRows /\ call'.trace = t
    BY <1>1, BeginSteps
  <2>2. Passed' = {}
    BY <2>1 DEF Passed, Shards
  <2> QED BY <1>1, <2>1, <2>2 DEF ReadInv, ReadShape, AskingInv, Covered, NotFound, NewestAreReturned, ReadsTolerateShards,
                                  TracesAreFound, Answered
<1>2. ASSUME NEW op \in {"query", "summary"}, BeginRead(op) PROVE ReadInv'
  BY <1>1, <1>2 DEF BeginRead
<1>3. ASSUME NEW t \in Traces, BeginTrace(t) PROVE ReadInv'
  BY <1>1, <1>3 DEF BeginTrace
<1>4. CASE Ask
  <2>1. call \in Reads
    BY <1>4, ReadFields DEF Ask, ReadInv
  <2>2. /\ call' \in Reads /\ call'.op = call.op /\ call'.at = "asking" /\ call'.begun = call.begun
        /\ call.at = "asking" /\ call.op # "trace" /\ call.next \in Shards /\ call'.next = call.next + 1
    BY <1>4, <2>1, AskSteps DEF ReadInv
  <2>3. shardRows' = shardRows /\ Covered' /\ call'.next >= 1
    BY <1>4, <2>1, <2>2, CoveredStep DEF Ask, ReadInv, Shards
  <2> QED BY <2>2, <2>3 DEF ReadInv, ReadShape, AskingInv, NewestAreReturned, ReadsTolerateShards, TracesAreFound, Answered
<1>5. CASE Gather
  <2>1. call \in Reads
    BY <1>5, ReadFields DEF Gather, ReadInv
  <2>2. /\ call' \in Reads /\ call'.op = call.op /\ call'.failed = call.failed
        /\ call.at = "asking" /\ call.op # "trace"
        /\ call'.at \in {"answered", "error"} /\ (call'.at = "error" => call.failed = Shards)
    BY <1>5, <2>1, GatherSteps
  <2>3. NewestAreReturned'
    BY <1>5, <2>1, GatherStep DEF ReadInv
  <2> QED BY <2>2, <2>3 DEF ReadInv, ReadShape, AskingInv, ReadsTolerateShards, TracesAreFound, Answered
<1>6. CASE AskOwner
  <2>1. call \in Reads /\ call.trace \in Traces
    BY <1>6, ReadFields DEF AskOwner, ReadInv
  <2>2. /\ call' \in Reads /\ call'.op = "trace" /\ call'.trace = call.trace
        /\ call.op = "trace" /\ call.at = "asking"
        /\ \/ call'.at = "error"
           \/ call'.at = "answered" /\ call'.rows # {}
           \/ call'.at = "asking" /\ call'.next = 1 /\ call'.rows = call.rows /\ call'.begun = call.begun
    BY <1>6, <2>1, OwnerSteps DEF ReadInv
  <2>3. NotFound /\ shardRows' = shardRows
    BY <1>6, <2>2 DEF ReadInv, AskingInv, AskOwner
  <2>4. call'.next = 1 => Passed' = {}
    BY DEF Passed, Shards
  <2> QED BY <2>1, <2>2, <2>3, <2>4 DEF ReadInv, ReadShape, AskingInv, NotFound, NewestAreReturned, ReadsTolerateShards,
                                        TracesAreFound, Answered
<1>7. CASE AskOthers
  <2>1. call \in Reads /\ call.trace \in Traces
    BY <1>7, ReadFields DEF AskOthers, ReadInv
  <2>2. /\ call' \in Reads /\ call'.op = "trace" /\ call'.trace = call.trace
        /\ call.op = "trace" /\ call.at = "asking"
    BY <1>7, <2>1, OthersSteps DEF ReadInv
  <2>3. NotFound /\ shardRows' = shardRows /\ \A s \in Shards : call.begun[s] \subseteq shardRows[s]
    BY <1>7, <2>2 DEF ReadInv, AskingInv, AskOthers
  <2>4. CASE /\ call'.at = "answered" /\ call.next = NumShards + 1 /\ call'.rows = call.rows
             /\ call'.failed = call.failed /\ call'.begun = call.begun
    <3>1. \A s \in Shards \ call.failed : s \in Passed
      BY <2>4, FanAssumption DEF Passed, Shards
    <3>2. TracesAreFound'
      BY <2>2, <2>3, <2>4, <3>1 DEF NotFound, TracesAreFound, Answered
    <3> QED BY <2>1, <2>2, <2>4, <3>2 DEF ReadInv, ReadShape, AskingInv, NewestAreReturned, ReadsTolerateShards, Answered
  <2>5. CASE call'.at = "answered" /\ call'.rows # {}
    BY <2>1, <2>2, <2>5 DEF ReadInv, ReadShape, AskingInv, NewestAreReturned, ReadsTolerateShards, TracesAreFound, Answered
  <2>6. CASE /\ call'.at = "asking" /\ call.next \in Shards /\ call'.next = call.next + 1
             /\ call'.rows = call.rows /\ call'.begun = call.begun
             /\ \/ call'.failed = call.failed \cup {call.next}
                \/ call'.failed = call.failed /\ OfTrace(call.next) = {}
    <3>1. ASSUME NEW s \in Passed' PROVE s \in Shards /\ \A r \in call.begun[s] : r.trace # call.trace
      <4>1. CASE s \in Passed
        BY <2>3, <4>1 DEF NotFound, Passed
      <4>2. CASE s \notin Passed
        <5>1. s \in Shards /\ s = call.next /\ OfTrace(s) = {}
          BY <2>6, <3>1, <4>2 DEF Passed, Shards
        <5> QED BY <2>3, <5>1 DEF OfTrace
      <4> QED BY <4>1, <4>2
    <3>2. NotFound'
      BY <2>2, <2>3, <2>6, <3>1 DEF NotFound
    <3> QED BY <2>1, <2>2, <2>3, <2>6, <3>2 DEF ReadInv, ReadShape, AskingInv, NewestAreReturned, ReadsTolerateShards,
                                           TracesAreFound, Answered
  <2> QED BY <1>7, <2>1, <2>4, <2>5, <2>6, OthersSteps DEF ReadInv
<1>8. ASSUME NEW b \in Batches, NEW s \in Shards, SendGroup(b, s) PROVE ReadInv'
  <2>1. /\ ReadShape' /\ call'.op = call.op /\ call'.at = call.at
        /\ call' # call => /\ call' \in Reads /\ call'.trace = call.trace /\ call'.next = call.next
                           /\ call'.rows = call.rows /\ call'.failed = call.failed /\ call'.begun = call.begun
    BY <1>8, NoteSteps DEF ReadInv
  <2>2. CASE call' = call
    <3>1. AskingInv'
      BY <2>2 DEF ReadInv, AskingInv, Kept, Covered, NotFound, Passed
    <3> QED BY <2>1, <2>2, <3>1 DEF ReadInv, NewestAreReturned, ReadsTolerateShards, TracesAreFound, Answered
  <2>3. CASE call' # call
    <3>1. AskingInv'
      BY <2>1, <2>3 DEF ReadInv, AskingInv, Kept, Covered, NotFound, Passed
    <3> QED BY <2>1, <2>3, <3>1 DEF ReadInv, NewestAreReturned, ReadsTolerateShards, TracesAreFound, Answered
  <2> QED BY <2>2, <2>3
<1>9. ASSUME UNCHANGED <<shardRows, call>> PROVE ReadInv'
  BY <1>9 DEF ReadInv, ReadShape, AskingInv, Covered, NotFound, Passed, NewestAreReturned, ReadsTolerateShards, TracesAreFound, Answered
<1>10. CASE \/ \E b \in Batches : BeginInsert(b) \/ \E s \in Shards : SendFails(b, s)
            \/ \E s \in Shards : ShardFails(s) \/ ShardReturns(s)
            \/ UNCHANGED fanVars
  <2>1. UNCHANGED <<shardRows, call>>
    BY <1>10 DEF BeginInsert, SendFails, ShardFails, ShardReturns, fanVars
  <2> QED BY <1>9, <2>1
<1> QED BY <1>2, <1>3, <1>4, <1>5, <1>6, <1>7, <1>8, <1>10 DEF FanNext

-----------------------------------------------------------------------------
(* The sharded store: sums.                                                *)

\* g adds up what f is over the parts of a set, element by element.
Sum(f, X, g) ==
  g = [s \in SUBSET X |-> IF s = {} THEN 0 ELSE f[CHOOSE x \in s : TRUE] + g[s \ {CHOOSE x \in s : TRUE}]]

\* A set that can be counted can be summed over, by induction on the size of its parts.
LEMMA SumExists ==
  ASSUME NEW X, IsFiniteSet(X), NEW f
  PROVE  \E g : Sum(f, X, g)
<1> DEFINE small(n) == {s \in SUBSET X : Cardinality(s) <= n}
           next(s, g) == IF s = {} THEN 0 ELSE f[CHOOSE x \in s : TRUE] + g[s \ {CHOOSE x \in s : TRUE}]
           fits(n, g) == g = [s \in small(n) |-> next(s, g)]
           bad == {n \in Nat : ~ \E g : fits(n, g)}
<1>1. \A s \in SUBSET X : IsFiniteSet(s) /\ Cardinality(s) \in Nat
  BY FS_Subset, FS_CardinalityType
<1>2. ASSUME NEW s \in SUBSET X, s # {}
      PROVE  LET x == CHOOSE x \in s : TRUE
             IN  s \ {x} \in SUBSET X /\ Cardinality(s \ {x}) = Cardinality(s) - 1
  <2> DEFINE x == CHOOSE x \in s : TRUE
  <2>1. x \in s
    BY <1>2
  <2> HIDE DEF x
  <2>2. s \ {x} \in SUBSET X /\ Cardinality(s \ {x}) = Cardinality(s) - 1
    BY <1>1, <2>1, FS_RemoveElement
  <2> QED BY <2>2 DEF x
<1>3. bad = {}
  <2> SUFFICES ASSUME bad # {} PROVE FALSE
    OBVIOUS
  <2>1. PICK m \in bad : \A n \in bad : m <= n
    <3>1. bad \in SUBSET Nat
      OBVIOUS
    <3> HIDE DEF bad
    <3> QED BY <3>1, LeastOf
  <2>4. m \in Nat /\ ~ \E g : fits(m, g)
    <3> HIDE DEF fits
    <3> QED BY <2>1
  <2>2. CASE m = 0
    <3> DEFINE zero == [s \in small(0) |-> 0]
    <3>1. \A s \in small(0) : s = {}
      BY <1>1, FS_EmptySet
    <3>2. zero = [s \in small(0) |-> next(s, zero)]
      <4> HIDE DEF small
      <4>1. \A s \in small(0) : next(s, zero) = 0
        BY <3>1
      <4> QED BY <4>1
    <3>3. fits(m, zero)
      BY <2>2, <3>2
    <3> HIDE DEF zero
    <3> HIDE DEF fits
    <3> QED BY <2>4, <3>3
  <2>3. CASE m # 0
    <3>1. m \in Nat /\ m - 1 \in Nat /\ m - 1 \notin bad
      <4> HIDE DEF bad
      <4> QED BY <2>1, <2>3, <2>4
    <3>2. PICK g : fits(m - 1, g)
      <4> HIDE DEF fits
      <4> QED BY <3>1
    <3> DEFINE h == [s \in small(m) |-> next(s, g)]
    <3>3. ASSUME NEW s \in small(m), s # {}
          PROVE  LET t == s \ {CHOOSE x \in s : TRUE} IN t \in small(m) /\ t \in small(m - 1)
      BY <1>1, <1>2, <3>1, <3>3
    <3>4. ASSUME NEW t \in small(m - 1), t \in small(m)
          PROVE  h[t] = g[t]
      <4> HIDE DEF small
      <4> QED BY <3>2, <3>4
    <3>5. ASSUME NEW s \in small(m)
          PROVE  next(s, g) = next(s, h)
      <4>1. CASE s = {}
        BY <4>1
      <4>2. CASE s # {}
        <5> DEFINE t == s \ {CHOOSE x \in s : TRUE}
        <5>1. h[t] = g[t]
          <6>1. t \in small(m) /\ t \in small(m - 1)
            BY <3>3, <4>2
          <6> HIDE DEF t, small, h
          <6> QED BY <3>4, <6>1
        <5> HIDE DEF h
        <5> QED BY <4>2, <5>1
      <4> QED BY <4>1, <4>2
    <3>6. fits(m, h)
      <4> HIDE DEF small, next
      <4>1. h = [s \in small(m) |-> next(s, h)]
        BY <3>5
      <4> QED BY <4>1
    <3> HIDE DEF fits, h
    <3> QED BY <2>4, <3>6
  <2> QED BY <2>2, <2>3
<1>4. PICK g : fits(Cardinality(X), g)
  <2>1. Cardinality(X) \in Nat
    BY <1>1
  <2> QED BY <1>3, <2>1
<1>5. small(Cardinality(X)) = SUBSET X
  BY FS_Subset
<1> HIDE DEF small
<1>6. g = [s \in SUBSET X |-> next(s, g)]
  BY <1>4, <1>5
<1> QED BY <1>6 DEF Sum

\* A sum of the sizes of sets that share nothing is the size of their union.
LEMMA SumIsSize ==
  ASSUME NEW X, IsFiniteSet(X), NEW f, NEW g, Sum(f, X, g), NEW part,
         \A x \in X : IsFiniteSet(part[x]) /\ f[x] = Cardinality(part[x]),
         \A x, y \in X : x # y => part[x] \cap part[y] = {}
  PROVE  LET all == UNION {part[x] : x \in X} IN IsFiniteSet(all) /\ g[X] = Cardinality(all)
<1> DEFINE all(s) == UNION {part[x] : x \in s}
           good(s) == IsFiniteSet(all(s)) /\ g[s] = Cardinality(all(s))
           bad == {s \in SUBSET X : ~good(s)}
<1>1. \A s \in SUBSET X : IsFiniteSet(s) /\ Cardinality(s) \in Nat
  BY FS_Subset, FS_CardinalityType
<1>2. ASSUME bad # {} PROVE FALSE
  <2> DEFINE sizes == {Cardinality(s) : s \in bad}
  <2>1. sizes \in SUBSET Nat /\ sizes # {}
    <3> HIDE DEF good
    <3> QED BY <1>1, <1>2
  <2>2. PICK s \in bad : \A t \in bad : Cardinality(s) <= Cardinality(t)
    <3>1. PICK n \in sizes : \A k \in sizes : n <= k
      <4> HIDE DEF sizes
      <4> QED BY <2>1, LeastOf
    <3> HIDE DEF bad
    <3> QED BY <3>1
  <2>3. s \in SUBSET X /\ ~good(s)
    <3> HIDE DEF good
    <3> QED BY <2>2
  <2>4. s # {}
    <3> SUFFICES ASSUME s = {} PROVE good(s)
      BY <2>3
    <3>1. g[s] = 0 /\ all(s) = {}
      BY DEF Sum
    <3> QED BY <3>1, FS_EmptySet
  <2> DEFINE x == CHOOSE x \in s : TRUE
             t == s \ {x}
  <2>5. x \in s /\ g[s] = f[x] + g[t]
    <3>1. x \in s
      BY <2>4
    <3>2. g[s] = f[x] + g[t]
      BY <2>3, <2>4 DEF Sum
    <3> QED BY <3>1, <3>2
  <2> HIDE DEF x
  <2>6. good(t)
    <3>1. t \in SUBSET X /\ Cardinality(t) = Cardinality(s) - 1
      BY <1>1, <2>3, <2>5, FS_RemoveElement
    <3>2. t \notin bad
      <4> HIDE DEF bad
      <4> QED BY <1>1, <2>2, <2>3, <3>1
    <3> HIDE DEF good
    <3> QED BY <3>1, <3>2
  <2>7. all(s) = part[x] \cup all(t) /\ part[x] \cap all(t) = {}
    <3>1. all(s) = part[x] \cup all(t)
      BY <2>5
    <3>2. \A y \in t : part[x] \cap part[y] = {}
      BY <2>3, <2>5
    <3> QED BY <3>1, <3>2
  <2>8. IsFiniteSet(part[x]) /\ f[x] = Cardinality(part[x])
    BY <2>3, <2>5
  <2> HIDE DEF t, all
  <2>9. IsFiniteSet(all(s)) /\ Cardinality(all(s)) = Cardinality(part[x]) + Cardinality(all(t))
    <3>1. Cardinality(part[x]) \in Nat /\ Cardinality(all(t)) \in Nat
      BY <2>6, <2>8, FS_CardinalityType
    <3>2. IsFiniteSet(part[x] \cup all(t)) /\ Cardinality(part[x] \cup all(t)) = Cardinality(part[x]) + Cardinality(all(t)) - Cardinality(part[x] \cap all(t))
      BY <2>6, <2>8, FS_Union
    <3>3. Cardinality(part[x] \cap all(t)) = 0
      BY <2>7, FS_EmptySet
    <3> QED BY <2>7, <3>1, <3>2, <3>3
  <2> QED BY <2>3, <2>5, <2>6, <2>8, <2>9
<1>3. good(X)
  <2> HIDE DEF good
  <2> QED BY <1>2
<1> QED BY <1>3

\* What the merge adds up.
LEMMA MergedSum ==
  ASSUME NEW v, IsFiniteSet({c \in call.counts : c.service = v})
  PROVE  LET X == {c \in call.counts : c.service = v}
         IN  \E g : Sum([c \in X |-> c.count], X, g) /\ Merged(v) = g[X]
<1> DEFINE X == {c \in call.counts : c.service = v}
           next(s, g) == IF s = {} THEN 0 ELSE (CHOOSE x \in s : TRUE).count + g[s \ {CHOOSE x \in s : TRUE}]
           sum == CHOOSE g : g = [s \in SUBSET X |-> next(s, g)]
<1>1. Merged(v) = sum[X]
  BY Zenon DEF Merged, MapThenSumSet, MapThenFoldSet
<1> HIDE DEF X
<1>2. PICK h : Sum([c \in X |-> c.count], X, h)
  BY SumExists DEF X
<1>3. \A g : g = [s \in SUBSET X |-> next(s, g)] <=> Sum([c \in X |-> c.count], X, g)
  <2>1. ASSUME NEW s \in SUBSET X, NEW g
        PROVE  next(s, g) = IF s = {} THEN 0 ELSE [c \in X |-> c.count][CHOOSE x \in s : TRUE] + g[s \ {CHOOSE x \in s : TRUE}]
    <3>1. CASE s = {}
      BY <3>1
    <3>2. CASE s # {}
      <4>1. (CHOOSE x \in s : TRUE) \in X
        BY <3>2
      <4> QED BY <3>2, <4>1
    <3> QED BY <3>1, <3>2
  <2> HIDE DEF next
  <2> QED BY <2>1 DEF Sum
<1>4. sum = [s \in SUBSET X |-> next(s, sum)]
  <2> HIDE DEF next
  <2>1. h = [s \in SUBSET X |-> next(s, h)]
    BY <1>2, <1>3, Zenon
  <2> QED BY <2>1, Zenon
<1>5. Sum([c \in X |-> c.count], X, sum)
  <2> HIDE DEF next, sum
  <2> QED BY <1>3, <1>4
<1> HIDE DEF sum
<1> QED BY <1>1, <1>5 DEF X

\* What some shards have of a service, and how it adds up.
HasOf(X, v) == MapThenSumSet(LAMBDA s : CountOf(call.begun[s], v), X)

LEMMA ThereSum ==
  ASSUME NEW v, NEW X, IsFiniteSet(X)
  PROVE  \E g : Sum([s \in X |-> CountOf(call.begun[s], v)], X, g) /\ HasOf(X, v) = g[X]
<1> DEFINE next(s, g) == IF s = {} THEN 0
                         ELSE CountOf(call.begun[CHOOSE x \in s : TRUE], v) + g[s \ {CHOOSE x \in s : TRUE}]
           sum == CHOOSE g : g = [s \in SUBSET X |-> next(s, g)]
<1>1. HasOf(X, v) = sum[X]
  BY Zenon DEF HasOf, MapThenSumSet, MapThenFoldSet
<1>2. PICK h : Sum([s \in X |-> CountOf(call.begun[s], v)], X, h)
  BY SumExists
<1>3. \A g : g = [s \in SUBSET X |-> next(s, g)] <=> Sum([s \in X |-> CountOf(call.begun[s], v)], X, g)
  <2>1. ASSUME NEW s \in SUBSET X, NEW g
        PROVE  next(s, g) = IF s = {} THEN 0 ELSE [c \in X |-> CountOf(call.begun[c], v)][CHOOSE x \in s : TRUE] + g[s \ {CHOOSE x \in s : TRUE}]
    <3>1. CASE s = {}
      BY <3>1
    <3>2. CASE s # {}
      <4>1. (CHOOSE x \in s : TRUE) \in X
        BY <3>2
      <4> QED BY <3>2, <4>1
    <3> QED BY <3>1, <3>2
  <2> HIDE DEF next
  <2> QED BY <2>1 DEF Sum
<1>4. sum = [s \in SUBSET X |-> next(s, sum)]
  <2> HIDE DEF next
  <2>1. h = [s \in SUBSET X |-> next(s, h)]
    BY <1>2, <1>3, Zenon
  <2> QED BY <2>1, Zenon
<1>5. Sum([s \in X |-> CountOf(call.begun[s], v)], X, sum)
  <2> HIDE DEF next, sum
  <2> QED BY <1>3, <1>4
<1> HIDE DEF sum
<1> QED BY <1>1, <1>5

-----------------------------------------------------------------------------
(* The sharded store: summaries.                                           *)

\* A shard has said that it has so many spans of a service.
Says(s, v, n) == [service |-> v, count |-> n] \in TopOf(call.begun[s])

\* What some shards have said.
Told(S) == {c \in Counts : c.shard \in S /\ Says(c.shard, c.service, c.count)}

\* As long as nothing is stored meanwhile, a summary has what the shards said of what they
\* had when it began.
SummaryInv ==
  call.at # "idle" /\ call.op = "summary" /\ call.fresh = {} =>
    /\ call.at = "asking" => /\ call.begun = shardRows /\ call.counts = Told(Passed)
                             /\ \A s \in call.failed : s < call.next
    /\ call.at = "answered" => call.counts = Told(Shards \ call.failed)

\* A shard says of a service how many spans it has; of each if it may list as many.
LEMMA ToldIsTrue ==
  ASSUME NEW rows \in SUBSET ShardRows, NEW v, NEW n
  PROVE  /\ [service |-> v, count |-> n] \in TopOf(rows) => v \in Services /\ n = CountOf(rows, v) /\ n \in Nat /\ n > 0
         /\ v \in Services /\ CountOf(rows, v) > 0 /\ Cardinality(Services) <= TopServices =>
              [service |-> v, count |-> CountOf(rows, v)] \in TopOf(rows)
<1> DEFINE has == {w \in Services : CountOf(rows, w) > 0}
           more(w) == {x \in has : CountOf(rows, x) > CountOf(rows, w)}
           top == {w \in has : Cardinality(more(w)) < TopServices}
<1>1. TopOf(rows) = {[service |-> w, count |-> CountOf(rows, w)] : w \in top}
  BY DEF TopOf
<1>2. ASSUME NEW w PROVE CountOf(rows, w) \in Nat
  <2>1. {r \in rows : r.service = w} \in SUBSET rows
    OBVIOUS
  <2> QED BY <2>1, RowsFinite DEF CountOf
<1>3. ASSUME [service |-> v, count |-> n] \in TopOf(rows)
      PROVE  v \in Services /\ n = CountOf(rows, v) /\ n \in Nat /\ n > 0
  <2> HIDE DEF more
  <2>1. PICK w \in top : [service |-> v, count |-> n] = [service |-> w, count |-> CountOf(rows, w)]
    BY <1>1, <1>3
  <2>2. v = w /\ n = CountOf(rows, w)
    BY <2>1
  <2> QED BY <1>2, <2>2
<1>4. ASSUME v \in Services, CountOf(rows, v) > 0, Cardinality(Services) <= TopServices
      PROVE  [service |-> v, count |-> CountOf(rows, v)] \in TopOf(rows)
  <2>1. IsFiniteSet(Services) /\ Cardinality(Services) \in Nat
    <3> DEFINE f == [r \in ShardRows |-> r.service]
    <3>1. f \in Surjection(ShardRows, Services)
      BY DEF Services, Surjection
    <3> HIDE DEF f
    <3> QED BY <3>1, FanAssumption, FS_Surjection, FS_CardinalityType
  <2>2. more(v) \in SUBSET Services /\ v \notin more(v)
    BY <1>2
  <2> HIDE DEF more
  <2>3. Cardinality(more(v)) \in Nat /\ Cardinality(more(v)) < Cardinality(Services)
    BY <1>4, <2>1, <2>2, FS_Subset, FS_CardinalityType
  <2>4. v \in top
    BY <1>4, <2>1, <2>3, FanAssumption
  <2> QED BY <1>1, <2>4
<1> QED BY <1>3, <1>4

\* What a shard that is asked tells, and what an answer keeps of it.
LEMMA SummaryAsks ==
  ASSUME call \in Reads, GroupsInv, SummaryInv, call.op = "summary", Ask, call.fresh = {}
  PROVE  /\ call'.fresh = {} /\ call'.begun = shardRows' /\ call'.counts = Told(Passed)'
         /\ \A s \in call'.failed : s < call'.next
<1> DEFINE n == call.next
           counts == call.counts \cup {[shard |-> n, service |-> c.service, count |-> c.count] : c \in TopOf(shardRows[n])}
           rows == call.rows \cup Newest(shardRows[n], QueryLimit)
<1>1. /\ n \in Shards /\ call'.next = n + 1 /\ call'.begun = call.begun /\ call' \in Reads /\ call.at = "asking"
  BY AskSteps
<1>2. call.begun = shardRows /\ shardRows' = shardRows /\ call.counts = Told(Passed)
  BY <1>1 DEF SummaryInv, Ask
<1>3. \/ call' = [call EXCEPT !.next = n + 1, !.failed = @ \cup {n}]
      \/ call' = [call EXCEPT !.next = n + 1, !.rows = rows, !.counts = counts]
  BY DEF Ask
<1>4. CASE call' = [call EXCEPT !.next = n + 1, !.failed = @ \cup {n}]
  <2>1. call'.fresh = {} /\ call'.counts = call.counts /\ call'.failed = call.failed \cup {n}
    BY <1>4 DEF Reads
  <2>2. Passed' = Passed
    BY <1>1, <2>1 DEF Passed, Shards
  <2>3. \A s \in call'.failed : s < call'.next
    BY <1>1, <2>1 DEF SummaryInv, Shards, Reads
  <2> QED BY <1>1, <1>2, <2>1, <2>2, <2>3 DEF Told, Says
<1>5. CASE call' = [call EXCEPT !.next = n + 1, !.rows = rows, !.counts = counts]
  <2> HIDE DEF rows
  <2>1. call'.fresh = {} /\ call'.counts = counts /\ call'.failed = call.failed
    <3> HIDE DEF counts
    <3> QED BY <1>5 DEF Reads
  <2>2. \A s \in Shards : s \in Passed' <=> s \in Passed \/ (s = n /\ n \notin call.failed)
    BY <1>1, <2>1 DEF Passed, Shards
  <2>3. n \notin call.failed
    BY <1>1 DEF SummaryInv, Shards
  <2>4. \A c \in Counts : c \in counts <=> c \in Told(Passed) \/ (c.shard = n /\ Says(n, c.service, c.count))
    <3> SUFFICES ASSUME NEW c \in Counts
                 PROVE  c \in {[shard |-> n, service |-> d.service, count |-> d.count] : d \in TopOf(shardRows[n])}
                          <=> c.shard = n /\ [service |-> c.service, count |-> c.count] \in TopOf(shardRows[n])
      BY <1>2 DEF Says
    <3>1. \A d \in TopOf(shardRows[n]) : d = [service |-> d.service, count |-> d.count]
      <4>1. ASSUME NEW d \in TopOf(shardRows[n]) PROVE \E v, k : d = [service |-> v, count |-> k]
        <5> HIDE DEF CountOf
        <5> QED BY <4>1, Zenon DEF TopOf
      <4>2. ASSUME NEW d, NEW v, NEW k, d = [service |-> v, count |-> k] PROVE d = [service |-> d.service, count |-> d.count]
        BY <4>2
      <4> QED BY <4>1, <4>2
    <3>2. c = [shard |-> c.shard, service |-> c.service, count |-> c.count]
      BY DEF Counts
    <3> HIDE DEF TopOf
    <3>3. ASSUME NEW d \in TopOf(shardRows[n]), c = [shard |-> n, service |-> d.service, count |-> d.count]
          PROVE  c.shard = n /\ [service |-> c.service, count |-> c.count] \in TopOf(shardRows[n])
      <4>1. c.shard = n /\ c.service = d.service /\ c.count = d.count
        BY <3>3
      <4> QED BY <3>1, <4>1
    <3>4. ASSUME c.shard = n, [service |-> c.service, count |-> c.count] \in TopOf(shardRows[n])
          PROVE  \E d \in TopOf(shardRows[n]) : c = [shard |-> n, service |-> d.service, count |-> d.count]
      <4>1. PICK d \in TopOf(shardRows[n]) : d = [service |-> c.service, count |-> c.count]
        BY <3>4
      <4>2. d.service = c.service /\ d.count = c.count
        BY <4>1
      <4> QED BY <3>2, <3>4, <4>2
    <3> QED BY <3>3, <3>4
  <2>5. counts \in SUBSET Counts
    <3>1. call'.counts \in SUBSET Counts /\ call'.counts = counts
      <4> HIDE DEF counts
      <4> QED BY <1>1, <1>5 DEF Reads
    <3> QED BY <3>1
  <2> HIDE DEF counts
  <2>6. Told(Passed)' = {c \in Counts : c.shard \in Passed' /\ Says(c.shard, c.service, c.count)}
    BY <1>1, <1>2 DEF Told, Says
  <2>7. Told(Passed) = {c \in Counts : c.shard \in Passed /\ Says(c.shard, c.service, c.count)}
    BY DEF Told
  <2>8. \A c \in Counts : c.shard \in Shards
    BY DEF Counts
  <2>9. Told(Passed)' = counts
    <3>1. \A c \in Counts : c \in Told(Passed)' <=> c \in counts
      BY <2>2, <2>3, <2>4, <2>6, <2>7, <2>8
    <3> QED BY <2>5, <2>6, <3>1
  <2>10. \A s \in call'.failed : s < call'.next
    BY <1>1, <2>1, <2>3 DEF SummaryInv, Shards, Reads
  <2> QED BY <1>1, <1>2, <2>1, <2>9, <2>10
<1> QED BY <1>3, <1>4, <1>5

\* A summary is of what the shards had that answered, as long as nothing comes in between.
LEMMA SummaryStep ==
  ASSUME GroupsInv, ReadShape, SummaryInv, [FanNext]_fanVars
  PROVE  SummaryInv'
<1>1. ASSUME NEW op \in {"query", "summary", "trace"}, NEW t \in Traces \cup {"all"}, NEW first \in {0, 1},
             call' = Asking(op, t, first), shardRows' = shardRows, op # "trace" => first = 1
      PROVE  SummaryInv'
  <2>1. /\ call'.begun = shardRows /\ call'.counts = {} /\ call'.failed = {} /\ call'.at = "asking" /\ call'.op = op
        /\ call'.next = first
    BY <1>1 DEF Asking
  <2>2. op = "summary" => Passed' = {}
    BY <1>1, <2>1 DEF Passed, Shards
  <2> QED BY <1>1, <2>1, <2>2 DEF SummaryInv, Told
<1>2. ASSUME NEW op \in {"query", "summary"}, BeginRead(op) PROVE SummaryInv'
  BY <1>1, <1>2 DEF BeginRead
<1>3. ASSUME NEW t \in Traces, BeginTrace(t) PROVE SummaryInv'
  BY <1>1, <1>3 DEF BeginTrace
<1>4. CASE Ask
  <2>1. call \in Reads
    BY <1>4, ReadFields DEF Ask
  <2>2. call'.op = call.op /\ call'.at = "asking"
    BY <1>4, <2>1, AskSteps
  <2>3. call'.fresh = call.fresh
    BY <1>4, <2>1 DEF Ask, Reads
  <2> QED BY <1>4, <2>1, <2>2, <2>3, SummaryAsks DEF SummaryInv
<1>5. CASE Gather
  <2>1. call \in Reads
    BY <1>5, ReadFields DEF Gather
  <2>2. /\ call'.op = call.op /\ call'.begun = call.begun /\ call'.failed = call.failed
        /\ call.at = "asking" /\ call.next = NumShards + 1 /\ call'.at \in {"answered", "error"}
    BY <1>5, <2>1, GatherSteps
  <2>3. call'.fresh = call.fresh /\ call'.counts = call.counts
    BY <1>5, <2>1 DEF Gather, Reads
  <2>4. Passed = Shards \ call.failed
    BY <2>2, FanAssumption DEF Passed, Shards
  <2> QED BY <2>1, <2>2, <2>3, <2>4 DEF SummaryInv, Told, Says
<1>6. CASE AskOwner \/ AskOthers
  <2>1. call \in Reads /\ call.trace \in Traces
    BY <1>6, ReadFields DEF AskOwner, AskOthers
  <2>2. call'.op = "trace"
    BY <1>6, <2>1, OwnerSteps, OthersSteps
  <2> QED BY <2>2 DEF SummaryInv
<1>7. ASSUME NEW b \in Batches, NEW s \in Shards, SendGroup(b, s) PROVE SummaryInv'
  <2>1. CASE call.at = "asking"
    <3>1. call \in Reads
      BY <2>1, ReadFields
    <3> DEFINE group == Group(b, s)
    <3>2. call' = [call EXCEPT !.fresh = @ \cup group] /\ shardRows' = [shardRows EXCEPT ![s] = @ \cup group]
      BY <1>7, <2>1 DEF SendGroup
    <3> HIDE DEF group
    <3>3. /\ call'.fresh = call.fresh \cup group /\ call'.at = call.at /\ call'.op = call.op /\ call'.begun = call.begun
          /\ call'.counts = call.counts /\ call'.failed = call.failed /\ call'.next = call.next
      BY <3>1, <3>2 DEF Reads
    <3>4. call'.fresh = {} => call.fresh = {} /\ shardRows' = shardRows
      BY <3>2, <3>3 DEF GroupsInv
    <3> QED BY <2>1, <3>3, <3>4 DEF SummaryInv, Told, Says, Passed
  <2>2. CASE call.at # "asking"
    <3>1. call' = call
      BY <1>7, <2>2 DEF SendGroup
    <3> QED BY <2>2, <3>1 DEF SummaryInv, Told, Says
  <2> QED BY <2>1, <2>2
<1>8. CASE UNCHANGED <<shardRows, call>>
  BY <1>8 DEF SummaryInv, Told, Says, Passed
<1>9. CASE \/ \E b \in Batches : BeginInsert(b) \/ \E s \in Shards : SendFails(b, s)
           \/ \E s \in Shards : ShardFails(s) \/ ShardReturns(s)
           \/ UNCHANGED fanVars
  <2>1. UNCHANGED <<shardRows, call>>
    BY <1>9 DEF BeginInsert, SendFails, ShardFails, ShardReturns, fanVars
  <2> QED BY <1>8, <2>1
<1> QED BY <1>2, <1>3, <1>4, <1>5, <1>6, <1>7, <1>9 DEF FanNext

\* A summary that nothing came in between adds up the spans of the shards that answered.
LEMMA SummaryAddsUp ==
  ASSUME SummaryInv, ReadShape
  PROVE  CountsAddUp
<1> SUFFICES ASSUME Answered("summary"), call.fresh = {}, NEW v \in Services
             PROVE  LET there == HasOf(Shards \ call.failed, v)
                    IN  /\ Merged(v) <= there
                        /\ Cardinality(Services) <= TopServices => Merged(v) = there
  BY Zenon DEF CountsAddUp, HasOf
<1> DEFINE S == Shards \ call.failed
           there == HasOf(S, v)
           X == {c \in call.counts : c.service = v}
           rows(s) == {r \in call.begun[s] : r.service = v}
           of(s) == {s} \X rows(s)
           heard == UNION {of(c.shard) : c \in X}
           held == UNION {of(s) : s \in S}
<1>1. call \in Reads /\ call.at = "answered" /\ call.op = "summary" /\ call.counts = Told(S)
  <2>1. call.at = "answered" /\ call.op = "summary"
    BY DEF Answered
  <2> QED BY <2>1, ReadFields DEF SummaryInv
<1>2. /\ IsFiniteSet(Shards) /\ \A s \in Shards : call.begun[s] \in SUBSET ShardRows /\ rows(s) \in SUBSET call.begun[s]
  <2>1. NumShards \in Int /\ 1 \in Int
    BY FanAssumption
  <2>2. IsFiniteSet(1 .. NumShards)
    BY <2>1, FS_Interval
  <2>3. \A s \in Shards : call.begun[s] \in SUBSET ShardRows
    BY <1>1 DEF Reads
  <2> QED BY <2>2, <2>3 DEF Shards
<1>3. ASSUME NEW s \in Shards
      PROVE  /\ IsFiniteSet(of(s)) /\ CountOf(call.begun[s], v) = Cardinality(of(s)) /\ Cardinality(of(s)) \in Nat
             /\ \A t \in Shards : s # t => of(s) \cap of(t) = {}
  <2>1. IsFiniteSet(rows(s)) /\ Cardinality(rows(s)) \in Nat /\ CountOf(call.begun[s], v) = Cardinality(rows(s))
    BY <1>2, RowsFinite DEF CountOf
  <2> HIDE DEF rows
  <2>2. IsFiniteSet({s}) /\ Cardinality({s}) = 1
    BY FS_Singleton
  <2>3. IsFiniteSet(of(s)) /\ Cardinality(of(s)) = Cardinality({s}) * Cardinality(rows(s))
    BY <2>1, <2>2, FS_Product
  <2>4. Cardinality(of(s)) = Cardinality(rows(s))
    BY <2>1, <2>2, <2>3
  <2>5. \A t \in Shards : s # t => of(s) \cap of(t) = {}
    OBVIOUS
  <2> QED BY <2>1, <2>3, <2>4, <2>5
<1>4. ASSUME NEW c \in X
      PROVE  /\ c \in Counts /\ c.shard \in S /\ c.service = v /\ c.count = CountOf(call.begun[c.shard], v)
  <2>1. c \in Counts /\ c.shard \in S /\ c.service = v /\ Says(c.shard, v, c.count)
    BY <1>1 DEF Told
  <2> QED BY <1>2, <2>1, ToldIsTrue DEF Says
<1>5. \A c, d \in X : c.shard = d.shard => c = d
  <2>1. \A c \in Counts : c = [shard |-> c.shard, service |-> c.service, count |-> c.count]
    BY DEF Counts
  <2> HIDE DEF X
  <2> QED BY <1>4, <2>1
<1>6. IsFiniteSet(X)
  <2> DEFINE f == [c \in X |-> c.shard]
  <2>1. f \in [X -> Shards]
    BY <1>4
  <2>2. f \in Injection(X, Shards)
    <3> HIDE DEF X
    <3> QED BY <1>5, <2>1 DEF Injection, IsInjective
  <2> HIDE DEF f, X
  <2> QED BY <1>2, <2>2, FS_Injection
<1>7. IsFiniteSet(heard) /\ Merged(v) = Cardinality(heard)
  <2> DEFINE f == [c \in X |-> c.count]
             part == [c \in X |-> of(c.shard)]
  <2>1. PICK g : Sum(f, X, g) /\ Merged(v) = g[X]
    BY <1>6, MergedSum
  <2> HIDE DEF of, X
  <2>2. \A c \in X : IsFiniteSet(part[c]) /\ f[c] = Cardinality(part[c])
    BY <1>3, <1>4
  <2>3. \A c, d \in X : c # d => part[c] \cap part[d] = {}
    BY <1>3, <1>4, <1>5
  <2>4. UNION {part[c] : c \in X} = heard
    OBVIOUS
  <2> HIDE DEF f, part, heard
  <2> QED BY <1>6, <2>1, <2>2, <2>3, <2>4, SumIsSize
<1>8. IsFiniteSet(held) /\ there = Cardinality(held)
  <2> DEFINE f == [s \in S |-> CountOf(call.begun[s], v)]
             part == [s \in S |-> of(s)]
  <2>0. IsFiniteSet(S)
    BY <1>2, FS_Subset
  <2>1. PICK g : Sum(f, S, g) /\ there = g[S]
    BY <2>0, ThereSum
  <2> HIDE DEF of, there
  <2>2. \A s \in S : IsFiniteSet(part[s]) /\ f[s] = Cardinality(part[s])
    BY <1>3
  <2>3. \A s, t \in S : s # t => part[s] \cap part[t] = {}
    BY <1>3
  <2>4. UNION {part[s] : s \in S} = held
    <3>1. \A s \in S : part[s] = of(s)
      OBVIOUS
    <3> HIDE DEF S, part
    <3> QED BY <3>1
  <2> HIDE DEF f, part, held, S
  <2> QED BY <2>0, <2>1, <2>2, <2>3, <2>4, SumIsSize
<1>9. heard \in SUBSET held
  <2> HIDE DEF of, X
  <2> QED BY <1>4
<1>10. ASSUME Cardinality(Services) <= TopServices PROVE held \subseteq heard
  <2> SUFFICES ASSUME NEW s \in S, NEW p \in of(s) PROVE \E c \in X : p \in of(c.shard)
    OBVIOUS
  <2>1. CountOf(call.begun[s], v) \in Nat /\ CountOf(call.begun[s], v) > 0
    <3>1. of(s) # {} /\ IsFiniteSet(of(s)) /\ Cardinality(of(s)) \in Nat /\ CountOf(call.begun[s], v) = Cardinality(of(s))
      BY <1>3
    <3> HIDE DEF of
    <3>2. Cardinality(of(s)) # 0
      BY <3>1, FS_EmptySet
    <3> QED BY <3>1, <3>2
  <2> DEFINE n == CountOf(call.begun[s], v)
             c == [shard |-> s, service |-> v, count |-> n]
  <2>2. Says(s, v, n)
    BY <1>2, <1>10, <2>1, ToldIsTrue DEF Says
  <2> HIDE DEF n
  <2>3. c \in Counts /\ c.shard = s /\ c.service = v /\ c.count = n
    BY <2>1 DEF Counts, n
  <2>4. c \in Told(S)
    <3> HIDE DEF c
    <3> QED BY <2>2, <2>3 DEF Told
  <2>5. c \in X /\ p \in of(c.shard)
    <3> HIDE DEF c, of
    <3> QED BY <1>1, <2>3, <2>4
  <2> HIDE DEF c, of, X
  <2> QED BY <2>5
<1> HIDE DEF heard, held, there
<1>11. Merged(v) <= there /\ (Cardinality(Services) <= TopServices => Merged(v) = there)
  <2>1. Cardinality(heard) <= Cardinality(held)
    BY <1>8, <1>9, FS_Subset
  <2> QED BY <1>7, <1>8, <1>9, <1>10, <2>1
<1> QED BY <1>11 DEF there

-----------------------------------------------------------------------------
(* The sharded store: theorems.                                            *)

FanInv == GroupsInv /\ ReadInv /\ SummaryInv

\* Groups are stored whole, and a read knows what it has yet to ask.
THEOREM FanInvariant == FanSpec => []FanInv
<1>1. FanInit => FanInv
  <2> SUFFICES ASSUME FanInit PROVE FanInv
    OBVIOUS
  <2>1. ASSUME NEW s \in Shards PROVE shardRows[s] \in SUBSET ShardRows /\ shardRows[s] \subseteq StrayRows
    <3>1. shardRows[s] = {x.row : x \in {y \in Strays : y.at = s}}
      BY DEF FanInit
    <3> QED BY <3>1, FanAssumption DEF StrayRows
  <2>2. shardRows \in [Shards -> SUBSET ShardRows]
    <3>1. shardRows = [s \in Shards |-> {x.row : x \in {y \in Strays : y.at = s}}]
      BY DEF FanInit
    <3> QED BY <2>1, <3>1
  <2>3. batch = [b \in Batches |-> [at |-> "new", left |-> {}]]
    BY DEF FanInit
  <2>4. batch \in [Batches -> InsertAt] /\ \A b \in Batches : batch[b].at = "new"
    BY <2>3 DEF InsertAt
  <2>5. GroupsInv
    BY <2>1, <2>2, <2>4 DEF GroupsInv
  <2>6. ReadInv
    BY DEF FanInit, Idle, ReadInv, ReadShape, AskingInv, NewestAreReturned, ReadsTolerateShards, TracesAreFound, Answered
  <2>7. SummaryInv
    BY DEF FanInit, Idle, SummaryInv
  <2> QED BY <2>5, <2>6, <2>7 DEF FanInv
<1>2. FanInv /\ [FanNext]_fanVars => FanInv'
  BY WrittenStep, ReadStep, SummaryStep DEF FanInv, ReadInv
<1> QED BY <1>1, <1>2, PTL DEF FanSpec

\* A sharded store keeps the spans that an insert has of a trace together, and answers with
\* the newest rows, and with traces that are somewhere, as far as its shards answer.
THEOREM ShardsRight == FanSpec => []ShardsAreRight
<1>1. FanInv => ShardsAreRight
  BY WrittenTogether DEF FanInv, ReadInv, ShardsAreRight
<1> QED BY <1>1, FanInvariant, PTL

\* A summary (merge_summaries, fanout.rs) counts no span twice, and if shards list all of
\* their services it has all the spans of the shards that answered.
THEOREM SummariesAddUp == FanSpec => []CountsAddUp
<1>1. FanInv => CountsAddUp
  BY SummaryAddsUp DEF FanInv, ReadInv
<1> QED BY <1>1, FanInvariant, PTL

\* Inserts go to shards there are, and what is written is where it is looked for first.
THEOREM FanTypes == FanSpec => []FanTypeOK
<1>1. FanInv => FanTypeOK
  <2> SUFFICES ASSUME FanInv PROVE FanTypeOK
    OBVIOUS
  <2>1. \A b \in Batches : batch[b].left \subseteq Shards
    BY DEF FanInv, GroupsInv, InsertAt
  <2>2. \A s \in Shards : \A r \in shardRows[s] : OwnerOf[r.trace] = s \/ \E x \in Strays : x.row = r
    BY DEF FanInv, GroupsInv, StrayRows, Home
  <2>3. call.at = "asking" => call.next \in 0 .. NumShards + 1
    BY DEF FanInv, ReadInv, ReadShape, Reads, Idle
  <2> QED BY <2>1, <2>2, <2>3 DEF FanTypeOK
<1> QED BY <1>1, FanInvariant, PTL

-----------------------------------------------------------------------------
(* The suites: rows and texts.                                             *)

Pins(rows) == Elements(rows.snapshots)

\* Rows as pushes and snapshots leave them.
GoodRows ==
  {rows \in [cases : CaseSets, snapshots : Seq(CaseSets)] :
     /\ \A cases \in {rows.cases} \cup Pins(rows) : Consistent(cases)
     /\ \A i, j \in 1 .. Len(rows.snapshots) : rows.snapshots[i] = rows.snapshots[j] => i = j}

SuiteTexts  == [is : {"whole", "empty", "mixed"}, rows : GoodRows]
SuiteStages == {"none", "clone", "open", "fill", "rename", "saved", "failed"}
SuiteSaves  == [at : SuiteStages, rows : GoodRows, on : {"nothing", "tmp", "file"}]

\* The variables hold what they are meant to.
SuiteShapes ==
  /\ suite \in GoodRows /\ file \in SuiteTexts
  /\ tmp = {} \/ \E t \in SuiteTexts : tmp = {t}
  /\ save \in [Clients -> SuiteSaves]
  /\ running \in BOOLEAN /\ (running \/ suite = NoSuite)

\* A client has one request at a time; the snapshot it waits for is in the table.
AsksOK ==
  /\ DOMAIN asked = Clients /\ (~running => \A c \in Clients : asked[c] = Nothing)
  /\ \A c \in Clients :
       \/ asked[c] = Nothing /\ save[c].at = "none"
       \/ asked[c].what = "push" /\ save[c].at # "none"
       \/ asked[c].what = "snapshot" /\ asked[c].cases \in Pins(suite) /\ save[c].at # "none"

\* The snapshot that the save of a client will confirm; what is confirmed, or will be by an answer.
Waits(c) == IF asked[c].what = "snapshot" THEN {asked[c].cases} ELSE {}
Settled  == pinned \cup UNION {Waits(c) : c \in {d \in Clients : save[d].at = "saved"}}

\* The text a save will put in place holds some snapshots.
WillPin(c, some) ==
  \/ save[c].at = "open" /\ some \subseteq Pins(save[c].rows)
  \/ save[c].at = "fill" /\ save[c].on = "tmp" /\ tmp = {File!Empty} /\ some \subseteq Pins(save[c].rows)
  \/ save[c].at = "rename" /\ \E rows \in GoodRows : tmp = {File!Whole(rows)} /\ some \subseteq Pins(rows)

\* While saves come one after the other, each holds all that is confirmed or will be.
PinnedOK ==
  ~overlapped =>
    /\ file.is = "whole" /\ Settled \subseteq Pins(file.rows)
    /\ running => pinned \subseteq Pins(suite)
    /\ \A c, d \in Clients : File!Saving(c) /\ File!Saving(d) => c = d
    /\ \A c \in Clients : File!Saving(c) => WillPin(c, Settled \cup Waits(c))

SuiteInv == SuiteShapes /\ AsksOK /\ PinnedOK

\* A suite that is missing is in order.
LEMMA NoSuiteGood == NoSuite \in GoodRows /\ Pins(NoSuite) = {}
<1>1. <<>> \in CaseSets
  <2>1. <<>> \in [1 .. 0 -> Refs]
    OBVIOUS
  <2>2. 0 \in 0 .. MaxCases
    BY SuitesAssumption DEF SuitesAssumption
  <2> QED BY <2>1, <2>2 DEF CaseSets
<1>2. NoSuite.cases = <<>> /\ NoSuite.snapshots = <<>>
  BY DEF NoSuite
<1>3. NoSuite \in [cases : CaseSets, snapshots : Seq(CaseSets)]
  BY <1>1 DEF NoSuite
<1>4. Elements(<<>>) = {} /\ Len(<<>>) = 0
  BY DEF Elements
<1>5. Consistent(<<>>)
  BY <1>4 DEF Consistent
<1> QED BY <1>2, <1>3, <1>4, <1>5 DEF GoodRows, Pins

\* A push replaces the working set only.
LEMMA PushGood ==
  ASSUME NEW rows \in GoodRows, NEW cases \in CaseSets, Consistent(cases)
  PROVE  [rows EXCEPT !.cases = cases] \in GoodRows /\ Pins([rows EXCEPT !.cases = cases]) = Pins(rows)
<1> DEFINE new == [rows EXCEPT !.cases = cases]
<1>1. new \in [cases : CaseSets, snapshots : Seq(CaseSets)] /\ new.cases = cases /\ new.snapshots = rows.snapshots
  BY DEF GoodRows
<1> HIDE DEF new
<1>2. new \in GoodRows /\ Pins(new) = Pins(rows)
  BY <1>1 DEF GoodRows, Pins
<1> QED BY <1>2 DEF new

\* A snapshot that is new comes last.
LEMMA FreezeGood ==
  ASSUME NEW rows \in GoodRows, rows.cases \notin Pins(rows)
  PROVE  /\ [rows EXCEPT !.snapshots = Freeze(@, rows.cases)] \in GoodRows
         /\ [rows EXCEPT !.snapshots = Freeze(@, rows.cases)].snapshots = Append(rows.snapshots, rows.cases)
         /\ Pins([rows EXCEPT !.snapshots = Freeze(@, rows.cases)]) = Pins(rows) \cup {rows.cases}
<1> DEFINE new == [rows EXCEPT !.snapshots = Freeze(@, rows.cases)]
           old == rows.snapshots
           n == Len(old)
<1>1. rows \in [cases : CaseSets, snapshots : Seq(CaseSets)]
  BY DEF GoodRows
<1>2. /\ new \in [cases : CaseSets, snapshots : Seq(CaseSets)] /\ new.cases = rows.cases
      /\ new.snapshots = Append(old, rows.cases)
  BY <1>1 DEF Freeze
<1>3. /\ n \in Nat /\ Len(new.snapshots) = n + 1 /\ new.snapshots[n + 1] = rows.cases
      /\ \A i \in 1 .. n : new.snapshots[i] = old[i]
  BY <1>1, <1>2
<1>4. Pins(new) = Pins(rows) \cup {rows.cases}
  BY <1>3 DEF Pins, Elements
<1>5. \A i, j \in 1 .. n + 1 : new.snapshots[i] = new.snapshots[j] => i = j
  BY <1>3 DEF Pins, Elements, GoodRows
<1> HIDE DEF new
<1>6. new \in GoodRows
  BY <1>2, <1>3, <1>4, <1>5 DEF GoodRows
<1> QED BY <1>2, <1>4, <1>6 DEF new

\* What a save of good rows writes.
LEMMA SuiteTextTypes ==
  /\ \A rows : File!Whole(rows).is = "whole" /\ File!Whole(rows).rows = rows
  /\ \A rows \in GoodRows : File!Whole(rows) \in SuiteTexts /\ File!Whole(rows) # File!Empty
  /\ File!Empty \in SuiteTexts /\ File!Mixed \in SuiteTexts
  /\ \A at \in SuiteStages : File!At(at) \in SuiteSaves /\ File!At(at).at = at /\ File!At(at).on = "nothing"
<1>1. NoSuite \in GoodRows
  BY NoSuiteGood
<1>2. /\ \A rows : File!Whole(rows).is = "whole" /\ File!Whole(rows).rows = rows
      /\ \A rows \in GoodRows : File!Whole(rows) \in SuiteTexts /\ File!Whole(rows) # File!Empty
  BY DEF File!Whole, File!Empty, SuiteTexts
<1>3. File!Empty \in SuiteTexts /\ File!Mixed \in SuiteTexts
  BY <1>1 DEF File!Empty, File!Mixed, SuiteTexts
<1> QED BY <1>1, <1>2, <1>3 DEF File!At, SuiteSaves

\* A text that is written over another is the new one, or a mixture that no process loads.
LEMMA SuiteWritten ==
  ASSUME NEW rows \in GoodRows, NEW old, NEW text \in File!Written(old, rows)
  PROVE  text \in SuiteTexts /\ (old = File!Empty => text = File!Whole(rows))
  BY SuiteTextTypes DEF File!Written

\* The steps of one save: what they leave of every save.
LEMMA SuiteSaveViews ==
  ASSUME SuiteShapes, NEW c \in Clients
  PROVE  /\ File!Clone(c) =>
              /\ save[c].at = "clone" /\ save'[c] \in SuiteSaves
              /\ save'[c].at = "open" /\ save'[c].rows = suite
              /\ \A d \in Clients \ {c} : save'[d] = save[d]
         /\ File!OpenTmp(c) =>
              /\ save[c].at = "open" /\ save'[c].at = "fill" /\ save'[c].rows = save[c].rows
              /\ save'[c].on = "tmp" /\ save'[c] \in SuiteSaves
              /\ \A d \in Clients \ {c} : save'[d] = save[d]
         /\ File!Fill(c) =>
              /\ save[c].at = "fill" /\ save'[c] = File!At("rename")
              /\ \A d \in Clients \ {c} : save'[d] = save[d]
         /\ File!Rename(c) =>
              /\ save[c].at = "rename" /\ save'[c] \in {File!At("saved"), File!At("failed")}
              /\ \A d \in Clients \ {c} : save'[d].at = save[d].at /\ save'[d] \in SuiteSaves
         /\ File!SaveFails(c) =>
              /\ File!Saving(c) /\ save'[c] = File!At("failed")
              /\ \A d \in Clients \ {c} : save'[d] = save[d]
         /\ File!SaveStep(c) => DOMAIN save' = Clients /\ save' = [d \in Clients |-> save'[d]]
<1> USE DEF SuiteShapes
<1>1. ASSUME File!OpenTmp(c)
      PROVE /\ save'[c].at = "fill" /\ save'[c].rows = save[c].rows
            /\ save'[c].on = "tmp" /\ save'[c] \in SuiteSaves
  <2>1. PICK a \in SuiteStages, t \in GoodRows, o \in {"nothing", "tmp", "file"} :
          save[c] = [at |-> a, rows |-> t, on |-> o]
    BY DEF SuiteSaves
  <2>2. save'[c] = [at |-> "fill", rows |-> t, on |-> "tmp"]
    <3>1. save' = [save EXCEPT ![c].at = "fill", ![c].on = "tmp"] /\ c \in DOMAIN save
      BY <1>1 DEF File!OpenTmp
    <3> DEFINE opened == [save EXCEPT ![c].at = "fill"]
    <3>2. opened[c] = [at |-> "fill", rows |-> t, on |-> o] /\ c \in DOMAIN opened
      BY <2>1, <3>1
    <3>3. save' = [opened EXCEPT ![c].on = "tmp"]
      BY <3>1
    <3> HIDE DEF opened
    <3>4. save'[c] = [opened[c] EXCEPT !.on = "tmp"]
      BY <3>2, <3>3
    <3> QED BY <3>2, <3>4
  <2> QED BY <2>1, <2>2 DEF SuiteSaves, SuiteStages
<1>2. ASSUME File!Rename(c), NEW d \in Clients \ {c}
      PROVE save'[d].at = save[d].at /\ save'[d] \in SuiteSaves
  <2>1. CASE tmp = {}
    BY <1>2, <2>1 DEF File!Rename
  <2>2. CASE tmp # {}
    <3>1. PICK a \in SuiteStages, t \in GoodRows, o \in {"nothing", "tmp", "file"} :
            save[d] = [at |-> a, rows |-> t, on |-> o]
      BY DEF SuiteSaves
    <3>2. save'[d] = [save[d] EXCEPT !.on = File!Moved(@)]
      BY <1>2, <2>2 DEF File!Rename
    <3>3. File!Moved(o) \in {"nothing", "tmp", "file"}
      BY DEF File!Moved
    <3>4. save'[d] = [at |-> a, rows |-> t, on |-> File!Moved(o)]
      BY <3>1, <3>2
    <3> QED BY <3>1, <3>3, <3>4 DEF SuiteSaves
  <2> QED BY <2>1, <2>2
<1>3. File!Rename(c) => save[c].at = "rename" /\ save'[c] \in {File!At("saved"), File!At("failed")}
  BY DEF File!Rename
<1>4. File!SaveStep(c) => DOMAIN save' = Clients /\ save' = [d \in Clients |-> save'[d]]
  BY DEF File!SaveStep, File!Clone, File!OpenTmp, File!Fill, File!Rename, File!SaveFails
<1>5. ASSUME File!Clone(c)
      PROVE  save'[c] \in SuiteSaves /\ save'[c].at = "open" /\ save'[c].rows = suite
  <2>1. save'[c] = [at |-> "open", rows |-> suite, on |-> "nothing"]
    BY <1>5 DEF File!Clone
  <2> QED BY <2>1 DEF SuiteSaves, SuiteStages
<1> QED BY <1>1, <1>2, <1>3, <1>4, <1>5 DEF File!Clone, File!OpenTmp, File!Fill, File!SaveFails

\* A step of a save touches neither the table nor the requests.
LEMMA SuiteSaveLeaves ==
  ASSUME NEW c \in Clients, SaveSuites(c)
  PROVE  File!SaveStep(c) /\ running /\ UNCHANGED <<suite, asked, pinned, running>>
  BY DEF SaveSuites, File!SaveStep, File!Clone, File!OpenTmp, File!Fill, File!Rename, File!SaveFails

\* The steps of one save keep every text in order.
LEMMA SuiteSaveShapes ==
  ASSUME SuiteShapes, NEW c \in Clients, SaveSuites(c)
  PROVE  SuiteShapes'
<1> USE DEF SuiteShapes
<1>1. UNCHANGED <<suite, running>> /\ File!SaveStep(c)
  BY SuiteSaveLeaves
<1>2. \A d \in Clients : save'[d] \in SuiteSaves
  <2>1. ASSUME NEW d \in Clients \ {c} PROVE save'[d] \in SuiteSaves
    BY <1>1, SuiteSaveViews DEF File!SaveStep
  <2>2. save'[c] \in SuiteSaves
    <3>1. \A at \in {"rename", "saved", "failed"} : File!At(at) \in SuiteSaves
      BY SuiteTextTypes DEF SuiteStages
    <3> QED BY <1>1, <3>1, SuiteSaveViews DEF File!SaveStep
  <2> QED BY <2>1, <2>2
<1>3. save' \in [Clients -> SuiteSaves]
  BY <1>1, <1>2, SuiteSaveViews
<1>4. file' \in SuiteTexts /\ (tmp' = {} \/ \E t \in SuiteTexts : tmp' = {t})
  <2>1. CASE File!Fill(c)
    <3>1. save[c].rows \in GoodRows
      BY DEF SuiteSaves
    <3> QED BY <2>1, <3>1, SuiteWritten DEF File!Fill
  <2>2. CASE File!Rename(c)
    BY <2>2 DEF File!Rename
  <2>3. CASE File!Clone(c) \/ File!OpenTmp(c) \/ File!SaveFails(c)
    BY <2>3, SuiteTextTypes DEF File!Clone, File!OpenTmp, File!SaveFails
  <2> QED BY <1>1, <2>1, <2>2, <2>3 DEF File!SaveStep
<1> QED BY <1>1, <1>3, <1>4

\* A client whose save begins.
LEMMA SuiteSaveBegins ==
  ASSUME SuiteShapes, NEW c \in Clients, save' = [save EXCEPT ![c].at = "clone"]
  PROVE  /\ save' \in [Clients -> SuiteSaves] /\ save'[c].at = "clone"
         /\ \A d \in Clients \ {c} : save'[d] = save[d]
<1>1. PICK a \in SuiteStages, t \in GoodRows, o \in {"nothing", "tmp", "file"} :
        save[c] = [at |-> a, rows |-> t, on |-> o]
  BY DEF SuiteSaves, SuiteShapes
<1>2. save'[c] = [at |-> "clone", rows |-> t, on |-> o]
  BY <1>1 DEF SuiteShapes
<1>3. save'[c] \in SuiteSaves /\ save'[c].at = "clone"
  BY <1>1, <1>2 DEF SuiteSaves, SuiteStages
<1> QED BY <1>3 DEF SuiteShapes

\* What becomes of the table.
LEMMA SuiteGrows ==
  ASSUME SuiteShapes, [SuiteNext]_suiteVars
  PROVE  /\ suite' \in GoodRows /\ running' \in BOOLEAN /\ (running' \/ suite' = NoSuite)
         /\ running /\ running' =>
              /\ Pins(suite) \subseteq Pins(suite')
              /\ \/ suite'.snapshots = suite.snapshots
                 \/ suite'.snapshots = Append(suite.snapshots, suite.cases)
<1> USE DEF SuiteShapes
<1>1. ASSUME NEW c \in Clients, NEW cases \in CaseSets, Push(c, cases)
      PROVE  suite' \in GoodRows /\ Pins(suite) = Pins(suite') /\ suite'.snapshots = suite.snapshots /\ running'
  <2>1. suite' = [suite EXCEPT !.cases = cases] /\ Consistent(cases)
    BY <1>1 DEF Push
  <2>2. suite \in [cases : CaseSets, snapshots : Seq(CaseSets)]
    BY DEF GoodRows
  <2>3. suite'.snapshots = suite.snapshots
    BY <2>1, <2>2
  <2> QED BY <1>1, <2>1, <2>3, PushGood DEF Push
<1>2. ASSUME NEW c \in Clients, Snapshot(c)
      PROVE  /\ suite' \in GoodRows /\ Pins(suite) \subseteq Pins(suite') /\ running'
             /\ \/ suite'.snapshots = suite.snapshots
                \/ suite'.snapshots = Append(suite.snapshots, suite.cases)
  <2>1. CASE suite.cases \in Pins(suite)
    BY <1>2, <2>1 DEF Snapshot, Pins
  <2>2. CASE suite.cases \notin Pins(suite)
    <3>1. suite' = [suite EXCEPT !.snapshots = Freeze(@, suite.cases)]
      BY <1>2, <2>2 DEF Snapshot, Pins
    <3> QED BY <1>2, <2>2, <3>1, FreezeGood DEF Snapshot
  <2> QED BY <2>1, <2>2
<1>3. CASE SuiteCrash
  BY <1>3, NoSuiteGood DEF SuiteCrash
<1>4. CASE SuiteOpen
  BY <1>4 DEF SuiteOpen, File!Loads, SuiteTexts
<1>5. ASSUME NEW c \in Clients, SaveSuites(c) \/ AnswerSuite(c) PROVE UNCHANGED <<suite, running>>
  BY <1>5, SuiteSaveLeaves DEF AnswerSuite
<1>6. CASE UNCHANGED suiteVars
  BY <1>6 DEF suiteVars
<1> QED BY <1>1, <1>2, <1>3, <1>4, <1>5, <1>6 DEF SuiteNext

\* Every step keeps rows and texts in order.
LEMMA SuiteShapesStep ==
  ASSUME SuiteShapes, [SuiteNext]_suiteVars
  PROVE  SuiteShapes'
<1>1. suite' \in GoodRows /\ running' \in BOOLEAN /\ (running' \/ suite' = NoSuite)
  BY SuiteGrows
<1>2. ASSUME UNCHANGED <<file, tmp>>, save' \in [Clients -> SuiteSaves] PROVE SuiteShapes'
  BY <1>1, <1>2 DEF SuiteShapes
<1>3. ASSUME NEW c \in Clients, NEW cases \in CaseSets, Push(c, cases) PROVE SuiteShapes'
  BY <1>2, <1>3, SuiteSaveBegins DEF Push
<1>4. ASSUME NEW c \in Clients, Snapshot(c) PROVE SuiteShapes'
  <2>1. save' = save \/ save' = [save EXCEPT ![c].at = "clone"]
    BY <1>4 DEF Snapshot
  <2>2. save' \in [Clients -> SuiteSaves]
    BY <2>1, SuiteSaveBegins DEF SuiteShapes
  <2> QED BY <1>2, <1>4, <2>2 DEF Snapshot
<1>5. ASSUME NEW c \in Clients, AnswerSuite(c) PROVE SuiteShapes'
  <2>1. save' = [save EXCEPT ![c] = File!At("none")] /\ File!At("none") \in SuiteSaves
    BY <1>5, SuiteTextTypes DEF AnswerSuite, File!NoSave, SuiteStages
  <2>2. save' \in [Clients -> SuiteSaves]
    BY <2>1 DEF SuiteShapes
  <2> QED BY <1>2, <1>5, <2>2 DEF AnswerSuite
<1>6. CASE SuiteCrash
  <2>1. save' = [d \in Clients |-> File!At("none")] /\ File!At("none") \in SuiteSaves
    BY <1>6, SuiteTextTypes DEF SuiteCrash, File!DropSaves, File!NoSave, SuiteStages
  <2>2. save' \in [Clients -> SuiteSaves]
    BY <2>1
  <2> QED BY <1>2, <1>6, <2>2 DEF SuiteCrash, File!DropSaves
<1>7. CASE SuiteOpen
  BY <1>2, <1>7 DEF SuiteOpen, fileVars, SuiteShapes
<1>8. CASE UNCHANGED suiteVars
  BY <1>2, <1>8 DEF suiteVars, fileVars, SuiteShapes
<1> QED BY <1>3, <1>4, <1>5, <1>6, <1>7, <1>8, SuiteSaveShapes DEF SuiteNext

\* Every step keeps the requests in order.
LEMMA AsksStep ==
  ASSUME SuiteShapes, AsksOK, [SuiteNext]_suiteVars
  PROVE  AsksOK'
<1> USE DEF AsksOK
<1>1. running /\ running' => Pins(suite) \subseteq Pins(suite')
  BY SuiteGrows
<1>2. ASSUME running, running', NEW c \in Clients, asked' = [asked EXCEPT ![c] = [what |-> "push"]],
             save'[c].at # "none", \A d \in Clients \ {c} : save'[d] = save[d]
      PROVE  AsksOK'
  BY <1>1, <1>2
<1>3. ASSUME NEW c \in Clients, NEW cases \in CaseSets, Push(c, cases) PROVE AsksOK'
  BY <1>2, <1>3, SuiteSaveBegins DEF Push
<1>4. ASSUME NEW c \in Clients, Snapshot(c) PROVE AsksOK'
  <2>0. running /\ running'
    BY <1>4 DEF Snapshot
  <2>1. CASE suite.cases \in Pins(suite)
    BY <1>4, <2>0, <2>1 DEF Snapshot, Pins
  <2>2. CASE suite.cases \notin Pins(suite)
    <3>1. /\ suite' = [suite EXCEPT !.snapshots = Freeze(@, suite.cases)]
          /\ asked' = [asked EXCEPT ![c] = [what |-> "snapshot", cases |-> suite.cases]]
          /\ save' = [save EXCEPT ![c].at = "clone"]
      BY <1>4, <2>2 DEF Snapshot, Pins
    <3>2. suite.cases \in Pins(suite') /\ suite \in GoodRows
      BY <2>2, <3>1, FreezeGood DEF SuiteShapes
    <3>3. save'[c].at = "clone" /\ \A d \in Clients \ {c} : save'[d] = save[d]
      BY <3>1, SuiteSaveBegins
    <3>4. \A d \in Clients \ {c} : asked'[d] = asked[d]
      BY <3>1
    <3>5. asked'[c].what = "snapshot" /\ asked'[c].cases \in Pins(suite')
      BY <3>1, <3>2
    <3>6. DOMAIN asked' = Clients
      BY <3>1
    <3> HIDE DEF Pins
    <3> QED BY <1>1, <2>0, <3>3, <3>4, <3>5, <3>6
  <2> QED BY <2>1, <2>2
<1>5. ASSUME NEW c \in Clients, SaveSuites(c) PROVE AsksOK'
  <2>1. File!SaveStep(c) /\ UNCHANGED <<suite, asked, running>> /\ running
    BY <1>5, SuiteSaveLeaves
  <2>2. save[c].at # "none" /\ save'[c].at # "none"
    <3>1. /\ File!At("rename").at = "rename" /\ File!At("saved").at = "saved" /\ File!At("failed").at = "failed"
      BY SuiteTextTypes DEF SuiteStages
    <3> QED BY <2>1, <3>1, SuiteSaveViews DEF File!SaveStep, File!Saving
  <2>3. \A d \in Clients \ {c} : save'[d].at = save[d].at
    BY <2>1, SuiteSaveViews DEF File!SaveStep
  <2> QED BY <2>1, <2>2, <2>3
<1>6. ASSUME NEW c \in Clients, AnswerSuite(c) PROVE AsksOK'
  <2>1. /\ asked' = [asked EXCEPT ![c] = Nothing] /\ save' = [save EXCEPT ![c] = File!At("none")]
        /\ UNCHANGED <<suite, running>> /\ running
    BY <1>6 DEF AnswerSuite, File!NoSave
  <2>2. File!At("none").at = "none"
    BY SuiteTextTypes DEF SuiteStages
  <2>3. save'[c].at = "none" /\ \A d \in Clients \ {c} : save'[d] = save[d] /\ asked'[d] = asked[d]
    BY <2>1, <2>2 DEF SuiteShapes
  <2> QED BY <2>1, <2>3
<1>7. CASE SuiteCrash
  <2>1. asked' = [d \in Clients |-> Nothing] /\ save' = [d \in Clients |-> File!At("none")]
    BY <1>7 DEF SuiteCrash, File!DropSaves, File!NoSave
  <2>2. File!At("none").at = "none"
    BY SuiteTextTypes DEF SuiteStages
  <2> QED BY <2>1, <2>2
<1>8. CASE SuiteOpen
  <2>1. UNCHANGED <<asked, save>> /\ ~running /\ running'
    BY <1>8 DEF SuiteOpen, fileVars
  <2>2. Nothing.what = "nothing"
    BY DEF Nothing
  <2>3. \A c \in Clients : asked'[c] = Nothing /\ save'[c].at = "none"
    BY <2>1, <2>2
  <2> QED BY <2>1, <2>3
<1>9. CASE UNCHANGED suiteVars
  BY <1>9 DEF suiteVars, fileVars, Pins
<1> QED BY <1>3, <1>4, <1>5, <1>6, <1>7, <1>8, <1>9 DEF SuiteNext

\* A step that leaves the files alone, and settles no more than was settled before it.
LEMMA PinsGoOn ==
  ASSUME PinnedOK, UNCHANGED <<file, tmp, overlapped>>, Settled' \subseteq Settled,
         ~overlapped /\ running' => pinned' \subseteq Pins(suite'),
         \A d \in Clients : File!Saving(d)' => save'[d] = save[d] /\ Waits(d)' \subseteq Waits(d)
  PROVE  PinnedOK'
<1> SUFFICES ASSUME ~overlapped PROVE PinnedOK'
  BY DEF PinnedOK
<1> HIDE DEF Settled, Waits, Pins
<1>1. ASSUME NEW d \in Clients, File!Saving(d)'
      PROVE  File!Saving(d) /\ WillPin(d, Settled \cup Waits(d))'
  <2>1. File!Saving(d)
    BY <1>1 DEF File!Saving
  <2>2. WillPin(d, Settled \cup Waits(d)) /\ Settled' \cup Waits(d)' \subseteq Settled \cup Waits(d)
    BY <1>1, <2>1 DEF PinnedOK
  <2>3. save'[d] = save[d] /\ tmp' = tmp
    BY <1>1
  <2> QED BY <2>1, <2>2, <2>3 DEF WillPin, File!Empty, File!Whole
<1>2. file'.is = "whole" /\ Settled' \subseteq Pins(file'.rows)
  BY DEF PinnedOK
<1>3. \A c, d \in Clients : File!Saving(c)' /\ File!Saving(d)' => c = d
  BY <1>1 DEF PinnedOK
<1> QED BY <1>1, <1>2, <1>3 DEF PinnedOK

\* A step of a save: nothing but that save moves on.
LEMMA SaveStepPins ==
  ASSUME SuiteInv, NEW c \in Clients, SaveSuites(c)
  PROVE  PinnedOK'
<1> SUFFICES ASSUME ~overlapped' PROVE PinnedOK'
  BY DEF PinnedOK
<1>1. UNCHANGED <<suite, asked, pinned, running>> /\ running /\ File!SaveStep(c)
  BY SuiteSaveLeaves
<1>2. ~overlapped
  BY <1>1 DEF File!SaveStep, File!Clone, File!OpenTmp, File!Fill, File!Rename, File!SaveFails
<1>3. /\ file.is = "whole" /\ Settled \subseteq Pins(file.rows) /\ pinned \subseteq Pins(suite)
      /\ \A d \in Clients \ {c} : File!Saving(c) => ~File!Saving(d)
      /\ File!Saving(c) => WillPin(c, Settled \cup Waits(c))
  BY <1>1, <1>2 DEF SuiteInv, PinnedOK
<1>4. \A d \in Clients : Waits(d)' = Waits(d)
  BY <1>1 DEF Waits
<1>5. \A d \in Clients : Waits(d) \subseteq Pins(suite)
  <2>1. Nothing.what = "nothing"
    BY DEF Nothing
  <2>2. AsksOK
    BY DEF SuiteInv
  <2> HIDE DEF Pins
  <2> QED BY <2>1, <2>2 DEF AsksOK, Waits
<1>6. SuiteShapes
  BY DEF SuiteInv
<1>7. \A d \in Clients \ {c} : save'[d].at = save[d].at
  BY <1>1, <1>6, SuiteSaveViews DEF File!SaveStep
<1> HIDE DEF Waits, Pins
<1>8. \A d \in Clients \ {c} : ~File!Saving(d)'
  <2>1. CASE File!Clone(c)
    BY <1>2, <1>7, <2>1 DEF File!Clone, File!Saving
  <2>2. CASE ~File!Clone(c)
    <3>1. File!Saving(c)
      BY <1>1, <1>6, <2>2, SuiteSaveViews DEF File!SaveStep, File!Saving
    <3> QED BY <1>3, <1>7, <3>1 DEF File!Saving
  <2> QED BY <2>1, <2>2
<1>9. Settled \cup Waits(c) \subseteq Pins(suite)
  BY <1>3, <1>5 DEF Settled
<1>10. /\ Settled' \subseteq Settled \cup Waits(c)
       /\ save'[c].at # "saved" => Settled' \subseteq Settled
  <2>1. ASSUME NEW d \in Clients, save'[d].at = "saved"
        PROVE  d = c \/ Waits(d)' \subseteq Settled
    BY <1>4, <1>7, <2>1 DEF Settled
  <2>2. Settled' = pinned \cup UNION {Waits(d)' : d \in {e \in Clients : save'[e].at = "saved"}}
    BY <1>1 DEF Settled
  <2> QED BY <1>4, <2>1, <2>2 DEF Settled
<1>11. ASSUME file'.is = "whole", Settled' \subseteq Pins(file'.rows),
              File!Saving(c)' => WillPin(c, Settled \cup Waits(c))'
       PROVE  PinnedOK'
  BY <1>1, <1>3, <1>8, <1>11 DEF PinnedOK
<1> HIDE DEF Settled
<1>12. CASE File!Clone(c)
  <2>1. save'[c].at = "open" /\ save'[c].rows = suite
    BY <1>6, <1>12, SuiteSaveViews
  <2>2. file' = file
    BY <1>12 DEF File!Clone
  <2> QED BY <1>3, <1>4, <1>9, <1>10, <1>11, <2>1, <2>2 DEF WillPin
<1>13. CASE File!OpenTmp(c)
  <2>1. /\ save[c].at = "open" /\ save'[c].at = "fill" /\ save'[c].on = "tmp"
        /\ save'[c].rows = save[c].rows /\ file' = file /\ tmp' = {File!Empty}
    BY <1>6, <1>13, SuiteSaveViews DEF File!OpenTmp
  <2>2. Settled \cup Waits(c) \subseteq Pins(save[c].rows)
    BY <1>3, <2>1 DEF WillPin, File!Saving
  <2> QED BY <1>3, <1>4, <1>10, <1>11, <2>1, <2>2 DEF WillPin, File!Empty
<1>14. CASE File!Fill(c)
  <2>1. save[c].at = "fill" /\ save'[c].at = "rename" /\ save[c].rows \in GoodRows
    BY <1>6, <1>14, SuiteSaveViews, SuiteTextTypes DEF SuiteShapes, SuiteSaves, SuiteStages
  <2>2. save[c].on = "tmp" /\ tmp = {File!Empty} /\ Settled \cup Waits(c) \subseteq Pins(save[c].rows)
    BY <1>3, <2>1 DEF WillPin, File!Saving
  <2>3. file' = file /\ tmp' = {File!Whole(save[c].rows)}
    BY <1>14, <2>2 DEF File!Fill, File!Written
  <2> QED BY <1>3, <1>4, <1>10, <1>11, <2>1, <2>2, <2>3 DEF WillPin, File!Whole
<1>15. CASE File!Rename(c)
  <2>1. save[c].at = "rename" /\ save'[c].at \in {"saved", "failed"}
    BY <1>6, <1>15, SuiteSaveViews, SuiteTextTypes DEF SuiteStages
  <2>2. PICK rows \in GoodRows : tmp = {File!Whole(rows)} /\ Settled \cup Waits(c) \subseteq Pins(rows)
    BY <1>3, <2>1 DEF WillPin, File!Saving
  <2>3. file' = File!Whole(rows)
    BY <1>15, <2>2 DEF File!Rename
  <2>4. file'.is = "whole" /\ file'.rows = rows
    BY <2>3 DEF File!Whole
  <2> QED BY <1>10, <1>11, <2>1, <2>2, <2>4 DEF File!Saving
<1>16. CASE File!SaveFails(c)
  <2>1. save'[c].at = "failed"
    BY <1>6, <1>16, SuiteSaveViews, SuiteTextTypes DEF SuiteStages
  <2>2. file' = file
    BY <1>16 DEF File!SaveFails
  <2> QED BY <1>3, <1>10, <1>11, <2>1, <2>2 DEF File!Saving
<1> QED BY <1>1, <1>12, <1>13, <1>14, <1>15, <1>16 DEF File!SaveStep

\* What is settled after a step that settles no save.
LEMMA SettledShrinks ==
  ASSUME pinned' \subseteq Settled,
         \A d \in Clients : save'[d].at = "saved" => save[d].at = "saved" /\ Waits(d)' \subseteq Waits(d)
  PROVE  Settled' \subseteq Settled
<1>1. ASSUME NEW d \in Clients, save'[d].at = "saved" PROVE Waits(d)' \subseteq Settled
  BY <1>1 DEF Settled
<1> QED BY <1>1 DEF Settled

\* Every step keeps what is confirmed, and what a save will confirm.
LEMMA PinnedStep ==
  ASSUME SuiteInv, [SuiteNext]_suiteVars
  PROVE  PinnedOK'
<1>0. PinnedOK /\ SuiteShapes /\ AsksOK
  BY DEF SuiteInv
<1>1. running /\ running' => Pins(suite) \subseteq Pins(suite')
  BY <1>0, SuiteGrows
<1>2. pinned \subseteq Settled
  BY DEF Settled
<1> HIDE DEF Pins
<1>3. ASSUME NEW c \in Clients, running, running', UNCHANGED <<file, tmp, overlapped, pinned>>,
             save' = [save EXCEPT ![c].at = "clone"], \A d \in Clients \ {c} : asked'[d] = asked[d]
      PROVE  PinnedOK'
  <2>1. save'[c].at = "clone" /\ \A d \in Clients \ {c} : save'[d] = save[d]
    BY <1>0, <1>3, SuiteSaveBegins
  <2>2. \A d \in Clients \ {c} : Waits(d)' = Waits(d)
    BY <1>3 DEF Waits
  <2>3. Settled' \subseteq Settled
    BY <1>2, <1>3, <2>1, <2>2, SettledShrinks
  <2>4. ~overlapped => pinned' \subseteq Pins(suite')
    BY <1>0, <1>1, <1>3 DEF PinnedOK
  <2> QED BY <1>0, <1>3, <2>1, <2>2, <2>3, <2>4, PinsGoOn DEF File!Saving
<1>4. ASSUME UNCHANGED <<file, tmp, overlapped, pinned, save, asked>>,
             ~overlapped /\ running' => pinned \subseteq Pins(suite')
      PROVE  PinnedOK'
  <2>1. \A d \in Clients : Waits(d)' = Waits(d)
    BY <1>4 DEF Waits
  <2>2. Settled' \subseteq Settled
    BY <1>2, <1>4, <2>1, SettledShrinks
  <2> QED BY <1>0, <1>4, <2>1, <2>2, PinsGoOn DEF File!Saving
<1>5. ASSUME NEW c \in Clients, NEW cases \in CaseSets, Push(c, cases) PROVE PinnedOK'
  BY <1>0, <1>3, <1>5 DEF Push, AsksOK
<1>6. ASSUME NEW c \in Clients, Snapshot(c) PROVE PinnedOK'
  <2>1. CASE UNCHANGED <<suite, asked, save>>
    <3>1. ~overlapped /\ running' => pinned \subseteq Pins(suite')
      BY <1>0, <1>6, <2>1 DEF Snapshot, PinnedOK
    <3> QED BY <1>4, <1>6, <2>1, <3>1 DEF Snapshot
  <2>2. CASE ~UNCHANGED <<suite, asked, save>>
    <3>1. /\ running /\ running' /\ UNCHANGED <<file, tmp, overlapped, pinned>>
          /\ save' = [save EXCEPT ![c].at = "clone"]
          /\ asked' = [asked EXCEPT ![c] = [what |-> "snapshot", cases |-> suite.cases]]
      BY <1>6, <2>2 DEF Snapshot
    <3>2. \A d \in Clients \ {c} : asked'[d] = asked[d]
      BY <1>0, <3>1 DEF AsksOK
    <3> QED BY <1>3, <3>1, <3>2
  <2> QED BY <2>1, <2>2
<1>7. ASSUME NEW c \in Clients, AnswerSuite(c) PROVE PinnedOK'
  <2>1. /\ UNCHANGED <<file, tmp, overlapped, running, suite>> /\ running
        /\ asked' = [asked EXCEPT ![c] = Nothing]
        /\ pinned' = IF save[c].at = "saved" /\ asked[c].what = "snapshot"
                     THEN pinned \cup {asked[c].cases} ELSE pinned
        /\ save' = [save EXCEPT ![c] = File!At("none")]
    BY <1>7 DEF AnswerSuite, File!NoSave
  <2>2. File!At("none").at = "none"
    BY SuiteTextTypes DEF SuiteStages
  <2>3. save'[c].at = "none" /\ \A d \in Clients \ {c} : save'[d] = save[d] /\ asked'[d] = asked[d]
    BY <1>0, <2>1, <2>2 DEF SuiteShapes, AsksOK
  <2>4. \A d \in Clients \ {c} : Waits(d)' = Waits(d)
    BY <2>3 DEF Waits
  <2>5. pinned' \subseteq Settled
    BY <2>1 DEF Settled, Waits
  <2>6. Settled' \subseteq Settled
    BY <2>3, <2>4, <2>5, SettledShrinks
  <2>7. pinned' \subseteq pinned \cup Waits(c)
    BY <2>1 DEF Waits
  <2>8. Waits(c) \subseteq Pins(suite)
    <3>1. Nothing.what = "nothing"
      BY DEF Nothing
    <3> QED BY <1>0, <3>1 DEF AsksOK, Waits
  <2>9. ~overlapped => pinned' \subseteq Pins(suite')
    BY <1>0, <2>1, <2>7, <2>8 DEF PinnedOK
  <2> QED BY <1>0, <2>1, <2>3, <2>4, <2>6, <2>9, PinsGoOn DEF File!Saving
<1>8. CASE SuiteCrash
  <2>1. /\ UNCHANGED <<file, tmp, overlapped, pinned>> /\ ~running'
        /\ save' = [d \in Clients |-> File!At("none")]
    BY <1>8 DEF SuiteCrash, File!DropSaves, File!NoSave
  <2>2. \A d \in Clients : save'[d].at = "none"
    BY <2>1, SuiteTextTypes DEF SuiteStages
  <2>3. Settled' \subseteq Settled
    BY <1>2, <2>1, <2>2, SettledShrinks
  <2> QED BY <1>0, <2>1, <2>2, <2>3, PinsGoOn DEF File!Saving
<1>9. CASE SuiteOpen
  <2>1. UNCHANGED <<file, tmp, overlapped, pinned, save, asked>> /\ suite' = file.rows
    BY <1>9 DEF SuiteOpen, File!Loads, fileVars
  <2>2. ~overlapped => pinned \subseteq Pins(suite')
    BY <1>0, <1>2, <2>1 DEF PinnedOK
  <2> QED BY <1>4, <2>1, <2>2
<1>10. CASE UNCHANGED suiteVars
  BY <1>0, <1>4, <1>10 DEF suiteVars, fileVars, PinnedOK
<1> QED BY <1>5, <1>6, <1>7, <1>8, <1>9, <1>10, SaveStepPins DEF SuiteNext

\* The inductive invariant of the suites, their file and their requests.
THEOREM SuiteInvariant == SuiteSpec => []SuiteInv
<1>1. SuiteInit => SuiteInv
  <2> SUFFICES ASSUME SuiteInit PROVE SuiteInv
    OBVIOUS
  <2>1. /\ file = File!Whole(NoSuite) /\ tmp = {} /\ overlapped = FALSE
        /\ save = [d \in Clients |-> File!At("none")]
        /\ suite = NoSuite /\ pinned = {} /\ running = TRUE
        /\ asked = [c \in Clients |-> Nothing]
    BY DEF SuiteInit, File!InitFile, File!NoSave
  <2>2. File!At("none") \in SuiteSaves /\ File!At("none").at = "none"
    BY SuiteTextTypes DEF SuiteStages
  <2>3. SuiteShapes
    BY <2>1, <2>2, NoSuiteGood, SuiteTextTypes DEF SuiteShapes
  <2>4. AsksOK
    BY <2>1, <2>2 DEF AsksOK
  <2>5. PinnedOK
    <3>1. Settled = {} /\ \A d \in Clients : save[d].at = "none"
      BY <2>1, <2>2 DEF Settled
    <3> QED BY <2>1, <3>1, SuiteTextTypes DEF PinnedOK, File!Saving
  <2> QED BY <2>3, <2>4, <2>5 DEF SuiteInv
<1>2. SuiteInv /\ [SuiteNext]_suiteVars => SuiteInv'
  BY SuiteShapesStep, AsksStep, PinnedStep DEF SuiteInv
<1> QED BY <1>1, <1>2, PTL DEF SuiteSpec

\* A reference stands for the same snapshot after another was added at the end.
LEMMA FirstStays ==
  ASSUME NEW S, NEW snapshots \in Seq(S), NEW added, NEW ref
  PROVE  ResolveRef(snapshots, ref) \in {{}, ResolveRef(Append(snapshots, added), ref)}
<1> DEFINE longer == Append(snapshots, added)
           n      == Len(snapshots)
           found  == {i \in 1 .. n : snapshots[i] \in ref}
           more   == {i \in 1 .. n + 1 : longer[i] \in ref}
<1>1. n \in Nat /\ \A i \in 1 .. n : longer[i] = snapshots[i]
  OBVIOUS
<1>2. Len(longer) = n + 1
  OBVIOUS
<1>3. ResolveRef(snapshots, ref) = {snapshots[i] : i \in {j \in found : \A k \in found : j <= k}}
  BY DEF ResolveRef
<1>4. ResolveRef(longer, ref) = {longer[i] : i \in {j \in more : \A k \in more : j <= k}}
  BY <1>2 DEF ResolveRef
<1> HIDE DEF longer
<1>5. CASE ~\E j \in found : \A k \in found : j <= k
  BY <1>3, <1>5
<1>6. ASSUME NEW j \in found, \A k \in found : j <= k
      PROVE  ResolveRef(snapshots, ref) = ResolveRef(longer, ref)
  <2>1. {i \in found : \A k \in found : i <= k} = {j}
    BY <1>1, <1>6
  <2>2. more \subseteq found \cup {n + 1} /\ found \subseteq more
    BY <1>1
  <2>3. {i \in more : \A k \in more : i <= k} = {j}
    BY <1>1, <1>6, <2>2
  <2> QED BY <1>1, <1>3, <1>4, <2>1, <2>3
<1> QED BY <1>5, <1>6 DEF longer

\* What a pin stands for is the same cases, whatever is pushed and frozen besides,
\* through failed saves and deaths, unless two saves were under way at once.
THEOREM PinsStay == SuiteSpec => PinsHold
<1>1. SuiteInv /\ [SuiteNext]_suiteVars => [PinsKept]_suiteVars
  <2> SUFFICES ASSUME SuiteInv, [SuiteNext]_suiteVars, running, running', NEW ref
               PROVE  ResolveRef(suite.snapshots, ref) \in {{}, ResolveRef(suite'.snapshots, ref)}
    BY DEF PinsKept
  <2>1. \/ suite'.snapshots = suite.snapshots
        \/ suite'.snapshots = Append(suite.snapshots, suite.cases)
    BY SuiteGrows DEF SuiteInv
  <2>2. suite.snapshots \in Seq(CaseSets)
    BY DEF SuiteInv, SuiteShapes, GoodRows
  <2> QED BY <2>1, <2>2, FirstStays
<1>2. SuiteInv => ConfirmedSnapshotsAreSaved
  BY DEF SuiteInv, PinnedOK, Settled, ConfirmedSnapshotsAreSaved, Pins
<1> QED BY <1>1, <1>2, SuiteInvariant, PTL DEF SuiteSpec, PinsHold, PinsAreStable

\* Working sets and snapshots hold one content per id, and snapshots differ.
THEOREM SuiteTypes == SuiteSpec => []SuiteTypeOK
<1>1. SuiteInv => SuiteTypeOK
  <2> SUFFICES ASSUME SuiteInv PROVE SuiteTypeOK
    OBVIOUS
  <2> DEFINE seq == suite.snapshots
             f   == [i \in 1 .. Len(seq) |-> seq[i]]
  <2>1. suite \in GoodRows /\ suite.cases \in CaseSets /\ seq \in Seq(CaseSets)
    BY DEF SuiteInv, SuiteShapes, GoodRows
  <2>2. \A cases \in {suite.cases} \cup Elements(seq) : cases \in CaseSets /\ Consistent(cases)
    <3>1. Elements(seq) \subseteq CaseSets
      BY <2>1 DEF Elements
    <3> QED BY <2>1, <3>1 DEF GoodRows, Pins
  <2>3. f \in Bijection(1 .. Len(seq), Elements(seq))
    <3>1. f \in [1 .. Len(seq) -> Elements(seq)]
      BY DEF Elements
    <3>2. \A t \in Elements(seq) : \E i \in 1 .. Len(seq) : f[i] = t
      BY DEF Elements
    <3>3. \A i, j \in 1 .. Len(seq) : f[i] = f[j] => i = j
      BY <2>1 DEF GoodRows
    <3> QED BY <3>1, <3>2, <3>3 DEF Bijection, Injection, Surjection, IsInjective
  <2>4. Len(seq) \in Nat
    BY <2>1
  <2>5. IsFiniteSet(1 .. Len(seq)) /\ Cardinality(1 .. Len(seq)) = Len(seq)
    BY <2>4, FS_Interval
  <2>6. Cardinality(Elements(seq)) = Len(seq)
    <3>1. ExistsBijection(1 .. Len(seq), Elements(seq))
      BY <2>3 DEF ExistsBijection
    <3> HIDE DEF seq, f
    <3>2. Cardinality(Elements(seq)) = Cardinality(1 .. Len(seq))
      BY ONLY <2>5, <3>1, FS_Bijection
    <3> QED BY <2>5, <3>2
  <2> QED BY <2>2, <2>6 DEF SuiteTypeOK
<1> QED BY <1>1, SuiteInvariant, PTL

-----------------------------------------------------------------------------
(* The stores side by side.                                                *)

\* A behaviour of all of them is one of each: those that are not its subject stand still.
LEMMA EachStore == StoresSpec => IndexSpec /\ FanSpec /\ SuiteSpec /\ KeysSpec /\ Spec
<1>1. StoresInit => IndexInit /\ FanInit /\ SuiteInit /\ KeysInit /\ Init
  BY DEF StoresInit
<1>2. [StoresNext]_storesVars =>
        /\ [IndexNext]_indexVars /\ [FanNext]_fanVars /\ [SuiteNext]_suiteVars
        /\ [KeysNext]_keyVars /\ [Next]_vars
  BY DEF StoresNext, storesVars
<1> QED BY <1>1, <1>2, PTL DEF StoresSpec, IndexSpec, FanSpec, SuiteSpec, KeysSpec, Spec

\* The types of the span indexes, the shards, the suites, the keys and the tiers at once.
THEOREM StoreTypes == StoresSpec => []StoresTypeOK
<1>1. IndexTypeOK /\ FanTypeOK /\ SuiteTypeOK /\ KeysTypeOK /\ TypeOK => StoresTypeOK
  BY DEF StoresTypeOK
<1> QED BY <1>1, EachStore, IndexTypes, FanTypes, SuiteTypes, KeysTypes, TierTypeOK, PTL
=============================================================================
