--------------------------- MODULE Services_proofs ---------------------------
(***************************************************************************)
(* Proofs about the two services that work by a clock of their own.  Alert *)
(* rules: what is confirmed is in the file, whatever becomes of other      *)
(* requests, and what is published is what happened, for any number of     *)
(* rules, names and clients.  Online scoring: what is counted is stored,   *)
(* and no trace is judged again before the memory went over it.  And the   *)
(* runs that clients drive: what the server derives of one adds up, shows  *)
(* how its runner ended, and stays what it was when a file is sent again.  *)
(***************************************************************************)
EXTENDS MCServices, FiniteSetTheorems, SequenceTheorems, WellFoundedInduction, TLAPS

SaveStages == {"none", "clone", "open", "fill", "rename", "saved", "failed"}
Kinds      == {"ok", "pending", "firing"}
Texts      == [is : {"whole", "empty", "mixed"}, rows : SUBSET Rules]
Saves      == [at : SaveStages, rows : SUBSET Rules, on : {"nothing", "tmp", "file"}]
Entries    == [is : Kinds, since : 0 .. Never, of : Rules \cup {"nobody", "wiped"}]
Events     == [rule : Rules, is : Kinds, own : BOOLEAN, live : BOOLEAN, early : BOOLEAN]
Passes     == [at : {"idle", "evaluate"}, todo : SUBSET Rules, events : Nat, lag : 0 .. MaxLag]

-----------------------------------------------------------------------------
(* The table and its file.                                                 *)

\* Rules that were created, and no two of a name.
Sound(table) == table \subseteq created /\ \A q, r \in table : NameOf[q] = NameOf[r] => q = r

TablesOK ==
  /\ created \subseteq Rules /\ acked \subseteq created /\ Sound(rules)
  /\ file \in Texts /\ Sound(file.rows)
  /\ tmp = {} \/ \E t \in Texts : tmp = {t} /\ Sound(t.rows)
  /\ save \in [Clients -> Saves] /\ \A c \in Clients : Sound(save[c].rows)
  /\ running \in BOOLEAN /\ (running \/ rules = {})

\* A client has one request at a time, and it saves only once its edit is made.
RequestsOK ==
  /\ DOMAIN asked = Clients /\ (~running => \A c \in Clients : asked[c] = Nothing)
  /\ \A c \in Clients :
       \/ asked[c] = Nothing /\ save[c].at = "none"
       \/ asked[c].what = "create" /\ asked[c].rule \in created /\ save[c].at # "none"
       \/ asked[c].what = "delete" /\ asked[c].rule \in created \ rules /\ save[c].at = "none"
       \/ asked[c].what = "deleted" /\ save[c].at # "none"

Owed(c) == {r \in rules : asked[c].what = "create" /\ asked[c].rule = r}
Due     == acked \cup {r \in rules : \E c \in Clients : save[c].at = "saved" /\ r \in Owed(c)}

\* The text a save will put in place holds some rules.
WillHold(c, some) ==
  \/ save[c].at = "open" /\ some \subseteq save[c].rows
  \/ save[c].at = "fill" /\ save[c].on = "tmp" /\ tmp = {File!Empty} /\ some \subseteq save[c].rows
  \/ save[c].at = "rename" /\ \E rows \in SUBSET Rules : tmp = {File!Whole(rows)} /\ some \subseteq rows

\* While saves come one after the other, each holds all that is confirmed or will be.
SavedOK ==
  ~overlapped =>
    /\ file.is = "whole" /\ Due \subseteq file.rows
    /\ running => acked \subseteq rules
    /\ \A c, d \in Clients : File!Saving(c) /\ File!Saving(d) => c = d
    /\ \A c \in Clients : File!Saving(c) => WillHold(c, Due \cup Owed(c))

BookInv == TablesOK /\ RequestsOK /\ SavedOK


\* What a save of a sound table writes.
LEMMA TextTypes ==
  /\ \A rows : File!Whole(rows).is = "whole" /\ File!Whole(rows).rows = rows
  /\ \A rows \in SUBSET Rules : File!Whole(rows) \in Texts
  /\ File!Empty \in Texts /\ File!Empty.rows = {} /\ File!Mixed \in Texts /\ File!Mixed.rows = {}
  /\ \A rows \in SUBSET Rules : File!Whole(rows) # File!Empty
  BY DEF File!Whole, File!Empty, File!Mixed, Texts

\* A text that is written over another is the new one, or a mixture that no process loads.
LEMMA WrittenTypes ==
  ASSUME NEW rows \in SUBSET Rules, Sound(rows), NEW old, NEW text \in File!Written(old, rows)
  PROVE  text \in Texts /\ Sound(text.rows) /\ (old = File!Empty => text = File!Whole(rows))
  BY TextTypes DEF File!Written, Sound

\* The steps of one save: what they leave of every save.
LEMMA SaveViews ==
  ASSUME TablesOK, NEW c \in Clients
  PROVE  /\ File!Clone(c) =>
              /\ save[c].at = "clone" /\ save'[c] = [at |-> "open", rows |-> rules, on |-> "nothing"]
              /\ \A d \in Clients \ {c} : save'[d] = save[d]
         /\ File!OpenTmp(c) =>
              /\ save[c].at = "open" /\ save'[c].at = "fill" /\ save'[c].rows = save[c].rows
              /\ save'[c].on = "tmp" /\ save'[c] \in Saves
              /\ \A d \in Clients \ {c} : save'[d] = save[d]
         /\ File!Fill(c) =>
              /\ save[c].at = "fill" /\ save'[c] = [at |-> "rename", rows |-> {}, on |-> "nothing"]
              /\ \A d \in Clients \ {c} : save'[d] = save[d]
         /\ File!Rename(c) =>
              /\ save[c].at = "rename"
              /\ \/ save'[c] = [at |-> "saved", rows |-> {}, on |-> "nothing"] /\ tmp # {}
                 \/ save'[c] = [at |-> "failed", rows |-> {}, on |-> "nothing"] /\ tmp = {}
              /\ \A d \in Clients \ {c} : save'[d].at = save[d].at /\ save'[d].rows = save[d].rows /\ save'[d] \in Saves
         /\ File!SaveFails(c) =>
              /\ File!Saving(c) /\ save'[c] = [at |-> "failed", rows |-> {}, on |-> "nothing"]
              /\ \A d \in Clients \ {c} : save'[d] = save[d]
         /\ File!SaveStep(c) => DOMAIN save' = Clients
<1> USE DEF TablesOK
<1>1. ASSUME File!OpenTmp(c)
      PROVE /\ save'[c].at = "fill" /\ save'[c].rows = save[c].rows
            /\ save'[c].on = "tmp" /\ save'[c] \in Saves
  <2>1. PICK a \in SaveStages, t \in SUBSET Rules, o \in {"nothing", "tmp", "file"} :
          save[c] = [at |-> a, rows |-> t, on |-> o]
    BY DEF Saves
  <2>2. save'[c] = [at |-> "fill", rows |-> t, on |-> "tmp"]
    <3>1. save' = [save EXCEPT ![c].at = "fill", ![c].on = "tmp"] /\ c \in DOMAIN save
      BY <1>1 DEF File!OpenTmp
    <3> DEFINE opened == [save EXCEPT ![c].at = "fill"]
    <3>2. opened[c] = [at |-> "fill", rows |-> t, on |-> o] /\ c \in DOMAIN opened
      BY <2>1, <3>1
    <3>3. save' = [opened EXCEPT ![c].on = "tmp"]
      BY <3>1
    <3> HIDE DEF opened
    <3>4. save'[c] = [opened[c] EXCEPT !.on = "tmp"]
      BY <3>2, <3>3
    <3> QED BY <3>2, <3>4
  <2> QED BY <2>1, <2>2 DEF Saves, SaveStages
<1>2. ASSUME File!Rename(c), NEW d \in Clients \ {c}
      PROVE save'[d].at = save[d].at /\ save'[d].rows = save[d].rows /\ save'[d] \in Saves
  <2>1. CASE tmp = {}
    BY <1>2, <2>1 DEF File!Rename
  <2>2. CASE tmp # {}
    <3>1. PICK a \in SaveStages, t \in SUBSET Rules, o \in {"nothing", "tmp", "file"} :
            save[d] = [at |-> a, rows |-> t, on |-> o]
      BY DEF Saves
    <3>2. save'[d] = [save[d] EXCEPT !.on = File!Moved(@)]
      BY <1>2, <2>2 DEF File!Rename
    <3>3. File!Moved(o) \in {"nothing", "tmp", "file"}
      BY DEF File!Moved
    <3>4. save'[d] = [at |-> a, rows |-> t, on |-> File!Moved(o)]
      BY <3>1, <3>2
    <3> QED BY <3>1, <3>3, <3>4 DEF Saves
  <2> QED BY <2>1, <2>2
<1>3. File!Rename(c) => /\ save[c].at = "rename"
              /\ \/ save'[c] = [at |-> "saved", rows |-> {}, on |-> "nothing"] /\ tmp # {}
                 \/ save'[c] = [at |-> "failed", rows |-> {}, on |-> "nothing"] /\ tmp = {}
  BY DEF File!Rename, File!At
<1>4. File!SaveStep(c) => DOMAIN save' = Clients
  BY DEF File!SaveStep, File!Clone, File!OpenTmp, File!Fill, File!Rename, File!SaveFails
<1> QED BY <1>1, <1>2, <1>3, <1>4 DEF File!Clone, File!OpenTmp, File!Fill, File!SaveFails, File!At

\* The steps of one save keep every text sound.
LEMMA SaveKeepsTables ==
  ASSUME TablesOK, NEW c \in Clients, SaveAlerts(c)
  PROVE  TablesOK'
<1> USE DEF TablesOK
<1>1. UNCHANGED <<rules, acked, created, running>> /\ File!SaveStep(c)
  BY DEF SaveAlerts, clientVars, File!SaveStep, File!Clone, File!OpenTmp, File!Fill, File!Rename, File!SaveFails
<1>2. \A d \in Clients : save'[d] \in Saves /\ Sound(save'[d].rows)
  <2>1. Sound({}) /\ {} \in SUBSET Rules /\ rules \in SUBSET Rules
    BY DEF Sound
  <2>2. ASSUME NEW d \in Clients \ {c} PROVE save'[d] \in Saves /\ Sound(save'[d].rows)
    BY <1>1, SaveViews DEF File!SaveStep
  <2>3. save'[c] \in Saves /\ Sound(save'[c].rows)
    <3>1. CASE File!OpenTmp(c)
      BY <3>1, SaveViews
    <3>2. CASE File!Clone(c)
      BY <2>1, <3>2, SaveViews DEF Saves, SaveStages
    <3>3. CASE File!Fill(c) \/ File!Rename(c) \/ File!SaveFails(c)
      <4>1. PICK at \in SaveStages : save'[c] = [at |-> at, rows |-> {}, on |-> "nothing"]
        BY <3>3, SaveViews DEF SaveStages
      <4> QED BY <2>1, <4>1 DEF Saves
    <3> QED BY <1>1, <3>1, <3>2, <3>3 DEF File!SaveStep
  <2> QED BY <2>2, <2>3
<1>3. save' \in [Clients -> Saves]
  <2>1. save' = [d \in Clients |-> save'[d]]
    BY <1>1 DEF File!SaveStep, File!Clone, File!OpenTmp, File!Fill, File!Rename, File!SaveFails
  <2> QED BY <1>2, <2>1
<1>4. /\ file' \in Texts /\ Sound(file'.rows)
      /\ tmp' = {} \/ \E t \in Texts : tmp' = {t} /\ Sound(t.rows)
  <2>1. CASE File!Fill(c)
    <3>1. save[c].rows \in SUBSET Rules /\ Sound(save[c].rows)
      BY DEF Saves
    <3> QED BY <2>1, <3>1, WrittenTypes DEF File!Fill
  <2>2. CASE File!Rename(c)
    BY <2>2 DEF File!Rename
  <2>3. CASE File!Clone(c) \/ File!OpenTmp(c) \/ File!SaveFails(c)
    BY <2>3, TextTypes DEF File!Clone, File!OpenTmp, File!SaveFails, Sound
  <2> QED BY <1>1, <2>1, <2>2, <2>3 DEF File!SaveStep
<1> QED BY <1>1, <1>2, <1>3, <1>4 DEF Sound

\* What the evaluator and the clock never touch.
BookVars == <<rules, asked, acked, created, running, file, tmp, save, overlapped>>

\* The evaluator and the clock leave the book alone.
LEMMA EvaluatorApart ==
  Derive \/ Deliver \/ EndPass \/ Second \/ (\E r \in Rules : EvaluateFails(r) \/ \E matched \in BOOLEAN : Evaluate(r, matched))
    => UNCHANGED BookVars
  BY DEF Derive, Deliver, EndPass, Second, EvaluateFails, Evaluate, BookVars, clientVars, fileVars

\* Every step keeps the tables and their texts sound.
LEMMA TablesStep ==
  ASSUME TablesOK, [AlertNext]_alertVars
  PROVE  TablesOK'
<1> USE DEF TablesOK
<1>1. ASSUME NEW c \in Clients, NEW r \in Rules, CreateAlert(c, r) PROVE TablesOK'
  <2>1. \A table : Sound(table) => Sound(table)'
    BY <1>1 DEF CreateAlert, Sound
  <2>2. Sound(rules)'
    BY <1>1 DEF CreateAlert, Sound
  <2>3. save' \in [Clients -> Saves] /\ \A d \in Clients : save'[d].rows = save[d].rows
    <3>1. PICK a \in SaveStages, t \in SUBSET Rules, o \in {"nothing", "tmp", "file"} :
            save[c] = [at |-> a, rows |-> t, on |-> o]
      BY DEF Saves
    <3>2. save' = [save EXCEPT ![c].at = "clone"]
      BY <1>1 DEF CreateAlert
    <3>3. save'[c] = [at |-> "clone", rows |-> t, on |-> o] /\ save'[c] \in Saves
      BY <3>1, <3>2 DEF Saves, SaveStages
    <3> QED BY <3>1, <3>2, <3>3
  <2> QED BY <1>1, <2>1, <2>2, <2>3 DEF CreateAlert
<1>2. ASSUME NEW c \in Clients, NEW r \in Rules, DeleteAlert(c, r) PROVE TablesOK'
  BY <1>2 DEF DeleteAlert, Sound, fileVars
<1>3. ASSUME NEW c \in Clients, ForgetState(c) PROVE TablesOK'
  <2>1. save' \in [Clients -> Saves] /\ \A d \in Clients : save'[d].rows = save[d].rows
    <3>1. PICK a \in SaveStages, t \in SUBSET Rules, o \in {"nothing", "tmp", "file"} :
            save[c] = [at |-> a, rows |-> t, on |-> o]
      BY DEF Saves
    <3>2. save' = [save EXCEPT ![c].at = "clone"]
      BY <1>3 DEF ForgetState
    <3>3. save'[c] = [at |-> "clone", rows |-> t, on |-> o] /\ save'[c] \in Saves
      BY <3>1, <3>2 DEF Saves, SaveStages
    <3> QED BY <3>1, <3>2, <3>3
  <2> QED BY <1>3, <2>1 DEF ForgetState, Sound
<1>4. ASSUME NEW c \in Clients, AnswerAlert(c) PROVE TablesOK'
  <2>1. save' = [save EXCEPT ![c] = [at |-> "none", rows |-> {}, on |-> "nothing"]]
    BY <1>4 DEF AnswerAlert, File!NoSave, File!At
  <2>2. [at |-> "none", rows |-> {}, on |-> "nothing"] \in Saves
    BY DEF Saves, SaveStages
  <2>3. save' \in [Clients -> Saves] /\ \A d \in Clients : save'[d].rows = save[d].rows \/ save'[d].rows = {}
    BY <2>1, <2>2
  <2>4. acked' \subseteq created
    BY <1>4 DEF AnswerAlert, Sound
  <2> QED BY <1>4, <2>3, <2>4 DEF AnswerAlert, Sound
<1>5. CASE AlertCrash
  <2>1. save' = [d \in Clients |-> [at |-> "none", rows |-> {}, on |-> "nothing"]]
    BY <1>5 DEF AlertCrash, File!DropSaves, File!NoSave, File!At
  <2>2. [at |-> "none", rows |-> {}, on |-> "nothing"] \in Saves
    BY DEF Saves, SaveStages
  <2>3. save' \in [Clients -> Saves] /\ \A d \in Clients : save'[d].rows = {}
    BY <2>1, <2>2
  <2> QED BY <1>5, <2>3 DEF AlertCrash, File!DropSaves, Sound
<1>6. CASE AlertOpen
  BY <1>6 DEF AlertOpen, File!Loads, Sound, clientVars, fileVars
<1>7. CASE UNCHANGED BookVars
  BY <1>7 DEF BookVars, Sound
<1> QED BY <1>1, <1>2, <1>3, <1>4, <1>5, <1>6, <1>7, SaveKeepsTables, EvaluatorApart
        DEF AlertNext, Requests, alertVars, BookVars, clientVars, fileVars

\* Every step keeps the requests in order.
LEMMA RequestsStep ==
  ASSUME TablesOK, RequestsOK, [AlertNext]_alertVars
  PROVE  RequestsOK'
<1> USE DEF RequestsOK
<1>1. ASSUME NEW c \in Clients, NEW r \in Rules, CreateAlert(c, r) PROVE RequestsOK'
  <2>1. /\ asked' = [asked EXCEPT ![c] = [what |-> "create", rule |-> r]]
        /\ rules' = rules \cup {r} /\ created' = created \cup {r} /\ r \notin created
        /\ save' = [save EXCEPT ![c].at = "clone"]
    BY <1>1 DEF CreateAlert
  <2> running /\ running'
    BY <1>1 DEF CreateAlert
  <2>2. asked'[c].what = "create" /\ asked'[c].rule = r /\ save'[c].at = "clone"
    BY <2>1 DEF TablesOK
  <2>3. \A d \in Clients \ {c} : asked'[d] = asked[d] /\ save'[d] = save[d]
    BY <2>1 DEF TablesOK
  <2> QED BY <2>1, <2>2, <2>3
<1>2. ASSUME NEW c \in Clients, NEW r \in Rules, DeleteAlert(c, r) PROVE RequestsOK'
  <2>1. /\ asked' = [asked EXCEPT ![c] = [what |-> "delete", rule |-> r]]
        /\ rules' = rules \ {r} /\ created' = created /\ save' = save /\ r \in created /\ save[c].at = "none"
    BY <1>2 DEF DeleteAlert, TablesOK, Sound, fileVars, Nothing
  <2> running /\ running'
    BY <1>2 DEF DeleteAlert
  <2>2. asked'[c].what = "delete" /\ asked'[c].rule = r
    BY <2>1
  <2>3. \A d \in Clients \ {c} : asked'[d] = asked[d]
    BY <2>1
  <2> QED BY <2>1, <2>2, <2>3
<1>3. ASSUME NEW c \in Clients, ForgetState(c) PROVE RequestsOK'
  <2>1. /\ asked' = [asked EXCEPT ![c] = [what |-> "deleted"]] /\ rules' = rules /\ created' = created
        /\ save' = [save EXCEPT ![c].at = "clone"]
    BY <1>3 DEF ForgetState
  <2> running /\ running'
    BY <1>3 DEF ForgetState
  <2>2. asked'[c].what = "deleted" /\ save'[c].at = "clone"
    BY <2>1 DEF TablesOK
  <2>3. \A d \in Clients \ {c} : asked'[d] = asked[d] /\ save'[d] = save[d]
    BY <2>1 DEF TablesOK
  <2> QED BY <2>1, <2>2, <2>3
<1>4. ASSUME NEW c \in Clients, AnswerAlert(c) PROVE RequestsOK'
  <2>1. /\ asked' = [asked EXCEPT ![c] = Nothing] /\ rules' = rules /\ created' = created
        /\ save' = [save EXCEPT ![c] = [at |-> "none", rows |-> {}, on |-> "nothing"]]
    BY <1>4 DEF AnswerAlert, File!NoSave, File!At
  <2> running /\ running'
    BY <1>4 DEF AnswerAlert
  <2>2. asked'[c] = Nothing /\ save'[c].at = "none"
    BY <2>1 DEF TablesOK
  <2>3. \A d \in Clients \ {c} : asked'[d] = asked[d] /\ save'[d] = save[d]
    BY <2>1 DEF TablesOK
  <2> QED BY <2>1, <2>2, <2>3
<1>5. ASSUME NEW c \in Clients, SaveAlerts(c) PROVE RequestsOK'
  <2>1. UNCHANGED <<rules, created, asked>> /\ File!SaveStep(c)
    BY <1>5 DEF SaveAlerts, clientVars, File!SaveStep, File!Clone, File!OpenTmp, File!Fill, File!Rename, File!SaveFails
  <2> running /\ running'
    BY <1>5 DEF SaveAlerts
  <2>2. save[c].at # "none" /\ save'[c].at # "none" /\ \A d \in Clients \ {c} : save'[d].at = save[d].at
    BY <2>1, SaveViews DEF File!SaveStep, File!Saving
  <2> QED BY <2>1, <2>2, SMTT(30) DEF Nothing
<1>6. CASE AlertCrash
  <2>1. /\ asked' = [c \in Clients |-> Nothing]
        /\ save' = [d \in Clients |-> [at |-> "none", rows |-> {}, on |-> "nothing"]]
    BY <1>6 DEF AlertCrash, File!DropSaves, File!NoSave, File!At
  <2> QED BY <2>1
<1>7. CASE AlertOpen
  <2>1. UNCHANGED <<asked, created, save>> /\ rules' \subseteq created /\ ~running
    BY <1>7 DEF AlertOpen, File!Loads, clientVars, fileVars, TablesOK, Sound
  <2>2. \A c \in Clients : asked[c] = Nothing /\ save[c].at = "none"
    <3>1. Nothing.what = "nothing"
      BY DEF Nothing
    <3> QED BY <2>1, <3>1
  <2>3. running' = TRUE
    BY <1>7 DEF AlertOpen
  <2> QED BY <2>1, <2>2, <2>3
<1>8. CASE UNCHANGED BookVars
  BY <1>8 DEF BookVars
<1> QED BY <1>1, <1>2, <1>3, <1>4, <1>5, <1>6, <1>7, <1>8, EvaluatorApart
        DEF AlertNext, Requests, alertVars, BookVars, clientVars, fileVars

\* A step that leaves the files alone, and owes no more than was owed before it.
LEMMA SavesGoOn ==
  ASSUME SavedOK, UNCHANGED <<file, tmp, overlapped>>, Due' \subseteq Due,
         ~overlapped /\ running' => acked' \subseteq rules',
         \A d \in Clients : File!Saving(d)' => save'[d] = save[d] /\ Owed(d)' \subseteq Owed(d)
  PROVE  SavedOK'
<1> SUFFICES ASSUME ~overlapped PROVE SavedOK'
  BY DEF SavedOK
<1>1. ASSUME NEW d \in Clients, File!Saving(d)'
      PROVE  File!Saving(d) /\ WillHold(d, Due \cup Owed(d))'
  <2>1. File!Saving(d)
    BY <1>1 DEF File!Saving
  <2>2. WillHold(d, Due \cup Owed(d)) /\ Due' \cup Owed(d)' \subseteq Due \cup Owed(d)
    BY <1>1, <2>1 DEF SavedOK
  <2> HIDE DEF Due, Owed
  <2> QED BY <1>1, <2>1, <2>2 DEF WillHold, File!Empty, File!Whole
<1>2. file'.is = "whole" /\ Due' \subseteq file'.rows
  BY DEF SavedOK
<1>3. \A c, d \in Clients : File!Saving(c)' /\ File!Saving(d)' => c = d
  BY <1>1 DEF SavedOK
<1> HIDE DEF Due, Owed
<1> QED BY <1>1, <1>2, <1>3 DEF SavedOK

\* A step of a save: nothing but that save moves on.
LEMMA SaveStepSaves ==
  ASSUME BookInv, NEW c \in Clients, SaveAlerts(c)
  PROVE  SavedOK'
<1> SUFFICES ASSUME ~overlapped' PROVE SavedOK'
  BY DEF SavedOK
<1>1. UNCHANGED <<rules, asked, acked, running>> /\ running /\ File!SaveStep(c)
  BY DEF SaveAlerts, clientVars, File!SaveStep, File!Clone, File!OpenTmp, File!Fill, File!Rename, File!SaveFails
<1>2. ~overlapped
  BY <1>1 DEF File!SaveStep, File!Clone, File!OpenTmp, File!Fill, File!Rename, File!SaveFails
<1>3. /\ file.is = "whole" /\ Due \subseteq file.rows /\ acked \subseteq rules
      /\ \A d \in Clients \ {c} : File!Saving(c) => ~File!Saving(d)
      /\ File!Saving(c) => WillHold(c, Due \cup Owed(c))
  BY <1>1, <1>2 DEF BookInv, SavedOK
<1>4. \A d \in Clients : Owed(d)' = Owed(d)
  BY <1>1 DEF Owed
<1>5. Due \cup Owed(c) \subseteq rules /\ rules \in SUBSET Rules
  BY <1>3 DEF Due, Owed, BookInv, TablesOK, Sound
<1>6. TablesOK
  BY DEF BookInv
<1>7. \A d \in Clients \ {c} : save'[d].at = save[d].at
  BY <1>1, <1>6, SaveViews DEF File!SaveStep
<1>8. \A d \in Clients \ {c} : ~File!Saving(d)'
  <2>1. CASE File!Clone(c)
    BY <1>2, <1>7, <2>1 DEF File!Clone, File!Saving
  <2>2. CASE ~File!Clone(c)
    <3>1. File!Saving(c)
      BY <1>1, <1>6, <2>2, SaveViews DEF File!SaveStep, File!Saving
    <3> QED BY <1>3, <1>7, <3>1 DEF File!Saving
  <2> QED BY <2>1, <2>2
<1>9. save'[c].at # "saved" => Due' \subseteq Due
  <2>1. ASSUME save'[c].at # "saved", NEW r \in rules, NEW d \in Clients, save'[d].at = "saved", r \in Owed(d)
        PROVE  r \in Due
    BY <1>7, <2>1 DEF Due
  <2> QED BY <1>1, <1>4, <2>1 DEF Due
<1>10. Due' \subseteq Due \cup Owed(c)
  <2>1. ASSUME NEW r \in rules, NEW d \in Clients, save'[d].at = "saved", r \in Owed(d)
        PROVE  r \in Due \cup Owed(c)
    BY <1>7, <2>1 DEF Due
  <2> QED BY <1>1, <1>4, <2>1 DEF Due
<1>11. ASSUME file'.is = "whole", Due' \subseteq file'.rows,
              File!Saving(c)' => WillHold(c, Due \cup Owed(c))'
       PROVE  SavedOK'
  BY <1>1, <1>3, <1>8, <1>11 DEF SavedOK
<1> HIDE DEF Due, Owed
<1>12. CASE File!Clone(c)
  <2>1. save'[c] = [at |-> "open", rows |-> rules, on |-> "nothing"]
    BY <1>6, <1>12, SaveViews
  <2>2. save'[c].at = "open" /\ save'[c].rows = rules
    BY <2>1
  <2>3. file' = file
    BY <1>12 DEF File!Clone
  <2> QED BY <1>3, <1>4, <1>5, <1>9, <1>11, <2>2, <2>3 DEF WillHold
<1>13. CASE File!OpenTmp(c)
  <2>1. /\ save[c].at = "open" /\ save'[c].at = "fill" /\ save'[c].on = "tmp"
        /\ save'[c].rows = save[c].rows /\ file' = file /\ tmp' = {File!Empty}
    BY <1>6, <1>13, SaveViews DEF File!OpenTmp
  <2>2. Due \cup Owed(c) \subseteq save[c].rows
    BY <1>3, <2>1 DEF WillHold, File!Saving
  <2> QED BY <1>3, <1>4, <1>9, <1>11, <2>1, <2>2 DEF WillHold, File!Empty
<1>14. CASE File!Fill(c)
  <2>1. save[c].at = "fill" /\ save'[c].at = "rename" /\ save[c].rows \in SUBSET Rules
    BY <1>6, <1>14, SaveViews DEF TablesOK, Saves
  <2>2. save[c].on = "tmp" /\ tmp = {File!Empty} /\ Due \cup Owed(c) \subseteq save[c].rows
    BY <1>3, <2>1 DEF WillHold, File!Saving
  <2>3. file' = file /\ tmp' = {File!Whole(save[c].rows)}
    BY <1>14, <2>2 DEF File!Fill, File!Written
  <2> QED BY <1>3, <1>4, <1>9, <1>11, <2>1, <2>2, <2>3 DEF WillHold, File!Whole
<1>15. CASE File!Rename(c)
  <2>1. save[c].at = "rename" /\ save'[c].at \in {"saved", "failed"}
    BY <1>6, <1>15, SaveViews
  <2>2. PICK rows \in SUBSET Rules : tmp = {File!Whole(rows)} /\ Due \cup Owed(c) \subseteq rows
    BY <1>3, <2>1 DEF WillHold, File!Saving
  <2>3. file' = File!Whole(rows)
    BY <1>15, <2>2 DEF File!Rename
  <2>4. file'.is = "whole" /\ file'.rows = rows
    BY <2>3 DEF File!Whole
  <2> QED BY <1>10, <1>11, <2>1, <2>2, <2>4 DEF File!Saving
<1>16. CASE File!SaveFails(c)
  <2>1. save'[c] = [at |-> "failed", rows |-> {}, on |-> "nothing"]
    BY <1>6, <1>16, SaveViews
  <2>2. save'[c].at = "failed"
    BY <2>1
  <2>3. file' = file
    BY <1>16 DEF File!SaveFails
  <2> QED BY <1>3, <1>9, <1>11, <2>2, <2>3 DEF File!Saving
<1> QED BY <1>1, <1>12, <1>13, <1>14, <1>15, <1>16 DEF File!SaveStep

\* Every step keeps what is confirmed, and what a save will confirm.
LEMMA SavedStep ==
  ASSUME BookInv, [AlertNext]_alertVars
  PROVE  SavedOK'
<1>0. SavedOK /\ TablesOK /\ RequestsOK
  BY DEF BookInv
<1>1. ASSUME NEW c \in Clients, NEW r \in Rules, CreateAlert(c, r) PROVE SavedOK'
  <2>1. /\ UNCHANGED <<file, tmp, overlapped, acked, running>> /\ running
        /\ asked' = [asked EXCEPT ![c] = [what |-> "create", rule |-> r]]
        /\ rules' = rules \cup {r} /\ r \notin created /\ asked[c] = Nothing
        /\ save' = [save EXCEPT ![c].at = "clone"]
    BY <1>1 DEF CreateAlert
  <2>2. save'[c].at = "clone" /\ \A d \in Clients \ {c} : save'[d] = save[d] /\ asked'[d] = asked[d]
    BY <1>0, <2>1 DEF TablesOK, RequestsOK
  <2>3. \A d \in Clients \ {c} : Owed(d)' \subseteq Owed(d)
    <3>1. Nothing.what = "nothing"
      BY DEF Nothing
    <3> QED BY <1>0, <2>1, <2>2, <3>1 DEF Owed, RequestsOK
  <2>4. Due' \subseteq Due
    <3>1. ASSUME NEW q \in rules', NEW d \in Clients, save'[d].at = "saved", q \in Owed(d)'
          PROVE  q \in Due
      <4>1. d # c /\ q \in Owed(d) /\ save[d].at = "saved"
        BY <2>2, <2>3, <3>1
      <4> QED BY <4>1 DEF Due, Owed
    <3> QED BY <2>1, <3>1 DEF Due
  <2>5. ~overlapped => acked' \subseteq rules'
    BY <1>0, <2>1 DEF SavedOK
  <2> QED BY <1>0, <2>1, <2>2, <2>3, <2>4, <2>5, SavesGoOn DEF File!Saving, SavedOK
<1>2. ASSUME NEW c \in Clients, NEW r \in Rules, DeleteAlert(c, r) PROVE SavedOK'
  <2>1. /\ UNCHANGED <<file, tmp, overlapped, save, running>> /\ running
        /\ asked' = [asked EXCEPT ![c] = [what |-> "delete", rule |-> r]]
        /\ rules' = rules \ {r} /\ acked' = acked \ {r}
    BY <1>2 DEF DeleteAlert, fileVars
  <2>2. \A d \in Clients : Owed(d)' \subseteq Owed(d)
    BY <1>0, <2>1 DEF Owed, RequestsOK
  <2>3. Due' \subseteq Due
    <3>1. ASSUME NEW q \in rules', NEW d \in Clients, save'[d].at = "saved", q \in Owed(d)'
          PROVE  q \in Due
      BY <2>1, <2>2, <3>1 DEF Due
    <3> QED BY <2>1, <3>1 DEF Due
  <2>4. ~overlapped => acked' \subseteq rules'
    BY <1>0, <2>1 DEF SavedOK
  <2> QED BY <1>0, <2>1, <2>2, <2>3, <2>4, SavesGoOn DEF SavedOK
<1>3. ASSUME NEW c \in Clients, ForgetState(c) PROVE SavedOK'
  <2>1. /\ UNCHANGED <<file, tmp, overlapped, acked, running, rules>> /\ running
        /\ asked' = [asked EXCEPT ![c] = [what |-> "deleted"]] /\ asked[c].what = "delete"
        /\ save' = [save EXCEPT ![c].at = "clone"]
    BY <1>3 DEF ForgetState
  <2>2. save'[c].at = "clone" /\ \A d \in Clients \ {c} : save'[d] = save[d] /\ asked'[d] = asked[d]
    BY <1>0, <2>1 DEF TablesOK, RequestsOK
  <2>3. \A d \in Clients \ {c} : Owed(d)' \subseteq Owed(d)
    BY <2>1, <2>2 DEF Owed
  <2>4. Due' \subseteq Due
    <3>1. ASSUME NEW q \in rules', NEW d \in Clients, save'[d].at = "saved", q \in Owed(d)'
          PROVE  q \in Due
      BY <2>1, <2>2, <2>3, <3>1 DEF Due
    <3> QED BY <2>1, <3>1 DEF Due
  <2>5. ~overlapped => acked' \subseteq rules'
    BY <1>0, <2>1 DEF SavedOK
  <2> QED BY <1>0, <2>1, <2>2, <2>3, <2>4, <2>5, SavesGoOn DEF File!Saving, SavedOK
<1>4. ASSUME NEW c \in Clients, AnswerAlert(c) PROVE SavedOK'
  <2>1. /\ UNCHANGED <<file, tmp, overlapped, running, rules>> /\ running
        /\ asked' = [asked EXCEPT ![c] = Nothing]
        /\ acked' = IF save[c].at = "saved" /\ asked[c].what = "create" /\ asked[c].rule \in rules
                    THEN acked \cup {asked[c].rule} ELSE acked
        /\ save' = [save EXCEPT ![c] = [at |-> "none", rows |-> {}, on |-> "nothing"]]
    BY <1>4 DEF AnswerAlert, File!NoSave, File!At
  <2>2. save'[c].at = "none" /\ \A d \in Clients \ {c} : save'[d] = save[d] /\ asked'[d] = asked[d]
    BY <1>0, <2>1 DEF TablesOK, RequestsOK
  <2>3. \A d \in Clients \ {c} : Owed(d)' \subseteq Owed(d)
    BY <2>1, <2>2 DEF Owed
  <2>4. acked' \subseteq Due
    BY <2>1 DEF Due, Owed
  <2>5. Due' \subseteq Due
    <3>1. ASSUME NEW q \in rules', NEW d \in Clients, save'[d].at = "saved", q \in Owed(d)'
          PROVE  q \in Due
      BY <2>1, <2>2, <2>3, <3>1 DEF Due
    <3> QED BY <2>1, <2>4, <3>1 DEF Due
  <2>6. ~overlapped => acked' \subseteq rules'
    BY <1>0, <2>1 DEF SavedOK
  <2> QED BY <1>0, <2>1, <2>2, <2>3, <2>5, <2>6, SavesGoOn DEF File!Saving, SavedOK
<1>5. CASE AlertCrash
  <2>1. /\ UNCHANGED <<file, tmp, overlapped, acked>> /\ ~running'
        /\ \A d \in Clients : save'[d].at = "none"
    BY <1>5 DEF AlertCrash, File!DropSaves, File!NoSave, File!At
  <2>2. Due' \subseteq Due
    BY <2>1 DEF Due
  <2> QED BY <1>0, <2>1, <2>2, SavesGoOn DEF File!Saving
<1>6. CASE AlertOpen
  <2>1. UNCHANGED <<file, tmp, overlapped, acked, save>> /\ rules' = file.rows /\ ~running
    BY <1>6 DEF AlertOpen, File!Loads, clientVars, fileVars
  <2>2. \A d \in Clients : save[d].at = "none"
    <3>1. Nothing.what = "nothing"
      BY DEF Nothing
    <3> QED BY <1>0, <2>1, <3>1 DEF RequestsOK
  <2>3. Due' \subseteq Due
    BY <2>1, <2>2 DEF Due
  <2>4. ~overlapped => acked' \subseteq rules'
    BY <1>0, <2>1 DEF SavedOK, Due
  <2> QED BY <1>0, <2>1, <2>2, <2>3, <2>4, SavesGoOn DEF File!Saving, SavedOK
<1>7. CASE UNCHANGED BookVars
  <2>1. Due' = Due /\ \A d \in Clients : Owed(d)' = Owed(d)
    BY <1>7 DEF BookVars, Due, Owed
  <2>2. ~overlapped /\ running => acked \subseteq rules
    BY <1>0 DEF SavedOK
  <2> QED BY <1>0, <1>7, <2>1, <2>2, SavesGoOn DEF BookVars, SavedOK
<1> QED BY <1>1, <1>2, <1>3, <1>4, <1>5, <1>6, <1>7, SaveStepSaves, EvaluatorApart
        DEF AlertNext, Requests, alertVars, BookVars, clientVars, fileVars

\* The inductive invariant of the table, its file and its requests.
THEOREM BookInvariant == AlertSpec => []BookInv
<1>1. AlertInit => BookInv
  <2> SUFFICES ASSUME AlertInit PROVE BookInv
    OBVIOUS
  <2>1. /\ file = [is |-> "whole", rows |-> {}] /\ tmp = {} /\ overlapped = FALSE
        /\ save = [d \in Clients |-> [at |-> "none", rows |-> {}, on |-> "nothing"]]
        /\ rules = {} /\ acked = {} /\ created = {} /\ running = TRUE
        /\ asked = [c \in Clients |-> Nothing]
    BY DEF AlertInit, File!InitFile, File!Whole, File!NoSave, File!At
  <2>2. [at |-> "none", rows |-> {}, on |-> "nothing"] \in Saves /\ file \in Texts
    BY <2>1 DEF Saves, SaveStages, Texts
  <2>3. TablesOK
    BY <2>1, <2>2 DEF TablesOK, Sound
  <2>4. RequestsOK
    BY <2>1 DEF RequestsOK
  <2>5. SavedOK
    BY <2>1 DEF SavedOK, Due, File!Saving
  <2> QED BY <2>3, <2>4, <2>5 DEF BookInv
<1>2. BookInv /\ [AlertNext]_alertVars => BookInv'
  BY TablesStep, RequestsStep, SavedStep DEF BookInv
<1> QED BY <1>1, <1>2, PTL DEF AlertSpec

\* The file parses at any time, and a confirmed rule is in it, through deletions of
\* others, failed saves and deaths, unless two saves were under way at once.
THEOREM ConfirmedMeansSaved == AlertSpec => []ConfirmedRulesAreSaved
<1>1. BookInv => ConfirmedRulesAreSaved
  BY DEF BookInv, TablesOK, SavedOK, Due, ConfirmedRulesAreSaved
<1> QED BY <1>1, BookInvariant, PTL

-----------------------------------------------------------------------------
(* The evaluator.                                                          *)

EvaluatorOK ==
  /\ states \in [Names -> Entries] /\ streak \in [Rules -> 0 .. Never] /\ pass \in Passes
  /\ recent \in Seq(Events) /\ Len(recent) <= RecentCapacity
  /\ pass.at = "idle" => pass.todo = {} /\ pass.lag = 0
  /\ \A q, r \in pass.todo : NameOf[q] = NameOf[r] => q = r
  /\ pass.todo \subseteq created
  /\ ~running => recent = <<>> /\ pass.todo = {} /\ \A n \in Names : states[n].of = "nobody"

EntryOf(r) == states[NameOf[r]]

\* An entry was begun by nobody, wiped, or begun by a rule of its name.
EntriesOK ==
  \A n \in Names :
    /\ states[n].of = "nobody" => states[n].is = "ok" /\ states[n].since = Never
    /\ states[n].of \in Rules => states[n].of \in created /\ NameOf[states[n].of] = n /\ states[n].since # Never

\* What a rule that is there, or still in the pass, began has held that long; a streak
\* that the pass will look at is as old as the pass.
StreaksOK ==
  /\ \A r \in rules \cup pass.todo :
       EntryOf(r).of = r => streak[r] # Never /\ streak[r] >= EntryOf(r).since
  /\ \A r \in pass.todo : streak[r] >= pass.lag

\* What fires keeps firing as long as it holds.
FiringOK ==
  \A r \in rules : EntryOf(r).of = r /\ EntryOf(r).is = "firing" => EntryOf(r).since - pass.lag >= ForOf[r]

Unheard(r) == \A i \in 1 .. Len(recent) : recent[i].rule # r

\* A rule that took the name of one that is still in the pass has not begun.
NamesakesOK ==
  \A q \in pass.todo, r \in rules :
    q # r /\ NameOf[q] = NameOf[r] => Unheard(r) /\ EntryOf(r).of # r

LastOf(i) == \A k \in i + 1 .. Len(recent) : recent[k].rule # recent[i].rule

\* The last event of a rule that is there tells its state, unless that was wiped.
HeardOK ==
  \A i \in 1 .. Len(recent) :
    LET r == recent[i].rule
    IN  /\ r \in created
        /\ r \in rules /\ recent[i].own =>
             /\ EntryOf(r).of \in {r, "nobody", "wiped"}
             /\ LastOf(i) /\ EntryOf(r).of \in {r, "nobody"} => (EntryOf(r).is = "firing" <=> recent[i].is = "firing")

EventsInv == /\ EvaluatorOK /\ EntriesOK /\ StreaksOK /\ FiringOK /\ NamesakesOK /\ HeardOK
             /\ FiresAfterHolding /\ TransitionsAlternate

\* Ages are numbers, and a streak as old as ages get is old enough for every rule.
LEMMA Bounds ==
  /\ MaxFor \in Nat /\ MaxLag \in Nat /\ MaxAge = MaxFor + MaxLag /\ Never = MaxAge + 1
  /\ MaxAge \in Nat /\ Never \in Nat /\ Ages = 0 .. MaxAge
  /\ \A r \in Rules : ForOf[r] \in Nat /\ ForOf[r] <= MaxFor
<1>1. PICK q \in Rules : \A r \in Rules : ForOf[r] <= ForOf[q]
  BY AlertsAssumption DEF AlertsAssumption
<1>2. \A r \in Rules : ForOf[r] \in Nat
  BY AlertsAssumption DEF AlertsAssumption
<1>3. \E f \in {ForOf[r] : r \in Rules} : \A r \in Rules : ForOf[r] <= f
  BY <1>1
<1>4. MaxFor \in {ForOf[r] : r \in Rules} /\ \A r \in Rules : ForOf[r] <= MaxFor
  BY <1>3 DEF MaxFor
<1>5. MaxFor \in Nat
  BY <1>2, <1>4
<1>6. MaxLag \in Nat
  BY AlertsAssumption DEF AlertsAssumption
<1> QED BY <1>2, <1>4, <1>5, <1>6 DEF MaxAge, Never, Ages

\* The two entries that say nothing.
LEMMA Blanks ==
  /\ NoState \in Entries /\ NoState.is = "ok" /\ NoState.since = Never /\ NoState.of = "nobody"
  /\ Wiped \in Entries /\ Wiped.is = "ok" /\ Wiped.since = Never /\ Wiped.of = "wiped"
  /\ "nobody" \notin Rules /\ "wiped" \notin Rules
<1>1. Never \in 0 .. Never
  BY Bounds
<1>2. NoState = [is |-> "ok", since |-> Never, of |-> "nobody"]
  BY DEF NoState
<1>3. Wiped = [is |-> "ok", since |-> Never, of |-> "wiped"]
  BY DEF Wiped, NoState
<1>4. "nobody" \notin Rules /\ "wiped" \notin Rules
  BY AlertsAssumption DEF AlertsAssumption
<1> HIDE DEF NoState, Wiped
<1>5. NoState \in Entries /\ Wiped \in Entries
  BY <1>1, <1>2, <1>3 DEF Entries, Kinds
<1> QED BY <1>2, <1>3, <1>4, <1>5

\* What an evaluation makes of an entry.
LEMMA Outcomes ==
  ASSUME NEW r \in Rules, NEW old \in Entries, pass \in Passes
  PROVE  /\ Satisfied(r, old) \in Entries
         /\ Satisfied(r, old).since = (IF old.since = Never THEN pass.lag ELSE old.since)
         /\ Satisfied(r, old).since # Never
         /\ Satisfied(r, old).of = (IF old.of = "nobody" THEN r ELSE old.of)
         /\ Satisfied(r, old).is \in {"firing", "pending"}
         /\ Satisfied(r, old).is = "firing" <=> Satisfied(r, old).since - pass.lag >= ForOf[r]
         /\ Unsatisfied(r, old) = IF old.of = "wiped" /\ old.is # "firing" THEN Wiped ELSE NoState
         /\ Unsatisfied(r, old) \in Entries
<1>1. PICK is \in Kinds, since \in 0 .. Never, of \in Rules \cup {"nobody", "wiped"} :
        old = [is |-> is, since |-> since, of |-> of]
  BY DEF Entries
<1>2. PICK lag \in 0 .. MaxLag : pass.lag = lag
  BY DEF Passes
<1> DEFINE age == IF since = Never THEN lag ELSE since
<1>3. age \in 0 .. Never /\ age # Never
  <2>1. Never \in Nat /\ MaxLag \in Nat /\ Never > MaxLag
    BY Bounds
  <2> QED BY <2>1
<1> DEFINE starts == IF of = "nobody" THEN r ELSE of
<1> DEFINE state == IF age - lag >= ForOf[r] THEN "firing" ELSE "pending"
<1>4. Satisfied(r, old) = [is |-> state, since |-> age, of |-> starts]
  BY <1>1, <1>2 DEF Satisfied
<1>5. state \in Kinds /\ starts \in Rules \cup {"nobody", "wiped"}
  BY DEF Kinds
<1>6. state = "firing" <=> age - lag >= ForOf[r]
  OBVIOUS
<1>7. state \in {"firing", "pending"}
  OBVIOUS
<1>8. age = (IF old.since = Never THEN pass.lag ELSE old.since) /\ starts = (IF old.of = "nobody" THEN r ELSE old.of)
  BY <1>1, <1>2
<1> HIDE DEF age, starts, state
<1>9. Satisfied(r, old) \in Entries
  BY <1>3, <1>4, <1>5 DEF Entries
<1>10. Unsatisfied(r, old) = IF old.of = "wiped" /\ old.is # "firing" THEN Wiped ELSE NoState
  BY DEF Unsatisfied
<1> QED BY <1>2, <1>3, <1>4, <1>6, <1>7, <1>8, <1>9, <1>10, Blanks

\* What publishing does to the ring: its events move up by at most one.
LEMMA Published ==
  ASSUME recent \in Seq(Events), Len(recent) <= RecentCapacity, NEW event \in Events, Publish(event)
  PROVE  /\ recent' \in Seq(Events) /\ Len(recent') <= RecentCapacity
         /\ \E d \in {0, 1} :
              /\ d <= Len(recent) /\ Len(recent') = Len(recent) + 1 - d
              /\ recent'[Len(recent')] = event
              /\ \A i \in 1 .. Len(recent) - d : recent'[i] = recent[i + d]
<1>0. RecentCapacity \in Nat \ {0}
  BY AlertsAssumption DEF AlertsAssumption
<1>1. CASE Len(recent) >= RecentCapacity
  <2>1. recent' = Append(Tail(recent), event) /\ recent # <<>>
    BY <1>0, <1>1 DEF Publish
  <2>2. /\ Tail(recent) \in Seq(Events) /\ Len(Tail(recent)) = Len(recent) - 1
        /\ \A i \in 1 .. Len(recent) - 1 : Tail(recent)[i] = recent[i + 1]
    BY <2>1, HeadTailProperties
  <2>3. /\ recent' \in Seq(Events) /\ Len(recent') = Len(Tail(recent)) + 1
        /\ recent'[Len(Tail(recent)) + 1] = event
        /\ \A i \in 1 .. Len(Tail(recent)) : recent'[i] = Tail(recent)[i]
    BY <2>1, <2>2, AppendProperties
  <2>4. Len(recent) \in Nat /\ Len(recent) >= 1
    BY <1>0, <1>1
  <2>5. Len(recent') = Len(recent) /\ recent'[Len(recent')] = event
    BY <2>2, <2>3, <2>4
  <2>6. \A i \in 1 .. Len(recent) - 1 : recent'[i] = recent[i + 1]
    BY <2>2, <2>3, <2>4
  <2>7. Len(recent) <= RecentCapacity /\ 1 \in {0, 1}
    OBVIOUS
  <2> QED BY <2>3, <2>4, <2>5, <2>6, <2>7
<1>2. CASE ~(Len(recent) >= RecentCapacity)
  <2>1. recent' = Append(recent, event)
    BY <1>2 DEF Publish
  <2>2. /\ recent' \in Seq(Events) /\ Len(recent') = Len(recent) + 1
        /\ recent'[Len(recent) + 1] = event
        /\ \A i \in 1 .. Len(recent) : recent'[i] = recent[i]
    BY <2>1, AppendProperties
  <2>3. Len(recent) \in Nat
    OBVIOUS
  <2> QED BY <1>0, <1>2, <2>2, <2>3
<1> QED BY <1>1, <1>2

\* What becomes of an entry, as Outcomes has it.
Becomes(r, matched, old, new) ==
  /\ new \in Entries
  /\ matched =>
       /\ new.since = (IF old.since = Never THEN pass.lag ELSE old.since) /\ new.since # Never
       /\ new.of = (IF old.of = "nobody" THEN r ELSE old.of)
       /\ new.is \in {"firing", "pending"}
       /\ new.is = "firing" <=> new.since - pass.lag >= ForOf[r]
  /\ ~matched => new = IF old.of = "wiped" /\ old.is # "firing" THEN Wiped ELSE NoState

Seen(r, matched) == IF ~matched THEN Never ELSE IF streak[r] = Never THEN pass.lag ELSE streak[r]

\* What an evaluation publishes.
Reports(r, matched, old, new, event) ==
  /\ event \in Events /\ event.rule = r /\ event.is = new.is
  /\ event.own <=> old.of \in {r, "nobody"}
  /\ event.live <=> r \in rules
  /\ event.early <=> matched /\ Seen(r, matched) - pass.lag < ForOf[r]

\* The ring moved up for one more event.
MovedUp(event, d) ==
  /\ d \in {0, 1} /\ d <= Len(recent) /\ Len(recent') = Len(recent) + 1 - d
  /\ recent'[Len(recent')] = event
  /\ \A i \in 1 .. Len(recent) - d : recent'[i] = recent[i + d]

\* An evaluation changes one entry and one streak, and publishes at most one event.
LEMMA Evaluated ==
  ASSUME EvaluatorOK, NEW r \in Rules, NEW matched \in BOOLEAN, Evaluate(r, matched)
  PROVE  /\ running /\ r \in pass.todo /\ pass.at = "evaluate"
         /\ UNCHANGED <<rules, created, running>>
         /\ pass' \in Passes /\ pass'.at = "evaluate" /\ pass'.todo = pass.todo \ {r} /\ pass'.lag = pass.lag
         /\ streak' = [streak EXCEPT ![r] = Seen(r, matched)] /\ Seen(r, matched) \in 0 .. Never
         /\ recent' \in Seq(Events) /\ Len(recent') <= RecentCapacity
         /\ \E new :
              /\ Becomes(r, matched, EntryOf(r), new)
              /\ states' = [states EXCEPT ![NameOf[r]] = new]
              /\ IF WorthReporting(EntryOf(r), new)
                 THEN \E event, d : Reports(r, matched, EntryOf(r), new, event) /\ MovedUp(event, d)
                 ELSE recent' = recent
<1> DEFINE old == EntryOf(r)
<1> DEFINE new == IF matched THEN Satisfied(r, old) ELSE Unsatisfied(r, old)
<1> DEFINE early == matched /\ Seen(r, matched) - pass.lag < ForOf[r]
<1> DEFINE event == [rule |-> r, is |-> new.is, own |-> old.of \in {r, "nobody"}, live |-> r \in rules, early |-> early]
<1>1. NameOf[r] \in Names /\ old \in Entries /\ pass \in Passes
  BY DEF EvaluatorOK, EntryOf, Names
<1>2. Becomes(r, matched, old, new)
  BY <1>1, Outcomes DEF Becomes
<1>3. /\ running /\ r \in pass.todo /\ pass.at = "evaluate"
      /\ UNCHANGED <<rules, created, running>>
      /\ states' = [states EXCEPT ![NameOf[r]] = new]
      /\ streak' = [streak EXCEPT ![r] = Seen(r, matched)]
      /\ IF WorthReporting(old, new)
         THEN Publish(event) /\ pass' = [pass EXCEPT !.todo = @ \ {r}, !.events = @ + 1]
         ELSE recent' = recent /\ pass' = [pass EXCEPT !.todo = @ \ {r}]
  BY DEF Evaluate, Seen, EntryOf, clientVars
<1> HIDE DEF new, old
<1>4. pass' \in Passes /\ pass'.at = "evaluate" /\ pass'.todo = pass.todo \ {r} /\ pass'.lag = pass.lag
  <2>1. PICK at \in {"idle", "evaluate"}, todo \in SUBSET Rules, events \in Nat, lag \in 0 .. MaxLag :
          pass = [at |-> at, todo |-> todo, events |-> events, lag |-> lag]
    BY <1>1 DEF Passes
  <2>2. \/ pass' = [at |-> at, todo |-> todo \ {r}, events |-> events + 1, lag |-> lag]
        \/ pass' = [at |-> at, todo |-> todo \ {r}, events |-> events, lag |-> lag]
    <3>1. CASE WorthReporting(old, new)
      <4>1. pass' = [pass EXCEPT !.todo = @ \ {r}, !.events = @ + 1]
        BY <1>3, <3>1
      <4> QED BY <2>1, <4>1
    <3>2. CASE ~WorthReporting(old, new)
      BY <1>3, <2>1, <3>2
    <3> QED BY <3>1, <3>2
  <2>3. todo \ {r} \in SUBSET Rules /\ events + 1 \in Nat
    OBVIOUS
  <2> QED BY <1>3, <2>1, <2>2, <2>3 DEF Passes
<1>5. Seen(r, matched) \in 0 .. Never
  <2>1. pass.lag \in 0 .. MaxLag
    BY <1>1 DEF Passes
  <2>2. streak[r] \in 0 .. Never
    BY DEF EvaluatorOK
  <2> QED BY <2>1, <2>2, Bounds DEF Seen
<1>6. Reports(r, matched, old, new, event) /\ event \in Events
  <2>1. new.is \in Kinds
    BY <1>2 DEF Becomes, Entries
  <2>2. early \in BOOLEAN
    OBVIOUS
  <2>3. early <=> matched /\ Seen(r, matched) - pass.lag < ForOf[r]
    OBVIOUS
  <2> HIDE DEF early
  <2>4. (old.of \in {r, "nobody"}) \in BOOLEAN /\ (r \in rules) \in BOOLEAN
    OBVIOUS
  <2>5. event \in Events
    BY <2>1, <2>2, <2>4 DEF Events
  <2> QED BY <2>3, <2>5 DEF Reports
<1>7. recent \in Seq(Events) /\ Len(recent) <= RecentCapacity
  BY DEF EvaluatorOK
<1> HIDE DEF event
<1>8. CASE WorthReporting(old, new)
  <2>1. Publish(event)
    BY <1>3, <1>8
  <2>2. /\ recent' \in Seq(Events) /\ Len(recent') <= RecentCapacity /\ \E d : MovedUp(event, d)
    BY <1>6, <1>7, <2>1, Published DEF MovedUp
  <2> QED BY <1>2, <1>3, <1>4, <1>5, <1>6, <1>8, <2>2 DEF old
<1>9. CASE ~WorthReporting(old, new)
  BY <1>2, <1>3, <1>4, <1>5, <1>7, <1>9 DEF old
<1> QED BY <1>8, <1>9

\* An evaluation keeps what is known of entries, streaks and events.
LEMMA EvaluateStep ==
  ASSUME TablesOK, EventsInv, NEW r \in Rules, NEW matched \in BOOLEAN, Evaluate(r, matched)
  PROVE  EventsInv'
<1> DEFINE old == EntryOf(r)
<1>0. EvaluatorOK /\ EntriesOK /\ StreaksOK /\ FiringOK /\ NamesakesOK /\ HeardOK /\ FiresAfterHolding /\ TransitionsAlternate
  BY DEF EventsInv
<1>1. /\ running /\ r \in pass.todo /\ pass.at = "evaluate"
      /\ UNCHANGED <<rules, created, running>>
      /\ pass' \in Passes /\ pass'.at = "evaluate" /\ pass'.todo = pass.todo \ {r} /\ pass'.lag = pass.lag
      /\ streak' = [streak EXCEPT ![r] = Seen(r, matched)] /\ Seen(r, matched) \in 0 .. Never
      /\ recent' \in Seq(Events) /\ Len(recent') <= RecentCapacity
  BY <1>0, Evaluated
<1>2. PICK new :
        /\ Becomes(r, matched, old, new)
        /\ states' = [states EXCEPT ![NameOf[r]] = new]
        /\ IF WorthReporting(old, new)
           THEN \E event, d : Reports(r, matched, old, new, event) /\ MovedUp(event, d)
           ELSE recent' = recent
  <2> HIDE DEF old
  <2> QED BY <1>0, Evaluated DEF old
<1>3. /\ NameOf[r] \in Names /\ old \in Entries /\ old = states[NameOf[r]]
      /\ states \in [Names -> Entries] /\ streak \in [Rules -> 0 .. Never] /\ pass.lag \in 0 .. MaxLag
      /\ r \in created /\ created \subseteq Rules /\ rules \subseteq created
      /\ \A q \in pass.todo : NameOf[q] = NameOf[r] => q = r
  BY <1>0, <1>1 DEF EvaluatorOK, EntryOf, Names, Passes, TablesOK, Sound
<1>4. /\ states' \in [Names -> Entries] /\ states'[NameOf[r]] = new /\ new \in Entries
      /\ \A n \in Names : n # NameOf[r] => states'[n] = states[n]
  BY <1>2, <1>3 DEF Becomes
<1>5. /\ EntryOf(r)' = new
      /\ \A q \in Rules : NameOf[q] # NameOf[r] => EntryOf(q)' = EntryOf(q)
      /\ \A q \in Rules : NameOf[q] = NameOf[r] => EntryOf(q)' = new /\ EntryOf(q) = old
  BY <1>4 DEF EntryOf, Names
<1>6. /\ streak' \in [Rules -> 0 .. Never] /\ streak'[r] = Seen(r, matched)
      /\ \A q \in Rules : q # r => streak'[q] = streak[q]
  BY <1>1, <1>3
<1>7. /\ old.of = "nobody" => old.is = "ok" /\ old.since = Never
      /\ old.of \in Rules => old.of \in created /\ NameOf[old.of] = NameOf[r] /\ old.since # Never
      /\ old.is \in Kinds /\ old.since \in 0 .. Never
  BY <1>0, <1>3 DEF EntriesOK, Entries
<1>8. /\ matched => /\ new.since = (IF old.since = Never THEN pass.lag ELSE old.since)
                    /\ new.since # Never /\ new.of = (IF old.of = "nobody" THEN r ELSE old.of)
                    /\ new.is \in {"firing", "pending"}
                    /\ new.is = "firing" <=> new.since - pass.lag >= ForOf[r]
      /\ ~matched => /\ new.is = "ok" /\ new.since = Never /\ new.of \in {"nobody", "wiped"}
                     /\ new.of = "nobody" <=> ~(old.of = "wiped" /\ old.is # "firing")
  BY <1>2, Blanks DEF Becomes
<1>9. /\ old.of = r => streak[r] # Never /\ streak[r] >= old.since
      /\ streak[r] >= pass.lag /\ streak[r] \in 0 .. Never
  BY <1>0, <1>1, <1>3 DEF StreaksOK, EntryOf
<1>10. new.of = r => /\ matched /\ Seen(r, matched) # Never /\ Seen(r, matched) >= new.since
  BY <1>3, <1>7, <1>8, <1>9, Blanks, Bounds DEF Seen
<1>11. \A q \in rules : q # r /\ NameOf[q] = NameOf[r] => Unheard(q) /\ old.of # q
  BY <1>0, <1>1, <1>3, <1>5 DEF NamesakesOK
<1> HIDE DEF old
<1>20. EvaluatorOK'
  BY <1>0, <1>1, <1>4, <1>6 DEF EvaluatorOK
<1>21. EntriesOK'
  <2>1. /\ new.of = "nobody" => new.is = "ok" /\ new.since = Never
        /\ new.of \in Rules => new.of \in created /\ NameOf[new.of] = NameOf[r] /\ new.since # Never
    BY <1>3, <1>7, <1>8, Blanks
  <2> QED BY <1>0, <1>1, <1>4, <2>1 DEF EntriesOK
<1>22. StreaksOK'
  <2>1. ASSUME NEW q \in rules \cup (pass.todo \ {r}), EntryOf(q)'.of = q
        PROVE  streak'[q] # Never /\ streak'[q] >= EntryOf(q)'.since
    <3>1. q \in Rules /\ q \in rules \cup pass.todo
      BY <1>0, <1>3, <2>1 DEF TablesOK, EvaluatorOK, Passes
    <3>2. CASE NameOf[q] # NameOf[r]
      BY <1>0, <1>5, <1>6, <2>1, <3>1, <3>2 DEF StreaksOK
    <3>3. CASE q = r
      BY <1>5, <1>6, <1>10, <2>1, <3>3
    <3>4. CASE q # r /\ NameOf[q] = NameOf[r]
      <4>1. q \in rules /\ old.of # q /\ new.of = q
        BY <1>3, <1>5, <1>11, <2>1, <3>1, <3>4
      <4> QED BY <1>8, <3>1, <3>4, <4>1, Blanks
    <3> QED BY <3>2, <3>3, <3>4
  <2>2. \A q \in pass.todo \ {r} : streak'[q] >= pass.lag
    BY <1>0, <1>6 DEF StreaksOK, EvaluatorOK, Passes
  <2> QED BY <1>1, <2>1, <2>2 DEF StreaksOK
<1>23. FiringOK'
  <2>1. ASSUME NEW q \in rules, EntryOf(q)'.of = q, EntryOf(q)'.is = "firing"
        PROVE  EntryOf(q)'.since - pass.lag >= ForOf[q]
    <3>1. q \in Rules
      BY <1>3, <2>1
    <3>2. CASE NameOf[q] # NameOf[r]
      BY <1>0, <1>5, <2>1, <3>1, <3>2 DEF FiringOK
    <3>3. CASE q = r
      BY <1>5, <1>8, <2>1, <3>3
    <3>4. CASE q # r /\ NameOf[q] = NameOf[r]
      <4>1. old.of # q /\ new.of = q
        BY <1>5, <1>11, <2>1, <3>1, <3>4
      <4> QED BY <1>8, <3>1, <3>4, <4>1, Blanks
    <3> QED BY <3>2, <3>3, <3>4
  <2> QED BY <1>1, <2>1 DEF FiringOK
\* What is reported is reported of r, whose last event told the state it had.
<1>12. CASE ~WorthReporting(old, new)
  <2>1. recent' = recent
    BY <1>2, <1>12
  <2>2. NamesakesOK'
    <3>1. ASSUME NEW q \in pass.todo \ {r}, NEW s \in rules, q # s, NameOf[q] = NameOf[s]
          PROVE  Unheard(s)' /\ EntryOf(s)'.of # s
      <4>1. NameOf[s] # NameOf[r] /\ s \in Rules
        BY <1>1, <1>3, <3>1
      <4> QED BY <1>0, <1>5, <2>1, <3>1, <4>1 DEF NamesakesOK, Unheard
    <3> QED BY <1>1, <3>1 DEF NamesakesOK
  <2>3. HeardOK'
    <3>1. ASSUME NEW i \in 1 .. Len(recent), NEW s \in rules, recent[i].rule = s, recent[i].own
          PROVE  /\ EntryOf(s)'.of \in {s, "nobody", "wiped"}
                 /\ LastOf(i)' /\ EntryOf(s)'.of \in {s, "nobody"}
                      => (EntryOf(s)'.is = "firing" <=> recent[i].is = "firing")
      <4>1. /\ s \in created /\ s \in Rules /\ EntryOf(s).of \in {s, "nobody", "wiped"}
            /\ LastOf(i) /\ EntryOf(s).of \in {s, "nobody"} => (EntryOf(s).is = "firing" <=> recent[i].is = "firing")
        BY <1>0, <1>3, <3>1 DEF HeardOK
      <4>2. LastOf(i)' => LastOf(i)
        BY <2>1 DEF LastOf
      <4>3. CASE NameOf[s] # NameOf[r]
        BY <1>5, <4>1, <4>2, <4>3
      <4>4. CASE NameOf[s] = NameOf[r]
        <5>1. s = r
          BY <1>11, <3>1, <4>4 DEF Unheard
        <5>2. old.of \in {r, "nobody", "wiped"} /\ EntryOf(s)' = new
          BY <1>5, <4>1, <4>4, <5>1 DEF old
        <5>3. new.of \in {r, "nobody", "wiped"}
          BY <1>8, <5>2
        <5>4. ASSUME LastOf(i)', new.of \in {r, "nobody"}
              PROVE  new.is = "firing" <=> recent[i].is = "firing"
          <6>1. old.of \in {r, "nobody"} \/ ~matched
            BY <1>8, <5>4, Blanks
          <6>2. CASE matched
            <7>1. old.of \in {r, "nobody"} /\ (old.is = "firing" <=> recent[i].is = "firing")
              BY <4>1, <4>2, <5>1, <5>4, <6>1, <6>2 DEF old
            <7>2. old.is = "firing" => new.is = "firing"
              <8>1. ASSUME old.is = "firing" PROVE new.is = "firing"
                <9>1. old.of = r /\ r \in rules
                  BY <1>7, <3>1, <5>1, <7>1, <8>1
                <9>2. old.since - pass.lag >= ForOf[r] /\ old.since # Never
                  BY <1>0, <1>3, <1>7, <8>1, <9>1 DEF FiringOK, old
                <9> QED BY <1>8, <6>2, <9>2
              <8> QED BY <8>1
            <7>3. new.is = "firing" => old.is = "firing"
              BY <1>7, <1>12 DEF WorthReporting, Kinds
            <7> QED BY <7>1, <7>2, <7>3
          <6>3. CASE ~matched
            <7>1. new.is = "ok" /\ old.is # "firing"
              BY <1>8, <1>12, <6>3 DEF WorthReporting
            <7>2. old.of \in {r, "nobody"}
              BY <1>8, <5>2, <5>4, <6>3, <7>1, <1>3, Blanks
            <7> QED BY <4>1, <4>2, <5>1, <5>4, <7>1, <7>2 DEF old
          <6> QED BY <6>2, <6>3
        <5> QED BY <5>1, <5>2, <5>3, <5>4
      <4> QED BY <4>3, <4>4
    <3> QED BY <1>0, <1>1, <2>1, <3>1 DEF HeardOK
  <2>4. FiresAfterHolding' /\ TransitionsAlternate'
    BY <1>0, <2>1 DEF FiresAfterHolding, TransitionsAlternate
  <2> QED BY <1>20, <1>21, <1>22, <1>23, <2>2, <2>3, <2>4 DEF EventsInv
<1>13. CASE WorthReporting(old, new)
  <2>1. PICK event, d : Reports(r, matched, old, new, event) /\ MovedUp(event, d)
    BY <1>2, <1>13
  <2>2. /\ Len(recent) \in Nat /\ Len(recent') \in Nat /\ d \in 0 .. 1 /\ Len(recent') = Len(recent) + 1 - d
        /\ recent'[Len(recent')] = event
        /\ \A i \in 1 .. Len(recent') - 1 : recent'[i] = recent[i + d] /\ i + d \in 1 .. Len(recent)
    BY <1>0, <1>1, <2>1 DEF MovedUp, EvaluatorOK
  <2>3. event.rule = r /\ event.is = new.is /\ (event.own <=> old.of \in {r, "nobody"})
        /\ (event.live <=> r \in rules) /\ (event.early <=> matched /\ Seen(r, matched) - pass.lag < ForOf[r])
    BY <2>1 DEF Reports
  <2>4. \/ new.is = "firing" /\ old.is # "firing" /\ matched
        \/ new.is = "ok" /\ old.is = "firing" /\ ~matched
    BY <1>8, <1>13 DEF WorthReporting
  <2>5. \A i \in 1 .. Len(recent') : i = Len(recent') \/ i \in 1 .. Len(recent') - 1
    BY <2>2
  <2>6. NamesakesOK'
    <3>1. ASSUME NEW q \in pass.todo \ {r}, NEW s \in rules, q # s, NameOf[q] = NameOf[s]
          PROVE  Unheard(s)' /\ EntryOf(s)'.of # s
      <4>1. NameOf[s] # NameOf[r] /\ s \in Rules /\ s # r
        BY <1>1, <1>3, <3>1
      <4>2. Unheard(s) /\ EntryOf(s)'.of # s
        BY <1>0, <1>5, <3>1, <4>1 DEF NamesakesOK
      <4> QED BY <2>2, <2>3, <2>5, <4>1, <4>2 DEF Unheard
    <3> QED BY <1>1, <3>1 DEF NamesakesOK
  <2>7. HeardOK'
    <3>1. ASSUME NEW i \in 1 .. Len(recent') - 1, NEW s \in rules, recent'[i].rule = s, recent'[i].own
          PROVE  /\ EntryOf(s)'.of \in {s, "nobody", "wiped"}
                 /\ LastOf(i)' /\ EntryOf(s)'.of \in {s, "nobody"}
                      => (EntryOf(s)'.is = "firing" <=> recent'[i].is = "firing")
      <4> DEFINE j == i + d
      <4>0. j \in 1 .. Len(recent) /\ recent'[i] = recent[j]
        BY <2>2
      <4>1. /\ s \in created /\ s \in Rules /\ EntryOf(s).of \in {s, "nobody", "wiped"}
            /\ LastOf(j) /\ EntryOf(s).of \in {s, "nobody"} => (EntryOf(s).is = "firing" <=> recent'[i].is = "firing")
        BY <1>0, <1>3, <3>1, <4>0 DEF HeardOK
      <4>2. LastOf(i)' => LastOf(j)
        <5>1. ASSUME LastOf(i)', NEW k \in j + 1 .. Len(recent) PROVE recent[k].rule # s
          <6>1. k - d \in i + 1 .. Len(recent') /\ k - d \in 1 .. Len(recent') - 1 /\ (k - d) + d = k
            BY <2>2, <5>1
          <6>2. recent'[k - d].rule # recent'[i].rule
            BY <5>1, <6>1 DEF LastOf
          <6>3. recent'[k - d] = recent[k]
            BY <2>2, <6>1
          <6> QED BY <3>1, <6>2, <6>3
        <5> QED BY <3>1, <4>0, <5>1 DEF LastOf
      <4>3. CASE NameOf[s] # NameOf[r]
        BY <1>5, <4>1, <4>2, <4>3
      <4>4. CASE NameOf[s] = NameOf[r]
        <5>1. s = r
          BY <1>11, <3>1, <4>0, <4>4 DEF Unheard
        <5>2. old.of \in {r, "nobody", "wiped"} /\ EntryOf(s)' = new
          BY <1>5, <4>1, <4>4, <5>1 DEF old
        <5>3. new.of \in {r, "nobody", "wiped"}
          BY <1>8, <5>2
        <5>4. ~LastOf(i)'
          <6>1. Len(recent') \in i + 1 .. Len(recent')
            BY <2>2
          <6> QED BY <2>2, <2>3, <3>1, <5>1, <6>1 DEF LastOf
        <5> QED BY <5>1, <5>2, <5>3, <5>4
      <4> QED BY <4>3, <4>4
    <3>2. ASSUME r \in rules, event.own
          PROVE  /\ new.of \in {r, "nobody", "wiped"}
                 /\ new.is = "firing" <=> event.is = "firing"
      BY <1>8, <2>3, <3>2
    <3>3. ASSUME NEW i \in 1 .. Len(recent') - 1 PROVE recent'[i].rule \in created
      BY <1>0, <2>2 DEF HeardOK
    <3>4. ASSUME NEW i \in 1 .. Len(recent'), NEW s, recent'[i].rule = s
          PROVE  /\ s \in created
                 /\ s \in rules /\ recent'[i].own =>
                      /\ EntryOf(s)'.of \in {s, "nobody", "wiped"}
                      /\ LastOf(i)' /\ EntryOf(s)'.of \in {s, "nobody"}
                           => (EntryOf(s)'.is = "firing" <=> recent'[i].is = "firing")
      <4>1. CASE i = Len(recent')
        BY <1>3, <1>5, <2>2, <2>3, <3>2, <3>4, <4>1
      <4>2. CASE i \in 1 .. Len(recent') - 1
        BY <3>1, <3>3, <3>4, <4>2
      <4> QED BY <2>5, <4>1, <4>2
    <3> QED BY <1>1, <3>4 DEF HeardOK
  <2>8. FiresAfterHolding'
    <3>1. ASSUME event.is = "firing", event.own PROVE ~event.early
      <4>1. /\ matched /\ new.is = "firing" /\ new.since - pass.lag >= ForOf[r]
        BY <1>8, <2>3, <2>4, <3>1
      <4>2. new.of = r
        BY <1>8, <2>3, <3>1, <4>1
      <4>3. Seen(r, matched) >= new.since /\ new.since \in 0 .. Never
        BY <1>4, <1>10, <4>2 DEF Entries
      <4>4. Seen(r, matched) - pass.lag >= ForOf[r]
        <5>1. /\ pass.lag \in Int /\ ForOf[r] \in Int /\ new.since \in Int /\ Seen(r, matched) \in Int
          <6>1. pass.lag \in 0 .. MaxLag /\ MaxLag \in Nat /\ Never \in Nat
            BY <1>3, Bounds
          <6>2. ForOf[r] \in Nat
            BY Bounds
          <6>3. Seen(r, matched) \in 0 .. Never /\ new.since \in 0 .. Never
            BY <1>1, <4>3
          <6> QED BY <6>1, <6>2, <6>3
        <5>2. new.since - pass.lag >= ForOf[r] /\ Seen(r, matched) >= new.since
          BY <4>1, <4>3
        <5>3. \A a, b, c, e \in Int : a - b >= c /\ e >= a => e - b >= c
          OBVIOUS
        <5> QED BY <5>1, <5>2, <5>3
      <4> QED BY <1>1, <1>3, <2>3, <4>4, Bounds
    <3> QED BY <1>0, <2>2, <2>5, <3>1 DEF FiresAfterHolding
  <2>9. TransitionsAlternate'
    <3>1. ASSUME NEW i \in 1 .. Len(recent'), NEW j \in 1 .. Len(recent'),
                 i < j, recent'[i].rule = recent'[j].rule, recent'[i].own, recent'[j].own, recent'[j].live,
                 \A k \in i + 1 .. j - 1 : recent'[k].rule # recent'[i].rule
          PROVE  recent'[i].is # recent'[j].is
      <4>1. i \in 1 .. Len(recent') - 1 /\ recent'[i] = recent[i + d] /\ i + d \in 1 .. Len(recent)
        BY <2>2, <3>1
      <4>2. CASE j = Len(recent')
        <5>1. recent[i + d].rule = r /\ r \in rules /\ recent[i + d].own /\ old.of \in {r, "nobody"}
          BY <2>2, <2>3, <3>1, <4>1, <4>2
        <5>2. LastOf(i + d)
          <6>1. ASSUME NEW k \in i + d + 1 .. Len(recent) PROVE recent[k].rule # r
            <7>1. k - d \in i + 1 .. j - 1 /\ k - d \in 1 .. Len(recent') - 1 /\ (k - d) + d = k
              BY <2>2, <4>2, <6>1
            <7>2. recent'[k - d] = recent[k]
              BY <2>2, <7>1
            <7> QED BY <3>1, <4>1, <5>1, <7>1, <7>2
          <6> QED BY <5>1, <6>1 DEF LastOf
        <5>3. old.is = "firing" <=> recent[i + d].is = "firing"
          BY <1>0, <4>1, <5>1, <5>2 DEF HeardOK, old
        <5> QED BY <2>2, <2>3, <2>4, <4>1, <4>2, <5>3
      <4>3. CASE j \in 1 .. Len(recent') - 1
        <5>1. recent'[j] = recent[j + d] /\ j + d \in 1 .. Len(recent)
          BY <2>2, <4>3
        <5>2. ASSUME NEW k \in i + d + 1 .. j + d - 1 PROVE recent[k].rule # recent[i + d].rule
          <6>1. k - d \in i + 1 .. j - 1 /\ k - d \in 1 .. Len(recent') - 1 /\ (k - d) + d = k
            BY <2>2, <4>3, <5>2
          <6>2. recent'[k - d] = recent[k]
            BY <2>2, <6>1
          <6> QED BY <3>1, <4>1, <6>1, <6>2
        <5>3. i + d < j + d /\ (i + d) + 1 = i + d + 1 /\ (j + d) - 1 = j + d - 1
          BY <2>2, <3>1
        <5> QED BY <1>0, <3>1, <4>1, <5>1, <5>2, <5>3 DEF TransitionsAlternate
      <4> QED BY <2>5, <4>2, <4>3
    <3> QED BY <3>1 DEF TransitionsAlternate
  <2> QED BY <1>20, <1>21, <1>22, <1>23, <2>6, <2>7, <2>8, <2>9 DEF EventsInv
<1> QED BY <1>12, <1>13

\* Requests keep what is known of entries, streaks and events.
LEMMA EditsStep ==
  ASSUME TablesOK, RequestsOK, TablesOK', EventsInv, NEW c \in Clients,
         \/ \E r \in Rules : CreateAlert(c, r) \/ DeleteAlert(c, r)
         \/ ForgetState(c)
  PROVE  EventsInv'
<1>0. EvaluatorOK /\ EntriesOK /\ StreaksOK /\ FiringOK /\ NamesakesOK /\ HeardOK /\ FiresAfterHolding /\ TransitionsAlternate
  BY DEF EventsInv
<1>1. UNCHANGED <<recent, pass, streak, running>> /\ running
  BY DEF CreateAlert, DeleteAlert, ForgetState
<1>2. FiresAfterHolding' /\ TransitionsAlternate'
  BY <1>0, <1>1 DEF FiresAfterHolding, TransitionsAlternate
<1>3. created \subseteq Rules /\ rules \subseteq created /\ rules' \subseteq Rules
  BY DEF TablesOK, Sound
<1>4. ASSUME NEW r \in Rules, CreateAlert(c, r) PROVE EventsInv'
  <2>1. /\ rules' = rules \cup {r} /\ created' = created \cup {r} /\ r \notin created /\ states' = states
    BY <1>4 DEF CreateAlert
  <2>2. \A q : EntryOf(q)' = EntryOf(q)
    BY <2>1 DEF EntryOf
  <2>3. EntryOf(r).of # r /\ Unheard(r)
    <3>1. NameOf[r] \in Names
      BY DEF Names
    <3> QED BY <1>0, <2>1, <3>1 DEF EntriesOK, EntryOf, HeardOK, Unheard
  <2>4. EvaluatorOK'
    BY <1>0, <1>1, <2>1 DEF EvaluatorOK
  <2>5. EntriesOK'
    BY <1>0, <2>1 DEF EntriesOK
  <2>6. StreaksOK'
    BY <1>0, <1>1, <2>1, <2>2, <2>3 DEF StreaksOK
  <2>7. FiringOK'
    BY <1>0, <1>1, <2>1, <2>2, <2>3 DEF FiringOK
  <2>8. NamesakesOK'
    BY <1>0, <1>1, <2>1, <2>2, <2>3 DEF NamesakesOK, Unheard
  <2>9. HeardOK'
    BY <1>0, <1>1, <2>1, <2>2, <2>3 DEF HeardOK, Unheard, EntryOf, LastOf
  <2> QED BY <1>2, <2>4, <2>5, <2>6, <2>7, <2>8, <2>9 DEF EventsInv
<1>5. ASSUME NEW r \in Rules, DeleteAlert(c, r) PROVE EventsInv'
  <2>1. /\ rules' \subseteq rules /\ created' = created /\ states' = states
    BY <1>5 DEF DeleteAlert
  <2>2. EvaluatorOK' /\ EntriesOK'
    BY <1>0, <1>1, <2>1 DEF EvaluatorOK, EntriesOK
  <2>3. StreaksOK' /\ FiringOK'
    BY <1>0, <1>1, <2>1 DEF StreaksOK, FiringOK, EntryOf
  <2>4. NamesakesOK' /\ HeardOK'
    BY <1>0, <1>1, <2>1 DEF NamesakesOK, HeardOK, Unheard, LastOf, EntryOf
  <2> QED BY <1>2, <2>2, <2>3, <2>4 DEF EventsInv
<1>6. CASE ForgetState(c)
  <2> DEFINE r == asked[c].rule
  <2> DEFINE old == states[NameOf[r]]
  <2> DEFINE new == IF old.of \in {r, "nobody"} THEN NoState ELSE Wiped
  <2>1. asked[c].what = "delete"
    BY <1>6 DEF ForgetState
  <2>2. r \in created /\ r \notin rules /\ r \in Rules
    <3>1. Nothing.what = "nothing"
      BY DEF Nothing
    <3> QED BY <1>3, <2>1, <3>1 DEF RequestsOK
  <2>3. NameOf[r] \in Names
    BY <2>2 DEF Names
  <2>4. states' = [states EXCEPT ![NameOf[r]] = new] /\ UNCHANGED <<rules, created>>
    BY <1>6 DEF ForgetState
  <2>5. /\ new \in Entries /\ new.is = "ok" /\ new.since = Never /\ new.of \in {"nobody", "wiped"}
        /\ new.of = "nobody" => old.of \in {r, "nobody"}
    BY Blanks
  <2>6. /\ states' \in [Names -> Entries] /\ states'[NameOf[r]] = new
        /\ \A n \in Names : n # NameOf[r] => states'[n] = states[n]
    BY <1>0, <2>3, <2>4, <2>5 DEF EvaluatorOK
  <2>7. \A q \in Rules : \/ EntryOf(q)' = EntryOf(q)
                         \/ EntryOf(q)' = new /\ EntryOf(q) = old
    BY <2>6 DEF EntryOf, Names
  <2>8. \A q \in Rules : EntryOf(q)'.of = q => EntryOf(q)' = EntryOf(q)
    BY <2>5, <2>7, Blanks
  <2> HIDE DEF new
  <2>9. EvaluatorOK'
    BY <1>0, <1>1, <2>4, <2>6 DEF EvaluatorOK
  <2>10. EntriesOK'
    BY <1>0, <2>4, <2>5, <2>6, Blanks DEF EntriesOK
  <2>11. StreaksOK'
    <3>1. rules \cup pass.todo \subseteq Rules
      BY <1>0, <1>3 DEF EvaluatorOK, Passes
    <3> QED BY <1>0, <1>1, <2>4, <2>8, <3>1 DEF StreaksOK
  <2>12. FiringOK'
    BY <1>0, <1>1, <1>3, <2>4, <2>8 DEF FiringOK
  <2>13. NamesakesOK'
    BY <1>0, <1>1, <1>3, <2>4, <2>8 DEF NamesakesOK, Unheard
  <2>14. HeardOK'
    <3>1. ASSUME NEW i \in 1 .. Len(recent), NEW s \in rules, recent[i].rule = s, recent[i].own
          PROVE  /\ EntryOf(s)'.of \in {s, "nobody", "wiped"}
                 /\ LastOf(i) /\ EntryOf(s)'.of \in {s, "nobody"}
                      => (EntryOf(s)'.is = "firing" <=> recent[i].is = "firing")
      <4>1. /\ s \in Rules /\ s # r /\ EntryOf(s).of \in {s, "nobody", "wiped"}
            /\ LastOf(i) /\ EntryOf(s).of \in {s, "nobody"} => (EntryOf(s).is = "firing" <=> recent[i].is = "firing")
        BY <1>0, <1>3, <2>2, <3>1 DEF HeardOK
      <4>2. CASE EntryOf(s)' = EntryOf(s)
        BY <4>1, <4>2
      <4>3. CASE EntryOf(s)' = new /\ EntryOf(s) = old
        <5>1. new.of = "nobody" => old.of = "nobody" /\ old.is = "ok"
          BY <1>0, <2>2, <2>3, <2>5, <4>1, <4>3, Blanks DEF EntriesOK
        <5>2. new.of # s
          BY <2>5, <4>1, Blanks
        <5> QED BY <2>5, <4>1, <4>3, <5>1, <5>2
      <4> QED BY <2>7, <4>1, <4>2, <4>3
    <3>2. \A i : LastOf(i)' = LastOf(i)
      BY <1>1 DEF LastOf
    <3> QED BY <1>0, <1>1, <2>4, <3>1, <3>2 DEF HeardOK
  <2> QED BY <1>2, <2>9, <2>10, <2>11, <2>12, <2>13, <2>14 DEF EventsInv
<1> QED BY <1>4, <1>5, <1>6

\* The steps of a pass but evaluations keep what is known of entries, streaks and events.
LEMMA PassStep ==
  ASSUME TablesOK, EventsInv, Derive \/ Deliver \/ EndPass \/ \E r \in Rules : EvaluateFails(r)
  PROVE  EventsInv'
<1>0. EvaluatorOK /\ EntriesOK /\ StreaksOK /\ FiringOK /\ NamesakesOK /\ HeardOK /\ FiresAfterHolding /\ TransitionsAlternate
  BY DEF EventsInv
<1>1. UNCHANGED <<recent, rules, created, states, running>> /\ running
  BY DEF Derive, Deliver, EndPass, EvaluateFails, clientVars
<1>2. FiresAfterHolding' /\ TransitionsAlternate' /\ HeardOK' /\ EntriesOK'
  BY <1>0, <1>1 DEF FiresAfterHolding, TransitionsAlternate, HeardOK, LastOf, EntryOf, EntriesOK
<1>3. Sound(rules) /\ rules \subseteq Rules
  BY DEF TablesOK, Sound
<1>4. PICK at \in {"idle", "evaluate"}, todo \in SUBSET Rules, events \in Nat, lag \in 0 .. MaxLag :
        pass = [at |-> at, todo |-> todo, events |-> events, lag |-> lag]
  BY <1>0 DEF EvaluatorOK, Passes
<1>5. CASE Derive
  <2>1. pass' = [at |-> "evaluate", todo |-> rules, events |-> 0, lag |-> 0]
    BY <1>5 DEF Derive, NoPass
  <2>2. pass.lag = 0 /\ pass.todo = {} /\ streak' = streak
    BY <1>0, <1>5 DEF Derive, EvaluatorOK
  <2>3. pass' \in Passes /\ pass'.at = "evaluate" /\ pass'.todo = rules /\ pass'.lag = 0
    BY <1>3, <2>1, Bounds DEF Passes
  <2>4. EvaluatorOK'
    BY <1>0, <1>1, <1>3, <2>2, <2>3 DEF EvaluatorOK, Sound
  <2>5. StreaksOK'
    <3>1. \A r \in rules : streak[r] \in 0 .. Never
      BY <1>0, <1>3 DEF EvaluatorOK
    <3>2. \A r \in rules : streak[r] >= 0
      BY <3>1, Bounds
    <3> QED BY <1>0, <1>1, <2>2, <2>3, <3>2 DEF StreaksOK, EntryOf
  <2>6. FiringOK'
    BY <1>0, <1>1, <2>2, <2>3 DEF FiringOK, EntryOf
  <2>7. NamesakesOK'
    BY <1>1, <1>3, <2>3 DEF NamesakesOK, Sound
  <2> QED BY <1>2, <2>4, <2>5, <2>6, <2>7 DEF EventsInv
<1>6. CASE Deliver \/ \E r \in Rules : EvaluateFails(r)
  <2>1. /\ streak' = streak /\ pass' \in Passes /\ pass'.at = "evaluate" /\ pass.at = "evaluate"
        /\ pass'.todo \subseteq pass.todo /\ pass'.lag = pass.lag
    <3>1. CASE Deliver
      <4>1. pass' = [at |-> at, todo |-> todo, events |-> events - 1, lag |-> lag] /\ events - 1 \in Nat
            /\ at = "evaluate" /\ streak' = streak
        BY <1>4, <3>1 DEF Deliver
      <4> QED BY <1>4, <4>1 DEF Passes
    <3>2. ASSUME NEW r \in Rules, EvaluateFails(r)
          PROVE  /\ streak' = streak /\ pass' \in Passes /\ pass'.at = "evaluate" /\ pass.at = "evaluate"
                 /\ pass'.todo \subseteq pass.todo /\ pass'.lag = pass.lag
      <4>1. pass' = [at |-> at, todo |-> todo \ {r}, events |-> events, lag |-> lag]
            /\ at = "evaluate" /\ streak' = streak
        BY <1>4, <3>2 DEF EvaluateFails
      <4> QED BY <1>4, <4>1 DEF Passes
    <3> QED BY <1>6, <3>1, <3>2
  <2>2. EvaluatorOK'
    BY <1>0, <1>1, <2>1 DEF EvaluatorOK
  <2>3. StreaksOK' /\ FiringOK' /\ NamesakesOK'
    BY <1>0, <1>1, <2>1 DEF StreaksOK, FiringOK, NamesakesOK, EntryOf, Unheard
  <2> QED BY <1>2, <2>2, <2>3 DEF EventsInv
<1>7. CASE EndPass
  <2>1. pass' = [at |-> "idle", todo |-> {}, events |-> 0, lag |-> 0]
        /\ streak' = [r \in Rules |-> IF r \in rules THEN streak[r] ELSE Never]
    BY <1>7 DEF EndPass, NoPass
  <2>2. pass' \in Passes /\ pass'.at = "idle" /\ pass'.todo = {} /\ pass'.lag = 0
    BY <2>1, Bounds DEF Passes
  <2>3. streak' \in [Rules -> 0 .. Never] /\ \A r \in rules : streak'[r] = streak[r]
    BY <1>0, <1>3, <2>1, Bounds DEF EvaluatorOK
  <2>4. EvaluatorOK'
    BY <1>0, <1>1, <2>2, <2>3 DEF EvaluatorOK
  <2>5. StreaksOK'
    BY <1>0, <1>1, <2>2, <2>3 DEF StreaksOK, EntryOf
  <2>6. FiringOK'
    <3>1. ASSUME NEW r \in rules, EntryOf(r).of = r, EntryOf(r).is = "firing"
          PROVE  EntryOf(r).since - 0 >= ForOf[r]
      <4>1. EntryOf(r).since \in 0 .. Never /\ ForOf[r] \in Nat /\ r \in Rules
        BY <1>0, <1>3, Bounds DEF EvaluatorOK, Entries, EntryOf, Names
      <4>2. EntryOf(r).since - pass.lag >= ForOf[r]
        BY <1>0, <3>1 DEF FiringOK
      <4>3. pass.lag \in 0 .. MaxLag
        BY <1>4
      <4>4. \A a, b, e \in Int : b >= 0 /\ a - b >= e => a - 0 >= e
        OBVIOUS
      <4> QED BY <4>1, <4>2, <4>3, <4>4, Bounds
    <3> QED BY <1>1, <2>2, <3>1 DEF FiringOK, EntryOf
  <2>7. NamesakesOK'
    BY <2>2 DEF NamesakesOK
  <2> QED BY <1>2, <2>4, <2>5, <2>6, <2>7 DEF EventsInv
<1> QED BY <1>5, <1>6, <1>7

\* A second keeps them: what is there ages alike, and ages stop where they no longer matter.
LEMMA SecondStep ==
  ASSUME TablesOK, EventsInv, Second
  PROVE  EventsInv'
<1>0. EvaluatorOK /\ EntriesOK /\ StreaksOK /\ FiringOK /\ NamesakesOK /\ HeardOK /\ FiresAfterHolding /\ TransitionsAlternate
  BY DEF EventsInv
<1> DEFINE Aged(age) == IF age = Never THEN age ELSE Older(age)
<1>1. \A age \in 0 .. Never : Aged(age) \in 0 .. Never /\ (Aged(age) = Never <=> age = Never)
  BY Bounds DEF Older
<1>2. \A a, b \in 0 .. Never : a # Never /\ b # Never /\ a >= b => Aged(a) >= Aged(b)
  BY Bounds DEF Older
<1>3. /\ UNCHANGED <<rules, recent, created, running>> /\ pass.lag < MaxLag
      /\ pass' = IF pass.at = "evaluate" THEN [pass EXCEPT !.lag = @ + 1] ELSE pass
      /\ states' = [n \in Names |-> [states[n] EXCEPT !.since = Aged(@)]]
      /\ streak' = [r \in Rules |-> IF streak[r] = Never THEN Never ELSE Older(streak[r])]
  BY DEF Second, clientVars
<1>4. \A n \in Names : /\ states'[n] \in Entries /\ states'[n].is = states[n].is /\ states'[n].of = states[n].of
                       /\ states'[n].since = Aged(states[n].since) /\ states[n].since \in 0 .. Never
  <2> SUFFICES ASSUME NEW n \in Names
               PROVE  /\ states'[n] \in Entries /\ states'[n].is = states[n].is /\ states'[n].of = states[n].of
                      /\ states'[n].since = Aged(states[n].since) /\ states[n].since \in 0 .. Never
    OBVIOUS
  <2>1. states[n] \in Entries
    BY <1>0 DEF EvaluatorOK
  <2>2. PICK is \in Kinds, since \in 0 .. Never, of \in Rules \cup {"nobody", "wiped"} :
          states[n] = [is |-> is, since |-> since, of |-> of]
    BY <2>1 DEF Entries
  <2>3. states'[n] = [states[n] EXCEPT !.since = Aged(@)]
    BY <1>3
  <2> HIDE DEF Aged
  <2>4. states'[n] = [is |-> is, since |-> Aged(since), of |-> of] /\ Aged(since) \in 0 .. Never
    BY <1>1, <2>2, <2>3
  <2> QED BY <2>2, <2>4 DEF Entries
<1>5. streak' \in [Rules -> 0 .. Never] /\ \A r \in Rules : streak[r] \in 0 .. Never /\ streak'[r] = Aged(streak[r])
  <2>1. \A r \in Rules : streak[r] \in 0 .. Never /\ streak'[r] = Aged(streak[r])
    BY <1>0, <1>3 DEF EvaluatorOK
  <2> QED BY <1>1, <1>3, <2>1
<1>6. /\ pass' \in Passes /\ pass'.at = pass.at /\ pass'.todo = pass.todo
      /\ pass.lag \in 0 .. MaxLag /\ pass.lag < MaxLag /\ pass'.lag \in {pass.lag, pass.lag + 1}
      /\ pass.at = "idle" => pass'.lag = pass.lag
  <2>1. PICK at \in {"idle", "evaluate"}, todo \in SUBSET Rules, events \in Nat, lag \in 0 .. MaxLag :
          pass = [at |-> at, todo |-> todo, events |-> events, lag |-> lag]
    BY <1>0 DEF EvaluatorOK, Passes
  <2>2. lag + 1 \in 0 .. MaxLag
    BY <1>3, <2>1, Bounds
  <2>3. \/ pass' = [at |-> at, todo |-> todo, events |-> events, lag |-> lag + 1] /\ at = "evaluate"
        \/ pass' = pass
    BY <1>3, <2>1
  <2> QED BY <1>3, <2>1, <2>2, <2>3 DEF Passes
<1>7. \A q \in Rules : /\ EntryOf(q)'.is = EntryOf(q).is /\ EntryOf(q)'.of = EntryOf(q).of
                       /\ EntryOf(q)'.since = Aged(EntryOf(q).since) /\ EntryOf(q).since \in 0 .. Never
                       /\ EntryOf(q).of = q => EntryOf(q).since # Never
  BY <1>0, <1>4 DEF EntryOf, Names, EntriesOK
<1>8. rules \subseteq Rules /\ pass.todo \subseteq Rules /\ created \subseteq Rules
  BY <1>0 DEF TablesOK, Sound, EvaluatorOK, Passes
\* From here on, all there is to know of aging.
<1>9. \A age \in 0 .. Never, lag \in 0 .. MaxLag :
        /\ lag < MaxLag /\ age >= lag => Aged(age) >= lag + 1 /\ Aged(age) >= lag
        /\ lag < MaxLag /\ age # Never /\ age - lag >= 0 => Aged(age) # Never
  BY Bounds DEF Older
<1>10. \A r \in Rules : \A age \in 0 .. Never, lag \in 0 .. MaxLag :
         age # Never /\ lag < MaxLag /\ age - lag >= ForOf[r] =>
           Aged(age) - (lag + 1) >= ForOf[r] /\ Aged(age) - lag >= ForOf[r]
  BY Bounds DEF Older
<1> HIDE DEF Aged
<1>20. EvaluatorOK'
  <2>1. states' \in [Names -> Entries]
    BY <1>3, <1>4
  <2> QED BY <1>0, <1>3, <1>4, <1>5, <1>6, <2>1 DEF EvaluatorOK
<1>21. EntriesOK'
  BY <1>0, <1>1, <1>3, <1>4 DEF EntriesOK
<1>22. StreaksOK'
  <2>1. ASSUME NEW r \in rules \cup pass.todo, EntryOf(r)'.of = r
        PROVE  streak'[r] # Never /\ streak'[r] >= EntryOf(r)'.since
    BY <1>0, <1>1, <1>2, <1>5, <1>7, <1>8, <2>1 DEF StreaksOK
  <2>2. ASSUME NEW r \in pass.todo PROVE streak'[r] >= pass'.lag
    BY <1>0, <1>5, <1>6, <1>8, <1>9 DEF StreaksOK
  <2> QED BY <1>3, <1>6, <2>1, <2>2 DEF StreaksOK
<1>23. FiringOK'
  <2>1. ASSUME NEW r \in rules, EntryOf(r)'.of = r, EntryOf(r)'.is = "firing"
        PROVE  EntryOf(r)'.since - pass'.lag >= ForOf[r]
    <3>1. EntryOf(r).since - pass.lag >= ForOf[r] /\ EntryOf(r).since # Never /\ r \in Rules
      BY <1>0, <1>7, <1>8, <2>1 DEF FiringOK
    <3> QED BY <1>6, <1>7, <1>10, <3>1
  <2> QED BY <1>3, <2>1 DEF FiringOK
<1>24. NamesakesOK'
  BY <1>0, <1>3, <1>6, <1>7, <1>8 DEF NamesakesOK, Unheard
<1>25. HeardOK'
  <2>1. \A i \in 1 .. Len(recent) : recent[i].rule \in Rules
    BY <1>0, <1>8 DEF HeardOK
  <2>2. \A i : LastOf(i)' = LastOf(i)
    BY <1>3 DEF LastOf
  <2>3. ASSUME NEW i \in 1 .. Len(recent), NEW s \in rules, recent[i].rule = s, recent[i].own
        PROVE  /\ EntryOf(s)'.of \in {s, "nobody", "wiped"}
               /\ LastOf(i) /\ EntryOf(s)'.of \in {s, "nobody"}
                    => (EntryOf(s)'.is = "firing" <=> recent[i].is = "firing")
    BY <1>0, <1>7, <1>8, <2>3 DEF HeardOK
  <2> QED BY <1>0, <1>3, <2>2, <2>3 DEF HeardOK
<1>26. FiresAfterHolding' /\ TransitionsAlternate'
  BY <1>0, <1>3 DEF FiresAfterHolding, TransitionsAlternate
<1> QED BY <1>20, <1>21, <1>22, <1>23, <1>24, <1>25, <1>26 DEF EventsInv

\* A death and a start leave nothing to know.
LEMMA RestartStep ==
  ASSUME TablesOK, TablesOK', EventsInv, AlertCrash \/ AlertOpen
  PROVE  EventsInv'
<1>0. EvaluatorOK /\ EntriesOK /\ StreaksOK /\ FiringOK /\ NamesakesOK /\ HeardOK /\ FiresAfterHolding /\ TransitionsAlternate
  BY DEF EventsInv
<1>1. CASE AlertCrash
  <2>1. /\ states' = [n \in Names |-> NoState] /\ recent' = <<>> /\ rules' = {}
        /\ pass' = [at |-> "idle", todo |-> {}, events |-> 0, lag |-> 0]
        /\ streak' = [r \in Rules |-> Never] /\ created' = created /\ running' = FALSE
    BY <1>1 DEF AlertCrash, NoPass
  <2>2. pass' \in Passes /\ pass'.at = "idle" /\ pass'.todo = {} /\ pass'.lag = 0
    BY <2>1, Bounds DEF Passes
  <2>3. states' \in [Names -> Entries] /\ \A n \in Names : states'[n] = NoState
    BY <2>1, Blanks
  <2>4. streak' \in [Rules -> 0 .. Never]
    BY <2>1, Bounds
  <2>5. recent' \in Seq(Events) /\ Len(recent') = 0
    BY <2>1
  <2>6. RecentCapacity \in Nat
    BY AlertsAssumption DEF AlertsAssumption
  <2>7. EvaluatorOK'
    BY <2>1, <2>2, <2>3, <2>4, <2>5, <2>6, Blanks DEF EvaluatorOK
  <2>8. EntriesOK'
    BY <2>3, Blanks DEF EntriesOK
  <2>9. StreaksOK' /\ FiringOK' /\ NamesakesOK'
    BY <2>1, <2>2 DEF StreaksOK, FiringOK, NamesakesOK
  <2>10. HeardOK' /\ FiresAfterHolding' /\ TransitionsAlternate'
    BY <2>5 DEF HeardOK, FiresAfterHolding, TransitionsAlternate
  <2> QED BY <2>7, <2>8, <2>9, <2>10 DEF EventsInv
<1>2. CASE AlertOpen
  <2>1. UNCHANGED <<states, recent, created, pass, streak>> /\ ~running /\ running'
    BY <1>2 DEF AlertOpen, clientVars
  <2>2. recent = <<>> /\ pass.todo = {} /\ \A n \in Names : states[n].of = "nobody"
    BY <1>0, <2>1 DEF EvaluatorOK
  <2>3. rules' \subseteq Rules /\ \A r \in rules' : EntryOf(r).of # r /\ EntryOf(r)' = EntryOf(r)
    BY <2>1, <2>2, Blanks DEF TablesOK, Sound, EntryOf, Names
  <2>4. EvaluatorOK' /\ EntriesOK'
    BY <1>0, <2>1 DEF EvaluatorOK, EntriesOK
  <2>5. StreaksOK' /\ FiringOK' /\ NamesakesOK'
    BY <2>1, <2>2, <2>3 DEF StreaksOK, FiringOK, NamesakesOK
  <2>6. HeardOK' /\ FiresAfterHolding' /\ TransitionsAlternate'
    BY <2>1, <2>2 DEF HeardOK, FiresAfterHolding, TransitionsAlternate
  <2> QED BY <2>4, <2>5, <2>6 DEF EventsInv
<1> QED BY <1>1, <1>2

\* Answers and saves are nothing to the evaluator.
LEMMA EventsApart ==
  ASSUME EventsInv, UNCHANGED <<rules, states, recent, created, pass, streak, running>>
  PROVE  EventsInv'
  BY DEF EventsInv, EvaluatorOK, EntriesOK, StreaksOK, FiringOK, NamesakesOK, HeardOK, LastOf, Unheard,
         EntryOf, FiresAfterHolding, TransitionsAlternate

\* The inductive invariant of the whole: the evaluator's part rests on the book's.
THEOREM AlertInvariant == AlertSpec => [](BookInv /\ EventsInv)
<1>1. AlertInit => EventsInv
  <2> SUFFICES ASSUME AlertInit PROVE EventsInv
    OBVIOUS
  <2>1. /\ states = [n \in Names |-> NoState] /\ recent = <<>> /\ rules = {}
        /\ pass = [at |-> "idle", todo |-> {}, events |-> 0, lag |-> 0]
        /\ streak = [r \in Rules |-> Never] /\ running = TRUE
    BY DEF AlertInit, NoPass
  <2>2. pass \in Passes /\ pass.at = "idle" /\ pass.todo = {} /\ pass.lag = 0
    BY <2>1, Bounds DEF Passes
  <2>3. states \in [Names -> Entries] /\ \A n \in Names : states[n] = NoState
    BY <2>1, Blanks
  <2>4. streak \in [Rules -> 0 .. Never]
    BY <2>1, Bounds
  <2>5. recent \in Seq(Events) /\ Len(recent) = 0
    BY <2>1
  <2>6. RecentCapacity \in Nat
    BY AlertsAssumption DEF AlertsAssumption
  <2>7. EvaluatorOK
    BY <2>1, <2>2, <2>3, <2>4, <2>5, <2>6, Blanks DEF EvaluatorOK
  <2>8. EntriesOK
    BY <2>3, Blanks DEF EntriesOK
  <2>9. StreaksOK /\ FiringOK /\ NamesakesOK
    BY <2>1, <2>2 DEF StreaksOK, FiringOK, NamesakesOK
  <2>10. HeardOK /\ FiresAfterHolding /\ TransitionsAlternate
    BY <2>5 DEF HeardOK, FiresAfterHolding, TransitionsAlternate
  <2> QED BY <2>7, <2>8, <2>9, <2>10 DEF EventsInv
<1>2. BookInv /\ BookInv' /\ EventsInv /\ [AlertNext]_alertVars => EventsInv'
  <2> SUFFICES ASSUME BookInv, BookInv', EventsInv, [AlertNext]_alertVars PROVE EventsInv'
    OBVIOUS
  <2>1. TablesOK /\ RequestsOK /\ TablesOK'
    BY DEF BookInv
  <2>2. ASSUME NEW c \in Clients, SaveAlerts(c) \/ AnswerAlert(c) PROVE EventsInv'
    <3>1. UNCHANGED <<rules, states, recent, created, pass, streak, running>>
      BY <2>2 DEF SaveAlerts, AnswerAlert, clientVars, File!SaveStep, File!Clone, File!OpenTmp, File!Fill,
                  File!Rename, File!SaveFails
    <3> QED BY <3>1, EventsApart
  <2>3. CASE UNCHANGED alertVars
    BY <2>3, EventsApart DEF alertVars, clientVars
  <2>4. CASE Requests
    BY <2>1, <2>2, <2>4, EditsStep DEF Requests
  <2>5. ASSUME NEW r \in Rules, EvaluateFails(r) \/ \E matched \in BOOLEAN : Evaluate(r, matched) PROVE EventsInv'
    BY <2>1, <2>5, EvaluateStep, PassStep
  <2>6. CASE Derive \/ Deliver \/ EndPass \/ Second \/ AlertCrash \/ AlertOpen
    BY <2>1, <2>6, PassStep, SecondStep, RestartStep
  <2> QED BY <2>3, <2>4, <2>5, <2>6 DEF AlertNext
<1> QED BY <1>1, <1>2, BookInvariant, PTL DEF AlertSpec

\* What is published of a rule is what happened to its condition: it fires only after it was
\* seen to hold for its duration, and what is published of it alternates until it is deleted
\* or its state is wiped with that of a namesake.
THEOREM PublishedIsHonest == AlertSpec => []EventsAreHonest
<1>1. EventsInv => EventsAreHonest
  BY DEF EventsInv, EventsAreHonest
<1> QED BY <1>1, AlertInvariant, PTL

\* Tables, entries and events stay well formed, and no two rules share a name.
THEOREM AlertTypes == AlertSpec => []AlertTypeOK
<1>1. BookInv /\ EventsInv => AlertTypeOK
  <2> SUFFICES ASSUME BookInv, EventsInv PROVE AlertTypeOK
    OBVIOUS
  <2>1. TablesOK /\ EvaluatorOK
    BY DEF BookInv, EventsInv
  <2>2. 0 .. Never = Ages \cup {Never}
    BY Bounds
  <2>3. \A n \in Names : states[n].is \in Kinds /\ states[n].since \in 0 .. Never
    BY <2>1 DEF EvaluatorOK, Entries
  <2>4. pass.todo \subseteq Rules /\ pass.lag \in 0 .. MaxLag
    BY <2>1 DEF EvaluatorOK, Passes
  <2> QED BY <2>1, <2>2, <2>3, <2>4 DEF AlertTypeOK, TablesOK, Sound, EvaluatorOK, Kinds
<1> QED BY <1>1, AlertInvariant, PTL

-----------------------------------------------------------------------------
(* Online scoring: the invariant.                                          *)

Pairs == ScoreRules \X Traces
Loops == [at : {"idle", "select", "score", "judging"}, todo : SUBSET ScoreRules, rule : ScoreRules \cup {"none"},
          left : SUBSET Traces, trace : Traces \cup {"none"}]

\* What the table has are valid rules, and a status is one count or none.
TableOK ==
  /\ scoreRules \subseteq ScoreRules \ Invalid /\ scoreFile \subseteq ScoreRules \ Invalid
  /\ status \in [ScoreRules -> {{}} \cup {{k} : k \in 0 .. MaxCount}]
  /\ stored \in [ScoreRules -> 0 .. MaxCount]
  /\ StatusIsHonest
  /\ ~scoresUp => \A n \in ScoreRules : status[n] = {}

\* The memory has the last attempts: one that is less than Memory ago is as far from its end.
MemoryOK ==
  /\ scored \in Seq(Pairs) /\ Len(scored) <= Memory /\ sinceTried \in [Pairs -> 0 .. Memory]
  /\ \A p \in Pairs : sinceTried[p] < Memory => sinceTried[p] < Len(scored) /\ scored[Len(scored) - sinceTried[p]] = p

\* The loop has only candidates left that are not in the memory.
LoopOK ==
  /\ loop \in Loops
  /\ loop.at \in {"score", "judging"} =>
       loop.rule \in ScoreRules /\ \A t \in loop.left : sinceTried[<<loop.rule, t>>] = Memory
  /\ loop.at = "judging" =>
       loop.trace \in Traces \ loop.left /\ sinceTried[<<loop.rule, loop.trace>>] = Memory

ScoreInv == TableOK /\ MemoryOK /\ LoopOK

-----------------------------------------------------------------------------
(* Online scoring: steps.                                                  *)

\* Counts stop at the bound, and stay in order.
LEMMA Counting ==
  ASSUME NEW j \in 0 .. MaxCount, NEW k \in 0 .. MaxCount, NEW n \in 0 .. MaxCount
  PROVE  Plus(k, n) \in 0 .. MaxCount /\ n <= Plus(k, n) /\ (j <= k => Plus(j, n) <= Plus(k, n)) /\ Plus(k, 0) = k
BY ScoringAssumption DEF Plus

\* What is recorded of a rule is no more than what is stored for it at the same time.
LEMMA RecordKeeps ==
  ASSUME TableOK, NEW n \in ScoreRules, NEW points \in 0 .. MaxCount, scoresUp,
         status' = Recorded(n, points), heir' = Burdened(n),
         stored' = [stored EXCEPT ![n] = Plus(@, points)], UNCHANGED <<scoreRules, scoreFile, scoresUp>>
  PROVE  TableOK'
<1> DEFINE now == IF status[n] = {} THEN {points} ELSE {Plus(k, points) : k \in status[n]}
<1>1. stored[n] \in 0 .. MaxCount /\ (status[n] = {} \/ \E k \in 0 .. MaxCount : status[n] = {k})
  BY DEF TableOK
<1>2. /\ now \in {{}} \cup {{k} : k \in 0 .. MaxCount}
      /\ (\A written \in status[n] : written <= stored[n]) => \A written \in now : written <= Plus(stored[n], points)
  <2>1. CASE status[n] = {}
    BY <1>1, <2>1, Counting
  <2>2. ASSUME NEW k \in 0 .. MaxCount, status[n] = {k}
        PROVE  /\ now \in {{}} \cup {{j} : j \in 0 .. MaxCount}
               /\ (\A written \in status[n] : written <= stored[n]) => \A written \in now : written <= Plus(stored[n], points)
    <3>1. now = {Plus(k, points)}
      BY <2>2
    <3>2. Plus(k, points) \in 0 .. MaxCount /\ (k <= stored[n] => Plus(k, points) <= Plus(stored[n], points))
      BY <1>1, Counting
    <3> HIDE DEF now
    <3>3. now \in {{}} \cup {{j} : j \in 0 .. MaxCount}
      BY <3>1, <3>2
    <3>4. (\A written \in status[n] : written <= stored[n]) => \A written \in now : written <= Plus(stored[n], points)
      BY <2>2, <3>1, <3>2
    <3> QED BY <3>3, <3>4
  <2> QED BY <1>1, <2>1, <2>2
<1>3. status' = [status EXCEPT ![n] = now]
  BY DEF Recorded
<1>4. stored' \in [ScoreRules -> 0 .. MaxCount] /\ stored'[n] = Plus(stored[n], points)
      /\ \A m \in ScoreRules \ {n} : stored'[m] = stored[m]
  <2>1. Plus(stored[n], points) \in 0 .. MaxCount
    BY <1>1, Counting
  <2> QED BY <2>1 DEF TableOK
<1> HIDE DEF now
<1>5. status' \in [ScoreRules -> {{}} \cup {{k} : k \in 0 .. MaxCount}] /\ status'[n] = now
      /\ \A m \in ScoreRules \ {n} : status'[m] = status[m]
  BY <1>2, <1>3 DEF TableOK
<1>6. heir \subseteq heir' /\ (n \in scoreRules \ heir' => n \in scoreRules \ heir)
  BY DEF Burdened
<1>7. ASSUME NEW m \in scoreRules \ heir', NEW written \in status'[m] PROVE written <= stored'[m]
  BY <1>2, <1>4, <1>5, <1>6, <1>7 DEF TableOK, StatusIsHonest
<1> QED BY <1>4, <1>5, <1>7 DEF TableOK, StatusIsHonest

\* Counting nothing changes nothing.
LEMMA CountingNothing ==
  ASSUME TableOK, NEW n \in ScoreRules
  PROVE  0 \in 0 .. MaxCount /\ stored = [stored EXCEPT ![n] = Plus(@, 0)]
<1>1. stored[n] \in 0 .. MaxCount /\ stored \in [ScoreRules -> 0 .. MaxCount]
  BY DEF TableOK
<1>2. 0 \in 0 .. MaxCount
  BY ScoringAssumption
<1>3. Plus(stored[n], 0) = stored[n]
  BY <1>1, <1>2, Counting
<1> QED BY <1>1, <1>2, <1>3

\* Of a rule that shares its status with nobody, no more is counted than is stored.
LEMMA TableStep ==
  ASSUME TableOK, LoopOK, [ScoreNext]_scoreVars
  PROVE  TableOK'
<1>1. ASSUME NEW c \in ScoreClients, NEW n \in ScoreRules, CreateScoreRule(c, n) PROVE TableOK'
  BY <1>1, ScoringAssumption DEF CreateScoreRule, TableOK, StatusIsHonest
<1>2. ASSUME NEW c \in ScoreClients, NEW n \in ScoreRules, DeleteScoreRule(c, n) PROVE TableOK'
  BY <1>2 DEF DeleteScoreRule, TableOK, StatusIsHonest
<1>3. ASSUME NEW c \in ScoreClients, ForgetStatus(c) PROVE TableOK'
  <2> DEFINE n == scoreAsked[c].rule
  <2>1. /\ status' = [status EXCEPT ![n] = {}] /\ heir \subseteq heir'
        /\ UNCHANGED <<scoreRules, stored, scoreFile, scoresUp>>
    BY <1>3 DEF ForgetStatus
  <2> HIDE DEF n
  <2> QED BY <2>1 DEF TableOK, StatusIsHonest
<1>4. ASSUME NEW c \in ScoreClients, SaveScoreRules(c) PROVE TableOK'
  BY <1>4 DEF SaveScoreRules, TableOK, StatusIsHonest
<1>5. ASSUME NEW n \in ScoreRules, NEW found \in SUBSET Traces, SelectCandidates(n, found) PROVE TableOK'
  <2>1. 0 \in 0 .. MaxCount /\ stored' = [stored EXCEPT ![n] = Plus(@, 0)]
    BY <1>5, CountingNothing DEF SelectCandidates
  <2> QED BY <1>5, <2>1, RecordKeeps DEF SelectCandidates
<1>6. ASSUME NEW points \in 0 .. 1, NEW ok \in BOOLEAN, Judged(points, ok) PROVE TableOK'
  <2>1. loop.rule \in ScoreRules
    BY <1>6 DEF Judged, LoopOK
  <2>2. ASSUME NEW new \in 0 .. MaxCount, new = IF ok THEN points ELSE 0 PROVE TableOK'
    BY <1>6, <2>1, <2>2, RecordKeeps DEF Judged
  <2> QED BY <2>2, ScoringAssumption
<1>7. CASE JudgeFails
  <2>1. loop.rule \in ScoreRules
    BY <1>7 DEF JudgeFails, LoopOK
  <2>2. 0 \in 0 .. MaxCount /\ stored' = [stored EXCEPT ![loop.rule] = Plus(@, 0)]
    BY <1>7, <2>1, CountingNothing DEF JudgeFails
  <2> QED BY <1>7, <2>1, <2>2, RecordKeeps DEF JudgeFails
<1>8. CASE ScoreCrash
  BY <1>8, ScoringAssumption DEF ScoreCrash, TableOK, StatusIsHonest
<1>9. CASE ScoreOpen
  BY <1>9 DEF ScoreOpen, TableOK, StatusIsHonest
<1>10. CASE \/ StartScoring \/ NextRule \/ EndScoring \/ \E n \in ScoreRules : SelectFails(n)
            \/ \E t \in Traces : RunScorer(t)
            \/ UNCHANGED scoreVars
  <2>1. UNCHANGED <<scoreRules, status, stored, heir, scoreFile, scoresUp>>
    BY <1>10 DEF StartScoring, NextRule, EndScoring, SelectFails, RunScorer, scoreVars
  <2> QED BY <2>1 DEF TableOK, StatusIsHonest
<1> QED BY <1>1, <1>2, <1>3, <1>4, <1>5, <1>6, <1>7, <1>8, <1>9, <1>10 DEF ScoreNext, LoopSteps, JudgeEnds, Selects

\* Remembering an attempt keeps the memory in order: it is the last entry now, and
\* the others are one further from the end.
LEMMA RememberingKeeps ==
  ASSUME MemoryOK, NEW n \in ScoreRules, NEW t \in Traces, Remembered(n, t)
  PROVE  /\ MemoryOK' /\ sinceTried'[<<n, t>>] = 0
         /\ \A p \in Pairs : p # <<n, t>> => sinceTried'[p] = IF sinceTried[p] < Memory THEN sinceTried[p] + 1 ELSE Memory
<1> DEFINE kept == IF Len(scored) >= Memory THEN Tail(scored) ELSE scored
           drop == Len(scored) - Len(kept)
<1>1. <<n, t>> \in Pairs /\ Memory \in Nat \ {0}
  BY ScoringAssumption DEF Pairs
<1>2. /\ scored \in Seq(Pairs) /\ Len(scored) <= Memory /\ sinceTried \in [Pairs -> 0 .. Memory]
      /\ \A p \in Pairs : sinceTried[p] < Memory => sinceTried[p] < Len(scored) /\ scored[Len(scored) - sinceTried[p]] = p
  BY DEF MemoryOK
<1>3. /\ kept \in Seq(Pairs) /\ Len(kept) \in Nat /\ Len(kept) < Memory /\ drop \in {0, 1}
      /\ \A i \in 1 .. Len(kept) : kept[i] = scored[i + drop]
      /\ drop = 1 => Len(scored) = Memory
      /\ drop = 0 => Len(scored) = Len(kept)
  <2>1. CASE Len(scored) >= Memory
    <3>1. kept = Tail(scored) /\ Len(scored) = Memory /\ scored # <<>>
      BY <1>1, <1>2, <2>1
    <3>2. kept \in Seq(Pairs) /\ Len(kept) = Len(scored) - 1 /\ \A i \in 1 .. Len(kept) : kept[i] = scored[i + 1]
      BY <1>2, <3>1
    <3> HIDE DEF kept
    <3> QED BY <1>1, <3>1, <3>2
  <2>2. CASE ~(Len(scored) >= Memory)
    <3>1. kept = scored /\ drop = 0
      BY <1>2, <2>2
    <3> HIDE DEF kept, drop
    <3> QED BY <1>1, <1>2, <2>2, <3>1
  <2> QED BY <2>1, <2>2
<1>4. scored' = Append(kept, <<n, t>>)
  BY DEF Remembered
<1> HIDE DEF kept
<1>5. /\ scored' \in Seq(Pairs) /\ Len(scored') = Len(kept) + 1 /\ scored'[Len(kept) + 1] = <<n, t>>
      /\ \A i \in 1 .. Len(kept) : scored'[i] = kept[i]
  BY <1>1, <1>3, <1>4
<1>6. /\ sinceTried' \in [Pairs -> 0 .. Memory] /\ sinceTried'[<<n, t>>] = 0
      /\ \A p \in Pairs : p # <<n, t>> => sinceTried'[p] = IF sinceTried[p] < Memory THEN sinceTried[p] + 1 ELSE Memory
  BY <1>1, <1>2 DEF Remembered, Longest, Pairs
<1>7. ASSUME NEW p \in Pairs, sinceTried'[p] < Memory
      PROVE  sinceTried'[p] < Len(scored') /\ scored'[Len(scored') - sinceTried'[p]] = p
  <2>1. CASE p = <<n, t>>
    <3>1. sinceTried'[p] = 0 /\ Len(scored') - 0 = Len(kept) + 1
      BY <1>3, <1>5, <1>6, <2>1
    <3> QED BY <1>3, <1>5, <2>1, <3>1
  <2>2. CASE p # <<n, t>>
    <3>1. sinceTried[p] \in 0 .. Memory /\ sinceTried'[p] = sinceTried[p] + 1 /\ sinceTried[p] < Memory
      BY <1>1, <1>2, <1>6, <1>7, <2>2
    <3>2. sinceTried[p] < Len(scored) /\ scored[Len(scored) - sinceTried[p]] = p /\ Len(scored) \in Nat
      BY <1>2, <3>1
    <3>3. sinceTried[p] < Len(kept)
      BY <1>1, <1>3, <1>7, <3>1, <3>2
    <3>4. Len(kept) - sinceTried[p] \in 1 .. Len(kept) /\ Len(kept) - sinceTried[p] + drop = Len(scored) - sinceTried[p]
      BY <1>3, <3>1, <3>2, <3>3
    <3>5. kept[Len(kept) - sinceTried[p]] = p
      BY <1>3, <3>2, <3>4
    <3>6. Len(scored') - sinceTried'[p] = Len(kept) - sinceTried[p]
      BY <1>3, <1>5, <3>1
    <3> QED BY <1>3, <1>5, <3>1, <3>3, <3>4, <3>5, <3>6
  <2> QED BY <2>1, <2>2
<1>8. MemoryOK'
  <2>1. Len(scored') <= Memory
    BY <1>1, <1>3, <1>5
  <2> QED BY <1>5, <1>6, <1>7, <2>1 DEF MemoryOK
<1> QED BY <1>6, <1>8

\* A trace that is not in the memory has not been tried for as long as it reaches.
LEMMA NotInMemory ==
  ASSUME MemoryOK, NEW n \in ScoreRules, NEW t \in Traces, ~AlreadyScored(n, t)
  PROVE  sinceTried[<<n, t>>] = Memory
<1> DEFINE p == <<n, t>>
<1>1. p \in Pairs /\ Memory \in Nat \ {0} /\ sinceTried[p] \in 0 .. Memory /\ Len(scored) \in Nat
  BY ScoringAssumption DEF Pairs, MemoryOK
<1>2. ASSUME sinceTried[p] < Memory PROVE FALSE
  <2>1. sinceTried[p] < Len(scored) /\ scored[Len(scored) - sinceTried[p]] = p
    BY <1>1, <1>2 DEF MemoryOK
  <2>2. Len(scored) - sinceTried[p] \in 1 .. Len(scored)
    BY <1>1, <2>1
  <2> QED BY <2>1, <2>2 DEF AlreadyScored
<1> QED BY <1>1, <1>2

\* The memory holds the last attempts, and the loop asks only for traces it does not hold.
LEMMA LoopStep ==
  ASSUME ScoreInv, [ScoreNext]_scoreVars
  PROVE  MemoryOK' /\ LoopOK'
<1>0. MemoryOK /\ LoopOK /\ scoreRules \subseteq ScoreRules
  BY DEF ScoreInv, TableOK
<1> USE <1>0 DEF Loops
<1>1. ASSUME \/ \E c \in ScoreClients :
                  \/ \E n \in ScoreRules : CreateScoreRule(c, n) \/ DeleteScoreRule(c, n)
                  \/ ForgetStatus(c) \/ SaveScoreRules(c)
             \/ ScoreOpen \/ UNCHANGED scoreVars
      PROVE  MemoryOK' /\ LoopOK'
  <2>1. UNCHANGED <<scored, sinceTried, loop>>
    BY <1>1 DEF CreateScoreRule, DeleteScoreRule, ForgetStatus, SaveScoreRules, ScoreOpen, scoreVars
  <2> QED BY <2>1 DEF MemoryOK, LoopOK
<1>2. CASE StartScoring
  BY <1>2 DEF StartScoring, MemoryOK, LoopOK, Idle
<1>3. ASSUME NEW n \in ScoreRules, NEW found \in SUBSET Traces, SelectCandidates(n, found)
      PROVE  MemoryOK' /\ LoopOK'
  <2> DEFINE left == {t \in found : <<n, t>> \in Sampled /\ ~AlreadyScored(n, t)}
  <2>1. \A t \in left : t \in Traces /\ sinceTried[<<n, t>>] = Memory
    BY <1>3, NotInMemory
  <2>2. loop' = [loop EXCEPT !.todo = @ \ {n}, !.at = "score", !.rule = n, !.left = left] /\ UNCHANGED <<scored, sinceTried>>
    BY <1>3 DEF SelectCandidates
  <2> HIDE DEF left
  <2>3. left \subseteq Traces
    BY <2>1
  <2>4. loop' \in Loops /\ loop'.at = "score" /\ loop'.rule = n /\ loop'.left = left
    BY <2>2, <2>3 DEF LoopOK
  <2> QED BY <2>1, <2>2, <2>4 DEF MemoryOK, LoopOK
<1>4. ASSUME NEW n \in ScoreRules, SelectFails(n) PROVE MemoryOK' /\ LoopOK'
  BY <1>4 DEF SelectFails, MemoryOK, LoopOK
<1>5. ASSUME NEW t \in Traces, RunScorer(t) PROVE MemoryOK' /\ LoopOK'
  BY <1>5 DEF RunScorer, MemoryOK, LoopOK
<1>6. ASSUME loop.at = "judging", Remembered(loop.rule, loop.trace), loop' = [loop EXCEPT !.at = "score", !.trace = "none"]
      PROVE  MemoryOK' /\ LoopOK'
  <2>1. loop \in Loops /\ loop.rule \in ScoreRules /\ loop.trace \in Traces \ loop.left /\ loop.left \subseteq Traces
        /\ \A t \in loop.left : sinceTried[<<loop.rule, t>>] = Memory
    BY <1>6 DEF LoopOK
  <2>2. MemoryOK' /\ \A p \in Pairs : p # <<loop.rule, loop.trace>> =>
                         sinceTried'[p] = IF sinceTried[p] < Memory THEN sinceTried[p] + 1 ELSE Memory
    BY <1>6, <2>1, RememberingKeeps
  <2>3. \A t \in loop.left : sinceTried'[<<loop.rule, t>>] = Memory
    BY <2>1, <2>2, ScoringAssumption DEF Pairs
  <2>4. loop' \in Loops /\ loop'.at = "score" /\ loop'.rule = loop.rule /\ loop'.left = loop.left
    BY <1>6, <2>1
  <2> QED BY <2>1, <2>2, <2>3, <2>4 DEF LoopOK
<1>7. CASE JudgeEnds
  BY <1>6, <1>7 DEF JudgeEnds, JudgeFails, Judged
<1>8. CASE NextRule
  BY <1>8 DEF NextRule, MemoryOK, LoopOK
<1>9. CASE EndScoring
  BY <1>9 DEF EndScoring, MemoryOK, LoopOK, Idle
<1>10. CASE ScoreCrash
  BY <1>10, ScoringAssumption DEF ScoreCrash, MemoryOK, LoopOK, Idle, Pairs, Longest
<1> QED BY <1>1, <1>2, <1>3, <1>4, <1>5, <1>7, <1>8, <1>9, <1>10 DEF ScoreNext, LoopSteps, Selects

\* The invariant of online scoring: what is counted is stored, and what the loop still
\* has to do is not in its memory.
THEOREM ScoreInvariant == ScoreSpec => []ScoreInv
<1>1. ScoreInit => ScoreInv
  BY ScoringAssumption DEF ScoreInit, ScoreInv, TableOK, StatusIsHonest, MemoryOK, LoopOK, Loops, Idle, Pairs, Longest
<1>2. ScoreInv /\ [ScoreNext]_scoreVars => ScoreInv'
  BY TableStep, LoopStep DEF ScoreInv
<1> QED BY <1>1, <1>2, PTL DEF ScoreSpec

\* Nothing is counted as written that is not stored, and a trace is judged again only
\* after the memory went over it.
THEOREM ScoresHonest == ScoreSpec => []ScoresAreHonest
<1>1. ScoreInv => ScoresAreHonest
  BY ScoringAssumption DEF ScoreInv, TableOK, LoopOK, ScoresAreHonest, RescoredOnlyAfterEviction
<1> QED BY <1>1, ScoreInvariant, PTL

\* The table has valid rules, one status each, and the memory is bounded.
THEOREM ScoreTypes == ScoreSpec => []ScoreTypeOK
<1>1. ScoreInv => ScoreTypeOK
  <2>1. ASSUME ScoreInv, NEW n \in ScoreRules PROVE Cardinality(status[n]) <= 1
    <3>1. status[n] = {} \/ \E k \in 0 .. MaxCount : status[n] = {k}
      BY <2>1 DEF ScoreInv, TableOK
    <3>2. Cardinality({}) = 0 /\ \A k \in 0 .. MaxCount : Cardinality({k}) = 1
      BY FS_EmptySet, FS_Singleton
    <3> QED BY <3>1, <3>2
  <2> QED BY <2>1 DEF ScoreInv, TableOK, MemoryOK, LoopOK, Loops, ScoreTypeOK
<1> QED BY <1>1, ScoreInvariant, PTL

-----------------------------------------------------------------------------
(* Eval runs.                                                              *)

\* Cases, points, spans and the two commands.
AllCases == UNION {ToSet(CaseFile[r]) : r \in EvalRunIds}
Points == UNION {{ScorePoint(r, line) : line \in ToSet(ScoreFile[r])} : r \in EvalRunIds}
CaseSpans == [run : EvalRunIds, case : AllCases, index : Nat, attempt : Nat,
              role : {"runner", "own"}, status : {"unset", "ok", "error"}]
Runners == [at : {"ready", "begun", "ran", "done", "failed", "bailed"}, case : Nat \ {0}, attempt : Nat, ok : BOOLEAN]
Scorers == [at : {"ready", "failed"}, line : Nat \ {0}, attempt : Nat]

EvalShapes ==
  /\ caseSpans \subseteq CaseSpans /\ IsFiniteSet(caseSpans)
  /\ scores \in Seq(Points)
  /\ runner \in [EvalRunIds -> Runners] /\ scorer \in [EvalRunIds -> Scorers]
  /\ evalFaults \in 0 .. MaxLost

\* A runner is at a case of its file, unless that has none.
PlacesOK ==
  \A r \in EvalRunIds :
    \/ runner[r].case <= Len(CaseFile[r])
    \/ runner[r].case = 1 /\ runner[r].at = "ready"

\* Cases it has been at have a span.
Passed(r) == {i \in 1 .. Len(CaseFile[r]) :
                \/ i < runner[r].case
                \/ i = runner[r].case /\ runner[r].at \in {"begun", "ran", "failed", "done"}}

SeenOK == \A r \in EvalRunIds : \A i \in Passed(r) : \E s \in caseSpans : s.run = r /\ s.case = CaseFile[r][i]

EndsOK ==
  \A r \in EvalRunIds :
    /\ runner[r].at = "failed" => \E s \in caseSpans : s.run = r /\ s.status = "error"
    /\ runner[r].at = "done" => runner[r].case = Len(CaseFile[r])
    /\ runner[r].at = "ran" /\ ~runner[r].ok => <<r, CurrentCase(r)>> \in blamed

BlamedOK == \A s \in caseSpans : s.status = "error" => <<s.run, s.case>> \in blamed

EvalInv == EvalShapes /\ PlacesOK /\ SeenOK /\ EndsOK /\ BlamedOK

Statuses == {"unset", "ok", "error"}

\* A case of a file is one of its cases.
LEMMA CasesTyped ==
  ASSUME NEW r \in EvalRunIds, NEW i \in 1 .. Len(CaseFile[r])
  PROVE  CaseFile[r][i] \in AllCases /\ CaseFile[r][i] \in ToSet(CaseFile[r])
<1>1. CaseFile[r] \in Seq(ToSet(CaseFile[r]))
  BY EvalAssumption DEF EvalRunIds
<1>2. CaseFile[r][i] \in ToSet(CaseFile[r])
  BY <1>1
<1> QED BY <1>2 DEF AllCases

\* A file has so many cases.
LEMMA FilesAreFinite ==
  ASSUME NEW r \in EvalRunIds
  PROVE  Len(CaseFile[r]) \in Nat /\ DOMAIN CaseFile[r] = 1 .. Len(CaseFile[r])
BY EvalAssumption DEF EvalRunIds

\* The span of a case is put in its place.
LEMMA SpanTyped ==
  ASSUME EvalShapes, NEW r \in EvalRunIds, runner[r].case <= Len(CaseFile[r]), NEW kind \in Statuses
  PROVE  RunnerSpan(r, kind) \in CaseSpans
<1>1. runner[r] \in Runners
  BY DEF EvalShapes
<1>2. runner[r].case \in 1 .. Len(CaseFile[r]) /\ runner[r].attempt \in Nat
  BY <1>1, FilesAreFinite DEF Runners
<1>3. CurrentCase(r) \in AllCases
  BY <1>2, CasesTyped DEF CurrentCase
<1> QED BY <1>2, <1>3 DEF RunnerSpan, CaseSpans, Statuses

\* It takes the place of the one before, and leaves the others.
LEMMA SpanReplaced ==
  ASSUME EvalShapes, NEW r \in EvalRunIds, runner[r].case <= Len(CaseFile[r]), NEW kind \in Statuses
  PROVE  /\ Replacing(r, kind) \subseteq CaseSpans /\ IsFiniteSet(Replacing(r, kind))
         /\ \A s \in Replacing(r, kind) : s \in caseSpans \/ s = RunnerSpan(r, kind)
         /\ \A s \in caseSpans :
              \/ s \in Replacing(r, kind)
              \/ s.run = r /\ s.case = CurrentCase(r)
         /\ RunnerSpan(r, kind) \in Replacing(r, kind)
<1> DEFINE span == RunnerSpan(r, kind)
           kept == {s \in caseSpans : [s EXCEPT !.status = kind] # span}
<1>1. span \in CaseSpans /\ span.run = r /\ span.case = CurrentCase(r)
  BY SpanTyped DEF RunnerSpan
<1>2. Replacing(r, kind) = kept \cup {span}
  BY DEF Replacing
<1>3. kept \in SUBSET caseSpans /\ caseSpans \subseteq CaseSpans /\ IsFiniteSet(caseSpans)
  BY DEF EvalShapes
<1>4. IsFiniteSet(kept) /\ IsFiniteSet(kept \cup {span})
  BY <1>3, FS_Subset, FS_AddElement
<1>5. ASSUME NEW s \in caseSpans, s \notin kept PROVE s.run = r /\ s.case = CurrentCase(r)
  <2>1. [s EXCEPT !.status = kind] = span
    BY <1>5
  <2>2. s \in CaseSpans
    BY <1>3
  <2>3. [s EXCEPT !.status = kind].run = s.run /\ [s EXCEPT !.status = kind].case = s.case
    BY <2>2 DEF CaseSpans
  <2> HIDE DEF span
  <2> QED BY <2>1, <2>3, <1>1
<1> HIDE DEF span, kept
<1>6. RunnerSpan(r, kind) = span
  BY DEF span
<1> QED BY <1>1, <1>2, <1>3, <1>4, <1>5, <1>6

\* A request that is answered well was served.
LEMMA AnswersTyped ==
  ASSUME EvalShapes, NEW answer \in Answers, Faulty(answer)
  PROVE  /\ evalFaults' \in 0 .. MaxLost
         /\ answer.stored \in BOOLEAN /\ answer.ok \in BOOLEAN /\ (answer.ok => answer.stored)
<1>1. CASE answer = [stored |-> TRUE, ok |-> TRUE]
  BY <1>1, EvalAssumption DEF Faulty, EvalShapes
<1>2. CASE evalFaults < MaxLost /\ \E x \in BOOLEAN : answer = [stored |-> x, ok |-> FALSE]
  BY <1>2, EvalAssumption DEF Faulty, EvalShapes
<1> QED BY <1>1, <1>2 DEF Answers

\* What a request that writes a span comes to.
LEMMA SpanWritten ==
  ASSUME EvalShapes, NEW r \in EvalRunIds, runner[r].case <= Len(CaseFile[r]),
         NEW kind \in Statuses, NEW next \in Runners, WriteRunnerSpan(r, kind, next)
  PROVE  /\ evalFaults' \in 0 .. MaxLost
         /\ caseSpans' \subseteq CaseSpans /\ IsFiniteSet(caseSpans')
         /\ \A s \in caseSpans' : s \in caseSpans \/ s = RunnerSpan(r, kind)
         /\ \A s \in caseSpans : s \in caseSpans' \/ s.run = r
         /\ \A s \in caseSpans : \E t \in caseSpans' : t.run = s.run /\ t.case = s.case
         /\ \/ RunnerSpan(r, kind) \in caseSpans' /\ runner' = [runner EXCEPT ![r] = next]
            \/ runner' = [runner EXCEPT ![r] = [@ EXCEPT !.at = "bailed"]]
<1>1. PICK answer \in Answers :
        /\ Faulty(answer)
        /\ caseSpans' = IF answer.stored THEN Replacing(r, kind) ELSE caseSpans
        /\ runner' = [runner EXCEPT ![r] = IF answer.ok THEN next ELSE [@ EXCEPT !.at = "bailed"]]
  BY DEF WriteRunnerSpan
<1>2. /\ evalFaults' \in 0 .. MaxLost
      /\ answer.stored \in BOOLEAN /\ answer.ok \in BOOLEAN /\ (answer.ok => answer.stored)
  BY <1>1, AnswersTyped
<1>3. RunnerSpan(r, kind).run = r /\ RunnerSpan(r, kind).case = CurrentCase(r)
  BY DEF RunnerSpan
<1>4. /\ caseSpans' \subseteq CaseSpans /\ IsFiniteSet(caseSpans')
      /\ \A s \in caseSpans' : s \in caseSpans \/ s = RunnerSpan(r, kind)
      /\ \A s \in caseSpans : s \in caseSpans' \/ s.run = r
      /\ \A s \in caseSpans : \E t \in caseSpans' : t.run = s.run /\ t.case = s.case
      /\ answer.stored => RunnerSpan(r, kind) \in caseSpans'
  <2>1. CASE answer.stored
    <3>1. caseSpans' = Replacing(r, kind)
      BY <2>1, <1>1
    <3> QED BY <3>1, <1>3, SpanReplaced
  <2>2. CASE ~answer.stored
    <3>1. caseSpans' = caseSpans
      BY <2>2, <1>1
    <3> QED BY <3>1, <2>2 DEF EvalShapes
  <2> QED BY <2>1, <2>2
<1>5. \/ RunnerSpan(r, kind) \in caseSpans' /\ runner' = [runner EXCEPT ![r] = next]
      \/ runner' = [runner EXCEPT ![r] = [@ EXCEPT !.at = "bailed"]]
  <2>1. CASE answer.ok
    BY <2>1, <1>1, <1>2, <1>4
  <2>2. CASE ~answer.ok
    BY <2>2, <1>1
  <2> QED BY <2>1, <2>2
<1> QED BY <1>2, <1>4, <1>5

\* A step after which every case still has its spans, and those that failed are blamed.
SpansKept(r) ==
  /\ \A s \in caseSpans : s \in caseSpans' \/ s.run = r
  /\ \A s \in caseSpans : \E t \in caseSpans' : t.run = s.run /\ t.case = s.case
  /\ \A s \in caseSpans' : s.status = "error" => <<s.run, s.case>> \in blamed'
  /\ blamed \subseteq blamed'

\* What is to be shown of a step that puts the runner of r where n says.
Moves(r, n) ==
  /\ runner' = [runner EXCEPT ![r] = n]
  /\ n.case <= Len(CaseFile[r]) \/ (n.case = 1 /\ n.at = "ready")
  /\ \A i \in 1 .. Len(CaseFile[r]) :
       i < n.case \/ (i = n.case /\ n.at \in {"begun", "ran", "failed", "done"}) =>
         i \in Passed(r) \/ \E t \in caseSpans' : t.run = r /\ t.case = CaseFile[r][i]
  /\ n.at = "failed" => \E s \in caseSpans' : s.run = r /\ s.status = "error"
  /\ n.at = "done" => n.case = Len(CaseFile[r])
  /\ n.at = "ran" /\ ~n.ok => <<r, CaseFile[r][n.case]>> \in blamed'

\* Then all that is claimed of runners and spans still holds.
LEMMA RunnerMoves ==
  ASSUME EvalInv, EvalShapes', NEW r \in EvalRunIds, NEW n \in Runners, SpansKept(r), Moves(r, n)
  PROVE  PlacesOK' /\ SeenOK' /\ EndsOK' /\ BlamedOK'
<1> USE DEF SpansKept, Moves
<1> USE DEF EvalInv
<1>1. runner'[r] = n /\ \A q \in EvalRunIds \ {r} : runner'[q] = runner[q]
  BY DEF EvalShapes
<1>2. PlacesOK'
  BY <1>1 DEF PlacesOK
<1>3. SeenOK'
  <2> SUFFICES ASSUME NEW q \in EvalRunIds, NEW i \in Passed(q)'
               PROVE  \E s \in caseSpans' : s.run = q /\ s.case = CaseFile[q][i]
    BY DEF SeenOK
  <2>1. ASSUME i \in Passed(q) PROVE \E s \in caseSpans' : s.run = q /\ s.case = CaseFile[q][i]
    BY <2>1 DEF SeenOK
  <2>2. CASE q = r
    <3>1. i \in 1 .. Len(CaseFile[r]) /\ (i < n.case \/ (i = n.case /\ n.at \in {"begun", "ran", "failed", "done"}))
      BY <2>2, <1>1 DEF Passed
    <3> QED BY <3>1, <2>1, <2>2
  <2>3. CASE q # r
    BY <2>3, <2>1, <1>1 DEF Passed
  <2> QED BY <2>2, <2>3
<1>4. EndsOK'
  <2> SUFFICES ASSUME NEW q \in EvalRunIds
               PROVE  /\ runner'[q].at = "failed" => \E s \in caseSpans' : s.run = q /\ s.status = "error"
                      /\ runner'[q].at = "done" => runner'[q].case = Len(CaseFile[q])
                      /\ runner'[q].at = "ran" /\ ~runner'[q].ok => <<q, CurrentCase(q)'>> \in blamed'
    BY Zenon DEF EndsOK
  <2>1. CASE q = r
    BY <2>1, <1>1 DEF CurrentCase
  <2>2. CASE q # r
    BY <2>2, <1>1 DEF EndsOK, CurrentCase
  <2> QED BY <2>1, <2>2
<1>5. BlamedOK'
  BY DEF BlamedOK
<1> QED BY <1>2, <1>3, <1>4, <1>5

\* It holds at the start.
LEMMA EvalStart == EvalInit => EvalInv
<1> SUFFICES ASSUME EvalInit PROVE EvalInv
  OBVIOUS
<1> USE DEF EvalInit
<1>1. EvalShapes
  BY EvalAssumption, FS_EmptySet DEF EvalShapes, Runners, Scorers
<1>2. PlacesOK /\ EndsOK
  BY DEF PlacesOK, EndsOK
<1>3. SeenOK
  BY FilesAreFinite DEF SeenOK, Passed
<1> QED BY <1>1, <1>2, <1>3 DEF EvalInv, BlamedOK

\* A runner that has begun is at a case of its file.
LEMMA RunnerAt ==
  ASSUME EvalInv, NEW r \in EvalRunIds
  PROVE  /\ runner[r] \in Runners /\ Len(CaseFile[r]) \in Nat
         /\ runner[r].case \in Nat \ {0}
         /\ runner[r].at # "ready" => runner[r].case \in 1 .. Len(CaseFile[r])
<1>1. runner[r] \in Runners /\ Len(CaseFile[r]) \in Nat
  BY FilesAreFinite DEF EvalInv, EvalShapes
<1> QED BY <1>1 DEF EvalInv, PlacesOK, Runners

\* And after every step of a runner: a case begun,
LEMMA BeginCaseStep ==
  ASSUME EvalInv, NEW r \in EvalRunIds, BeginCase(r)
  PROVE  EvalInv'
<1> DEFINE next == [runner[r] EXCEPT !.at = "begun"]
           bail == [runner[r] EXCEPT !.at = "bailed"]
           span == RunnerSpan(r, "unset")
<1>1. /\ runner[r].at = "ready" /\ runner[r].case \in 1 .. Len(CaseFile[r])
      /\ WriteRunnerSpan(r, "unset", next) /\ UNCHANGED <<scores, scorer, blamed>>
  BY RunnerAt DEF BeginCase
<1>2. next \in Runners /\ bail \in Runners /\ next.at = "begun" /\ bail.at = "bailed"
      /\ next.case = runner[r].case /\ bail.case = runner[r].case /\ next.ok = runner[r].ok
  BY RunnerAt DEF Runners
<1>3. span.run = r /\ span.case = CaseFile[r][runner[r].case] /\ span.status = "unset"
  BY DEF RunnerSpan, CurrentCase
<1> HIDE DEF next, bail, span
<1>4. /\ evalFaults' \in 0 .. MaxLost
      /\ caseSpans' \subseteq CaseSpans /\ IsFiniteSet(caseSpans')
      /\ \A s \in caseSpans' : s \in caseSpans \/ s = span
      /\ \A s \in caseSpans : s \in caseSpans' \/ s.run = r
      /\ \A s \in caseSpans : \E t \in caseSpans' : t.run = s.run /\ t.case = s.case
      /\ \/ span \in caseSpans' /\ runner' = [runner EXCEPT ![r] = next]
         \/ runner' = [runner EXCEPT ![r] = bail]
  BY <1>1, <1>2, SpanWritten DEF EvalInv, Statuses, bail, span
<1>5. EvalShapes'
  BY <1>1, <1>2, <1>4 DEF EvalInv, EvalShapes
<1>6. SpansKept(r)
  <2>1. \A s \in caseSpans' : s.status = "error" => <<s.run, s.case>> \in blamed'
    BY <1>1, <1>3, <1>4 DEF EvalInv, BlamedOK
  <2> QED BY <2>1, <1>1, <1>4 DEF SpansKept
<1>7. PlacesOK' /\ SeenOK' /\ EndsOK' /\ BlamedOK'
  <2>1. CASE span \in caseSpans' /\ runner' = [runner EXCEPT ![r] = next]
    <3>1. Moves(r, next)
      BY <2>1, <1>1, <1>2, <1>3 DEF Passed, Moves
    <3> QED BY <3>1, <1>2, <1>5, <1>6, RunnerMoves
  <2>2. CASE runner' = [runner EXCEPT ![r] = bail]
    <3>1. Moves(r, bail)
      BY <2>2, <1>1, <1>2 DEF Passed, Moves
    <3> QED BY <3>1, <1>2, <1>5, <1>6, RunnerMoves
  <2> QED BY <1>4, <2>1, <2>2
<1> QED BY <1>5, <1>7 DEF EvalInv

\* its command run,
LEMMA RunCommandStep ==
  ASSUME EvalInv, NEW r \in EvalRunIds, NEW ok \in BOOLEAN, NEW own \in {{}, {"error"}}, RunCommand(r, ok, own)
  PROVE  EvalInv'
<1> DEFINE next == [runner[r] EXCEPT !.at = "ran", !.ok = ok]
           spans == {[RunnerSpan(r, st) EXCEPT !.role = "own"] : st \in own}
<1>1. /\ runner[r].at = "begun" /\ runner[r].case \in 1 .. Len(CaseFile[r])
      /\ runner' = [runner EXCEPT ![r] = next]
      /\ caseSpans' = caseSpans \cup spans
      /\ blamed' = IF ok /\ "error" \notin own THEN blamed ELSE blamed \cup {<<r, CurrentCase(r)>>}
      /\ UNCHANGED <<scores, scorer, evalFaults>>
  BY RunnerAt DEF RunCommand
<1>2. next \in Runners /\ next.at = "ran" /\ next.case = runner[r].case /\ next.ok = ok
  BY RunnerAt DEF Runners
<1>3. ~ok => <<r, CurrentCase(r)>> \in blamed'
  BY <1>1, Zenon
<1>4. spans \subseteq CaseSpans /\ IsFiniteSet(spans)
  <2>1. CASE own = {}
    BY <2>1, FS_EmptySet
  <2>2. CASE own = {"error"}
    <3> DEFINE span == [RunnerSpan(r, "error") EXCEPT !.role = "own"]
    <3>1. spans = {span}
      BY <2>2
    <3>2. RunnerSpan(r, "error") \in CaseSpans
      BY <1>1, SpanTyped, RunnerAt DEF EvalInv, Statuses
    <3>3. span \in CaseSpans
      BY <3>2 DEF CaseSpans
    <3> HIDE DEF span, spans
    <3> QED BY <3>1, <3>3, FS_Singleton
  <2> QED BY <2>1, <2>2
<1>5. \A s \in spans : s.run = r /\ s.case = CurrentCase(r) /\ "error" \in own
  BY DEF RunnerSpan
<1> HIDE DEF next, spans
<1>6. EvalShapes'
  <2>1. caseSpans' \subseteq CaseSpans /\ IsFiniteSet(caseSpans')
    BY <1>1, <1>4, FS_Union DEF EvalInv, EvalShapes
  <2> QED BY <2>1, <1>1, <1>2, <1>3 DEF EvalInv, EvalShapes
<1>7. SpansKept(r)
  <2>1. \A s \in caseSpans' : s.status = "error" => <<s.run, s.case>> \in blamed'
    BY <1>1, <1>5 DEF EvalInv, BlamedOK
  <2> QED BY <2>1, <1>1 DEF SpansKept
<1>8. Moves(r, next)
  BY <1>1, <1>2, <1>3 DEF Moves, Passed, CurrentCase
<1> QED BY <1>2, <1>6, <1>7, <1>8, RunnerMoves DEF EvalInv

\* the case ended, well or not,
LEMMA EndCaseStep ==
  ASSUME EvalInv, NEW r \in EvalRunIds, EndCase(r)
  PROVE  EvalInv'
<1> DEFINE kind == IF runner[r].ok THEN "ok" ELSE "error"
           at == IF ~runner[r].ok THEN "failed"
                 ELSE IF runner[r].case = Len(CaseFile[r]) THEN "done" ELSE "ready"
           case == IF runner[r].ok /\ runner[r].case < Len(CaseFile[r]) THEN runner[r].case + 1 ELSE runner[r].case
           next == [runner[r] EXCEPT !.at = at, !.case = case]
           bail == [runner[r] EXCEPT !.at = "bailed"]
           span == RunnerSpan(r, kind)
<1>1. /\ runner[r].at = "ran" /\ runner[r].case \in 1 .. Len(CaseFile[r])
      /\ WriteRunnerSpan(r, kind, next) /\ UNCHANGED <<scores, scorer, blamed>>
  BY RunnerAt DEF EndCase
<1>2. /\ next \in Runners /\ next.ok = runner[r].ok /\ next.at = at /\ next.case = case
      /\ bail \in Runners /\ bail.at = "bailed" /\ bail.case = runner[r].case
  <2>1. at \in {"failed", "done", "ready"} /\ case \in Nat \ {0} /\ runner[r] \in Runners
    BY RunnerAt
  <2> HIDE DEF at, case
  <2> QED BY <2>1 DEF Runners
<1>3. /\ span.run = r /\ span.case = CaseFile[r][runner[r].case] /\ span.status = kind
      /\ kind \in Statuses /\ (kind = "error" => ~runner[r].ok) /\ (~runner[r].ok => kind = "error")
  BY DEF RunnerSpan, CurrentCase, Statuses
<1> HIDE DEF next, bail, span, kind
<1>4. /\ evalFaults' \in 0 .. MaxLost
      /\ caseSpans' \subseteq CaseSpans /\ IsFiniteSet(caseSpans')
      /\ \A s \in caseSpans' : s \in caseSpans \/ s = span
      /\ \A s \in caseSpans : s \in caseSpans' \/ s.run = r
      /\ \A s \in caseSpans : \E t \in caseSpans' : t.run = s.run /\ t.case = s.case
      /\ \/ span \in caseSpans' /\ runner' = [runner EXCEPT ![r] = next]
         \/ runner' = [runner EXCEPT ![r] = bail]
  BY <1>1, <1>2, <1>3, SpanWritten DEF EvalInv, bail, span
<1>5. EvalShapes'
  BY <1>1, <1>2, <1>4 DEF EvalInv, EvalShapes
<1>6. SpansKept(r)
  <2>1. \A s \in caseSpans' : s.status = "error" => <<s.run, s.case>> \in blamed'
    BY <1>1, <1>3, <1>4 DEF EvalInv, BlamedOK, EndsOK, CurrentCase
  <2> QED BY <2>1, <1>1, <1>4 DEF SpansKept
<1>7. Passed(r) = {i \in 1 .. Len(CaseFile[r]) : i <= runner[r].case} /\ Len(CaseFile[r]) \in Nat
  BY <1>1, RunnerAt DEF Passed
<1>8. PlacesOK' /\ SeenOK' /\ EndsOK' /\ BlamedOK'
  <2>1. CASE span \in caseSpans' /\ runner' = [runner EXCEPT ![r] = next]
    <3>1. Moves(r, next)
      BY <2>1, <1>1, <1>2, <1>3, <1>7 DEF Moves
    <3> QED BY <3>1, <1>2, <1>5, <1>6, RunnerMoves
  <2>2. CASE runner' = [runner EXCEPT ![r] = bail]
    <3>1. Moves(r, bail)
      BY <2>2, <1>1, <1>2, <1>7 DEF Moves
    <3> QED BY <3>1, <1>2, <1>5, <1>6, RunnerMoves
  <2> QED BY <1>4, <2>1, <2>2
<1> QED BY <1>5, <1>8 DEF EvalInv

\* the run started again;
LEMMA RunAgainStep ==
  ASSUME EvalInv, NEW r \in EvalRunIds, RunAgain(r)
  PROVE  EvalInv'
<1> DEFINE next == [at |-> "ready", case |-> 1, attempt |-> runner[r].attempt + 1, ok |-> TRUE]
<1>1. /\ runner[r].at # "ready" /\ runner' = [runner EXCEPT ![r] = next]
      /\ UNCHANGED <<caseSpans, scores, scorer, evalFaults, blamed>>
  BY DEF RunAgain
<1>2. next \in Runners /\ next.at = "ready" /\ next.case = 1
  BY RunnerAt DEF Runners
<1> HIDE DEF next
<1>3. EvalShapes'
  BY <1>1, <1>2 DEF EvalInv, EvalShapes
<1>4. SpansKept(r)
  BY <1>1 DEF SpansKept, EvalInv, BlamedOK
<1>5. Moves(r, next)
  BY <1>1, <1>2 DEF Moves
<1> QED BY <1>2, <1>3, <1>4, <1>5, RunnerMoves DEF EvalInv

\* Score uploads leave the runner and its spans alone.
LEMMA UploadStep ==
  ASSUME EvalInv, EvalShapes', UNCHANGED <<caseSpans, runner, blamed>>
  PROVE  EvalInv'
<1>1. PlacesOK'
  BY DEF EvalInv, PlacesOK
<1>2. SeenOK'
  BY DEF EvalInv, SeenOK, Passed
<1>3. EndsOK'
  BY DEF EvalInv, EndsOK, CurrentCase
<1>4. BlamedOK'
  BY DEF EvalInv, BlamedOK
<1> QED BY <1>1, <1>2, <1>3, <1>4 DEF EvalInv

\* a line of a score file sent, which adds a point at most,
LEMMA PostScoreStep ==
  ASSUME EvalInv, NEW r \in EvalRunIds, PostScore(r)
  PROVE  /\ EvalInv'
         /\ \/ scores' = scores
            \/ \E p \in Points : scores' = Append(scores, p)
<1> DEFINE point == ScorePoint(r, ScoreFile[r][scorer[r].line])
<1>1. scorer[r] \in Scorers
  BY DEF EvalInv, EvalShapes
<1>2. PICK answer \in Answers :
        /\ scorer[r].line <= Len(ScoreFile[r]) /\ Faulty(answer)
        /\ scores' = IF answer.stored THEN Append(scores, point) ELSE scores
        /\ scorer' = [scorer EXCEPT ![r] =
                        [at |-> IF answer.ok THEN "ready" ELSE "failed",
                         line |-> scorer[r].line + 1, attempt |-> scorer[r].attempt]]
        /\ UNCHANGED <<caseSpans, runner, blamed>>
  BY DEF PostScore
<1>3. point \in Points
  <2>1. ScoreFile[r] \in Seq(ToSet(ScoreFile[r])) /\ scorer[r].line \in 1 .. Len(ScoreFile[r])
    BY <1>1, <1>2, EvalAssumption DEF EvalRunIds, Scorers
  <2>2. ScoreFile[r][scorer[r].line] \in ToSet(ScoreFile[r])
    BY <2>1
  <2> QED BY <2>2 DEF Points
<1>4. evalFaults' \in 0 .. MaxLost
  BY <1>2, AnswersTyped DEF EvalInv
<1> HIDE DEF point
<1>5. EvalShapes'
  <2>1. scores' \in Seq(Points)
    BY <1>2, <1>3 DEF EvalInv, EvalShapes
  <2>2. scorer' \in [EvalRunIds -> Scorers]
    <3>1. [at |-> IF answer.ok THEN "ready" ELSE "failed",
           line |-> scorer[r].line + 1, attempt |-> scorer[r].attempt] \in Scorers
      BY <1>1 DEF Scorers
    <3> QED BY <1>2, <3>1 DEF EvalInv, EvalShapes
  <2> QED BY <2>1, <2>2, <1>2, <1>4 DEF EvalInv, EvalShapes
<1>6. EvalInv'
  BY <1>2, <1>5, UploadStep
<1> QED BY <1>2, <1>3, <1>6

\* or the file sent again.
LEMMA ScoreAgainStep ==
  ASSUME EvalInv, NEW r \in EvalRunIds, ScoreAgain(r)
  PROVE  EvalInv'
<1>1. scorer[r] \in Scorers
  BY DEF EvalInv, EvalShapes
<1>2. /\ scorer' = [scorer EXCEPT ![r] = [at |-> "ready", line |-> 1, attempt |-> scorer[r].attempt + 1]]
      /\ UNCHANGED <<caseSpans, scores, runner, evalFaults, blamed>>
  BY DEF ScoreAgain
<1>3. EvalShapes'
  BY <1>1, <1>2 DEF EvalInv, EvalShapes, Scorers
<1> QED BY <1>2, <1>3, UploadStep

\* So every step keeps it.
LEMMA EvalSteps == EvalInv /\ [EvalNext]_evalVars => EvalInv'
<1> SUFFICES ASSUME EvalInv, [EvalNext]_evalVars PROVE EvalInv'
  OBVIOUS
<1>1. CASE UNCHANGED evalVars
  <2>1. EvalShapes' /\ UNCHANGED <<caseSpans, runner, blamed>>
    BY <1>1 DEF EvalInv, EvalShapes, evalVars
  <2> QED BY <2>1, UploadStep
<1>2. CASE EvalNext
  BY <1>2, BeginCaseStep, EndCaseStep, RunAgainStep, PostScoreStep, ScoreAgainStep, RunCommandStep DEF EvalNext
<1> QED BY <1>1, <1>2

\* Types, and what runners have done is on record, in every state.
THEOREM EvalInvariant == EvalSpec => []EvalInv
<1>1. EvalInit => EvalInv
  BY EvalStart
<1>2. EvalInv /\ [EvalNext]_evalVars => EvalInv'
  BY EvalSteps
<1> QED BY <1>1, <1>2, PTL DEF EvalSpec

\* What a function makes of a finite set is finite.
LEMMA ImageFinite ==
  ASSUME NEW f, IsFiniteSet(DOMAIN f), f = [x \in DOMAIN f |-> f[x]]
  PROVE  IsFiniteSet({f[x] : x \in DOMAIN f})
<1>1. f \in Surjection(DOMAIN f, {f[x] : x \in DOMAIN f})
  BY DEF Surjection
<1> QED BY <1>1, FS_Surjection

\* The least of some numbers.
LEMMA MinOf ==
  ASSUME NEW S \in SUBSET Nat, S # {}
  PROVE  Min(S) \in S /\ \A y \in S : Min(S) <= y
<1>1. PICK x \in S : \A y \in S : <<y, x>> \notin OpToRel(<, Nat)
  BY WFMin, NatLessThanWellFounded, Zenon
<1>2. \A y \in S : ~ (y < x)
  BY <1>1, Zenon DEF OpToRel
<1>3. \A y \in S : x <= y
  BY ONLY <1>2, S \in SUBSET Nat, x \in S
<1> QED BY <1>3 DEF Min

\* Points have values.
LEMMA PointsTyped ==
  ASSUME EvalShapes
  PROVE  /\ Len(scores) \in Nat /\ DOMAIN scores = 1 .. Len(scores)
         /\ \A i \in 1 .. Len(scores) : scores[i] \in Points /\ scores[i].value \in Int
<1>1. scores \in Seq(Points)
  BY DEF EvalShapes
<1>2. \A p \in Points : p.value \in Int
  BY EvalAssumption DEF Points, ScorePoint, EvalRunIds
<1> QED BY <1>1, <1>2

\* The oldest point of a metric is one of its points, and none is before it.
LEMMA OldestIs ==
  ASSUME EvalShapes, NEW points \in SUBSET (1 .. Len(scores)), NEW m \in MetricsIn(points)
  PROVE  \E i \in points : /\ OldestOf(points, m) = scores[i] /\ scores[i].metric = m
                           /\ \A j \in points : scores[j].metric = m => i <= j
<1> DEFINE those == {i \in points : scores[i].metric = m}
<1>1. those \in SUBSET Nat /\ those # {}
  <2>1. those \in SUBSET points /\ 1 .. Len(scores) \in SUBSET Nat
    BY PointsTyped
  <2>2. PICK i \in points : scores[i].metric = m
    BY DEF MetricsIn
  <2> QED BY <2>1, <2>2
<1>2. Min(those) \in those /\ \A y \in those : Min(those) <= y
  <2> HIDE DEF those
  <2> QED BY <1>1, MinOf
<1> QED BY <1>2 DEF OldestOf

\* So the score of a case for a metric is the value of a point of it.
LEMMA ValuesTyped ==
  ASSUME EvalShapes, NEW r, NEW c, NEW m \in DOMAIN CaseScores(r, c)
  PROVE  \E i \in PointsOf(r, c) :
           CaseScores(r, c)[m] = scores[i].value /\ scores[i].metric = m /\ scores[i].value \in Int
<1>1. m \in MetricsIn(PointsOf(r, c)) /\ PointsOf(r, c) \in SUBSET (1 .. Len(scores))
  BY DEF CaseScores, PointsOf
<1>2. PICK i \in PointsOf(r, c) : OldestOf(PointsOf(r, c), m) = scores[i] /\ scores[i].metric = m
  BY <1>1, OldestIs
<1>3. CaseScores(r, c)[m] = OldestOf(PointsOf(r, c), m).value
  BY <1>1 DEF CaseScores
<1> QED BY <1>1, <1>2, <1>3, PointsTyped

\* And so are labels.
LEMMA LabelsAreOfPoints ==
  ASSUME EvalShapes, NEW r, NEW c, NEW label \in CaseLabels(r, c)
  PROVE  \E i \in PointsOf(r, c) : scores[i].label = label
<1> DEFINE points == {i \in PointsOf(r, c) : scores[i].label # "none"}
<1>1. PICK m \in MetricsIn(points) : label = OldestOf(points, m).label
  BY DEF CaseLabels
<1>2. points \in SUBSET (1 .. Len(scores)) /\ points \in SUBSET PointsOf(r, c)
  BY DEF PointsOf
<1>3. PICK i \in points : OldestOf(points, m) = scores[i]
  <2> HIDE DEF points
  <2> QED BY <1>2, OldestIs
<1> QED BY <1>1, <1>2, <1>3

\* Finitely many cases are seen of a run.
LEMMA SeenFinite ==
  ASSUME EvalShapes, NEW r
  PROVE  IsFiniteSet(CasesSeen(r))
<1> DEFINE some == {x \in caseSpans : x.run = r}
           these == {x \in 1 .. Len(scores) : scores[x].run = r}
           f == [s \in some |-> s.case]
           g == [i \in these |-> scores[i].case]
<1>1. IsFiniteSet(some)
  BY FS_Subset DEF EvalShapes
<1>2. IsFiniteSet(these)
  <2>1. IsFiniteSet(1 .. Len(scores)) /\ these \in SUBSET (1 .. Len(scores))
    BY FS_Interval, PointsTyped
  <2> QED BY <2>1, FS_Subset
<1>3. CasesSeen(r) = {f[x] : x \in DOMAIN f} \cup {g[x] : x \in DOMAIN g}
  BY DEF CasesSeen
<1>4. DOMAIN f = some /\ DOMAIN g = these /\ f = [x \in DOMAIN f |-> f[x]] /\ g = [x \in DOMAIN g |-> g[x]]
  OBVIOUS
<1> HIDE DEF f, g, some, these
<1>5. IsFiniteSet({f[x] : x \in DOMAIN f}) /\ IsFiniteSet({g[x] : x \in DOMAIN g})
  BY <1>1, <1>2, <1>4, ImageFinite
<1> QED BY <1>3, <1>5, FS_Union

\* A case fails by a span or by a score.
LEMMA WhyFailed ==
  ASSUME EvalInv, NEW r \in EvalRunIds, NEW c, CaseStatus(r, c) = "fail"
  PROVE  \/ <<r, c>> \in blamed
         \/ \E p \in ToSet(scores) : p.run = r /\ (p.label = "fail" \/ p.value < 1)
<1>1. CASE \E s \in SpansOf(r, c) : s.status = "error"
  BY <1>1 DEF EvalInv, BlamedOK, SpansOf
<1>2. \A i \in PointsOf(r, c) : scores[i] \in ToSet(scores) /\ scores[i].run = r
  BY PointsTyped DEF EvalInv, PointsOf, ToSet
<1>3. CASE "fail" \in CaseLabels(r, c)
  BY <1>2, <1>3, LabelsAreOfPoints DEF EvalInv
<1>4. CASE \E m \in DOMAIN CaseScores(r, c) : ~ (CaseScores(r, c)[m] >= 1)
  <2>1. PICK m \in DOMAIN CaseScores(r, c) : ~ (CaseScores(r, c)[m] >= 1)
    BY <1>4
  <2>2. PICK i \in PointsOf(r, c) : CaseScores(r, c)[m] = scores[i].value /\ scores[i].value \in Int
    BY ValuesTyped DEF EvalInv
  <2>3. scores[i].value < 1
    BY <2>1, <2>2
  <2> QED BY <1>2, <2>3
<1> QED BY <1>1, <1>3, <1>4, Zenon DEF CaseStatus

\* And it fails if there is such a span.
LEMMA ErrorFails ==
  ASSUME EvalShapes, NEW r, NEW s \in caseSpans, s.run = r, s.status = "error"
  PROVE  s.case \in WithStatus(r, "fail")
<1>1. s \in SpansOf(r, s.case) /\ s.case \in CasesSeen(r)
  BY DEF SpansOf, CasesSeen
<1> QED BY <1>1 DEF WithStatus, CaseStatus

\* Sizes of sets of cases.
LEMMA CasesCount ==
  ASSUME EvalShapes, NEW r, NEW S \in SUBSET CasesSeen(r), NEW T \in SUBSET CasesSeen(r)
  PROVE  /\ IsFiniteSet(S) /\ Cardinality(S) \in Nat /\ Cardinality(S \cap T) \in Nat /\ Cardinality(S \cup T) \in Nat
         /\ Cardinality(S \cap T) <= Cardinality(S) /\ Cardinality(S) <= Cardinality(S \cup T)
         /\ Cardinality(S \cup T) = Cardinality(S) + Cardinality(T) - Cardinality(S \cap T)
         /\ Cardinality(S \cup T) <= Cardinality(CasesSeen(r)) /\ Cardinality(CasesSeen(r)) \in Nat
         /\ (S = {}) <=> Cardinality(S) = 0
<1>1. IsFiniteSet(CasesSeen(r)) /\ S \cup T \in SUBSET CasesSeen(r) /\ S \cap T \in SUBSET S /\ S \in SUBSET (S \cup T)
  BY SeenFinite
<1>2. IsFiniteSet(S) /\ IsFiniteSet(T) /\ IsFiniteSet(S \cup T) /\ IsFiniteSet(S \cap T)
  BY <1>1, FS_Subset
<1> QED BY <1>1, <1>2, FS_Subset, FS_Union, FS_EmptySet, FS_CardinalityType

\* Two sets of cases that have none in common are no more than all.
LEMMA ApartCount ==
  ASSUME EvalShapes, NEW r, NEW S \in SUBSET CasesSeen(r), NEW T \in SUBSET CasesSeen(r), S \cap T = {}
  PROVE  Cardinality(S) + Cardinality(T) <= Cardinality(CasesSeen(r))
<1>1. Cardinality(S \cup T) = Cardinality(S) + Cardinality(T) - Cardinality(S \cap T)
  BY ONLY EvalShapes, S \in SUBSET CasesSeen(r), T \in SUBSET CasesSeen(r), CasesCount
<1>2. Cardinality(S \cup T) <= Cardinality(CasesSeen(r))
  BY ONLY EvalShapes, S \in SUBSET CasesSeen(r), T \in SUBSET CasesSeen(r), CasesCount
<1>3. Cardinality(S) \in Nat /\ Cardinality(T) \in Nat
  BY CasesCount
<1>4. Cardinality(S \cap T) = 0
  BY FS_EmptySet
<1> QED BY <1>1, <1>2, <1>3, <1>4

\* The greater of two numbers.
LEMMA MaxOfTwo ==
  ASSUME NEW a \in Nat, NEW b \in Nat
  PROVE  Max({a, b}) = IF a >= b THEN a ELSE b
<1>1. \E x \in {a, b} : \A y \in {a, b} : x >= y
  OBVIOUS
<1>2. Max({a, b}) \in {a, b} /\ \A y \in {a, b} : Max({a, b}) >= y
  BY <1>1 DEF Max
<1> QED BY <1>2

\* The cases that have a span, and those that have a score.
SeenCases(r)   == {c \in CasesSeen(r) : HasTrace(r, c)}
ScoredCases(r) == {c \in CasesSeen(r) : DOMAIN CaseScores(r, c) # {}}

\* What is counted of a run.
LEMMA SummaryIs ==
  ASSUME EvalShapes, NEW r \in EvalRunIds
  PROVE  LET run == RunSummary(r) IN
         /\ run.observed = Cardinality(SeenCases(r)) /\ run.scored = Cardinality(ScoredCases(r))
         /\ run.observed \in Nat /\ run.scored \in Nat
         /\ run.passed = Cardinality(WithStatus(r, "pass")) /\ run.failed = Cardinality(WithStatus(r, "fail"))
         /\ run.passed \in Nat /\ run.failed \in Nat
         /\ run.total = Len(CaseFile[r]) /\ run.total \in Nat
         /\ run.known <=> \E s \in caseSpans : s.run = r
         /\ run.known \in BOOLEAN
         /\ run.pending = IF ~run.known THEN 0
                          ELSE IF run.observed >= run.total \/ run.scored >= run.total THEN 0
                          ELSE IF run.observed >= run.scored THEN run.total - run.observed
                          ELSE run.total - run.scored
<1> DEFINE observed == Cardinality(SeenCases(r))
           numbered   == Cardinality(ScoredCases(r))
           known    == \E s \in caseSpans : s.run = r
           total    == Len(CaseFile[r])
           reached  == Max({observed, numbered})
           passed   == Cardinality(WithStatus(r, "pass"))
           failed   == Cardinality(WithStatus(r, "fail"))
           pending  == IF known /\ reached < total THEN total - reached ELSE 0
<1>1. RunSummary(r) = [observed |-> observed, scored |-> numbered, known |-> known, total |-> total,
                       passed |-> passed, failed |-> failed, pending |-> pending]
  BY DEF RunSummary, SeenCases, ScoredCases
<1>2. /\ SeenCases(r) \in SUBSET CasesSeen(r) /\ ScoredCases(r) \in SUBSET CasesSeen(r)
      /\ WithStatus(r, "pass") \in SUBSET CasesSeen(r) /\ WithStatus(r, "fail") \in SUBSET CasesSeen(r)
  BY DEF SeenCases, ScoredCases, WithStatus
<1>3. observed \in Nat /\ numbered \in Nat /\ passed \in Nat /\ failed \in Nat /\ total \in Nat
  BY <1>2, CasesCount, FilesAreFinite
<1>4. known \in BOOLEAN
  OBVIOUS
<1> HIDE DEF observed, numbered, passed, failed, total, known
<1>5. reached = IF observed >= numbered THEN observed ELSE numbered
  BY <1>3, MaxOfTwo
<1>6. pending = IF ~known THEN 0
                ELSE IF observed >= total \/ numbered >= total THEN 0
                ELSE IF observed >= numbered THEN total - observed ELSE total - numbered
  BY <1>3, <1>4, <1>5
<1> HIDE DEF reached, pending
<1>7. LET run == RunSummary(r) IN
      /\ run.observed = observed /\ run.scored = numbered /\ run.passed = passed /\ run.failed = failed
      /\ run.total = total /\ run.pending = pending
  BY <1>1
<1>8. RunSummary(r).known = known
  BY Zenon DEF RunSummary, known
<1> QED BY <1>3, <1>4, <1>6, <1>7, <1>8 DEF observed, numbered, passed, failed, total, known

\* The counts of a run add up.
LEMMA CountsHold == EvalInv => CountsAddUp
<1> SUFFICES ASSUME EvalInv, NEW r \in EvalRunIds
             PROVE  LET run   == RunSummary(r)
                        seen  == {c \in CasesSeen(r) : HasTrace(r, c)}
                        rated == {c \in CasesSeen(r) : PointsOf(r, c) # {}}
                    IN  /\ run.passed + run.failed <= Cardinality(CasesSeen(r))
                        /\ run.known /\ CasesSeen(r) \subseteq ToSet(CaseFile[r]) =>
                             run.pending \in run.total - Cardinality(seen \cup rated)
                                          .. run.total - Cardinality(seen \cap rated)
  BY DEF CountsAddUp
<1> DEFINE run   == RunSummary(r)
           seen  == {c \in CasesSeen(r) : HasTrace(r, c)}
           rated == {c \in CasesSeen(r) : PointsOf(r, c) # {}}
<1>0. EvalShapes
  BY DEF EvalInv
<1>1. seen = SeenCases(r) /\ rated = ScoredCases(r)
  BY DEF SeenCases, ScoredCases, CaseScores, MetricsIn
<1>2. seen \in SUBSET CasesSeen(r) /\ rated \in SUBSET CasesSeen(r)
  OBVIOUS
<1>3. run.passed + run.failed <= Cardinality(CasesSeen(r))
  <2> DEFINE passing == WithStatus(r, "pass")
             failing == WithStatus(r, "fail")
  <2>1. passing \in SUBSET CasesSeen(r) /\ failing \in SUBSET CasesSeen(r) /\ passing \cap failing = {}
    BY DEF WithStatus
  <2>2. run.passed = Cardinality(passing) /\ run.failed = Cardinality(failing)
    BY <1>0, SummaryIs
  <2> HIDE DEF passing, failing, run, seen, rated
  <2>3. Cardinality(passing) + Cardinality(failing) <= Cardinality(CasesSeen(r))
    BY <1>0, <2>1, ApartCount
  <2> QED BY <2>2, <2>3
<1>4. ASSUME run.known, CasesSeen(r) \subseteq ToSet(CaseFile[r])
      PROVE  run.pending \in run.total - Cardinality(seen \cup rated) .. run.total - Cardinality(seen \cap rated)
  <2> DEFINE n == Len(CaseFile[r])
  <2>1. Cardinality(CasesSeen(r)) <= n
    <3>1. CaseFile[r] \in Surjection(1 .. n, ToSet(CaseFile[r])) /\ n \in Nat
      <4>1. n \in Nat /\ DOMAIN CaseFile[r] = 1 .. n /\ CaseFile[r] \in Seq(ToSet(CaseFile[r]))
        BY EvalAssumption, FilesAreFinite DEF EvalRunIds
      <4>2. \A t \in ToSet(CaseFile[r]) : \E i \in 1 .. n : CaseFile[r][i] = t
        BY <4>1 DEF ToSet
      <4>3. CaseFile[r] \in [1 .. n -> ToSet(CaseFile[r])]
        BY <4>1
      <4> QED BY <4>1, <4>2, <4>3 DEF Surjection
    <3>2. IsFiniteSet(1 .. n) /\ Cardinality(1 .. n) = n
      BY <3>1, FS_Interval
    <3>3. IsFiniteSet(ToSet(CaseFile[r])) /\ Cardinality(ToSet(CaseFile[r])) <= n
      BY <3>1, <3>2, FS_Surjection
    <3>4. Cardinality(CasesSeen(r)) <= Cardinality(ToSet(CaseFile[r]))
      BY <1>4, <3>3, FS_Subset
    <3>5. Cardinality(CasesSeen(r)) \in Nat /\ Cardinality(ToSet(CaseFile[r])) \in Nat
      BY <3>3, <1>0, SeenFinite, FS_CardinalityType
    <3> QED BY <3>1, <3>3, <3>4, <3>5
  <2> DEFINE s == Cardinality(seen)
             t == Cardinality(rated)
             u == Cardinality(seen \cup rated)
             v == Cardinality(seen \cap rated)
             all == Cardinality(CasesSeen(r))
  <2>2. s \in Nat /\ t \in Nat /\ u \in Nat /\ v \in Nat /\ all \in Nat /\ n \in Nat
    BY <1>0, <1>2, CasesCount, FilesAreFinite
  <2>3. v <= s /\ v <= t /\ s <= u /\ t <= u /\ u <= all
    <3> HIDE DEF seen, rated
    <3>1. seen \cap rated = rated \cap seen /\ seen \cup rated = rated \cup seen
      OBVIOUS
    <3>2. v <= s /\ s <= u /\ u <= all
      BY ONLY <1>0, <1>2, CasesCount DEF s, u, v, all
    <3>3. Cardinality(rated \cap seen) <= Cardinality(rated) /\ Cardinality(rated) <= Cardinality(rated \cup seen)
      BY ONLY <1>0, <1>2, CasesCount
    <3> QED BY <3>1, <3>2, <3>3 DEF t, u, v
  <2>4. run.total = n /\ run.pending = IF s >= n \/ t >= n THEN 0 ELSE IF s >= t THEN n - s ELSE n - t
    BY <1>0, <1>1, <1>4, SummaryIs
  <2> HIDE DEF s, t, u, v, all, n, run, seen, rated
  <2>5. run.pending \in run.total - u .. run.total - v
    BY <2>1, <2>2, <2>3, <2>4 DEF all
  <2> QED BY <2>5 DEF u, v
<1> QED BY <1>3, <1>4

\* A run shows how its runner ended.
LEMMA OutcomesHold == EvalInv => OutcomeShows
<1> SUFFICES ASSUME EvalInv, NEW r \in EvalRunIds
             PROVE  LET run == RunSummary(r)
                    IN  /\ runner[r].at = "done" /\ IsInjective(CaseFile[r]) =>
                             RunStatus(run) \in {"complete", "failed"} /\ run.pending = 0
                        /\ runner[r].at = "failed" => RunStatus(run) = "failed"
                        /\ RunStatus(run) = "failed" =>
                             \/ \E c \in CasesSeen(r) : <<r, c>> \in blamed
                             \/ \E p \in ToSet(scores) : p.run = r /\ (p.label = "fail" \/ p.value < 1)
  BY DEF OutcomeShows
<1> DEFINE run == RunSummary(r)
<1>0. EvalShapes
  BY DEF EvalInv
<1>1. /\ run.failed = Cardinality(WithStatus(r, "fail")) /\ run.failed \in Nat
      /\ run.observed \in Nat /\ run.scored \in Nat /\ run.total = Len(CaseFile[r]) /\ run.total \in Nat
      /\ run.observed = Cardinality(SeenCases(r))
      /\ run.known <=> \E s \in caseSpans : s.run = r
      /\ run.observed >= run.total => run.pending = 0
  BY <1>0, SummaryIs
<1>2. WithStatus(r, "fail") \in SUBSET CasesSeen(r) /\ SeenCases(r) \in SUBSET CasesSeen(r)
  BY DEF WithStatus, SeenCases
<1>3. WithStatus(r, "fail") = {} <=> run.failed = 0
  BY <1>0, <1>1, <1>2, CasesCount
<1> HIDE DEF run
<1>4. ASSUME runner[r].at = "done", IsInjective(CaseFile[r])
      PROVE  RunStatus(run) \in {"complete", "failed"} /\ run.pending = 0
  <2> DEFINE n == Len(CaseFile[r])
  <2>1. runner[r].case = n /\ n \in Nat \ {0}
    BY <1>4, RunnerAt DEF EvalInv, EndsOK
  <2>2. \A i \in 1 .. n : \E s \in caseSpans : s.run = r /\ s.case = CaseFile[r][i]
    BY <1>4, <2>1 DEF EvalInv, SeenOK, Passed
  <2>3. \A i \in 1 .. n : CaseFile[r][i] \in SeenCases(r)
    BY <2>2 DEF SeenCases, CasesSeen, HasTrace, SpansOf
  <2>4. DOMAIN CaseFile[r] = 1 .. n /\ CaseFile[r] \in Seq(ToSet(CaseFile[r]))
    BY FilesAreFinite, EvalAssumption DEF EvalRunIds
  <2>5. CaseFile[r] \in Injection(1 .. n, SeenCases(r))
    <3>1. CaseFile[r] \in [1 .. n -> SeenCases(r)]
      BY <2>1, <2>3, <2>4
    <3>2. \A a, b \in 1 .. n : CaseFile[r][a] = CaseFile[r][b] => a = b
      BY <1>4, <2>4 DEF IsInjective
    <3> QED BY <3>1, <3>2 DEF Injection, IsInjective
  <2>6. n <= run.observed
    <3>1. IsFiniteSet(SeenCases(r))
      BY <1>0, <1>2, CasesCount
    <3>2. Cardinality(1 .. n) = n
      BY <2>1, FS_Interval
    <3> QED BY <3>1, <3>2, <2>5, <1>1, FS_Injection
  <2>7. run.known
    BY <2>1, <2>2, <1>1
  <2> HIDE DEF n
  <2>8. run.total > 0 /\ run.observed >= run.total
    BY <2>1, <2>6, <1>1 DEF n
  <2>9. run.failed > 0 \/ run.failed = 0
    BY <1>1
  <2> QED BY <1>1, <2>7, <2>8, <2>9 DEF RunStatus
<1>5. ASSUME runner[r].at = "failed"
      PROVE  RunStatus(run) = "failed"
  <2>1. PICK s \in caseSpans : s.run = r /\ s.status = "error"
    BY <1>5 DEF EvalInv, EndsOK
  <2>2. run.failed # 0
    BY <2>1, <1>0, <1>3, ErrorFails
  <2>3. run.failed > 0 /\ run.failed # 0
    BY <2>2, <1>1
  <2> QED BY <2>3 DEF RunStatus
<1>6. ASSUME RunStatus(run) = "failed"
      PROVE  \/ \E c \in CasesSeen(r) : <<r, c>> \in blamed
             \/ \E p \in ToSet(scores) : p.run = r /\ (p.label = "fail" \/ p.value < 1)
  <2>1. run.failed > 0
    BY <1>1, <1>6 DEF RunStatus
  <2>2. PICK c \in WithStatus(r, "fail") : TRUE
    BY <2>1, <1>1, <1>3
  <2>3. c \in CasesSeen(r) /\ CaseStatus(r, c) = "fail"
    BY <2>2 DEF WithStatus
  <2> QED BY <2>3, WhyFailed
<1> QED BY <1>4, <1>5, <1>6 DEF run

\* The size of a finite set in two parts.
LEMMA PartsCount ==
  ASSUME NEW S, NEW T, IsFiniteSet(S), IsFiniteSet(T), S \cap T = {}
  PROVE  IsFiniteSet(S \cup T) /\ Cardinality(S \cup T) = Cardinality(S) + Cardinality(T)
<1>1. IsFiniteSet(S \cup T) /\ Cardinality(S \cup T) = Cardinality(S) + Cardinality(T) - Cardinality(S \cap T)
  BY FS_Union
<1>2. Cardinality(S \cap T) = 0 /\ Cardinality(S) \in Nat /\ Cardinality(T) \in Nat
  BY FS_EmptySet, FS_CardinalityType
<1> QED BY <1>1, <1>2

\* The ratings of a run are numbers, and finitely many.
LEMMA RatingsTyped ==
  ASSUME EvalShapes, NEW r
  PROVE  /\ IsFiniteSet(DOMAIN ValuesOf(r))
         /\ \A k \in DOMAIN ValuesOf(r) : ValuesOf(r)[k] \in Int
<1> DEFINE of == [c \in CasesSeen(r) |-> CaseScores(r, c)]
           keys == UNION {{c} \X DOMAIN of[c] : c \in DOMAIN of}
           f == [i \in 1 .. Len(scores) |-> scores[i].metric]
           metrics == {f[i] : i \in DOMAIN f}
<1>1. ValuesOf(r) = [k \in keys |-> of[k[1]][k[2]]]
  BY DEF ValuesOf
<1>2. \A k \in keys : k[1] \in CasesSeen(r) /\ k[2] \in DOMAIN CaseScores(r, k[1]) /\ k = <<k[1], k[2]>>
  OBVIOUS
<1>3. \A c : DOMAIN CaseScores(r, c) \subseteq metrics
  BY DEF CaseScores, MetricsIn, PointsOf
<1>4. IsFiniteSet(metrics)
  <2>1. IsFiniteSet(DOMAIN f) /\ f = [x \in DOMAIN f |-> f[x]]
    BY PointsTyped, FS_Interval
  <2> HIDE DEF f
  <2> QED BY <2>1, ImageFinite
<1>5. \A k \in keys : of[k[1]][k[2]] = CaseScores(r, k[1])[k[2]]
  BY <1>2
<1> HIDE DEF of, keys, metrics
<1>6. keys \in SUBSET (CasesSeen(r) \X metrics)
  BY <1>2, <1>3
<1>7. IsFiniteSet(keys)
  BY <1>4, <1>6, SeenFinite, FS_Product, FS_Subset
<1>8. \A k \in keys : CaseScores(r, k[1])[k[2]] \in Int
  BY <1>2, ValuesTyped
<1> QED BY <1>1, <1>5, <1>7, <1>8

\* The ratings of a run for a metric, and those of them another run has as well.
Rated(r, m)     == {k \in DOMAIN ValuesOf(r) : k[2] = m}
Risen(r, b, m) == {k \in Rated(r, m) \cap Rated(b, m) : ValuesOf(r)[k] > ValuesOf(b)[k]}
Fallen(r, b, m)    == {k \in Rated(r, m) \cap Rated(b, m) : ValuesOf(r)[k] < ValuesOf(b)[k]}
Level(r, b, m)    == {k \in Rated(r, m) \cap Rated(b, m) : ValuesOf(r)[k] = ValuesOf(b)[k]}

\* What a comparison counts of the ratings that both runs have,
LEMMA CompareBoth ==
  ASSUME NEW r, NEW b, NEW m
  PROVE  /\ Compare(r, b, m).increased = Cardinality(Risen(r, b, m))
         /\ Compare(r, b, m).decreased = Cardinality(Fallen(r, b, m))
         /\ Compare(r, b, m).unchanged = Cardinality(Level(r, b, m))
BY DEF Compare, Rated, Risen, Fallen, Level

\* of those that only the first has,
LEMMA CompareAdded ==
  ASSUME NEW r, NEW b, NEW m
  PROVE  Compare(r, b, m).added = Cardinality(Rated(r, m) \ Rated(b, m))
BY DEF Compare, Rated

\* of those that only the second has,
LEMMA CompareRemoved ==
  ASSUME NEW r, NEW b, NEW m
  PROVE  Compare(r, b, m).removed = Cardinality(Rated(b, m) \ Rated(r, m))
BY DEF Compare, Rated

\* and the sums of either.
LEMMA CompareSums ==
  ASSUME NEW r, NEW b, NEW m
  PROVE  /\ Compare(r, b, m).sums.current = SumOf(ValuesOf(r), Rated(r, m))
         /\ Compare(r, b, m).sums.baseline = SumOf(ValuesOf(b), Rated(b, m))
BY DEF Compare, Rated

\* The comparison from the other side is the mirror image.
LEMMA MirrorHolds == EvalInv => ComparesMirror
<1> SUFFICES ASSUME EvalInv, NEW r \in EvalRunIds, NEW b \in EvalRunIds, NEW m
             PROVE  Mirrored(Compare(r, b, m), Compare(b, r, m), Cardinality({k \in DOMAIN ValuesOf(r) : k[2] = m}))
  BY DEF ComparesMirror
<1>0. EvalShapes
  BY DEF EvalInv
<1> DEFINE up == Risen(r, b, m)
           down == Fallen(r, b, m)
           even == Level(r, b, m)
           new == Rated(r, m) \ Rated(b, m)
<1>1. \A k \in Rated(r, m) \cap Rated(b, m) : ValuesOf(r)[k] \in Int /\ ValuesOf(b)[k] \in Int
  BY <1>0, RatingsTyped DEF Rated
<1>2. up = Fallen(b, r, m) /\ even = Level(b, r, m)
  BY <1>1 DEF Risen, Fallen, Level
<1>3. Rated(r, m) = up \cup down \cup even \cup new
  BY <1>1 DEF Risen, Fallen, Level
<1>4. up \cap down = {} /\ (up \cup down) \cap even = {} /\ (up \cup down \cup even) \cap new = {}
  BY <1>1 DEF Risen, Fallen, Level
<1>5. IsFiniteSet(Rated(r, m))
  BY <1>0, RatingsTyped, FS_Subset DEF Rated
<1> HIDE DEF up, down, even, new
<1>6. IsFiniteSet(up) /\ IsFiniteSet(down) /\ IsFiniteSet(even) /\ IsFiniteSet(new)
  BY <1>3, <1>5, FS_Subset
<1>7. Cardinality(up) + Cardinality(down) + Cardinality(even) + Cardinality(new) = Cardinality(Rated(r, m))
  <2>1. IsFiniteSet(up \cup down) /\ Cardinality(up \cup down) = Cardinality(up) + Cardinality(down)
    BY <1>4, <1>6, PartsCount
  <2>2. /\ IsFiniteSet(up \cup down \cup even)
        /\ Cardinality(up \cup down \cup even) = Cardinality(up \cup down) + Cardinality(even)
    BY <2>1, <1>4, <1>6, PartsCount
  <2>3. Cardinality(up \cup down \cup even \cup new) = Cardinality(up \cup down \cup even) + Cardinality(new)
    BY <2>2, <1>4, <1>6, PartsCount
  <2> QED BY <2>1, <2>2, <2>3, <1>3
<1>8. /\ Compare(r, b, m).increased = Cardinality(up) /\ Compare(r, b, m).decreased = Cardinality(down)
      /\ Compare(r, b, m).unchanged = Cardinality(even)
  BY CompareBoth DEF up, down, even
<1>9. Compare(r, b, m).added = Cardinality(new)
  BY CompareAdded DEF new
<1>10. Compare(b, r, m).decreased = Cardinality(up) /\ Compare(b, r, m).unchanged = Cardinality(even)
  BY <1>2, CompareBoth
<1>11. Compare(b, r, m).removed = Cardinality(new)
  BY CompareRemoved DEF new
<1>12. Compare(r, b, m).sums.current = Compare(b, r, m).sums.baseline
  BY CompareSums
<1>13. Cardinality({k \in DOMAIN ValuesOf(r) : k[2] = m}) = Cardinality(Rated(r, m))
  BY DEF Rated
<1> QED BY <1>7, <1>8, <1>9, <1>10, <1>11, <1>12, <1>13 DEF Mirrored

\* However requests failing and commands are run again, what is counted of a run adds up,
\* shows how its runner ended, and compares the same from either side.
THEOREM EvalsCounted == EvalSpec => []EvalsAddUp
<1>1. EvalInv => EvalsAddUp
  BY CountsHold, OutcomesHold, MirrorHolds DEF EvalsAddUp
<1> QED BY <1>1, EvalInvariant, PTL

\* The states of eval runs are well typed.
THEOREM EvalTypes == EvalSpec => []EvalTypeOK
<1>1. EvalInv => EvalTypeOK
  <2> SUFFICES ASSUME EvalInv PROVE EvalTypeOK
    OBVIOUS
  <2>1. \A s \in caseSpans : s.run \in EvalRunIds /\ s.status \in {"unset", "ok", "error"}
    BY DEF EvalInv, EvalShapes, CaseSpans
  <2>2. \A r \in EvalRunIds : runner[r].case \in 1 .. Len(CaseFile[r]) + 1
    BY RunnerAt DEF EvalInv, PlacesOK
  <2> QED BY <2>1, <2>2 DEF EvalTypeOK, EvalInv, EvalShapes
<1> QED BY <1>1, EvalInvariant, PTL

\* A point more leaves the oldest of each metric where it is.
LEMMA PointsGrow ==
  ASSUME EvalShapes, NEW p \in Points, scores' = Append(scores, p), NEW r, NEW c, NEW m \in DOMAIN CaseScores(r, c)
  PROVE  CaseScores(r, c)'[m] = CaseScores(r, c)[m]
<1> DEFINE n == Len(scores)
<1>1. n \in Nat /\ scores \in Seq(Points)
  BY PointsTyped DEF EvalShapes
<1>2. Len(scores') = n + 1 /\ \A i \in 1 .. n : scores'[i] = scores[i]
  BY <1>1
<1>4. PointsOf(r, c) \subseteq PointsOf(r, c)' /\ \A i \in PointsOf(r, c)' : i \in PointsOf(r, c) \/ i = n + 1
  BY <1>1, <1>2 DEF PointsOf
<1>5. m \in MetricsIn(PointsOf(r, c)) /\ PointsOf(r, c) \in SUBSET (1 .. n) /\ PointsOf(r, c)' \in SUBSET (1 .. n + 1)
  BY <1>1, <1>2 DEF CaseScores, PointsOf
<1> DEFINE old == {i \in PointsOf(r, c) : scores[i].metric = m}
           new == {i \in PointsOf(r, c)' : scores'[i].metric = m}
<1>6. old # {} /\ old \subseteq new /\ \A i \in new : i \in old \/ i = n + 1
  BY <1>1, <1>2, <1>4, <1>5 DEF MetricsIn
<1>7. old \in SUBSET (1 .. n) /\ new \in SUBSET Nat /\ old \in SUBSET Nat
  BY <1>1, <1>5
<1>8. m \in MetricsIn(PointsOf(r, c))'
  BY <1>6 DEF MetricsIn
<1>9. OldestOf(PointsOf(r, c), m) = scores[Min(old)] /\ OldestOf(PointsOf(r, c), m)' = scores'[Min(new)]
  BY DEF OldestOf
<1> HIDE DEF old, new, n
<1>10. Min(new) = Min(old) /\ Min(old) \in 1 .. n
  <2>1. Min(old) \in old /\ \A y \in old : Min(old) <= y
    BY <1>6, <1>7, MinOf
  <2>2. Min(new) \in new /\ \A y \in new : Min(new) <= y
    BY <1>6, <1>7, MinOf
  <2>3. Min(new) <= Min(old) /\ Min(old) \in 1 .. n /\ Min(new) \in Nat
    BY <2>1, <2>2, <1>6, <1>7
  <2>4. Min(new) # n + 1
    BY <2>3, <1>1
  <2>5. Min(new) \in old
    BY <2>2, <2>4, <1>6
  <2>6. Min(old) <= Min(new)
    BY <2>1, <2>5
  <2> QED BY <2>3, <2>6, <1>1
<1>11. OldestOf(PointsOf(r, c), m)' = OldestOf(PointsOf(r, c), m)
  BY <1>2, <1>9, <1>10
<1> QED BY <1>5, <1>8, <1>11 DEF CaseScores

\* What a step does to the points.
LEMMA PointsStep ==
  ASSUME EvalInv, EvalNext
  PROVE  scores' = scores \/ \E p \in Points : scores' = Append(scores, p)
BY PostScoreStep DEF EvalNext, BeginCase, EndCase, RunAgain, ScoreAgain, RunCommand

\* Whatever is sent again, the scores of a case stay what they were shown to be.
THEOREM ScoresStay == EvalSpec => ScoresStand
<1> DEFINE Stand == \A r \in EvalRunIds : \A c \in CasesSeen(r) : \A m \in DOMAIN CaseScores(r, c) :
                      CaseScores(r, c)'[m] = CaseScores(r, c)[m]
<1>1. EvalInv /\ EvalNext => Stand
  <2> SUFFICES ASSUME EvalInv, EvalNext, NEW r \in EvalRunIds, NEW c, NEW m \in DOMAIN CaseScores(r, c)
               PROVE  CaseScores(r, c)'[m] = CaseScores(r, c)[m]
    OBVIOUS
  <2>1. CASE scores' = scores
    BY <2>1 DEF CaseScores, PointsOf, MetricsIn, OldestOf
  <2>2. CASE \E p \in Points : scores' = Append(scores, p)
    BY <2>2, PointsGrow DEF EvalInv
  <2> QED BY <2>1, <2>2, PointsStep
<1>2. EvalInv /\ [EvalNext]_evalVars => [Stand]_evalVars
  BY <1>1
<1> QED BY <1>2, EvalInvariant, PTL DEF EvalSpec, ScoresStand

-----------------------------------------------------------------------------
(* The services side by side.                                              *)

\* A behaviour of all of them is one of each: those that are not its subject stand still, and
\* few clients or a slow disk only leave steps out.
LEMMA EachService == Spec => AlertSpec /\ ScoreSpec /\ EvalSpec
<1>1. Init => AlertInit /\ ScoreInit /\ EvalInit
  BY DEF Init
<1>2. [Next]_vars => [AlertNext]_alertVars /\ [ScoreNext]_scoreVars /\ [EvalNext]_evalVars
  BY DEF Next, vars
<1> QED BY <1>1, <1>2, PTL DEF Spec, AlertSpec, ScoreSpec, EvalSpec

\* The types of the alert rules, of online scoring and of the eval runs at once.
THEOREM ServiceTypes == Spec => []TypeOK
<1>1. AlertTypeOK /\ ScoreTypeOK /\ EvalTypeOK => TypeOK
  BY DEF TypeOK
<1> QED BY <1>1, EachService, AlertTypes, ScoreTypes, EvalTypes, PTL
=============================================================================
