------------------------------- MODULE Alerts -------------------------------
(***************************************************************************)
(* Alert rules: the table that requests edit and save (alerts.rs), and the *)
(* evaluator that goes over a copy of it, keeps a state per rule name, and *)
(* publishes and delivers the transitions (lib.rs).                        *)
(*                                                                         *)
(* A rule stands for one act of creation: two rules may have one name.     *)
(* Time is kept as ages: how long ago a pass read its clock, and how long  *)
(* ago a rule's condition was first seen to hold.                          *)
(***************************************************************************)
EXTENDS Naturals, Sequences, FiniteSets

CONSTANTS
  Rules,           \* what clients create, each once
  NameOf,          \* the name of each rule
  ForOf,           \* its for_seconds
  Unparsable,      \* rules whose query does not parse
  Clients,
  RecentCapacity,  \* RECENT_EVENT_CAPACITY
  MaxLag,          \* bound: how long a pass takes
  MaxDeaths        \* bound: deaths of the process

ASSUME AlertsAssumption ==
  /\ ForOf \in [Rules -> Nat] /\ Unparsable \subseteq Rules
  /\ \E q \in Rules : \A r \in Rules : ForOf[r] <= ForOf[q]
  /\ "nobody" \notin Rules /\ "wiped" \notin Rules
  /\ RecentCapacity \in Nat \ {0} /\ MaxLag \in Nat

VARIABLES
  rules,       \* AlertStore.rules
  states,      \* AlertStore.state, by name
  recent,      \* AlertStore.recent
  asked,       \* the request each client waits for
  acked,       \* history: rules whose creation was confirmed, until their deletion
  created,     \* history: rules that were created
  pass,        \* the evaluator
  streak,      \* history: how long each rule has been seen to hold
  running, deaths,
  file, tmp, save, overlapped

File == INSTANCE RuleFile WITH table <- rules, NoRows <- {}

fileVars   == <<file, tmp, save, overlapped>>
clientVars == <<asked, acked, created>>
alertVars  == <<rules, states, recent, clientVars, pass, streak, running, deaths,
                fileVars>>

MaxFor == CHOOSE f \in {ForOf[r] : r \in Rules} : \A r \in Rules : ForOf[r] <= f
MaxAge == MaxFor + MaxLag
Ages   == 0 .. MaxAge
Never  == MaxAge + 1
Older(age) == IF age < MaxAge THEN age + 1 ELSE age

Names   == {NameOf[r] : r \in Rules}
NoState == [is |-> "ok", since |-> Never, of |-> "nobody"]
\* The state of a rule that was wiped with that of an older rule of its name.
Wiped   == [NoState EXCEPT !.of = "wiped"]
NoPass  == [at |-> "idle", todo |-> {}, events |-> 0, lag |-> 0]
Nothing == [what |-> "nothing"]

AlertInit ==
  /\ rules = {} /\ states = [n \in Names |-> NoState] /\ recent = <<>>
  /\ asked = [c \in Clients |-> Nothing] /\ acked = {} /\ created = {}
  /\ pass = NoPass /\ streak = [r \in Rules |-> Never]
  /\ running = TRUE /\ deaths = 0
  /\ File!InitFile

-----------------------------------------------------------------------------
(* Requests.                                                               *)

\* Mutant: a name that is taken is not refused.
CreateTaken(c, r) ==
  /\ running /\ asked[c] = Nothing /\ r \notin created /\ r \notin Unparsable
  /\ rules' = rules \cup {r} /\ created' = created \cup {r}
  /\ asked' = [asked EXCEPT ![c] = [what |-> "create", rule |-> r]]
  /\ save' = [save EXCEPT ![c].at = "clone"]
  /\ UNCHANGED <<states, recent, acked, pass, streak, running, deaths, file, tmp, overlapped>>

\* create_alert, create: a query that does not parse and a name that is taken
\* are refused, without effect.
CreateAlert(c, r) ==
  /\ running /\ asked[c] = Nothing /\ r \notin created
  /\ r \notin Unparsable /\ \A q \in rules : NameOf[q] # NameOf[r]
  /\ rules' = rules \cup {r} /\ created' = created \cup {r}
  /\ asked' = [asked EXCEPT ![c] = [what |-> "create", rule |-> r]]
  /\ save' = [save EXCEPT ![c].at = "clone"]
  /\ UNCHANGED <<states, recent, acked, pass, streak, running, deaths, file, tmp, overlapped>>

\* delete_alert, delete: the rule leaves the table, and the lock is released.
DeleteAlert(c, r) ==
  /\ running /\ asked[c] = Nothing /\ r \in rules
  /\ rules' = rules \ {r} /\ acked' = acked \ {r}
  /\ asked' = [asked EXCEPT ![c] = [what |-> "delete", rule |-> r]]
  /\ UNCHANGED <<states, recent, created, pass, streak, running, deaths, fileVars>>

\* delete: then its state goes, under that map's own lock.
ForgetState(c) ==
  /\ running /\ asked[c].what = "delete" /\ save[c].at = "none"
  /\ LET r == asked[c].rule
     IN  states' = [states EXCEPT ![NameOf[r]] = IF @.of \in {r, "nobody"} THEN NoState ELSE Wiped]
  /\ asked' = [asked EXCEPT ![c] = [what |-> "deleted"]]
  /\ save' = [save EXCEPT ![c].at = "clone"]
  /\ UNCHANGED <<rules, recent, acked, created, pass, streak, running, deaths,
                 file, tmp, overlapped>>

SaveAlerts(c) ==
  /\ running /\ File!SaveStep(c)
  /\ UNCHANGED <<states, recent, clientVars, pass, streak, running, deaths>>

\* The answer: created or deleted once the save succeeds, an error otherwise.
AnswerAlert(c) ==
  /\ running /\ save[c].at \in {"saved", "failed"}
  /\ asked' = [asked EXCEPT ![c] = Nothing]
  /\ acked' = IF save[c].at = "saved" /\ asked[c].what = "create" /\ asked[c].rule \in rules
              THEN acked \cup {asked[c].rule} ELSE acked
  /\ save' = [save EXCEPT ![c] = File!NoSave]
  /\ UNCHANGED <<rules, states, recent, created, pass, streak, running, deaths,
                 file, tmp, overlapped>>

-----------------------------------------------------------------------------
(* The evaluator.                                                          *)

\* spawn_alert_evaluator: a tick with rules to evaluate; span-derived points are
\* written first, and a store that refuses them ends the pass.
Derive ==
  /\ running /\ pass.at = "idle" /\ rules # {}
  /\ pass' = [NoPass EXCEPT !.at = "evaluate", !.todo = rules]
  /\ UNCHANGED <<rules, states, recent, clientVars, streak, running, deaths, fileVars>>

\* publish: the ring of recent events.
Publish(event) ==
  recent' = Append(IF Len(recent) >= RecentCapacity THEN Tail(recent) ELSE recent, event)

\* Mutant: every evaluation begins the streak anew.
BeginAnew(r, old) ==
  [is    |-> IF ForOf[r] = 0 THEN "firing" ELSE "pending",
   since |-> pass.lag,
   of    |-> IF old.of = "nobody" THEN r ELSE old.of]

\* evaluate_all: what becomes of an entry whose condition is seen to hold.
Satisfied(r, old) ==
  LET since == IF old.since = Never THEN pass.lag ELSE old.since
  IN  [is    |-> IF since - pass.lag >= ForOf[r] THEN "firing" ELSE "pending",
       since |-> since,
       of    |-> IF old.of = "nobody" THEN r ELSE old.of]

\* Mutant: a dip makes the rule ok again and forgets to end the streak.
DipKeepsStreak(r, old) == [old EXCEPT !.is = "ok"]

Unsatisfied(r, old) == IF old.of = "wiped" /\ old.is # "firing" THEN Wiped ELSE NoState

WorthReporting(old, new) ==
  \/ old.is \in {"ok", "pending"} /\ new.is = "firing"
  \/ old.is = "firing" /\ new.is = "ok"

\* evaluate_all: one rule of the copy, whose query matched or not.  Its entry is
\* made if there is none.
Evaluate(r, matched) ==
  /\ running /\ pass.at = "evaluate" /\ r \in pass.todo
  /\ LET n     == NameOf[r]
         old   == states[n]
         new   == IF matched THEN Satisfied(r, old) ELSE Unsatisfied(r, old)
         seen  == IF ~matched THEN Never ELSE IF streak[r] = Never THEN pass.lag ELSE streak[r]
         event == [rule |-> r, is |-> new.is, own |-> old.of \in {r, "nobody"},
                   live |-> r \in rules, early |-> matched /\ seen - pass.lag < ForOf[r]]
     IN  /\ states' = [states EXCEPT ![n] = new]
         /\ streak' = [streak EXCEPT ![r] = seen]
         /\ IF WorthReporting(old, new)
            THEN Publish(event) /\ pass' = [pass EXCEPT !.todo = @ \ {r}, !.events = @ + 1]
            ELSE UNCHANGED recent /\ pass' = [pass EXCEPT !.todo = @ \ {r}]
  /\ UNCHANGED <<rules, clientVars, running, deaths, fileVars>>

\* evaluate_all: a rule that cannot be evaluated stops no other.
EvaluateFails(r) ==
  /\ running /\ pass.at = "evaluate" /\ r \in pass.todo
  /\ pass' = [pass EXCEPT !.todo = @ \ {r}]
  /\ UNCHANGED <<rules, states, recent, clientVars, streak, running, deaths, fileVars>>

\* spawn_alert_evaluator: the first event goes to the sinks of the rule that has
\* its name by now; a sink that fails is passed over.
Deliver ==
  /\ running /\ pass.at = "evaluate" /\ pass.todo = {} /\ pass.events > 0
  /\ pass' = [pass EXCEPT !.events = @ - 1]
  /\ UNCHANGED <<rules, states, recent, clientVars, streak, running, deaths, fileVars>>

EndPass ==
  /\ running /\ pass.at = "evaluate" /\ pass.todo = {} /\ pass.events = 0
  /\ pass' = NoPass
  /\ streak' = [r \in Rules |-> IF r \in rules THEN streak[r] ELSE Never]
  /\ UNCHANGED <<rules, states, recent, clientVars, running, deaths, fileVars>>

-----------------------------------------------------------------------------
(* The world around.                                                       *)

\* A second passes.
Second ==
  /\ pass.lag < MaxLag
  /\ pass' = IF pass.at = "evaluate" THEN [pass EXCEPT !.lag = @ + 1] ELSE pass
  /\ states' = [n \in Names |-> [states[n] EXCEPT !.since = IF @ = Never THEN @ ELSE Older(@)]]
  /\ streak' = [r \in Rules |-> IF streak[r] = Never THEN Never ELSE Older(streak[r])]
  /\ UNCHANGED <<rules, recent, clientVars, running, deaths, fileVars>>

\* The process dies: states and recent events are gone.
AlertCrash ==
  /\ running /\ deaths < MaxDeaths
  /\ running' = FALSE /\ deaths' = deaths + 1
  /\ states' = [n \in Names |-> NoState] /\ recent' = <<>> /\ rules' = {}
  /\ asked' = [c \in Clients |-> Nothing] /\ pass' = NoPass
  /\ streak' = [r \in Rules |-> Never]
  /\ File!DropSaves
  /\ UNCHANGED <<acked, created>>

\* AlertStore::open: the rules are those of the file.
AlertOpen ==
  /\ ~running /\ running' = TRUE
  /\ \E rows \in SUBSET Rules : File!Loads(rows) /\ rules' = rows
  /\ UNCHANGED <<states, recent, clientVars, pass, streak, deaths, fileVars>>

Requests ==
  \E c \in Clients :
    \/ \E r \in Rules : CreateAlert(c, r) \/ DeleteAlert(c, r)
    \/ ForgetState(c) \/ SaveAlerts(c) \/ AnswerAlert(c)

AlertNext ==
  \/ Requests
  \/ Derive \/ Deliver \/ EndPass
  \/ \E r \in Rules : EvaluateFails(r) \/ \E matched \in BOOLEAN : Evaluate(r, matched)
  \/ Second \/ AlertCrash \/ AlertOpen

AlertSpec == AlertInit /\ [][AlertNext]_alertVars
-----------------------------------------------------------------------------
(* Properties.                                                             *)

\* Tables, entries and events are well formed, and no two rules share a name.
AlertTypeOK ==
  /\ rules \subseteq Rules /\ acked \subseteq created
  /\ \A q, r \in rules : NameOf[q] = NameOf[r] => q = r
  /\ \A n \in Names : states[n].is \in {"ok", "pending", "firing"}
                      /\ states[n].since \in Ages \cup {Never}
  /\ pass.todo \subseteq Rules /\ pass.lag \in 0 .. MaxLag
  /\ Len(recent) <= RecentCapacity /\ streak \in [Rules -> Ages \cup {Never}]

\* "A rule must hold continuously for its `for` duration before it fires": every
\* evaluation over that long saw it hold, across passes that take their time,
\* failures and restarts, unless the entry was begun by a deleted rule of its name.
FiresAfterHolding ==
  \A i \in 1 .. Len(recent) :
    recent[i].is = "firing" /\ recent[i].own => ~recent[i].early

\* "Only transitions": what is published of a rule alternates, firing and ok, until
\* the rule is deleted or its state is wiped with that of a namesake.
TransitionsAlternate ==
  \A i, j \in 1 .. Len(recent) :
    /\ i < j /\ recent[i].rule = recent[j].rule /\ recent[i].own /\ recent[j].own /\ recent[j].live
    /\ \A k \in i + 1 .. j - 1 : recent[k].rule # recent[i].rule
    => recent[i].is # recent[j].is

\* What is published and delivered is what happened to the rule's condition.
EventsAreHonest == FiresAfterHolding /\ TransitionsAlternate

\* Without the exception.  TLC refutes it: a rule that is deleted and created again
\* during a pass inherits the streak of its namesake.
NeverFiresEarly ==
  \A i \in 1 .. Len(recent) : recent[i].is = "firing" => ~recent[i].early

\* A rule that was seen to hold for its duration and a pass longer, is evaluated again
\* and again, and holds whenever it is, fires in the end, whatever happens to other
\* rules and their requests, unless its state was wiped with that of a namesake: then
\* it has to hold as long once more.
HeldRulesFire ==
  \A r \in Rules :
    <>[](streak[r] = MaxAge /\ states[NameOf[r]].of # "wiped") /\ []<><<Evaluate(r, TRUE)>>_alertVars
      => <>(states[NameOf[r]].is = "firing")

\* The file parses at any time, and a confirmed rule is in it, through deletions of
\* others, failed saves and deaths at any point of a save, unless two saves were under
\* way at once.
ConfirmedRulesAreSaved == overlapped \/ (file.is = "whole" /\ acked \subseteq file.rows)
=============================================================================
