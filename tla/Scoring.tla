------------------------------ MODULE Scoring ------------------------------
(***************************************************************************)
(* Online scoring: the table of score rules (scoring.rs) and the loop that *)
(* goes over a copy of it, picks traces for a rule, and waits for that     *)
(* rule's judge on one trace after the other (lib.rs).  A save is one step *)
(* here: RuleFile has it in detail.                                        *)
(***************************************************************************)
EXTENDS Naturals, Sequences, FiniteSets

CONSTANTS
  ScoreRules,  \* names of rules
  Traces,
  Invalid,     \* rules that create refuses: their sample rate or command
  Sampled,     \* <<rule, trace>> where the trace is in the rule's sample
  ScoreClients,
  Memory,      \* SCORED_MEMORY
  MaxCount,    \* bound: counters stop here
  MaxScoreDeaths  \* bound: deaths of the process

VARIABLES
  scoreRules, \* ScoreRuleStore.rules
  status,    \* ScoreRuleStore.status: no entry, or one with its scores_written
  scored,    \* ScoreRuleStore.scored, oldest first
  loop,      \* spawn_online_scorer
  scoreAsked, \* the request each client waits for
  sinceTried, \* history: attempts since the last one on a rule and trace
  stored,    \* history: score points of each rule in the store
  heir,      \* history: rules that share their status with a deleted rule of the name
  scoreFile, \* the rules in score_rules.json
  scoresUp, scoreDeaths

scoreVars == <<scoreRules, status, scored, loop, scoreAsked, sinceTried, stored, heir, scoreFile, scoresUp, scoreDeaths>>

NoRequest  == [what |-> "nothing"]
Save       == [what |-> "save"]
Idle       == [at |-> "idle", todo |-> {}, rule |-> "none", left |-> {}, trace |-> "none"]
Longest    == Memory

ASSUME ScoringAssumption == Memory \in Nat \ {0} /\ MaxCount \in Nat \ {0}

Plus(n, k) == IF n + k <= MaxCount THEN n + k ELSE MaxCount

ScoreInit ==
  /\ scoreRules = {} /\ status = [n \in ScoreRules |-> {}] /\ scored = <<>>
  /\ loop = Idle /\ scoreAsked = [c \in ScoreClients |-> NoRequest]
  /\ sinceTried = [p \in ScoreRules \X Traces |-> Longest] /\ stored = [n \in ScoreRules |-> 0] /\ heir = {}
  /\ scoreFile = {} /\ scoresUp = TRUE /\ scoreDeaths = 0

-----------------------------------------------------------------------------
(* Requests.                                                               *)

\* create: an invalid rule and a name that is taken are refused.
CreateScoreRule(c, n) ==
  /\ scoresUp /\ scoreAsked[c] = NoRequest /\ n \notin scoreRules \cup Invalid
  /\ scoreRules' = scoreRules \cup {n}
  /\ stored' = [stored EXCEPT ![n] = 0]
  /\ heir' = IF status[n] = {} /\ loop.rule # n THEN heir \ {n} ELSE heir \cup {n}
  /\ scoreAsked' = [scoreAsked EXCEPT ![c] = Save]
  /\ UNCHANGED <<status, scored, loop, sinceTried, scoreFile, scoresUp, scoreDeaths>>

DeleteScoreRule(c, n) ==
  /\ scoresUp /\ scoreAsked[c] = NoRequest /\ n \in scoreRules
  /\ scoreRules' = scoreRules \ {n}
  /\ scoreAsked' = [scoreAsked EXCEPT ![c] = [what |-> "forget", rule |-> n]]
  /\ UNCHANGED <<status, scored, loop, sinceTried, stored, heir, scoreFile, scoresUp, scoreDeaths>>

\* delete: the status goes after the rule, under a lock of its own.  A rule that
\* was created in between loses what it had counted.
ForgetStatus(c) ==
  /\ scoresUp /\ scoreAsked[c].what = "forget"
  /\ LET n == scoreAsked[c].rule
     IN  status' = [status EXCEPT ![n] = {}] /\ heir' = IF n \in scoreRules THEN heir \cup {n} ELSE heir
  /\ scoreAsked' = [scoreAsked EXCEPT ![c] = Save]
  /\ UNCHANGED <<scoreRules, scored, loop, sinceTried, stored, scoreFile, scoresUp, scoreDeaths>>

\* create and delete end with save, which may fail; the answer says so, but the
\* table stays as it is.
SaveScoreRules(c) ==
  /\ scoresUp /\ scoreAsked[c].what = "save"
  /\ scoreFile' \in {scoreRules, scoreFile}
  /\ scoreAsked' = [scoreAsked EXCEPT ![c] = NoRequest]
  /\ UNCHANGED <<scoreRules, status, scored, loop, sinceTried, stored, heir, scoresUp, scoreDeaths>>

-----------------------------------------------------------------------------
(* The loop.                                                               *)

\* A tick: the rules as they are now.
StartScoring ==
  /\ scoresUp /\ loop.at = "idle" /\ scoreRules # {}
  /\ loop' = [Idle EXCEPT !.at = "select", !.todo = scoreRules]
  /\ UNCHANGED <<scoreRules, status, scored, scoreAsked, sinceTried, stored, heir, scoreFile, scoresUp, scoreDeaths>>

AlreadyScored(n, t) == \E i \in 1 .. Len(scored) : scored[i] = <<n, t>>

\* record: the entry is made if there is none.  The other counters of a status
\* move where this one does.
Recorded(n, points) ==
  [status EXCEPT ![n] = IF @ = {} THEN {points} ELSE {Plus(k, points) : k \in @}]

\* What is recorded for a rule that was deleted meanwhile is a later rule's burden.
Burdened(n) == IF n \in scoreRules THEN heir ELSE heir \cup {n}

\* select_candidates: the traces that a query finds for the rule, one span for each.
SelectCandidates(n, found) ==
  /\ scoresUp /\ loop.at = "select" /\ n \in loop.todo
  /\ loop' = [loop EXCEPT !.todo = @ \ {n}, !.at = "score", !.rule = n,
                          !.left = {t \in found : <<n, t>> \in Sampled /\ ~AlreadyScored(n, t)}]
  /\ status' = Recorded(n, 0)
  /\ heir' = Burdened(n)
  /\ UNCHANGED <<scoreRules, scored, scoreAsked, sinceTried, stored, scoreFile, scoresUp, scoreDeaths>>

SelectFails(n) ==
  /\ scoresUp /\ loop.at = "select" /\ n \in loop.todo
  /\ loop' = [loop EXCEPT !.todo = @ \ {n}]
  /\ UNCHANGED <<scoreRules, status, scored, scoreAsked, sinceTried, stored, heir, scoreFile, scoresUp, scoreDeaths>>

\* run_scorer: the judge is a process; the loop waits for it.
RunScorer(t) ==
  /\ scoresUp /\ loop.at = "score" /\ t \in loop.left
  /\ loop' = [loop EXCEPT !.at = "judging", !.left = @ \ {t}, !.trace = t]
  /\ UNCHANGED <<scoreRules, status, scored, scoreAsked, sinceTried, stored, heir, scoreFile, scoresUp, scoreDeaths>>

\* Mutant: a trace whose judge failed is not remembered.
FailedIsForgotten(n, t) ==
  /\ scored' = scored
  /\ sinceTried' = [p \in ScoreRules \X Traces |->
                 IF p = <<n, t>> THEN 0 ELSE IF sinceTried[p] < Longest THEN sinceTried[p] + 1 ELSE Longest]

\* remember_scored.
Remembered(n, t) ==
  /\ scored' = Append(IF Len(scored) >= Memory THEN Tail(scored) ELSE scored, <<n, t>>)
  /\ sinceTried' = [p \in ScoreRules \X Traces |->
                 IF p = <<n, t>> THEN 0 ELSE IF sinceTried[p] < Longest THEN sinceTried[p] + 1 ELSE Longest]

\* The judge ends well: record_online_scores writes its points, or the store
\* refuses them; mark_scored either way.
Judged(points, ok) ==
  /\ scoresUp /\ loop.at = "judging"
  /\ LET n == loop.rule  new == IF ok THEN points ELSE 0
     IN  /\ Remembered(n, loop.trace)
         /\ stored' = [stored EXCEPT ![n] = Plus(@, new)]
         /\ status' = Recorded(n, new)
         /\ heir' = Burdened(n)
  /\ loop' = [loop EXCEPT !.at = "score", !.trace = "none"]
  /\ UNCHANGED <<scoreRules, scoreAsked, scoreFile, scoresUp, scoreDeaths>>

\* The judge fails, or prints what is not a score: mark_failed.
JudgeFails ==
  /\ scoresUp /\ loop.at = "judging"
  /\ Remembered(loop.rule, loop.trace)
  /\ status' = Recorded(loop.rule, 0)
  /\ heir' = Burdened(loop.rule)
  /\ loop' = [loop EXCEPT !.at = "score", !.trace = "none"]
  /\ UNCHANGED <<scoreRules, scoreAsked, stored, scoreFile, scoresUp, scoreDeaths>>

\* Mutant: a pass ends with the first rule that had candidates.
StopAfterOne ==
  /\ scoresUp /\ loop.at = "score" /\ loop.left = {}
  /\ loop' = Idle
  /\ UNCHANGED <<scoreRules, status, scored, scoreAsked, sinceTried, stored, heir, scoreFile, scoresUp, scoreDeaths>>

\* The rule's candidates are done, and with the last rule the pass.
NextRule ==
  /\ scoresUp /\ loop.at = "score" /\ loop.left = {}
  /\ loop' = [loop EXCEPT !.at = "select", !.rule = "none"]
  /\ UNCHANGED <<scoreRules, status, scored, scoreAsked, sinceTried, stored, heir, scoreFile, scoresUp, scoreDeaths>>

EndScoring ==
  /\ scoresUp /\ loop.at = "select" /\ loop.todo = {}
  /\ loop' = Idle
  /\ UNCHANGED <<scoreRules, status, scored, scoreAsked, sinceTried, stored, heir, scoreFile, scoresUp, scoreDeaths>>

\* The process dies: status and memory are gone, the rules come from the file.
ScoreCrash ==
  /\ scoresUp /\ scoreDeaths < MaxScoreDeaths
  /\ scoresUp' = FALSE /\ scoreDeaths' = scoreDeaths + 1
  /\ scoreRules' = {} /\ status' = [n \in ScoreRules |-> {}] /\ scored' = <<>> /\ loop' = Idle
  /\ scoreAsked' = [c \in ScoreClients |-> NoRequest] /\ heir' = {}
  /\ sinceTried' = [p \in ScoreRules \X Traces |-> Longest] /\ stored' = [n \in ScoreRules |-> 0]
  /\ UNCHANGED scoreFile

ScoreOpen ==
  /\ ~scoresUp /\ scoresUp' = TRUE
  /\ scoreRules' = scoreFile
  /\ UNCHANGED <<status, scored, loop, scoreAsked, sinceTried, stored, heir, scoreFile, scoreDeaths>>

JudgeEnds == JudgeFails \/ \E points \in 0 .. 1, ok \in BOOLEAN : Judged(points, ok)

Selects(n) == SelectFails(n) \/ \E found \in SUBSET Traces : SelectCandidates(n, found)

\* The steps the loop takes by itself.
LoopSteps ==
  \/ StartScoring \/ NextRule \/ EndScoring
  \/ \E n \in ScoreRules : Selects(n)
  \/ \E t \in Traces : RunScorer(t)

ScoreNext ==
  \/ \E c \in ScoreClients :
       \/ \E n \in ScoreRules : CreateScoreRule(c, n) \/ DeleteScoreRule(c, n)
       \/ ForgetStatus(c) \/ SaveScoreRules(c)
  \/ LoopSteps \/ JudgeEnds
  \/ ScoreCrash \/ ScoreOpen

ScoreSpec == ScoreInit /\ [][ScoreNext]_scoreVars
-----------------------------------------------------------------------------
(* Properties.                                                             *)

\* Types; the memory is bounded.
ScoreTypeOK ==
  /\ scoreRules \cup scoreFile \subseteq ScoreRules \ Invalid
  /\ \A n \in ScoreRules : Cardinality(status[n]) <= 1
  /\ Len(scored) <= Memory /\ loop.todo \subseteq ScoreRules /\ loop.left \subseteq Traces

\* "re-scoring an old trace after eviction": a judge works on a trace again only
\* after Memory other attempts, of any rules, ended well or not.
RescoredOnlyAfterEviction == loop.at = "judging" => sinceTried[<<loop.rule, loop.trace>>] >= Memory

\* The status of a rule shows what became of its scores: nothing is counted as
\* written that the store refused or that an earlier rule of the name had written.
StatusIsHonest ==
  \A n \in scoreRules \ heir : \A written \in status[n] : written <= stored[n]

\* No score is counted that is not there, and none is asked for twice.
ScoresAreHonest == StatusIsHonest /\ RescoredOnlyAfterEviction

\* A rule of the copy is looked at, with or without success.
LooksAt(n) == n \in loop.todo /\ n \notin loop'.todo /\ loop'.at # "idle"

\* A rule that stays in the table is looked at again and again, as long as every
\* judge ends: other rules come, go and fail around it.
ScoreRulesGetTheirTurn ==
  \A n \in ScoreRules :
    (<>[](scoresUp /\ n \in scoreRules) /\ []<>(loop.at # "judging")) => []<><<LooksAt(n)>>_scoreVars

\* "a slow or hanging judge delays only its own results": a rule is looked at again
\* and again as long as its own judge ends.  TLC refutes it: the loop waits for the
\* judges of all rules in turn.
HangingJudgeDelaysOnlyItself ==
  \A n \in ScoreRules :
    (<>[](scoresUp /\ n \in scoreRules) /\ []<>~(loop.at = "judging" /\ loop.rule = n))
      => []<><<LooksAt(n)>>_scoreVars
=============================================================================
