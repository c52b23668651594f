------------------------------ MODULE EvalRuns ------------------------------
(***************************************************************************)
(* Eval runs: the runner and the score uploads of the command line         *)
(* (tael-cli, commands/eval.rs), the two endpoints that take what they     *)
(* send, and the summaries that the server derives whenever it is asked    *)
(* (build_eval_snapshot, api/rest.rs).  Nothing is kept of a run but its   *)
(* spans and score points; a run that is started again under its id adds   *)
(* to those of the attempt before.                                         *)
(***************************************************************************)
EXTENDS Naturals, Integers, Sequences, FiniteSets, SequencesExt, FiniteSetsExt

CONSTANTS
  CaseFile,    \* the cases of each run, in the order of its file
  ScoreFile,   \* the lines of each run's score file: [case, metric, value, label]
  MaxAttempts, \* bound: times the runner, or the upload of scores, of each run is started
  MaxLost      \* bound: requests that fail

\* A file may name a case more than once: the runner does not look.
ASSUME EvalAssumption ==
  /\ \A r \in DOMAIN CaseFile : CaseFile[r] \in Seq(ToSet(CaseFile[r]))
  /\ DOMAIN ScoreFile = DOMAIN CaseFile
  /\ \A r \in DOMAIN ScoreFile :
       /\ ScoreFile[r] \in Seq(ToSet(ScoreFile[r]))
       /\ \A line \in ToSet(ScoreFile[r]) : line.value \in Int
  /\ MaxLost \in Nat

VARIABLES
  caseSpans, \* [run, case, index, attempt, role, status]; a case of an attempt has a trace of its own
  scores,    \* points of tael_eval_score, oldest first
  runner,    \* of each run
  scorer,    \* of each run
  evalFaults,
  blamed     \* history: cases whose command failed or left a failed span

evalVars == <<caseSpans, scores, runner, scorer, evalFaults, blamed>>

EvalRunIds == DOMAIN CaseFile

EvalInit ==
  /\ caseSpans = {} /\ scores = <<>> /\ evalFaults = 0 /\ blamed = {}
  /\ runner = [r \in EvalRunIds |-> [at |-> "ready", case |-> 1, attempt |-> 1, ok |-> TRUE]]
  /\ scorer = [r \in EvalRunIds |-> [at |-> "ready", line |-> 1, attempt |-> 1]]

-----------------------------------------------------------------------------
(* Requests.                                                               *)

\* A request is served, or fails before or after the server stored what it brought.
Answers == {[stored |-> TRUE, ok |-> TRUE]} \cup
            (IF evalFaults < MaxLost THEN {[stored |-> s, ok |-> FALSE] : s \in BOOLEAN} ELSE {})

Faulty(answer) == evalFaults' = evalFaults + (IF answer.ok THEN 0 ELSE 1)

CurrentCase(r) == CaseFile[r][runner[r].case]

RunnerSpan(r, status) ==
  [run |-> r, case |-> CurrentCase(r), index |-> runner[r].case, attempt |-> runner[r].attempt,
   role |-> "runner", status |-> status]

\* The span of a case keeps its ids and its start: what comes second takes its place.
Replacing(r, status) ==
  {s \in caseSpans : [s EXCEPT !.status = status] # RunnerSpan(r, status)} \cup {RunnerSpan(r, status)}

\* write_runner_span and eval_add_runner_span; an error ends the runner.
WriteRunnerSpan(r, status, next) ==
  \E answer \in Answers :
    /\ Faulty(answer)
    /\ caseSpans' = IF answer.stored THEN Replacing(r, status) ELSE caseSpans
    /\ runner' = [runner EXCEPT ![r] = IF answer.ok THEN next ELSE [@ EXCEPT !.at = "bailed"]]

-----------------------------------------------------------------------------
(* tael eval run.                                                          *)

BeginCase(r) ==
  /\ runner[r].at = "ready" /\ runner[r].case <= Len(CaseFile[r])
  /\ WriteRunnerSpan(r, "unset", [runner[r] EXCEPT !.at = "begun"])
  /\ UNCHANGED <<scores, scorer, blamed>>

\* The command of the case, which may send spans of its own under the run and case it is given.
RunCommand(r, ok, own) ==
  /\ runner[r].at = "begun"
  /\ runner' = [runner EXCEPT ![r] = [@ EXCEPT !.at = "ran", !.ok = ok]]
  /\ caseSpans' = caseSpans \cup {[RunnerSpan(r, st) EXCEPT !.role = "own"] : st \in own}
  /\ blamed' = IF ok /\ "error" \notin own THEN blamed ELSE blamed \cup {<<r, CurrentCase(r)>>}
  /\ UNCHANGED <<scores, scorer, evalFaults>>

\* The last span of a case; the runner bails out after a failed command.
EndCase(r) ==
  /\ runner[r].at = "ran"
  /\ WriteRunnerSpan(r, IF runner[r].ok THEN "ok" ELSE "error",
       [runner[r] EXCEPT !.at = IF ~runner[r].ok THEN "failed"
                                ELSE IF runner[r].case = Len(CaseFile[r]) THEN "done" ELSE "ready",
                         !.case = IF runner[r].ok /\ @ < Len(CaseFile[r]) THEN @ + 1 ELSE @])
  /\ UNCHANGED <<scores, scorer, blamed>>

\* The same command again, with --run-id.
RunAgain(r) ==
  /\ runner[r].at \in {"done", "failed", "bailed"} /\ runner[r].attempt < MaxAttempts[r]
  /\ runner' = [runner EXCEPT ![r] = [at |-> "ready", case |-> 1, attempt |-> @.attempt + 1, ok |-> TRUE]]
  /\ UNCHANGED <<caseSpans, scores, scorer, evalFaults, blamed>>

-----------------------------------------------------------------------------
(* tael eval score.                                                        *)

\* The point of a line of the file.
ScorePoint(r, line) ==
  [run |-> r, case |-> line.case, metric |-> line.metric, value |-> line.value, label |-> line.label]

\* One line of the file: add_eval_score and eval_add_score; an error ends the upload.
PostScore(r) ==
  /\ scorer[r].at = "ready" /\ scorer[r].line <= Len(ScoreFile[r])
  /\ \E answer \in Answers :
       /\ Faulty(answer)
       /\ scores' = IF answer.stored
                    THEN Append(scores, ScorePoint(r, ScoreFile[r][scorer[r].line])) ELSE scores
       /\ scorer' = [scorer EXCEPT ![r] = [at |-> IF answer.ok THEN "ready" ELSE "failed",
                                           line |-> @.line + 1, attempt |-> @.attempt]]
  /\ UNCHANGED <<caseSpans, runner, blamed>>

ScoreAgain(r) ==
  /\ scorer[r].at = "failed" /\ scorer[r].attempt < MaxAttempts[r]
  /\ scorer' = [scorer EXCEPT ![r] = [at |-> "ready", line |-> 1, attempt |-> @.attempt + 1]]
  /\ UNCHANGED <<caseSpans, scores, runner, evalFaults, blamed>>

EvalNext ==
  \E r \in EvalRunIds :
    \/ BeginCase(r) \/ EndCase(r) \/ RunAgain(r) \/ PostScore(r) \/ ScoreAgain(r)
    \/ \E ok \in BOOLEAN, own \in {{}, {"error"}} : RunCommand(r, ok, own)

EvalSpec == EvalInit /\ [][EvalNext]_evalVars

-----------------------------------------------------------------------------
(* build_eval_snapshot.                                                    *)

SpansOf(r, c) == {s \in caseSpans : s.run = r /\ s.case = c}
\* Positions of the points of a case.
PointsOf(r, c) == {i \in 1 .. Len(scores) : scores[i].run = r /\ scores[i].case = c}
CasesSeen(r) == {s.case : s \in {x \in caseSpans : x.run = r}} \cup
                {scores[i].case : i \in {x \in 1 .. Len(scores) : scores[x].run = r}}
MetricsIn(points) == {scores[i].metric : i \in points}

\* Mutant: the newest score of a metric counts.
NewestOf(points, m) == scores[Max({i \in points : scores[i].metric = m})]

\* Points come newest first, and each is put over the one before: the oldest stays.
OldestOf(points, m) == scores[Min({i \in points : scores[i].metric = m})]

CaseScores(r, c) == [m \in MetricsIn(PointsOf(r, c)) |-> OldestOf(PointsOf(r, c), m).value]

\* The same for labels, of the points that have one.
CaseLabels(r, c) ==
  LET points == {i \in PointsOf(r, c) : scores[i].label # "none"}
  IN  {OldestOf(points, m).label : m \in MetricsIn(points)}

\* A case has a trace once a span of it is there; scores are uploaded without.
HasTrace(r, c) == SpansOf(r, c) # {}

\* infer_case_status.
CaseStatus(r, c) ==
  LET labels == CaseLabels(r, c)
      values == CaseScores(r, c)
      by(m)  == IF values[m] >= 1 THEN "pass" ELSE "fail"
  IN  IF (\E s \in SpansOf(r, c) : s.status = "error") \/ "fail" \in labels THEN "fail"
      ELSE IF "pass" \in labels THEN "pass"
      ELSE IF "pass" \in DOMAIN values THEN by("pass")
      ELSE IF "correctness" \in DOMAIN values THEN by("correctness")
      ELSE IF HasTrace(r, c) THEN "running" ELSE "pending"

\* Cases of a status.
WithStatus(r, status) == {c \in CasesSeen(r) : CaseStatus(r, c) = status}

\* The counts of a run; its runner's spans tell how many cases it has.
RunSummary(r) ==
  LET observed == Cardinality({c \in CasesSeen(r) : HasTrace(r, c)})
      scored   == Cardinality({c \in CasesSeen(r) : DOMAIN CaseScores(r, c) # {}})
      known    == \E s \in caseSpans : s.run = r
      total    == Len(CaseFile[r])
      reached  == Max({observed, scored})
  IN  [observed |-> observed, scored |-> scored, known |-> known, total |-> total,
       passed   |-> Cardinality(WithStatus(r, "pass")),
       failed   |-> Cardinality(WithStatus(r, "fail")),
       pending  |-> IF known /\ reached < total THEN total - reached ELSE 0]

\* infer_run_status.
RunStatus(run) ==
  CASE run.failed > 0 -> "failed"
    [] run.failed = 0 /\ run.known /\ run.total > 0 /\ (run.scored >= run.total \/ run.observed >= run.total)
         -> "complete"
    [] OTHER -> IF run.observed > 0 \/ run.scored > 0 THEN "running" ELSE "unknown"

-----------------------------------------------------------------------------
(* eval_compare.                                                           *)

\* cases_by_metric.
ValuesOf(r) ==
  LET of == [c \in CasesSeen(r) |-> CaseScores(r, c)]
  IN  [k \in UNION {{c} \X DOMAIN of[c] : c \in DOMAIN of} |-> of[k[1]][k[2]]]

\* The values of some of those, added up.
SumOf(values, keys) == MapThenSumSet(LAMBDA k : values[k], keys)

\* Mutant: a case that one run has not scored counts as 0 there.
CompareMissingAsZero(r, b, m) ==
  LET cur  == ValuesOf(r)
      base == ValuesOf(b)
      here == {k \in DOMAIN cur : k[2] = m}
      then == {k \in DOMAIN base : k[2] = m}
      both == here \cap then
  IN  [increased |-> Cardinality({k \in here : cur[k] > IF k \in then THEN base[k] ELSE 0}),
       decreased |-> Cardinality({k \in both : cur[k] < base[k]}),
       unchanged |-> Cardinality({k \in both : cur[k] = base[k]}),
       added |-> Cardinality(here \ then), removed |-> Cardinality(then \ here),
       sums |-> [current |-> SumOf(cur, here), baseline |-> SumOf(base, then)]]

\* summarize_compare_metrics: what the cases of a metric do between two runs.
Compare(r, b, m) ==
  LET cur  == ValuesOf(r)
      base == ValuesOf(b)
      here == {k \in DOMAIN cur : k[2] = m}
      then == {k \in DOMAIN base : k[2] = m}
      both == here \cap then
  IN  [increased |-> Cardinality({k \in both : cur[k] > base[k]}),
       decreased |-> Cardinality({k \in both : cur[k] < base[k]}),
       unchanged |-> Cardinality({k \in both : cur[k] = base[k]}),
       added |-> Cardinality(here \ then), removed |-> Cardinality(then \ here),
       sums |-> [current |-> SumOf(cur, here), baseline |-> SumOf(base, then)]]

-----------------------------------------------------------------------------
(* Properties.                                                             *)

\* Types.
EvalTypeOK ==
  /\ \A s \in caseSpans : s.run \in EvalRunIds /\ s.status \in {"unset", "ok", "error"}
  /\ \A r \in EvalRunIds : runner[r].case \in 1 .. Len(CaseFile[r]) + 1
  /\ evalFaults \in 0 .. MaxLost

\* A case is resolved one way at most.  If scores are for cases of the file only, those
\* that nothing came of are all pending, and no case is that has both a span and a score.
CountsAddUp ==
  \A r \in EvalRunIds :
    LET run   == RunSummary(r)
        seen  == {c \in CasesSeen(r) : HasTrace(r, c)}
        rated == {c \in CasesSeen(r) : PointsOf(r, c) # {}}
    IN  /\ run.passed + run.failed <= Cardinality(CasesSeen(r))
        /\ run.known /\ CasesSeen(r) \subseteq ToSet(CaseFile[r]) =>
             run.pending \in run.total - Cardinality(seen \cup rated) .. run.total - Cardinality(seen \cap rated)

\* When the runner has ended, the run shows how: complete or failed after all its cases,
\* if none was named twice; failed if a command failed, and failed for no other reason
\* than a command, a span or a score that says so.
OutcomeShows ==
  \A r \in EvalRunIds :
    LET run == RunSummary(r)
    IN  /\ runner[r].at = "done" /\ IsInjective(CaseFile[r]) =>
             RunStatus(run) \in {"complete", "failed"} /\ run.pending = 0
        /\ runner[r].at = "failed" => RunStatus(run) = "failed"
        /\ RunStatus(run) = "failed" =>
             \/ \E c \in CasesSeen(r) : <<r, c>> \in blamed
             \/ \E p \in ToSet(scores) : p.run = r /\ (p.label = "fail" \/ p.value < 1)

\* Two comparisons that say the same from either side, one of them about so many ratings.
Mirrored(one, other, ratings) ==
  /\ one.increased = other.decreased /\ one.unchanged = other.unchanged
  /\ one.added = other.removed /\ one.sums.current = other.sums.baseline
  /\ one.increased + one.decreased + one.unchanged + one.added = ratings

\* A comparison seen from the other run is its mirror image, and each case of a metric
\* is in one of its counts.
ComparesMirror ==
  \A r, b \in EvalRunIds : \A m \in {p.metric : p \in ToSet(scores)} :
    r # b => Mirrored(Compare(r, b, m), Compare(b, r, m), Cardinality({k \in DOMAIN ValuesOf(r) : k[2] = m}))

EvalsAddUp == CountsAddUp /\ OutcomeShows /\ ComparesMirror

\* The scores of a case stay what they were shown to be when a file is sent again, in
\* part or in whole: averages of metrics do not move by a retry.
ScoresStand ==
  [][\A r \in EvalRunIds : \A c \in CasesSeen(r) : \A m \in DOMAIN CaseScores(r, c) :
       CaseScores(r, c)'[m] = CaseScores(r, c)[m]]_evalVars
=============================================================================
