----------------------------- MODULE MCServices -----------------------------
(***************************************************************************)
(* What judges the data: the two services that work by a clock of their    *)
(* own, and the evals that clients run, each on its own instance.  A       *)
(* behaviour is one of the alert rules, of online scoring, or of the       *)
(* runner and score uploads of two eval runs, as subject says, and the     *)
(* others stand still.                                                     *)
(***************************************************************************)
EXTENDS Alerts, Scoring, EvalRuns, TLC

VARIABLE subject

vars == <<subject, alertVars, scoreVars, evalVars>>

\* Alert rules of one name, one of which need not hold at all.
SameName == [r \in Rules |-> "n"]
OneSecondOrNone == [r \in Rules |-> IF r = "z" THEN 0 ELSE 1]

\* One client creates and deletes two rules that have to hold for a second; or several do two
\* of which one need not hold, and the disk is slow: no save gets further than its beginning.
OneClient == created \subseteq {"r1", "r2"} /\ \A c \in Clients \ {"c1"} : asked[c] = Nothing
SlowDisk  == created \subseteq {"r1", "z"} /\ running /\ \A c \in Clients : save[c].at \in {"none", "clone"}

\* Two score rules that both sample the one trace.
BothSampled == ScoreRules \X Traces

\* A run of two cases, whose score file rates a case twice; of another only scores come.
TwoFiles == "r" :> <<"p", "q">> @@ "s" :> <<>>
Line(c, metric, value, label) == [case |-> c, metric |-> metric, value |-> value, label |-> label]
ScoreLines ==
  "r" :> <<Line("p", "correctness", 1, "none"), Line("p", "correctness", 0, "none"), Line("q", "pass", 1, "pass")>> @@
  "s" :> <<Line("p", "correctness", 0, "none")>>
Tries == "r" :> 2 @@ "s" :> 1

Init ==
  /\ subject \in {"alerts", "namesakes", "scores", "evals"}
  /\ AlertInit /\ ScoreInit /\ EvalInit

Next ==
  /\ UNCHANGED subject
  /\ \/ subject = "alerts" /\ AlertNext /\ OneClient' /\ UNCHANGED <<scoreVars, evalVars>>
     \/ subject = "namesakes" /\ AlertNext /\ SlowDisk' /\ UNCHANGED <<scoreVars, evalVars>>
     \/ subject = "scores" /\ ScoreNext /\ UNCHANGED <<alertVars, evalVars>>
     \/ subject = "evals" /\ EvalNext /\ UNCHANGED <<alertVars, scoreVars>>

\* The task that scores is scheduled as long as it can take a step; the end of a judge
\* is not a step of its own.
Score == subject = "scores" /\ LoopSteps /\ UNCHANGED <<subject, alertVars, evalVars>>

Spec == Init /\ [][Next]_vars /\ WF_vars(Score)
-----------------------------------------------------------------------------
(* Properties; the others are in Alerts, Scoring and EvalRuns.             *)

\* Types of all three.
TypeOK == AlertTypeOK /\ ScoreTypeOK /\ EvalTypeOK
\* An alert rule whose condition holds long enough fires, and every score rule is looked
\* at again and again as long as judges end.
RulesGetTheirTurn == HeldRulesFire /\ ScoreRulesGetTheirTurn
=============================================================================
