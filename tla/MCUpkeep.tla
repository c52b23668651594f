------------------------------ MODULE MCUpkeep ------------------------------
(***************************************************************************)
(* Loops that go on for ever and put right what failed before, each on its *)
(* own instance: a behaviour is one of the maintenance of the tiers, of    *)
(* the elections of a cluster, or of the desktop GUI and its timer, as     *)
(* subject says.                                                           *)
(***************************************************************************)
EXTENDS MCTieredStore

VARIABLES
  subject,
  up, gen, live, heard, leader, epoch, highest, rows, call, net, deaths, suspicions,
  calls, guiFilter, shown, stream, streams, connection, guiPaused, guiCurrent, traceOf, commentsOf,
  picked, evalRun, casesOf, baseline, compareOf, asked, ran, answerTo, panelFailed, guiSent,
  overtaken, crossed, clicks, guiFailures

cluster    == <<up, gen, live, heard, leader, epoch, highest, rows, call, net, deaths, suspicions>>
gui        == <<calls, guiFilter, shown, stream, streams, connection, guiPaused, guiCurrent, traceOf,
                commentsOf, picked, evalRun, casesOf, baseline, compareOf, asked, ran, answerTo,
                panelFailed, guiSent, overtaken, crossed, clicks, guiFailures>>
upkeepVars == <<subject, vars, cluster, gui>>

\* Two nodes that are standbys of each other, of which one or both die, or one is wrongly
\* given up on.
Pair    == {1, 2}
ToOther == [n \in Pair |-> Pair \ {n}]
Group == INSTANCE Cluster WITH
  Nodes <- Pair, Standbys <- ToOther, RequiredAcks <- 1, Records <- {},
  MaxDeaths <- 2, MaxSuspicions <- 1

\* Another run can be picked while the timer asks for the cases of the one before.
Desktop == INSTANCE Gui WITH
  Filters <- {"none"}, Traces <- {"t"}, GuiRuns <- {"r", "s"}, Queries <- {"q"},
  Statuses <- {"retrying"}, MaxCalls <- 2, MaxClicks <- 2, MaxFailures <- 1, failures <- guiFailures, query <- asked

UpkeepInit == subject \in {"tiers", "elections", "gui"} /\ Init /\ Group!Init /\ Desktop!GuiInit

UpkeepNext ==
  /\ UNCHANGED subject
  /\ \/ subject = "tiers" /\ Store /\ UNCHANGED <<cluster, gui>>
     \/ subject = "elections" /\ Group!Next /\ UNCHANGED <<vars, gui>>
     \/ subject = "gui" /\ Desktop!GuiNext /\ UNCHANGED <<vars, cluster>>

\* The interval keeps ticking, the pass runs on a thread of its own, and the process is
\* started again; nobody reads, which changes nothing that is stored.
Maintains == subject = "tiers" /\ Maintain /\ UNCHANGED <<subject, cluster, gui>>
Restarts  == subject = "tiers" /\ Restart /\ UNCHANGED <<subject, cluster, gui>>

\* A node is started again, and as long as something is new to it, its failure detector or
\* its election loop takes it up.
Elects(n) ==
  /\ subject = "elections" /\ (Group!Restart(n) \/ Group!DetectAt(n) \/ Group!Tick(n))
  /\ UNCHANGED <<subject, vars, gui>>

\* Requests of the GUI are answered or fail, and its interval timer fires.
Answered == subject = "gui" /\ Desktop!GuiAnswers /\ UNCHANGED <<subject, vars, cluster>>
Ticks    == subject = "gui" /\ Desktop!Timer /\ UNCHANGED <<subject, vars, cluster>>

UpkeepSpec ==
  /\ UpkeepInit /\ [][UpkeepNext]_upkeepVars
  /\ WF_upkeepVars(Maintains) /\ WF_upkeepVars(Restarts)
  /\ \A n \in Pair : WF_upkeepVars(Elects(n))
  /\ WF_upkeepVars(Answered) /\ WF_upkeepVars(Ticks)
-----------------------------------------------------------------------------
(* Properties; those of the tiers are in TieredStore.                      *)

\* Elections: one leader is left, the smallest running node.  GUI: however answers
\* overtook each other, the timer brings the cases back to the run they are shown under.
LoopsSettle == <>[](subject = "elections" => Group!Settled) /\ Desktop!EvalsSettle
=============================================================================
