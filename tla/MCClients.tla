----------------------------- MODULE MCClients -----------------------------
(***************************************************************************)
(* The screens of the user, each on its own instance: a behaviour is one   *)
(* of the terminal UI or of the desktop GUI, as subject says.              *)
(***************************************************************************)
EXTENDS Tui, Gui, TLC

VARIABLE subject

vars == <<subject, tuiVars, guiVars>>

\* Three spans of two traces, two of them with a parent, one of which never comes; a run, and
\* a newer one whose only case failed with the other trace.
Received(t, id, up, start, service) ==
  [trace |-> t, id |-> id, parent |-> up, start |-> start, service |-> service]
SpanFeed == <<Received("t", "a", "none", 1, "s"), Received("t", "c", "a", 2, "s"),
              Received("u", "b", "x", 3, "r")>>
Case(id, st, t) == [id |-> id, status |-> st, trace |-> t]
TwoRuns  == <<"r1", "r2">>
RunCases == "r1" :> <<Case("p", "pass", "t"), Case("q", "fail", "none")>> @@ "r2" :> <<Case("p", "fail", "u")>>
RunOrder == <<"run">>

\* Before the last span, which comes over the live stream, or before the newer run.
LiveOrLists == {<<2, 2>>, <<3, 1>>}

Init ==
  /\ subject \in {"tui", "gui"}
  /\ TuiInit /\ (subject = "tui" \/ <<tab, newest>> = <<"Traces", 1>>)
  /\ GuiInit

Next ==
  /\ UNCHANGED subject
  /\ \/ subject = "tui" /\ TuiNext /\ UNCHANGED guiVars
     \/ subject = "gui" /\ GuiNext /\ UNCHANGED tuiVars

Spec == Init /\ [][Next]_vars
-----------------------------------------------------------------------------
(* Properties; types only, the others are in their modules.                *)

\* Types of both.
TypeOK == TuiTypeOK /\ GuiTypeOK
=============================================================================
