-------------------------------- MODULE Tui ---------------------------------
(***************************************************************************)
(* The terminal UI, tael live (tui.rs, tui_panels.rs): one loop that draws *)
(* and then takes a message of the live stream, a tick of the timer or a   *)
(* key.  Its awaits block the loop, so each of the three is one step here, *)
(* with the draw that follows it.  Layout, colours and scrolling are left  *)
(* out.  None is 0 where the code has an Option.                           *)
(***************************************************************************)
EXTENDS Naturals, Sequences, SequencesExt, FiniteSetsExt

CONSTANTS
  Feed,            \* the spans in the order they reach the server
  Runs, CasesOf,   \* eval runs, oldest first, and the cases of each
  Starts,          \* how many spans and runs there are when the UI starts
  EvalRunFilter,   \* the run asked for on the command line, or None
  Sorts,           \* the sort orders of the cases in turn; the first keeps the run's
  Panels, Found,   \* panels, and the traces a cluster or review row may point at
  Texts,           \* what may be typed: names of services and traces
  MaxLiveSpans, MaxLiveTraces,
  MaxFaults,       \* bound: requests that fail
  MaxSent,         \* bound: comments
  MaxKeys          \* bound: keys that are pressed

None == "none"
Views == {"Traces", "Services", "Evals", "Timeline", "Detail"}
Tabs  == Views \cup Panels

\* A trace has one span with an id, and no span has the name of none.
ASSUME TuiAssumption ==
  /\ Panels \cap Views = {} /\ MaxLiveSpans \in Nat /\ MaxLiveTraces \in Nat
  /\ Feed \in Seq(Range(Feed)) /\ \A s \in Starts : s[1] \in 0 .. Len(Feed)
  /\ \A i, j \in 1 .. Len(Feed) :
       /\ Feed[i].id # None
       /\ Feed[i].trace = Feed[j].trace /\ Feed[i].id = Feed[j].id => i = j

VARIABLES
  published, connected, queue, newest,             \* server and the live stream's channel
  booted, tab, prevTab, mode, paused, filter, sel, \* App
  spans, live, services,
  run, cases, failuresOnly, sortBy,
  current, waterfall, comments, panel,
  sent,       \* history: comments sent, each with the trace that was meant
  meant,      \* history: the trace a comment is typed for
  stale,      \* history: the last get_trace failed
  uiFaults, pressed

server    == <<published, connected, newest>>
lists     == <<spans, live>>
evals     == <<run, cases>>
detail    == <<current, waterfall, comments, stale>>
tuiVars   == <<server, queue, booted, tab, prevTab, mode, paused, filter, sel, lists, services, evals,
               failuresOnly, sortBy, detail, panel, sent, meant, uiFaults, pressed>>

TuiInit ==
  /\ \E s \in Starts : published = s[1] /\ newest = s[2]
  /\ connected = FALSE /\ queue = <<>>
  /\ booted = FALSE /\ tab \in {"Traces", "Evals"} /\ prevTab = "Traces"
  /\ mode = "normal" /\ paused = FALSE /\ filter = None
  /\ sel = [t \in Tabs |-> 0]
  /\ spans = <<>> /\ live = <<>> /\ services = <<>>
  /\ run = None /\ cases = <<>> /\ failuresOnly = FALSE /\ sortBy = Sorts[1]
  /\ current = None /\ waterfall = <<>> /\ comments = None
  /\ panel = [p \in Panels |-> [loaded |-> FALSE, failed |-> FALSE, missed |-> FALSE, rows |-> <<>>]]
  /\ sent = {} /\ meant = None /\ stale = FALSE /\ uiFaults = 0 /\ pressed = 0
-----------------------------------------------------------------------------
(* What is listed.                                                         *)

Named(names) == filter = None \/ filter \in names

FilteredSpans  == SelectSeq(spans, LAMBDA s : Named({s.service, s.trace}))
FilteredTraces == SelectSeq(live, LAMBDA t : Named({t.service, t.trace}))
FilteredCases  ==
  LET kept == SelectSeq(cases, LAMBDA c : /\ failuresOnly => c.status = "fail"
                                          /\ Named({c.id, c.status, c.trace}))
  IN  IF sortBy = Sorts[1] THEN kept
      ELSE SortSeq(kept, LAMBDA c, d : c.rank[sortBy] < d.rank[sortBy])

\* What is in a sequence at some of its places, in order.
Picked(s, places) ==
  [k \in 1 .. Cardinality(places) |-> s[CHOOSE i \in places : Cardinality({j \in places : j <= i}) = k]]

\* build_waterfall: the children of the span on top of the stack, in reverse, take its place
\* there; it is empty once each span has been pushed.  Then come the spans it did not get to.
Children(of, id) == Reverse(Picked(of, {i \in 1 .. Len(of) : of[i].parent = id}))
Popped(of, walk) ==
  LET found == Children(of, Last(walk.stack))
  IN  IF walk.stack = <<>> THEN walk
      ELSE [rows  |-> walk.rows \o found,
            stack |-> Front(walk.stack) \o [k \in 1 .. Len(found) |-> found[k].id]]
Walked(of) ==
  LET walk[n \in 0 .. Len(of) + 1] ==
        IF n = 0 THEN [rows |-> <<>>, stack |-> <<None>>] ELSE Popped(of, walk[n - 1])
  IN  walk[Len(of) + 1].rows
Waterfall(of) ==
  Walked(of) \o Picked(of, {i \in 1 .. Len(of) : of[i] \notin Range(Walked(of))})

RowsOf(t) ==
  CASE t = "Traces" -> FilteredSpans
    [] t = "Timeline" -> FilteredTraces
    [] t = "Services" -> services
    [] t = "Evals" -> FilteredCases
    [] t = "Detail" -> waterfall
    [] t \in Panels -> panel[t].rows

\* The draw of a table moves a selection behind the end to the last row; the timeline is
\* drawn with a copy of its selection, a failed panel as its error alone.
Draw(wanted) ==
  sel' = IF tab' = "Timeline" \/ wanted[tab'] = 0 \/ (tab' \in Panels /\ panel'[tab'].failed)
         THEN wanted
         ELSE [wanted EXCEPT ![tab'] = Min({@, Max({1, Len(RowsOf(tab)')})})]

SelectedTrace(t) ==
  IF sel[t] \in 1 .. Len(RowsOf(t)) THEN RowsOf(t)[sel[t]].trace ELSE None

\* The trace whose row is highlighted: the timeline highlights by the index in all traces.
Highlighted ==
  CASE tab \in {"Services", "Detail"} -> None
    [] tab = "Timeline" ->
         IF sel[tab] \in 1 .. Len(live) /\ live[sel[tab]] \in Range(FilteredTraces)
         THEN live[sel[tab]].trace ELSE None
    [] tab \in Panels -> IF panel[tab].failed THEN None ELSE SelectedTrace(tab)
    [] OTHER -> SelectedTrace(tab)
-----------------------------------------------------------------------------
(* The server and the live stream.                                         *)

Here == <<tab, prevTab, mode, paused, filter, failuresOnly, sortBy>>

\* The reading task connects at any time after it was spawned.
Connect ==
  /\ ~connected /\ connected' = TRUE
  /\ UNCHANGED <<published, newest, queue, booted, Here, sel, lists, services, evals, detail, panel, sent,
                 meant, uiFaults>>

Publish ==
  /\ published < Len(Feed) /\ published' = published + 1
  /\ queue' = IF connected THEN Append(queue, Feed[published']) ELSE queue
  /\ UNCHANGED <<connected, newest, booted, Here, sel, lists, services, evals, detail, panel, sent, meant,
                 uiFaults>>

NewRun ==
  /\ newest < Len(Runs) /\ newest' = newest + 1
  /\ UNCHANGED <<published, connected, queue, booted, Here, sel, lists, services, evals, detail, panel,
                 sent, meant, uiFaults>>

\* update_live_traces: a span counts again each time it is received, and the last one without
\* a parent gives its service.
Row(t, batch) ==
  LET at    == {i \in 1 .. Len(batch) : batch[i].trace = t}
      roots == {i \in at : batch[i].parent = None}
      old   == {row \in Range(live) : row.trace = t}
  IN  [trace   |-> t,
       service |-> IF roots # {} THEN batch[Max(roots)].service
                   ELSE IF old # {} THEN (CHOOSE row \in old : TRUE).service ELSE batch[Min(at)].service,
       start   |-> Min({batch[i].start : i \in at} \cup {row.start : row \in old}),
       count   |-> Cardinality(at) + IF old # {} THEN (CHOOSE row \in old : TRUE).count ELSE 0]

RowsWith(batch) ==
  {Row(t, batch) : t \in {row.trace : row \in Range(live)} \cup {span.trace : span \in Range(batch)}}

\* The rows by start; those that start together in any order, that of a hash map.
Sorted(rows) ==
  {s \in [1 .. Cardinality(rows) -> rows] :
     IsInjective(s) /\ \A i, j \in DOMAIN s : i < j => s[i].start <= s[j].start}

\* Mutant: a full map is only sorted.
AllOf(rows) == Sorted(rows)

\* rebuild_live_traces: the oldest ones leave a full map.
Latest(rows) == {SubSeq(s, Max({1, Len(s) - MaxLiveTraces + 1}), Len(s)) : s \in Sorted(rows)}

UpdateLive(batch) == live' \in Latest(RowsWith(batch))

\* A request is answered, or fails.
Fails(n) == uiFaults + n <= MaxFaults /\ uiFaults' = uiFaults + n

\* poll_services and poll_evals: the run before its cases, either of which may fail.
PollServices(ok) ==
  services' = IF ok THEN SetToSeq({[name |-> Feed[i].service] : i \in 1 .. published}) ELSE services

LatestRun == IF EvalRunFilter # None THEN EvalRunFilter ELSE IF newest = 0 THEN None ELSE Runs[newest]

PollEvals(outcome) ==
  /\ CASE LatestRun = None \/ (outcome = "no list" /\ EvalRunFilter = None) ->
            run' = None /\ cases' = <<>>
       [] outcome = "no status" -> UNCHANGED evals
       [] outcome = "no cases" -> run' = LatestRun /\ UNCHANGED cases
       [] OTHER -> run' = LatestRun /\ cases' = CasesOf[LatestRun]

Outcomes == {"all", "no list", "no status", "no cases"}
Lost(outcome) == IF outcome = "all" THEN 0 ELSE 1

\* A selection where there was none, once there are cases.
FirstCase(outcome) ==
  IF LatestRun # None /\ outcome = "all" /\ cases' # <<>> /\ sel["Evals"] = 0
  THEN [sel EXCEPT !["Evals"] = 1] ELSE sel

\* poll_initial: the spans that are there replace the ones in the list, which is empty.
PollInitial(spansOk, servicesOk, outcome) ==
  /\ ~booted /\ booted' = TRUE
  /\ Fails((IF spansOk THEN 0 ELSE 1) + (IF servicesOk THEN 0 ELSE 1) + Lost(outcome))
  /\ IF spansOk
     THEN LET there == Reverse(SubSeq(Feed, 1, published)) IN spans' = there /\ UpdateLive(there)
     ELSE UNCHANGED lists
  /\ PollServices(servicesOk) /\ PollEvals(outcome)
  /\ UNCHANGED <<server, queue, Here, detail, panel, sent, meant>>
  /\ Draw(FirstCase(outcome))

\* ingest_sse: a paused UI drops the message.
IngestSse ==
  /\ booted /\ queue # <<>> /\ queue' = Tail(queue)
  /\ IF paused THEN UNCHANGED lists
     ELSE /\ spans' = SubSeq(<<Head(queue)>> \o spans, 1, Min({MaxLiveSpans, Len(spans) + 1}))
          /\ UpdateLive(<<Head(queue)>>)
  /\ UNCHANGED <<server, booted, Here, services, evals, detail, panel, sent, meant, uiFaults>>
  /\ Draw(sel)

Tick(servicesOk, outcome) ==
  /\ booted /\ Fails((IF servicesOk THEN 0 ELSE 1) + Lost(outcome))
  /\ PollServices(servicesOk) /\ PollEvals(outcome)
  /\ UNCHANGED <<server, queue, booted, Here, lists, detail, panel, sent, meant>>
  /\ Draw(FirstCase(outcome))
-----------------------------------------------------------------------------
(* Keys.                                                                   *)

Still == UNCHANGED <<server, queue, booted, lists, services>>
Normal == booted /\ mode = "normal"

\* load_trace: what could not be fetched stays as it was; the comments come last.
LoadTrace(t, spansOk, commentsOk) ==
  /\ Fails((IF spansOk THEN 0 ELSE 1) + (IF commentsOk THEN 0 ELSE 1))
  /\ current' = t /\ stale' = ~spansOk
  /\ waterfall' = IF spansOk THEN Waterfall(Picked(Feed, {i \in 1 .. published : Feed[i].trace = t}))
                  ELSE waterfall
  /\ comments' = IF commentsOk THEN t ELSE comments
  /\ tab' = "Detail" /\ prevTab' = tab
  /\ UNCHANGED <<mode, paused, filter, failuresOnly, sortBy, evals, panel, sent, meant>>
  /\ Draw(IF spansOk THEN [sel EXCEPT !["Detail"] = IF waterfall' = <<>> THEN 0 ELSE 1] ELSE sel)

\* Enter on a row that names a trace.
OpenTrace(spansOk, commentsOk) ==
  /\ Normal /\ Still
  /\ tab \in {"Traces", "Timeline", "Evals"} \cup Panels
  /\ SelectedTrace(tab) # None
  /\ LoadTrace(SelectedTrace(tab), spansOk, commentsOk)

\* Enter on a service: it becomes the filter.
OpenService ==
  /\ Normal /\ Still /\ tab = "Services" /\ Max({sel[tab], 1}) <= Len(services)
  /\ filter' = services[Max({sel[tab], 1})].name /\ tab' = "Traces"
  /\ UNCHANGED <<prevTab, mode, paused, failuresOnly, sortBy, evals, detail, panel, sent, meant, uiFaults>>
  /\ Draw([sel EXCEPT !["Traces"] = 0, !["Timeline"] = 0])

\* c: a comment on the open trace, or on that of the selected case, which is not loaded.
BeginComment ==
  /\ Normal /\ Still
  /\ \/ tab = "Detail" /\ UNCHANGED current
     \/ tab = "Evals" /\ SelectedTrace(tab) # None /\ current' = SelectedTrace(tab)
  /\ mode' = "comment" /\ meant' = current'
  /\ UNCHANGED <<tab, prevTab, paused, filter, sel, failuresOnly, sortBy, evals, waterfall, comments,
                 stale, panel, sent, uiFaults>>

\* Mutant: the span that was selected when the waterfall was last on screen.
SelectedAnyhow == IF sel["Detail"] \in 1 .. Len(waterfall) THEN waterfall[sel["Detail"]].id ELSE None

\* The span is the selected one of the waterfall if that is what is on screen.
SelectedSpan ==
  IF tab = "Detail" /\ sel[tab] \in 1 .. Len(waterfall) THEN RowsOf(tab)[sel[tab]].id ELSE None

SubmitComment(blank, sendOk, commentsOk) ==
  /\ booted /\ mode = "comment" /\ mode' = "normal" /\ meant' = None /\ Still
  /\ IF blank \/ current = None
     THEN UNCHANGED <<sent, comments, uiFaults>>
     ELSE /\ Cardinality(sent) < MaxSent
          /\ Fails((IF sendOk THEN 0 ELSE 1) + (IF commentsOk THEN 0 ELSE 1))
          /\ sent' = IF sendOk THEN sent \cup {[trace |-> current, span |-> SelectedSpan, meant |-> meant,
                                                stale |-> stale]}
                     ELSE sent
          /\ comments' = IF sendOk /\ commentsOk THEN current ELSE comments
  /\ UNCHANGED <<tab, prevTab, paused, filter, sel, failuresOnly, sortBy, evals, current, waterfall, stale,
                 panel>>

CancelInput ==
  /\ booted /\ mode # "normal" /\ mode' = "normal" /\ meant' = None /\ Still
  /\ UNCHANGED <<tab, prevTab, paused, filter, sel, failuresOnly, sortBy, evals, detail, panel, sent, uiFaults>>

\* Enter on the filter line; the cases keep their selection.
SetFilter(text) ==
  /\ booted /\ mode = "filter" /\ mode' = "normal" /\ filter' = text /\ Still
  /\ UNCHANGED <<tab, prevTab, paused, failuresOnly, sortBy, evals, detail, panel, sent, meant, uiFaults>>
  /\ Draw([sel EXCEPT !["Traces"] = 0, !["Timeline"] = 0])

Unselected == [t \in Tabs |-> IF t \in {"Traces", "Services", "Timeline", "Evals"} THEN 0 ELSE sel[t]]

\* q and Esc: back from a trace, otherwise the filter goes, as with a backslash.
Back ==
  /\ Normal /\ Still
  /\ UNCHANGED <<prevTab, mode, paused, failuresOnly, sortBy, evals, detail, panel, sent, meant, uiFaults>>
  /\ \/ tab = "Detail" /\ tab' = prevTab /\ UNCHANGED filter /\ Draw(sel)
     \/ tab # "Detail" /\ UNCHANGED tab /\ filter' = None /\ Draw(Unselected)

\* Panels: each of the requests of a refresh is recorded, and clears the error of the one
\* before; that of Health stops at the first that fails.
Requests(p) == CASE p = "Health" -> 2 [] p = "Automation" -> 3 [] OTHER -> 1
Record(p, answers, rows) ==
  LET made == IF p = "Health" /\ ~answers[1] THEN 1 ELSE Len(answers)
  IN  [loaded |-> TRUE, failed |-> ~answers[made], missed |-> \E i \in 1 .. made : ~answers[i],
       rows |-> IF answers[1] THEN rows ELSE IF p = "Sql" THEN <<>> ELSE panel[p].rows]

Refresh(p, answers, rows) ==
  /\ Fails(Cardinality({i \in 1 .. Len(answers) : ~answers[i]}))
  /\ panel' = [panel EXCEPT ![p] = Record(p, answers, rows)]
  /\ Draw(IF answers[1] /\ p # "Health" /\ (p = "Sql" \/ sel[p] = 0)
          THEN [sel EXCEPT ![p] = IF rows = <<>> THEN 0 ELSE 1] ELSE sel)

AnswersOf(p) == [1 .. Requests(p) -> BOOLEAN]
RowsFound(p) ==
  LET points == IF p \in {"Clusters", "Review"} THEN Found ELSE {None}
  IN  {<<>>} \cup {<<[trace |-> t]>> : t \in points}

\* A digit: a list loses its selection, a panel is fetched when first opened.
GoTo(t) ==
  /\ Normal /\ Still /\ t # "Detail" /\ tab' = t
  /\ UNCHANGED <<prevTab, mode, paused, filter, failuresOnly, sortBy, evals, detail, sent, meant>>
  /\ IF t \in Panels /\ ~panel[t].loaded
     THEN \E answers \in AnswersOf(t), rows \in RowsFound(t) : Refresh(t, answers, rows)
     ELSE /\ UNCHANGED <<panel, uiFaults>>
          /\ Draw(CASE t \in {"Traces", "Evals", "Timeline"} -> [sel EXCEPT ![t] = 0]
                    [] t = "Services" /\ sel[t] = 0 /\ services # <<>> -> [sel EXCEPT ![t] = 1]
                    [] OTHER -> sel)

\* r on a panel, and Enter on the query line of the SQL panel.
RefreshPanel(submitted) ==
  /\ booted /\ Still /\ tab \in Panels
  /\ UNCHANGED <<prevTab, paused, filter, failuresOnly, sortBy, evals, detail, sent, meant>>
  /\ mode = (IF submitted THEN "sql" ELSE "normal") /\ mode' = "normal"
  /\ \E answers \in AnswersOf(tab), rows \in RowsFound(tab) : UNCHANGED tab /\ Refresh(tab, answers, rows)

RefreshEvals(outcome) ==
  /\ Normal /\ Still /\ tab = "Evals" /\ Fails(Lost(outcome)) /\ PollEvals(outcome)
  /\ UNCHANGED <<Here, detail, panel, sent, meant>>
  /\ Draw(FirstCase(outcome))

\* The keys that open an input: /, v, a and e.
OpenInput ==
  /\ Normal /\ Still
  /\ \/ tab \in {"Traces", "Timeline", "Evals"} /\ mode' = "filter"
     \/ tab = "Traces" /\ sel[tab] \in 1 .. Len(FilteredSpans) /\ mode' = "viewer"
     \/ tab = "Detail" /\ sel[tab] \in 1 .. Len(waterfall) /\ mode' = "viewer"
     \/ tab = "Sql" /\ mode' = "sql"
  /\ UNCHANGED <<tab, prevTab, paused, filter, sel, failuresOnly, sortBy, evals, detail, panel, sent, meant,
                 uiFaults>>

\* Space; f and s on the cases.
Switch ==
  /\ Normal /\ Still
  /\ UNCHANGED <<tab, prevTab, mode, filter, evals, detail, panel, sent, meant, uiFaults>>
  /\ \/ paused' = ~paused /\ UNCHANGED <<failuresOnly, sortBy>> /\ Draw(sel)
     \/ /\ tab = "Evals" /\ failuresOnly' = ~failuresOnly /\ UNCHANGED <<paused, sortBy>>
        /\ Draw([sel EXCEPT ![tab] = 0])
     \/ /\ tab = "Evals" /\ UNCHANGED <<paused, failuresOnly>>
        /\ \E i \in 1 .. Len(Sorts) : Sorts[i] = sortBy /\ sortBy' = Sorts[(i % Len(Sorts)) + 1]
        /\ Draw(sel)

\* j and k: without a selection both go to the first row, k of a panel to the last.
Move(down) ==
  /\ Normal /\ Still
  /\ tab # "Health"
  /\ LET len == Len(RowsOf(tab))
         at  == IF down THEN Min({sel[tab] + 1, len})
                ELSE IF sel[tab] > 0 THEN Max({sel[tab] - 1, 1})
                ELSE IF tab \in Panels THEN len ELSE 1
     IN  /\ tab \notin Panels /\ down => len > 0
         /\ UNCHANGED <<Here, evals, detail, panel, sent, meant, uiFaults>>
         /\ Draw([sel EXCEPT ![tab] = at])

Key ==
  \/ \E a, b \in BOOLEAN : OpenTrace(a, b) \/ \E c \in BOOLEAN : SubmitComment(a, b, c)
  \/ OpenService \/ BeginComment \/ CancelInput \/ Back \/ OpenInput \/ Switch
  \/ \E text \in Texts \cup {None} : SetFilter(text)
  \/ \E t \in Tabs : GoTo(t)
  \/ \E b \in BOOLEAN : RefreshPanel(b) \/ Move(b)
  \/ \E outcome \in Outcomes : RefreshEvals(outcome)

TuiNext ==
  \/ Key /\ pressed < MaxKeys /\ pressed' = pressed + 1
  \/ /\ UNCHANGED pressed
     /\ \/ Connect \/ Publish \/ NewRun \/ IngestSse
        \/ \E a, b \in BOOLEAN, outcome \in Outcomes : PollInitial(a, b, outcome)
        \/ \E a \in BOOLEAN, outcome \in Outcomes : Tick(a, outcome)

TuiSpec == TuiInit /\ [][TuiNext]_tuiVars
-----------------------------------------------------------------------------
(* Properties.                                                             *)

\* Types; the caps of the lists; only a comment is typed for a trace.
TuiTypeOK ==
  /\ tab \in Tabs /\ prevTab \in Tabs \ {"Detail"}
  /\ mode \in {"normal", "viewer", "sql", "filter", "comment"}
  /\ Len(spans) <= MaxLiveSpans \/ Len(spans) <= Len(Feed)
  /\ Len(live) <= MaxLiveTraces
  /\ \A i, j \in 1 .. Len(live) : i < j => live[i].start <= live[j].start /\ live[i].trace # live[j].trace

\* A comment goes to the trace that was open, or whose case was selected, when its typing
\* began, whatever arrives meanwhile; its span is one of that trace, unless the trace
\* could not be fetched and the waterfall of the one before is still there.
OnlyToTheMeant == \A c \in sent : c.trace = c.meant
CommentsGoWhereMeant ==
  /\ OnlyToTheMeant
  /\ \A c \in sent : c.span # None /\ ~c.stale =>
       \E i \in 1 .. Len(Feed) : Feed[i].trace = c.trace /\ Feed[i].id = c.span

\* The trace view is of the one trace that was opened, with each of its spans once.
DetailIsOfOneTrace ==
  tab = "Detail" /\ ~stale =>
    /\ \A i \in 1 .. Len(waterfall) : waterfall[i].trace = current
    /\ IsInjective(waterfall)
    /\ \E start \in Starts : \A i \in 1 .. start[1] :
         Feed[i].trace = current => Feed[i] \in Range(waterfall)

\* "degrades to a message in that panel": a panel one of whose requests failed says so.
NoFailureIsHidden(ps) == \A p \in ps : panel[p].missed => panel[p].failed

\* Enter opens the trace whose row is highlighted.
Opens(ts) == tab \in ts /\ tab' = "Detail" /\ Highlighted # None => current' = Highlighted
OpensTheHighlighted == [][Opens(Tabs \ {"Timeline"})]_tuiVars

\* TLC refutes NoFailureIsHidden for Automation, where a later answer clears the error,
\* and Opens({"Timeline"}) for the timeline under a filter.
TuiIsHonest ==
  /\ [](CommentsGoWhereMeant /\ DetailIsOfOneTrace /\ NoFailureIsHidden(Panels \ {"Automation"}))
  /\ OpensTheHighlighted
=============================================================================
