-------------------------------- MODULE Gui ---------------------------------
(***************************************************************************)
(* The desktop GUI (tael-gui): handlers of one thread that run to their    *)
(* next await, and answers that come in any order and are applied to the   *)
(* state as it is then.  A call is a request under way with the rest of    *)
(* its handler; calls holds them in the order they were made.  Data is the *)
(* name of what it was fetched for.                                        *)
(***************************************************************************)
EXTENDS Naturals, Sequences, SequencesExt, FiniteSets

CONSTANTS
  Filters,      \* service filters, None among them
  Traces, GuiRuns,
  Queries,      \* what can be typed as a query
  Statuses,     \* what a stream tells of itself: connecting, connected, retrying, closed
  MaxCalls,     \* bound: requests under way when one more task begins
  MaxClicks,    \* bound: clicks, and queries typed
  MaxFailures   \* bound: requests that fail

Unset == "none"

ASSUME GuiAssumption == Unset \in Filters /\ Unset \notin Traces \cup GuiRuns \cup Queries /\ GuiRuns # {}

VARIABLES
  calls,
  guiFilter, shown,               \* serviceFilter, and the filters the listed spans answer to
  stream, streams, connection,    \* streamId, the streams that were started, the status line
  guiPaused,
  guiCurrent, traceOf, commentsOf,  \* the open trace, and whose spans and comments are there
  picked, evalRun, casesOf, baseline, compareOf,
  query,                          \* the text in the SQL panel, Unset when it is blank
  answerTo, panelFailed,          \* the rows under it
  ran,          \* history: the query that was run last
  guiSent,      \* history: comments sent, each with the trace its span is of
  overtaken,    \* history: an answer came before that of an earlier request
  crossed,      \* history: a trace was opened while another one was loading
  clicks, failures

connecting == <<guiFilter, shown, stream, streams, connection, guiPaused>>
guiDetail  == <<guiCurrent, traceOf, commentsOf, guiSent, crossed>>
guiEvals   == <<picked, evalRun, casesOf, baseline, compareOf>>
sqlPanel   == <<query, ran, answerTo, panelFailed>>
bounds     == <<clicks, failures>>
guiVars    == <<calls, connecting, guiDetail, guiEvals, sqlPanel, overtaken, bounds>>

Call(do, of, by) == [do |-> do, of |-> of, base |-> Unset, by |-> by]
Ask(new) == Len(calls) + Len(new) <= MaxCalls /\ calls' = calls \o new

\* boot: the first connect.
GuiInit ==
  /\ calls = <<Call("healthz", Unset, 1)>>
  /\ guiFilter = Unset /\ shown = {} /\ stream = 1 /\ streams = <<>> /\ connection = "checking" /\ guiPaused = FALSE
  /\ guiCurrent = Unset /\ traceOf = Unset /\ commentsOf = Unset
  /\ picked = Unset /\ evalRun = Unset /\ casesOf = Unset /\ baseline = Unset /\ compareOf = <<>>
  /\ query \in Queries /\ ran = Unset /\ answerTo = Unset /\ panelFailed = FALSE
  /\ guiSent = {} /\ overtaken = FALSE /\ crossed = FALSE /\ clicks = 0 /\ failures = 0
-----------------------------------------------------------------------------
(* Clicks.                                                                 *)

Click == clicks < MaxClicks /\ clicks' = clicks + 1 /\ UNCHANGED <<overtaken, failures>>

\* connect, with another filter or the same: a stream id of its own at once.
GuiConnect(f) ==
  /\ Click /\ guiFilter' = f
  /\ stream' = stream + 1 /\ connection' = "checking"
  /\ Ask(<<Call("healthz", Unset, stream')>>)
  /\ UNCHANGED <<shown, streams, guiPaused, guiDetail, guiEvals, sqlPanel>>

\* The refresh button on a list, and the window it is asked for.
RefreshLists ==
  /\ Click /\ Ask(<<Call("spans", guiFilter, 0), Call("runs", Unset, 0)>>)
  /\ UNCHANGED <<connecting, guiDetail, guiEvals, sqlPanel>>

Pause ==
  /\ Click /\ guiPaused' = ~guiPaused
  /\ UNCHANGED <<calls, guiFilter, shown, stream, streams, connection, guiDetail, guiEvals, sqlPanel>>

\* Mutant: the spans of the trace before stay until the answer.
LoadTraceLazily(t) ==
  /\ Click /\ guiCurrent' = t /\ commentsOf' = Unset
  /\ crossed' = (crossed \/ \E i \in 1 .. Len(calls) : calls[i].do = "trace")
  /\ Ask(<<Call("trace", t, 0)>>)
  /\ UNCHANGED <<connecting, traceOf, guiSent, guiEvals, sqlPanel>>

\* loadTrace: an empty view, then the spans and the comments together.
GuiLoadTrace(t) ==
  /\ Click /\ guiCurrent' = t /\ traceOf' = Unset /\ commentsOf' = Unset
  /\ crossed' = (crossed \/ \E i \in 1 .. Len(calls) : calls[i].do = "trace")
  /\ Ask(<<Call("trace", t, 0)>>)
  /\ UNCHANGED <<connecting, guiSent, guiEvals, sqlPanel>>

\* submitComment: for the open trace, with the selected span of the waterfall there is.
GuiSubmitComment ==
  /\ Click /\ guiCurrent # Unset
  /\ guiSent' = guiSent \cup {[trace |-> guiCurrent, spanOf |-> traceOf]}
  /\ Ask(<<Call("add", guiCurrent, 0)>>)
  /\ UNCHANGED <<connecting, guiCurrent, traceOf, commentsOf, crossed, guiEvals, sqlPanel>>

\* evalRefetch, after another run or another baseline was picked.
PickRun(r, base) ==
  /\ Click /\ evalRun # Unset /\ picked' = r /\ baseline' = base
  /\ Ask(<<Call("runs", Unset, 0)>>)
  /\ UNCHANGED <<connecting, guiDetail, evalRun, casesOf, compareOf, sqlPanel>>

\* Typing into the SQL panel: the rows of the query before stay under it.
TypeQuery(q) ==
  /\ Click /\ query' = q /\ q # query
  /\ UNCHANGED <<calls, connecting, guiDetail, guiEvals, ran, answerTo, panelFailed>>

\* Its run button, which a blank text ignores: refreshPanel clears the error before it asks
\* what the text is now.
RunQuery ==
  /\ Click /\ query # Unset /\ ran' = query /\ panelFailed' = FALSE
  /\ Ask(<<Call("sql", query, 0)>>)
  /\ UNCHANGED <<connecting, guiDetail, guiEvals, query, answerTo>>

GuiClicks ==
  \/ \E f \in Filters : GuiConnect(f)
  \/ RefreshLists \/ Pause \/ GuiSubmitComment \/ RunQuery
  \/ \E t \in Traces : GuiLoadTrace(t)
  \/ \E r \in GuiRuns, base \in GuiRuns \cup {Unset} : (r = picked \/ base = baseline) /\ PickRun(r, base)
  \/ \E q \in Queries \cup {Unset} : TypeQuery(q)
-----------------------------------------------------------------------------
(* Answers.                                                                *)

Without(i) == RemoveAt(calls, i)
InAnyOrder(i) == overtaken' = (overtaken \/ i # 1)

\* The handler of call i ends, or goes on with another request.
Ends(i)          == calls' = Without(i) /\ InAnyOrder(i)
GoesOn(i, c)     == calls' = Append(Without(i), c) /\ InAnyOrder(i)
Answered(i, do)  == i <= Len(calls) /\ calls[i].do = do /\ UNCHANGED bounds

\* connect goes on to the three refreshes; the services are left out.
Healthy(i) ==
  /\ Answered(i, "healthz") /\ connection' = "loading"
  /\ calls' = Without(i) \o <<Call("spans", guiFilter, calls[i].by), Call("runs", Unset, calls[i].by)>>
  /\ InAnyOrder(i)
  /\ UNCHANGED <<guiFilter, shown, stream, streams, guiPaused, guiDetail, guiEvals, sqlPanel>>

\* connect waits for all of its refreshes, and then starts a stream with the id and the
\* filter of now.
Joins(i) ==
  LET by == calls[i].by
  IN  IF by = 0 \/ \E j \in 1 .. Len(calls) : j # i /\ calls[j].by = by
      THEN UNCHANGED <<connection, streams>>
      ELSE connection' = "connected" /\ streams' = Append(streams, [id |-> stream, filter |-> guiFilter])

\* refreshTraces.
GetSpans(i) ==
  /\ Answered(i, "spans") /\ shown' = {calls[i].of}
  /\ Ends(i) /\ Joins(i)
  /\ UNCHANGED <<guiFilter, stream, guiPaused, guiDetail, guiEvals, sqlPanel>>

\* Mutant: the cases of a run are fetched once.
GetRunsLazily(i) ==
  /\ Answered(i, "runs")
  /\ picked' = (IF picked = Unset THEN CHOOSE r \in GuiRuns : TRUE ELSE picked) /\ evalRun' = picked'
  /\ IF evalRun' = evalRun THEN Ends(i) ELSE GoesOn(i, Call("cases", evalRun', calls[i].by))
  /\ UNCHANGED <<connecting, guiDetail, casesOf, baseline, compareOf, sqlPanel>>

\* refreshEvals: the run that was picked, or else the newest; then its cases, then the
\* comparison, if a baseline is picked by then.
GetRuns(i) ==
  /\ Answered(i, "runs")
  /\ picked' = (IF picked = Unset THEN CHOOSE r \in GuiRuns : TRUE ELSE picked) /\ evalRun' = picked'
  /\ GoesOn(i, Call("cases", evalRun', calls[i].by))
  /\ UNCHANGED <<connecting, guiDetail, casesOf, baseline, compareOf, sqlPanel>>

GetCases(i) ==
  /\ Answered(i, "cases") /\ casesOf' = calls[i].of
  /\ IF baseline \notin {Unset, calls[i].of}
     THEN /\ GoesOn(i, [calls[i] EXCEPT !.do = "compare", !.base = baseline])
          /\ UNCHANGED <<compareOf, connection, streams>>
     ELSE compareOf' = <<>> /\ Ends(i) /\ Joins(i)
  /\ UNCHANGED <<guiFilter, shown, stream, guiPaused, guiDetail, picked, evalRun, baseline, sqlPanel>>

GetCompare(i) ==
  /\ Answered(i, "compare") /\ compareOf' = <<calls[i].of, calls[i].base>>
  /\ Ends(i) /\ Joins(i)
  /\ UNCHANGED <<guiFilter, shown, stream, guiPaused, guiDetail, picked, evalRun, casesOf, baseline, sqlPanel>>

GetTrace(i) ==
  /\ Answered(i, "trace") /\ Ends(i)
  /\ traceOf' = calls[i].of /\ commentsOf' = calls[i].of
  /\ UNCHANGED <<connecting, guiCurrent, guiSent, crossed, guiEvals, sqlPanel>>

\* After a comment the comments are fetched again, of the trace that is open then.
Added(i) ==
  /\ Answered(i, "add") /\ GoesOn(i, Call("comments", guiCurrent, 0))
  /\ UNCHANGED <<connecting, guiDetail, guiEvals, sqlPanel>>

GetComments(i) ==
  /\ Answered(i, "comments") /\ Ends(i) /\ commentsOf' = calls[i].of
  /\ UNCHANGED <<connecting, guiCurrent, traceOf, guiSent, crossed, guiEvals, sqlPanel>>

GetAnswer(i) ==
  /\ Answered(i, "sql") /\ Ends(i) /\ answerTo' = calls[i].of
  /\ UNCHANGED <<connecting, guiDetail, guiEvals, query, ran, panelFailed>>

\* A request fails: a failed connect says so, whatever connected meanwhile, and leaves its
\* other requests under way; a failed panel drops its data.
GuiFails(i) ==
  /\ i <= Len(calls) /\ failures < MaxFailures /\ failures' = failures + 1 /\ InAnyOrder(i)
  /\ LET by == calls[i].by
     IN  /\ calls' = [j \in 1 .. Len(calls) - 1 |->
                        IF by # 0 /\ Without(i)[j].by = by THEN [Without(i)[j] EXCEPT !.by = 0]
                        ELSE Without(i)[j]]
         /\ connection' = IF by = 0 THEN connection ELSE "error"
  /\ IF calls[i].do = "sql" THEN answerTo' = Unset /\ panelFailed' = TRUE
     ELSE UNCHANGED <<answerTo, panelFailed>>
  /\ UNCHANGED <<guiFilter, shown, stream, streams, guiPaused, guiDetail, guiEvals, query, ran, clicks>>

GuiAnswers ==
  \E i \in 1 .. Len(calls) :
    \/ Healthy(i) \/ GetSpans(i) \/ GetRuns(i) \/ GetCases(i) \/ GetCompare(i)
    \/ GetTrace(i) \/ Added(i) \/ GetComments(i) \/ GetAnswer(i) \/ GuiFails(i)

\* A batch of a stream, by its filter: only of the stream of now, unless paused.
Live(s) ==
  /\ s \in Range(streams) /\ s.id = stream /\ ~guiPaused
  /\ shown' = shown \cup {s.filter}
  /\ UNCHANGED <<calls, guiFilter, stream, streams, connection, guiPaused, guiDetail, guiEvals, sqlPanel, overtaken, bounds>>

\* A stream that ends or is tried again, which is told by its id.
LiveStatus(s, status) ==
  /\ s \in Range(streams) /\ s.id = stream /\ connection' = status
  /\ UNCHANGED <<calls, guiFilter, shown, stream, streams, guiPaused, guiDetail, guiEvals, sqlPanel, overtaken, bounds>>

\* Every five seconds, while connected.
Timer ==
  /\ connection = "connected" /\ Ask(<<Call("runs", Unset, 0)>>)
  /\ UNCHANGED <<connecting, guiDetail, guiEvals, sqlPanel, overtaken, bounds>>

GuiNext ==
  \/ GuiClicks \/ GuiAnswers \/ Timer
  \/ \E s \in Range(streams) : Live(s) \/ \E status \in Statuses : LiveStatus(s, status)

GuiSpec == GuiInit /\ [][GuiNext]_guiVars
-----------------------------------------------------------------------------
(* Properties.                                                             *)

\* Types; a stream is started only with an id that was taken.
GuiTypeOK ==
  /\ shown \subseteq Filters /\ \A s \in Range(streams) : s.id \in 1 .. stream
  /\ {guiCurrent, traceOf, commentsOf} \subseteq Traces \cup {Unset}
  /\ {picked, evalRun, casesOf, baseline} \subseteq GuiRuns \cup {Unset}

\* The span of a comment is one of the trace the comment is for, unless two traces were
\* loading at once; then TLC finds a comment with a span of the other one.
CommentsFit == crossed \/ \A c \in guiSent : c.spanOf \in {Unset, c.trace}

\* When nothing is under way and answers came in the order of their requests, what is on
\* screen was fetched for what is selected: spans for the filter, the trace view for the
\* open trace, cases and comparison for the picked run, and rows for the query that was run
\* last, whatever was typed since.
QuietIsCurrent ==
  calls = <<>> /\ ~overtaken /\ failures = 0 =>
    /\ shown \subseteq {guiFilter}
    /\ traceOf = guiCurrent /\ commentsOf = guiCurrent
    /\ casesOf = evalRun /\ evalRun = picked
    /\ compareOf = (IF baseline \in {Unset, picked} THEN <<>> ELSE <<picked, baseline>>)
    /\ answerTo = ran

GuiIsHonest == CommentsFit /\ QuietIsCurrent

\* However answers overtook each other, the timer brings the cases back to the run they
\* are shown under, as long as the GUI stays connected.
EvalsSettle == <>[](connection = "connected") => []<>(casesOf = evalRun)

\* TLC refutes it: two connects that overlap both start a stream with the newer id, and
\* every span is then listed twice.
OneStreamEach == \A i, j \in 1 .. Len(streams) : i # j => streams[i].id # streams[j].id
=============================================================================
