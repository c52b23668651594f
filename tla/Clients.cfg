SPECIFICATION Spec
CONSTANTS
  Feed <- SpanFeed
  Starts <- LiveOrLists
  Runs <- TwoRuns
  CasesOf <- RunCases
  EvalRunFilter = "none"
  Sorts <- RunOrder
  Panels = {"Health", "Clusters"}
  Found = {"t"}
  Texts = {}
  MaxLiveSpans = 3
  MaxLiveTraces = 1
  MaxFaults = 1
  MaxSent = 1
  MaxKeys = 4
  \* Two filters, traces and runs to click on; three clicks reach a comment on a second trace.
  Filters = {"none", "f"}
  Traces = {"t", "u"}
  GuiRuns = {"r", "s"}
  Queries = {"q", "p"}
  Statuses = {"retrying"}
  MaxCalls = 2
  MaxClicks = 3
  MaxFailures = 1
INVARIANTS
  TypeOK
  GuiIsHonest
PROPERTIES
  TuiIsHonest
CHECK_DEADLOCK FALSE
