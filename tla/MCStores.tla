------------------------------ MODULE MCStores ------------------------------
(***************************************************************************)
(* Stores that share no state, each on its own instance: a behaviour is    *)
(* one of the span indexes of the hot tier, of readers of the two tiers,   *)
(* of the store over shards, of the eval suites or of the API keys, as     *)
(* subject says.                                                           *)
(***************************************************************************)
EXTENDS SpanIndex, TieredStore, Fanout, Keys, Suites, TLC

VARIABLE subject

storesVars == <<subject, indexVars, fanVars, suiteVars, keyVars, vars>>

\* A failed span that is sent again as a good one of another service, and one it ties with.
Span(id, start, service, error) == [id |-> id, start |-> start, service |-> service, error |-> error]
SentSpans == {Span("a", 1, "s", TRUE), Span("a", 2, "t", FALSE), Span("b", 1, "s", TRUE)}
Scans == {[service |-> "any", errors |-> TRUE,  since |-> 0],
          [service |-> "s",   errors |-> FALSE, since |-> 1],
          [service |-> "any", errors |-> FALSE, since |-> 2]}

\* Two shards; a span of the second one's trace was left on the first.
Row(trace, start, service) == [trace |-> trace, start |-> start, service |-> service]
TwoTraces == {Row("t", 1, "a"), Row("t", 2, "b"), Row("u", 3, "a"), Row("u", 4, "a")}
Owner     == "t" :> 1 @@ "u" :> 2
Stray     == {[row |-> Row("u", 3, "a"), at |-> 1]}
OneBatch  == {{Row("t", 1, "a"), Row("t", 2, "b"), Row("u", 4, "a")}}

\* A writer's key is revoked and a reader's created while both are in use.
KeyRole     == "k" :> 2 @@ "l" :> 1
KeyName     == "k" :> "n" @@ "l" :> "m"
KeyCommands == {[op |-> "revoke", key |-> "k", n |-> 1], [op |-> "create", key |-> "l", n |-> 1]}
KeyRequests == {[key |-> "k", needs |-> 2, n |-> 1], [key |-> "l", needs |-> 2, n |-> 1]}
KeyConfigs  == {[explicit |-> "unset", listeners |-> {"local", "offbox"}],
                [explicit |-> "off", listeners |-> {"offbox"}]}

\* Two spans of the same day in different hours, and a metric point; queries for all spans
\* and for those of the second hour on, a trace read, and a metrics query.
TierRows   == {"p", "q", "m"}
TierSignal == [r \in TierRows |-> IF r = "m" THEN "metrics" ELSE "spans"]
TierTime   == [r \in TierRows |-> IF r = "q" THEN 1 ELSE 0]
TierKeep   == [root \in {"spans", "logs", "metrics", "metrics_5m"} |-> IF root = "metrics" THEN 0 ELSE 1]
Reader(signal, since, by) == [signal |-> signal, since |-> since, by |-> by]
Readers == {Reader("spans", 0, "index"), Reader("spans", 1, "index"), Reader("spans", 0, "keys"),
            Reader("metrics", 0, "keys")}

StoresInit ==
  /\ subject \in {"indexes", "shards", "suites", "keys", "tiers"}
  /\ IndexInit /\ FanInit /\ SuiteInit /\ KeysInit /\ Init

StoresNext ==
  /\ UNCHANGED subject
  /\ \/ subject = "indexes" /\ IndexNext /\ UNCHANGED <<fanVars, suiteVars, keyVars, vars>>
     \/ subject = "shards" /\ FanNext /\ UNCHANGED <<indexVars, suiteVars, keyVars, vars>>
     \/ subject = "suites" /\ SuiteNext /\ UNCHANGED <<indexVars, fanVars, keyVars, vars>>
     \/ subject = "keys" /\ KeysNext /\ UNCHANGED <<indexVars, fanVars, suiteVars, vars>>
     \/ subject = "tiers" /\ Next /\ UNCHANGED <<indexVars, fanVars, suiteVars, keyVars>>

StoresSpec == StoresInit /\ [][StoresNext]_storesVars
-----------------------------------------------------------------------------
(* Properties; types only, the others are in their modules.                *)

\* Types of all five.
StoresTypeOK ==
  /\ IndexTypeOK /\ FanTypeOK /\ SuiteTypeOK /\ KeysTypeOK /\ TypeOK
=============================================================================
