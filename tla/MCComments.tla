----------------------------- MODULE MCComments -----------------------------
(* An instance of Comments for TLC. *)
EXTENDS Comments, TLC

Filed(review, trace, options) ==
  [op |-> "request", review |-> review, trace |-> trace, options |-> options, value |-> "", limit |-> 0]
Answered(review, value, limit) ==
  [op |-> "answer", review |-> review, trace |-> "", options |-> {}, value |-> value, limit |-> limit]
Shown(limit) ==
  [op |-> "list", review |-> "", trace |-> "", options |-> {}, value |-> "", limit |-> limit]

\* A question with two options that two people answer, one that takes any answer, and two lists.
ReviewCommands ==
  "ask" :> Filed("r", "t", {"yes", "no"}) @@
  "one" :> Answered("r", "yes", 2) @@ "two" :> Answered("r", "no", 3) @@ "bad" :> Answered("r", "maybe", 2) @@
  "list" :> Shown(1) @@ "again" :> Shown(3)
=============================================================================
