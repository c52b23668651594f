--------------------------- MODULE MCTieredStore ---------------------------
(* Instances of TieredStore for TLC. *)
EXTENDS TieredStore, TLC

CONSTANTS s1, s2, m1

\* Two spans of the same day in different hours, and a metric point.
MixedSignal == s1 :> "spans" @@ s2 :> "spans" @@ m1 :> "metrics"
MixedTime   == s1 :> 0 @@ s2 :> 1 @@ m1 :> 0

\* Raw metrics go with their day; spans and rollups stay a day longer.
ShortKeep == [root \in Roots |-> IF root = "metrics" THEN 0 ELSE 1]
=============================================================================
