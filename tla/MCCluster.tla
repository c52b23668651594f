----------------------------- MODULE MCCluster -----------------------------
(* Small instances of Cluster: two nodes that ship to each other, or a node *)
(* and its standby.                                                         *)
EXTENDS Cluster, TLC

Pair == {1, 2}
ToOther == [n \in Pair |-> Pair \ {n}]
OneWay == [n \in Pair |-> IF n = 1 THEN {2} ELSE {}]
Alike == Permutations(Records)
=============================================================================
