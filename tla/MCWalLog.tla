------------------------------ MODULE MCWalLog ------------------------------
(* Instances of WalLog for TLC. *)
EXTENDS WalLogRefines, TLC

CONSTANTS c1, c2, c3, b1, b2

\* Two clients write different batches; the third call retries the first one's.
RetryBatchOf == c1 :> b1 @@ c2 :> b2 @@ c3 :> b1

TwoBatchOf == c1 :> b1 @@ c2 :> b2
=============================================================================
