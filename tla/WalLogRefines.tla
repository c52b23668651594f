--------------------------- MODULE WalLogRefines ---------------------------
(***************************************************************************)
(* The refinement mapping from WalLog to DurableStore: the store holds what *)
(* the hot tier, the unread log and the queue of a running replay hold.    *)
(***************************************************************************)
EXTENDS WalLog

Held ==
  hot \cup {BatchOf[log[i]] : i \in Unread}
      \cup {BatchOf[replayQ[i]] : i \in DOMAIN replayQ}

Promised == {BatchOf[c] : c \in {d \in Calls : stage[d] = "ok"}}

Store == INSTANCE DurableStore WITH
           held     <- Held,
           view     <- IF Serving THEN hot ELSE {},
           promised <- Promised,
           open     <- Serving

\* The write path, the checkpoint and the replay of the engine together are a
\* store that keeps its promises (TLC: through any one power loss).
ImplementsStore == Store!Spec
=============================================================================
