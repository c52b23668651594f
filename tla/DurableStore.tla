---------------------------- MODULE DurableStore ----------------------------
(***************************************************************************)
(* What a storage engine promises the clients that write to it, with no    *)
(* log, no checkpoint and no replay: a batch is accepted, becomes visible, *)
(* and may then be acknowledged.  A failure closes the store and forgets   *)
(* some of what it held, but never a batch it has acknowledged; when the   *)
(* store opens again it shows every acknowledged batch.                    *)
(***************************************************************************)

CONSTANT Batches

VARIABLES
  held,      \* batches the store could still show after a failure
  view,      \* batches a reader sees; nothing while the store is closed
  promised,  \* batches that have been acknowledged
  open

vars == <<held, view, promised, open>>

Init == held = {} /\ view = {} /\ promised = {} /\ open = TRUE

Accept(b) ==
  /\ open
  /\ held' = held \cup {b}
  /\ UNCHANGED <<view, promised, open>>

Show(b) ==
  /\ open /\ b \in held
  /\ view' = view \cup {b}
  /\ UNCHANGED <<held, promised, open>>

Acknowledge(b) ==
  /\ open /\ b \in view
  /\ promised' = promised \cup {b}
  /\ UNCHANGED <<held, view, open>>

Fail ==
  /\ open' = FALSE /\ view' = {}
  /\ promised \subseteq held' /\ held' \subseteq held
  /\ UNCHANGED promised

Reopen ==
  /\ ~open /\ open' = TRUE
  /\ promised \subseteq view' /\ view' \subseteq held
  /\ UNCHANGED <<held, promised>>

Next ==
  \/ \E b \in Batches : Accept(b) \/ Show(b) \/ Acknowledge(b)
  \/ Fail \/ Reopen

Spec == Init /\ [][Next]_vars
=============================================================================
