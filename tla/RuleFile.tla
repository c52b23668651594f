------------------------------ MODULE RuleFile ------------------------------
(***************************************************************************)
(* The file behind a table that clients edit: alerts.json,                 *)
(* score_rules.json and eval_suites.json are saved alike.  save() clones   *)
(* the table under its read lock, writes a temporary file and renames it   *)
(* over the old one, outside of every lock.  All saves of a process use    *)
(* the same temporary name, so two of them can meet there: a save that     *)
(* opens the file truncates what another has written, a rename moves the   *)
(* file another save still has open, and the other's own rename then finds *)
(* nothing to move.                                                        *)
(***************************************************************************)
EXTENDS Naturals, FiniteSets

CONSTANTS
  Clients,   \* requests the server handles at a time
  NoRows     \* a table without rows

VARIABLES
  table,      \* the rows in memory
  file,       \* what the file holds
  tmp,        \* the temporary file: none, or one with its content
  save,       \* the save of each request
  overlapped  \* history: two saves were under way at once

fileVars == <<file, tmp, save, overlapped>>

\* The JSON of some rows, nothing, or the beginning of one text and the end of another.
Whole(rows) == [is |-> "whole", rows |-> rows]
Empty       == [is |-> "empty", rows |-> NoRows]
Mixed       == [is |-> "mixed", rows |-> NoRows]

At(where) == [at |-> where, rows |-> NoRows, on |-> "nothing"]
NoSave == At("none")
Saving(c) == save[c].at \in {"open", "fill", "rename"}

InitFile ==
  /\ file = Whole(NoRows) /\ tmp = {}
  /\ save = [c \in Clients |-> NoSave] /\ overlapped = FALSE

\* save: the table as it is now.
Clone(c) ==
  /\ save[c].at = "clone"
  /\ save' = [save EXCEPT ![c] = [at |-> "open", rows |-> table, on |-> "nothing"]]
  /\ overlapped' = (overlapped \/ \E d \in Clients : Saving(d))
  /\ UNCHANGED <<table, file, tmp>>

\* Mutant: the rules are written where they are read from.
OpenInPlace(c) ==
  /\ save[c].at = "open"
  /\ file' = Empty
  /\ save' = [save EXCEPT ![c].at = "fill", ![c].on = "file"]
  /\ UNCHANGED <<table, tmp, overlapped>>

\* fs::write opens the temporary file, which truncates it.
OpenTmp(c) ==
  /\ save[c].at = "open"
  /\ tmp' = {Empty}
  /\ save' = [save EXCEPT ![c].at = "fill", ![c].on = "tmp"]
  /\ UNCHANGED <<table, file, overlapped>>

\* What a file holds once rows are written from its start.
Written(old, rows) ==
  IF old = Empty \/ old = Whole(rows) THEN {Whole(rows)} ELSE {Whole(rows), Mixed}

\* fs::write writes, wherever the file it opened is by now.
Fill(c) ==
  /\ save[c].at = "fill"
  /\ save' = [save EXCEPT ![c] = At("rename")]
  /\ \/ /\ save[c].on = "tmp" /\ UNCHANGED file
        /\ \E old \in tmp : \E new \in Written(old, save[c].rows) : tmp' = {new}
     \/ save[c].on = "file" /\ file' \in Written(file, save[c].rows) /\ UNCHANGED tmp
     \/ save[c].on = "nothing" /\ UNCHANGED <<file, tmp>>
  /\ UNCHANGED <<table, overlapped>>

\* The files that others have open move with the names.
Moved(on) == CASE on = "tmp" -> "file" [] on = "file" -> "nothing" [] OTHER -> on

\* fs::rename, which fails if another save has moved the file away.
Rename(c) ==
  /\ save[c].at = "rename"
  /\ IF tmp = {}
     THEN save' = [save EXCEPT ![c] = At("failed")] /\ UNCHANGED <<file, tmp>>
     ELSE /\ file' = CHOOSE t \in tmp : TRUE
          /\ tmp' = {}
          /\ save' = [d \in Clients |-> IF d = c THEN At("saved")
                                     ELSE [save[d] EXCEPT !.on = Moved(@)]]
  /\ UNCHANGED <<table, overlapped>>

\* The disk refuses an open, a write or a rename.
SaveFails(c) ==
  /\ Saving(c)
  /\ save' = [save EXCEPT ![c] = At("failed")]
  /\ UNCHANGED <<table, file, tmp, overlapped>>

SaveStep(c) == Clone(c) \/ OpenTmp(c) \/ Fill(c) \/ Rename(c) \/ SaveFails(c)

\* load: the table is what the file holds; one that does not parse keeps the
\* process from starting.
Loads(rows) == file.is = "whole" /\ rows = file.rows

\* The process dies with its saves.
DropSaves == save' = [c \in Clients |-> NoSave] /\ UNCHANGED <<file, tmp, overlapped>>
=============================================================================
