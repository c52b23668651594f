-------------------------------- MODULE Keys --------------------------------
(***************************************************************************)
(* API keys: the keystore file, which commands of the CLI read and rewrite *)
(* while a server runs, the server's cached copy of it, which it trusts as *)
(* long as the file has the modification time of the copy, and the         *)
(* requests that are checked against that copy.                            *)
(***************************************************************************)
EXTENDS Naturals, FiniteSets

CONSTANTS
  Keys,          \* keys that exist or will be minted
  InitialKeys,   \* those in the file at first
  RoleOf,        \* 1 reader, 2 writer, 3 admin
  NameOf,
  Commands,      \* runs of the CLI: [op, key, n], op "create" or "revoke"
  Requests,      \* [key, needs, n]
  Configs,       \* settings a server may start with: [explicit, listeners]
  MaxTick,       \* bound: the clock of the file system
  MaxErrors      \* bound: reads that fail

ASSUME KeysAssumption ==
  /\ InitialKeys \subseteq Keys /\ \A c \in Commands : c.key \in Keys
  /\ \A r \in Requests : RoleOf[r.key] \in Nat /\ r.needs \in Nat

VARIABLES
  keyFile,   \* the keystore: what it is, its active keys and modification time
  keyTmp,    \* the temporary file next to it, if there is one
  command,   \* what each command has read, where it is, and the file it has open
  server,    \* the server: its phase, mode and cached copy
  request,   \* where each request is
  clock, readErrors,
  inPlace,   \* history: for each request, the key sets in place since it began
  placed,    \* history: the files that were in place
  dubious,   \* history: modification times that say less than which file is in place
  crossed    \* history: commands that overlapped another

keyVars == <<keyFile, keyTmp, command, server, request, clock, readErrors, inPlace, placed, dubious, crossed>>

\* A file written now: the JSON of some keys, nothing, or the beginning of one text and
\* the end of another.
KeyText(is, keys) == [is |-> is, keys |-> keys, time |-> clock]
NoFile  == [is |-> "none", keys |-> {}, time |-> 0]
NoCopy  == [keys |-> {}, time |-> 0]

KeysInit ==
  /\ clock = 1 /\ readErrors = 0
  /\ keyFile = KeyText("whole", InitialKeys) /\ keyTmp = NoFile /\ placed = {keyFile}
  /\ command = [c \in Commands |-> [at |-> "new", keys |-> {}, on |-> "nothing"]]
  /\ server = [at |-> "down", mode |-> "off", config |-> [explicit |-> "off", listeners |-> {}],
               copy |-> NoCopy]
  /\ request = [r \in Requests |-> [at |-> "new", time |-> 0, keys |-> {}, by |-> "none", answer |-> "none"]]
  /\ inPlace = [r \in Requests |-> {}] /\ dubious = {} /\ crossed = {}

Passes == clock < MaxTick /\ clock' = clock + 1
          /\ UNCHANGED <<keyFile, keyTmp, command, server, request, readErrors, inPlace, placed, dubious, crossed>>

-----------------------------------------------------------------------------
(* tael auth create-key and revoke: load, change, save.                    *)

Running(c) == command[c].at \in {"loaded", "opened", "written"}

\* load; a file that does not parse, a name in use, or a key that is not active, ends the
\* command.
Load(c) ==
  /\ command[c].at = "new"
  /\ LET taken == \E k \in keyFile.keys : NameOf[k] = NameOf[c.key]
         ok    == IF c.op = "create" THEN ~taken ELSE c.key \in keyFile.keys
     IN  command' = [command EXCEPT ![c] =
           IF ~(keyFile.is = "whole" /\ ok) THEN [at |-> "refused", keys |-> {}, on |-> "nothing"]
           ELSE [at |-> "loaded", on |-> "nothing",
                 keys |-> IF c.op = "create" THEN keyFile.keys \cup {c.key} ELSE keyFile.keys \ {c.key}]]
  /\ LET others == {d \in Commands \ {c} : Running(d)}
     IN  crossed' = IF others = {} THEN crossed ELSE crossed \cup others \cup {c}
  /\ UNCHANGED <<keyFile, keyTmp, server, request, clock, readErrors, inPlace, placed, dubious>>

\* save: fs::write opens the temporary file, the same for every command, which truncates it ...
OpenTmp(c) ==
  /\ command[c].at = "loaded"
  /\ keyTmp' = KeyText("empty", {})
  /\ command' = [command EXCEPT ![c].at = "opened", ![c].on = "tmp"]
  /\ UNCHANGED <<keyFile, server, request, clock, readErrors, inPlace, placed, dubious, crossed>>

Checking(r) == request[r].at \in {"timed", "missed", "loaded"}

\* Another file, or other content, under the keystore's name.
Places(f) ==
  /\ keyFile' = f /\ placed' = placed \cup {f}
  /\ inPlace' = [r \in Requests |-> IF Checking(r) /\ f.is = "whole" THEN inPlace[r] \cup {f.keys}
                                     ELSE inPlace[r]]
  /\ dubious' = IF server.at = "loaded" \/ \E old \in placed : old.time = f.time
                THEN dubious \cup {f.time} ELSE dubious

\* What a file may be once keys are written from its start.
Rewritten(old, keys) ==
  {KeyText("whole", keys)} \cup IF old.is = "empty" THEN {} ELSE {KeyText("mixed", {})}

\* ... and writes, wherever the file it opened is by now ...
Fill(c) ==
  /\ command[c].at = "opened"
  /\ command' = [command EXCEPT ![c].at = "written", ![c].on = "nothing"]
  /\ \/ /\ command[c].on = "tmp" /\ keyTmp' \in Rewritten(keyTmp, command[c].keys)
        /\ UNCHANGED <<keyFile, inPlace, placed, dubious>>
     \/ /\ command[c].on = "file" /\ \E f \in Rewritten(keyFile, command[c].keys) : Places(f)
        /\ UNCHANGED keyTmp
     \/ command[c].on = "nothing" /\ UNCHANGED <<keyFile, keyTmp, inPlace, placed, dubious>>
  /\ UNCHANGED <<server, request, clock, readErrors, crossed>>

\* The files that others have open move with the names.
Moved(on) == CASE on = "tmp" -> "file" [] on = "file" -> "nothing" [] OTHER -> on

\* ... and renames it, modification time and all, if another has not done so before.
Install(c) ==
  /\ command[c].at = "written"
  /\ IF keyTmp.is = "none"
     THEN /\ command' = [command EXCEPT ![c].at = "failed"]
          /\ UNCHANGED <<keyFile, keyTmp, inPlace, placed, dubious>>
     ELSE /\ Places(keyTmp) /\ keyTmp' = NoFile
          /\ command' = [d \in Commands |-> IF d = c THEN [command[d] EXCEPT !.at = "done"]
                                             ELSE [command[d] EXCEPT !.on = Moved(@)]]
  /\ UNCHANGED <<server, request, clock, readErrors, crossed>>

\* The disk refuses an open, a write or a rename, or the command is killed.
CommandDies(c) ==
  /\ Running(c)
  /\ command' = [command EXCEPT ![c].at = "failed", ![c].on = "nothing"]
  /\ UNCHANGED <<keyFile, keyTmp, server, request, clock, readErrors, inPlace, placed, dubious, crossed>>

-----------------------------------------------------------------------------
(* The server.                                                             *)

\* AuthMode::resolve: what is reachable from elsewhere needs keys unless told otherwise.
Resolve(config) ==
  IF config.explicit # "unset" THEN config.explicit
  ELSE IF "offbox" \in config.listeners THEN "required" ELSE "off"

\* setup_auth: the copy is read first ...
ReadCopy(config) ==
  /\ server.at = "down"
  /\ server' = [at |-> IF keyFile.is = "whole" THEN "loaded" ELSE "refused",
                mode |-> Resolve(config), config |-> config,
                copy |-> [keys |-> keyFile.keys, time |-> 0]]
  /\ UNCHANGED <<keyFile, keyTmp, command, request, clock, readErrors, inPlace, placed, dubious, crossed>>

\* ... its modification time afterwards ...
TimeCopy ==
  /\ server.at = "loaded"
  /\ server' = [server EXCEPT !.at = "timed", !.copy.time = keyFile.time]
  /\ UNCHANGED <<keyFile, keyTmp, command, request, clock, readErrors, inPlace, placed, dubious, crossed>>

\* ... and with keys required, the file must still parse and have some that are active.
Serve ==
  /\ server.at = "timed"
  /\ server' = [server EXCEPT !.at =
       IF server.mode = "required" /\ (keyFile.is # "whole" \/ keyFile.keys = {}) THEN "refused" ELSE "up"]
  /\ UNCHANGED <<keyFile, keyTmp, command, request, clock, readErrors, inPlace, placed, dubious, crossed>>

\* authenticate, and Role::satisfies: by the copy, by the file, or by the copy for want of
\* a file that can be read.
Finish(r, keys, by) ==
  [request[r] EXCEPT !.at = "done", !.keys = keys, !.by = by,
     !.answer = IF r.key \notin keys THEN "unauthorized"
                ELSE IF RoleOf[r.key] < r.needs THEN "forbidden" ELSE "accepted"]

\* require_auth and grpc_interceptor: with auth off everyone is accepted. Otherwise keys
\* takes the file's modification time ...
Begin(r) ==
  /\ server.at = "up" /\ request[r].at = "new"
  /\ request' = [request EXCEPT ![r] = IF server.mode = "off"
                                        THEN [@ EXCEPT !.at = "done", !.answer = "accepted"]
                                        ELSE [@ EXCEPT !.at = "timed", !.time = keyFile.time]]
  /\ inPlace' = [inPlace EXCEPT ![r] = IF keyFile.is = "whole" THEN {keyFile.keys} ELSE {}]
  /\ UNCHANGED <<keyFile, keyTmp, command, server, clock, readErrors, placed, dubious, crossed>>

\* ... the copy will do if it has that time ...
Compare(r) ==
  /\ request[r].at = "timed"
  /\ request' = [request EXCEPT ![r] = IF server.copy.time = request[r].time
                                        THEN Finish(r, server.copy.keys, "copy")
                                        ELSE [@ EXCEPT !.at = "missed"]]
  /\ UNCHANGED <<keyFile, keyTmp, command, server, clock, readErrors, inPlace, placed, dubious, crossed>>

\* ... and otherwise the file is read, which may be newer than its time was ...
Reread(r) ==
  /\ request[r].at = "missed" /\ keyFile.is = "whole"
  /\ request' = [request EXCEPT ![r] = [@ EXCEPT !.at = "loaded", !.keys = keyFile.keys]]
  /\ UNCHANGED <<keyFile, keyTmp, command, server, clock, readErrors, inPlace, placed, dubious, crossed>>

\* Mutant: the copy is filed under the time the file has now.
CacheNow(r) ==
  /\ request[r].at = "loaded"
  /\ server' = [server EXCEPT !.copy = [keys |-> request[r].keys, time |-> keyFile.time]]
  /\ request' = [request EXCEPT ![r] = Finish(r, request[r].keys, "file")]
  /\ UNCHANGED <<keyFile, keyTmp, command, clock, readErrors, inPlace, placed, dubious, crossed>>

\* ... and cached under that time; of two requests that do so, either may be last.
Cache(r) ==
  /\ request[r].at = "loaded"
  /\ server' = [server EXCEPT !.copy = [keys |-> request[r].keys, time |-> request[r].time]]
  /\ request' = [request EXCEPT ![r] = Finish(r, request[r].keys, "file")]
  /\ UNCHANGED <<keyFile, keyTmp, command, clock, readErrors, inPlace, placed, dubious, crossed>>

\* A file that does not parse, or a read that fails, leaves the copy in use.
RereadFails(r) ==
  /\ request[r].at = "missed"
  /\ \/ keyFile.is # "whole" /\ UNCHANGED readErrors
     \/ readErrors < MaxErrors /\ readErrors' = readErrors + 1
  /\ request' = [request EXCEPT ![r] = Finish(r, server.copy.keys, "fallback")]
  /\ UNCHANGED <<keyFile, keyTmp, command, server, clock, inPlace, placed, dubious, crossed>>

KeysNext ==
  \/ Passes
  \/ \E c \in Commands : Load(c) \/ OpenTmp(c) \/ Fill(c) \/ Install(c) \/ CommandDies(c)
  \/ \E config \in Configs : ReadCopy(config)
  \/ TimeCopy \/ Serve
  \/ \E r \in Requests : Begin(r) \/ Compare(r) \/ Reread(r) \/ Cache(r) \/ RereadFails(r)

KeysSpec == KeysInit /\ [][KeysNext]_keyVars
-----------------------------------------------------------------------------
(* Properties.                                                             *)

\* Types; a copy in use has the time of a file that was in place, and a role suffices for
\* what it is accepted for.
KeysTypeOK ==
  /\ keyFile.keys \cup keyTmp.keys \cup server.copy.keys \subseteq Keys /\ keyFile.time \in 1 .. clock
  /\ server.at \in {"timed", "up"} => \E f \in placed : f.time = server.copy.time
  /\ \A r \in Requests : server.mode = "required" /\ request[r].answer = "accepted" =>
       RoleOf[r.key] >= r.needs

\* "An out-of-band create-key/revoke takes effect without a restart": who reads the file is
\* judged by keys that were in place since, and so is who relies on the copy, unless the
\* modification time they have in common is dubious: two files had it, because one was
\* written in the tick of the other or both were in place by turns, or one came into place
\* between the two reads of a start-up. Who cannot read the file is judged by one there was.
JudgedByTheFile ==
  \A r \in Requests : request[r].at = "done" /\ server.mode = "required" =>
    /\ \E f \in placed : f.is = "whole" /\ f.keys = request[r].keys
    /\ request[r].by = "file" => request[r].keys \in inPlace[r]
    /\ request[r].by = "copy" => request[r].keys \in inPlace[r] \/ request[r].time \in dubious

\* A command that reports success, and ran alone, has had its effect on the file, whatever
\* comes later: only saves that overlap lose it, by tearing the file.
CommandsStand ==
  \A c \in Commands \ crossed :
    command[c].at = "done" /\ (\A d \in Commands \ {c} : d.key # c.key) /\ keyFile.is = "whole"
      => (c.key \in keyFile.keys <=> c.op = "create")

\* Only saves that overlap leave a file that does not parse.
TornBySavesThatCross == keyFile.is # "whole" => crossed # {}

\* "Binding a non-loopback address with no keys and no explicit opt-out is refused": a
\* server that answers from elsewhere judges requests, unless it was told not to.
NeverOpenByDefault ==
  \A r \in Requests :
    request[r].answer = "accepted" /\ "offbox" \in server.config.listeners
      /\ server.config.explicit # "off" => r.key \in request[r].keys
\* A key is worth what the file says of it.
KeysAreCurrent == JudgedByTheFile /\ CommandsStand /\ TornBySavesThatCross /\ NeverOpenByDefault
=============================================================================
