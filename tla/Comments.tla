------------------------------ MODULE Comments ------------------------------
(***************************************************************************)
(* Trace comments and the review queue that is kept in them: the JSONL     *)
(* file with its copy in memory and the Postgres table                     *)
(* (storage/comments), and the commands that file, answer and list         *)
(* questions (tael-cli, commands/review.rs).  An add writes its line in    *)
(* two calls, as writeln! does on an unbuffered file, and then enters it   *)
(* in memory; other adds and the death of the server come between.         *)
(***************************************************************************)
EXTENDS Naturals, Sequences, FiniteSets, SequencesExt

CONSTANTS
  Backends,   \* "jsonl", "postgres"
  Commands,   \* what clients run, each its own: [op, review, trace, options, value, limit]
  MaxRestarts \* bound: deaths of the server

VARIABLES
  backend,
  file,       \* comments and the ends of their lines, as they were written
  comments,   \* in memory, or the rows of the table; whoever reads them sorts them by time
  made,       \* comments made so far: their created_at, or the number of their row
  client,     \* how far each command is
  server,     \* "up", "down", or "broken" when the file does not load
  confirmed,  \* history: comments whose add returned
  crossed,    \* history: reviews with answers that came late, or came without being returned
  restarts

commentVars == <<backend, file, comments, made, client, server, confirmed, crossed, restarts>>

Clients == DOMAIN Commands

\* A question gets a fresh id.
ASSUME CommentsAssumption ==
  /\ Backends \subseteq {"jsonl", "postgres"}
  /\ \A c \in Clients : Commands[c].op \in {"request", "answer", "list"} /\ Commands[c].limit \in Nat
  /\ \A c, d \in Clients : Commands[c].op = "request" /\ Commands[d].op = "request"
                            /\ Commands[c].review = Commands[d].review => c = d

EndOfLine == [kind |-> "eol"]
Idle == [at |-> "idle"]

CommentsInit ==
  /\ backend \in Backends /\ file = <<>> /\ comments = {} /\ made = 0
  /\ client = [c \in Clients |-> Idle] /\ server = "up"
  /\ confirmed = {} /\ crossed = {} /\ restarts = 0

-----------------------------------------------------------------------------
(* Reading.                                                                *)

\* Mutant: the limit takes the oldest.
OldestRecent(n) == {x \in comments : Cardinality({y \in comments : y.at < x.at}) < n}

\* list_recent: the newest n.
ListRecent(n) == {x \in comments : Cardinality({y \in comments : y.at > x.at}) < n}

\* The request with the id, among what is listed.
Requests(rows, review) == {x \in rows : x.kind = "request" /\ x.review = review}

\* The map of answers is filled from the newest on, and the last one put in stays.
AnswerTo(rows, review) ==
  LET answers == {x \in rows : x.kind = "answer" /\ x.review = review}
  IN  {x \in answers : \A y \in answers : y.at >= x.at}

\* review list: the listed requests with their answers, if any.
Reviews(rows) ==
  {[request |-> q, answer |-> AnswerTo(rows, q.review)] : q \in {x \in rows : x.kind = "request"}}

List(c) ==
  /\ Commands[c].op = "list" /\ client[c].at = "idle" /\ server = "up"
  /\ client' = [client EXCEPT ![c] = [at |-> "listed", rows |-> Reviews(ListRecent(Commands[c].limit)),
                                      known |-> confirmed]]
  /\ UNCHANGED <<backend, file, comments, made, server, confirmed, crossed, restarts>>

-----------------------------------------------------------------------------
(* Adding.                                                                 *)

\* review submit: look the request up, and check the answer against its options.
Unfit(c, rows) ==
  LET found == Requests(rows, Commands[c].review)
  IN  \/ found = {}
      \/ \E q \in found : q.options # {} /\ Commands[c].value \notin q.options

\* review request files at once; an answer goes to the trace of its request.
Ask(c) ==
  LET cmd  == Commands[c]
      rows == ListRecent(cmd.limit)
      to   == [at |-> "sent", trace |-> IF cmd.op = "request" THEN cmd.trace
                ELSE (CHOOSE q \in Requests(rows, cmd.review) : TRUE).trace]
  IN  /\ cmd.op \in {"request", "answer"} /\ client[c].at = "idle" /\ server = "up"
      /\ client' = [client EXCEPT ![c] = IF cmd.op = "answer" /\ Unfit(c, rows)
                                         THEN [at |-> "refused"] ELSE to]
      /\ UNCHANGED <<backend, file, comments, made, server, confirmed, crossed, restarts>>

\* add: make the comment, which has its time from here on.
Make(c) ==
  LET cmd == Commands[c]
  IN  /\ client[c].at = "sent" /\ server = "up"
      /\ made' = made + 1
      /\ client' = [client EXCEPT ![c] =
           [at |-> IF backend = "jsonl" THEN "made" ELSE "written",
            comment |-> [kind |-> cmd.op, review |-> cmd.review, trace |-> client[c].trace,
                         options |-> cmd.options, value |-> cmd.value, at |-> made + 1]]]
      /\ UNCHANGED <<backend, file, comments, server, confirmed, crossed, restarts>>

Write(c, from, piece, to) ==
  /\ client[c].at = from /\ server = "up"
  /\ file' = Append(file, piece)
  /\ client' = [client EXCEPT ![c] = [at |-> to, comment |-> client[c].comment]]
  /\ UNCHANGED <<backend, comments, made, server, confirmed, crossed, restarts>>

\* writeln!: the text of the line, and then its end.
WriteLine(c) ==
  \/ client[c].at = "made" /\ Write(c, "made", client[c].comment, "text")
  \/ Write(c, "text", EndOfLine, "written")

\* Enter the comment in memory, or commit its row, and return it.
Push(c) ==
  LET new == client[c].comment
  IN  /\ client[c].at = "written" /\ server = "up"
      /\ comments' = comments \cup {new}
      /\ confirmed' = confirmed \cup {new}
      /\ crossed' = IF \E x \in comments : x.review = new.review /\ x.at > new.at
                    THEN crossed \cup {new.review} ELSE crossed
      /\ client' = [client EXCEPT ![c] = [at |-> "done", comment |-> new]]
      /\ UNCHANGED <<backend, file, made, server, restarts>>

-----------------------------------------------------------------------------
(* The server dies, and starts again.                                      *)

Die ==
  /\ server = "up" /\ restarts < MaxRestarts
  /\ restarts' = restarts + 1 /\ server' = "down"
  /\ comments' = IF backend = "jsonl" THEN {} ELSE comments
  /\ client' = [c \in Clients |-> IF client[c].at \in {"sent", "made", "text", "written"}
                                  THEN [at |-> "failed"] ELSE client[c]]
  /\ UNCHANGED <<backend, file, made, confirmed, crossed>>

\* What stands on one line with something else is no JSON value.
Glued(lines) == \E i \in 1..Len(lines) - 1 : lines[i] # EndOfLine /\ lines[i + 1] # EndOfLine

Texts(lines) == ToSet(lines) \ {EndOfLine}

\* JsonlComments::open: blank lines are skipped, any other must be a comment.
Open ==
  /\ server = "down"
  /\ server' = IF Glued(file) THEN "broken" ELSE "up"
  /\ comments' = IF backend = "jsonl" /\ ~Glued(file) THEN Texts(file) ELSE comments
  /\ crossed' = crossed \cup {x.review : x \in Texts(file) \ confirmed}
  /\ UNCHANGED <<backend, file, made, client, confirmed, restarts>>

CommentsNext ==
  \/ \E c \in Clients : List(c) \/ Ask(c) \/ Make(c) \/ WriteLine(c) \/ Push(c)
  \/ Die \/ Open

CommentsSpec == CommentsInit /\ [][CommentsNext]_commentVars

-----------------------------------------------------------------------------
(* Properties.                                                             *)

Comment(x) == x.kind \in {"request", "answer"} /\ x.at \in 1..made

\* Types; a comment has a time of its own.
CommentsTypeOK ==
  /\ backend \in {"jsonl", "postgres"} /\ server \in {"up", "down", "broken"}
  /\ \A x \in comments : Comment(x)
  /\ \A x, y \in comments : x.at = y.at => x = y

\* "Comments are the one piece of user-authored state tael holds, so they get a
\* durable, swappable backend": what an add returned is there whenever the server is up,
\* and the server comes up.  TLC refutes it: two adds whose texts are written before
\* their line ends, or an add after one that died between the two, make a line that is
\* no JSON value, and no comment can be read again.
CommentsAreDurable ==
  /\ server # "broken"
  /\ server = "up" => confirmed \subseteq comments

\* An answer is on the trace of its question, and one of its options.
AnswersBelong ==
  \A x \in comments : x.kind = "answer" =>
    \E q \in Requests(comments, x.review) :
      /\ q.trace = x.trace /\ q.at < x.at
      /\ q.options = {} \/ x.value \in q.options

Listed == {c \in Clients : client[c].at = "listed"}

\* A question listed as open had no answer when the list was read, however short the list.
OpenMeansUnanswered ==
  \A c \in Listed : \A row \in client[c].rows :
    row.answer = {} => \A x \in client[c].known : x.kind = "answer" => x.review # row.request.review

\* The answer that lists show of a question stays the same, unless one came after a later
\* one, or its add failed when its line was written.
AnswersStay ==
  \A c, d \in Listed : \A row \in client[c].rows : \A later \in client[d].rows :
    /\ row.request = later.request /\ row.request.review \notin crossed
    /\ row.answer # {} /\ later.answer # {}
    => row.answer = later.answer

\* What the review queue shows is what was asked and answered.
ReviewsAreHonest == AnswersBelong /\ OpenMeansUnanswered /\ AnswersStay
=============================================================================
