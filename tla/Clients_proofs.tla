--------------------------- MODULE Clients_proofs ---------------------------
(***************************************************************************)
(* Proofs about the screens of the user.  The desktop GUI: what is on      *)
(* screen once nothing is under way is what is selected, and a comment     *)
(* goes to the trace its span is of, for any clicks and requests.  The     *)
(* terminal UI: a comment goes to the trace it was typed for and names a   *)
(* span of it, the waterfall has each span of the one trace that is open,  *)
(* a failure is shown, and Enter opens what is highlighted.                *)
(***************************************************************************)
EXTENDS MCClients, FiniteSetTheorems, SequenceTheorems, WellFoundedInduction, TLAPS

-----------------------------------------------------------------------------
(* The desktop GUI: calls.                                                 *)

Whatever == Filters \cup Traces \cup GuiRuns \cup Queries \cup {Unset}

Kinds == {"healthz", "spans", "runs", "cases", "compare", "trace", "add", "comments", "sql"}

\* A request is for a thing of its kind.
GuiCalls ==
  {c \in [do : Kinds, of : Whatever, base : GuiRuns \cup {Unset}, by : Nat] :
     /\ c.do = "spans" => c.of \in Filters
     /\ c.do = "trace" => c.of \in Traces
     /\ c.do = "comments" => c.of \in Traces \cup {Unset}
     /\ c.do \in {"cases", "compare"} => c.of \in GuiRuns
     /\ c.do = "sql" => c.of \in Queries}

\* The first gone or none of the calls, and new ones at the end.
Shifted(gone, new) ==
  /\ Len(calls') = Len(calls) - gone + Len(new)
  /\ \A k \in 1 .. Len(calls) - gone : calls'[k] = calls[k + gone]
  /\ \A k \in 1 .. Len(new) : calls'[Len(calls) - gone + k] = new[k]

\* A call that is not a new one asks for what one of the old ones did.
Recalls(new) ==
  \A k \in 1 .. Len(calls') :
    \/ \E j \in 1 .. Len(calls) : calls'[k].do = calls[j].do /\ calls'[k].of = calls[j].of
    \/ \E j \in 1 .. Len(new) : calls'[k] = new[j]

\* A stream was started with an id that was taken; one with the id of now has the filter of now.
StreamsOK ==
  /\ streams \in Seq([id : Nat, filter : Filters]) /\ stream \in Nat \ {0}
  /\ \A k \in 1 .. Len(streams) :
       /\ streams[k].id \in 1 .. stream
       /\ streams[k].id = stream => streams[k].filter = guiFilter

\* The variables but the calls hold what they are meant to.
GuiFields ==
  /\ failures \in Nat /\ overtaken \in BOOLEAN /\ crossed \in BOOLEAN
  /\ guiFilter \in Filters /\ shown \subseteq Filters /\ query \in Queries \cup {Unset}
  /\ guiCurrent \in Traces \cup {Unset} /\ traceOf \in Traces \cup {Unset} /\ commentsOf \in Traces \cup {Unset}
  /\ picked \in GuiRuns \cup {Unset} /\ evalRun \in GuiRuns \cup {Unset}
  /\ casesOf \in GuiRuns \cup {Unset} /\ baseline \in GuiRuns \cup {Unset}

GuiShapes == calls \in Seq(GuiCalls) /\ GuiFields /\ StreamsOK

\* New calls come last.
LEMMA CallsGrow ==
  ASSUME calls \in Seq(GuiCalls), NEW new \in Seq(GuiCalls), calls' = calls \o new
  PROVE  calls' \in Seq(GuiCalls) /\ Shifted(0, new) /\ Recalls(new)
<1>1. /\ calls' \in Seq(GuiCalls) /\ Len(calls') = Len(calls) + Len(new)
      /\ Len(calls) \in Nat /\ Len(new) \in Nat
      /\ \A k \in 1 .. Len(calls) + Len(new) : calls'[k] = IF k <= Len(calls) THEN calls[k] ELSE new[k - Len(calls)]
  BY ConcatProperties
<1>2. \A k \in 1 .. Len(calls) : calls'[k] = calls[k]
  BY <1>1
<1>3. ASSUME NEW k \in 1 .. Len(new)
      PROVE  calls'[Len(calls) + k] = new[k]
  <2>1. /\ Len(calls) + k \in 1 .. Len(calls) + Len(new) /\ ~(Len(calls) + k <= Len(calls))
        /\ (Len(calls) + k) - Len(calls) = k
    BY <1>1
  <2> QED BY <1>1, <2>1
<1>4. ASSUME NEW k \in 1 .. Len(calls')
      PROVE  \/ \E j \in 1 .. Len(calls) : calls'[k].do = calls[j].do /\ calls'[k].of = calls[j].of
             \/ \E j \in 1 .. Len(new) : calls'[k] = new[j]
  <2>1. CASE k <= Len(calls)
    <3>1. k \in 1 .. Len(calls)
      BY <1>1, <2>1
    <3>2. calls'[k].do = calls[k].do /\ calls'[k].of = calls[k].of
      BY <1>2, <3>1
    <3> QED BY <3>1, <3>2
  <2>2. CASE k > Len(calls)
    <3>1. k - Len(calls) \in 1 .. Len(new) /\ calls'[k] = new[k - Len(calls)]
      <4>1. k - Len(calls) \in 1 .. Len(new) /\ Len(calls) + (k - Len(calls)) = k
        BY <1>1, <2>2
      <4> QED BY <1>3, <4>1
    <3> QED BY <3>1
  <2> QED BY <1>1, <2>1, <2>2
<1> QED BY <1>1, <1>2, <1>3, <1>4 DEF Shifted, Recalls

\* What is left when a call was answered.
LEMMA WithoutOne ==
  ASSUME calls \in Seq(GuiCalls), NEW i \in 1 .. Len(calls)
  PROVE  /\ Without(i) \in Seq(GuiCalls) /\ Len(Without(i)) = Len(calls) - 1
         /\ \A k \in 1 .. Len(calls) - 1 : Without(i)[k] = IF k < i THEN calls[k] ELSE calls[k + 1]
<1> DEFINE front == SubSeq(calls, 1, i - 1)
           back  == SubSeq(calls, i + 1, Len(calls))
<1>1. Without(i) = front \o back
  BY DEF Without, RemoveAt
<1>2. Len(calls) \in Nat /\ \A k \in 1 .. Len(calls) : calls[k] \in GuiCalls
  BY LenProperties, ElementOfSeq
<1>3. front \in Seq(GuiCalls) /\ Len(front) = i - 1 /\ \A k \in 1 .. i - 1 : front[k] = calls[k]
  <2>1. \A k \in 1 .. i - 1 : calls[k] \in GuiCalls
    BY <1>2
  <2>2. /\ SubSeq(calls, 1, i - 1) \in Seq(GuiCalls)
        /\ Len(SubSeq(calls, 1, i - 1)) = IF 1 <= i - 1 THEN (i - 1) - 1 + 1 ELSE 0
        /\ \A k \in 1 .. (i - 1) - 1 + 1 : SubSeq(calls, 1, i - 1)[k] = calls[1 + k - 1]
    BY SubSeqProperties, <2>1
  <2> QED BY <2>2
<1>4. back \in Seq(GuiCalls) /\ Len(back) = Len(calls) - i /\ \A k \in 1 .. Len(calls) - i : back[k] = calls[k + i]
  <2>1. \A k \in i + 1 .. Len(calls) : calls[k] \in GuiCalls
    BY <1>2
  <2>2. /\ SubSeq(calls, i + 1, Len(calls)) \in Seq(GuiCalls)
        /\ Len(SubSeq(calls, i + 1, Len(calls))) = IF i + 1 <= Len(calls) THEN Len(calls) - (i + 1) + 1 ELSE 0
        /\ \A k \in 1 .. Len(calls) - (i + 1) + 1 : SubSeq(calls, i + 1, Len(calls))[k] = calls[(i + 1) + k - 1]
    BY SubSeqProperties, <1>2, <2>1
  <2>3. ASSUME NEW k \in 1 .. Len(calls) - i
        PROVE  back[k] = calls[k + i]
    <3>1. k \in 1 .. Len(calls) - (i + 1) + 1 /\ (i + 1) + k - 1 = k + i
      BY <1>2
    <3> QED BY <2>2, <3>1
  <2> QED BY <1>2, <2>2, <2>3
<1> HIDE DEF front, back
<1>5. /\ front \o back \in Seq(GuiCalls) /\ Len(front \o back) = Len(front) + Len(back)
      /\ \A k \in 1 .. Len(front) + Len(back) :
           (front \o back)[k] = IF k <= Len(front) THEN front[k] ELSE back[k - Len(front)]
  BY <1>3, <1>4, ConcatProperties
<1>6. Len(front) + Len(back) = Len(calls) - 1
  BY <1>2, <1>3, <1>4
<1>7. ASSUME NEW k \in 1 .. Len(calls) - 1
      PROVE  Without(i)[k] = IF k < i THEN calls[k] ELSE calls[k + 1]
  <2>1. CASE k < i
    <3>1. k \in 1 .. i - 1 /\ k <= Len(front)
      BY <1>2, <1>3, <2>1
    <3> QED BY <1>1, <1>3, <1>5, <1>6, <2>1, <3>1
  <2>2. CASE k >= i
    <3>1. ~(k <= Len(front)) /\ k - Len(front) \in 1 .. Len(calls) - i /\ (k - Len(front)) + i = k + 1
      BY <1>2, <1>3, <2>2
    <3>2. Without(i)[k] = back[k - Len(front)]
      BY <1>1, <1>5, <1>6, <3>1
    <3>3. back[k - Len(front)] = calls[k + 1]
      BY <1>4, <3>1
    <3> QED BY <2>2, <3>2, <3>3
  <2> QED BY <1>2, <2>1, <2>2
<1> QED BY <1>1, <1>5, <1>6, <1>7

\* A call is answered, and new ones come last.
LEMMA CallsShift ==
  ASSUME calls \in Seq(GuiCalls), NEW i \in 1 .. Len(calls), NEW new \in Seq(GuiCalls), calls' = Without(i) \o new
  PROVE  calls' \in Seq(GuiCalls) /\ (i = 1 => Shifted(1, new)) /\ Recalls(new)
<1> DEFINE n == Len(calls) - 1
<1>0. n \in Nat
  OBVIOUS
<1>1. /\ Without(i) \in Seq(GuiCalls) /\ Len(Without(i)) = n
      /\ \A k \in 1 .. n : Without(i)[k] = IF k < i THEN calls[k] ELSE calls[k + 1]
  BY WithoutOne
<1>3. /\ calls' \in Seq(GuiCalls) /\ Len(calls') = n + Len(new) /\ Len(new) \in Nat
      /\ \A k \in 1 .. n + Len(new) : calls'[k] = IF k <= n THEN Without(i)[k] ELSE new[k - n]
  BY <1>1, ConcatProperties
<1>4. ASSUME NEW k \in 1 .. n
      PROVE  calls'[k] = Without(i)[k]
  <2>1. k \in 1 .. n + Len(new) /\ k <= n
    BY <1>0, <1>1, <1>3
  <2> QED BY <1>3, <2>1
<1>5. ASSUME NEW k \in 1 .. Len(new)
      PROVE  calls'[n + k] = new[k]
  <2>1. n + k \in 1 .. n + Len(new) /\ ~(n + k <= n) /\ (n + k) - n = k
    BY <1>0, <1>1, <1>3
  <2> QED BY <1>3, <2>1
<1>6. ASSUME i = 1, NEW k \in 1 .. n
      PROVE  calls'[k] = calls[k + 1]
  <2>1. Without(i)[k] = calls[k + 1]
    BY <1>0, <1>1, <1>6
  <2> QED BY <1>4, <2>1
<1>7. ASSUME NEW k \in 1 .. Len(calls')
      PROVE  \/ \E j \in 1 .. Len(calls) : calls'[k].do = calls[j].do /\ calls'[k].of = calls[j].of
             \/ \E j \in 1 .. Len(new) : calls'[k] = new[j]
  <2>1. CASE k <= n
    <3>1. k \in 1 .. n
      BY <1>0, <1>1, <1>3, <2>1
    <3>3. calls'[k] = calls[k] \/ calls'[k] = calls[k + 1]
      BY <1>0, <1>1, <1>4, <3>1
    <3>2. k \in 1 .. Len(calls) /\ k + 1 \in 1 .. Len(calls)
      BY <1>3, <2>1
    <3>4. CASE calls'[k] = calls[k]
      BY <3>2, <3>4
    <3>5. CASE calls'[k] = calls[k + 1]
      BY <3>2, <3>5
    <3> QED BY <3>3, <3>4, <3>5
  <2>2. CASE k > n
    <3>1. k - n \in 1 .. Len(new) /\ n + (k - n) = k
      BY <1>0, <1>1, <1>3, <2>2
    <3> QED BY <1>5, <3>1
  <2> QED BY <1>0, <1>1, <1>3, <2>1, <2>2
<1> QED BY <1>0, <1>1, <1>3, <1>5, <1>6, <1>7 DEF Shifted, Recalls
-----------------------------------------------------------------------------
(* The desktop GUI: the invariant.                                         *)

\* There is a call of a kind; there is one after the j-th call; one of the new ones is.
Pending(kind)  == \E k \in 1 .. Len(calls) : calls[k].do = kind
Later(j, kind) == \E k \in 1 .. Len(calls) : k > j /\ calls[k].do = kind
Has(new, kind) == \E k \in 1 .. Len(new) : new[k].do = kind

\* Unless two traces crossed, only the open one loads, and the waterfall has its spans or none.
OneTrace ==
  /\ CommentsFit
  /\ ~crossed => /\ traceOf \in {Unset, guiCurrent}
                 /\ \A j \in 1 .. Len(calls) : calls[j].do = "trace" => calls[j].of = guiCurrent

\* Answers that come in order leave on screen what the last request of a kind asked for,
\* and that was for what is selected now, or another request will be.
SpansFresh ==
  /\ \A j \in 1 .. Len(calls) : calls[j].do = "spans" =>
       calls[j].of = guiFilter \/ Pending("healthz") \/ Later(j, "spans")
  /\ Pending("healthz") \/ Pending("spans") \/ shown \subseteq {guiFilter}

TraceFresh ==
  /\ \A j \in 1 .. Len(calls) : calls[j].do \in {"trace", "comments"} =>
       calls[j].of = guiCurrent \/ Later(j, "trace")
  /\ Pending("trace") \/ traceOf = guiCurrent
  /\ Pending("trace") \/ Pending("add") \/ Pending("comments") \/ commentsOf = guiCurrent

\* What the comparison of the picked run is.
Wanted == IF baseline \in {Unset, picked} THEN <<>> ELSE <<picked, baseline>>

CasesFresh ==
  /\ Pending("runs") \/ evalRun = picked
  /\ \A j \in 1 .. Len(calls) : calls[j].do = "cases" => calls[j].of = picked \/ Later(j, "runs")
  /\ Pending("runs") \/ Pending("cases") \/ casesOf = picked

CompareFresh ==
  /\ \A j \in 1 .. Len(calls) : calls[j].do = "compare" =>
       \/ calls[j].of = picked /\ calls[j].base = baseline /\ baseline \notin {Unset, picked}
       \/ Pending("runs") \/ Later(j, "cases")
  /\ Pending("runs") \/ Pending("cases") \/ Pending("compare") \/ compareOf = Wanted

RowsFresh ==
  /\ \A j \in 1 .. Len(calls) : calls[j].do = "sql" => calls[j].of = ran \/ Later(j, "sql")
  /\ Pending("sql") \/ answerTo = ran

InOrder == ~overtaken /\ failures = 0
Fresh   == SpansFresh /\ TraceFresh /\ CasesFresh /\ CompareFresh /\ RowsFresh

GuiInv == GuiShapes /\ OneTrace /\ (InOrder => Fresh)
-----------------------------------------------------------------------------
(* The desktop GUI: what is left, later and new.                           *)

\* At most the first call is gone.
Moved(gone, new) == gone \in {0, 1} /\ gone <= Len(calls) /\ Len(calls) \in Nat /\ Len(new) \in Nat /\ Shifted(gone, new)

\* The first call is of a kind and goes.
First(gone, kind) == gone = 1 /\ calls[1].do = kind

\* A call is an old one or a new one.
LEMMA OldOrNew ==
  ASSUME NEW gone, NEW new, Moved(gone, new), NEW k \in 1 .. Len(calls')
  PROVE  \/ k \in 1 .. Len(calls) - gone /\ k + gone \in 1 .. Len(calls) /\ calls'[k] = calls[k + gone]
         \/ k > Len(calls) - gone /\ \E m \in 1 .. Len(new) : calls'[k] = new[m]
<1>1. /\ gone \in {0, 1} /\ gone <= Len(calls) /\ Len(calls) \in Nat /\ Len(new) \in Nat
      /\ Len(calls') = Len(calls) - gone + Len(new)
      /\ \A j \in 1 .. Len(calls) - gone : calls'[j] = calls[j + gone]
      /\ \A j \in 1 .. Len(new) : calls'[Len(calls) - gone + j] = new[j]
  BY DEF Moved, Shifted
<1>2. CASE k <= Len(calls) - gone
  BY <1>1, <1>2
<1>3. CASE k > Len(calls) - gone
  <2>1. k - (Len(calls) - gone) \in 1 .. Len(new) /\ Len(calls) - gone + (k - (Len(calls) - gone)) = k
    BY <1>1, <1>3
  <2>2. calls'[k] = new[k - (Len(calls) - gone)]
    BY <1>1, <2>1
  <2> QED BY <1>3, <2>1, <2>2
<1> QED BY <1>1, <1>2, <1>3

\* New calls are later than the old ones.
LEMMA NewIsLater ==
  ASSUME NEW gone, NEW new, Moved(gone, new), NEW kind, Has(new, kind)
  PROVE  Pending(kind)' /\ \A j \in 1 .. Len(calls) - gone : Later(j, kind)'
<1>1. /\ gone \in {0, 1} /\ gone <= Len(calls) /\ Len(calls) \in Nat /\ Len(new) \in Nat
      /\ Len(calls') = Len(calls) - gone + Len(new)
      /\ \A j \in 1 .. Len(new) : calls'[Len(calls) - gone + j] = new[j]
  BY DEF Moved, Shifted
<1>2. PICK m \in 1 .. Len(new) : new[m].do = kind
  BY DEF Has
<1>3. /\ Len(calls) - gone + m \in 1 .. Len(calls') /\ calls'[Len(calls) - gone + m].do = kind
      /\ Len(calls) - gone + m > Len(calls) - gone
  BY <1>1, <1>2
<1>4. Pending(kind)'
  BY <1>3 DEF Pending
<1>5. ASSUME NEW j \in 1 .. Len(calls) - gone
      PROVE  Later(j, kind)'
  <2>1. Len(calls) - gone + m > j
    BY <1>1, <1>3
  <2> QED BY <1>3, <2>1 DEF Later
<1> QED BY <1>4, <1>5

\* What is later stays later.
LEMMA LaterStays ==
  ASSUME NEW gone, NEW new, Moved(gone, new), NEW kind, NEW j \in 1 .. Len(calls) - gone, Later(j + gone, kind)
  PROVE  Later(j, kind)'
<1>1. /\ gone \in {0, 1} /\ gone <= Len(calls) /\ Len(calls) \in Nat /\ Len(new) \in Nat
      /\ Len(calls') = Len(calls) - gone + Len(new)
      /\ \A i \in 1 .. Len(calls) - gone : calls'[i] = calls[i + gone]
  BY DEF Moved, Shifted
<1>2. PICK k \in 1 .. Len(calls) : k > j + gone /\ calls[k].do = kind
  BY DEF Later
<1>3. k - gone \in 1 .. Len(calls) - gone /\ (k - gone) + gone = k /\ k - gone > j /\ k - gone \in 1 .. Len(calls')
  BY <1>1, <1>2
<1>4. calls'[k - gone].do = kind
  BY <1>1, <1>2, <1>3
<1> QED BY <1>3, <1>4 DEF Later

\* What is pending stays pending, unless it is the one that goes.
LEMMA PendingStays ==
  ASSUME NEW gone, NEW new, Moved(gone, new), NEW kind, Pending(kind), ~First(gone, kind)
  PROVE  Pending(kind)'
<1>1. /\ gone \in {0, 1} /\ gone <= Len(calls) /\ Len(calls) \in Nat /\ Len(new) \in Nat
      /\ Len(calls') = Len(calls) - gone + Len(new)
      /\ \A i \in 1 .. Len(calls) - gone : calls'[i] = calls[i + gone]
  BY DEF Moved, Shifted
<1>2. PICK k \in 1 .. Len(calls) : calls[k].do = kind
  BY DEF Pending
<1>3. k # 1 \/ gone = 0
  BY <1>1, <1>2 DEF First
<1>4. k - gone \in 1 .. Len(calls) - gone /\ (k - gone) + gone = k /\ k - gone \in 1 .. Len(calls')
  BY <1>1, <1>2, <1>3
<1>5. calls'[k - gone].do = kind
  BY <1>1, <1>2, <1>4
<1> QED BY <1>4, <1>5 DEF Pending

\* The one that goes was followed by what is pending now.
LEMMA LaterPends ==
  ASSUME NEW gone, NEW new, Moved(gone, new), gone = 1, NEW kind, Later(1, kind)
  PROVE  Pending(kind)'
<1>1. /\ gone \in {0, 1} /\ gone <= Len(calls) /\ Len(calls) \in Nat /\ Len(new) \in Nat
      /\ Len(calls') = Len(calls) - gone + Len(new)
      /\ \A i \in 1 .. Len(calls) - gone : calls'[i] = calls[i + gone]
  BY DEF Moved, Shifted
<1>2. PICK k \in 1 .. Len(calls) : k > 1 /\ calls[k].do = kind
  BY DEF Later
<1>4. k - gone \in 1 .. Len(calls) - gone /\ (k - gone) + gone = k /\ k - gone \in 1 .. Len(calls')
  BY <1>1, <1>2
<1>5. calls'[k - gone].do = kind
  BY <1>1, <1>2, <1>4
<1> QED BY <1>4, <1>5 DEF Pending

-----------------------------------------------------------------------------
(* The desktop GUI: what a step does to each part.                         *)

SpansMove(gone, new) ==
  /\ \A m \in 1 .. Len(new) : new[m].do = "spans" => new[m].of = guiFilter'
  /\ guiFilter' = guiFilter \/ Has(new, "healthz")
  /\ First(gone, "healthz") => guiFilter' = guiFilter /\ Has(new, "spans")
  /\ First(gone, "spans") => guiFilter' = guiFilter /\ shown' = {calls[1].of}
  /\ ~First(gone, "spans") => shown' \subseteq shown \cup {guiFilter}

TraceMove(gone, new) ==
  /\ \A m \in 1 .. Len(new) : new[m].do \in {"trace", "comments"} => new[m].of = guiCurrent'
  /\ \/ Has(new, "trace")
     \/ guiCurrent' = guiCurrent /\ traceOf' = traceOf /\ commentsOf' = commentsOf /\ gone = 0
     \/ /\ guiCurrent' = guiCurrent /\ gone = 1
        /\ IF First(gone, "trace") THEN traceOf' = calls[1].of /\ commentsOf' = calls[1].of
           ELSE /\ traceOf' = traceOf
                /\ commentsOf' = IF First(gone, "comments") THEN calls[1].of ELSE commentsOf
        /\ First(gone, "add") => Has(new, "comments")

CasesMove(gone, new) ==
  /\ \A m \in 1 .. Len(new) : new[m].do = "cases" => new[m].of = picked'
  /\ IF First(gone, "runs")
     THEN Has(new, "cases") /\ evalRun' = picked' /\ picked' = (IF picked = Unset THEN picked' ELSE picked)
     ELSE evalRun' = evalRun /\ (picked' = picked \/ Has(new, "runs"))
  /\ casesOf' = IF First(gone, "cases") THEN calls[1].of ELSE casesOf

CompareMove(gone, new) ==
  /\ \A m \in 1 .. Len(new) : new[m].do = "compare" =>
       First(gone, "cases") /\ new[m].of = calls[1].of /\ new[m].base = baseline /\ baseline \notin {Unset, calls[1].of}
  /\ (picked' = picked /\ baseline' = baseline) \/ Has(new, "runs") \/ First(gone, "runs")
  /\ First(gone, "runs") => Has(new, "cases")
  /\ First(gone, "cases") =>
       Has(new, "compare") \/ (compareOf' = <<>> /\ baseline \in {Unset, calls[1].of})
  /\ First(gone, "compare") => compareOf' = <<calls[1].of, calls[1].base>>
  /\ ~First(gone, "cases") /\ ~First(gone, "compare") => compareOf' = compareOf

RowsMove(gone, new) ==
  /\ \A m \in 1 .. Len(new) : new[m].do = "sql" => new[m].of = ran'
  /\ ran' = ran \/ (Has(new, "sql") /\ ~First(gone, "sql"))
  /\ answerTo' = IF First(gone, "sql") THEN calls[1].of ELSE answerTo

\* Spans of another filter are on their way out.
LEMMA SpansStep ==
  ASSUME NEW gone, NEW new, Moved(gone, new), SpansFresh, SpansMove(gone, new)
  PROVE  SpansFresh'
<1>0. gone \in {0, 1} /\ gone <= Len(calls) /\ Len(calls) \in Nat
  BY DEF Moved
<1>1. ASSUME NEW k \in 1 .. Len(calls'), calls'[k].do = "spans"
      PROVE  calls'[k].of = guiFilter' \/ Pending("healthz")' \/ Later(k, "spans")'
  <2>1. CASE k \in 1 .. Len(calls) - gone /\ k + gone \in 1 .. Len(calls) /\ calls'[k] = calls[k + gone]
    <3>1. calls[k + gone].of = guiFilter \/ Pending("healthz") \/ Later(k + gone, "spans")
      BY <1>1, <2>1 DEF SpansFresh
    <3>2. CASE Has(new, "healthz")
      BY <3>2, NewIsLater
    <3>3. CASE First(gone, "healthz")
      BY <2>1, <3>3, NewIsLater DEF SpansMove
    <3>4. CASE Later(k + gone, "spans")
      BY <2>1, <3>4, LaterStays
    <3>5. CASE Pending("healthz") /\ ~First(gone, "healthz")
      BY <3>5, PendingStays
    <3>6. CASE calls[k + gone].of = guiFilter /\ ~Has(new, "healthz")
      BY <2>1, <3>6 DEF SpansMove
    <3> QED BY <3>1, <3>2, <3>3, <3>4, <3>5, <3>6
  <2>2. CASE \E m \in 1 .. Len(new) : calls'[k] = new[m]
    BY <1>1, <2>2 DEF SpansMove
  <2> QED BY <2>1, <2>2, OldOrNew
<1>2. Pending("healthz")' \/ Pending("spans")' \/ shown' \subseteq {guiFilter'}
  <2>1. CASE Has(new, "healthz") \/ First(gone, "healthz")
    BY <2>1, NewIsLater DEF SpansMove
  <2>2. CASE ~Has(new, "healthz") /\ ~First(gone, "healthz") /\ First(gone, "spans")
    <3>1. 1 \in 1 .. Len(calls) /\ calls[1].do = "spans" /\ gone = 1
      BY <1>0, <2>2 DEF First
    <3>2. calls[1].of = guiFilter \/ Pending("healthz") \/ Later(1, "spans")
      BY <3>1 DEF SpansFresh
    <3>3. CASE calls[1].of = guiFilter
      BY <2>2, <3>3 DEF SpansMove
    <3>4. CASE Pending("healthz")
      BY <2>2, <3>4, PendingStays
    <3>5. CASE Later(1, "spans")
      BY <3>1, <3>5, LaterPends
    <3> QED BY <3>2, <3>3, <3>4, <3>5
  <2>3. CASE ~Has(new, "healthz") /\ ~First(gone, "healthz") /\ ~First(gone, "spans")
    <3>1. Pending("healthz") \/ Pending("spans") \/ shown \subseteq {guiFilter}
      BY DEF SpansFresh
    <3>2. CASE shown \subseteq {guiFilter}
      BY <2>3, <3>2 DEF SpansMove
    <3> QED BY <2>3, <3>1, <3>2, PendingStays
  <2> QED BY <2>1, <2>2, <2>3
<1> QED BY <1>1, <1>2 DEF SpansFresh
\* The trace view of another trace is on its way out.
LEMMA TraceStep ==
  ASSUME NEW gone, NEW new, Moved(gone, new), TraceFresh, TraceMove(gone, new)
  PROVE  TraceFresh'
<1>0. gone \in {0, 1} /\ gone <= Len(calls) /\ Len(calls) \in Nat
  BY DEF Moved
<1>1. ASSUME NEW k \in 1 .. Len(calls'), calls'[k].do \in {"trace", "comments"}
      PROVE  calls'[k].of = guiCurrent' \/ Later(k, "trace")'
  <2>1. CASE k \in 1 .. Len(calls) - gone /\ k + gone \in 1 .. Len(calls) /\ calls'[k] = calls[k + gone]
    <3>1. calls[k + gone].of = guiCurrent \/ Later(k + gone, "trace")
      BY <1>1, <2>1 DEF TraceFresh
    <3>2. CASE Has(new, "trace")
      BY <2>1, <3>2, NewIsLater
    <3>3. CASE Later(k + gone, "trace")
      BY <2>1, <3>3, LaterStays
    <3>4. CASE calls[k + gone].of = guiCurrent /\ ~Has(new, "trace")
      BY <2>1, <3>4 DEF TraceMove
    <3> QED BY <3>1, <3>2, <3>3, <3>4
  <2>2. CASE \E m \in 1 .. Len(new) : calls'[k] = new[m]
    BY <1>1, <2>2 DEF TraceMove
  <2> QED BY <2>1, <2>2, OldOrNew
<1>2. CASE Has(new, "trace")
  BY <1>1, <1>2, NewIsLater DEF TraceFresh
<1>3. CASE ~Has(new, "trace") /\ gone = 0
  <2>1. guiCurrent' = guiCurrent /\ traceOf' = traceOf /\ commentsOf' = commentsOf
    BY <1>3 DEF TraceMove
  <2>2. ~First(gone, "trace") /\ ~First(gone, "add") /\ ~First(gone, "comments")
    BY <1>3 DEF First
  <2>3. Pending("trace") => Pending("trace")'
    BY <2>2, PendingStays
  <2>4. Pending("add") => Pending("add")'
    BY <2>2, PendingStays
  <2>5. Pending("comments") => Pending("comments")'
    BY <2>2, PendingStays
  <2> QED BY <1>1, <2>1, <2>3, <2>4, <2>5 DEF TraceFresh
<1>4. CASE ~Has(new, "trace") /\ gone = 1
  <2>1. /\ guiCurrent' = guiCurrent
        /\ IF First(gone, "trace") THEN traceOf' = calls[1].of /\ commentsOf' = calls[1].of
           ELSE /\ traceOf' = traceOf
                /\ commentsOf' = IF First(gone, "comments") THEN calls[1].of ELSE commentsOf
        /\ First(gone, "add") => Has(new, "comments")
    BY <1>4 DEF TraceMove
  <2>2. ASSUME First(gone, "trace") \/ First(gone, "comments")
        PROVE  calls[1].of = guiCurrent \/ Pending("trace")'
    <3>1. 1 \in 1 .. Len(calls) /\ calls[1].do \in {"trace", "comments"}
      BY <1>0, <2>2 DEF First
    <3>2. calls[1].of = guiCurrent \/ Later(1, "trace")
      BY <3>1 DEF TraceFresh
    <3> QED BY <1>4, <3>2, LaterPends
  <2>3. Pending("trace")' \/ traceOf' = guiCurrent'
    <3>1. CASE First(gone, "trace")
      BY <2>1, <2>2, <3>1
    <3>2. CASE ~First(gone, "trace") /\ Pending("trace")
      BY <3>2, PendingStays
    <3>3. CASE ~First(gone, "trace") /\ traceOf = guiCurrent
      BY <2>1, <3>3
    <3> QED BY <3>1, <3>2, <3>3 DEF TraceFresh
  <2>4. Pending("trace")' \/ Pending("add")' \/ Pending("comments")' \/ commentsOf' = guiCurrent'
    <3>1. CASE First(gone, "trace") \/ First(gone, "comments")
      BY <2>1, <2>2, <3>1
    <3>2. CASE First(gone, "add")
      BY <2>1, <3>2, NewIsLater
    <3>3. CASE ~First(gone, "trace") /\ ~First(gone, "comments") /\ ~First(gone, "add")
      <4>1. Pending("trace") => Pending("trace")'
        BY <3>3, PendingStays
      <4>2. Pending("add") => Pending("add")'
        BY <3>3, PendingStays
      <4>3. Pending("comments") => Pending("comments")'
        BY <3>3, PendingStays
      <4>4. commentsOf' = commentsOf /\ guiCurrent' = guiCurrent
        BY <2>1, <3>3
      <4> QED BY <4>1, <4>2, <4>3, <4>4 DEF TraceFresh
    <3> QED BY <3>1, <3>2, <3>3
  <2> QED BY <1>1, <2>3, <2>4 DEF TraceFresh
<1> QED BY <1>0, <1>2, <1>3, <1>4

\* Cases of another run are on their way out.
LEMMA CasesStep ==
  ASSUME NEW gone, NEW new, Moved(gone, new), CasesFresh, CasesMove(gone, new),
         GuiAssumption, \A k \in 1 .. Len(calls) : calls[k].do = "cases" => calls[k].of \in GuiRuns
  PROVE  CasesFresh'
<1>0. gone \in {0, 1} /\ gone <= Len(calls) /\ Len(calls) \in Nat
  BY DEF Moved
<1>1. ASSUME NEW k \in 1 .. Len(calls'), calls'[k].do = "cases"
      PROVE  calls'[k].of = picked' \/ Later(k, "runs")'
  <2>1. CASE k \in 1 .. Len(calls) - gone /\ k + gone \in 1 .. Len(calls) /\ calls'[k] = calls[k + gone]
    <3>1. /\ calls[k + gone].of = picked \/ Later(k + gone, "runs")
          /\ calls[k + gone].of # Unset
      BY <1>1, <2>1 DEF CasesFresh, GuiAssumption
    <3>2. CASE Later(k + gone, "runs")
      BY <2>1, <3>2, LaterStays
    <3>3. CASE Has(new, "runs")
      BY <2>1, <3>3, NewIsLater
    <3>4. CASE calls[k + gone].of = picked /\ ~Has(new, "runs")
      BY <2>1, <3>1, <3>4 DEF CasesMove
    <3> QED BY <3>1, <3>2, <3>3, <3>4
  <2>2. CASE \E m \in 1 .. Len(new) : calls'[k] = new[m]
    BY <1>1, <2>2 DEF CasesMove
  <2> QED BY <2>1, <2>2, OldOrNew
<1>2. Pending("runs")' \/ evalRun' = picked'
  <2>1. CASE First(gone, "runs")
    BY <2>1 DEF CasesMove
  <2>2. CASE Has(new, "runs")
    BY <2>2, NewIsLater
  <2>3. CASE ~First(gone, "runs") /\ ~Has(new, "runs")
    <3>1. evalRun' = evalRun /\ picked' = picked
      BY <2>3 DEF CasesMove
    <3>2. Pending("runs") => Pending("runs")'
      BY <2>3, PendingStays
    <3> QED BY <3>1, <3>2 DEF CasesFresh
  <2> QED BY <2>1, <2>2, <2>3
<1>3. Pending("runs")' \/ Pending("cases")' \/ casesOf' = picked'
  <2>1. CASE Has(new, "runs")
    BY <2>1, NewIsLater
  <2>2. CASE First(gone, "runs")
    BY <2>2, NewIsLater DEF CasesMove
  <2>3. CASE ~Has(new, "runs") /\ ~First(gone, "runs") /\ First(gone, "cases")
    <3>1. 1 \in 1 .. Len(calls) /\ calls[1].do = "cases" /\ gone = 1
      BY <1>0, <2>3 DEF First
    <3>2. calls[1].of = picked \/ Later(1, "runs")
      BY <3>1 DEF CasesFresh
    <3>3. casesOf' = calls[1].of /\ picked' = picked
      BY <2>3 DEF CasesMove
    <3> QED BY <3>1, <3>2, <3>3, LaterPends
  <2>4. CASE ~Has(new, "runs") /\ ~First(gone, "runs") /\ ~First(gone, "cases")
    <3>1. Pending("runs") => Pending("runs")'
      BY <2>4, PendingStays
    <3>2. Pending("cases") => Pending("cases")'
      BY <2>4, PendingStays
    <3>3. casesOf' = casesOf /\ picked' = picked
      BY <2>4 DEF CasesMove
    <3> QED BY <3>1, <3>2, <3>3 DEF CasesFresh
  <2> QED BY <2>1, <2>2, <2>3, <2>4
<1> QED BY <1>1, <1>2, <1>3 DEF CasesFresh

\* A comparison of another pair is on its way out.
LEMMA CompareStep ==
  ASSUME NEW gone, NEW new, Moved(gone, new), CasesFresh, CompareFresh, CompareMove(gone, new)
  PROVE  CompareFresh'
<1>0. gone \in {0, 1} /\ gone <= Len(calls) /\ Len(calls) \in Nat
  BY DEF Moved
<1>a. ASSUME First(gone, "cases")
      PROVE  1 \in 1 .. Len(calls) /\ gone = 1 /\ (calls[1].of = picked \/ Later(1, "runs"))
  BY <1>0, <1>a DEF First, CasesFresh
<1>1. ASSUME NEW k \in 1 .. Len(calls'), calls'[k].do = "compare"
      PROVE  \/ calls'[k].of = picked' /\ calls'[k].base = baseline' /\ baseline' \notin {Unset, picked'}
             \/ Pending("runs")' \/ Later(k, "cases")'
  <2>1. CASE k \in 1 .. Len(calls) - gone /\ k + gone \in 1 .. Len(calls) /\ calls'[k] = calls[k + gone]
    <3>1. \/ calls[k + gone].of = picked /\ calls[k + gone].base = baseline /\ baseline \notin {Unset, picked}
          \/ Pending("runs") \/ Later(k + gone, "cases")
      BY <1>1, <2>1 DEF CompareFresh
    <3>2. CASE Has(new, "runs")
      BY <3>2, NewIsLater
    <3>3. CASE First(gone, "runs")
      BY <2>1, <3>3, NewIsLater DEF CompareMove
    <3>4. CASE Later(k + gone, "cases")
      BY <2>1, <3>4, LaterStays
    <3>5. CASE Pending("runs") /\ ~First(gone, "runs")
      BY <3>5, PendingStays
    <3>6. CASE /\ ~Has(new, "runs") /\ ~First(gone, "runs")
               /\ calls[k + gone].of = picked /\ calls[k + gone].base = baseline /\ baseline \notin {Unset, picked}
      BY <2>1, <3>6 DEF CompareMove
    <3> QED BY <3>1, <3>2, <3>3, <3>4, <3>5, <3>6
  <2>2. CASE \E m \in 1 .. Len(new) : calls'[k] = new[m]
    <3>1. /\ First(gone, "cases") /\ calls'[k].of = calls[1].of /\ calls'[k].base = baseline
          /\ baseline \notin {Unset, calls[1].of}
      BY <1>1, <2>2 DEF CompareMove
    <3>2. CASE Has(new, "runs")
      BY <3>2, NewIsLater
    <3>3. CASE Later(1, "runs")
      BY <1>a, <3>1, <3>3, LaterPends
    <3>4. CASE calls[1].of = picked /\ ~Has(new, "runs")
      <4>1. ~First(gone, "runs")
        BY <3>1 DEF First
      <4>2. picked' = picked /\ baseline' = baseline
        BY <3>4, <4>1 DEF CompareMove
      <4> QED BY <3>1, <3>4, <4>2
    <3> QED BY <1>a, <3>1, <3>2, <3>3, <3>4
  <2> QED BY <2>1, <2>2, OldOrNew
<1>2. Pending("runs")' \/ Pending("cases")' \/ Pending("compare")' \/ compareOf' = Wanted'
  <2>1. CASE Has(new, "runs")
    BY <2>1, NewIsLater
  <2>2. CASE First(gone, "runs")
    BY <2>2, NewIsLater DEF CompareMove
  <2>3. CASE ~Has(new, "runs") /\ ~First(gone, "runs") /\ First(gone, "cases")
    <3>1. CASE Has(new, "compare")
      BY <3>1, NewIsLater
    <3>2. CASE Later(1, "runs")
      BY <1>a, <2>3, <3>2, LaterPends
    <3>3. CASE calls[1].of = picked /\ ~Has(new, "compare")
      BY <2>3, <3>3 DEF CompareMove, Wanted
    <3> QED BY <1>a, <2>3, <3>1, <3>2, <3>3
  <2>4. CASE ~Has(new, "runs") /\ ~First(gone, "runs") /\ First(gone, "compare")
    <3>1. 1 \in 1 .. Len(calls) /\ calls[1].do = "compare" /\ gone = 1
      BY <1>0, <2>4 DEF First
    <3>2. \/ calls[1].of = picked /\ calls[1].base = baseline /\ baseline \notin {Unset, picked}
          \/ Pending("runs") \/ Later(1, "cases")
      BY <3>1 DEF CompareFresh
    <3>3. compareOf' = <<calls[1].of, calls[1].base>> /\ picked' = picked /\ baseline' = baseline
      BY <2>4 DEF CompareMove
    <3>4. CASE calls[1].of = picked /\ calls[1].base = baseline /\ baseline \notin {Unset, picked}
      BY <3>3, <3>4 DEF Wanted
    <3>5. CASE Pending("runs")
      BY <2>4, <3>5, PendingStays
    <3>6. CASE Later(1, "cases")
      BY <3>1, <3>6, LaterPends
    <3> QED BY <3>2, <3>4, <3>5, <3>6
  <2>5. CASE /\ ~Has(new, "runs") /\ ~First(gone, "runs") /\ ~First(gone, "cases") /\ ~First(gone, "compare")
    <3>1. Pending("runs") => Pending("runs")'
      BY <2>5, PendingStays
    <3>2. Pending("cases") => Pending("cases")'
      BY <2>5, PendingStays
    <3>3. Pending("compare") => Pending("compare")'
      BY <2>5, PendingStays
    <3>4. compareOf' = compareOf /\ picked' = picked /\ baseline' = baseline
      BY <2>5 DEF CompareMove
    <3> QED BY <3>1, <3>2, <3>3, <3>4 DEF CompareFresh, Wanted
  <2> QED BY <2>1, <2>2, <2>3, <2>4, <2>5
<1> QED BY <1>1, <1>2 DEF CompareFresh

\* Rows of another query are on their way out.
LEMMA RowsStep ==
  ASSUME NEW gone, NEW new, Moved(gone, new), RowsFresh, RowsMove(gone, new)
  PROVE  RowsFresh'
<1>0. gone \in {0, 1} /\ gone <= Len(calls) /\ Len(calls) \in Nat
  BY DEF Moved
<1>1. ASSUME NEW k \in 1 .. Len(calls'), calls'[k].do = "sql"
      PROVE  calls'[k].of = ran' \/ Later(k, "sql")'
  <2>1. CASE k \in 1 .. Len(calls) - gone /\ k + gone \in 1 .. Len(calls) /\ calls'[k] = calls[k + gone]
    <3>1. calls[k + gone].of = ran \/ Later(k + gone, "sql")
      BY <1>1, <2>1 DEF RowsFresh
    <3>2. CASE Later(k + gone, "sql")
      BY <2>1, <3>2, LaterStays
    <3>3. CASE Has(new, "sql")
      BY <2>1, <3>3, NewIsLater
    <3>4. CASE calls[k + gone].of = ran /\ ~Has(new, "sql")
      BY <2>1, <3>4 DEF RowsMove
    <3> QED BY <3>1, <3>2, <3>3, <3>4
  <2>2. CASE \E m \in 1 .. Len(new) : calls'[k] = new[m]
    BY <1>1, <2>2 DEF RowsMove
  <2> QED BY <2>1, <2>2, OldOrNew
<1>2. Pending("sql")' \/ answerTo' = ran'
  <2>1. CASE Has(new, "sql")
    BY <2>1, NewIsLater
  <2>2. CASE ~Has(new, "sql") /\ First(gone, "sql")
    <3>1. 1 \in 1 .. Len(calls) /\ calls[1].do = "sql" /\ gone = 1
      BY <1>0, <2>2 DEF First
    <3>2. calls[1].of = ran \/ Later(1, "sql")
      BY <3>1 DEF RowsFresh
    <3>3. answerTo' = calls[1].of /\ ran' = ran
      BY <2>2 DEF RowsMove
    <3> QED BY <3>1, <3>2, <3>3, LaterPends
  <2>3. CASE ~Has(new, "sql") /\ ~First(gone, "sql")
    <3>1. Pending("sql") => Pending("sql")'
      BY <2>3, PendingStays
    <3>2. answerTo' = answerTo /\ ran' = ran
      BY <2>3 DEF RowsMove
    <3> QED BY <3>1, <3>2 DEF RowsFresh
  <2> QED BY <2>1, <2>2, <2>3
<1> QED BY <1>1, <1>2 DEF RowsFresh
-----------------------------------------------------------------------------
(* The desktop GUI: all parts together.                                    *)

GuiMove(gone, new) ==
  /\ SpansMove(gone, new) /\ TraceMove(gone, new) /\ CasesMove(gone, new)
  /\ CompareMove(gone, new) /\ RowsMove(gone, new)

\* A step that opens no trace and adds no request for one.
OneTraceMove(new) ==
  /\ ~Has(new, "trace") /\ crossed' = crossed /\ guiCurrent' = guiCurrent
  /\ \/ traceOf' = traceOf
     \/ \E k \in 1 .. Len(calls) : calls[k].do = "trace" /\ traceOf' = calls[k].of
  /\ guiSent' \subseteq guiSent \cup {[trace |-> guiCurrent, spanOf |-> traceOf]}

\* It leaves one trace on the screen.
LEMMA OneTraceStays ==
  ASSUME NEW new, OneTrace, Recalls(new), OneTraceMove(new)
  PROVE  OneTrace'
<1>1. CASE crossed
  BY <1>1 DEF OneTraceMove, OneTrace, CommentsFit
<1>2. CASE ~crossed
  <2>1. /\ traceOf \in {Unset, guiCurrent} /\ \A c \in guiSent : c.spanOf \in {Unset, c.trace}
        /\ \A j \in 1 .. Len(calls) : calls[j].do = "trace" => calls[j].of = guiCurrent
    BY <1>2 DEF OneTrace, CommentsFit
  <2>2. /\ ~Has(new, "trace") /\ crossed' = crossed /\ guiCurrent' = guiCurrent
        /\ traceOf' \in {traceOf, guiCurrent}
        /\ guiSent' \subseteq guiSent \cup {[trace |-> guiCurrent, spanOf |-> traceOf]}
    BY <2>1 DEF OneTraceMove
  <2>3. CommentsFit'
    <3>1. ASSUME NEW c \in guiSent'
          PROVE  c.spanOf \in {Unset, c.trace}
      <4>1. CASE c \in guiSent
        BY <2>1, <4>1
      <4>2. CASE c = [trace |-> guiCurrent, spanOf |-> traceOf]
        BY <2>1, <4>2
      <4> QED BY <2>2, <4>1, <4>2
    <3> QED BY <3>1 DEF CommentsFit
  <2>4. ASSUME NEW k \in 1 .. Len(calls'), calls'[k].do = "trace"
        PROVE  calls'[k].of = guiCurrent'
    <3>1. CASE \E j \in 1 .. Len(calls) : calls'[k].do = calls[j].do /\ calls'[k].of = calls[j].of
      BY <2>1, <2>2, <2>4, <3>1
    <3>2. CASE \E j \in 1 .. Len(new) : calls'[k] = new[j]
      BY <2>2, <2>4, <3>2 DEF Has
    <3> QED BY <3>1, <3>2 DEF Recalls
  <2> QED BY <2>1, <2>2, <2>3, <2>4 DEF OneTrace
<1> QED BY <1>1, <1>2

\* And everything else in order.
LEMMA FreshStays ==
  ASSUME GuiAssumption, NEW gone, NEW new, GuiShapes, Fresh, Moved(gone, new), GuiMove(gone, new)
  PROVE  Fresh'
<1>1. \A k \in 1 .. Len(calls) : calls[k].do = "cases" => calls[k].of \in GuiRuns
  <2>1. \A k \in 1 .. Len(calls) : calls[k] \in GuiCalls
    BY ElementOfSeq DEF GuiShapes
  <2> QED BY <2>1 DEF GuiCalls
<1>2. SpansFresh'
  BY SpansStep DEF Fresh, GuiMove
<1>3. TraceFresh'
  BY TraceStep DEF Fresh, GuiMove
<1>4. CasesFresh'
  BY <1>1, CasesStep DEF Fresh, GuiMove
<1>5. CompareFresh'
  BY CompareStep DEF Fresh, GuiMove
<1>6. RowsFresh'
  BY RowsStep DEF Fresh, GuiMove
<1> QED BY <1>2, <1>3, <1>4, <1>5, <1>6 DEF Fresh

\* New calls.
LEMMA Asked ==
  ASSUME GuiShapes, NEW new \in Seq(GuiCalls), calls' = calls \o new
  PROVE  calls' \in Seq(GuiCalls) /\ Moved(0, new) /\ Recalls(new)
<1>1. calls \in Seq(GuiCalls) /\ Len(calls) \in Nat /\ Len(new) \in Nat
  BY LenProperties DEF GuiShapes
<1>2. calls' \in Seq(GuiCalls) /\ Shifted(0, new) /\ Recalls(new)
  BY <1>1, CallsGrow
<1> QED BY <1>1, <1>2 DEF Moved

\* The same calls.
LEMMA NothingAsked ==
  ASSUME GuiShapes, calls' = calls
  PROVE  calls' \in Seq(GuiCalls) /\ Moved(0, <<>>) /\ Recalls(<<>>)
<1>1. calls \in Seq(GuiCalls) /\ Len(calls) \in Nat
  BY LenProperties DEF GuiShapes
<1> QED BY <1>1 DEF Moved, Shifted, Recalls

\* A call is answered.
LEMMA OneAnswered ==
  ASSUME GuiShapes, NEW i \in 1 .. Len(calls), NEW new \in Seq(GuiCalls), calls' = Without(i) \o new
  PROVE  calls' \in Seq(GuiCalls) /\ (i = 1 => Moved(1, new)) /\ Recalls(new)
<1>1. calls \in Seq(GuiCalls) /\ Len(calls) \in Nat /\ Len(new) \in Nat
  BY LenProperties DEF GuiShapes
<1>2. calls' \in Seq(GuiCalls) /\ (i = 1 => Shifted(1, new)) /\ Recalls(new)
  BY <1>1, CallsShift
<1> QED BY <1>1, <1>2 DEF Moved

\* Its handler ends, or goes on.
LEMMA OneEnds ==
  ASSUME GuiShapes, NEW i \in 1 .. Len(calls), Ends(i)
  PROVE  calls' \in Seq(GuiCalls) /\ (i = 1 => Moved(1, <<>>)) /\ Recalls(<<>>)
<1>1. Without(i) \in Seq(GuiCalls) /\ <<>> \in Seq(GuiCalls)
  BY WithoutOne DEF GuiShapes
<1>2. calls' = Without(i) \o <<>>
  BY <1>1, ConcatEmptySeq DEF Ends
<1> QED BY <1>1, <1>2, OneAnswered

LEMMA OneGoesOn ==
  ASSUME GuiShapes, NEW i \in 1 .. Len(calls), NEW c \in GuiCalls, GoesOn(i, c)
  PROVE  calls' \in Seq(GuiCalls) /\ (i = 1 => Moved(1, <<c>>)) /\ Recalls(<<c>>)
<1>1. Without(i) \in Seq(GuiCalls) /\ <<c>> \in Seq(GuiCalls)
  BY WithoutOne DEF GuiShapes
<1>2. calls' = Without(i) \o <<c>>
  BY <1>1, AppendIsConcat DEF GoesOn
<1> QED BY <1>1, <1>2, OneAnswered

\* What is new, when one or two are or none is.
LEMMA NewOnes ==
  /\ Len(<<>>) = 0 /\ \A kind : ~Has(<<>>, kind)
  /\ \A c : /\ \A m \in 1 .. Len(<<c>>) : <<c>>[m] = c
            /\ \A kind : Has(<<c>>, kind) <=> c.do = kind
  /\ \A c, d : /\ \A m \in 1 .. Len(<<c, d>>) : <<c, d>>[m] = c \/ <<c, d>>[m] = d
               /\ \A kind : Has(<<c, d>>, kind) <=> (c.do = kind \/ d.do = kind)
<1>1. Len(<<>>) = 0 /\ \A kind : ~Has(<<>>, kind)
  BY DEF Has
<1>2. ASSUME NEW c
      PROVE  /\ \A m \in 1 .. Len(<<c>>) : <<c>>[m] = c
             /\ \A kind : Has(<<c>>, kind) <=> c.do = kind
  <2>1. Len(<<c>>) = 1 /\ <<c>>[1] = c
    OBVIOUS
  <2> QED BY <2>1 DEF Has
<1>3. ASSUME NEW c, NEW d
      PROVE  /\ \A m \in 1 .. Len(<<c, d>>) : <<c, d>>[m] = c \/ <<c, d>>[m] = d
             /\ \A kind : Has(<<c, d>>, kind) <=> (c.do = kind \/ d.do = kind)
  <2>1. Len(<<c, d>>) = 2 /\ <<c, d>>[1] = c /\ <<c, d>>[2] = d
    OBVIOUS
  <2> QED BY <2>1 DEF Has
<1> QED BY <1>1, <1>2, <1>3

-----------------------------------------------------------------------------
(* The desktop GUI: one lemma for each step.                               *)

\* What the lemmas have in common.
LEMMA GuiKept ==
  ASSUME GuiAssumption, GuiInv, NEW gone, NEW new,
         calls' \in Seq(GuiCalls), GuiFields', StreamsOK', Recalls(new), OneTraceMove(new),
         InOrder' => InOrder /\ Moved(gone, new) /\ GuiMove(gone, new)
  PROVE  GuiInv'
<1>1. GuiShapes' /\ OneTrace'
  BY OneTraceStays DEF GuiShapes, GuiInv
<1>2. ASSUME InOrder'
      PROVE  Fresh'
  BY <1>2, FreshStays DEF GuiInv
<1> QED BY <1>1, <1>2 DEF GuiInv

\* An answer in order is that of the first call.
LEMMA InOrderBefore ==
  ASSUME GuiInv, NEW i, InAnyOrder(i), failures' = failures, InOrder'
  PROVE  InOrder /\ i = 1
BY DEF InOrder, InAnyOrder, GuiInv, GuiShapes, GuiFields

\* A connect takes an id of its own, and asks for spans of its filter later.
LEMMA GuiConnectKeeps ==
  ASSUME GuiAssumption, GuiInv, NEW f \in Filters, GuiConnect(f)
  PROVE  GuiInv'
<1> DEFINE c == Call("healthz", Unset, stream')
<1>0. GuiShapes /\ GuiFields /\ StreamsOK
  BY DEF GuiInv, GuiShapes
<1>1. /\ calls' = calls \o <<c>>
      /\ guiFilter' = f /\ stream' = stream + 1
      /\ UNCHANGED <<shown, streams, guiPaused, guiCurrent, traceOf, commentsOf, picked, evalRun, casesOf, baseline, compareOf, query, ran, answerTo, panelFailed, guiSent, overtaken, crossed, failures>>
  BY DEF GuiConnect, Click, Ask, connecting, guiDetail, guiEvals, sqlPanel, bounds
<1>2. c \in GuiCalls /\ c.do = "healthz"
  BY <1>0, <1>1 DEF Call, GuiCalls, Kinds, GuiFields, StreamsOK, Whatever, GuiAssumption
<1> HIDE DEF c
<1>4. <<c>> \in Seq(GuiCalls)
  BY <1>2
<1>5. calls' \in Seq(GuiCalls) /\ Moved(0, <<c>>) /\ Recalls(<<c>>)
  BY <1>0, <1>1, <1>4, Asked
<1>6. GuiFields' /\ StreamsOK'
  BY <1>0, <1>1 DEF GuiFields, StreamsOK
<1>7. OneTraceMove(<<c>>)
  BY <1>2, <1>1, NewOnes DEF OneTraceMove
<1>8. InOrder' => InOrder
  BY <1>1 DEF InOrder
<1>9. GuiMove(0, <<c>>)
  <2>1. SpansMove(0, <<c>>)
    BY <1>2, <1>0, <1>1, NewOnes DEF SpansMove, First, GuiFields
  <2>2. TraceMove(0, <<c>>)
    BY <1>2, <1>0, <1>1, NewOnes DEF TraceMove, First, GuiFields
  <2>3. CasesMove(0, <<c>>)
    BY <1>2, <1>0, <1>1, NewOnes DEF CasesMove, First, GuiFields
  <2>4. CompareMove(0, <<c>>)
    BY <1>2, <1>0, <1>1, NewOnes DEF CompareMove, First, GuiFields
  <2>5. RowsMove(0, <<c>>)
    BY <1>2, <1>0, <1>1, NewOnes DEF RowsMove, First, GuiFields
  <2> QED BY <2>1, <2>2, <2>3, <2>4, <2>5 DEF GuiMove
<1> QED BY <1>5, <1>6, <1>7, <1>8, <1>9, GuiKept

\* A refresh asks for what the filter is.
LEMMA RefreshKeeps ==
  ASSUME GuiAssumption, GuiInv, RefreshLists
  PROVE  GuiInv'
<1> DEFINE c == Call("spans", guiFilter, 0)
           d == Call("runs", Unset, 0)
<1>0. GuiShapes /\ GuiFields /\ StreamsOK
  BY DEF GuiInv, GuiShapes
<1>1. /\ calls' = calls \o <<c, d>>
      /\ UNCHANGED <<guiFilter, shown, stream, streams, connection, guiPaused, guiCurrent, traceOf, commentsOf, picked, evalRun, casesOf, baseline, compareOf, query, ran, answerTo, panelFailed, guiSent, overtaken, crossed, failures>>
  BY DEF RefreshLists, Click, Ask, connecting, guiDetail, guiEvals, sqlPanel, bounds
<1>2. c \in GuiCalls /\ c.do = "spans" /\ c.of = guiFilter
  BY <1>0, <1>1 DEF Call, GuiCalls, Kinds, GuiFields, StreamsOK, Whatever, GuiAssumption
<1>3. d \in GuiCalls /\ d.do = "runs"
  BY <1>0, <1>1 DEF Call, GuiCalls, Kinds, GuiFields, StreamsOK, Whatever, GuiAssumption
<1> HIDE DEF c, d
<1>4. <<c, d>> \in Seq(GuiCalls)
  BY <1>2, <1>3
<1>5. calls' \in Seq(GuiCalls) /\ Moved(0, <<c, d>>) /\ Recalls(<<c, d>>)
  BY <1>0, <1>1, <1>4, Asked
<1>6. GuiFields' /\ StreamsOK'
  BY <1>0, <1>1 DEF GuiFields, StreamsOK
<1>7. OneTraceMove(<<c, d>>)
  BY <1>2, <1>3, <1>1, NewOnes DEF OneTraceMove
<1>8. InOrder' => InOrder
  BY <1>1 DEF InOrder
<1>9. GuiMove(0, <<c, d>>)
  <2>1. SpansMove(0, <<c, d>>)
    BY <1>2, <1>3, <1>0, <1>1, NewOnes DEF SpansMove, First, GuiFields
  <2>2. TraceMove(0, <<c, d>>)
    BY <1>2, <1>3, <1>0, <1>1, NewOnes DEF TraceMove, First, GuiFields
  <2>3. CasesMove(0, <<c, d>>)
    BY <1>2, <1>3, <1>0, <1>1, NewOnes DEF CasesMove, First, GuiFields
  <2>4. CompareMove(0, <<c, d>>)
    BY <1>2, <1>3, <1>0, <1>1, NewOnes DEF CompareMove, First, GuiFields
  <2>5. RowsMove(0, <<c, d>>)
    BY <1>2, <1>3, <1>0, <1>1, NewOnes DEF RowsMove, First, GuiFields
  <2> QED BY <2>1, <2>2, <2>3, <2>4, <2>5 DEF GuiMove
<1> QED BY <1>5, <1>6, <1>7, <1>8, <1>9, GuiKept

\* A pause asks for nothing.
LEMMA PauseKeeps ==
  ASSUME GuiAssumption, GuiInv, Pause
  PROVE  GuiInv'
<1>0. GuiShapes /\ GuiFields /\ StreamsOK
  BY DEF GuiInv, GuiShapes
<1>1. /\ calls' = calls
      /\ UNCHANGED <<guiFilter, shown, stream, streams, connection, guiCurrent, traceOf, commentsOf, picked, evalRun, casesOf, baseline, compareOf, query, ran, answerTo, panelFailed, guiSent, overtaken, crossed, failures>>
  BY DEF Pause, Click, connecting, guiDetail, guiEvals, sqlPanel, bounds
<1>5. calls' \in Seq(GuiCalls) /\ Moved(0, <<>>) /\ Recalls(<<>>)
  BY <1>0, <1>1, NothingAsked
<1>6. GuiFields' /\ StreamsOK'
  BY <1>0, <1>1 DEF GuiFields, StreamsOK
<1>7. OneTraceMove(<<>>)
  BY <1>1, NewOnes DEF OneTraceMove
<1>8. InOrder' => InOrder
  BY <1>1 DEF InOrder
<1>9. GuiMove(0, <<>>)
  <2>1. SpansMove(0, <<>>)
    BY <1>0, <1>1, NewOnes DEF SpansMove, First, GuiFields
  <2>2. TraceMove(0, <<>>)
    BY <1>0, <1>1, NewOnes DEF TraceMove, First, GuiFields
  <2>3. CasesMove(0, <<>>)
    BY <1>0, <1>1, NewOnes DEF CasesMove, First, GuiFields
  <2>4. CompareMove(0, <<>>)
    BY <1>0, <1>1, NewOnes DEF CompareMove, First, GuiFields
  <2>5. RowsMove(0, <<>>)
    BY <1>0, <1>1, NewOnes DEF RowsMove, First, GuiFields
  <2> QED BY <2>1, <2>2, <2>3, <2>4, <2>5 DEF GuiMove
<1> QED BY <1>5, <1>6, <1>7, <1>8, <1>9, GuiKept

\* A comment has a span of the waterfall there is.
LEMMA SubmitKeeps ==
  ASSUME GuiAssumption, GuiInv, GuiSubmitComment
  PROVE  GuiInv'
<1> DEFINE c == Call("add", guiCurrent, 0)
<1>0. GuiShapes /\ GuiFields /\ StreamsOK
  BY DEF GuiInv, GuiShapes
<1>1. /\ calls' = calls \o <<c>>
      /\ guiSent' = guiSent \cup {[trace |-> guiCurrent, spanOf |-> traceOf]}
      /\ UNCHANGED <<guiFilter, shown, stream, streams, connection, guiPaused, guiCurrent, traceOf, commentsOf, picked, evalRun, casesOf, baseline, compareOf, query, ran, answerTo, panelFailed, overtaken, crossed, failures>>
  BY DEF GuiSubmitComment, Click, Ask, connecting, guiDetail, guiEvals, sqlPanel, bounds
<1>2. c \in GuiCalls /\ c.do = "add"
  BY <1>0, <1>1 DEF Call, GuiCalls, Kinds, GuiFields, StreamsOK, Whatever, GuiAssumption
<1> HIDE DEF c
<1>4. <<c>> \in Seq(GuiCalls)
  BY <1>2
<1>5. calls' \in Seq(GuiCalls) /\ Moved(0, <<c>>) /\ Recalls(<<c>>)
  BY <1>0, <1>1, <1>4, Asked
<1>6. GuiFields' /\ StreamsOK'
  BY <1>0, <1>1 DEF GuiFields, StreamsOK
<1>7. OneTraceMove(<<c>>)
  BY <1>2, <1>1, NewOnes DEF OneTraceMove
<1>8. InOrder' => InOrder
  BY <1>1 DEF InOrder
<1>9. GuiMove(0, <<c>>)
  <2>1. SpansMove(0, <<c>>)
    BY <1>2, <1>0, <1>1, NewOnes DEF SpansMove, First, GuiFields
  <2>2. TraceMove(0, <<c>>)
    BY <1>2, <1>0, <1>1, NewOnes DEF TraceMove, First, GuiFields
  <2>3. CasesMove(0, <<c>>)
    BY <1>2, <1>0, <1>1, NewOnes DEF CasesMove, First, GuiFields
  <2>4. CompareMove(0, <<c>>)
    BY <1>2, <1>0, <1>1, NewOnes DEF CompareMove, First, GuiFields
  <2>5. RowsMove(0, <<c>>)
    BY <1>2, <1>0, <1>1, NewOnes DEF RowsMove, First, GuiFields
  <2> QED BY <2>1, <2>2, <2>3, <2>4, <2>5 DEF GuiMove
<1> QED BY <1>5, <1>6, <1>7, <1>8, <1>9, GuiKept

\* Another run, or another baseline, is asked for again.
LEMMA PickKeeps ==
  ASSUME GuiAssumption, GuiInv, NEW r \in GuiRuns, NEW base \in GuiRuns \cup {Unset}, PickRun(r, base)
  PROVE  GuiInv'
<1> DEFINE c == Call("runs", Unset, 0)
<1>0. GuiShapes /\ GuiFields /\ StreamsOK
  BY DEF GuiInv, GuiShapes
<1>1. /\ calls' = calls \o <<c>>
      /\ picked' = r /\ baseline' = base
      /\ UNCHANGED <<guiFilter, shown, stream, streams, connection, guiPaused, guiCurrent, traceOf, commentsOf, evalRun, casesOf, compareOf, query, ran, answerTo, panelFailed, guiSent, overtaken, crossed, failures>>
  BY DEF PickRun, Click, Ask, connecting, guiDetail, guiEvals, sqlPanel, bounds
<1>2. c \in GuiCalls /\ c.do = "runs"
  BY <1>0, <1>1 DEF Call, GuiCalls, Kinds, GuiFields, StreamsOK, Whatever, GuiAssumption
<1> HIDE DEF c
<1>4. <<c>> \in Seq(GuiCalls)
  BY <1>2
<1>5. calls' \in Seq(GuiCalls) /\ Moved(0, <<c>>) /\ Recalls(<<c>>)
  BY <1>0, <1>1, <1>4, Asked
<1>6. GuiFields' /\ StreamsOK'
  BY <1>0, <1>1 DEF GuiFields, StreamsOK
<1>7. OneTraceMove(<<c>>)
  BY <1>2, <1>1, NewOnes DEF OneTraceMove
<1>8. InOrder' => InOrder
  BY <1>1 DEF InOrder
<1>9. GuiMove(0, <<c>>)
  <2>1. SpansMove(0, <<c>>)
    BY <1>2, <1>0, <1>1, NewOnes DEF SpansMove, First, GuiFields
  <2>2. TraceMove(0, <<c>>)
    BY <1>2, <1>0, <1>1, NewOnes DEF TraceMove, First, GuiFields
  <2>3. CasesMove(0, <<c>>)
    BY <1>2, <1>0, <1>1, NewOnes DEF CasesMove, First, GuiFields
  <2>4. CompareMove(0, <<c>>)
    BY <1>2, <1>0, <1>1, NewOnes DEF CompareMove, First, GuiFields
  <2>5. RowsMove(0, <<c>>)
    BY <1>2, <1>0, <1>1, NewOnes DEF RowsMove, First, GuiFields
  <2> QED BY <2>1, <2>2, <2>3, <2>4, <2>5 DEF GuiMove
<1> QED BY <1>5, <1>6, <1>7, <1>8, <1>9, GuiKept

\* Typing asks for nothing.
LEMMA TypeKeeps ==
  ASSUME GuiAssumption, GuiInv, NEW q \in Queries \cup {Unset}, TypeQuery(q)
  PROVE  GuiInv'
<1>0. GuiShapes /\ GuiFields /\ StreamsOK
  BY DEF GuiInv, GuiShapes
<1>1. /\ calls' = calls
      /\ query' \in Queries \cup {Unset}
      /\ UNCHANGED <<guiFilter, shown, stream, streams, connection, guiPaused, guiCurrent, traceOf, commentsOf, picked, evalRun, casesOf, baseline, compareOf, ran, answerTo, panelFailed, guiSent, overtaken, crossed, failures>>
  BY DEF TypeQuery, Click, connecting, guiDetail, guiEvals, sqlPanel, bounds
<1>5. calls' \in Seq(GuiCalls) /\ Moved(0, <<>>) /\ Recalls(<<>>)
  BY <1>0, <1>1, NothingAsked
<1>6. GuiFields' /\ StreamsOK'
  BY <1>0, <1>1 DEF GuiFields, StreamsOK
<1>7. OneTraceMove(<<>>)
  BY <1>1, NewOnes DEF OneTraceMove
<1>8. InOrder' => InOrder
  BY <1>1 DEF InOrder
<1>9. GuiMove(0, <<>>)
  <2>1. SpansMove(0, <<>>)
    BY <1>0, <1>1, NewOnes DEF SpansMove, First, GuiFields
  <2>2. TraceMove(0, <<>>)
    BY <1>0, <1>1, NewOnes DEF TraceMove, First, GuiFields
  <2>3. CasesMove(0, <<>>)
    BY <1>0, <1>1, NewOnes DEF CasesMove, First, GuiFields
  <2>4. CompareMove(0, <<>>)
    BY <1>0, <1>1, NewOnes DEF CompareMove, First, GuiFields
  <2>5. RowsMove(0, <<>>)
    BY <1>0, <1>1, NewOnes DEF RowsMove, First, GuiFields
  <2> QED BY <2>1, <2>2, <2>3, <2>4, <2>5 DEF GuiMove
<1> QED BY <1>5, <1>6, <1>7, <1>8, <1>9, GuiKept

\* The query is run.
LEMMA QueryKeeps ==
  ASSUME GuiAssumption, GuiInv, RunQuery
  PROVE  GuiInv'
<1> DEFINE c == Call("sql", query, 0)
<1>0. GuiShapes /\ GuiFields /\ StreamsOK
  BY DEF GuiInv, GuiShapes
<1>1. /\ calls' = calls \o <<c>>
      /\ query \in Queries /\ ran' = query
      /\ UNCHANGED <<guiFilter, shown, stream, streams, connection, guiPaused, guiCurrent, traceOf, commentsOf, picked, evalRun, casesOf, baseline, compareOf, query, answerTo, guiSent, overtaken, crossed, failures>>
  BY <1>0 DEF RunQuery, Click, Ask, connecting, guiDetail, guiEvals, sqlPanel, bounds, GuiFields
<1>2. c \in GuiCalls /\ c.do = "sql" /\ c.of = query
  BY <1>0, <1>1 DEF Call, GuiCalls, Kinds, GuiFields, StreamsOK, Whatever, GuiAssumption
<1> HIDE DEF c
<1>4. <<c>> \in Seq(GuiCalls)
  BY <1>2
<1>5. calls' \in Seq(GuiCalls) /\ Moved(0, <<c>>) /\ Recalls(<<c>>)
  BY <1>0, <1>1, <1>4, Asked
<1>6. GuiFields' /\ StreamsOK'
  BY <1>0, <1>1 DEF GuiFields, StreamsOK
<1>7. OneTraceMove(<<c>>)
  BY <1>2, <1>1, NewOnes DEF OneTraceMove
<1>8. InOrder' => InOrder
  BY <1>1 DEF InOrder
<1>9. GuiMove(0, <<c>>)
  <2>1. SpansMove(0, <<c>>)
    BY <1>2, <1>0, <1>1, NewOnes DEF SpansMove, First, GuiFields
  <2>2. TraceMove(0, <<c>>)
    BY <1>2, <1>0, <1>1, NewOnes DEF TraceMove, First, GuiFields
  <2>3. CasesMove(0, <<c>>)
    BY <1>2, <1>0, <1>1, NewOnes DEF CasesMove, First, GuiFields
  <2>4. CompareMove(0, <<c>>)
    BY <1>2, <1>0, <1>1, NewOnes DEF CompareMove, First, GuiFields
  <2>5. RowsMove(0, <<c>>)
    BY <1>2, <1>0, <1>1, NewOnes DEF RowsMove, First, GuiFields
  <2> QED BY <2>1, <2>2, <2>3, <2>4, <2>5 DEF GuiMove
<1> QED BY <1>5, <1>6, <1>7, <1>8, <1>9, GuiKept

\* The timer asks for the runs.
LEMMA TimerKeeps ==
  ASSUME GuiAssumption, GuiInv, Timer
  PROVE  GuiInv'
<1> DEFINE c == Call("runs", Unset, 0)
<1>0. GuiShapes /\ GuiFields /\ StreamsOK
  BY DEF GuiInv, GuiShapes
<1>1. /\ calls' = calls \o <<c>>
      /\ UNCHANGED <<guiFilter, shown, stream, streams, connection, guiPaused, guiCurrent, traceOf, commentsOf, picked, evalRun, casesOf, baseline, compareOf, query, ran, answerTo, panelFailed, guiSent, overtaken, crossed, failures>>
  BY DEF Timer, Ask, connecting, guiDetail, guiEvals, sqlPanel, bounds
<1>2. c \in GuiCalls /\ c.do = "runs"
  BY <1>0, <1>1 DEF Call, GuiCalls, Kinds, GuiFields, StreamsOK, Whatever, GuiAssumption
<1> HIDE DEF c
<1>4. <<c>> \in Seq(GuiCalls)
  BY <1>2
<1>5. calls' \in Seq(GuiCalls) /\ Moved(0, <<c>>) /\ Recalls(<<c>>)
  BY <1>0, <1>1, <1>4, Asked
<1>6. GuiFields' /\ StreamsOK'
  BY <1>0, <1>1 DEF GuiFields, StreamsOK
<1>7. OneTraceMove(<<c>>)
  BY <1>2, <1>1, NewOnes DEF OneTraceMove
<1>8. InOrder' => InOrder
  BY <1>1 DEF InOrder
<1>9. GuiMove(0, <<c>>)
  <2>1. SpansMove(0, <<c>>)
    BY <1>2, <1>0, <1>1, NewOnes DEF SpansMove, First, GuiFields
  <2>2. TraceMove(0, <<c>>)
    BY <1>2, <1>0, <1>1, NewOnes DEF TraceMove, First, GuiFields
  <2>3. CasesMove(0, <<c>>)
    BY <1>2, <1>0, <1>1, NewOnes DEF CasesMove, First, GuiFields
  <2>4. CompareMove(0, <<c>>)
    BY <1>2, <1>0, <1>1, NewOnes DEF CompareMove, First, GuiFields
  <2>5. RowsMove(0, <<c>>)
    BY <1>2, <1>0, <1>1, NewOnes DEF RowsMove, First, GuiFields
  <2> QED BY <2>1, <2>2, <2>3, <2>4, <2>5 DEF GuiMove
<1> QED BY <1>5, <1>6, <1>7, <1>8, <1>9, GuiKept

\* Opening a trace empties the view, and two cross if another one is loading.
LEMMA OpenKeeps ==
  ASSUME GuiAssumption, GuiInv, NEW t \in Traces, GuiLoadTrace(t)
  PROVE  GuiInv'
<1> DEFINE c == Call("trace", t, 0)
<1>0. GuiShapes /\ GuiFields /\ StreamsOK /\ OneTrace
  BY DEF GuiInv, GuiShapes
<1>1. /\ calls' = calls \o <<c>>
      /\ guiCurrent' = t /\ traceOf' = Unset /\ commentsOf' = Unset
      /\ crossed' = (crossed \/ \E k \in 1 .. Len(calls) : calls[k].do = "trace")
      /\ UNCHANGED <<guiFilter, shown, stream, streams, connection, guiPaused, picked, evalRun, casesOf, baseline, compareOf, query, ran, answerTo, panelFailed, guiSent, overtaken, failures>>
  BY DEF GuiLoadTrace, Click, Ask, connecting, guiEvals, sqlPanel
<1>2. c \in GuiCalls /\ c.do = "trace" /\ c.of = t
  BY <1>0 DEF Call, GuiCalls, Kinds, Whatever
<1> HIDE DEF c
<1>4. <<c>> \in Seq(GuiCalls)
  BY <1>2
<1>5. calls' \in Seq(GuiCalls) /\ Moved(0, <<c>>) /\ Recalls(<<c>>)
  BY <1>0, <1>1, <1>4, Asked
<1>6. GuiFields'
  <2>1. crossed' \in BOOLEAN
    BY <1>1
  <2> QED BY <1>0, <1>1, <2>1 DEF GuiFields
<1>7. StreamsOK'
  BY <1>0, <1>1 DEF StreamsOK
<1>8. OneTrace'
  <2>1. CASE crossed'
    BY <2>1 DEF OneTrace, CommentsFit
  <2>2. CASE ~crossed'
    <3>1. ~crossed /\ \A k \in 1 .. Len(calls) : calls[k].do # "trace"
      BY <1>1, <2>2
    <3>2. CommentsFit'
      BY <1>0, <1>1, <3>1 DEF OneTrace, CommentsFit
    <3>3. ASSUME NEW k \in 1 .. Len(calls'), calls'[k].do = "trace"
          PROVE  calls'[k].of = guiCurrent'
      <4>1. \E j \in 1 .. Len(<<c>>) : calls'[k] = <<c>>[j]
        BY <1>5, <3>1, <3>3 DEF Recalls
      <4> QED BY <1>1, <1>2, <4>1, NewOnes
    <3> QED BY <1>1, <3>2, <3>3 DEF OneTrace
  <2> QED BY <2>1, <2>2
<1>9. InOrder' => InOrder
  BY <1>1 DEF InOrder
<1>10. GuiMove(0, <<c>>)
  <2>1. SpansMove(0, <<c>>)
    BY <1>2, <1>0, <1>1, NewOnes DEF SpansMove, First, GuiFields
  <2>2. TraceMove(0, <<c>>)
    BY <1>2, <1>0, <1>1, NewOnes DEF TraceMove, First, GuiFields
  <2>3. CasesMove(0, <<c>>)
    BY <1>2, <1>0, <1>1, NewOnes DEF CasesMove, First, GuiFields
  <2>4. CompareMove(0, <<c>>)
    BY <1>2, <1>0, <1>1, NewOnes DEF CompareMove, First, GuiFields
  <2>5. RowsMove(0, <<c>>)
    BY <1>2, <1>0, <1>1, NewOnes DEF RowsMove, First, GuiFields
  <2> QED BY <2>1, <2>2, <2>3, <2>4, <2>5 DEF GuiMove
<1>11. InOrder' => Fresh'
  BY <1>0, <1>5, <1>9, <1>10, FreshStays DEF GuiInv
<1> QED BY <1>5, <1>6, <1>7, <1>8, <1>11 DEF GuiInv, GuiShapes

\* A stream is started with the id and the filter of now.
LEMMA JoinsKeeps ==
  ASSUME GuiFields, StreamsOK, NEW i, Joins(i), stream' = stream, guiFilter' = guiFilter
  PROVE  StreamsOK'
<1>1. CASE streams' = streams
  BY <1>1 DEF StreamsOK
<1>2. CASE streams' = Append(streams, [id |-> stream, filter |-> guiFilter])
  <2> DEFINE r == [id |-> stream, filter |-> guiFilter]
  <2>1. streams \in Seq([id : Nat, filter : Filters]) /\ r \in [id : Nat, filter : Filters] /\ stream \in Nat \ {0}
    BY DEF GuiFields, StreamsOK
  <2>2. r.id = stream /\ r.filter = guiFilter
    OBVIOUS
  <2> HIDE DEF r
  <2>3. /\ streams' \in Seq([id : Nat, filter : Filters]) /\ Len(streams') = Len(streams) + 1 /\ Len(streams) \in Nat
        /\ \A k \in 1 .. Len(streams) : streams'[k] = streams[k]
        /\ streams'[Len(streams) + 1] = r
    BY <1>2, <2>1, AppendProperties, LenProperties DEF r
  <2>4. ASSUME NEW k \in 1 .. Len(streams')
        PROVE  streams'[k].id \in 1 .. stream' /\ (streams'[k].id = stream' => streams'[k].filter = guiFilter')
    <3>1. CASE k \in 1 .. Len(streams)
      BY <2>3, <3>1 DEF StreamsOK
    <3>2. CASE k = Len(streams) + 1
      BY <2>1, <2>2, <2>3, <3>2
    <3> QED BY <2>3, <3>1, <3>2
  <2> QED BY <2>1, <2>3, <2>4 DEF StreamsOK
<1> QED BY <1>1, <1>2 DEF Joins

\* A connect goes on to spans of the filter of now.
LEMMA HealthyKeeps ==
  ASSUME GuiAssumption, GuiInv, NEW i \in 1 .. Len(calls), Healthy(i)
  PROVE  GuiInv'
<1> DEFINE c == Call("spans", guiFilter, calls[i].by)
           d == Call("runs", Unset, calls[i].by)
<1>0. /\ GuiShapes /\ GuiFields /\ StreamsOK
      /\ calls[i] \in GuiCalls /\ calls[i].do = "healthz"
  BY ElementOfSeq DEF GuiInv, GuiShapes, Answered, Healthy
<1>1. /\ calls' = Without(i) \o <<c, d>> /\ InAnyOrder(i)
      /\ UNCHANGED <<guiFilter, shown, stream, streams, guiPaused, guiCurrent, traceOf, commentsOf, picked, evalRun, casesOf, baseline, compareOf, query, ran, answerTo, panelFailed, guiSent, crossed, failures>>
  BY DEF Healthy, Answered, Ends, GoesOn, connecting, guiDetail, guiEvals, sqlPanel, bounds
<1>2. c \in GuiCalls /\ c.do = "spans" /\ c.of = guiFilter
  BY <1>0, <1>1 DEF Call, GuiCalls, Kinds, GuiFields, Whatever, GuiAssumption
<1>3. d \in GuiCalls /\ d.do = "runs"
  BY <1>0, <1>1 DEF Call, GuiCalls, Kinds, GuiFields, Whatever, GuiAssumption
<1> HIDE DEF c, d
<1>4. <<c, d>> \in Seq(GuiCalls)
  BY <1>2, <1>3
<1>5. calls' \in Seq(GuiCalls) /\ (i = 1 => Moved(1, <<c, d>>)) /\ Recalls(<<c, d>>)
  BY <1>2, <1>3, <1>0, <1>1, <1>4, OneAnswered
<1>6. GuiFields'
  <2>1. overtaken' \in BOOLEAN
    BY <1>1 DEF InAnyOrder
  <2> QED BY <1>0, <1>1, <2>1 DEF GuiFields, GuiCalls
<1>7. StreamsOK'
  BY <1>0, <1>1 DEF StreamsOK
<1>8. OneTraceMove(<<c, d>>)
  BY <1>2, <1>3, <1>0, <1>1, NewOnes DEF OneTraceMove
<1>9. ASSUME InOrder'
      PROVE  InOrder /\ Moved(1, <<c, d>>) /\ GuiMove(1, <<c, d>>)
  <2>1. InOrder /\ i = 1
    BY <1>1, <1>9, InOrderBefore
  <2>2. SpansMove(1, <<c, d>>)
    BY <1>2, <1>3, <1>0, <1>1, <2>1, NewOnes DEF SpansMove, First, GuiFields
  <2>3. TraceMove(1, <<c, d>>)
    BY <1>2, <1>3, <1>0, <1>1, <2>1, NewOnes DEF TraceMove, First, GuiFields
  <2>4. CasesMove(1, <<c, d>>)
    BY <1>2, <1>3, <1>0, <1>1, <2>1, NewOnes DEF CasesMove, First, GuiFields
  <2>5. CompareMove(1, <<c, d>>)
    BY <1>2, <1>3, <1>0, <1>1, <2>1, NewOnes DEF CompareMove, First, GuiFields
  <2>6. RowsMove(1, <<c, d>>)
    BY <1>2, <1>3, <1>0, <1>1, <2>1, NewOnes DEF RowsMove, First, GuiFields
  <2> QED BY <1>5, <2>1, <2>2, <2>3, <2>4, <2>5, <2>6 DEF GuiMove
<1> QED BY <1>5, <1>6, <1>7, <1>8, <1>9, GuiKept

\* The spans that come are those of the last request.
LEMMA SpansKeep ==
  ASSUME GuiAssumption, GuiInv, NEW i \in 1 .. Len(calls), GetSpans(i)
  PROVE  GuiInv'
<1>0. /\ GuiShapes /\ GuiFields /\ StreamsOK
      /\ calls[i] \in GuiCalls /\ calls[i].do = "spans"
  BY ElementOfSeq DEF GuiInv, GuiShapes, Answered, GetSpans
<1>1. /\ Ends(i) /\ InAnyOrder(i) /\ Joins(i)
      /\ shown' = {calls[i].of}
      /\ UNCHANGED <<guiFilter, stream, guiPaused, guiCurrent, traceOf, commentsOf, picked, evalRun, casesOf, baseline, compareOf, query, ran, answerTo, panelFailed, guiSent, crossed, failures>>
  BY DEF GetSpans, Answered, Ends, GoesOn, connecting, guiDetail, guiEvals, sqlPanel, bounds
<1>5. calls' \in Seq(GuiCalls) /\ (i = 1 => Moved(1, <<>>)) /\ Recalls(<<>>)
  BY <1>0, <1>1, OneEnds
<1>6. GuiFields'
  <2>1. overtaken' \in BOOLEAN
    BY <1>1 DEF InAnyOrder
  <2> QED BY <1>0, <1>1, <2>1 DEF GuiFields, GuiCalls
<1>7. StreamsOK'
  BY <1>0, <1>1, JoinsKeeps DEF StreamsOK
<1>8. OneTraceMove(<<>>)
  BY <1>0, <1>1, NewOnes DEF OneTraceMove
<1>9. ASSUME InOrder'
      PROVE  InOrder /\ Moved(1, <<>>) /\ GuiMove(1, <<>>)
  <2>1. InOrder /\ i = 1
    BY <1>1, <1>9, InOrderBefore
  <2>2. SpansMove(1, <<>>)
    BY <1>0, <1>1, <2>1, NewOnes DEF SpansMove, First, GuiFields
  <2>3. TraceMove(1, <<>>)
    BY <1>0, <1>1, <2>1, NewOnes DEF TraceMove, First, GuiFields
  <2>4. CasesMove(1, <<>>)
    BY <1>0, <1>1, <2>1, NewOnes DEF CasesMove, First, GuiFields
  <2>5. CompareMove(1, <<>>)
    BY <1>0, <1>1, <2>1, NewOnes DEF CompareMove, First, GuiFields
  <2>6. RowsMove(1, <<>>)
    BY <1>0, <1>1, <2>1, NewOnes DEF RowsMove, First, GuiFields
  <2> QED BY <1>5, <2>1, <2>2, <2>3, <2>4, <2>5, <2>6 DEF GuiMove
<1> QED BY <1>5, <1>6, <1>7, <1>8, <1>9, GuiKept

\* The run that is picked has its cases asked for.
LEMMA RunsKeep ==
  ASSUME GuiAssumption, GuiInv, NEW i \in 1 .. Len(calls), GetRuns(i)
  PROVE  GuiInv'
<1> DEFINE c == Call("cases", evalRun', calls[i].by)
<1>0. /\ GuiShapes /\ GuiFields /\ StreamsOK
      /\ calls[i] \in GuiCalls /\ calls[i].do = "runs"
  BY ElementOfSeq DEF GuiInv, GuiShapes, Answered, GetRuns
<1>1. /\ GoesOn(i, c) /\ InAnyOrder(i)
      /\ evalRun' = picked' /\ picked' = (IF picked = Unset THEN CHOOSE r \in GuiRuns : TRUE ELSE picked)
      /\ UNCHANGED <<guiFilter, shown, stream, streams, connection, guiPaused, guiCurrent, traceOf, commentsOf, casesOf, baseline, compareOf, query, ran, answerTo, panelFailed, guiSent, crossed, failures>>
  BY DEF GetRuns, Answered, Ends, GoesOn, connecting, guiDetail, guiEvals, sqlPanel, bounds
<1>f. picked' \in GuiRuns /\ picked' = (IF picked = Unset THEN picked' ELSE picked)
  BY <1>0, <1>1 DEF GuiFields, GuiAssumption, GuiCalls
<1>2. c \in GuiCalls /\ c.do = "cases" /\ c.of = picked'
  BY <1>0, <1>f, <1>1 DEF Call, GuiCalls, Kinds, GuiFields, Whatever, GuiAssumption
<1> HIDE DEF c
<1>4. <<c>> \in Seq(GuiCalls)
  BY <1>2
<1>5. calls' \in Seq(GuiCalls) /\ (i = 1 => Moved(1, <<c>>)) /\ Recalls(<<c>>)
  BY <1>2, <1>f, <1>0, <1>1, OneGoesOn
<1>6. GuiFields'
  <2>1. overtaken' \in BOOLEAN
    BY <1>1 DEF InAnyOrder
  <2> QED BY <1>0, <1>f, <1>1, <2>1 DEF GuiFields, GuiCalls
<1>7. StreamsOK'
  BY <1>0, <1>1 DEF StreamsOK
<1>8. OneTraceMove(<<c>>)
  BY <1>2, <1>f, <1>0, <1>1, NewOnes DEF OneTraceMove
<1>9. ASSUME InOrder'
      PROVE  InOrder /\ Moved(1, <<c>>) /\ GuiMove(1, <<c>>)
  <2>1. InOrder /\ i = 1
    BY <1>1, <1>9, InOrderBefore
  <2>2. SpansMove(1, <<c>>)
    BY <1>2, <1>f, <1>0, <1>1, <2>1, NewOnes DEF SpansMove, First, GuiFields
  <2>3. TraceMove(1, <<c>>)
    BY <1>2, <1>f, <1>0, <1>1, <2>1, NewOnes DEF TraceMove, First, GuiFields
  <2>4. CasesMove(1, <<c>>)
    BY <1>2, <1>f, <1>0, <1>1, <2>1, NewOnes DEF CasesMove, First, GuiFields
  <2>5. CompareMove(1, <<c>>)
    BY <1>2, <1>f, <1>0, <1>1, <2>1, NewOnes DEF CompareMove, First, GuiFields
  <2>6. RowsMove(1, <<c>>)
    BY <1>2, <1>f, <1>0, <1>1, <2>1, NewOnes DEF RowsMove, First, GuiFields
  <2> QED BY <1>5, <2>1, <2>2, <2>3, <2>4, <2>5, <2>6 DEF GuiMove
<1> QED BY <1>5, <1>6, <1>7, <1>8, <1>9, GuiKept

\* The cases that come are those of the last request; then a comparison is asked for.
LEMMA CasesKeep ==
  ASSUME GuiAssumption, GuiInv, NEW i \in 1 .. Len(calls), GetCases(i), baseline \notin {Unset, calls[i].of}
  PROVE  GuiInv'
<1> DEFINE c == [calls[i] EXCEPT !.do = "compare", !.base = baseline]
<1>0. /\ GuiShapes /\ GuiFields /\ StreamsOK
      /\ calls[i] \in GuiCalls /\ calls[i].do = "cases"
  BY ElementOfSeq DEF GuiInv, GuiShapes, Answered, GetCases
<1>1. /\ GoesOn(i, c) /\ InAnyOrder(i)
      /\ casesOf' = calls[i].of /\ baseline \notin {Unset, calls[i].of}
      /\ UNCHANGED <<guiFilter, shown, stream, streams, connection, guiPaused, guiCurrent, traceOf, commentsOf, picked, evalRun, baseline, compareOf, query, ran, answerTo, panelFailed, guiSent, crossed, failures>>
  BY <1>0 DEF GetCases, Answered, Ends, GoesOn, connecting, guiDetail, guiEvals, sqlPanel, bounds
<1>2. c \in GuiCalls /\ c.do = "compare" /\ c.of = calls[i].of /\ c.base = baseline
  BY <1>0, <1>1 DEF Call, GuiCalls, Kinds, GuiFields, Whatever, GuiAssumption
<1> HIDE DEF c
<1>4. <<c>> \in Seq(GuiCalls)
  BY <1>2
<1>5. calls' \in Seq(GuiCalls) /\ (i = 1 => Moved(1, <<c>>)) /\ Recalls(<<c>>)
  BY <1>2, <1>0, <1>1, OneGoesOn
<1>6. GuiFields'
  <2>1. overtaken' \in BOOLEAN
    BY <1>1 DEF InAnyOrder
  <2> QED BY <1>0, <1>1, <2>1 DEF GuiFields, GuiCalls
<1>7. StreamsOK'
  BY <1>0, <1>1 DEF StreamsOK
<1>8. OneTraceMove(<<c>>)
  BY <1>2, <1>0, <1>1, NewOnes DEF OneTraceMove
<1>9. ASSUME InOrder'
      PROVE  InOrder /\ Moved(1, <<c>>) /\ GuiMove(1, <<c>>)
  <2>1. InOrder /\ i = 1
    BY <1>1, <1>9, InOrderBefore
  <2>2. SpansMove(1, <<c>>)
    BY <1>2, <1>0, <1>1, <2>1, NewOnes DEF SpansMove, First, GuiFields
  <2>3. TraceMove(1, <<c>>)
    BY <1>2, <1>0, <1>1, <2>1, NewOnes DEF TraceMove, First, GuiFields
  <2>4. CasesMove(1, <<c>>)
    BY <1>2, <1>0, <1>1, <2>1, NewOnes DEF CasesMove, First, GuiFields
  <2>5. CompareMove(1, <<c>>)
    BY <1>2, <1>0, <1>1, <2>1, NewOnes DEF CompareMove, First, GuiFields
  <2>6. RowsMove(1, <<c>>)
    BY <1>2, <1>0, <1>1, <2>1, NewOnes DEF RowsMove, First, GuiFields
  <2> QED BY <1>5, <2>1, <2>2, <2>3, <2>4, <2>5, <2>6 DEF GuiMove
<1> QED BY <1>5, <1>6, <1>7, <1>8, <1>9, GuiKept

\* Or there is none.
LEMMA LastCasesKeep ==
  ASSUME GuiAssumption, GuiInv, NEW i \in 1 .. Len(calls), GetCases(i), baseline \in {Unset, calls[i].of}
  PROVE  GuiInv'
<1>0. /\ GuiShapes /\ GuiFields /\ StreamsOK
      /\ calls[i] \in GuiCalls /\ calls[i].do = "cases"
  BY ElementOfSeq DEF GuiInv, GuiShapes, Answered, GetCases
<1>1. /\ Ends(i) /\ InAnyOrder(i) /\ Joins(i)
      /\ casesOf' = calls[i].of /\ compareOf' = <<>> /\ baseline \in {Unset, calls[i].of}
      /\ UNCHANGED <<guiFilter, shown, stream, guiPaused, guiCurrent, traceOf, commentsOf, picked, evalRun, baseline, query, ran, answerTo, panelFailed, guiSent, crossed, failures>>
  BY <1>0 DEF GetCases, Answered, Ends, GoesOn, connecting, guiDetail, guiEvals, sqlPanel, bounds
<1>5. calls' \in Seq(GuiCalls) /\ (i = 1 => Moved(1, <<>>)) /\ Recalls(<<>>)
  BY <1>0, <1>1, OneEnds
<1>6. GuiFields'
  <2>1. overtaken' \in BOOLEAN
    BY <1>1 DEF InAnyOrder
  <2> QED BY <1>0, <1>1, <2>1 DEF GuiFields, GuiCalls
<1>7. StreamsOK'
  BY <1>0, <1>1, JoinsKeeps DEF StreamsOK
<1>8. OneTraceMove(<<>>)
  BY <1>0, <1>1, NewOnes DEF OneTraceMove
<1>9. ASSUME InOrder'
      PROVE  InOrder /\ Moved(1, <<>>) /\ GuiMove(1, <<>>)
  <2>1. InOrder /\ i = 1
    BY <1>1, <1>9, InOrderBefore
  <2>2. SpansMove(1, <<>>)
    BY <1>0, <1>1, <2>1, NewOnes DEF SpansMove, First, GuiFields
  <2>3. TraceMove(1, <<>>)
    BY <1>0, <1>1, <2>1, NewOnes DEF TraceMove, First, GuiFields
  <2>4. CasesMove(1, <<>>)
    BY <1>0, <1>1, <2>1, NewOnes DEF CasesMove, First, GuiFields
  <2>5. CompareMove(1, <<>>)
    BY <1>0, <1>1, <2>1, NewOnes DEF CompareMove, First, GuiFields
  <2>6. RowsMove(1, <<>>)
    BY <1>0, <1>1, <2>1, NewOnes DEF RowsMove, First, GuiFields
  <2> QED BY <1>5, <2>1, <2>2, <2>3, <2>4, <2>5, <2>6 DEF GuiMove
<1> QED BY <1>5, <1>6, <1>7, <1>8, <1>9, GuiKept

\* The comparison that comes is the last.
LEMMA CompareKeeps ==
  ASSUME GuiAssumption, GuiInv, NEW i \in 1 .. Len(calls), GetCompare(i)
  PROVE  GuiInv'
<1>0. /\ GuiShapes /\ GuiFields /\ StreamsOK
      /\ calls[i] \in GuiCalls /\ calls[i].do = "compare"
  BY ElementOfSeq DEF GuiInv, GuiShapes, Answered, GetCompare
<1>1. /\ Ends(i) /\ InAnyOrder(i) /\ Joins(i)
      /\ compareOf' = <<calls[i].of, calls[i].base>>
      /\ UNCHANGED <<guiFilter, shown, stream, guiPaused, guiCurrent, traceOf, commentsOf, picked, evalRun, casesOf, baseline, query, ran, answerTo, panelFailed, guiSent, crossed, failures>>
  BY DEF GetCompare, Answered, Ends, GoesOn, connecting, guiDetail, guiEvals, sqlPanel, bounds
<1>5. calls' \in Seq(GuiCalls) /\ (i = 1 => Moved(1, <<>>)) /\ Recalls(<<>>)
  BY <1>0, <1>1, OneEnds
<1>6. GuiFields'
  <2>1. overtaken' \in BOOLEAN
    BY <1>1 DEF InAnyOrder
  <2> QED BY <1>0, <1>1, <2>1 DEF GuiFields, GuiCalls
<1>7. StreamsOK'
  BY <1>0, <1>1, JoinsKeeps DEF StreamsOK
<1>8. OneTraceMove(<<>>)
  BY <1>0, <1>1, NewOnes DEF OneTraceMove
<1>9. ASSUME InOrder'
      PROVE  InOrder /\ Moved(1, <<>>) /\ GuiMove(1, <<>>)
  <2>1. InOrder /\ i = 1
    BY <1>1, <1>9, InOrderBefore
  <2>2. SpansMove(1, <<>>)
    BY <1>0, <1>1, <2>1, NewOnes DEF SpansMove, First, GuiFields
  <2>3. TraceMove(1, <<>>)
    BY <1>0, <1>1, <2>1, NewOnes DEF TraceMove, First, GuiFields
  <2>4. CasesMove(1, <<>>)
    BY <1>0, <1>1, <2>1, NewOnes DEF CasesMove, First, GuiFields
  <2>5. CompareMove(1, <<>>)
    BY <1>0, <1>1, <2>1, NewOnes DEF CompareMove, First, GuiFields
  <2>6. RowsMove(1, <<>>)
    BY <1>0, <1>1, <2>1, NewOnes DEF RowsMove, First, GuiFields
  <2> QED BY <1>5, <2>1, <2>2, <2>3, <2>4, <2>5, <2>6 DEF GuiMove
<1> QED BY <1>5, <1>6, <1>7, <1>8, <1>9, GuiKept

\* The trace that comes is the last.
LEMMA TraceKeeps ==
  ASSUME GuiAssumption, GuiInv, NEW i \in 1 .. Len(calls), GetTrace(i)
  PROVE  GuiInv'
<1>0. /\ GuiShapes /\ GuiFields /\ StreamsOK
      /\ calls[i] \in GuiCalls /\ calls[i].do = "trace"
  BY ElementOfSeq DEF GuiInv, GuiShapes, Answered, GetTrace
<1>1. /\ Ends(i) /\ InAnyOrder(i)
      /\ traceOf' = calls[i].of /\ commentsOf' = calls[i].of
      /\ UNCHANGED <<guiFilter, shown, stream, streams, connection, guiPaused, guiCurrent, picked, evalRun, casesOf, baseline, compareOf, query, ran, answerTo, panelFailed, guiSent, crossed, failures>>
  BY DEF GetTrace, Answered, Ends, GoesOn, connecting, guiDetail, guiEvals, sqlPanel, bounds
<1>5. calls' \in Seq(GuiCalls) /\ (i = 1 => Moved(1, <<>>)) /\ Recalls(<<>>)
  BY <1>0, <1>1, OneEnds
<1>6. GuiFields'
  <2>1. overtaken' \in BOOLEAN
    BY <1>1 DEF InAnyOrder
  <2> QED BY <1>0, <1>1, <2>1 DEF GuiFields, GuiCalls
<1>7. StreamsOK'
  BY <1>0, <1>1 DEF StreamsOK
<1>8. OneTraceMove(<<>>)
  BY <1>0, <1>1, NewOnes DEF OneTraceMove
<1>9. ASSUME InOrder'
      PROVE  InOrder /\ Moved(1, <<>>) /\ GuiMove(1, <<>>)
  <2>1. InOrder /\ i = 1
    BY <1>1, <1>9, InOrderBefore
  <2>2. SpansMove(1, <<>>)
    BY <1>0, <1>1, <2>1, NewOnes DEF SpansMove, First, GuiFields
  <2>3. TraceMove(1, <<>>)
    BY <1>0, <1>1, <2>1, NewOnes DEF TraceMove, First, GuiFields
  <2>4. CasesMove(1, <<>>)
    BY <1>0, <1>1, <2>1, NewOnes DEF CasesMove, First, GuiFields
  <2>5. CompareMove(1, <<>>)
    BY <1>0, <1>1, <2>1, NewOnes DEF CompareMove, First, GuiFields
  <2>6. RowsMove(1, <<>>)
    BY <1>0, <1>1, <2>1, NewOnes DEF RowsMove, First, GuiFields
  <2> QED BY <1>5, <2>1, <2>2, <2>3, <2>4, <2>5, <2>6 DEF GuiMove
<1> QED BY <1>5, <1>6, <1>7, <1>8, <1>9, GuiKept

\* A comment that was added has the comments fetched again.
LEMMA AddedKeeps ==
  ASSUME GuiAssumption, GuiInv, NEW i \in 1 .. Len(calls), Added(i)
  PROVE  GuiInv'
<1> DEFINE c == Call("comments", guiCurrent, 0)
<1>0. /\ GuiShapes /\ GuiFields /\ StreamsOK
      /\ calls[i] \in GuiCalls /\ calls[i].do = "add"
  BY ElementOfSeq DEF GuiInv, GuiShapes, Answered, Added
<1>1. /\ GoesOn(i, c) /\ InAnyOrder(i)
      /\ UNCHANGED <<guiFilter, shown, stream, streams, connection, guiPaused, guiCurrent, traceOf, commentsOf, picked, evalRun, casesOf, baseline, compareOf, query, ran, answerTo, panelFailed, guiSent, crossed, failures>>
  BY DEF Added, Answered, Ends, GoesOn, connecting, guiDetail, guiEvals, sqlPanel, bounds
<1>2. c \in GuiCalls /\ c.do = "comments" /\ c.of = guiCurrent
  BY <1>0, <1>1 DEF Call, GuiCalls, Kinds, GuiFields, Whatever, GuiAssumption
<1> HIDE DEF c
<1>4. <<c>> \in Seq(GuiCalls)
  BY <1>2
<1>5. calls' \in Seq(GuiCalls) /\ (i = 1 => Moved(1, <<c>>)) /\ Recalls(<<c>>)
  BY <1>2, <1>0, <1>1, OneGoesOn
<1>6. GuiFields'
  <2>1. overtaken' \in BOOLEAN
    BY <1>1 DEF InAnyOrder
  <2> QED BY <1>0, <1>1, <2>1 DEF GuiFields, GuiCalls
<1>7. StreamsOK'
  BY <1>0, <1>1 DEF StreamsOK
<1>8. OneTraceMove(<<c>>)
  BY <1>2, <1>0, <1>1, NewOnes DEF OneTraceMove
<1>9. ASSUME InOrder'
      PROVE  InOrder /\ Moved(1, <<c>>) /\ GuiMove(1, <<c>>)
  <2>1. InOrder /\ i = 1
    BY <1>1, <1>9, InOrderBefore
  <2>2. SpansMove(1, <<c>>)
    BY <1>2, <1>0, <1>1, <2>1, NewOnes DEF SpansMove, First, GuiFields
  <2>3. TraceMove(1, <<c>>)
    BY <1>2, <1>0, <1>1, <2>1, NewOnes DEF TraceMove, First, GuiFields
  <2>4. CasesMove(1, <<c>>)
    BY <1>2, <1>0, <1>1, <2>1, NewOnes DEF CasesMove, First, GuiFields
  <2>5. CompareMove(1, <<c>>)
    BY <1>2, <1>0, <1>1, <2>1, NewOnes DEF CompareMove, First, GuiFields
  <2>6. RowsMove(1, <<c>>)
    BY <1>2, <1>0, <1>1, <2>1, NewOnes DEF RowsMove, First, GuiFields
  <2> QED BY <1>5, <2>1, <2>2, <2>3, <2>4, <2>5, <2>6 DEF GuiMove
<1> QED BY <1>5, <1>6, <1>7, <1>8, <1>9, GuiKept

\* The comments that come are the last.
LEMMA CommentsKeep ==
  ASSUME GuiAssumption, GuiInv, NEW i \in 1 .. Len(calls), GetComments(i)
  PROVE  GuiInv'
<1>0. /\ GuiShapes /\ GuiFields /\ StreamsOK
      /\ calls[i] \in GuiCalls /\ calls[i].do = "comments"
  BY ElementOfSeq DEF GuiInv, GuiShapes, Answered, GetComments
<1>1. /\ Ends(i) /\ InAnyOrder(i)
      /\ commentsOf' = calls[i].of
      /\ UNCHANGED <<guiFilter, shown, stream, streams, connection, guiPaused, guiCurrent, traceOf, picked, evalRun, casesOf, baseline, compareOf, query, ran, answerTo, panelFailed, guiSent, crossed, failures>>
  BY DEF GetComments, Answered, Ends, GoesOn, connecting, guiDetail, guiEvals, sqlPanel, bounds
<1>5. calls' \in Seq(GuiCalls) /\ (i = 1 => Moved(1, <<>>)) /\ Recalls(<<>>)
  BY <1>0, <1>1, OneEnds
<1>6. GuiFields'
  <2>1. overtaken' \in BOOLEAN
    BY <1>1 DEF InAnyOrder
  <2> QED BY <1>0, <1>1, <2>1 DEF GuiFields, GuiCalls
<1>7. StreamsOK'
  BY <1>0, <1>1 DEF StreamsOK
<1>8. OneTraceMove(<<>>)
  BY <1>0, <1>1, NewOnes DEF OneTraceMove
<1>9. ASSUME InOrder'
      PROVE  InOrder /\ Moved(1, <<>>) /\ GuiMove(1, <<>>)
  <2>1. InOrder /\ i = 1
    BY <1>1, <1>9, InOrderBefore
  <2>2. SpansMove(1, <<>>)
    BY <1>0, <1>1, <2>1, NewOnes DEF SpansMove, First, GuiFields
  <2>3. TraceMove(1, <<>>)
    BY <1>0, <1>1, <2>1, NewOnes DEF TraceMove, First, GuiFields
  <2>4. CasesMove(1, <<>>)
    BY <1>0, <1>1, <2>1, NewOnes DEF CasesMove, First, GuiFields
  <2>5. CompareMove(1, <<>>)
    BY <1>0, <1>1, <2>1, NewOnes DEF CompareMove, First, GuiFields
  <2>6. RowsMove(1, <<>>)
    BY <1>0, <1>1, <2>1, NewOnes DEF RowsMove, First, GuiFields
  <2> QED BY <1>5, <2>1, <2>2, <2>3, <2>4, <2>5, <2>6 DEF GuiMove
<1> QED BY <1>5, <1>6, <1>7, <1>8, <1>9, GuiKept

\* The rows that come are the last.
LEMMA AnswerKeeps ==
  ASSUME GuiAssumption, GuiInv, NEW i \in 1 .. Len(calls), GetAnswer(i)
  PROVE  GuiInv'
<1>0. /\ GuiShapes /\ GuiFields /\ StreamsOK
      /\ calls[i] \in GuiCalls /\ calls[i].do = "sql"
  BY ElementOfSeq DEF GuiInv, GuiShapes, Answered, GetAnswer
<1>1. /\ Ends(i) /\ InAnyOrder(i)
      /\ answerTo' = calls[i].of
      /\ UNCHANGED <<guiFilter, shown, stream, streams, connection, guiPaused, guiCurrent, traceOf, commentsOf, picked, evalRun, casesOf, baseline, compareOf, query, ran, panelFailed, guiSent, crossed, failures>>
  BY DEF GetAnswer, Answered, Ends, GoesOn, connecting, guiDetail, guiEvals, sqlPanel, bounds
<1>5. calls' \in Seq(GuiCalls) /\ (i = 1 => Moved(1, <<>>)) /\ Recalls(<<>>)
  BY <1>0, <1>1, OneEnds
<1>6. GuiFields'
  <2>1. overtaken' \in BOOLEAN
    BY <1>1 DEF InAnyOrder
  <2> QED BY <1>0, <1>1, <2>1 DEF GuiFields, GuiCalls
<1>7. StreamsOK'
  BY <1>0, <1>1 DEF StreamsOK
<1>8. OneTraceMove(<<>>)
  BY <1>0, <1>1, NewOnes DEF OneTraceMove
<1>9. ASSUME InOrder'
      PROVE  InOrder /\ Moved(1, <<>>) /\ GuiMove(1, <<>>)
  <2>1. InOrder /\ i = 1
    BY <1>1, <1>9, InOrderBefore
  <2>2. SpansMove(1, <<>>)
    BY <1>0, <1>1, <2>1, NewOnes DEF SpansMove, First, GuiFields
  <2>3. TraceMove(1, <<>>)
    BY <1>0, <1>1, <2>1, NewOnes DEF TraceMove, First, GuiFields
  <2>4. CasesMove(1, <<>>)
    BY <1>0, <1>1, <2>1, NewOnes DEF CasesMove, First, GuiFields
  <2>5. CompareMove(1, <<>>)
    BY <1>0, <1>1, <2>1, NewOnes DEF CompareMove, First, GuiFields
  <2>6. RowsMove(1, <<>>)
    BY <1>0, <1>1, <2>1, NewOnes DEF RowsMove, First, GuiFields
  <2> QED BY <1>5, <2>1, <2>2, <2>3, <2>4, <2>5, <2>6 DEF GuiMove
<1> QED BY <1>5, <1>6, <1>7, <1>8, <1>9, GuiKept

\* A request that fails changes whose refresh the others are, and nothing they ask for.
LEMMA FailsKeeps ==
  ASSUME GuiAssumption, GuiInv, NEW i \in 1 .. Len(calls), GuiFails(i)
  PROVE  GuiInv'
<1> DEFINE n    == Len(calls) - 1
           left == Without(i)
           kept == [j \in 1 .. n |-> IF calls[i].by # 0 /\ left[j].by = calls[i].by THEN [left[j] EXCEPT !.by = 0] ELSE left[j]]
<1>0. GuiShapes /\ GuiFields /\ StreamsOK
  BY DEF GuiInv, GuiShapes
<1>1. /\ calls' = kept /\ InAnyOrder(i) /\ failures' = failures + 1
      /\ answerTo' \in {Unset, answerTo}
      /\ UNCHANGED <<guiFilter, shown, stream, streams, guiPaused, guiCurrent, traceOf, commentsOf, picked, evalRun, casesOf, baseline, compareOf, query, ran, guiSent, crossed>>
  BY DEF GuiFails, guiDetail, guiEvals
<1>2. /\ n \in Nat /\ Len(calls) \in Nat
      /\ \A k \in 1 .. n : left[k] = IF k < i THEN calls[k] ELSE calls[k + 1]
      /\ \A k \in 1 .. Len(calls) : calls[k] \in GuiCalls
  BY <1>0, WithoutOne, LenProperties, ElementOfSeq DEF GuiShapes
<1> HIDE DEF left
<1>3. ASSUME NEW k \in 1 .. n
      PROVE  /\ kept[k] \in GuiCalls
             /\ \E j \in 1 .. Len(calls) : kept[k].do = calls[j].do /\ kept[k].of = calls[j].of
  <2>1. PICK j \in 1 .. Len(calls) : left[k] = calls[j]
    BY <1>2
  <2>2. left[k] \in GuiCalls
    BY <1>2, <2>1
  <2>3. kept[k] \in {left[k], [left[k] EXCEPT !.by = 0]}
    OBVIOUS
  <2>4. kept[k] \in GuiCalls /\ kept[k].do = left[k].do /\ kept[k].of = left[k].of
    BY <2>2, <2>3 DEF GuiCalls
  <2> QED BY <2>1, <2>4
<1>4. calls' \in Seq(GuiCalls) /\ Len(calls') = n /\ \A k \in 1 .. n : calls'[k] = kept[k]
  <2>1. kept \in [1 .. n -> GuiCalls]
    BY <1>3
  <2> HIDE DEF kept
  <2>2. kept \in Seq(GuiCalls)
    BY <1>2, <2>1, SeqDef
  <2>3. Len(kept) = n
    BY <1>2, <2>1, <2>2, LenProperties
  <2> QED BY <1>1, <2>2, <2>3
<1>5. Recalls(<<>>)
  <2>1. ASSUME NEW k \in 1 .. Len(calls')
        PROVE  \E j \in 1 .. Len(calls) : calls'[k].do = calls[j].do /\ calls'[k].of = calls[j].of
    <3>1. k \in 1 .. n /\ calls'[k] = kept[k]
      BY <1>4
    <3> HIDE DEF kept
    <3> QED BY <1>3, <3>1
  <2> QED BY <2>1 DEF Recalls
<1>6. GuiFields' /\ failures' # 0
  <2>1. overtaken' \in BOOLEAN
    BY <1>1 DEF InAnyOrder
  <2> QED BY <1>0, <1>1, <2>1 DEF GuiFields
<1>7. StreamsOK'
  BY <1>0, <1>1 DEF StreamsOK
<1>8. OneTraceMove(<<>>)
  BY <1>1, NewOnes DEF OneTraceMove
<1>9. ~InOrder'
  BY <1>6 DEF InOrder
<1> QED BY <1>4, <1>5, <1>6, <1>7, <1>8, <1>9, GuiKept

\* A batch of the stream of now has the filter of now.
LEMMA LiveKeeps ==
  ASSUME GuiAssumption, GuiInv, NEW s \in Range(streams), Live(s)
  PROVE  GuiInv'
<1>0. GuiShapes /\ GuiFields /\ StreamsOK
  BY DEF GuiInv, GuiShapes
<1>1. /\ calls' = calls /\ s.id = stream /\ shown' = shown \cup {s.filter}
      /\ UNCHANGED <<guiFilter, stream, streams, guiCurrent, traceOf, commentsOf, picked, evalRun, casesOf, baseline, compareOf, query, ran, answerTo, guiSent, overtaken, crossed, failures>>
  BY DEF Live, guiDetail, guiEvals, sqlPanel, bounds
<1>2. s.filter = guiFilter
  <2>1. PICK k \in DOMAIN streams : s = streams[k]
    BY DEF Range
  <2>2. k \in 1 .. Len(streams)
    BY <1>0, <2>1, LenProperties DEF StreamsOK
  <2> QED BY <1>0, <1>1, <2>1, <2>2 DEF StreamsOK
<1>5. calls' \in Seq(GuiCalls) /\ Moved(0, <<>>) /\ Recalls(<<>>)
  BY <1>0, <1>1, NothingAsked
<1>6. GuiFields' /\ StreamsOK'
  BY <1>0, <1>1, <1>2 DEF GuiFields, StreamsOK
<1>7. OneTraceMove(<<>>)
  BY <1>1, NewOnes DEF OneTraceMove
<1>8. InOrder' => InOrder
  BY <1>1 DEF InOrder
<1>9. GuiMove(0, <<>>)
  BY <1>1, <1>2, NewOnes DEF GuiMove, SpansMove, TraceMove, CasesMove, CompareMove, RowsMove, First
<1> QED BY <1>5, <1>6, <1>7, <1>8, <1>9, GuiKept

\* A status line, and a step of others.
LEMMA StatusKeeps ==
  ASSUME GuiAssumption, GuiInv,
         UNCHANGED <<calls, guiFilter, shown, stream, streams, guiCurrent, traceOf, commentsOf, picked, evalRun, casesOf, baseline, compareOf, query, ran, answerTo, guiSent, overtaken, crossed, failures>>
  PROVE  GuiInv'
<1>0. GuiShapes /\ GuiFields /\ StreamsOK
  BY DEF GuiInv, GuiShapes
<1>5. calls' \in Seq(GuiCalls) /\ Moved(0, <<>>) /\ Recalls(<<>>)
  BY <1>0, NothingAsked
<1>6. GuiFields' /\ StreamsOK'
  BY <1>0 DEF GuiFields, StreamsOK
<1>7. OneTraceMove(<<>>)
  BY NewOnes DEF OneTraceMove
<1>8. InOrder' => InOrder
  BY DEF InOrder
<1>9. GuiMove(0, <<>>)
  BY NewOnes DEF GuiMove, SpansMove, TraceMove, CasesMove, CompareMove, RowsMove, First
<1> QED BY <1>5, <1>6, <1>7, <1>8, <1>9, GuiKept

\* The GUI begins with a connect.
LEMMA GuiBegins ==
  ASSUME GuiAssumption, GuiInit
  PROVE  GuiInv
<1> DEFINE c == Call("healthz", Unset, 1)
<1>1. c \in GuiCalls /\ c.do = "healthz"
  BY DEF Call, GuiCalls, Kinds, Whatever, GuiAssumption
<1>2. calls = <<c>>
  BY DEF GuiInit
<1> HIDE DEF c
<1>3. calls \in Seq(GuiCalls) /\ Len(calls) = 1 /\ calls[1] = c
  BY <1>1, <1>2
<1>4. GuiFields /\ StreamsOK
  <2>1. GuiFields
    BY DEF GuiInit, GuiFields, GuiAssumption
  <2>2. streams = <<>> /\ stream = 1 /\ Len(<<>>) = 0 /\ <<>> \in Seq([id : Nat, filter : Filters])
    BY DEF GuiInit
  <2> QED BY <2>1, <2>2 DEF StreamsOK
<1>5. OneTrace
  BY <1>1, <1>3 DEF GuiInit, OneTrace, CommentsFit
<1>6. Pending("healthz") /\ \A k \in 1 .. Len(calls) : calls[k].do = "healthz"
  BY <1>1, <1>3 DEF Pending
<1>7. Fresh
  BY <1>6 DEF GuiInit, Fresh, SpansFresh, TraceFresh, CasesFresh, CompareFresh, RowsFresh, Wanted
<1> QED BY <1>3, <1>4, <1>5, <1>7 DEF GuiInv, GuiShapes

\* Every step keeps it.
LEMMA GuiSteps ==
  ASSUME GuiAssumption, GuiInv, [GuiNext]_guiVars
  PROVE  GuiInv'
<1>1. CASE GuiClicks
  BY <1>1, GuiConnectKeeps, RefreshKeeps, PauseKeeps, SubmitKeeps, OpenKeeps, PickKeeps, TypeKeeps, QueryKeeps DEF GuiClicks
<1>2. CASE GuiAnswers
  <2>1. PICK i \in 1 .. Len(calls) :
          \/ Healthy(i) \/ GetSpans(i) \/ GetRuns(i) \/ GetCases(i) \/ GetCompare(i)
          \/ GetTrace(i) \/ Added(i) \/ GetComments(i) \/ GetAnswer(i) \/ GuiFails(i)
    BY <1>2 DEF GuiAnswers
  <2>2. CASE GetCases(i)
    BY <2>2, CasesKeep, LastCasesKeep
  <2> QED BY <2>1, <2>2, HealthyKeeps, SpansKeep, RunsKeep, CompareKeeps, TraceKeeps, AddedKeeps, CommentsKeep,
             AnswerKeeps, FailsKeeps
<1>3. CASE Timer
  BY <1>3, TimerKeeps
<1>4. CASE \E s \in Range(streams) : Live(s) \/ \E status \in Statuses : LiveStatus(s, status)
  <2>1. PICK s \in Range(streams) : Live(s) \/ \E status \in Statuses : LiveStatus(s, status)
    BY <1>4
  <2>2. CASE Live(s)
    BY <2>2, LiveKeeps
  <2>3. CASE \E status \in Statuses : LiveStatus(s, status)
    BY <2>3, StatusKeeps DEF LiveStatus, guiDetail, guiEvals, sqlPanel, bounds
  <2> QED BY <2>1, <2>2, <2>3
<1>5. CASE UNCHANGED guiVars
  BY <1>5, StatusKeeps DEF guiVars, connecting, guiDetail, guiEvals, sqlPanel, bounds
<1> QED BY <1>1, <1>2, <1>3, <1>4, <1>5 DEF GuiNext

\* What is on screen when nothing is under way.
LEMMA QuietNow ==
  ASSUME GuiInv
  PROVE  CommentsFit /\ QuietIsCurrent
<1>1. CommentsFit
  BY DEF GuiInv, OneTrace
<1>2. ASSUME calls = <<>>, InOrder
      PROVE  /\ shown \subseteq {guiFilter} /\ traceOf = guiCurrent /\ commentsOf = guiCurrent
             /\ casesOf = evalRun /\ evalRun = picked /\ compareOf = Wanted /\ answerTo = ran
  <2>1. Fresh
    BY <1>2 DEF GuiInv
  <2>2. \A kind : ~Pending(kind)
    BY <1>2 DEF Pending
  <2> QED BY <2>1, <2>2 DEF Fresh, SpansFresh, TraceFresh, CasesFresh, CompareFresh, RowsFresh
<1> QED BY <1>1, <1>2 DEF QuietIsCurrent, InOrder, Wanted

\* The desktop GUI (connect, loadTrace, evalRefetch, refreshPanel): the span of a comment is
\* one of the trace the comment is for, unless two traces were loading at once; and when
\* nothing is under way and no answer overtook another or failed, spans, trace, comments,
\* cases, comparison and rows are those of what is selected.
THEOREM GuiHonest == GuiSpec => []GuiIsHonest
<1>1. GuiInit => GuiInv
  BY GuiBegins, GuiAssumption
<1>2. GuiInv /\ [GuiNext]_guiVars => GuiInv'
  BY GuiSteps, GuiAssumption
<1>3. GuiInv => CommentsFit /\ QuietIsCurrent
  BY QuietNow
<1> QED BY <1>1, <1>2, <1>3, PTL DEF GuiSpec, GuiIsHonest

\* The types of the GUI: selections and what is shown are known things, and a stream is
\* started only with an id that was taken.
THEOREM GuiTypes == GuiSpec => []GuiTypeOK
<1>1. GuiInit => GuiInv
  BY GuiBegins, GuiAssumption
<1>2. GuiInv /\ [GuiNext]_guiVars => GuiInv'
  BY GuiSteps, GuiAssumption
<1>3. GuiInv => GuiTypeOK
  <2> SUFFICES ASSUME GuiInv PROVE GuiTypeOK
    OBVIOUS
  <2>1. GuiFields /\ StreamsOK
    BY DEF GuiInv, GuiShapes
  <2>2. ASSUME NEW s \in Range(streams)
        PROVE  s.id \in 1 .. stream
    <3>1. PICK k \in DOMAIN streams : s = streams[k]
      BY DEF Range
    <3>2. k \in 1 .. Len(streams)
      BY <2>1, <3>1, LenProperties DEF StreamsOK
    <3> QED BY <2>1, <3>1, <3>2 DEF StreamsOK
  <2> QED BY <2>1, <2>2 DEF GuiTypeOK, GuiFields
<1> QED BY <1>1, <1>2, <1>3, PTL DEF GuiSpec

-----------------------------------------------------------------------------
(* The terminal UI: what is picked from a sequence.                        *)

\* Of some numbers one is least.
LEMMA LeastOf ==
  ASSUME NEW S \in SUBSET Nat, S # {}
  PROVE  \E x \in S : \A y \in S : x <= y
<1>1. PICK x \in S : \A y \in S : <<y, x>> \notin OpToRel(<, Nat)
  BY WFMin, NatLessThanWellFounded, Zenon
<1>2. \A y \in S : ~ (y < x)
  BY <1>1, Zenon DEF OpToRel
<1>3. \A y \in S : x <= y
  BY ONLY <1>2, S \in SUBSET Nat, x \in S
<1> QED BY <1>3, Zenon

UpTo(places, i) == {j \in places : j <= i}

\* The place with k places up to it: each number has one.
LEMMA PlaceOf ==
  ASSUME NEW places \in SUBSET Nat, IsFiniteSet(places)
  PROVE  /\ \A i \in places : Cardinality(UpTo(places, i)) \in 1 .. Cardinality(places)
         /\ \A i, j \in places : Cardinality(UpTo(places, i)) = Cardinality(UpTo(places, j)) => i = j
         /\ \A k \in 1 .. Cardinality(places) : \E i \in places : Cardinality(UpTo(places, i)) = k
<1> DEFINE n == Cardinality(places)
           rank == [i \in places |-> Cardinality(UpTo(places, i))]
<1>1. n \in Nat
  BY FS_CardinalityType
<1>2. ASSUME NEW i \in places
      PROVE  /\ UpTo(places, i) \in SUBSET places /\ IsFiniteSet(UpTo(places, i))
             /\ Cardinality(UpTo(places, i)) \in 1 .. n
  <2>1. UpTo(places, i) \in SUBSET places /\ i \in UpTo(places, i)
    BY DEF UpTo
  <2>2. IsFiniteSet(UpTo(places, i)) /\ Cardinality(UpTo(places, i)) <= n
    BY <2>1, FS_Subset
  <2>3. Cardinality(UpTo(places, i)) \in Nat /\ Cardinality(UpTo(places, i)) # 0
    BY <2>1, <2>2, FS_CardinalityType, FS_EmptySet
  <2> QED BY <1>1, <2>1, <2>2, <2>3
<1>3. ASSUME NEW i \in places, NEW j \in places, i < j
      PROVE  Cardinality(UpTo(places, i)) # Cardinality(UpTo(places, j))
  <2>1. UpTo(places, i) \in SUBSET UpTo(places, j) /\ j \in UpTo(places, j) /\ j \notin UpTo(places, i)
    <3>1. i \in Nat /\ j \in Nat /\ \A k \in places : k \in Nat
      OBVIOUS
    <3>2. ASSUME NEW k \in UpTo(places, i) PROVE k \in UpTo(places, j)
      BY <1>3, <3>1 DEF UpTo
    <3>3. j \in UpTo(places, j) /\ j \notin UpTo(places, i)
      BY <1>3, <3>1 DEF UpTo
    <3> QED BY <3>2, <3>3
  <2>2. UpTo(places, i) # UpTo(places, j)
    BY <2>1
  <2> QED BY <1>2, <2>1, <2>2, FS_Subset
<1>4. \A i, j \in places : Cardinality(UpTo(places, i)) = Cardinality(UpTo(places, j)) => i = j
  <2>1. \A i, j \in places : i < j \/ j < i \/ i = j
    OBVIOUS
  <2> QED BY <1>3, <2>1
<1>5. rank \in Injection(places, 1 .. n)
  BY <1>2, <1>4 DEF Injection, IsInjective
<1>6. IsFiniteSet(1 .. n) /\ Cardinality(1 .. n) = n
  BY <1>1, FS_Interval
<1>7. rank \in Surjection(places, 1 .. n)
  <2> HIDE DEF rank
  <2> QED BY <1>5, <1>6, FS_Injection
<1>8. \A k \in 1 .. n : \E i \in places : rank[i] = k
  <2> HIDE DEF rank
  <2> QED BY <1>7 DEF Surjection
<1> QED BY <1>2, <1>4, <1>8

\* What is picked is what is there, each place once.
LEMMA PickedIs ==
  ASSUME NEW s, NEW places \in SUBSET Nat, IsFiniteSet(places), NEW T, \A i \in places : s[i] \in T
  PROVE  /\ Picked(s, places) \in Seq(T)
         /\ Range(Picked(s, places)) = {s[i] : i \in places}
         /\ (\A i, j \in places : s[i] = s[j] => i = j) => IsInjective(Picked(s, places))
<1> DEFINE n == Cardinality(places)
           at(k) == CHOOSE i \in places : Cardinality(UpTo(places, i)) = k
           p == [k \in 1 .. n |-> s[at(k)]]
<1>1. Picked(s, places) = p
  BY Zenon DEF Picked, UpTo
<1>2. n \in Nat
  BY FS_CardinalityType
<1>3. \A k \in 1 .. n : at(k) \in places /\ Cardinality(UpTo(places, at(k))) = k
  BY PlaceOf
<1>4. \A i \in places : Cardinality(UpTo(places, i)) \in 1 .. n /\ at(Cardinality(UpTo(places, i))) = i
  BY PlaceOf, <1>3
<1> HIDE DEF at
<1>5. p \in Seq(T)
  <2>1. \A k \in 1 .. n : s[at(k)] \in T
    BY <1>3
  <2> QED BY <1>2, <2>1, IsASeq
<1>6. Range(p) = {s[i] : i \in places}
  <2>1. DOMAIN p = 1 .. n
    OBVIOUS
  <2>2. \A k \in 1 .. n : p[k] \in {s[i] : i \in places}
    BY <1>3
  <2>3. \A i \in places : s[i] \in Range(p)
    BY <1>4, <2>1 DEF Range
  <2> QED BY <2>1, <2>2, <2>3 DEF Range
<1>7. ASSUME \A i, j \in places : s[i] = s[j] => i = j
      PROVE  IsInjective(p)
  <2> SUFFICES ASSUME NEW k \in 1 .. n, NEW m \in 1 .. n, p[k] = p[m] PROVE k = m
    BY DEF IsInjective
  <2>1. at(k) = at(m)
    BY <1>3, <1>7
  <2> QED BY <1>3, <2>1
<1> QED BY <1>1, <1>5, <1>6, <1>7

\* One sequence after another.
LEMMA ConcatRange ==
  ASSUME NEW S, NEW a \in Seq(S), NEW b \in Seq(S)
  PROVE  /\ a \o b \in Seq(S) /\ Range(a \o b) = Range(a) \cup Range(b)
         /\ IsInjective(a) /\ IsInjective(b) /\ Range(a) \cap Range(b) = {} => IsInjective(a \o b)
<1> DEFINE c == a \o b
           m == Len(a)
           n == Len(b)
<1>1. /\ m \in Nat /\ n \in Nat /\ DOMAIN a = 1 .. m /\ DOMAIN b = 1 .. n
      /\ c \in Seq(S) /\ Len(c) = m + n /\ DOMAIN c = 1 .. m + n
      /\ \A i \in 1 .. m + n : c[i] = IF i <= m THEN a[i] ELSE b[i - m]
  BY ConcatProperties, LenProperties
<1> HIDE DEF c, m, n
<1>2. /\ \A i \in 1 .. m : i \in 1 .. m + n /\ c[i] = a[i]
      /\ \A i \in 1 .. n : i + m \in 1 .. m + n /\ c[i + m] = b[i]
  <2>1. ASSUME NEW i \in 1 .. n PROVE i + m \in 1 .. m + n /\ c[i + m] = b[i]
    <3>1. i + m \in 1 .. m + n /\ ~(i + m <= m) /\ (i + m) - m = i
      BY <1>1
    <3> QED BY <1>1, <3>1
  <2> QED BY <1>1, <2>1
<1>3. \A i \in 1 .. m + n : (i \in 1 .. m /\ c[i] = a[i]) \/ (i - m \in 1 .. n /\ c[i] = b[i - m])
  <2> SUFFICES ASSUME NEW i \in 1 .. m + n PROVE (i \in 1 .. m /\ c[i] = a[i]) \/ (i - m \in 1 .. n /\ c[i] = b[i - m])
    OBVIOUS
  <2>1. CASE i <= m
    BY <1>1, <2>1
  <2>2. CASE ~(i <= m)
    <3>1. i - m \in 1 .. n
      BY <1>1, <2>2
    <3> QED BY <1>1, <2>2, <3>1
  <2> QED BY <2>1, <2>2
<1>4. Range(c) = Range(a) \cup Range(b)
  <2>1. \A x \in Range(a) : x \in Range(c)
    BY <1>1, <1>2 DEF Range
  <2>2. \A x \in Range(b) : x \in Range(c)
    <3> SUFFICES ASSUME NEW i \in 1 .. n PROVE b[i] \in Range(c)
      BY <1>1 DEF Range
    <3>1. i + m \in DOMAIN c /\ c[i + m] = b[i]
      BY <1>1, <1>2
    <3> QED BY <3>1 DEF Range
  <2>3. \A x \in Range(c) : x \in Range(a) \cup Range(b)
    BY <1>1, <1>3 DEF Range
  <2> QED BY <2>1, <2>2, <2>3
<1>5. ASSUME IsInjective(a), IsInjective(b), Range(a) \cap Range(b) = {}
      PROVE  IsInjective(c)
  <2> SUFFICES ASSUME NEW i \in 1 .. m + n, NEW j \in 1 .. m + n, c[i] = c[j] PROVE i = j
    BY <1>1 DEF IsInjective
  <2>0. \A k \in 1 .. m, h \in 1 .. n : a[k] # b[h]
    BY <1>1, <1>5 DEF Range
  <2>1. CASE i \in 1 .. m /\ j \in 1 .. m
    BY <1>1, <1>2, <1>5, <2>1 DEF IsInjective
  <2>2. CASE i \notin 1 .. m /\ j \notin 1 .. m
    <3>1. i - m \in 1 .. n /\ j - m \in 1 .. n /\ b[i - m] = b[j - m]
      BY <1>3, <2>2
    <3>2. i - m = j - m
      BY <1>1, <1>5, <3>1 DEF IsInjective
    <3> QED BY <1>1, <3>2
  <2>3. CASE i \in 1 .. m /\ j \notin 1 .. m
    BY <1>2, <1>3, <2>0, <2>3
  <2>4. CASE i \notin 1 .. m /\ j \in 1 .. m
    BY <1>2, <1>3, <2>0, <2>4
  <2> QED BY <2>1, <2>2, <2>3, <2>4
<1> QED BY <1>1, <1>4, <1>5 DEF c

\* A stack without its top.
LEMMA FrontOf ==
  ASSUME NEW S, NEW s \in Seq(S), s # <<>>
  PROVE  /\ Front(s) \in Seq(S) /\ Range(Front(s)) \subseteq Range(s) /\ Last(s) \in Range(s)
         /\ IsInjective(s) => IsInjective(Front(s)) /\ Last(s) \notin Range(Front(s))
<1> DEFINE f == Front(s)
           n == Len(s)
<1>1. n \in Nat /\ n # 0 /\ DOMAIN s = 1 .. n /\ \A i \in 1 .. n : s[i] \in S
  BY LenProperties, EmptySeq, ElementOfSeq
<1>2. f \in Seq(S) /\ Len(f) = n - 1 /\ \A i \in 1 .. n - 1 : f[i] = s[i]
  <2>1. \A i \in 1 .. n - 1 : s[i] \in S
    BY <1>1
  <2>2. 1 \in Int /\ n - 1 \in Int
    BY <1>1
  <2> HIDE DEF n
  <2>3. /\ SubSeq(s, 1, n - 1) \in Seq(S)
        /\ Len(SubSeq(s, 1, n - 1)) = IF 1 <= n - 1 THEN (n - 1) - 1 + 1 ELSE 0
        /\ \A i \in 1 .. (n - 1) - 1 + 1 : SubSeq(s, 1, n - 1)[i] = s[1 + i - 1]
    BY <2>1, <2>2, SubSeqProperties
  <2>4. f = SubSeq(s, 1, n - 1)
    BY DEF Front, n
  <2> HIDE DEF f
  <2>5. Len(f) = n - 1 /\ f \in Seq(S)
    BY <1>1, <2>3, <2>4
  <2>6. ASSUME NEW i \in 1 .. n - 1 PROVE f[i] = s[i]
    <3>1. i \in 1 .. (n - 1) - 1 + 1 /\ 1 + i - 1 = i
      BY <1>1
    <3> QED BY <2>3, <2>4, <3>1
  <2> QED BY <2>5, <2>6
<1>3. DOMAIN f = 1 .. n - 1
  BY <1>2, LenProperties
<1> HIDE DEF f
<1>4. Last(s) = s[n] /\ n \in 1 .. n /\ \A i \in 1 .. n - 1 : i \in 1 .. n /\ i # n
  <2>1. n \in 1 .. n /\ \A i \in 1 .. n - 1 : i \in 1 .. n /\ i # n
    <3> HIDE DEF n
    <3> QED BY <1>1
  <2> QED BY <2>1 DEF Last
<1> HIDE DEF n
<1>5. Range(f) \subseteq Range(s) /\ Last(s) \in Range(s)
  BY <1>1, <1>2, <1>3, <1>4 DEF Range
<1>6. ASSUME IsInjective(s) PROVE IsInjective(f) /\ Last(s) \notin Range(f)
  BY <1>1, <1>2, <1>3, <1>4, <1>6 DEF Range, IsInjective
<1> QED BY <1>2, <1>5, <1>6 DEF f

\* The same in reverse.
LEMMA ReverseOf ==
  ASSUME NEW S, NEW s \in Seq(S)
  PROVE  /\ Reverse(s) \in Seq(S) /\ Range(Reverse(s)) = Range(s) /\ Len(Reverse(s)) = Len(s)
         /\ IsInjective(s) => IsInjective(Reverse(s))
<1> DEFINE r == Reverse(s)
           n == Len(s)
<1>1. n \in Nat /\ DOMAIN s = 1 .. n /\ \A i \in 1 .. n : s[i] \in S
  BY LenProperties, ElementOfSeq
<1>2. \A i \in 1 .. n : n - i + 1 \in 1 .. n /\ n - (n - i + 1) + 1 = i
  BY <1>1
<1>3. DOMAIN r = 1 .. n /\ \A i \in 1 .. n : r[i] = s[n - i + 1]
  BY DEF Reverse
<1>4. r \in Seq(S)
  <2>1. \A i \in 1 .. n : s[n - i + 1] \in S
    BY <1>1, <1>2
  <2>2. [i \in 1 .. n |-> s[n - i + 1]] \in Seq(S)
    BY <1>1, <2>1, IsASeq
  <2> QED BY <2>2 DEF Reverse
<1> HIDE DEF r, n
<1>5. Range(r) = Range(s)
  <2>1. \A x \in Range(s) : x \in Range(r)
    BY <1>1, <1>2, <1>3 DEF Range
  <2>2. \A x \in Range(r) : x \in Range(s)
    BY <1>1, <1>2, <1>3 DEF Range
  <2> QED BY <2>1, <2>2
<1>6. ASSUME IsInjective(s) PROVE IsInjective(r)
  <2> SUFFICES ASSUME NEW i \in 1 .. n, NEW j \in 1 .. n, r[i] = r[j] PROVE i = j
    BY <1>3 DEF IsInjective
  <2>1. n - i + 1 = n - j + 1
    BY <1>1, <1>2, <1>3, <1>6 DEF IsInjective
  <2> QED BY <1>1, <2>1
<1>7. Len(r) = n
  BY <1>1, <1>3, <1>4, LenProperties
<1> QED BY <1>4, <1>5, <1>6, <1>7 DEF r, n

-----------------------------------------------------------------------------
(* The terminal UI: the waterfall.                                         *)

\* Spans with an id of their own each.
Distinct(of) ==
  /\ of \in Seq(Range(of)) /\ IsInjective(of)
  /\ \A x, y \in Range(of) : x.id # None /\ (x.id = y.id => x = y)

Ids(of) == {None} \cup {x.id : x \in Range(of)}

\* The children of a span, each once.
LEMMA ChildrenAre ==
  ASSUME NEW of, Distinct(of), NEW id
  PROVE  /\ Children(of, id) \in Seq(Range(of)) /\ IsInjective(Children(of, id))
         /\ Range(Children(of, id)) = {x \in Range(of) : x.parent = id}
<1> DEFINE places == {i \in 1 .. Len(of) : of[i].parent = id}
           kept == Picked(of, places)
<1>1. Len(of) \in Nat /\ DOMAIN of = 1 .. Len(of)
  BY LenProperties DEF Distinct
<1>2. places \in SUBSET Nat /\ IsFiniteSet(places)
  <2>1. places \in SUBSET (1 .. Len(of)) /\ IsFiniteSet(1 .. Len(of))
    BY <1>1, FS_Interval
  <2>2. 1 .. Len(of) \subseteq Nat
    BY <1>1
  <2> HIDE DEF places
  <2> QED BY <2>1, <2>2, FS_Subset
<1>3. \A i \in places : of[i] \in Range(of)
  BY <1>1 DEF Range
<1>4. \A i, j \in places : of[i] = of[j] => i = j
  BY <1>1 DEF Distinct, IsInjective
<1>5. {of[i] : i \in places} = {x \in Range(of) : x.parent = id}
  BY <1>1 DEF Range
<1> HIDE DEF places
<1>6. /\ kept \in Seq(Range(of)) /\ IsInjective(kept)
      /\ Range(kept) = {x \in Range(of) : x.parent = id}
  <2>1. kept \in Seq(Range(of)) /\ IsInjective(kept)
    BY <1>2, <1>3, <1>4, PickedIs
  <2>2. Range(kept) = {of[i] : i \in places}
    BY <1>2, <1>3, PickedIs
  <2> QED BY <1>5, <2>1, <2>2
<1> HIDE DEF kept
<1>7. Children(of, id) = Reverse(kept)
  BY DEF Children, kept, places
<1> QED BY <1>6, <1>7, ReverseOf

\* The rows of a walk are the children of what has left the stack; what is on the stack has
\* a row.
WalkOK(of, walk) ==
  /\ walk.rows \in Seq(Range(of)) /\ IsInjective(walk.rows)
  /\ walk.stack \in Seq(Ids(of)) /\ IsInjective(walk.stack)
  /\ \A p \in Range(walk.stack) : p = None \/ \E x \in Range(walk.rows) : x.id = p
  /\ \A x \in Range(walk.rows) :
       /\ x.parent \notin Range(walk.stack)
       /\ x.parent = None \/ \E y \in Range(walk.rows) : y.id = x.parent

\* Each turn of the loop keeps it.
LEMMA PoppedOK ==
  ASSUME NEW of, Distinct(of), NEW walk, WalkOK(of, walk)
  PROVE  WalkOK(of, Popped(of, walk))
<1> SUFFICES ASSUME walk.stack # <<>> PROVE WalkOK(of, Popped(of, walk))
  BY DEF Popped
<1> DEFINE rows == walk.rows
           stack == walk.stack
           top == Last(stack)
           found == Children(of, top)
           ids == [k \in 1 .. Len(found) |-> found[k].id]
           rest == Front(stack)
<1>1. Popped(of, walk) = [rows |-> rows \o found, stack |-> rest \o ids]
  BY DEF Popped
<1>2. /\ found \in Seq(Range(of)) /\ IsInjective(found)
      /\ Range(found) = {x \in Range(of) : x.parent = top}
  BY ChildrenAre
<1>3. /\ rows \in Seq(Range(of)) /\ IsInjective(rows) /\ stack \in Seq(Ids(of)) /\ IsInjective(stack)
      /\ \A p \in Range(stack) : p = None \/ \E x \in Range(rows) : x.id = p
      /\ \A x \in Range(rows) : /\ x.parent \notin Range(stack)
                                /\ x.parent = None \/ \E y \in Range(rows) : y.id = x.parent
  BY DEF WalkOK
<1>4. /\ rest \in Seq(Ids(of)) /\ Range(rest) \subseteq Range(stack) /\ top \in Range(stack)
      /\ IsInjective(rest) /\ top \notin Range(rest)
  BY <1>3, FrontOf
<1>5. \A x, y \in Range(of) : x.id # None /\ (x.id = y.id => x = y)
  BY DEF Distinct
<1> HIDE DEF top, found, rest, rows, stack
<1>6. Len(found) \in Nat /\ DOMAIN found = 1 .. Len(found)
  BY <1>2, LenProperties
<1>7. ids \in Seq(Ids(of)) /\ Range(ids) = {x.id : x \in Range(found)} /\ IsInjective(ids)
  <2>1. \A k \in 1 .. Len(found) : found[k] \in Range(of) /\ found[k].id \in Ids(of)
    BY <1>2, ElementOfSeq DEF Ids
  <2>2. ids \in Seq(Ids(of))
    BY <1>6, <2>1, IsASeq
  <2>3. Range(ids) = {x.id : x \in Range(found)}
    BY <1>6 DEF Range
  <2>4. ASSUME NEW i \in 1 .. Len(found), NEW j \in 1 .. Len(found), found[i].id = found[j].id
        PROVE  i = j
    <3>1. found[i] = found[j]
      BY <1>5, <2>1, <2>4
    <3> QED BY <1>2, <1>6, <3>1 DEF IsInjective
  <2>5. IsInjective(ids)
    BY <2>4 DEF IsInjective
  <2> QED BY <2>2, <2>3, <2>5
<1> HIDE DEF ids
<1>8. Range(rows) \subseteq Range(of)
  <2>1. DOMAIN rows = 1 .. Len(rows) /\ \A i \in 1 .. Len(rows) : rows[i] \in Range(of)
    BY <1>3, LenProperties, ElementOfSeq
  <2> QED BY <2>1 DEF Range
<1>9. Range(rows) \cap Range(found) = {}
  BY <1>2, <1>3, <1>4
<1>10. Range(rest) \cap Range(ids) = {}
  <2> SUFFICES ASSUME NEW f \in Range(found), f.id \in Range(rest) PROVE FALSE
    BY <1>7
  <2>1. PICK x \in Range(rows) : x.id = f.id
    BY <1>2, <1>3, <1>4, <1>5
  <2> QED BY <1>2, <1>5, <1>8, <1>9, <2>1
<1>11. /\ rows \o found \in Seq(Range(of)) /\ IsInjective(rows \o found)
       /\ Range(rows \o found) = Range(rows) \cup Range(found)
  BY <1>2, <1>3, <1>9, ConcatRange
<1>12. /\ rest \o ids \in Seq(Ids(of)) /\ IsInjective(rest \o ids)
       /\ Range(rest \o ids) = Range(rest) \cup Range(ids)
  BY <1>4, <1>7, <1>10, ConcatRange
<1>13. ASSUME NEW p \in Range(rest) \cup Range(ids)
       PROVE  p = None \/ \E x \in Range(rows) \cup Range(found) : x.id = p
  BY <1>3, <1>4, <1>7, <1>13
<1>14. ASSUME NEW x \in Range(rows) \cup Range(found)
       PROVE  x.parent = None \/ \E y \in Range(rows) \cup Range(found) : y.id = x.parent
  BY <1>2, <1>3, <1>4, <1>14
<1>15. ASSUME NEW x \in Range(rows) \cup Range(found), x.parent \in Range(rest) \cup Range(ids)
       PROVE  FALSE
  <2>1. x.parent \notin Range(rest)
    BY <1>2, <1>3, <1>4
  <2>2. PICK f \in Range(found) : f.id = x.parent
    BY <1>7, <1>15, <2>1
  <2>3. f \in Range(of) /\ f \notin Range(rows) /\ f.id # None
    BY <1>2, <1>5, <1>9
  <2>4. x.parent # None
    BY <2>2, <2>3
  <2>5. PICK y \in Range(rows) : y.id = x.parent
    BY <1>2, <1>3, <1>4, <2>4
  <2> QED BY <1>5, <1>8, <2>2, <2>3, <2>5
<1> HIDE DEF Popped
<1>16. WalkOK(of, [rows |-> rows \o found, stack |-> rest \o ids])
  BY <1>11, <1>12, <1>13, <1>14, <1>15 DEF WalkOK
<1> QED BY <1>1, <1>16

\* The walk takes a turn for each span and one more.
Turns(of, last, walk) ==
  walk = [n \in 0 .. last |-> IF n = 0 THEN [rows |-> <<>>, stack |-> <<None>>] ELSE Popped(of, walk[n - 1])]

\* There is a walk of any length, by induction on it.
LEMMA WalkExists ==
  ASSUME NEW of, NEW last \in Nat
  PROVE  \E walk : Turns(of, last, walk)
<1> DEFINE bad == {n \in Nat : ~ \E walk : Turns(of, n, walk)}
           start == [rows |-> <<>>, stack |-> <<None>>]
<1>1. bad = {}
  <2> SUFFICES ASSUME bad # {} PROVE FALSE
    OBVIOUS
  <2>1. PICK m \in bad : \A n \in bad : m <= n
    <3>1. bad \in SUBSET Nat
      OBVIOUS
    <3> HIDE DEF bad
    <3> QED BY <3>1, LeastOf
  <2>2. m \in Nat /\ ~ \E walk : Turns(of, m, walk)
    BY <2>1
  <2>3. CASE m = 0
    <3> DEFINE one == [n \in 0 .. 0 |-> start]
    <3>1. one = [n \in 0 .. 0 |-> IF n = 0 THEN start ELSE Popped(of, one[n - 1])]
      <4>1. \A n \in 0 .. 0 : n = 0
        OBVIOUS
      <4> QED BY <4>1
    <3>2. Turns(of, m, one)
      BY <2>3, <3>1 DEF Turns
    <3> QED BY <2>2, <3>2
  <2>4. CASE m # 0
    <3>1. m - 1 \in Nat /\ m - 1 \notin bad
      <4>1. m - 1 \in Nat /\ ~(m <= m - 1)
        BY <2>2, <2>4
      <4> HIDE DEF bad
      <4> QED BY <2>1, <4>1
    <3>2. PICK w : Turns(of, m - 1, w)
      BY <3>1
    <3> DEFINE more == [n \in 0 .. m |-> IF n = m THEN Popped(of, w[m - 1]) ELSE w[n]]
    <3>3. ASSUME NEW n \in 0 .. m
          PROVE  more[n] = IF n = 0 THEN start ELSE Popped(of, more[n - 1])
      <4>0. n \in Nat /\ m \in Nat /\ more[n] = IF n = m THEN Popped(of, w[m - 1]) ELSE w[n]
        BY <2>2
      <4>1. CASE n = m
        <5>1. m - 1 \in 0 .. m /\ m - 1 # m
          BY <2>2, <3>1
        <5>2. more[m - 1] = w[m - 1]
          BY <5>1
        <5> HIDE DEF more
        <5> QED BY <2>4, <4>0, <4>1, <5>2
      <4>2. CASE n # m
        <5>1. n \in 0 .. m - 1
          BY <2>2, <4>0, <4>2
        <5>2. w[n] = IF n = 0 THEN start ELSE Popped(of, w[n - 1])
          BY <3>2, <5>1, Zenon DEF Turns
        <5>3. n # 0 => n - 1 \in 0 .. m /\ n - 1 # m
          BY <2>2, <4>0, <5>1
        <5>4. n # 0 => more[n - 1] = w[n - 1]
          BY <5>3
        <5> HIDE DEF more
        <5> QED BY <4>0, <4>2, <5>2, <5>4
      <4> QED BY <4>1, <4>2
    <3>4. Turns(of, m, more)
      <4>1. more = [n \in 0 .. m |-> more[n]]
        OBVIOUS
      <4> HIDE DEF more
      <4> QED BY <3>3, <4>1, Zenon DEF Turns
    <3> HIDE DEF more
    <3> QED BY <2>2, <3>4
  <2> QED BY <2>3, <2>4
<1> QED BY <1>1

\* The rows the walk ends with are spans, each once.
LEMMA WalkedOK ==
  ASSUME NEW of, Distinct(of)
  PROVE  Walked(of) \in Seq(Range(of)) /\ IsInjective(Walked(of))
<1> DEFINE last == Len(of) + 1
           walk == CHOOSE w : Turns(of, last, w)
<1>1. last \in Nat
  BY LenProperties DEF Distinct
<1>2. Walked(of) = walk[last].rows
  BY Zenon DEF Walked, Turns
<1>3. Turns(of, last, walk)
  <2> HIDE DEF last
  <2> QED BY <1>1, WalkExists
<1> HIDE DEF walk, last
<1>4. /\ walk[0] = [rows |-> <<>>, stack |-> <<None>>]
      /\ \A n \in 1 .. last : walk[n] = Popped(of, walk[n - 1])
  <2>1. \A n \in 0 .. last : walk[n] = IF n = 0 THEN [rows |-> <<>>, stack |-> <<None>>] ELSE Popped(of, walk[n - 1])
    BY <1>3, Zenon DEF Turns
  <2>2. 0 \in 0 .. last /\ \A n \in 1 .. last : n \in 0 .. last /\ n # 0
    BY <1>1
  <2> QED BY <2>1, <2>2
<1>5. WalkOK(of, walk[0])
  <2>1. WalkOK(of, [rows |-> <<>>, stack |-> <<None>>])
    <3>1. <<>> \in Seq(Range(of)) /\ IsInjective(<<>>) /\ Range(<<>>) = {}
      BY DEF IsInjective, Range
    <3>2. <<None>> \in Seq(Ids(of)) /\ IsInjective(<<None>>) /\ Range(<<None>>) = {None}
      BY DEF IsInjective, Range, Ids
    <3> QED BY <3>1, <3>2 DEF WalkOK
  <2> QED BY <1>4, <2>1
<1> DEFINE bad == {n \in 0 .. last : ~WalkOK(of, walk[n])}
<1>6. bad = {}
  <2> SUFFICES ASSUME bad # {} PROVE FALSE
    OBVIOUS
  <2>1. PICK m \in bad : \A n \in bad : m <= n
    <3>1. bad \in SUBSET Nat
      OBVIOUS
    <3> HIDE DEF bad
    <3> QED BY <3>1, LeastOf
  <2>2. m \in 1 .. last /\ ~WalkOK(of, walk[m])
    <3>1. m # 0
      BY <1>5, <2>1
    <3> QED BY <1>1, <2>1, <3>1
  <2>3. m - 1 \in 0 .. last /\ ~(m <= m - 1)
    BY <1>1, <2>2
  <2>4. WalkOK(of, walk[m - 1])
    BY <2>1, <2>3
  <2> QED BY <1>4, <2>2, <2>4, PoppedOK
<1>7. WalkOK(of, walk[last])
  <2>1. last \in 0 .. last
    BY <1>1
  <2> QED BY <1>6, <2>1
<1> QED BY <1>2, <1>7 DEF WalkOK

\* The waterfall has every span once, whether or not the walk gets to it.
LEMMA WaterfallHas ==
  ASSUME NEW of, Distinct(of)
  PROVE  Waterfall(of) \in Seq(Range(of)) /\ Range(Waterfall(of)) = Range(of) /\ IsInjective(Waterfall(of))
<1> DEFINE rows == Walked(of)
           places == {i \in 1 .. Len(of) : of[i] \notin Range(rows)}
           missed == Picked(of, places)
<1>1. rows \in Seq(Range(of)) /\ IsInjective(rows)
  BY WalkedOK
<1>2. Waterfall(of) = rows \o missed
  BY DEF Waterfall
<1> HIDE DEF rows
<1>3. Len(of) \in Nat /\ DOMAIN of = 1 .. Len(of)
  BY LenProperties DEF Distinct
<1>4. places \in SUBSET Nat /\ IsFiniteSet(places)
  <2>1. places \in SUBSET (1 .. Len(of)) /\ IsFiniteSet(1 .. Len(of))
    BY <1>3, FS_Interval
  <2>2. 1 .. Len(of) \subseteq Nat
    BY <1>3
  <2> HIDE DEF places
  <2> QED BY <2>1, <2>2, FS_Subset
<1>5. \A i \in places : of[i] \in Range(of)
  BY <1>3 DEF Range
<1>6. \A i, j \in places : of[i] = of[j] => i = j
  BY <1>3 DEF Distinct, IsInjective
<1>7. {of[i] : i \in places} = Range(of) \ Range(rows)
  BY <1>3 DEF Range
<1> HIDE DEF places
<1>8. missed \in Seq(Range(of)) /\ IsInjective(missed) /\ Range(missed) = Range(of) \ Range(rows)
  <2>1. missed \in Seq(Range(of)) /\ IsInjective(missed)
    BY <1>4, <1>5, <1>6, PickedIs
  <2>2. Range(missed) = {of[i] : i \in places}
    BY <1>4, <1>5, PickedIs
  <2> QED BY <1>7, <2>1, <2>2
<1> HIDE DEF missed
<1>9. Range(rows) \subseteq Range(of)
  <2>1. DOMAIN rows = 1 .. Len(rows) /\ \A i \in 1 .. Len(rows) : rows[i] \in Range(of)
    BY <1>1, LenProperties, ElementOfSeq
  <2> QED BY <2>1 DEF Range
<1>10. Range(rows) \cap Range(missed) = {} /\ Range(rows) \cup Range(missed) = Range(of)
  BY <1>8, <1>9
<1>11. /\ rows \o missed \in Seq(Range(of)) /\ Range(rows \o missed) = Range(rows) \cup Range(missed)
       /\ IsInjective(rows \o missed)
  BY ONLY <1>1, <1>8, <1>10, ConcatRange
<1> QED BY <1>2, <1>10, <1>11

-----------------------------------------------------------------------------
(* The terminal UI: what is shown.                                         *)

\* A comment that names a span names one of the trace it is for, unless the waterfall was one
\* that could not be fetched anew.
SpansAreOfTheTrace ==
  \A c \in sent : c.span # None /\ ~c.stale =>
    \E i \in 1 .. Len(Feed) : Feed[i].trace = c.trace /\ Feed[i].id = c.span

\* The way back is not to a trace; what was there at the start is there.
ShownInv ==
  /\ prevTab # "Detail"
  /\ published \in 0 .. Len(Feed) /\ \E start \in Starts : start[1] <= published
  /\ waterfall \in Seq(Range(Feed))
  /\ DetailIsOfOneTrace /\ SpansAreOfTheTrace

\* A step that fetches no trace and sends nothing.
LEMMA NothingShown ==
  ASSUME ShownInv, sent' = sent, waterfall' = waterfall, prevTab' = prevTab,
         published' = published \/ (published' = published + 1 /\ published < Len(Feed)),
         tab' = "Detail" => tab = "Detail" /\ current' = current /\ stale' = stale
  PROVE  ShownInv'
<1>1. Len(Feed) \in Nat
  BY TuiAssumption, LenProperties DEF TuiAssumption
<1>2. published' \in 0 .. Len(Feed) /\ published' >= published
  BY <1>1 DEF ShownInv
<1>3. \E start \in Starts : start[1] <= published'
  <2>1. PICK start \in Starts : start[1] <= published
    BY DEF ShownInv
  <2>2. start[1] \in 0 .. Len(Feed)
    BY TuiAssumption DEF TuiAssumption
  <2>3. start[1] <= published'
    BY <1>1, <1>2, <2>1, <2>2 DEF ShownInv
  <2> QED BY <2>3
<1>4. DetailIsOfOneTrace'
  BY DEF ShownInv, DetailIsOfOneTrace
<1>5. SpansAreOfTheTrace'
  BY DEF ShownInv, SpansAreOfTheTrace
<1> QED BY <1>2, <1>3, <1>4, <1>5 DEF ShownInv

\* The spans of a trace have ids of their own.
LEMMA TraceIsDistinct ==
  ASSUME NEW t, published \in 0 .. Len(Feed)
  PROVE  LET of == Picked(Feed, {i \in 1 .. published : Feed[i].trace = t})
         IN  /\ Distinct(of)
             /\ Range(of) = {Feed[i] : i \in {j \in 1 .. published : Feed[j].trace = t}}
<1> DEFINE places == {i \in 1 .. published : Feed[i].trace = t}
           of == Picked(Feed, places)
<1>1. Len(Feed) \in Nat /\ DOMAIN Feed = 1 .. Len(Feed)
  BY TuiAssumption, LenProperties DEF TuiAssumption
<1>2. \A i \in places : i \in 1 .. Len(Feed) /\ Feed[i].trace = t
  BY <1>1
<1>3. places \in SUBSET Nat /\ IsFiniteSet(places)
  <2>1. places \in SUBSET (1 .. published) /\ IsFiniteSet(1 .. published)
    BY <1>1, FS_Interval
  <2>2. 1 .. published \subseteq Nat
    BY <1>1
  <2> HIDE DEF places
  <2> QED BY <2>1, <2>2, FS_Subset
<1> HIDE DEF places
<1>4. \A i, j \in places : Feed[i].id # None /\ (Feed[i].id = Feed[j].id => i = j)
  BY <1>2, TuiAssumption DEF TuiAssumption
<1> DEFINE all == {Feed[i] : i \in places}
<1>5. of \in Seq(all) /\ Range(of) = all /\ IsInjective(of)
  <2>1. \A i \in places : Feed[i] \in all
    OBVIOUS
  <2>2. \A i, j \in places : Feed[i] = Feed[j] => i = j
    BY <1>4
  <2> HIDE DEF all
  <2>3. of \in Seq(all) /\ IsInjective(of)
    BY <1>3, <2>1, <2>2, PickedIs
  <2>4. Range(of) = {Feed[i] : i \in places}
    BY <1>3, <2>1, PickedIs
  <2> QED BY <2>3, <2>4 DEF all
<1>6. \A x, y \in all : x.id # None /\ (x.id = y.id => x = y)
  BY <1>4
<1>7. Distinct(of)
  <2> HIDE DEF all, of
  <2> QED BY <1>5, <1>6 DEF Distinct
<1> QED BY <1>5, <1>7 DEF places

\* A trace that is opened.
LEMMA TraceLoaded ==
  ASSUME ShownInv, NEW t, NEW a \in BOOLEAN, NEW b \in BOOLEAN, LoadTrace(t, a, b), tab # "Detail",
         published' = published
  PROVE  ShownInv'
<1> DEFINE places == {i \in 1 .. published : Feed[i].trace = t}
           of == Picked(Feed, places)
<1>1. Len(Feed) \in Nat /\ DOMAIN Feed = 1 .. Len(Feed)
  BY TuiAssumption, LenProperties DEF TuiAssumption
<1>2. /\ current' = t /\ stale' = ~a /\ sent' = sent /\ prevTab' = tab /\ tab' = "Detail"
      /\ waterfall' = IF a THEN Waterfall(of) ELSE waterfall
  BY DEF LoadTrace
<1>3. SpansAreOfTheTrace'
  BY <1>2 DEF ShownInv, SpansAreOfTheTrace
<1>4. CASE ~a
  BY <1>2, <1>3, <1>4 DEF ShownInv, DetailIsOfOneTrace
<1>5. CASE a
  <2>1. published \in 0 .. Len(Feed)
    BY DEF ShownInv
  <2>2. Distinct(of) /\ Range(of) = {Feed[i] : i \in places}
    BY <2>1, TraceIsDistinct
  <2> HIDE DEF of
  <2>3. /\ waterfall' \in Seq(Range(of)) /\ Range(waterfall') = Range(of)
        /\ IsInjective(waterfall')
    BY <1>2, <1>5, <2>2, WaterfallHas
  <2>4. \A x \in Range(of) : x \in Range(Feed) /\ x.trace = t
    BY <1>1, <2>1, <2>2 DEF Range
  <2>5. waterfall' \in Seq(Range(Feed))
    BY <2>3, <2>4, SeqMonotonic
  <2>6. \A i \in 1 .. Len(waterfall') : waterfall'[i].trace = t
    BY <2>3, <2>4, ElementOfSeq
  <2>7. \E start \in Starts : \A i \in 1 .. start[1] : Feed[i].trace = t => Feed[i] \in Range(waterfall')
    <3>1. PICK start \in Starts : start[1] <= published
      BY DEF ShownInv
    <3>2. start[1] \in 0 .. Len(Feed)
      BY TuiAssumption DEF TuiAssumption
    <3>3. \A i \in 1 .. start[1] : i \in 1 .. published
      BY <1>1, <2>1, <3>1, <3>2
    <3>4. \A i \in 1 .. start[1] : Feed[i].trace = t => Feed[i] \in Range(of)
      BY <2>2, <3>3
    <3> QED BY <2>3, <3>4
  <2>8. DetailIsOfOneTrace'
    BY <1>2, <2>3, <2>6, <2>7 DEF DetailIsOfOneTrace
  <2> QED BY <1>2, <1>3, <2>5, <2>8 DEF ShownInv
<1> QED BY <1>4, <1>5

\* A comment that is sent.
LEMMA CommentSent ==
  ASSUME ShownInv, NEW a \in BOOLEAN, NEW b \in BOOLEAN, NEW c \in BOOLEAN, SubmitComment(a, b, c)
  PROVE  ShownInv'
<1> USE DEF Still, server
<1>1. /\ tab' = tab /\ prevTab' = prevTab /\ published' = published /\ current' = current
      /\ waterfall' = waterfall /\ stale' = stale
  BY DEF SubmitComment
<1>2. ASSUME NEW x \in sent', x \notin sent, x.span # None, ~x.stale
      PROVE  \E i \in 1 .. Len(Feed) : Feed[i].trace = x.trace /\ Feed[i].id = x.span
  <2>1. x = [trace |-> current, span |-> SelectedSpan, meant |-> meant, stale |-> stale]
    BY <1>2 DEF SubmitComment
  <2>2. x.trace = current /\ x.span = SelectedSpan /\ ~stale
    BY <1>2, <2>1
  <2>3. /\ tab = "Detail" /\ sel[tab] \in 1 .. Len(waterfall)
        /\ SelectedSpan = RowsOf(tab)[sel[tab]].id
    BY <1>2, <2>2 DEF SelectedSpan
  <2>4. RowsOf(tab) = waterfall
    BY <2>3, TuiAssumption DEF RowsOf, TuiAssumption, Views
  <2>5. waterfall \in Seq(Range(Feed)) /\ waterfall[sel[tab]].trace = current
    BY <2>2, <2>3 DEF ShownInv, DetailIsOfOneTrace
  <2>6. waterfall[sel[tab]] \in Range(Feed)
    BY <2>3, <2>5, ElementOfSeq
  <2>7. Len(Feed) \in Nat /\ DOMAIN Feed = 1 .. Len(Feed)
    BY TuiAssumption, LenProperties DEF TuiAssumption
  <2>8. PICK i \in 1 .. Len(Feed) : waterfall[sel[tab]] = Feed[i]
    BY <2>6, <2>7 DEF Range
  <2> QED BY <2>2, <2>3, <2>4, <2>5, <2>8
<1>3. SpansAreOfTheTrace'
  BY <1>2 DEF ShownInv, SpansAreOfTheTrace
<1>4. DetailIsOfOneTrace'
  BY <1>1 DEF ShownInv, DetailIsOfOneTrace
<1> QED BY <1>1, <1>3, <1>4 DEF ShownInv

\* Every step of the loop keeps what is shown.
LEMMA ShownSteps ==
  ASSUME ShownInv, [TuiNext]_tuiVars
  PROVE  ShownInv'
<1> USE DEF Here, detail, Still, server
<1>1. ASSUME NEW a \in BOOLEAN, NEW b \in BOOLEAN, OpenTrace(a, b)
      PROVE  ShownInv'
  <2>1. tab # "Detail"
    BY <1>1, TuiAssumption DEF OpenTrace, TuiAssumption, Views
  <2>2. LoadTrace(SelectedTrace(tab), a, b) /\ published' = published
    BY <1>1 DEF OpenTrace
  <2> QED BY <2>1, <2>2, TraceLoaded
<1>2. ASSUME NEW a \in BOOLEAN, NEW b \in BOOLEAN, NEW c \in BOOLEAN, SubmitComment(a, b, c)
      PROVE  ShownInv'
  BY <1>2, CommentSent
<1>3. CASE OpenService
  BY <1>3, NothingShown DEF OpenService
<1>4. CASE BeginComment
  BY <1>4, NothingShown DEF BeginComment
<1>5. CASE CancelInput
  BY <1>5, NothingShown DEF CancelInput
<1>6. CASE Back
  BY <1>6, NothingShown DEF Back, ShownInv
<1>7. CASE OpenInput
  BY <1>7, NothingShown DEF OpenInput
<1>8. CASE Switch
  BY <1>8, NothingShown DEF Switch
<1>9. ASSUME NEW text, SetFilter(text)
      PROVE  ShownInv'
  BY <1>9, NothingShown DEF SetFilter
<1>10. ASSUME NEW t \in Tabs, GoTo(t)
       PROVE  ShownInv'
  BY <1>10, NothingShown DEF GoTo
<1>11. ASSUME NEW b \in BOOLEAN, RefreshPanel(b)
       PROVE  ShownInv'
  <2>1. /\ UNCHANGED <<prevTab, sent, detail, server>> /\ tab' = tab
    BY <1>11 DEF RefreshPanel
  <2> QED BY <2>1, NothingShown
<1>12. ASSUME NEW b \in BOOLEAN, Move(b)
       PROVE  ShownInv'
  BY <1>12, NothingShown DEF Move
<1>13. ASSUME NEW outcome, RefreshEvals(outcome)
       PROVE  ShownInv'
  BY <1>13, NothingShown DEF RefreshEvals
<1>14. CASE Connect \/ Publish \/ NewRun \/ IngestSse
  BY <1>14, NothingShown DEF Connect, Publish, NewRun, IngestSse
<1>15. ASSUME NEW a, NEW b, NEW outcome, PollInitial(a, b, outcome)
       PROVE  ShownInv'
  BY <1>15, NothingShown DEF PollInitial
<1>16. ASSUME NEW a, NEW outcome, Tick(a, outcome)
       PROVE  ShownInv'
  BY <1>16, NothingShown DEF Tick
<1>17. CASE UNCHANGED tuiVars
  BY <1>17, NothingShown DEF tuiVars
<1> QED BY <1>1, <1>2, <1>3, <1>4, <1>5, <1>6, <1>7, <1>8, <1>9, <1>10, <1>11, <1>12, <1>13, <1>14, <1>15,
           <1>16, <1>17 DEF TuiNext, Key

LEMMA ShownAtStart == TuiInit => ShownInv
<1> SUFFICES ASSUME TuiInit PROVE ShownInv
  OBVIOUS
<1>1. PICK s \in Starts : published = s[1]
  BY DEF TuiInit
<1>2. s[1] \in 0 .. Len(Feed) /\ Len(Feed) \in Nat
  BY TuiAssumption, LenProperties DEF TuiAssumption
<1>3. published \in 0 .. Len(Feed) /\ s[1] <= published
  BY <1>1, <1>2
<1>4. /\ prevTab # "Detail" /\ waterfall \in Seq(Range(Feed)) /\ tab # "Detail" /\ sent = {}
  BY DEF TuiInit
<1> QED BY <1>3, <1>4 DEF ShownInv, DetailIsOfOneTrace, SpansAreOfTheTrace

-----------------------------------------------------------------------------
(* The terminal UI: what is typed.                                         *)

\* While a comment is typed the open trace stays what it was meant for.
TypedFor == mode = "comment" => meant = current

TuiInv == TypedFor /\ OnlyToTheMeant /\ DOMAIN panel = Panels /\ NoFailureIsHidden(Panels \ {"Automation"})

\* A step that types no comment, sends none and fetches no panel.
LEMMA NothingTyped ==
  ASSUME TuiInv, sent' = sent, panel' = panel,
         \/ mode' # "comment"
         \/ mode' = mode /\ meant' = meant /\ current' = current
  PROVE  TuiInv'
BY DEF TuiInv, TypedFor, OnlyToTheMeant, NoFailureIsHidden

\* A panel that is fetched.
LEMMA PanelFetched ==
  ASSUME TuiInv, NEW p \in Panels, NEW answers \in AnswersOf(p), NEW rows, Refresh(p, answers, rows),
         sent' = sent, mode' # "comment"
  PROVE  TuiInv'
<1> DEFINE made == IF p = "Health" /\ ~answers[1] THEN 1 ELSE Len(answers)
           new  == Record(p, answers, rows)
<1>1. panel' = [panel EXCEPT ![p] = new]
  BY DEF Refresh
<1>2. new.failed = ~answers[made] /\ new.missed = (\E i \in 1 .. made : ~answers[i])
  BY DEF Record
<1>3. p # "Automation" => (new.missed => new.failed)
  <2> SUFFICES ASSUME p # "Automation", new.missed PROVE new.failed
    OBVIOUS
  <2>0. PICK i \in 1 .. made : ~answers[i]
    BY <1>2
  <2>1. CASE p = "Health" /\ ~answers[1]
    <3>1. made = 1
      BY <2>1
    <3> QED BY <1>2, <2>1, <3>1
  <2>2. CASE p = "Health" /\ answers[1]
    <3>1. answers \in [1 .. 2 -> BOOLEAN] /\ Len(answers) = 2
      BY <2>2 DEF AnswersOf, Requests
    <3>2. made = 2
      BY <2>2, <3>1
    <3>3. i = 2
      <4>1. i # 1
        BY <2>0, <2>2
      <4>2. i \in 1 .. 2
        BY <2>0, <3>2
      <4> QED BY <4>1, <4>2
    <3> QED BY <1>2, <2>0, <3>2, <3>3
  <2>3. CASE p # "Health"
    <3>1. answers \in [1 .. 1 -> BOOLEAN] /\ Len(answers) = 1
      BY <2>3 DEF AnswersOf, Requests
    <3>2. made = 1
      BY <2>3, <3>1
    <3>3. i = 1
      <4>1. i \in 1 .. 1
        BY <2>0, <3>2
      <4> QED BY <4>1
    <3> QED BY <1>2, <2>0, <3>2, <3>3
  <2> QED BY <2>1, <2>2, <2>3
<1> HIDE DEF new
<1>4. ASSUME NEW q \in Panels \ {"Automation"}
      PROVE  panel'[q].missed => panel'[q].failed
  <2>1. CASE q = p
    BY <1>1, <1>3, <2>1 DEF TuiInv
  <2>2. CASE q # p
    BY <1>1, <2>2 DEF TuiInv, NoFailureIsHidden
  <2> QED BY <2>1, <2>2
<1>5. DOMAIN panel' = Panels
  BY <1>1 DEF TuiInv
<1> QED BY <1>4, <1>5 DEF TuiInv, TypedFor, OnlyToTheMeant, NoFailureIsHidden

\* Every step of the loop keeps it.
LEMMA TuiSteps ==
  ASSUME TuiInv, [TuiNext]_tuiVars
  PROVE  TuiInv'
<1> USE DEF Here, detail, Still
<1>1. ASSUME NEW a \in BOOLEAN, NEW b \in BOOLEAN, OpenTrace(a, b)
      PROVE  TuiInv'
  BY <1>1, NothingTyped DEF OpenTrace, LoadTrace, Normal
<1>2. ASSUME NEW a \in BOOLEAN, NEW b \in BOOLEAN, NEW c \in BOOLEAN, SubmitComment(a, b, c)
      PROVE  TuiInv'
  <2>1. mode = "comment" /\ mode' = "normal" /\ panel' = panel
    BY <1>2 DEF SubmitComment
  <2>2. ASSUME NEW x \in sent', x \notin sent
        PROVE  x.trace = x.meant
    <3>1. x = [trace |-> current, span |-> SelectedSpan, meant |-> meant, stale |-> stale]
      BY <1>2, <2>2 DEF SubmitComment
    <3>2. x.trace = current /\ x.meant = meant
      BY <3>1
    <3> QED BY <2>1, <3>2 DEF TuiInv, TypedFor
  <2>3. OnlyToTheMeant'
    BY <2>2 DEF TuiInv, OnlyToTheMeant
  <2> QED BY <2>1, <2>3 DEF TuiInv, TypedFor, NoFailureIsHidden
<1>3. CASE OpenService
  BY <1>3, NothingTyped DEF OpenService, Normal
<1>4. CASE BeginComment
  BY <1>4 DEF BeginComment, TuiInv, TypedFor, OnlyToTheMeant, NoFailureIsHidden
<1>5. CASE CancelInput
  BY <1>5, NothingTyped DEF CancelInput
<1>6. CASE Back
  BY <1>6, NothingTyped DEF Back, Normal
<1>7. CASE OpenInput
  BY <1>7, NothingTyped DEF OpenInput, Normal
<1>8. CASE Switch
  BY <1>8, NothingTyped DEF Switch, Normal
<1>9. ASSUME NEW text, SetFilter(text)
      PROVE  TuiInv'
  BY <1>9, NothingTyped DEF SetFilter
<1>10. ASSUME NEW t \in Tabs, GoTo(t)
       PROVE  TuiInv'
  <2>1. mode' # "comment" /\ sent' = sent
    BY <1>10 DEF GoTo, Normal
  <2>2. CASE t \in Panels /\ ~panel[t].loaded
    <3>1. PICK answers \in AnswersOf(t), rows \in RowsFound(t) : Refresh(t, answers, rows)
      BY <1>10, <2>2 DEF GoTo
    <3> QED BY <2>1, <2>2, <3>1, PanelFetched
  <2>3. CASE ~(t \in Panels /\ ~panel[t].loaded)
    BY <1>10, <2>1, <2>3, NothingTyped DEF GoTo
  <2> QED BY <2>2, <2>3
<1>11. ASSUME NEW b \in BOOLEAN, RefreshPanel(b)
       PROVE  TuiInv'
  <2>1. tab \in Panels /\ mode' = "normal" /\ sent' = sent
    BY <1>11 DEF RefreshPanel
  <2>2. PICK answers \in AnswersOf(tab), rows \in RowsFound(tab) : Refresh(tab, answers, rows)
    BY <1>11 DEF RefreshPanel
  <2> QED BY <2>1, <2>2, PanelFetched
<1>12. ASSUME NEW b \in BOOLEAN, Move(b)
       PROVE  TuiInv'
  BY <1>12, NothingTyped DEF Move, Normal
<1>13. ASSUME NEW outcome, RefreshEvals(outcome)
       PROVE  TuiInv'
  BY <1>13, NothingTyped DEF RefreshEvals, Normal
<1>14. CASE Connect \/ Publish \/ NewRun \/ IngestSse
  BY <1>14, NothingTyped DEF Connect, Publish, NewRun, IngestSse
<1>15. ASSUME NEW a, NEW b, NEW outcome, PollInitial(a, b, outcome)
       PROVE  TuiInv'
  BY <1>15, NothingTyped DEF PollInitial
<1>16. ASSUME NEW a, NEW outcome, Tick(a, outcome)
       PROVE  TuiInv'
  BY <1>16, NothingTyped DEF Tick
<1>17. CASE UNCHANGED tuiVars
  BY <1>17, NothingTyped DEF tuiVars
<1> QED BY <1>1, <1>2, <1>3, <1>4, <1>5, <1>6, <1>7, <1>8, <1>9, <1>10, <1>11, <1>12, <1>13, <1>14, <1>15,
           <1>16, <1>17 DEF TuiNext, Key

\* A step opens the highlighted trace, or opens none.
LEMMA OpensOrNot ==
  ASSUME TuiAssumption, [TuiNext]_tuiVars
  PROVE  Opens(Tabs \ {"Timeline"})
<1> SUFFICES ASSUME tab \in Tabs \ {"Timeline"}, tab' = "Detail", Highlighted # None
             PROVE  current' = Highlighted
  BY DEF Opens
<1>1. tab # "Detail"
  BY DEF Highlighted, TuiAssumption, Views
<1>2. PICK a \in BOOLEAN, b \in BOOLEAN : OpenTrace(a, b)
  BY <1>1 DEF TuiNext, Key, SubmitComment, OpenService, BeginComment, CancelInput, Back, OpenInput, Switch,
      SetFilter, GoTo, RefreshPanel, Move, RefreshEvals, Connect, Publish, NewRun, IngestSse, PollInitial, Tick,
      Here, tuiVars
<1>3. current' = SelectedTrace(tab) /\ tab \in {"Traces", "Evals"} \cup Panels
  BY <1>2 DEF OpenTrace, LoadTrace
<1>4. Highlighted = SelectedTrace(tab)
  <2>1. CASE tab \in Panels
    <3>1. tab \notin {"Services", "Detail", "Timeline"}
      BY <2>1 DEF TuiAssumption, Views
    <3>2. Highlighted = IF panel[tab].failed THEN None ELSE SelectedTrace(tab)
      BY <2>1, <3>1 DEF Highlighted
    <3> QED BY <3>2
  <2>2. CASE tab \in {"Traces", "Evals"}
    <3>1. tab \notin Panels
      BY <2>2 DEF TuiAssumption, Views
    <3> QED BY <2>2, <3>1 DEF Highlighted
  <2> QED BY <1>3, <2>1, <2>2
<1> QED BY <1>3, <1>4

\* The terminal UI: a comment goes to the trace that was open, or whose case was selected, when
\* its typing began (submit_comment), and its span is one of that trace; the trace view has the
\* spans of the one trace that was opened, each once (load_trace, build_waterfall); a panel one
\* of whose requests failed says so (tui_panels.rs); and Enter opens what is highlighted.
THEOREM TuiHonest == TuiSpec => TuiIsHonest
<1> DEFINE Honest == CommentsGoWhereMeant /\ DetailIsOfOneTrace /\ NoFailureIsHidden(Panels \ {"Automation"})
<1>1. TuiInit => TuiInv /\ ShownInv
  BY ShownAtStart DEF TuiInit, TuiInv, TypedFor, OnlyToTheMeant, NoFailureIsHidden
<1>2. TuiInv /\ ShownInv /\ [TuiNext]_tuiVars => (TuiInv /\ ShownInv)'
  BY TuiSteps, ShownSteps
<1>3. TuiInv /\ ShownInv => Honest
  BY DEF TuiInv, ShownInv, CommentsGoWhereMeant, SpansAreOfTheTrace
<1>4. [TuiNext]_tuiVars => [Opens(Tabs \ {"Timeline"})]_tuiVars
  BY OpensOrNot, TuiAssumption
<1> QED BY <1>1, <1>2, <1>3, <1>4, PTL DEF TuiSpec, TuiIsHonest, OpensTheHighlighted

-----------------------------------------------------------------------------
(* The terminal UI: types.                                                 *)

\* What is received is from the feed, and the live traces are a list.
ListsOK ==
  /\ queue \in Seq(Range(Feed)) /\ spans \in Seq(Range(Feed))
  /\ live \in Seq(Range(live))

\* The image of a finite set under a function is finite.
LEMMA FiniteImage ==
  ASSUME NEW S, IsFiniteSet(S), NEW f, DOMAIN f = S, f = [x \in S |-> f[x]]
  PROVE  IsFiniteSet({f[x] : x \in S})
<1> DEFINE T == {f[x] : x \in S}
<1>1. f \in Surjection(S, T)
  BY DEF Surjection
<1> HIDE DEF T
<1>2. IsFiniteSet(T)
  BY <1>1, FS_Surjection
<1> QED BY <1>2 DEF T

\* A sequence holds a finite set.
LEMMA FiniteRange ==
  ASSUME NEW S, NEW s \in Seq(S)
  PROVE  IsFiniteSet(Range(s))
<1>1. DOMAIN s = 1 .. Len(s) /\ Len(s) \in Nat /\ s = [i \in 1 .. Len(s) |-> s[i]]
  BY LenProperties
<1>2. IsFiniteSet(1 .. Len(s))
  <2>1. 1 \in Int /\ Len(s) \in Int
    BY <1>1
  <2> QED BY <2>1, FS_Interval
<1>3. IsFiniteSet({s[i] : i \in 1 .. Len(s)})
  <2> DEFINE D == 1 .. Len(s)
  <2>1. IsFiniteSet(D) /\ DOMAIN s = D /\ s = [i \in D |-> s[i]]
    BY <1>1, <1>2
  <2> HIDE DEF D
  <2>2. IsFiniteSet({s[i] : i \in D})
    BY <2>1, FiniteImage
  <2> QED BY <2>2 DEF D
<1>4. Range(s) = {s[i] : i \in 1 .. Len(s)}
  BY <1>1 DEF Range
<1> QED BY <1>3, <1>4

\* A batch leaves one row for each trace.
LEMMA OneRowEach ==
  ASSUME ListsOK, NEW batch \in Seq(Range(Feed))
  PROVE  /\ IsFiniteSet(RowsWith(batch))
         /\ \A r1, r2 \in RowsWith(batch) : r1.trace = r2.trace => r1 = r2
<1> DEFINE old == {row.trace : row \in Range(live)}
           new == {span.trace : span \in Range(batch)}
<1>1. IsFiniteSet(old)
  <2> DEFINE f == [row \in Range(live) |-> row.trace]
  <2>1. IsFiniteSet(Range(live))
    BY FiniteRange DEF ListsOK
  <2>2. DOMAIN f = Range(live) /\ f = [x \in Range(live) |-> f[x]]
    OBVIOUS
  <2>3. old = {f[x] : x \in Range(live)}
    OBVIOUS
  <2> HIDE DEF f, old
  <2> QED BY <2>1, <2>2, <2>3, FiniteImage
<1>2. IsFiniteSet(new)
  <2> DEFINE f == [span \in Range(batch) |-> span.trace]
  <2>1. IsFiniteSet(Range(batch))
    BY FiniteRange
  <2>2. DOMAIN f = Range(batch) /\ f = [x \in Range(batch) |-> f[x]]
    OBVIOUS
  <2>3. new = {f[x] : x \in Range(batch)}
    OBVIOUS
  <2> HIDE DEF f, new
  <2> QED BY <2>1, <2>2, <2>3, FiniteImage
<1>3. IsFiniteSet(old \cup new)
  <2> HIDE DEF old, new
  <2> QED BY <1>1, <1>2, FS_Union
<1>4. RowsWith(batch) = {Row(t, batch) : t \in old \cup new}
  BY DEF RowsWith
<1> HIDE DEF old, new
<1>5. IsFiniteSet(RowsWith(batch))
  <2> DEFINE T == old \cup new
             f == [t \in T |-> Row(t, batch)]
  <2>1. DOMAIN f = T /\ f = [x \in T |-> f[x]]
    OBVIOUS
  <2>2. RowsWith(batch) = {f[x] : x \in T}
    BY <1>4
  <2>3. IsFiniteSet(T)
    BY <1>3
  <2> HIDE DEF f, T
  <2> QED BY <2>1, <2>2, <2>3, FiniteImage
<1>6. \A t : Row(t, batch).trace = t
  BY DEF Row
<1>7. \A r1, r2 \in RowsWith(batch) : r1.trace = r2.trace => r1 = r2
  BY <1>4, <1>6
<1> QED BY <1>5, <1>7

\* The rows that are left are no more than the cap, in order, each of a trace of its own.
LEMMA LatestOK ==
  ASSUME NEW rows, IsFiniteSet(rows), \A r1, r2 \in rows : r1.trace = r2.trace => r1 = r2,
         NEW l \in Latest(rows)
  PROVE  /\ l \in Seq(Range(l)) /\ Len(l) <= MaxLiveTraces
         /\ \A i, j \in 1 .. Len(l) : i < j => l[i].start <= l[j].start /\ l[i].trace # l[j].trace
<1> DEFINE n == Cardinality(rows)
<1>1. n \in Nat
  BY FS_CardinalityType
<1>2. PICK s \in Sorted(rows) : l = SubSeq(s, Max({1, Len(s) - MaxLiveTraces + 1}), Len(s))
  BY DEF Latest
<1> HIDE DEF n
<1>3. /\ s \in [1 .. n -> rows] /\ IsInjective(s)
      /\ \A i, j \in DOMAIN s : i < j => s[i].start <= s[j].start
  BY <1>2 DEF Sorted, n
<1>4. s \in Seq(rows) /\ Len(s) = n /\ DOMAIN s = 1 .. n
  BY <1>1, <1>3
<1>5. PICK from \in Nat \ {0} : from >= n - MaxLiveTraces + 1 /\ l = SubSeq(s, from, n)
  <2>0. MaxLiveTraces \in Nat
    BY TuiAssumption DEF TuiAssumption
  <2> DEFINE k == n - MaxLiveTraces + 1
  <2>1. k \in Int
    BY <1>1, <2>0
  <2>2. \E m \in {1, k} : \A x \in {1, k} : x <= m
    BY <2>1
  <2> DEFINE m == Max({1, k})
  <2>3. m \in {1, k} /\ 1 <= m /\ k <= m
    BY <2>2, Zenon DEF Max
  <2>4. m \in Nat \ {0}
    BY <2>1, <2>3
  <2>5. l = SubSeq(s, m, n)
    BY <1>2, <1>4
  <2> HIDE DEF m
  <2> QED BY <2>1, <2>3, <2>4, <2>5
<1>6. \A i \in from .. n : s[i] \in rows
  BY <1>3, <1>5
<1>7. /\ l \in Seq(rows)
      /\ Len(l) = IF from <= n THEN n - from + 1 ELSE 0
      /\ \A i \in 1 .. n - from + 1 : l[i] = s[from + i - 1]
  BY <1>1, <1>5, <1>6, SubSeqProperties
<1>8. l \in Seq(Range(l))
  <2>1. DOMAIN l = 1 .. Len(l) /\ Len(l) \in Nat /\ l = [i \in 1 .. Len(l) |-> l[i]]
    BY <1>7, LenProperties
  <2>2. \A i \in 1 .. Len(l) : l[i] \in Range(l)
    BY <2>1 DEF Range
  <2> QED BY <2>1, <2>2
<1>9. Len(l) <= MaxLiveTraces
  BY <1>1, <1>5, <1>7, TuiAssumption DEF TuiAssumption
<1>10. ASSUME NEW i \in 1 .. Len(l), NEW j \in 1 .. Len(l), i < j
       PROVE  l[i].start <= l[j].start /\ l[i].trace # l[j].trace
  <2>1. i \in 1 .. n - from + 1 /\ j \in 1 .. n - from + 1
    BY <1>1, <1>5, <1>7
  <2>2. from + i - 1 \in 1 .. n /\ from + j - 1 \in 1 .. n /\ from + i - 1 < from + j - 1
    BY <1>1, <1>5, <1>10, <2>1
  <2>3. l[i] = s[from + i - 1] /\ l[j] = s[from + j - 1]
    BY <1>7, <2>1
  <2>4. s[from + i - 1] # s[from + j - 1]
    BY <1>3, <1>4, <2>2 DEF IsInjective
  <2> QED BY <1>3, <1>4, <2>2, <2>3, <2>4
<1> QED BY <1>8, <1>9, <1>10

Listed == ListsOK /\ TuiTypeOK

\* A step that leaves the lists as they are.
LEMMA NothingListed ==
  ASSUME Listed, UNCHANGED <<queue, lists>>, tab' \in Tabs, prevTab' \in Tabs \ {"Detail"},
         mode' \in {"normal", "viewer", "sql", "filter", "comment"}
  PROVE  Listed'
BY DEF Listed, ListsOK, TuiTypeOK, lists

\* A step that takes up a batch of spans.
LEMMA BatchListed ==
  ASSUME Listed, NEW batch \in Seq(Range(Feed)), UpdateLive(batch), queue' \in Seq(Range(Feed)),
         spans' \in Seq(Range(Feed)), Len(spans') <= MaxLiveSpans \/ Len(spans') <= Len(Feed),
         UNCHANGED <<tab, prevTab, mode>>
  PROVE  Listed'
<1>1. live' \in Latest(RowsWith(batch))
  BY DEF UpdateLive
<1>2. IsFiniteSet(RowsWith(batch)) /\ \A r1, r2 \in RowsWith(batch) : r1.trace = r2.trace => r1 = r2
  BY OneRowEach DEF Listed
<1>3. /\ live' \in Seq(Range(live')) /\ Len(live') <= MaxLiveTraces
      /\ \A i, j \in 1 .. Len(live') :
           i < j => live'[i].start <= live'[j].start /\ live'[i].trace # live'[j].trace
  BY <1>1, <1>2, LatestOK
<1> QED BY <1>3 DEF Listed, ListsOK, TuiTypeOK

\* A span is published on the live stream.
LEMMA PublishLists ==
  ASSUME Listed, ShownInv, Publish
  PROVE  Listed'
<1>1. Len(Feed) \in Nat /\ DOMAIN Feed = 1 .. Len(Feed)
  BY TuiAssumption, LenProperties DEF TuiAssumption
<1>2. published' \in 1 .. Len(Feed)
  BY <1>1 DEF Publish, ShownInv
<1>3. Feed[published'] \in Range(Feed)
  BY <1>1, <1>2 DEF Range
<1>4. queue' \in Seq(Range(Feed))
  BY <1>3, AppendProperties DEF Publish, Listed, ListsOK
<1>5. UNCHANGED <<lists, tab, prevTab, mode>>
  BY DEF Publish, Here
<1> QED BY <1>4, <1>5 DEF Listed, ListsOK, TuiTypeOK, lists

\* A message of the live stream is taken.
LEMMA MessageLists ==
  ASSUME Listed, IngestSse
  PROVE  Listed'
<1>1. queue \in Seq(Range(Feed)) /\ queue # <<>> /\ spans \in Seq(Range(Feed))
  BY DEF IngestSse, Listed, ListsOK
<1>2. Head(queue) \in Range(Feed) /\ queue' \in Seq(Range(Feed))
  BY <1>1, HeadTailProperties DEF IngestSse
<1>3. UNCHANGED <<tab, prevTab, mode>>
  BY DEF IngestSse, Here
<1>4. CASE paused
  BY <1>2, <1>3, <1>4 DEF IngestSse, Listed, ListsOK, TuiTypeOK, lists
<1>5. CASE ~paused
  <2> DEFINE batch == <<Head(queue)>>
             all   == batch \o spans
             kept  == Min({MaxLiveSpans, Len(spans) + 1})
  <2>1. batch \in Seq(Range(Feed)) /\ Len(batch) = 1
    BY <1>2
  <2>2. all \in Seq(Range(Feed)) /\ Len(all) = Len(spans) + 1 /\ Len(spans) \in Nat
    BY <1>1, <2>1, ConcatProperties, LenProperties
  <2>3. kept \in Nat /\ kept <= MaxLiveSpans /\ kept <= Len(all)
    <3> DEFINE n == Len(spans) + 1
    <3>1. n \in Nat /\ MaxLiveSpans \in Nat
      BY <2>2, TuiAssumption DEF TuiAssumption
    <3>2. \E m \in {MaxLiveSpans, n} : \A x \in {MaxLiveSpans, n} : m <= x
      BY <3>1
    <3>3. kept = CHOOSE m \in {MaxLiveSpans, n} : \A x \in {MaxLiveSpans, n} : m <= x
      BY DEF Min
    <3> HIDE DEF kept
    <3>4. kept \in {MaxLiveSpans, n} /\ kept <= MaxLiveSpans /\ kept <= n
      BY <3>2, <3>3, Zenon
    <3> QED BY <2>2, <3>1, <3>4
  <2>4. UpdateLive(batch) /\ spans' = SubSeq(all, 1, kept)
    BY <1>5 DEF IngestSse
  <2> HIDE DEF batch, all, kept
  <2>5. \A i \in 1 .. kept : all[i] \in Range(Feed)
    BY <2>2, <2>3, LenProperties
  <2>6. spans' \in Seq(Range(Feed)) /\ Len(spans') = IF 1 <= kept THEN kept - 1 + 1 ELSE 0
    BY <2>3, <2>4, <2>5, SubSeqProperties
  <2>7. Len(spans') <= MaxLiveSpans
    BY <2>3, <2>6, TuiAssumption DEF TuiAssumption
  <2> QED BY <1>2, <1>3, <2>1, <2>4, <2>6, <2>7, BatchListed
<1> QED BY <1>4, <1>5

\* The spans that are there at the start are fetched.
LEMMA PollLists ==
  ASSUME Listed, ShownInv, NEW a, NEW b, NEW outcome, PollInitial(a, b, outcome)
  PROVE  Listed'
<1>1. UNCHANGED <<tab, prevTab, mode, queue>>
  BY DEF PollInitial, Here
<1>2. CASE ~a
  <2>1. UNCHANGED lists
    BY <1>2 DEF PollInitial
  <2> QED BY <1>1, <2>1 DEF Listed, ListsOK, TuiTypeOK, lists
<1>3. CASE a
  <2> DEFINE first == SubSeq(Feed, 1, published)
             there == Reverse(first)
  <2>1. Feed \in Seq(Range(Feed)) /\ Len(Feed) \in Nat /\ Feed \in [1 .. Len(Feed) -> Range(Feed)]
    BY TuiAssumption, LenProperties DEF TuiAssumption
  <2>2. published \in Nat /\ published <= Len(Feed)
    BY <2>1 DEF ShownInv
  <2>3. \A i \in 1 .. published : Feed[i] \in Range(Feed)
    BY <2>1, <2>2
  <2>4. first \in Seq(Range(Feed)) /\ Len(first) = IF 1 <= published THEN published - 1 + 1 ELSE 0
    BY <2>2, <2>3, SubSeqProperties
  <2>5. UpdateLive(there) /\ spans' = there
    BY <1>3 DEF PollInitial
  <2> HIDE DEF first
  <2>6. there \in Seq(Range(Feed)) /\ Len(there) = Len(first)
    BY <2>4, ReverseOf
  <2>7. Len(there) <= Len(Feed)
    BY <2>1, <2>2, <2>4, <2>6
  <2>8. queue' \in Seq(Range(Feed))
    BY <1>1 DEF Listed, ListsOK
  <2> HIDE DEF there
  <2> QED BY <1>1, <2>5, <2>6, <2>7, <2>8, BatchListed
<1> QED BY <1>2, <1>3

\* Every step of the loop keeps the types.
LEMMA ListedSteps ==
  ASSUME Listed, ShownInv, [TuiNext]_tuiVars
  PROVE  Listed'
<1> USE DEF Here, Still, Tabs, Views
<1>0. /\ tab \in Tabs /\ prevTab \in Tabs \ {"Detail"}
      /\ mode \in {"normal", "viewer", "sql", "filter", "comment"}
  BY DEF Listed, TuiTypeOK
<1>1. ASSUME NEW a \in BOOLEAN, NEW b \in BOOLEAN, OpenTrace(a, b)
      PROVE  Listed'
  <2>1. tab # "Detail"
    BY <1>1, TuiAssumption DEF OpenTrace, TuiAssumption
  <2> QED BY <1>0, <1>1, <2>1, NothingListed DEF OpenTrace, LoadTrace
<1>2. ASSUME NEW a \in BOOLEAN, NEW b \in BOOLEAN, NEW c \in BOOLEAN, SubmitComment(a, b, c)
      PROVE  Listed'
  BY <1>0, <1>2, NothingListed DEF SubmitComment
<1>3. CASE OpenService
  BY <1>0, <1>3, NothingListed DEF OpenService
<1>4. CASE BeginComment
  BY <1>0, <1>4, NothingListed DEF BeginComment
<1>5. CASE CancelInput
  BY <1>0, <1>5, NothingListed DEF CancelInput
<1>6. CASE Back
  BY <1>0, <1>6, NothingListed DEF Back
<1>7. CASE OpenInput
  BY <1>0, <1>7, NothingListed DEF OpenInput
<1>8. CASE Switch
  BY <1>0, <1>8, NothingListed DEF Switch
<1>9. ASSUME NEW text, SetFilter(text)
      PROVE  Listed'
  BY <1>0, <1>9, NothingListed DEF SetFilter
<1>10. ASSUME NEW t \in Tabs, GoTo(t)
       PROVE  Listed'
  BY <1>0, <1>10, NothingListed DEF GoTo
<1>11. ASSUME NEW b \in BOOLEAN, RefreshPanel(b)
       PROVE  Listed'
  <2>1. UNCHANGED <<queue, lists, prevTab, tab>> /\ mode' = "normal"
    BY <1>11 DEF RefreshPanel
  <2> QED BY <1>0, <2>1, NothingListed
<1>12. ASSUME NEW b \in BOOLEAN, Move(b)
       PROVE  Listed'
  BY <1>0, <1>12, NothingListed DEF Move
<1>13. ASSUME NEW outcome, RefreshEvals(outcome)
       PROVE  Listed'
  BY <1>0, <1>13, NothingListed DEF RefreshEvals
<1>14. CASE Connect \/ NewRun
  BY <1>0, <1>14, NothingListed DEF Connect, NewRun
<1>15. ASSUME NEW a, NEW outcome, Tick(a, outcome)
       PROVE  Listed'
  BY <1>0, <1>15, NothingListed DEF Tick
<1>16. CASE UNCHANGED tuiVars
  BY <1>0, <1>16, NothingListed DEF tuiVars
<1> QED BY <1>1, <1>2, <1>3, <1>4, <1>5, <1>6, <1>7, <1>8, <1>9, <1>10, <1>11, <1>12, <1>13, <1>14, <1>15,
           <1>16, PublishLists, MessageLists, PollLists DEF TuiNext, Key

LEMMA ListedAtStart == TuiInit => Listed
<1> SUFFICES ASSUME TuiInit PROVE Listed
  OBVIOUS
<1>1. queue = <<>> /\ spans = <<>> /\ live = <<>>
  BY DEF TuiInit
<1>2. Len(spans) = 0 /\ Len(live) = 0 /\ ListsOK
  BY <1>1 DEF ListsOK
<1> QED BY <1>2, TuiAssumption DEF TuiInit, Listed, TuiTypeOK, TuiAssumption, Tabs, Views

\* The types of the terminal UI: the lists keep their caps, and the live traces are in the order
\* of their starts, each once, whatever comes in (update_live_traces, rebuild_live_traces).
THEOREM TuiTypes == TuiSpec => []TuiTypeOK
<1>1. TuiInit => ShownInv /\ Listed
  BY ShownAtStart, ListedAtStart
<1>2. ShownInv /\ Listed /\ [TuiNext]_tuiVars => (ShownInv /\ Listed)'
  BY ShownSteps, ListedSteps
<1>3. Listed => TuiTypeOK
  BY DEF Listed
<1> QED BY <1>1, <1>2, <1>3, PTL DEF TuiSpec

-----------------------------------------------------------------------------
(* Both screens.                                                           *)

\* A behaviour of the two is one of each: the screen that is not the subject stands still.
LEMMA EachOfThem == Spec => TuiSpec /\ GuiSpec
<1>1. Init => TuiInit /\ GuiInit
  BY DEF Init
<1>2. [Next]_vars => [TuiNext]_tuiVars /\ [GuiNext]_guiVars
  BY DEF Next, vars
<1> QED BY <1>1, <1>2, PTL DEF Spec, TuiSpec, GuiSpec

\* The types of both screens at once.
THEOREM ClientTypes == Spec => []TypeOK
<1>1. TuiTypeOK /\ GuiTypeOK => TypeOK
  BY DEF TypeOK
<1> QED BY <1>1, EachOfThem, TuiTypes, GuiTypes, PTL
=============================================================================
