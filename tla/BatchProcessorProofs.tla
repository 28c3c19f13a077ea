------------------------ MODULE BatchProcessorProofs ------------------------
(***************************************************************************)
(* What BatchProcessor guarantees for every set of batches, every number   *)
(* of lines, attempts and crashes and every limit: its types, that no item *)
(* is sent by two lifetimes of the process, that a completed batch adds    *)
(* up, the limit on running batches, what a cancelled batch still sends,   *)
(* and that neither an outcome nor a recorded answer changes afterwards.   *)
(***************************************************************************)
EXTENDS BatchProcessor, FiniteSetTheorems, TLAPS

Statuses == {"absent", "validating", "in_progress", "finalizing", "cancelling"} \cup Ended

Rows == [status : Statuses, parses : BOOLEAN, total : 0..Items, ok : 0..Items, bad : 0..Items]

Checkpoints == [Lines -> {"none", "pending", "processing"} \cup Answers]

WorkerRecords ==
  [at : {"none", "starting", "waiting", "marked", "calling", "backoff",
         "finalizing", "closing"},
   line : 1..(Items + 1), tries : 0..MaxTries, ok : 0..Items, bad : 0..Items]

(* At one of the lines. *)
Steps == {"waiting", "marked", "calling", "backoff"}

(* A loop that is at an item has a line for it, and backs off only while it may
   try again. *)
Workers ==
  {w \in WorkerRecords : /\ w.at \in Steps => w.line \in Lines
                         /\ w.at = "backoff" => w.tries < MaxTries}

WellTyped ==
  /\ batch \in [Batches -> Rows]
  /\ item \in [Batches -> Checkpoints]
  /\ active \subseteq Batches
  /\ worker \in [Batches -> Workers]
  /\ overdue \subseteq Batches
  /\ sent \in [Batches -> [Lines -> Nat]]
  /\ after \in [Batches -> Nat]
  /\ crashes \in 0..MaxCrashes

(* A loop runs exactly for the batches of activeBatches, and its row says so:
   cancelled meanwhile at most, and finalizing only at the end. *)
RunningRow(b) ==
  /\ b \in active <=> worker[b].at # "none"
  /\ worker[b].at \notin {"none", "closing"} =>
       batch[b].status \in {"in_progress"} \cup Stopped
  /\ worker[b].at = "closing" => batch[b].status = "finalizing"
  /\ worker[b].at # "none" => batch[b].total = Items

(* Lines are sent in order: those before one that was taken up have an answer. *)
InOrder(b) ==
  \A i, j \in Lines : i < j /\ item[b][j] \in TakenOver => item[b][i] \in Answers

Counted(b, r) == r.ok = Count(b, {"succeeded"}) /\ r.bad = Count(b, {"failed"})

AllAnswered(b) == \A i \in Lines : item[b][i] \in Answers

(* The loop's line, its counts and the checkpoints agree. *)
OnTheLine(b) ==
  /\ worker[b].at # "none" => \A i \in Lines : item[b][i] # "none"
  /\ worker[b].at \in Steps =>
       /\ \A i \in Lines : item[b][i] \in Answers <=> i < worker[b].line
       /\ \A i \in Lines : item[b][i] = "processing" <=>
                             i = worker[b].line /\ worker[b].at # "waiting"
       /\ Counted(b, worker[b])
  /\ worker[b].at = "finalizing" /\ batch[b].status \notin Stopped =>
       AllAnswered(b) /\ Counted(b, worker[b])
  /\ worker[b].at = "closing" => AllAnswered(b) /\ Counted(b, batch[b])
  /\ batch[b].status = "completed" =>
       AllAnswered(b) /\ Counted(b, batch[b]) /\ batch[b].total = Items

(* A row of an earlier version: its items may have been sent, nothing tells which,
   and it is never started. *)
Untracked(b) ==
  /\ \A i \in Lines : item[b][i] = "none" /\ sent[b][i] <= 1
  /\ worker[b].at = "none" /\ batch[b].total > 0
  /\ batch[b].status \in {"in_progress", "failed"} \cup Stopped

(* What was sent has a checkpoint that says so, written before. *)
SentIsMarked(b) ==
  \/ Untracked(b)
  \/ /\ \A i \in Lines : sent[b][i] <= IF item[b][i] \in TakenOver THEN 1 ELSE 0
     /\ worker[b].at = "marked" => sent[b][worker[b].line] = 0

(* An item sent after the cancel request is the last one. *)
LastAfterCancel(b) ==
  /\ after[b] <= 1
  /\ after[b] > 0 => /\ batch[b].status \in Stopped
                     /\ worker[b].at \in {"none", "calling", "backoff", "finalizing"}

BatchInv(b) ==
  RunningRow(b) /\ InOrder(b) /\ OnTheLine(b) /\ SentIsMarked(b) /\ LastAfterCancel(b)

IInv ==
  /\ WellTyped
  /\ \A b \in Batches : BatchInv(b)
  /\ Cardinality(active) <= MaxConcurrent

-----------------------------------------------------------------------------
(* Counting checkpoints *)

CountOf(it, S) == Cardinality({i \in Lines : it[i] \in S})

LEMMA LinesFinite == IsFiniteSet(Lines) /\ Cardinality(Lines) = Items
<1>1. Items \in Nat /\ Items >= 1 /\ 1 \in Int /\ Items \in Int
  BY BatchAssumption
<1>2. IsFiniteSet(1..Items) /\ Cardinality(1..Items) = IF 1 > Items THEN 0 ELSE Items - 1 + 1
  BY <1>1, FS_Interval
<1> QED
  BY <1>1, <1>2 DEF Lines

(* A count of checkpoints is at most the number of lines. *)
LEMMA CountType ==
  ASSUME NEW it, NEW S
  PROVE  /\ IsFiniteSet({i \in Lines : it[i] \in S})
         /\ CountOf(it, S) \in 0..Items
<1> DEFINE T == {i \in Lines : it[i] \in S}
<1>1. T \in SUBSET Lines
  OBVIOUS
<1> HIDE DEF T
<1>2. IsFiniteSet(T) /\ Cardinality(T) <= Items
  BY <1>1, LinesFinite, FS_Subset
<1>3. Cardinality(T) \in Nat
  BY <1>2, FS_CardinalityType
<1>4. Cardinality(T) \in 0..Items
  BY <1>2, <1>3, BatchAssumption
<1> QED
  BY <1>2, <1>4 DEF T, CountOf

(* Writing a checkpoint that was not counted adds one to the count, or nothing. *)
LEMMA CountWrite ==
  ASSUME NEW it, NEW S, NEW l \in Lines, NEW a, it[l] \notin S,
         NEW jt, \A i \in Lines : jt[i] = IF i = l THEN a ELSE it[i]
  PROVE  /\ a \in S => CountOf(jt, S) = CountOf(it, S) + 1
         /\ a \notin S => CountOf(jt, S) = CountOf(it, S)
<1> DEFINE T == {i \in Lines : it[i] \in S}
           U == {i \in Lines : jt[i] \in S}
<1>1. IsFiniteSet(T) /\ l \notin T
  BY CountType
<1>2. U = IF a \in S THEN T \cup {l} ELSE T
  OBVIOUS
<1> HIDE DEF T, U
<1>3. Cardinality(T \cup {l}) = Cardinality(T) + 1
  BY <1>1, FS_AddElement
<1>4. /\ a \in S => Cardinality(U) = Cardinality(T) + 1
      /\ a \notin S => Cardinality(U) = Cardinality(T)
  BY <1>2, <1>3
<1> QED
  BY <1>4 DEF T, U, CountOf

(* If the lines of a kind come first, their count tells them apart. *)
LEMMA CountFirst ==
  ASSUME NEW it, NEW S,
         \A i, j \in Lines : i < j /\ it[j] \in S => it[i] \in S
  PROVE  \A i \in Lines : it[i] \in S <=> i < CountOf(it, S) + 1
<1> DEFINE T == {i \in Lines : it[i] \in S}
           n == Cardinality(T)
<1>1. IsFiniteSet(T) /\ n \in 0..Items
  BY CountType DEF CountOf
<1>2. T \subseteq Lines /\ \A i, j \in Lines : i < j /\ j \in T => i \in T
  OBVIOUS
<1> HIDE DEF T
<1>3. \A k \in Nat : IsFiniteSet(1..k) /\ Cardinality(1..k) = k
  <2> TAKE k \in Nat
  <2>1. 1 \in Int /\ k \in Int
    OBVIOUS
  <2>2. IsFiniteSet(1..k) /\ Cardinality(1..k) = IF 1 > k THEN 0 ELSE k - 1 + 1
    BY <2>1, FS_Interval
  <2> QED
    BY <2>2
<1>4. T \subseteq 1..n
  <2> SUFFICES ASSUME NEW j \in T PROVE j \in 1..n
    OBVIOUS
  <2>1. j \in Nat /\ j >= 1
    BY <1>2 DEF Lines
  <2>2. 1..j \subseteq T
    BY <1>2, <2>1, BatchAssumption DEF Lines
  <2>3. Cardinality(1..j) <= n
    BY <1>1, <2>2, FS_Subset
  <2>4. Cardinality(1..j) = j
    BY <1>3, <2>1
  <2> QED
    BY <1>1, <2>1, <2>3, <2>4, BatchAssumption
<1>5. T = 1..n
  <2>1. n \in Nat
    BY <1>1, BatchAssumption
  <2>2. IsFiniteSet(1..n) /\ Cardinality(1..n) = n
    BY <1>3, <2>1
  <2>3. T \in SUBSET (1..n)
    BY <1>4
  <2> HIDE DEF n
  <2>4. Cardinality(T) = n
    BY DEF n
  <2> QED
    BY <2>2, <2>3, <2>4, FS_Subset
<1>6. \A i \in Lines : i \in T <=> i < n + 1
  BY <1>1, <1>5, BatchAssumption DEF Lines
<1> QED
  BY <1>6 DEF T, CountOf

(* The items taken over are the successes, and the rest once an interrupted one is
   an error. *)
LEMMA CountTakenOver ==
  ASSUME NEW it \in Checkpoints, NEW jt \in Checkpoints,
         \A i \in Lines : jt[i] = IF it[i] = "processing" THEN "failed" ELSE it[i]
  PROVE  /\ CountOf(jt, {"succeeded"}) = CountOf(it, {"succeeded"})
         /\ CountOf(jt, {"failed"}) = CountOf(it, TakenOver) - CountOf(it, {"succeeded"})
<1> DEFINE T == {i \in Lines : it[i] \in TakenOver}
           U == {i \in Lines : it[i] \in {"succeeded"}}
           V == {i \in Lines : jt[i] \in {"failed"}}
<1>1. V = T \ U /\ T \cap U = U
  BY DEF TakenOver, Answers
<1>2. U = {i \in Lines : jt[i] \in {"succeeded"}}
  OBVIOUS
<1>3. IsFiniteSet(T)
  BY CountType
<1> HIDE DEF T, V
<1>4. Cardinality(V) = Cardinality(T) - Cardinality(U)
  <2> HIDE DEF U
  <2>1. Cardinality(T \ U) = Cardinality(T) - Cardinality(T \cap U)
    BY <1>3, FS_Difference
  <2> QED
    BY <1>1, <2>1
<1> QED
  BY <1>2, <1>4 DEF T, V, CountOf

-----------------------------------------------------------------------------
(* Rows, loops, and what a step leaves alone *)

LEMMA WorkerFields ==
  ASSUME NEW w \in Workers
  PROVE  /\ w.line \in Nat /\ w.line \in 1..(Items + 1) /\ w.tries \in 0..MaxTries
         /\ w.ok \in 0..Items /\ w.bad \in 0..Items
         /\ w.at \in Steps => w.line \in Lines
         /\ w.at = "backoff" => w.tries < MaxTries
BY BatchAssumption DEF Workers, WorkerRecords

LEMMA NobodyWorks == NoWorker \in Workers /\ NoWorker.at = "none"
<1>1. NoWorker \in WorkerRecords
  BY BatchAssumption DEF NoWorker, WorkerRecords
<1>2. NoWorker.at = "none" /\ "none" \notin Steps
  BY DEF NoWorker, Steps
<1> QED
  BY <1>1, <1>2 DEF Workers

(* A batch that a step leaves alone. *)
LEMMA LeftAlone ==
  ASSUME NEW e \in Batches, BatchInv(e),
         batch'[e] = batch[e], item'[e] = item[e], worker'[e] = worker[e],
         sent'[e] = sent[e], after'[e] = after[e], e \in active' <=> e \in active
  PROVE  BatchInv(e)'
<1>1. RunningRow(e)' /\ InOrder(e)' /\ LastAfterCancel(e)'
  BY DEF BatchInv, RunningRow, InOrder, LastAfterCancel
<1>2. SentIsMarked(e)'
  BY DEF BatchInv, SentIsMarked, Untracked
<1>3. \A S : Count(e, S)' = Count(e, S)
  BY DEF Count
<1>4. OnTheLine(e)'
  BY <1>3 DEF BatchInv, OnTheLine, Counted, AllAnswered
<1> QED
  BY <1>1, <1>2, <1>4 DEF BatchInv

(* A step of one batch. *)
LEMMA StepOf ==
  ASSUME IInv, NEW b \in Batches,
         batch' \in [Batches -> Rows], item' \in [Batches -> Checkpoints],
         worker' \in [Batches -> Workers], sent' \in [Batches -> [Lines -> Nat]],
         after' \in [Batches -> Nat],
         \A e \in Batches \ {b} :
           /\ batch'[e] = batch[e] /\ item'[e] = item[e] /\ worker'[e] = worker[e]
           /\ sent'[e] = sent[e] /\ after'[e] = after[e],
         active' \in {active, active \ {b}}, UNCHANGED <<overdue, crashes>>,
         BatchInv(b)'
  PROVE  IInv'
<1>1. WellTyped'
  BY DEF IInv, WellTyped
<1>2. ASSUME NEW e \in Batches PROVE BatchInv(e)'
  <2>1. CASE e = b
    BY <2>1
  <2>2. CASE e # b
    <3>1. /\ batch'[e] = batch[e] /\ item'[e] = item[e] /\ worker'[e] = worker[e]
          /\ sent'[e] = sent[e] /\ after'[e] = after[e] /\ (e \in active' <=> e \in active)
      BY <2>2
    <3> QED
      BY <3>1, LeftAlone DEF IInv
  <2> QED
    BY <2>1, <2>2
<1>3. Cardinality(active') <= MaxConcurrent
  <2>1. IsFiniteSet(active)
    BY BatchAssumption, FS_Subset DEF IInv, WellTyped
  <2>2. Cardinality(active) \in Nat
    BY <2>1, FS_CardinalityType
  <2>3. Cardinality(active \ {b}) =
          IF b \in active THEN Cardinality(active) - 1 ELSE Cardinality(active)
    BY <2>1, FS_RemoveElement
  <2>4. MaxConcurrent \in Nat /\ Cardinality(active) <= MaxConcurrent
    BY BatchAssumption DEF IInv
  <2>5. Cardinality(active \ {b}) <= MaxConcurrent
    BY <2>2, <2>3, <2>4
  <2> QED
    BY <2>4, <2>5
<1> QED
  BY <1>1, <1>2, <1>3 DEF IInv

(* What is known of a batch. *)
LEMMA OfBatch ==
  ASSUME IInv, NEW b \in Batches
  PROVE  /\ BatchInv(b)
         /\ batch[b] \in Rows /\ item[b] \in Checkpoints /\ worker[b] \in Workers
         /\ sent[b] \in [Lines -> Nat] /\ after[b] \in Nat
BY DEF IInv, WellTyped

(* A step that changes nothing but the row of one batch. *)
LEMMA OneRow ==
  ASSUME IInv, NEW b \in Batches, NEW r \in Rows, batch' = [batch EXCEPT ![b] = r],
         UNCHANGED <<item, active, worker, overdue, sent, after, crashes>>,
         batch'[b] = r => BatchInv(b)'
  PROVE  IInv'
<1>1. /\ batch \in [Batches -> Rows] /\ item \in [Batches -> Checkpoints]
      /\ worker \in [Batches -> Workers] /\ sent \in [Batches -> [Lines -> Nat]]
      /\ after \in [Batches -> Nat]
  BY DEF IInv, WellTyped
<1>2. /\ batch' \in [Batches -> Rows] /\ batch'[b] = r
      /\ \A e \in Batches \ {b} : batch'[e] = batch[e]
  BY <1>1
<1> QED
  BY <1>1, <1>2, StepOf

-----------------------------------------------------------------------------
(* The loop of a batch *)

(* The head of the loop keeps the invariant, if the state and the checkpoints it is
   given agree: the lines before the next one have an answer, those from it on are
   pending. *)
LEMMA ContinueKeeps ==
  ASSUME IInv, NEW b \in Batches, NEW w \in WorkerRecords, NEW it \in Checkpoints,
         b \in active, batch[b].status \in {"in_progress"} \cup Stopped,
         batch[b].total = Items,
         \A i \in Lines : /\ it[i] \in Answers <=> i < w.line
                          /\ it[i] \notin Answers => it[i] = "pending",
         w.ok = CountOf(it, {"succeeded"}), w.bad = CountOf(it, {"failed"}),
         \A i \in Lines : sent[b][i] <= IF it[i] \in TakenOver THEN 1 ELSE 0,
         Continue(b, w, it), UNCHANGED <<active, overdue, sent, after, crashes>>
  PROVE  IInv'
<1>1. /\ batch \in [Batches -> Rows] /\ batch[b] \in Rows /\ worker \in [Batches -> Workers]
      /\ item \in [Batches -> Checkpoints] /\ sent \in [Batches -> [Lines -> Nat]]
      /\ after \in [Batches -> Nat]
  BY DEF IInv, WellTyped
<1>2. /\ w.line \in 1..(Items + 1) /\ w.tries \in 0..MaxTries
      /\ w.ok \in 0..Items /\ w.bad \in 0..Items
  BY DEF WorkerRecords
<1> DEFINE r == [batch[b] EXCEPT !.ok = w.ok, !.bad = w.bad]
           stops == batch[b].status \in Stopped \/ w.line > Items
<1>3. r \in Rows /\ r.status = batch[b].status /\ r.total = Items
  BY <1>1, <1>2 DEF Rows
<1>4. PICK at \in {"finalizing", "waiting", "marked"} :
        /\ worker' = [worker EXCEPT ![b] = [w EXCEPT !.at = at]]
        /\ at = "finalizing" <=> stops
        /\ item' = [item EXCEPT ![b] =
                      IF at = "marked" THEN [it EXCEPT ![w.line] = "processing"] ELSE it]
  BY DEF Continue
<1>5. batch' = [batch EXCEPT ![b] = r]
  BY <1>1 DEF Continue
<1> DEFINE v == [w EXCEPT !.at = at]
           jt == IF at = "marked" THEN [it EXCEPT ![w.line] = "processing"] ELSE it
<1>6. at \in Steps => w.line \in Lines
  BY <1>2, <1>4, BatchAssumption DEF Steps, Lines
<1>7. v \in Workers /\ v.at = at /\ v.line = w.line /\ v.ok = w.ok /\ v.bad = w.bad
  <2>1. /\ v \in WorkerRecords
        /\ v.at = at /\ v.line = w.line /\ v.ok = w.ok /\ v.bad = w.bad
    BY DEF WorkerRecords
  <2> HIDE DEF v
  <2> QED
    BY <1>6, <2>1 DEF Workers
<1>8. worker' = [worker EXCEPT ![b] = v]
  BY <1>4
<1>9. jt \in Checkpoints /\ item' = [item EXCEPT ![b] = jt]
  BY <1>4, <1>6 DEF Steps, Checkpoints
<1>10. /\ at # "marked" => jt = it
       /\ at = "marked" => \A i \in Lines : jt[i] = IF i = w.line THEN "processing" ELSE it[i]
  BY DEF Checkpoints
<1>11. CountOf(jt, {"succeeded"}) = w.ok /\ CountOf(jt, {"failed"}) = w.bad
  <2>1. CASE at # "marked"
    BY <1>10, <2>1
  <2>2. CASE at = "marked"
    <3>1. w.line \in Lines /\ it[w.line] \notin Answers
      BY <1>2, <1>6, <2>2, BatchAssumption DEF Steps
    <3>2. it[w.line] \notin {"succeeded"} /\ it[w.line] \notin {"failed"}
      BY <3>1 DEF Answers
    <3>3. \A i \in Lines : jt[i] = IF i = w.line THEN "processing" ELSE it[i]
      BY <1>10, <2>2
    <3> HIDE DEF jt
    <3>4. ASSUME NEW S, it[w.line] \notin S, "processing" \notin S
          PROVE  CountOf(jt, S) = CountOf(it, S)
      BY <3>1, <3>3, <3>4, CountWrite
    <3>5. "processing" \notin {"succeeded"} /\ "processing" \notin {"failed"}
      OBVIOUS
    <3> QED
      BY <3>2, <3>4, <3>5
  <2> QED
    BY <2>1, <2>2
<1>12. \A i \in Lines : /\ jt[i] \in Answers <=> i < w.line
                        /\ jt[i] = "processing" <=> i = w.line /\ at = "marked"
                        /\ jt[i] # "none"
  <2> TAKE i \in Lines
  <2>1. i \in Nat /\ w.line \in Nat
    BY <1>2, BatchAssumption DEF Lines
  <2>2. it[i] \in Answers <=> i < w.line
    OBVIOUS
  <2>3. it[i] \notin Answers => it[i] = "pending"
    OBVIOUS
  <2> HIDE DEF jt, stops
  <2>4. jt[i] = IF i = w.line /\ at = "marked" THEN "processing" ELSE it[i]
    BY <1>10
  <2> QED
    BY <2>1, <2>2, <2>3, <2>4 DEF Answers
<1> HIDE DEF v, r
<1>13. /\ batch'[b] = r /\ item'[b] = jt /\ worker'[b] = v
       /\ sent'[b] = sent[b] /\ after'[b] = after[b] /\ b \in active'
  BY <1>1, <1>5, <1>8, <1>9
<1> HIDE DEF jt
<1>14. RunningRow(b)'
  BY <1>3, <1>7, <1>13 DEF RunningRow
<1>15. InOrder(b)'
  <2> SUFFICES ASSUME NEW i \in Lines, NEW j \in Lines, i < j, jt[j] \in TakenOver
               PROVE  jt[i] \in Answers
    BY <1>13 DEF InOrder
  <2>1. j <= w.line
    BY <1>2, <1>12, BatchAssumption DEF TakenOver, Lines
  <2> QED
    BY <1>2, <1>12, <2>1, BatchAssumption DEF Lines
<1>16. OnTheLine(b)'
  <2>1. Counted(b, worker[b])'
    BY <1>7, <1>11, <1>13 DEF Counted, Count, CountOf
  <2>2. at = "finalizing" /\ r.status \notin Stopped => \A i \in Lines : jt[i] \in Answers
    BY <1>2, <1>3, <1>4, <1>12, BatchAssumption DEF Lines
  <2>3. r.status # "completed"
    BY <1>3 DEF Stopped
  <2>4. /\ worker'[b].at = at /\ worker'[b].line = w.line
        /\ item'[b] = jt /\ batch'[b].status = r.status
    BY <1>7, <1>13
  <2>5. at = "marked" <=> at \in Steps /\ at # "waiting"
    BY DEF Steps
  <2> QED
    BY <1>12, <2>1, <2>2, <2>3, <2>4, <2>5 DEF OnTheLine, AllAnswered
<1>17. SentIsMarked(b)'
  <2>1. \A i \in Lines : sent[b][i] <= IF jt[i] \in TakenOver THEN 1 ELSE 0
    <3> TAKE i \in Lines
    <3>1. it[i] \in TakenOver => jt[i] \in TakenOver
      BY <1>10 DEF TakenOver
    <3>2. sent[b][i] \in Nat
      BY <1>1
    <3> QED
      BY <3>1, <3>2
  <2>2. at = "marked" => sent[b][w.line] = 0
    <3> SUFFICES ASSUME at = "marked" PROVE sent[b][w.line] = 0
      OBVIOUS
    <3>1. w.line \in Lines /\ w.line \in Nat
      BY <1>2, <1>6, BatchAssumption DEF Steps
    <3>2. it[w.line] = "pending"
      BY <3>1
    <3>3. sent[b][w.line] <= 0 /\ sent[b][w.line] \in Nat
      BY <1>1, <3>1, <3>2 DEF TakenOver, Answers
    <3> QED
      BY <3>3
  <2> QED
    BY <1>7, <1>13, <2>1, <2>2 DEF SentIsMarked
<1>18. LastAfterCancel(b)'
  <2>1. LastAfterCancel(b)
    BY DEF IInv, BatchInv
  <2> QED
    BY <1>3, <1>4, <1>7, <1>13, <2>1 DEF LastAfterCancel
<1>19. BatchInv(b)'
  BY <1>14, <1>15, <1>16, <1>17, <1>18 DEF BatchInv
<1>20. /\ batch' \in [Batches -> Rows] /\ item' \in [Batches -> Checkpoints]
       /\ worker' \in [Batches -> Workers]
       /\ \A e \in Batches \ {b} :
            batch'[e] = batch[e] /\ item'[e] = item[e] /\ worker'[e] = worker[e]
  BY <1>1, <1>3, <1>5, <1>7, <1>8, <1>9
<1> QED
  BY <1>1, <1>19, <1>20, StepOf

-----------------------------------------------------------------------------
(* Requests *)

LEMMA RequestsKeep ==
  ASSUME IInv, NEW b \in Batches, Create(b) \/ Cancel(b) \/ WindowPasses(b)
  PROVE  IInv'
<1>1. BatchInv(b) /\ batch \in [Batches -> Rows] /\ batch[b] \in Rows
  BY OfBatch DEF IInv, WellTyped
<1>2. CASE Create(b)
  <2>1. PICK p \in BOOLEAN :
          batch' = [batch EXCEPT ![b].status = "validating", ![b].parses = p]
    BY <1>2 DEF Create
  <2>2. /\ batch[b].status = "absent"
        /\ UNCHANGED <<item, active, worker, overdue, sent, after, crashes>>
    BY <1>2 DEF Create
  <2> DEFINE r == [batch[b] EXCEPT !.status = "validating", !.parses = p]
  <2>3. batch' = [batch EXCEPT ![b] = r]
    BY <1>1, <2>1
  <2>4. r \in Rows /\ r.status = "validating" /\ r.total = batch[b].total
    BY <1>1 DEF Rows, Statuses
  <2> HIDE DEF r
  <2>5. worker[b].at = "none" /\ after[b] = 0
    <3>1. worker[b].at = "none"
      BY <1>1, <2>2 DEF BatchInv, RunningRow, Stopped
    <3>2. ~(after[b] > 0) /\ after[b] \in Nat
      BY <1>1, <2>2, OfBatch DEF BatchInv, LastAfterCancel, Stopped
    <3> QED
      BY <3>1, <3>2
  <2>6. \A i \in Lines : sent[b][i] <= IF item[b][i] \in TakenOver THEN 1 ELSE 0
    BY <1>1, <2>2 DEF BatchInv, SentIsMarked, Untracked, Stopped
  <2>7. ASSUME batch'[b] = r PROVE BatchInv(b)'
    <3>1. RunningRow(b)' /\ LastAfterCancel(b)'
      BY <1>1, <2>2, <2>5, <2>7 DEF BatchInv, RunningRow, LastAfterCancel
    <3>2. InOrder(b)'
      BY <1>1, <2>2 DEF BatchInv, InOrder
    <3>3. OnTheLine(b)'
      BY <2>2, <2>4, <2>5, <2>7 DEF OnTheLine, Steps
    <3>4. SentIsMarked(b)'
      BY <2>2, <2>5, <2>6 DEF SentIsMarked
    <3> QED
      BY <3>1, <3>2, <3>3, <3>4 DEF BatchInv
  <2> QED
    BY <2>2, <2>3, <2>4, <2>7, OneRow
<1>3. CASE Cancel(b)
  <2>1. /\ Quiet /\ batch[b].status \in {"validating", "in_progress", "finalizing"}
        /\ batch' = [batch EXCEPT ![b].status = "cancelling"]
        /\ UNCHANGED <<item, active, worker, overdue, sent, after, crashes>>
    BY <1>3 DEF Cancel
  <2> DEFINE r == [batch[b] EXCEPT !.status = "cancelling"]
  <2>2. batch' = [batch EXCEPT ![b] = r]
    BY <1>1, <2>1
  <2>3. r \in Rows /\ r.status = "cancelling" /\ r.total = batch[b].total
    BY <1>1 DEF Rows, Statuses
  <2> HIDE DEF r
  <2>4. worker[b].at \notin {"marked", "finalizing", "closing"} /\ ~(after[b] > 0)
    BY <1>1, <2>1 DEF Quiet, BatchInv, LastAfterCancel, Stopped
  <2>5. ASSUME batch'[b] = r PROVE BatchInv(b)'
    <3>1. RunningRow(b)' /\ LastAfterCancel(b)'
      BY <1>1, <2>1, <2>3, <2>4, <2>5 DEF BatchInv, RunningRow, LastAfterCancel, Stopped
    <3>2. InOrder(b)'
      BY <1>1, <2>1 DEF BatchInv, InOrder
    <3>3. OnTheLine(b)'
      BY <1>1, <2>1, <2>3, <2>4, <2>5 DEF BatchInv, OnTheLine, Counted, Count
    <3>4. SentIsMarked(b)'
      BY <1>1, <2>1, <2>3, <2>5 DEF BatchInv, SentIsMarked, Untracked, Stopped
    <3> QED
      BY <3>1, <3>2, <3>3, <3>4 DEF BatchInv
  <2> QED
    BY <2>1, <2>2, <2>3, <2>5, OneRow
<1>4. CASE WindowPasses(b)
  <2>1. /\ overdue' = overdue \cup {b}
        /\ UNCHANGED <<batch, item, active, worker, sent, after, crashes>>
    BY <1>4 DEF WindowPasses
  <2>2. WellTyped'
    BY <2>1 DEF IInv, WellTyped
  <2>3. \A e \in Batches : BatchInv(e)'
    BY <2>1, LeftAlone DEF IInv
  <2> QED
    BY <2>1, <2>2, <2>3 DEF IInv
<1> QED
  BY <1>2, <1>3, <1>4

-----------------------------------------------------------------------------
(* Steps of the loop *)

(* Whatever is known of the line a loop is at. *)
LEMMA AtLine ==
  ASSUME IInv, NEW b \in Batches, worker[b].at \in Steps
  PROVE  /\ worker[b].line \in Lines /\ worker[b].line \in Nat
         /\ b \in active /\ batch[b].status \in {"in_progress"} \cup Stopped
         /\ batch[b].total = Items
         /\ \A i \in Lines :
              /\ item[b][i] \in Answers <=> i < worker[b].line
              /\ item[b][i] = "processing" <=> i = worker[b].line /\ worker[b].at # "waiting"
              /\ item[b][i] # "none"
         /\ worker[b].ok = CountOf(item[b], {"succeeded"})
         /\ worker[b].bad = CountOf(item[b], {"failed"})
         /\ \A i \in Lines : sent[b][i] <= IF item[b][i] \in TakenOver THEN 1 ELSE 0
<1>1. BatchInv(b) /\ worker[b] \in Workers
  BY OfBatch
<1>2. worker[b].at \notin {"none", "finalizing", "closing"}
  BY DEF Steps
<1>3. worker[b].line \in Lines /\ worker[b].line \in Nat
  BY <1>1, WorkerFields
<1>4. /\ b \in active /\ batch[b].status \in {"in_progress"} \cup Stopped
      /\ batch[b].total = Items
  BY <1>1, <1>2 DEF BatchInv, RunningRow
<1>5. Counted(b, worker[b]) /\
      \A i \in Lines :
         /\ item[b][i] \in Answers <=> i < worker[b].line
         /\ item[b][i] = "processing" <=> i = worker[b].line /\ worker[b].at # "waiting"
         /\ item[b][i] # "none"
  BY <1>1, <1>2 DEF BatchInv, OnTheLine
<1>6. \A i \in Lines : sent[b][i] <= IF item[b][i] \in TakenOver THEN 1 ELSE 0
  BY <1>1, <1>2 DEF BatchInv, SentIsMarked, Untracked
<1> QED
  BY <1>3, <1>4, <1>5, <1>6 DEF Counted, Count, CountOf

(* The state w and the checkpoints jt a loop goes on with: an answer for the lines
   before its next one, nothing for those from it on, the counts that go with them,
   and every answer as it was recorded. *)
Agree(b, w, jt) ==
  /\ \A i \in Lines : /\ jt[i] \in Answers <=> i < w.line
                      /\ jt[i] \notin Answers => jt[i] = "pending"
                      /\ item[b][i] \in Answers => jt[i] = item[b][i]
  /\ w.ok = CountOf(jt, {"succeeded"}) /\ w.bad = CountOf(jt, {"failed"})
  /\ \A i \in Lines : sent[b][i] <= IF jt[i] \in TakenOver THEN 1 ELSE 0

(* The loop takes over what earlier lifetimes did, or takes the answer of an item,
   and goes on; or it finds the batch cancelled before it begins. *)
LEMMA Continues ==
  ASSUME IInv, NEW b \in Batches, Resume(b) \/ Answered(b)
  PROVE  /\ b \in active /\ batch[b].status \in {"in_progress"} \cup Stopped
         /\ batch[b].total = Items /\ UNCHANGED <<active, overdue, sent, after, crashes>>
         /\ \/ /\ worker[b].at = "starting" /\ batch[b].status \in Stopped
               /\ worker' = [worker EXCEPT ![b].at = "finalizing"] /\ UNCHANGED <<batch, item>>
            \/ \E w \in WorkerRecords, jt \in Checkpoints :
                 Agree(b, w, jt) /\ Continue(b, w, jt)
<1>1. /\ BatchInv(b) /\ batch[b] \in Rows /\ item[b] \in Checkpoints
      /\ worker[b] \in Workers /\ sent[b] \in [Lines -> Nat]
  BY OfBatch
<1>2. CASE Answered(b)
  <2> DEFINE w == worker[b]
  <2>1. PICK a \in Answers :
          /\ Quiet /\ w.at = "calling"
          /\ Continue(b, [w EXCEPT !.line = @ + 1, !.tries = 0,
                                   !.ok = @ + IF a = "succeeded" THEN 1 ELSE 0,
                                   !.bad = @ + 1 - IF a = "succeeded" THEN 1 ELSE 0],
                      [item[b] EXCEPT ![w.line] = a])
          /\ UNCHANGED <<active, overdue, sent, after, crashes>>
    BY <1>2 DEF Answered
  <2> DEFINE v == [w EXCEPT !.line = @ + 1, !.tries = 0,
                            !.ok = @ + IF a = "succeeded" THEN 1 ELSE 0,
                            !.bad = @ + 1 - IF a = "succeeded" THEN 1 ELSE 0]
             it == [item[b] EXCEPT ![w.line] = a]
  <2>2. worker[b].at \in Steps /\ worker[b].at # "waiting"
    BY <2>1 DEF Steps
  <2>3. /\ w.line \in Lines /\ w.line \in Nat
        /\ b \in active /\ batch[b].status \in {"in_progress"} \cup Stopped
        /\ batch[b].total = Items
        /\ w.ok = CountOf(item[b], {"succeeded"}) /\ w.bad = CountOf(item[b], {"failed"})
        /\ \A i \in Lines : sent[b][i] <= IF item[b][i] \in TakenOver THEN 1 ELSE 0
    BY <2>2, AtLine
  <2>4. \A i \in Lines : /\ item[b][i] \in Answers <=> i < w.line
                         /\ item[b][i] = "processing" <=> i = w.line
                         /\ item[b][i] # "none"
    BY <2>2, AtLine
  <2>5. it \in Checkpoints /\ \A i \in Lines : it[i] = IF i = w.line THEN a ELSE item[b][i]
    BY <1>1, <2>3 DEF Checkpoints
  <2>6. w \in WorkerRecords /\ w.ok \in Nat /\ w.bad \in Nat
    BY <1>1, BatchAssumption DEF Workers, WorkerRecords
  <2> HIDE DEF it
  <2>7. /\ w.ok + (IF a = "succeeded" THEN 1 ELSE 0) = CountOf(it, {"succeeded"})
        /\ w.bad + 1 - (IF a = "succeeded" THEN 1 ELSE 0) = CountOf(it, {"failed"})
    <3>1. item[b][w.line] \notin {"succeeded"} /\ item[b][w.line] \notin {"failed"}
      BY <2>3, <2>4
    <3>2. ASSUME NEW S, item[b][w.line] \notin S
          PROVE  /\ a \in S => CountOf(it, S) = CountOf(item[b], S) + 1
                 /\ a \notin S => CountOf(it, S) = CountOf(item[b], S)
      BY <2>3, <2>5, <3>2, CountWrite
    <3>3. CASE a = "succeeded"
      <4>1. CountOf(it, {"succeeded"}) = CountOf(item[b], {"succeeded"}) + 1
        BY <3>1, <3>2, <3>3
      <4>2. CountOf(it, {"failed"}) = CountOf(item[b], {"failed"})
        BY <3>1, <3>2, <3>3
      <4> QED
        BY <2>3, <2>6, <3>3, <4>1, <4>2
    <3>4. CASE a = "failed"
      <4>1. CountOf(it, {"succeeded"}) = CountOf(item[b], {"succeeded"})
        BY <3>1, <3>2, <3>4
      <4>2. CountOf(it, {"failed"}) = CountOf(item[b], {"failed"}) + 1
        BY <3>1, <3>2, <3>4
      <4> QED
        BY <2>3, <2>6, <3>4, <4>1, <4>2
    <3> QED
      BY <3>3, <3>4 DEF Answers
  <2>8. CountOf(it, {"succeeded"}) \in 0..Items /\ CountOf(it, {"failed"}) \in 0..Items
    BY CountType
  <2>9. /\ v \in WorkerRecords /\ v.line = w.line + 1
        /\ v.ok = CountOf(it, {"succeeded"}) /\ v.bad = CountOf(it, {"failed"})
    <3>1. w.line + 1 \in 1..(Items + 1) /\ 0 \in 0..MaxTries
      BY <2>3, BatchAssumption DEF Lines
    <3> QED
      BY <2>6, <2>7, <2>8, <3>1 DEF WorkerRecords
  <2>10. \A i \in Lines : /\ it[i] \in Answers <=> i < v.line
                          /\ it[i] \notin Answers => it[i] = "pending"
    <3> TAKE i \in Lines
    <3>1. i \in Nat
      BY BatchAssumption DEF Lines
    <3>2. item[b][i] \in {"none", "pending", "processing"} \cup Answers
      BY <1>1 DEF Checkpoints
    <3> HIDE DEF v, w
    <3> QED
      BY <2>3, <2>4, <2>5, <2>9, <3>1, <3>2
  <2>11. \A i \in Lines : sent[b][i] <= IF it[i] \in TakenOver THEN 1 ELSE 0
    BY <2>3, <2>4, <2>5 DEF TakenOver
  <2>12. Continue(b, v, it)
    BY <2>1 DEF it
  <2>13. Agree(b, v, it)
    <3>1. \A i \in Lines : item[b][i] \in Answers => it[i] = item[b][i]
      BY <2>3, <2>4, <2>5
    <3> HIDE DEF v
    <3> QED
      BY <2>9, <2>10, <2>11, <3>1 DEF Agree
  <2> HIDE DEF v, w
  <2> QED
    BY <2>1, <2>3, <2>5, <2>9, <2>13, <2>12
<1>3. CASE Resume(b)
  <2> DEFINE done == Count(b, TakenOver)
             ok == Count(b, {"succeeded"})
             it == [i \in Lines |-> IF item[b][i] = "processing" THEN "failed" ELSE item[b][i]]
             v == [NoWorker EXCEPT !.line = done + 1, !.ok = ok, !.bad = done - ok]
  <2>1. Quiet /\ worker[b].at = "starting" /\ UNCHANGED <<active, overdue, sent, after, crashes>>
    BY <1>3 DEF Resume
  <2>2. /\ b \in active /\ batch[b].status \in {"in_progress"} \cup Stopped
        /\ batch[b].total = Items /\ \A i \in Lines : item[b][i] # "none"
        /\ \A i \in Lines : sent[b][i] <= IF item[b][i] \in TakenOver THEN 1 ELSE 0
        /\ InOrder(b)
    BY <1>1, <2>1 DEF BatchInv, RunningRow, OnTheLine, SentIsMarked, Untracked
  <2>3. CASE batch[b].status \notin Stopped /\ Continue(b, v, it)
    <3>1. it \in Checkpoints
      BY <1>1 DEF Checkpoints, Answers
    <3>2. \A i \in Lines : it[i] = IF item[b][i] = "processing" THEN "failed" ELSE item[b][i]
      OBVIOUS
    <3> HIDE DEF it
    <3>3. done = CountOf(item[b], TakenOver) /\ ok = CountOf(item[b], {"succeeded"})
      BY DEF Count, CountOf
    <3>4. ok = CountOf(it, {"succeeded"}) /\ done - ok = CountOf(it, {"failed"})
      BY <1>1, <3>1, <3>2, <3>3, CountTakenOver
    <3>5. done \in 0..Items /\ ok \in 0..Items /\ done - ok \in 0..Items
      BY <3>3, <3>4, CountType
    <3>6. \A i \in Lines : item[b][i] \in TakenOver <=> i < done + 1
      <4>1. \A i, j \in Lines : i < j /\ item[b][j] \in TakenOver => item[b][i] \in TakenOver
        BY <2>2 DEF InOrder, TakenOver
      <4> QED
        BY <3>3, <4>1, CountFirst
    <3> HIDE DEF done, ok
    <3>7. v \in WorkerRecords /\ v.line = done + 1 /\ v.ok = ok /\ v.bad = done - ok
      <4>1. done + 1 \in 1..(Items + 1) /\ 0 \in 0..MaxTries
        BY <3>5, BatchAssumption
      <4>2. NoWorker \in WorkerRecords
        BY NobodyWorks DEF Workers
      <4> QED
        BY <3>5, <4>1, <4>2 DEF WorkerRecords
    <3> HIDE DEF v
    <3>8. \A i \in Lines : /\ it[i] \in Answers <=> item[b][i] \in TakenOver
                           /\ it[i] \notin Answers => it[i] = "pending"
                           /\ it[i] \in TakenOver <=> item[b][i] \in TakenOver
      <4>1. \A i \in Lines : item[b][i] \in {"pending", "processing"} \cup Answers
        BY <1>1, <2>2 DEF Checkpoints
      <4> QED
        BY <3>2, <4>1 DEF TakenOver, Answers
    <3>9. \A i \in Lines : /\ it[i] \in Answers <=> i < v.line
                           /\ it[i] \notin Answers => it[i] = "pending"
      BY <3>6, <3>7, <3>8
    <3>10. \A i \in Lines : sent[b][i] <= IF it[i] \in TakenOver THEN 1 ELSE 0
      BY <2>2, <3>8
    <3>11. v.ok = CountOf(it, {"succeeded"}) /\ v.bad = CountOf(it, {"failed"})
      BY <3>4, <3>7
    <3>12. \A i \in Lines : item[b][i] \in Answers => it[i] = item[b][i]
      BY <3>2 DEF Answers
    <3>13. Agree(b, v, it)
      BY <3>9, <3>10, <3>11, <3>12 DEF Agree
    <3> QED
      BY <2>1, <2>2, <2>3, <3>1, <3>7, <3>13
  <2> QED
    BY <1>3, <2>1, <2>2, <2>3 DEF Resume
<1> QED
  BY <1>2, <1>3

LEMMA ContinuersKeep ==
  ASSUME IInv, NEW b \in Batches, Resume(b) \/ Answered(b)
  PROVE  IInv'
<1>1. BatchInv(b) /\ worker[b] \in Workers
  BY OfBatch
<1>2. /\ b \in active /\ batch[b].status \in {"in_progress"} \cup Stopped
      /\ batch[b].total = Items /\ UNCHANGED <<active, overdue, sent, after, crashes>>
  BY Continues
<1>3. CASE worker[b].at = "starting" /\ batch[b].status \in Stopped
           /\ worker' = [worker EXCEPT ![b].at = "finalizing"] /\ UNCHANGED <<batch, item>>
  <2> DEFINE u == [worker[b] EXCEPT !.at = "finalizing"]
  <2>1. u \in Workers /\ u.at = "finalizing"
    BY <1>1 DEF Workers, WorkerRecords, Steps
  <2>2. worker' = [worker EXCEPT ![b] = u]
    BY <1>3
  <2> HIDE DEF u
  <2>3. /\ worker \in [Batches -> Workers] /\ batch \in [Batches -> Rows]
        /\ item \in [Batches -> Checkpoints] /\ sent \in [Batches -> [Lines -> Nat]]
        /\ after \in [Batches -> Nat]
    BY DEF IInv, WellTyped
  <2>4. /\ worker' \in [Batches -> Workers] /\ worker'[b] = u
        /\ \A e \in Batches \ {b} : worker'[e] = worker[e]
    BY <2>1, <2>2, <2>3
  <2>5. /\ InOrder(b) /\ LastAfterCancel(b) /\ \A i \in Lines : item[b][i] # "none"
        /\ \A i \in Lines : sent[b][i] <= IF item[b][i] \in TakenOver THEN 1 ELSE 0
    BY <1>1, <1>3 DEF BatchInv, RunningRow, OnTheLine, SentIsMarked, Untracked
  <2>6. RunningRow(b)' /\ InOrder(b)' /\ LastAfterCancel(b)'
    BY <1>2, <1>3, <2>1, <2>4, <2>5 DEF RunningRow, InOrder, LastAfterCancel
  <2>7. OnTheLine(b)' /\ SentIsMarked(b)'
    BY <1>2, <1>3, <2>1, <2>4, <2>5 DEF OnTheLine, SentIsMarked, Steps, Stopped
  <2>8. BatchInv(b)'
    BY <2>6, <2>7 DEF BatchInv
  <2> QED
    BY <1>2, <1>3, <2>3, <2>4, <2>8, StepOf
<1>4. CASE \E w \in WorkerRecords, jt \in Checkpoints : Agree(b, w, jt) /\ Continue(b, w, jt)
  <2>1. PICK w \in WorkerRecords, jt \in Checkpoints : Agree(b, w, jt) /\ Continue(b, w, jt)
    BY <1>4
  <2>2. /\ \A i \in Lines : /\ jt[i] \in Answers <=> i < w.line
                            /\ jt[i] \notin Answers => jt[i] = "pending"
        /\ w.ok = CountOf(jt, {"succeeded"}) /\ w.bad = CountOf(jt, {"failed"})
        /\ \A i \in Lines : sent[b][i] <= IF jt[i] \in TakenOver THEN 1 ELSE 0
    BY <2>1 DEF Agree
  <2> QED
    BY <1>2, <2>1, <2>2, ContinueKeeps
<1> QED
  BY <1>3, <1>4, Continues

(* The steps that move a loop without touching the row. *)
LEMMA OneLoop ==
  ASSUME IInv, NEW b \in Batches, NEW w \in Workers, worker' = [worker EXCEPT ![b] = w],
         UNCHANGED <<batch, active, overdue, crashes>>,
         item' \in [Batches -> Checkpoints], sent' \in [Batches -> [Lines -> Nat]],
         after' \in [Batches -> Nat],
         \A e \in Batches \ {b} : item'[e] = item[e] /\ sent'[e] = sent[e] /\ after'[e] = after[e],
         worker'[b] = w => BatchInv(b)'
  PROVE  IInv'
<1>1. worker \in [Batches -> Workers] /\ batch' \in [Batches -> Rows]
  BY DEF IInv, WellTyped
<1>2. /\ worker' \in [Batches -> Workers] /\ worker'[b] = w
      /\ \A e \in Batches \ {b} : worker'[e] = worker[e] /\ batch'[e] = batch[e]
  BY <1>1
<1> QED
  BY <1>1, <1>2, StepOf

LEMMA StepsKeep ==
  ASSUME IInv, NEW b \in Batches,
         Proceed(b) \/ Dispatch(b) \/ BackOff(b) \/ Redispatch(b)
  PROVE  IInv'
<1>1. /\ BatchInv(b) /\ batch[b] \in Rows /\ item[b] \in Checkpoints
      /\ worker[b] \in Workers /\ worker[b] \in WorkerRecords
      /\ sent[b] \in [Lines -> Nat] /\ after[b] \in Nat
  BY OfBatch DEF Workers
<1>2. /\ item \in [Batches -> Checkpoints] /\ sent \in [Batches -> [Lines -> Nat]]
      /\ after \in [Batches -> Nat]
  BY DEF IInv, WellTyped
<1>3. worker[b].at \in Steps
  BY DEF Proceed, Dispatch, BackOff, Redispatch, Steps
<1> DEFINE l == worker[b].line
<1>4. /\ l \in Lines /\ l \in Nat
      /\ b \in active /\ batch[b].status \in {"in_progress"} \cup Stopped
      /\ batch[b].total = Items
      /\ \A i \in Lines :
           /\ item[b][i] \in Answers <=> i < l
           /\ item[b][i] = "processing" <=> i = l /\ worker[b].at # "waiting"
           /\ item[b][i] # "none"
      /\ \A i \in Lines : sent[b][i] <= IF item[b][i] \in TakenOver THEN 1 ELSE 0
      /\ Counted(b, worker[b])
  <2>1. worker[b].ok = CountOf(item[b], {"succeeded"}) /\ worker[b].bad = CountOf(item[b], {"failed"})
    BY <1>3, AtLine
  <2>2. Counted(b, worker[b])
    BY <2>1 DEF Counted, Count, CountOf
  <2> QED
    BY <1>3, <2>2, AtLine
(* A loop that moves on at its line with the checkpoints as they are. *)
<1>5. ASSUME NEW at \in {"calling", "backoff"}, NEW t \in 0..MaxTries,
             at = "backoff" => t < MaxTries, worker[b].at # "waiting",
             worker' = [worker EXCEPT ![b].at = at, ![b].tries = t],
             UNCHANGED <<batch, item, active, overdue, crashes>>,
             sent' \in [Batches -> [Lines -> Nat]], after' \in [Batches -> Nat],
             \A e \in Batches \ {b} : sent'[e] = sent[e] /\ after'[e] = after[e],
             \A i \in Lines : sent'[b][i] <= IF item[b][i] \in TakenOver THEN 1 ELSE 0,
             after'[b] <= 1, after'[b] > 0 => batch[b].status \in Stopped
      PROVE  IInv'
  <2> DEFINE w == [worker[b] EXCEPT !.at = at, !.tries = t]
  <2>1. w \in WorkerRecords /\ w.at = at /\ w.line = l /\ w.tries = t
        /\ w.ok = worker[b].ok /\ w.bad = worker[b].bad
    BY <1>1 DEF WorkerRecords
  <2>2. worker' = [worker EXCEPT ![b] = w]
    BY <1>5, <1>1
  <2> HIDE DEF w, l
  <2>3. w \in Workers
    BY <1>4, <1>5, <2>1 DEF Workers
  <2>4. ASSUME worker'[b] = w PROVE BatchInv(b)'
    <3>1. RunningRow(b)'
      BY <1>4, <1>5, <2>1, <2>4 DEF RunningRow
    <3>2. InOrder(b)'
      BY <1>1, <1>5 DEF BatchInv, InOrder
    <3>3. OnTheLine(b)'
      <4>1. Counted(b, worker[b])'
        BY <1>4, <1>5, <2>1, <2>4 DEF Counted, Count
      <4>2. batch[b].status # "completed"
        BY <1>4 DEF Stopped
      <4>3. item'[b] = item[b] /\ batch'[b] = batch[b]
        BY <1>5
      <4> QED
        BY <1>4, <1>5, <2>1, <2>4, <4>1, <4>2, <4>3 DEF OnTheLine, Steps
    <3>4. SentIsMarked(b)'
      BY <1>5, <2>1, <2>4 DEF SentIsMarked
    <3>5. LastAfterCancel(b)'
      BY <1>5, <2>1, <2>4 DEF LastAfterCancel
    <3> QED
      BY <3>1, <3>2, <3>3, <3>4, <3>5 DEF BatchInv
  <2> QED
    BY <1>2, <1>5, <2>2, <2>3, <2>4, OneLoop
<1>6. CASE BackOff(b)
  <2>1. /\ worker[b].at = "calling" /\ worker[b].tries < MaxTries
        /\ worker' = [worker EXCEPT ![b].at = "backoff", ![b].tries = worker[b].tries]
        /\ UNCHANGED <<batch, item, active, overdue, sent, after, crashes>>
    <3>1. /\ worker[b].at = "calling" /\ worker[b].tries < MaxTries
          /\ worker' = [worker EXCEPT ![b].at = "backoff"]
          /\ UNCHANGED <<batch, item, active, overdue, sent, after, crashes>>
      BY <1>6 DEF BackOff
    <3>2. [worker[b] EXCEPT !.at = "backoff"] =
            [worker[b] EXCEPT !.at = "backoff", !.tries = worker[b].tries]
      BY <1>1 DEF WorkerRecords
    <3>3. worker' = [worker EXCEPT ![b] = [worker[b] EXCEPT !.at = "backoff"]]
      BY <3>1
    <3>4. worker' = [worker EXCEPT ![b] = [worker[b] EXCEPT !.at = "backoff",
                                                            !.tries = worker[b].tries]]
      BY <3>2, <3>3
    <3> QED
      BY <3>1, <3>4
  <2>2. worker[b].tries \in 0..MaxTries
    BY <1>1, WorkerFields
  <2>3. after[b] <= 1 /\ (after[b] > 0 => batch[b].status \in Stopped)
    BY <1>1 DEF BatchInv, LastAfterCancel
  <2> QED
    BY <1>2, <1>4, <1>5, <2>1, <2>2, <2>3
<1>7. CASE Redispatch(b)
  <2>1. /\ worker[b].at = "backoff"
        /\ worker' = [worker EXCEPT ![b].at = "calling", ![b].tries = worker[b].tries + 1]
        /\ UNCHANGED <<batch, item, active, overdue, sent, after, crashes>>
    BY <1>7 DEF Redispatch
  <2>2. worker[b].tries + 1 \in 0..MaxTries
    BY <1>1, <2>1, WorkerFields, BatchAssumption
  <2>3. after[b] <= 1 /\ (after[b] > 0 => batch[b].status \in Stopped)
    BY <1>1 DEF BatchInv, LastAfterCancel
  <2> QED
    BY <1>2, <1>4, <1>5, <2>1, <2>2, <2>3
<1>8. CASE Dispatch(b)
  <2>1. /\ worker[b].at = "marked"
        /\ worker' = [worker EXCEPT ![b].at = "calling", ![b].tries = 1]
        /\ sent' = [sent EXCEPT ![b][l] = @ + 1]
        /\ after' = [after EXCEPT ![b] = @ + IF batch[b].status \in Stopped THEN 1 ELSE 0]
        /\ UNCHANGED <<batch, item, active, overdue, crashes>>
    BY <1>8 DEF Dispatch
  <2>2. 1 \in 0..MaxTries
    BY BatchAssumption
  <2>3. sent[b][l] = 0 /\ after[b] = 0
    BY <1>1, <2>1 DEF BatchInv, SentIsMarked, Untracked, LastAfterCancel
  <2>4. /\ sent' \in [Batches -> [Lines -> Nat]]
        /\ \A e \in Batches \ {b} : sent'[e] = sent[e]
        /\ \A i \in Lines : sent'[b][i] = IF i = l THEN 1 ELSE sent[b][i]
    BY <1>2, <1>4, <2>1, <2>3
  <2>5. item[b][l] \in TakenOver
    BY <1>4, <2>1 DEF TakenOver
  <2>6. \A i \in Lines : sent'[b][i] <= IF item[b][i] \in TakenOver THEN 1 ELSE 0
    BY <1>4, <2>4, <2>5
  <2>7. /\ after' \in [Batches -> Nat] /\ \A e \in Batches \ {b} : after'[e] = after[e]
        /\ after'[b] = IF batch[b].status \in Stopped THEN 1 ELSE 0
    BY <1>2, <2>1, <2>3
  <2>8. after'[b] <= 1 /\ (after'[b] > 0 => batch[b].status \in Stopped)
    BY <2>7
  <2> QED
    BY <1>5, <2>1, <2>2, <2>4, <2>6, <2>7, <2>8
<1>9. CASE Proceed(b)
  <2> DEFINE w == [worker[b] EXCEPT !.at = "marked"]
             it == [item[b] EXCEPT ![l] = "processing"]
  <2>1. /\ worker[b].at = "waiting" /\ worker' = [worker EXCEPT ![b] = w]
        /\ item' = [item EXCEPT ![b][l] = "processing"]
        /\ UNCHANGED <<batch, active, overdue, sent, after, crashes>>
    BY <1>9 DEF Proceed
  <2>2. /\ w \in WorkerRecords /\ w.at = "marked" /\ w.line = l
        /\ w.ok = worker[b].ok /\ w.bad = worker[b].bad
    BY <1>1 DEF WorkerRecords
  <2>3. /\ it \in Checkpoints /\ item' = [item EXCEPT ![b] = it]
        /\ \A i \in Lines : it[i] = IF i = l THEN "processing" ELSE item[b][i]
    BY <1>1, <1>4, <2>1 DEF Checkpoints
  <2> HIDE DEF w, it, l
  <2>4. w \in Workers
    BY <1>4, <2>2 DEF Workers
  <2>5. /\ item' \in [Batches -> Checkpoints] /\ item'[b] = it
        /\ \A e \in Batches \ {b} : item'[e] = item[e]
    BY <1>2, <2>3
  <2>6. item[b][l] \notin TakenOver
    BY <1>4, <2>1 DEF TakenOver
  <2>7. CountOf(it, {"succeeded"}) = worker[b].ok /\ CountOf(it, {"failed"}) = worker[b].bad
    <3>1. ASSUME NEW S, item[b][l] \notin S, "processing" \notin S
          PROVE  CountOf(it, S) = CountOf(item[b], S)
      BY <1>4, <2>3, <3>1, CountWrite
    <3>2. item[b][l] \notin {"succeeded"} /\ item[b][l] \notin {"failed"}
      BY <2>6 DEF TakenOver, Answers
    <3> QED
      BY <1>4, <3>1, <3>2 DEF Counted, Count, CountOf
  <2>8. ASSUME worker'[b] = w PROVE BatchInv(b)'
    <3>1. RunningRow(b)'
      BY <1>4, <2>1, <2>2, <2>8 DEF RunningRow
    <3>2. \A i \in Lines : /\ it[i] \in Answers <=> i < l
                           /\ it[i] = "processing" <=> i = l
                           /\ it[i] # "none"
      BY <1>4, <2>1, <2>3 DEF Answers
    <3>3. InOrder(b)'
      <4> SUFFICES ASSUME NEW i \in Lines, NEW j \in Lines, i < j, it[j] \in TakenOver
                   PROVE  it[i] \in Answers
        BY <2>5 DEF InOrder
      <4>1. i \in Nat /\ j \in Nat /\ j <= l
        BY <1>4, <3>2, BatchAssumption DEF TakenOver, Lines
      <4> QED
        BY <1>4, <3>2, <4>1
    <3>4. OnTheLine(b)'
      <4>1. Counted(b, worker[b])'
        BY <2>2, <2>5, <2>7, <2>8 DEF Counted, Count, CountOf
      <4>2. batch[b].status # "completed"
        BY <1>4 DEF Stopped
      <4>3. worker'[b].at = "marked" /\ worker'[b].line = l /\ item'[b] = it /\ batch'[b] = batch[b]
        BY <2>1, <2>2, <2>5, <2>8
      <4> QED
        BY <3>2, <4>1, <4>2, <4>3 DEF OnTheLine, Steps
    <3>5. SentIsMarked(b)'
      <4>1. sent[b][l] = 0
        BY <1>1, <1>4, <2>6
      <4>2. \A i \in Lines : sent[b][i] <= IF it[i] \in TakenOver THEN 1 ELSE 0
        <5> TAKE i \in Lines
        <5>1. sent[b][i] <= IF item[b][i] \in TakenOver THEN 1 ELSE 0
          BY <1>4
        <5>2. CASE i = l
          BY <4>1, <5>2
        <5>3. CASE i # l
          BY <2>3, <5>1, <5>3
        <5> QED
          BY <5>2, <5>3
      <4> QED
        BY <2>1, <2>2, <2>5, <2>8, <4>1, <4>2 DEF SentIsMarked
    <3>6. LastAfterCancel(b)'
      BY <1>1, <2>1, <2>2, <2>8 DEF BatchInv, LastAfterCancel
    <3> QED
      BY <3>1, <3>3, <3>4, <3>5, <3>6 DEF BatchInv
  <2> QED
    BY <1>2, <2>1, <2>4, <2>5, <2>8, OneLoop
<1> QED
  BY <1>6, <1>7, <1>8, <1>9

-----------------------------------------------------------------------------
(* The end of a batch *)

LEMMA EndsKeep ==
  ASSUME IInv, NEW b \in Batches, EndCancelled(b) \/ MarkFinalizing(b) \/ Complete(b)
  PROVE  IInv'
<1>1. /\ BatchInv(b) /\ batch[b] \in Rows /\ worker[b] \in Workers
      /\ worker[b] \in WorkerRecords
  BY OfBatch DEF Workers
<1>2. /\ batch \in [Batches -> Rows] /\ item \in [Batches -> Checkpoints]
      /\ worker \in [Batches -> Workers] /\ sent \in [Batches -> [Lines -> Nat]]
      /\ after \in [Batches -> Nat] /\ active \subseteq Batches
  BY DEF IInv, WellTyped
(* A loop that leaves with the status s. *)
<1>3. ASSUME NEW s \in Ended, Leaves(b), batch' = [batch EXCEPT ![b].status = s],
             UNCHANGED <<item, overdue, sent, after, crashes>>,
             worker[b].at \in {"finalizing", "closing"},
             after[b] > 0 => s \in Stopped,
             s = "completed" => worker[b].at = "closing"
      PROVE  IInv'
  <2> DEFINE r == [batch[b] EXCEPT !.status = s]
  <2>1. /\ r \in Rows /\ r.status = s /\ r.total = batch[b].total
        /\ r.ok = batch[b].ok /\ r.bad = batch[b].bad
    BY <1>1 DEF Rows, Statuses
  <2>2. batch' = [batch EXCEPT ![b] = r]
    BY <1>3
  <2> HIDE DEF r
  <2>3. /\ batch' \in [Batches -> Rows] /\ batch'[b] = r
        /\ \A e \in Batches \ {b} : batch'[e] = batch[e]
    BY <1>2, <2>1, <2>2
  <2>4. /\ worker' \in [Batches -> Workers] /\ worker'[b].at = "none"
        /\ \A e \in Batches \ {b} : worker'[e] = worker[e]
        /\ active' = active \ {b}
    BY <1>2, <1>3, NobodyWorks DEF Leaves
  <2>5. RunningRow(b)' /\ InOrder(b)' /\ LastAfterCancel(b)'
    BY <1>1, <1>3, <2>1, <2>3, <2>4 DEF BatchInv, RunningRow, InOrder, LastAfterCancel
  <2>6. OnTheLine(b)'
    <3>1. s = "completed" => /\ AllAnswered(b) /\ Counted(b, batch[b])
                             /\ batch[b].total = Items
      BY <1>1, <1>3 DEF BatchInv, OnTheLine, RunningRow
    <3>2. s = "completed" => /\ AllAnswered(b)' /\ Counted(b, batch[b])'
                             /\ batch'[b].total = Items
      BY <1>3, <2>1, <2>3, <3>1 DEF AllAnswered, Counted, Count
    <3> QED
      BY <2>1, <2>3, <2>4, <3>2 DEF OnTheLine, Steps
  <2>7. SentIsMarked(b)'
    BY <1>1, <1>3, <2>4 DEF BatchInv, SentIsMarked, Untracked
  <2>8. BatchInv(b)'
    BY <2>5, <2>6, <2>7 DEF BatchInv
  <2> QED
    BY <1>2, <1>3, <2>3, <2>4, <2>8, StepOf
<1>4. CASE EndCancelled(b)
  BY <1>3, <1>4 DEF EndCancelled, Stopped, Ended
<1>5. CASE Complete(b)
  <2>1. worker[b].at = "closing"
    BY <1>5 DEF Complete
  <2>2. after[b] > 0 => FALSE
    BY <1>1, <2>1 DEF BatchInv, LastAfterCancel
  <2> QED
    BY <1>3, <1>5, <2>1, <2>2 DEF Complete, Ended
<1>6. CASE MarkFinalizing(b)
  <2> DEFINE r == [batch[b] EXCEPT !.status = "finalizing", !.ok = worker[b].ok,
                                   !.bad = worker[b].bad]
             w == [worker[b] EXCEPT !.at = "closing"]
  <2>1. /\ worker[b].at = "finalizing" /\ batch[b].status \notin Stopped
        /\ batch' = [batch EXCEPT ![b] = r] /\ worker' = [worker EXCEPT ![b] = w]
        /\ UNCHANGED <<item, active, overdue, sent, after, crashes>>
    BY <1>6 DEF MarkFinalizing
  <2>2. /\ r \in Rows /\ r.status = "finalizing" /\ r.total = batch[b].total
        /\ r.ok = worker[b].ok /\ r.bad = worker[b].bad
    BY <1>1, WorkerFields DEF Rows, Statuses
  <2>3. w \in Workers /\ w.at = "closing"
    BY <1>1 DEF Workers, WorkerRecords, Steps
  <2> HIDE DEF r, w
  <2>4. /\ batch' \in [Batches -> Rows] /\ batch'[b] = r
        /\ worker' \in [Batches -> Workers] /\ worker'[b] = w
        /\ \A e \in Batches \ {b} : batch'[e] = batch[e] /\ worker'[e] = worker[e]
    BY <1>2, <2>1, <2>2, <2>3
  <2>5. RunningRow(b)' /\ InOrder(b)' /\ LastAfterCancel(b)'
    BY <1>1, <2>1, <2>2, <2>3, <2>4 DEF BatchInv, RunningRow, InOrder, LastAfterCancel
  <2>6. OnTheLine(b)'
    <3>1. /\ AllAnswered(b) /\ Counted(b, worker[b])
          /\ \A i \in Lines : item[b][i] # "none"
      BY <1>1, <2>1 DEF BatchInv, OnTheLine
    <3>2. AllAnswered(b)' /\ Counted(b, batch[b])'
      BY <2>1, <2>2, <2>4, <3>1 DEF AllAnswered, Counted, Count
    <3> QED
      BY <2>1, <2>2, <2>3, <2>4, <3>1, <3>2 DEF OnTheLine, Steps
  <2>7. SentIsMarked(b)'
    BY <1>1, <2>1, <2>3, <2>4 DEF BatchInv, SentIsMarked, Untracked
  <2>8. BatchInv(b)'
    BY <2>5, <2>6, <2>7 DEF BatchInv
  <2> QED
    BY <1>2, <2>1, <2>4, <2>8, StepOf
<1> QED
  BY <1>4, <1>5, <1>6

-----------------------------------------------------------------------------
(* Crashes *)

(* What is known of a batch without its loop. *)
LEMMA LoopLost ==
  ASSUME NEW e \in Batches, BatchInv(e),
         worker'[e].at = "none", e \notin active', batch'[e] = batch[e],
         sent'[e] = sent[e], after'[e] = after[e],
         \A i \in Lines : item'[e][i] = item[e][i]
                          \/ /\ batch[e].status = "validating"
                             /\ item[e][i] \notin TakenOver /\ item'[e][i] \notin TakenOver
  PROVE  BatchInv(e)'
<1>1. \A i \in Lines : item'[e][i] \in TakenOver <=> item[e][i] \in TakenOver
  OBVIOUS
<1>2. \A i \in Lines : item'[e][i] \in Answers <=> item[e][i] \in Answers
  BY DEF TakenOver
<1>3. RunningRow(e)' /\ LastAfterCancel(e)'
  BY DEF BatchInv, RunningRow, LastAfterCancel
<1>4. InOrder(e)'
  BY <1>1, <1>2 DEF BatchInv, InOrder
<1>5. OnTheLine(e)'
  <2>1. batch[e].status = "completed" =>
          /\ \A i \in Lines : item'[e][i] = item[e][i]
          /\ AllAnswered(e) /\ Counted(e, batch[e]) /\ batch[e].total = Items
    BY DEF BatchInv, OnTheLine
  <2>2. ASSUME batch[e].status = "completed"
        PROVE  AllAnswered(e)' /\ Counted(e, batch[e])' /\ batch'[e].total = Items
    <3>1. \A S : {i \in Lines : item'[e][i] \in S} = {i \in Lines : item[e][i] \in S}
      BY <2>1, <2>2
    <3>2. \A S : Count(e, S)' = Count(e, S)
      BY <3>1 DEF Count
    <3> QED
      BY <2>1, <2>2, <3>2 DEF AllAnswered, Counted
  <2> QED
    BY <2>2 DEF OnTheLine, Steps
<1>6. SentIsMarked(e)'
  <2>1. CASE Untracked(e)
    <3>1. \A i \in Lines : item'[e][i] = item[e][i]
      BY <2>1 DEF Untracked, Stopped
    <3> QED
      BY <2>1, <3>1 DEF SentIsMarked, Untracked
  <2>2. CASE ~Untracked(e)
    BY <1>1, <2>2 DEF BatchInv, SentIsMarked
  <2> QED
    BY <2>1, <2>2
<1> QED
  BY <1>3, <1>4, <1>5, <1>6 DEF BatchInv

LEMMA CrashesKeep ==
  ASSUME IInv, Crash \/ \E b \in Batches : CrashStarting(b)
  PROVE  IInv'
<1>1. /\ crashes < MaxCrashes /\ crashes' = crashes + 1 /\ active' = {}
      /\ worker' = [b \in Batches |-> NoWorker]
      /\ UNCHANGED <<batch, overdue, sent, after>>
  BY DEF Crash, CrashStarting, Killed
<1>2. /\ batch \in [Batches -> Rows] /\ item \in [Batches -> Checkpoints]
      /\ sent \in [Batches -> [Lines -> Nat]] /\ after \in [Batches -> Nat]
      /\ overdue \subseteq Batches /\ crashes \in 0..MaxCrashes
  BY DEF IInv, WellTyped
<1>3. /\ item' \in [Batches -> Checkpoints]
      /\ \A e \in Batches, i \in Lines :
           \/ item'[e][i] = item[e][i]
           \/ /\ batch[e].status = "validating"
              /\ item[e][i] \notin TakenOver /\ item'[e][i] \notin TakenOver
  <2>1. CASE Crash
    BY <1>2, <2>1 DEF Crash
  <2>2. ASSUME NEW b \in Batches, CrashStarting(b)
        PROVE  /\ item' \in [Batches -> Checkpoints]
               /\ \A e \in Batches, i \in Lines :
                    \/ item'[e][i] = item[e][i]
                    \/ /\ batch[e].status = "validating"
                       /\ item[e][i] \notin TakenOver /\ item'[e][i] \notin TakenOver
    <3>1. batch[b].status = "validating" /\ item' = [item EXCEPT ![b] = WithCheckpoints(b)]
      BY <2>2 DEF CrashStarting
    <3>2. /\ WithCheckpoints(b) \in Checkpoints
          /\ \A i \in Lines : WithCheckpoints(b)[i] =
               IF item[b][i] = "none" THEN "pending" ELSE item[b][i]
      BY <1>2 DEF WithCheckpoints, Checkpoints
    <3>3. /\ item' \in [Batches -> Checkpoints] /\ item'[b] = WithCheckpoints(b)
          /\ \A e \in Batches \ {b} : item'[e] = item[e]
      BY <1>2, <3>1, <3>2
    <3>4. ASSUME NEW i \in Lines
          PROVE  \/ item'[b][i] = item[b][i]
                 \/ item[b][i] \notin TakenOver /\ item'[b][i] \notin TakenOver
      BY <3>2, <3>3 DEF TakenOver, Answers
    <3> QED
      BY <3>1, <3>3, <3>4
  <2> QED
    BY <2>1, <2>2
<1>4. worker' \in [Batches -> Workers] /\ \A e \in Batches : worker'[e].at = "none"
  BY <1>1, NobodyWorks
<1>5. \A e \in Batches : BatchInv(e)'
  <2> TAKE e \in Batches
  <2>1. BatchInv(e)
    BY DEF IInv
  <2> QED
    BY <1>1, <1>3, <1>4, <2>1, LoopLost
<1>6. WellTyped'
  <2>1. crashes' \in 0..MaxCrashes
    BY <1>1, <1>2, BatchAssumption
  <2> QED
    BY <1>1, <1>2, <1>3, <1>4, <2>1 DEF WellTyped
<1>7. Cardinality(active') <= MaxConcurrent
  BY <1>1, FS_EmptySet, BatchAssumption
<1> QED
  BY <1>5, <1>6, <1>7 DEF IInv

-----------------------------------------------------------------------------
(* The poll *)

(* What one tick makes of the row of a batch: it is started with what checkpoints it
   lacks; it is not running and fails, expires or waits; or it is no business of the
   poll but for ending it when it was cancelled. *)
Started(b) ==
  /\ b \notin active /\ ~Untracked(b)
  /\ batch[b].status \in {"validating", "in_progress", "finalizing"}
  /\ batch'[b].status = "in_progress" /\ batch'[b].total = Items
  /\ item'[b] = WithCheckpoints(b)
  /\ worker'[b] = [NoWorker EXCEPT !.at = "starting"] /\ b \in active'

NotStarted(b) ==
  /\ b \notin active /\ b \notin active'
  /\ batch[b].status \in {"validating", "in_progress", "finalizing"}
  /\ \/ batch'[b].status = "failed"
     \/ batch'[b].status \in {"expired", "validating"} /\ ~Untracked(b)
  /\ batch'[b].total \in {batch[b].total, Items}
  /\ item'[b] = item[b] /\ worker'[b] = worker[b]

Passed(b) ==
  /\ b \in active' <=> b \in active
  /\ batch[b].status = "in_progress" => b \in active
  /\ batch'[b].status = IF batch[b].status = "cancelling" THEN "cancelled"
                                                          ELSE batch[b].status
  /\ batch'[b].total = batch[b].total /\ batch'[b].ok = batch[b].ok
  /\ batch'[b].bad = batch[b].bad
  /\ item'[b] = item[b] /\ worker'[b] = worker[b]

LEMMA PollEffect ==
  ASSUME IInv, Poll
  PROVE  /\ batch' \in [Batches -> Rows] /\ item' \in [Batches -> Checkpoints]
         /\ worker' \in [Batches -> Workers] /\ active' \subseteq Batches
         /\ Cardinality(active') <= MaxConcurrent
         /\ \A b \in Batches : Started(b) \/ NotStarted(b) \/ Passed(b)
<1>1. /\ batch \in [Batches -> Rows] /\ item \in [Batches -> Checkpoints]
      /\ worker \in [Batches -> Workers] /\ active \subseteq Batches
  BY DEF IInv, WellTyped
<1>2. PICK S \in SUBSET Startable :
  LET started == {b \in S : batch[b].parses}
      expired == (Startable \ S) \cap overdue
      status(b) == CASE b \in started -> "in_progress"
                     [] b \in (S \ started) \cup Unrecoverable -> "failed"
                     [] b \in expired -> "expired"
                     [] b \in Startable \ (S \cup expired) -> "validating"
                     [] batch[b].status = "cancelling" -> "cancelled"
                     [] OTHER -> batch[b].status
  IN /\ Quiet
     /\ Cardinality(S) = Least(Room, Cardinality(Startable))
     /\ batch' = [b \in Batches |->
          [status |-> status(b), parses |-> batch[b].parses,
           total |-> IF b \in S THEN Items ELSE batch[b].total,
           ok |-> batch[b].ok,
           bad |-> IF b \in S \ started THEN Items ELSE batch[b].bad]]
     /\ item' = [b \in Batches |-> IF b \in started THEN WithCheckpoints(b) ELSE item[b]]
     /\ active' = (active \cup started) \ Unrecoverable
     /\ worker' = [b \in Batches |->
          IF b \in started THEN [NoWorker EXCEPT !.at = "starting"] ELSE worker[b]]
     /\ UNCHANGED <<overdue, sent, after, crashes>>
  BY DEF Poll
<1> DEFINE started == {b \in S : batch[b].parses}
           expired == (Startable \ S) \cap overdue
           status(b) == CASE b \in started -> "in_progress"
                          [] b \in (S \ started) \cup Unrecoverable -> "failed"
                          [] b \in expired -> "expired"
                          [] b \in Startable \ (S \cup expired) -> "validating"
                          [] batch[b].status = "cancelling" -> "cancelled"
                          [] OTHER -> batch[b].status
<1>3. /\ Cardinality(S) = Least(Room, Cardinality(Startable))
      /\ batch' = [b \in Batches |->
           [status |-> status(b), parses |-> batch[b].parses,
            total |-> IF b \in S THEN Items ELSE batch[b].total,
            ok |-> batch[b].ok,
            bad |-> IF b \in S \ started THEN Items ELSE batch[b].bad]]
      /\ item' = [b \in Batches |-> IF b \in started THEN WithCheckpoints(b) ELSE item[b]]
      /\ active' = (active \cup started) \ Unrecoverable
      /\ worker' = [b \in Batches |->
           IF b \in started THEN [NoWorker EXCEPT !.at = "starting"] ELSE worker[b]]
  BY <1>2
<1>4. /\ Startable \cap Unrecoverable = {} /\ Startable \subseteq Batches
      /\ \A b \in Startable \cup Unrecoverable :
           /\ batch[b].status \in {"validating", "in_progress", "finalizing"}
           /\ b \notin active
  <2>1. \A b \in Batches : batch[b].status = "validating" => b \notin active
    BY DEF IInv, BatchInv, RunningRow, Stopped
  <2> QED
    BY <2>1 DEF Startable, Unrecoverable, Stale
<1>5. \A b \in Batches :
        Untracked(b) => b \notin Startable /\ (b \notin Unrecoverable => batch[b].status # "in_progress")
  <2> TAKE b \in Batches
  <2> SUFFICES ASSUME Untracked(b) PROVE b \notin Startable
                  /\ (b \notin Unrecoverable => batch[b].status # "in_progress")
    OBVIOUS
  <2>1. /\ \A i \in Lines : item[b][i] = "none"
        /\ worker[b].at = "none" /\ batch[b].total > 0
        /\ batch[b].status \in {"in_progress", "failed"} \cup Stopped
    BY DEF Untracked
  <2>2. b \notin active
    BY <2>1 DEF IInv, BatchInv, RunningRow
  <2>3. batch[b].total + batch[b].ok + batch[b].bad > 0
    <3>1. batch[b].total \in Nat /\ batch[b].ok \in Nat /\ batch[b].bad \in Nat
      BY <1>1, BatchAssumption DEF Rows
    <3> QED
      BY <2>1, <3>1
  <2>4. batch[b].status = "in_progress" => b \in Unrecoverable
    BY <2>1, <2>2, <2>3 DEF Unrecoverable, Stale
  <2>5. batch[b].status \notin {"validating", "finalizing"}
    BY <2>1 DEF Stopped
  <2> QED
    BY <1>4, <2>4, <2>5
<1>6. \A b \in Batches :
        batch[b].status = "in_progress" /\ b \notin active => b \in Startable \cup Unrecoverable
  BY DEF Startable, Stale
<1>7. started \subseteq S /\ S \subseteq Startable /\ expired \subseteq Startable \ S
  OBVIOUS
<1>8. ASSUME NEW b \in Batches
      PROVE  /\ b \in started => status(b) = "in_progress"
             /\ b \in (S \ started) \cup Unrecoverable => status(b) = "failed"
             /\ b \in Startable \ S => status(b) \in {"expired", "validating"}
             /\ b \notin Startable \cup Unrecoverable =>
                  status(b) = IF batch[b].status = "cancelling" THEN "cancelled"
                                                                ELSE batch[b].status
  <2>1. b \in started => b \in S /\ b \in Startable /\ b \notin Unrecoverable
    BY <1>4, <1>7
  <2>2. b \in S \cup expired => b \in Startable
    BY <1>7
  <2>3. b \in expired => b \notin S
    BY <1>7
  <2>4. b \in Startable => b \notin Unrecoverable
    BY <1>4
  <2>5. started \subseteq S
    BY <1>7
  <2>6. b \in Startable \cup Unrecoverable => batch[b].status # "cancelling"
    BY <1>4
  <2> HIDE DEF started, expired
  <2> QED
    BY <2>1, <2>2, <2>3, <2>4, <2>5, <2>6
<1> HIDE DEF status
<1>9. ASSUME NEW b \in Batches
      PROVE  /\ status(b) \in Statuses
             /\ batch'[b].status = status(b)
             /\ batch'[b].total = IF b \in S THEN Items ELSE batch[b].total
             /\ batch'[b].ok = batch[b].ok
             /\ b \notin S => batch'[b].bad = batch[b].bad
             /\ batch'[b] \in Rows
  <2>1. batch[b] \in Rows /\ Items \in 0..Items
    BY <1>1, BatchAssumption
  <2>2. status(b) \in Statuses
    <3>1. batch[b].status \in Statuses
      BY <2>1 DEF Rows
    <3>2. {"in_progress", "failed", "expired", "validating", "cancelled"} \subseteq Statuses
      BY DEF Statuses, Ended
    <3>3. status(b) \in {"in_progress", "failed", "expired", "validating", "cancelled",
                         batch[b].status}
      <4>1. \/ b \in started \/ b \in (S \ started) \cup Unrecoverable
            \/ b \in Startable \ S \/ b \notin Startable \cup Unrecoverable
        OBVIOUS
      <4> QED
        BY <1>8, <4>1
    <3> QED
      BY <3>1, <3>2, <3>3
  <2> DEFINE r == [status |-> status(b), parses |-> batch[b].parses,
                   total |-> IF b \in S THEN Items ELSE batch[b].total,
                   ok |-> batch[b].ok,
                   bad |-> IF b \in S \ started THEN Items ELSE batch[b].bad]
  <2>3. batch'[b] = r
    BY <1>3
  <2>4. r \in Rows
    BY <2>1, <2>2 DEF Rows
  <2>5. /\ r.status = status(b) /\ r.total = IF b \in S THEN Items ELSE batch[b].total
        /\ r.ok = batch[b].ok /\ (b \notin S => r.bad = batch[b].bad)
    OBVIOUS
  <2> HIDE DEF r
  <2> QED
    BY <2>2, <2>3, <2>4, <2>5
<1> HIDE DEF started, expired
<1>10. batch' \in [Batches -> Rows]
  BY <1>3, <1>9
<1>11. item' \in [Batches -> Checkpoints]
  <2>1. \A b \in Batches : WithCheckpoints(b) \in Checkpoints
    BY <1>1 DEF WithCheckpoints, Checkpoints
  <2> QED
    BY <1>1, <1>3, <2>1
<1>12. worker' \in [Batches -> Workers]
  <2>1. [NoWorker EXCEPT !.at = "starting"] \in Workers
    BY NobodyWorks DEF Workers, WorkerRecords, Steps
  <2> QED
    BY <1>1, <1>3, <2>1
<1>13. active' \subseteq Batches
  BY <1>1, <1>3, <1>4, <1>7
<1>14. Cardinality(active') <= MaxConcurrent
  <2>1. IsFiniteSet(active) /\ IsFiniteSet(S) /\ IsFiniteSet(Startable)
    BY <1>1, <1>4, <1>7, BatchAssumption, FS_Subset
  <2>2. /\ Cardinality(active) \in Nat /\ Cardinality(S) \in Nat
        /\ Cardinality(Startable) \in Nat
    BY <2>1, FS_CardinalityType
  <2>3. Cardinality(S) <= MaxConcurrent - Cardinality(active)
    <3>1. Cardinality(active) <= MaxConcurrent /\ MaxConcurrent \in Nat
      BY BatchAssumption DEF IInv
    <3>2. Room = MaxConcurrent - Cardinality(active)
      BY <2>2, <3>1 DEF Room, Least
    <3> QED
      BY <1>3, <2>2, <3>1, <3>2 DEF Least
  <2>4. /\ IsFiniteSet(active \cup S)
        /\ Cardinality(active \cup S) =
             Cardinality(active) + Cardinality(S) - Cardinality(active \cap S)
    BY <2>1, FS_Union
  <2>5. IsFiniteSet(active \cap S)
    BY <2>1, FS_Intersection
  <2>6. Cardinality(active \cap S) \in Nat
    BY <2>5, FS_CardinalityType
  <2>7. active' \in SUBSET (active \cup S)
    BY <1>3, <1>7
  <2>8. IsFiniteSet(active') /\ Cardinality(active') <= Cardinality(active \cup S)
    BY <2>4, <2>7, FS_Subset
  <2>9. Cardinality(active') \in Nat /\ MaxConcurrent \in Nat
    BY <2>8, FS_CardinalityType, BatchAssumption
  <2> QED
    BY <2>2, <2>3, <2>4, <2>6, <2>8, <2>9
<1>15. ASSUME NEW b \in Batches PROVE Started(b) \/ NotStarted(b) \/ Passed(b)
  <2>1. CASE b \in started
    <3>1. b \in Startable /\ b \in S /\ b \notin Unrecoverable
      BY <1>4, <1>7, <2>1
    <3>2. item'[b] = WithCheckpoints(b) /\ worker'[b] = [NoWorker EXCEPT !.at = "starting"]
      BY <1>3, <2>1
    <3> QED
      BY <1>3, <1>4, <1>5, <1>8, <1>9, <2>1, <3>1, <3>2 DEF Started
  <2>2. CASE b \notin started /\ b \in Startable \cup Unrecoverable
    <3>1. item'[b] = item[b] /\ worker'[b] = worker[b]
      BY <1>3, <2>2
    <3>2. b \notin active /\ b \notin active'
      BY <1>3, <1>4, <2>2
    <3>3. \/ batch'[b].status = "failed"
          \/ batch'[b].status \in {"expired", "validating"} /\ ~Untracked(b)
      <4>1. b \in (S \ started) \cup Unrecoverable \/ b \in Startable \ S
        BY <2>2
      <4> QED
        BY <1>5, <1>8, <1>9, <4>1
    <3> QED
      BY <1>4, <1>9, <2>2, <3>1, <3>2, <3>3 DEF NotStarted
  <2>3. CASE b \notin Startable \cup Unrecoverable
    <3>1. b \notin started /\ b \notin S
      BY <1>7, <2>3
    <3>2. item'[b] = item[b] /\ worker'[b] = worker[b] /\ (b \in active' <=> b \in active)
      BY <1>3, <2>3, <3>1
    <3> QED
      BY <1>6, <1>8, <1>9, <2>3, <3>1, <3>2 DEF Passed
  <2> QED
    BY <2>1, <2>2, <2>3
<1> QED
  BY <1>10, <1>11, <1>12, <1>13, <1>14, <1>15

LEMMA PollKeeps ==
  ASSUME IInv, Poll
  PROVE  IInv'
<1>1. UNCHANGED <<overdue, sent, after, crashes>>
  BY DEF Poll
<1>2. WellTyped'
  BY <1>1, PollEffect DEF IInv, WellTyped
<1>3. ASSUME NEW b \in Batches, Started(b) PROVE BatchInv(b)'
  <2>1. BatchInv(b) /\ item[b] \in Checkpoints /\ after[b] \in Nat
    BY OfBatch
  <2>2. worker[b].at = "none" /\ after[b] = 0
    <3>1. worker[b].at = "none"
      BY <1>3, <2>1 DEF Started, BatchInv, RunningRow
    <3>2. ~(after[b] > 0)
      BY <1>3, <2>1 DEF Started, BatchInv, LastAfterCancel, Stopped
    <3> QED
      BY <2>1, <3>1, <3>2
  <2>3. worker'[b].at = "starting"
    BY <1>3 DEF Started, NoWorker
  <2>4. \A i \in Lines : item'[b][i] = IF item[b][i] = "none" THEN "pending" ELSE item[b][i]
    BY <1>3, <2>1 DEF Started, WithCheckpoints
  <2>5. \A i \in Lines : /\ item'[b][i] \in TakenOver <=> item[b][i] \in TakenOver
                         /\ item'[b][i] \in Answers <=> item[b][i] \in Answers
                         /\ item'[b][i] # "none"
    BY <2>4 DEF TakenOver, Answers
  <2>6. RunningRow(b)' /\ LastAfterCancel(b)'
    BY <1>1, <1>3, <2>2, <2>3 DEF Started, RunningRow, LastAfterCancel
  <2>7. InOrder(b)'
    BY <2>1, <2>5 DEF BatchInv, InOrder
  <2>8. OnTheLine(b)'
    BY <1>3, <2>3, <2>5 DEF Started, OnTheLine, Steps
  <2>9. SentIsMarked(b)'
    <3>1. \A i \in Lines : sent[b][i] <= IF item[b][i] \in TakenOver THEN 1 ELSE 0
      BY <1>3, <2>1 DEF Started, BatchInv, SentIsMarked
    <3> QED
      BY <1>1, <2>3, <2>5, <3>1 DEF SentIsMarked
  <2> QED
    BY <2>6, <2>7, <2>8, <2>9 DEF BatchInv
<1>4. ASSUME NEW b \in Batches, NotStarted(b) PROVE BatchInv(b)'
  <2>1. BatchInv(b) /\ after[b] \in Nat
    BY OfBatch
  <2>2. worker[b].at = "none" /\ after[b] = 0
    <3>1. worker[b].at = "none"
      BY <1>4, <2>1 DEF NotStarted, BatchInv, RunningRow
    <3>2. ~(after[b] > 0)
      BY <1>4, <2>1 DEF NotStarted, BatchInv, LastAfterCancel, Stopped
    <3> QED
      BY <2>1, <3>1, <3>2
  <2>3. /\ worker'[b].at = "none" /\ item'[b] = item[b] /\ b \notin active'
        /\ batch'[b].status \in {"failed", "expired", "validating"}
        /\ sent'[b] = sent[b] /\ after'[b] = 0
    BY <1>1, <1>4, <2>2 DEF NotStarted
  <2>4. RunningRow(b)' /\ LastAfterCancel(b)'
    BY <2>3 DEF RunningRow, LastAfterCancel
  <2>5. InOrder(b)'
    BY <2>1, <2>3 DEF BatchInv, InOrder
  <2>6. OnTheLine(b)'
    BY <2>3 DEF OnTheLine, Steps
  <2>7. SentIsMarked(b)'
    <3>1. CASE Untracked(b)
      BY <1>4, <2>3, <3>1, BatchAssumption DEF NotStarted, SentIsMarked, Untracked
    <3>2. CASE ~Untracked(b)
      BY <2>1, <2>3, <3>2 DEF BatchInv, SentIsMarked
    <3> QED
      BY <3>1, <3>2
  <2> QED
    BY <2>4, <2>5, <2>6, <2>7 DEF BatchInv
<1>5. ASSUME NEW b \in Batches, Passed(b) PROVE BatchInv(b)'
  <2>1. BatchInv(b)
    BY OfBatch
  <2>2. /\ b \in active' <=> b \in active
        /\ batch[b].status = "in_progress" => b \in active
        /\ batch'[b].status = IF batch[b].status = "cancelling" THEN "cancelled"
                                                                ELSE batch[b].status
        /\ batch'[b].total = batch[b].total /\ batch'[b].ok = batch[b].ok
        /\ batch'[b].bad = batch[b].bad
        /\ item'[b] = item[b] /\ worker'[b] = worker[b]
        /\ sent'[b] = sent[b] /\ after'[b] = after[b]
    BY <1>1, <1>5 DEF Passed
  <2>3. batch'[b].status \in Stopped <=> batch[b].status \in Stopped
    BY <2>2 DEF Stopped
  <2>4. RunningRow(b)' /\ LastAfterCancel(b)'
    BY <2>1, <2>2, <2>3 DEF BatchInv, RunningRow, LastAfterCancel, Stopped
  <2>5. InOrder(b)'
    BY <2>1, <2>2 DEF BatchInv, InOrder
  <2>6. OnTheLine(b)'
    <3>1. \A T : Count(b, T)' = Count(b, T)
      BY <2>2 DEF Count
    <3>2. batch'[b].status = "completed" => batch[b].status = "completed"
      BY <2>2
    <3> QED
      BY <2>1, <2>2, <2>3, <3>1, <3>2 DEF BatchInv, OnTheLine, AllAnswered, Counted
  <2>7. SentIsMarked(b)'
    BY <2>1, <2>2, <2>3 DEF BatchInv, SentIsMarked, Untracked
  <2> QED
    BY <2>4, <2>5, <2>6, <2>7 DEF BatchInv
<1>6. \A b \in Batches : BatchInv(b)'
  BY <1>3, <1>4, <1>5, PollEffect
<1> QED
  BY <1>2, <1>6, PollEffect DEF IInv

-----------------------------------------------------------------------------
(* The invariant *)

LEMMA InitIInv == Init => IInv
<1> SUFFICES ASSUME Init PROVE IInv
  OBVIOUS
<1>1. PICK old \in SUBSET Batches :
        /\ batch = [b \in Batches |->
             [status |-> IF b \in old THEN "in_progress" ELSE "absent", parses |-> TRUE,
              total |-> IF b \in old THEN Items ELSE 0, ok |-> 0, bad |-> 0]]
        /\ item = [b \in Batches |-> [i \in Lines |-> "none"]]
        /\ sent = [b \in Batches |-> [i \in Lines |-> IF b \in old THEN 1 ELSE 0]]
  BY DEF Init
<1>2. /\ active = {} /\ worker = [b \in Batches |-> NoWorker] /\ overdue = {}
      /\ after = [b \in Batches |-> 0] /\ crashes = 0
  BY DEF Init
<1>3. Items \in Nat /\ Items > 0 /\ 0 \in 0..Items /\ Items \in 0..Items /\ 0 \in 0..MaxCrashes
  BY BatchAssumption
<1>4. WellTyped
  <2>1. batch \in [Batches -> Rows]
    BY <1>1, <1>3 DEF Rows, Statuses
  <2>2. item \in [Batches -> Checkpoints] /\ sent \in [Batches -> [Lines -> Nat]]
    BY <1>1 DEF Checkpoints
  <2>3. worker \in [Batches -> Workers]
    BY <1>2, NobodyWorks
  <2> QED
    BY <1>2, <1>3, <2>1, <2>2, <2>3 DEF WellTyped
<1>5. ASSUME NEW b \in Batches PROVE BatchInv(b)
  <2>1. /\ batch[b].status = IF b \in old THEN "in_progress" ELSE "absent"
        /\ batch[b].total = IF b \in old THEN Items ELSE 0
        /\ \A i \in Lines : item[b][i] = "none" /\ sent[b][i] = IF b \in old THEN 1 ELSE 0
        /\ worker[b].at = "none" /\ b \notin active /\ after[b] = 0
    BY <1>1, <1>2, NobodyWorks
  <2>2. RunningRow(b) /\ LastAfterCancel(b)
    BY <2>1 DEF RunningRow, LastAfterCancel
  <2>3. InOrder(b)
    BY <2>1 DEF InOrder, TakenOver, Answers
  <2>4. OnTheLine(b)
    BY <2>1 DEF OnTheLine, Steps
  <2>5. SentIsMarked(b)
    BY <1>3, <2>1 DEF SentIsMarked, Untracked, TakenOver, Answers
  <2> QED
    BY <2>2, <2>3, <2>4, <2>5 DEF BatchInv
<1>6. Cardinality(active) <= MaxConcurrent
  BY <1>2, FS_EmptySet, BatchAssumption
<1> QED
  BY <1>4, <1>5, <1>6 DEF IInv

LEMMA NextIInv == IInv /\ [Next]_vars => IInv'
<1> SUFFICES ASSUME IInv, [Next]_vars PROVE IInv'
  OBVIOUS
<1>1. ASSUME NEW b \in Batches, Create(b) \/ Cancel(b) \/ WindowPasses(b) PROVE IInv'
  BY <1>1, RequestsKeep
<1>2. ASSUME NEW b \in Batches, Resume(b) \/ Answered(b) PROVE IInv'
  BY <1>2, ContinuersKeep
<1>3. ASSUME NEW b \in Batches, Proceed(b) \/ Dispatch(b) \/ BackOff(b) \/ Redispatch(b)
      PROVE  IInv'
  BY <1>3, StepsKeep
<1>4. ASSUME NEW b \in Batches, EndCancelled(b) \/ MarkFinalizing(b) \/ Complete(b)
      PROVE  IInv'
  BY <1>4, EndsKeep
<1>5. CASE Poll
  BY <1>5, PollKeeps
<1>6. CASE Crash \/ \E b \in Batches : CrashStarting(b)
  BY <1>6, CrashesKeep
<1>7. CASE UNCHANGED vars
  <2>1. UNCHANGED <<batch, item, active, worker, overdue, sent, after, crashes>>
    BY <1>7 DEF vars
  <2>2. WellTyped'
    BY <2>1 DEF IInv, WellTyped
  <2>3. \A b \in Batches : BatchInv(b)'
    BY <2>1, LeftAlone DEF IInv
  <2> QED
    BY <2>1, <2>2, <2>3 DEF IInv
<1> QED
  BY <1>1, <1>2, <1>3, <1>4, <1>5, <1>6, <1>7 DEF Next, Work

(* batchProcessor.ts and batches.ts: the types, and how the row, the loop, the
   checkpoints and the history of each batch agree, hold throughout. *)
THEOREM Invariance == Spec => []IInv
<1> QED
  BY InitIInv, NextIInv, PTL DEF Spec

(* The rows, the checkpoints, activeBatches and the loops only ever hold what they
   are meant to hold: no line beyond the last, no attempt beyond the allowed. *)
THEOREM TypeCorrect == Spec => []TypeOK
<1>1. IInv => TypeOK
  <2> SUFFICES ASSUME IInv PROVE TypeOK
    OBVIOUS
  <2>1. Workers \subseteq WorkerRecords
    BY DEF Workers
  <2>2. worker \in [Batches -> WorkerRecords]
    BY <2>1 DEF IInv, WellTyped
  <2> QED
    BY <2>2 DEF IInv, WellTyped, TypeOK, Rows, Statuses, Checkpoints, WorkerRecords
<1> QED
  BY <1>1, Invariance, PTL

(* "without replaying already-dispatched items": no item is sent by two lifetimes of
   the process, wherever and however often it is killed. *)
THEOREM NeverReplayed == Spec => []NoReplay
<1>1. IInv => NoReplay
  <2> SUFFICES ASSUME IInv, NEW b \in Batches, NEW i \in Lines PROVE sent[b][i] <= 1
    BY DEF NoReplay
  <2>1. SentIsMarked(b) /\ sent[b][i] \in Nat
    BY OfBatch DEF BatchInv
  <2> QED
    BY <2>1 DEF SentIsMarked, Untracked
<1> QED
  BY <1>1, Invariance, PTL

(* finalizeBatch: the counts of a completed batch are those of its checkpoints, one
   outcome for every line, whichever lifetimes of the process worked on it. *)
THEOREM CompletedIsComplete == Spec => []CompletedAddsUp
<1>1. IInv => CompletedAddsUp
  <2> SUFFICES ASSUME IInv, NEW b \in Batches, batch[b].status = "completed"
               PROVE  /\ Count(b, Answers) = Items /\ batch[b].total = Items
                      /\ batch[b].ok = Count(b, {"succeeded"})
                      /\ batch[b].bad = Count(b, {"failed"})
    BY DEF CompletedAddsUp
  <2>1. AllAnswered(b) /\ Counted(b, batch[b]) /\ batch[b].total = Items
    BY OfBatch DEF BatchInv, OnTheLine
  <2>2. {i \in Lines : item[b][i] \in Answers} = Lines
    BY <2>1 DEF AllAnswered
  <2>3. Count(b, Answers) = Items
    BY <2>2, LinesFinite DEF Count
  <2> QED
    BY <2>1, <2>3 DEF Counted
<1> QED
  BY <1>1, Invariance, PTL

(* BATCH_MAX_CONCURRENT bounds the loops that run at any time. *)
THEOREM LimitKept == Spec => []WithinLimit
<1>1. IInv => WithinLimit
  <2> SUFFICES ASSUME IInv
               PROVE  Cardinality({b \in Batches : worker[b].at # "none"}) <= MaxConcurrent
    BY DEF WithinLimit
  <2>1. {b \in Batches : worker[b].at # "none"} = active
    BY DEF IInv, WellTyped, BatchInv, RunningRow
  <2> QED
    BY <2>1 DEF IInv
<1> QED
  BY <1>1, Invariance, PTL

(* isBatchCancelled: at most one item goes out after the cancel request. *)
THEOREM CancelHeeded == Spec => []OneItemAfterCancel
<1>1. IInv => OneItemAfterCancel
  BY DEF IInv, BatchInv, LastAfterCancel, OneItemAfterCancel
<1> QED
  BY <1>1, Invariance, PTL

(* A poll ends no batch twice, and restarts none that has ended. *)
LEMMA PollFinal ==
  ASSUME IInv, Poll, NEW b \in Batches
  PROVE  /\ batch[b].status \in Ended => batch'[b].status = batch[b].status
         /\ \A i \in Lines : item[b][i] \in Answers => item'[b][i] = item[b][i]
<1>1. Started(b) \/ NotStarted(b) \/ Passed(b)
  BY PollEffect
<1>2. item[b] \in Checkpoints
  BY OfBatch
<1>3. CASE Started(b)
  BY <1>2, <1>3 DEF Started, WithCheckpoints, Ended, Answers
<1>4. CASE NotStarted(b)
  BY <1>4 DEF NotStarted, Ended
<1>5. CASE Passed(b)
  BY <1>5 DEF Passed, Ended
<1> QED
  BY <1>1, <1>3, <1>4, <1>5

(* A batch that has ended keeps its outcome whatever comes after. *)
THEOREM OutcomeFinal == Spec => EndIsFinal
<1>1. IInv /\ [Next]_vars =>
        \A b \in Batches : batch[b].status \in Ended => batch'[b].status = batch[b].status
  <2> SUFFICES ASSUME IInv, [Next]_vars, NEW b \in Batches, batch[b].status \in Ended
               PROVE  batch'[b].status = batch[b].status
    OBVIOUS
  <2>1. batch \in [Batches -> Rows] /\ BatchInv(b)
    BY OfBatch DEF IInv, WellTyped
  <2>2. CASE UNCHANGED batch
    BY <2>2
  <2>3. CASE Poll
    BY <2>3, PollFinal
  <2>4. ASSUME NEW e \in Batches, Create(e) \/ Cancel(e) PROVE batch'[b].status = batch[b].status
    BY <2>1, <2>4 DEF Create, Cancel, Ended
  <2>5. ASSUME NEW e \in Batches, Resume(e) \/ Answered(e)
        PROVE  batch'[b].status = batch[b].status
    <3>1. CASE UNCHANGED batch
      BY <3>1
    <3>2. CASE \E w \in WorkerRecords, jt \in Checkpoints : Continue(e, w, jt)
      <4>1. PICK w \in WorkerRecords, jt \in Checkpoints : Continue(e, w, jt)
        BY <3>2
      <4>2. batch' = [batch EXCEPT ![e].ok = w.ok, ![e].bad = w.bad]
        BY <4>1 DEF Continue
      <4>3. batch[b] \in Rows
        BY <2>1
      <4> QED
        BY <2>1, <4>2, <4>3 DEF Rows
    <3> QED
      BY <2>5, <3>1, <3>2, Continues
  <2>6. ASSUME NEW e \in Batches, EndCancelled(e) PROVE batch'[b].status = batch[b].status
    BY <2>1, <2>6 DEF EndCancelled, Stopped, Ended, BatchInv, RunningRow
  <2>7. ASSUME NEW e \in Batches, MarkFinalizing(e) PROVE batch'[b].status = batch[b].status
    <3>1. e # b
      BY <2>1, <2>7 DEF MarkFinalizing, BatchInv, RunningRow, Ended, Stopped
    <3> QED
      BY <2>1, <2>7, <3>1 DEF MarkFinalizing
  <2>8. ASSUME NEW e \in Batches, Complete(e) PROVE batch'[b].status = batch[b].status
    <3>1. e # b
      BY <2>1, <2>8 DEF Complete, BatchInv, RunningRow, Ended
    <3> QED
      BY <2>1, <2>8, <3>1 DEF Complete
  <2> QED
    BY <2>2, <2>3, <2>4, <2>5, <2>6, <2>7, <2>8
    DEF Next, Work, WindowPasses, Proceed, Dispatch, BackOff, Redispatch, Crash,
        CrashStarting, vars
<1>2. Spec => [][\A b \in Batches :
                   batch[b].status \in Ended => batch'[b].status = batch[b].status]_vars
  BY <1>1, Invariance, PTL DEF Spec
<1> QED
  BY <1>2 DEF EndIsFinal

(* A recorded answer of the provider stays as it was recorded. *)
THEOREM AnswersStay == Spec => AnswersKept
<1>1. IInv /\ [Next]_vars =>
        \A b \in Batches, i \in Lines : item[b][i] \in Answers => item'[b][i] = item[b][i]
  <2> SUFFICES ASSUME IInv, [Next]_vars, NEW b \in Batches, NEW i \in Lines,
                      item[b][i] \in Answers
               PROVE  item'[b][i] = item[b][i]
    OBVIOUS
  <2>1. item \in [Batches -> Checkpoints] /\ item[b] \in Checkpoints
    BY DEF IInv, WellTyped
  <2>2. CASE UNCHANGED item
    BY <2>2
  <2>3. CASE Poll
    BY <2>3, PollFinal
  <2>4. ASSUME NEW e \in Batches, Resume(e) \/ Answered(e) PROVE item'[b][i] = item[b][i]
    <3>1. CASE UNCHANGED item
      BY <3>1
    <3>2. CASE \E w \in WorkerRecords, jt \in Checkpoints : Agree(e, w, jt) /\ Continue(e, w, jt)
      <4>1. PICK w \in WorkerRecords, jt \in Checkpoints : Agree(e, w, jt) /\ Continue(e, w, jt)
        BY <3>2
      <4>2. \/ item' = [item EXCEPT ![e] = jt]
            \/ item' = [item EXCEPT ![e] = [jt EXCEPT ![w.line] = "processing"]]
        BY <4>1 DEF Continue
      <4>3. CASE e # b
        BY <2>1, <4>2, <4>3
      <4>4. CASE e = b
        <5>1. jt[i] = item[b][i] /\ i < w.line
          BY <4>1, <4>4 DEF Agree
        <5>2. i # w.line
          BY <5>1, BatchAssumption DEF Lines
        <5> QED
          BY <2>1, <4>2, <4>4, <5>1, <5>2 DEF Checkpoints
      <4> QED
        BY <4>3, <4>4
    <3> QED
      BY <2>4, <3>1, <3>2, Continues
  <2>5. ASSUME NEW e \in Batches, Proceed(e) PROVE item'[b][i] = item[b][i]
    <3>1. /\ worker[e].at = "waiting"
          /\ item' = [item EXCEPT ![e][worker[e].line] = "processing"]
      BY <2>5 DEF Proceed
    <3>2. e = b => i < worker[e].line
      BY <3>1, AtLine DEF Steps
    <3>3. e = b => i # worker[e].line
      BY <3>2, BatchAssumption DEF Lines
    <3> QED
      BY <2>1, <3>1, <3>3 DEF Checkpoints
  <2>6. ASSUME NEW e \in Batches, CrashStarting(e) PROVE item'[b][i] = item[b][i]
    BY <2>1, <2>6 DEF CrashStarting, WithCheckpoints, Answers
  <2> QED
    BY <2>2, <2>3, <2>4, <2>5, <2>6
    DEF Next, Work, Create, Cancel, WindowPasses, Dispatch, BackOff, Redispatch,
        EndCancelled, MarkFinalizing, Complete, Crash, vars
<1>2. Spec => [][\A b \in Batches, i \in Lines :
                   item[b][i] \in Answers => item'[b][i] = item[b][i]]_vars
  BY <1>1, Invariance, PTL DEF Spec
<1> QED
  BY <1>2 DEF AnswersKept
=============================================================================
