--------------------------- MODULE BatchProcessor ---------------------------
(***************************************************************************)
(* open-sse/services/batchProcessor.ts over src/lib/db/batches.ts: the     *)
(* poll every ten seconds, the background loop of each batch it starts,    *)
(* the cancel route, and crashes, after which the rows and the item        *)
(* checkpoints are all that is left.                                       *)
(*                                                                         *)
(* A stretch of code without an await runs to its end: nothing else        *)
(* happens meanwhile (Quiet), but the process may be killed in it.         *)
(***************************************************************************)
EXTENDS Naturals, FiniteSets

CONSTANTS
  Batches,
  Items,           \* lines per input file
  MaxConcurrent,   \* BATCH_MAX_CONCURRENT
  MaxTries,        \* attempts per item
  MaxCrashes       \* bound

ASSUME BatchAssumption ==
  /\ IsFiniteSet(Batches)
  /\ Items \in Nat \ {0} /\ MaxConcurrent \in Nat \ {0}
  /\ MaxTries \in Nat \ {0} /\ MaxCrashes \in Nat

VARIABLES
  batch,    \* table batches: status and request counts
  item,     \* table batch_item_checkpoints: per line, "none" without a row
  active,   \* activeBatches
  worker,   \* processBatchItems: where it is, and its state
  overdue,  \* the batches older than their completion window
  sent,     \* history: how many process lifetimes dispatched an item
  after,    \* history: items first dispatched since the batch was cancelled
  crashes

vars == <<batch, item, active, worker, overdue, sent, after, crashes>>

Lines == 1..Items
Ended == {"completed", "failed", "cancelled", "expired"}
Stopped == {"cancelling", "cancelled"}
Answers == {"succeeded", "failed"}   \* a checkpoint with an outcome; "failed" is an
                                     \* error, or a response with a bad status
NoWorker == [at |-> "none", line |-> 1, tries |-> 0, ok |-> 0, bad |-> 0]

TypeOK ==
  /\ batch \in [Batches ->
       [status : {"absent", "validating", "in_progress", "finalizing", "cancelling"} \cup Ended,
        parses : BOOLEAN, total : 0..Items, ok : 0..Items, bad : 0..Items]]
  /\ item \in [Batches -> [Lines -> {"none", "pending", "processing"} \cup Answers]]
  /\ active \subseteq Batches
  /\ worker \in [Batches ->
       [at : {"none", "starting", "waiting", "marked", "calling", "backoff",
              "finalizing", "closing"},
        line : 1..(Items + 1), tries : 0..MaxTries, ok : 0..Items, bad : 0..Items]]
  /\ overdue \subseteq Batches
  /\ sent \in [Batches -> [Lines -> Nat]]
  /\ after \in [Batches -> Nat]
  /\ crashes \in 0..MaxCrashes

(* Rows of an earlier version may be running without checkpoints; any of their
   items may have been sent. *)
Init ==
  \E old \in SUBSET Batches :
    /\ batch = [b \in Batches |->
         [status |-> IF b \in old THEN "in_progress" ELSE "absent", parses |-> TRUE,
          total |-> IF b \in old THEN Items ELSE 0, ok |-> 0, bad |-> 0]]
    /\ item = [b \in Batches |-> [i \in Lines |-> "none"]]
    /\ active = {}
    /\ worker = [b \in Batches |-> NoWorker]
    /\ overdue = {}
    /\ sent = [b \in Batches |-> [i \in Lines |-> IF b \in old THEN 1 ELSE 0]]
    /\ after = [b \in Batches |-> 0]
    /\ crashes = 0

Quiet == \A b \in Batches : worker[b].at \notin {"marked", "finalizing", "closing"}

Least(m, n) == IF m < n THEN m ELSE n

-----------------------------------------------------------------------------
(* Requests *)

Create(b) ==
  /\ Quiet /\ batch[b].status = "absent"
  /\ \E p \in BOOLEAN : batch' = [batch EXCEPT ![b].status = "validating", ![b].parses = p]
  /\ UNCHANGED <<item, active, worker, overdue, sent, after, crashes>>

Cancel(b) ==
  /\ Quiet /\ batch[b].status \in {"validating", "in_progress", "finalizing"}
  /\ batch' = [batch EXCEPT ![b].status = "cancelling"]
  /\ UNCHANGED <<item, active, worker, overdue, sent, after, crashes>>

WindowPasses(b) ==
  /\ batch[b].status # "absent" /\ b \notin overdue
  /\ overdue' = overdue \cup {b}
  /\ UNCHANGED <<batch, item, active, worker, sent, after, crashes>>

-----------------------------------------------------------------------------
(* processPendingBatches *)

(* Running according to its row, but not in this process. *)
Stale == {b \in Batches : batch[b].status \in {"in_progress", "finalizing"} /\ b \notin active}

(* Items may have been sent, and no checkpoint tells which. *)
Unrecoverable == {b \in Stale :
  /\ \A i \in Lines : item[b][i] = "none"
  /\ batch[b].total + batch[b].ok + batch[b].bad > 0 \/ batch[b].status = "finalizing"}

Startable == {b \in Batches : batch[b].status = "validating"} \cup (Stale \ Unrecoverable)

(* Mutant: the batches already active are not counted. *)
RoomForAll == MaxConcurrent

Room == MaxConcurrent - Least(MaxConcurrent, Cardinality(active))

(* Mutant: INSERT OR REPLACE. *)
WithFreshCheckpoints(b) == [i \in Lines |-> "pending"]

(* ensureBatchItemCheckpoints inserts what is missing. *)
WithCheckpoints(b) == [i \in Lines |-> IF item[b][i] = "none" THEN "pending" ELSE item[b][i]]

(* One tick: recover the stale batches, start as many as there is room for,
   end the cancelled ones, and expire what still waits beyond its window. *)
Poll ==
  \E S \in SUBSET Startable :
    LET started == {b \in S : batch[b].parses}
        expired == (Startable \ S) \cap overdue
        status(b) == CASE b \in started -> "in_progress"
                       [] b \in (S \ started) \cup Unrecoverable -> "failed"
                       [] b \in expired -> "expired"
                       [] b \in Startable \ (S \cup expired) -> "validating"
                       [] batch[b].status = "cancelling" -> "cancelled"
                       [] OTHER -> batch[b].status
    IN /\ Quiet
       /\ Cardinality(S) = Least(Room, Cardinality(Startable))
       /\ batch' = [b \in Batches |->
            [status |-> status(b), parses |-> batch[b].parses,
             total |-> IF b \in S THEN Items ELSE batch[b].total,
             ok |-> batch[b].ok,
             bad |-> IF b \in S \ started THEN Items ELSE batch[b].bad]]
       /\ item' = [b \in Batches |-> IF b \in started THEN WithCheckpoints(b) ELSE item[b]]
       /\ active' = (active \cup started) \ Unrecoverable
       /\ worker' = [b \in Batches |->
            IF b \in started THEN [NoWorker EXCEPT !.at = "starting"] ELSE worker[b]]
       /\ UNCHANGED <<overdue, sent, after, crashes>>

-----------------------------------------------------------------------------
(* processBatchItems *)

Count(b, S) == Cardinality({i \in Lines : item[b][i] \in S})

(* Mutant: the head of the loop does not look for a cancel request. *)
ContinueUnasked(b, w, it) ==
  LET stops == w.line > Items
      goesTo(at) == worker' = [worker EXCEPT ![b] = [w EXCEPT !.at = at]]
  IN /\ batch' = [batch EXCEPT ![b].ok = w.ok, ![b].bad = w.bad]
     /\ \/ stops /\ goesTo("finalizing") /\ item' = [item EXCEPT ![b] = it]
        \/ ~stops /\ goesTo("waiting") /\ item' = [item EXCEPT ![b] = it]
        \/ /\ ~stops /\ goesTo("marked")
           /\ item' = [item EXCEPT ![b] = [it EXCEPT ![w.line] = "processing"]]

(* The head of the loop with the state w and the checkpoints it: stop, wait
   because the provider's rate-limit headers say so, or mark the next item and
   send it.  The progress is saved on the way. *)
Continue(b, w, it) ==
  LET stops == batch[b].status \in Stopped \/ w.line > Items
      goesTo(at) == worker' = [worker EXCEPT ![b] = [w EXCEPT !.at = at]]
  IN /\ batch' = [batch EXCEPT ![b].ok = w.ok, ![b].bad = w.bad]
     /\ \/ stops /\ goesTo("finalizing") /\ item' = [item EXCEPT ![b] = it]
        \/ ~stops /\ goesTo("waiting") /\ item' = [item EXCEPT ![b] = it]
        \/ /\ ~stops /\ goesTo("marked")
           /\ item' = [item EXCEPT ![b] = [it EXCEPT ![w.line] = "processing"]]

(* Mutant: an item the crash interrupted is sent again. *)
TakenOverAnswered == Answers

(* applyRecoveredCheckpoint takes over what earlier lifetimes answered, and an
   item they were interrupted in as an error; since lines are sent in order,
   those are the first lines of the file. *)
TakenOver == Answers \cup {"processing"}

(* Mutant: an interrupted item is taken over but not counted as an error. *)
ResumeUncounted(b) ==
  LET done == Count(b, TakenOver)
      ok == Count(b, {"succeeded"})
      it == [i \in Lines |-> IF item[b][i] = "processing" THEN "failed" ELSE item[b][i]]
  IN /\ Quiet /\ worker[b].at = "starting" /\ batch[b].status \notin Stopped
     /\ Continue(b, [NoWorker EXCEPT !.line = done + 1, !.ok = ok, !.bad = Count(b, {"failed"})], it)
     /\ UNCHANGED <<active, overdue, sent, after, crashes>>

(* The API key is resolved. *)
Resume(b) ==
  LET done == Count(b, TakenOver)
      ok == Count(b, {"succeeded"})
      it == [i \in Lines |-> IF item[b][i] = "processing" THEN "failed" ELSE item[b][i]]
  IN /\ Quiet /\ worker[b].at = "starting"
     /\ \/ /\ batch[b].status \in Stopped
           /\ worker' = [worker EXCEPT ![b].at = "finalizing"]
           /\ UNCHANGED <<batch, item>>
        \/ /\ batch[b].status \notin Stopped
           /\ Continue(b, [NoWorker EXCEPT !.line = done + 1, !.ok = ok, !.bad = done - ok], it)
     /\ UNCHANGED <<active, overdue, sent, after, crashes>>

(* The wait is over; nobody looks at the batch again before the item goes. *)
Proceed(b) ==
  /\ Quiet /\ worker[b].at = "waiting"
  /\ worker' = [worker EXCEPT ![b].at = "marked"]
  /\ item' = [item EXCEPT ![b][worker[b].line] = "processing"]
  /\ UNCHANGED <<batch, active, overdue, sent, after, crashes>>

Dispatch(b) ==
  /\ worker[b].at = "marked"
  /\ worker' = [worker EXCEPT ![b].at = "calling", ![b].tries = 1]
  /\ sent' = [sent EXCEPT ![b][worker[b].line] = @ + 1]
  /\ after' = [after EXCEPT ![b] = @ + IF batch[b].status \in Stopped THEN 1 ELSE 0]
  /\ UNCHANGED <<batch, item, active, overdue, crashes>>

(* Mutant: one attempt too many. *)
BackOffAgain(b) ==
  /\ Quiet /\ worker[b].at = "calling" /\ worker[b].tries <= MaxTries
  /\ worker' = [worker EXCEPT ![b].at = "backoff"]
  /\ UNCHANGED <<batch, item, active, overdue, sent, after, crashes>>

(* 429, 502 and 504 are tried again after a pause, cancelled or not. *)
BackOff(b) ==
  /\ Quiet /\ worker[b].at = "calling" /\ worker[b].tries < MaxTries
  /\ worker' = [worker EXCEPT ![b].at = "backoff"]
  /\ UNCHANGED <<batch, item, active, overdue, sent, after, crashes>>

Redispatch(b) ==
  /\ Quiet /\ worker[b].at = "backoff"
  /\ worker' = [worker EXCEPT ![b].at = "calling", ![b].tries = @ + 1]
  /\ UNCHANGED <<batch, item, active, overdue, sent, after, crashes>>

(* A response, good or bad, or an exception. *)
Answered(b) ==
  \E a \in Answers :
    LET w == worker[b]
        good == IF a = "succeeded" THEN 1 ELSE 0
    IN /\ Quiet /\ w.at = "calling"
       /\ Continue(b, [w EXCEPT !.line = @ + 1, !.tries = 0, !.ok = @ + good,
                                !.bad = @ + 1 - good],
                   [item[b] EXCEPT ![w.line] = a])
       /\ UNCHANGED <<active, overdue, sent, after, crashes>>

-----------------------------------------------------------------------------
(* finalizeBatch *)

(* Mutant: the promise ends without activeBatches.delete. *)
LeavesActive(b) ==
  /\ active' = active
  /\ worker' = [worker EXCEPT ![b] = NoWorker]

(* The background promise ends: activeBatches.delete. *)
Leaves(b) ==
  /\ active' = active \ {b}
  /\ worker' = [worker EXCEPT ![b] = NoWorker]

(* Mutant: only a batch that is still being cancelled is left alone. *)
MarkFinalizingCancelled(b) ==
  /\ worker[b].at = "finalizing" /\ batch[b].status # "cancelling"
  /\ batch' = [batch EXCEPT ![b].status = "finalizing", ![b].ok = worker[b].ok,
                            ![b].bad = worker[b].bad]
  /\ worker' = [worker EXCEPT ![b].at = "closing"]
  /\ UNCHANGED <<item, active, overdue, sent, after, crashes>>

EndCancelled(b) ==
  /\ worker[b].at = "finalizing" /\ batch[b].status \in Stopped
  /\ batch' = [batch EXCEPT ![b].status = "cancelled"]
  /\ Leaves(b)
  /\ UNCHANGED <<item, overdue, sent, after, crashes>>

MarkFinalizing(b) ==
  /\ worker[b].at = "finalizing" /\ batch[b].status \notin Stopped
  /\ batch' = [batch EXCEPT ![b].status = "finalizing", ![b].ok = worker[b].ok,
                            ![b].bad = worker[b].bad]
  /\ worker' = [worker EXCEPT ![b].at = "closing"]
  /\ UNCHANGED <<item, active, overdue, sent, after, crashes>>

(* The result files are written, or cannot be. *)
Complete(b) ==
  \E s \in {"completed", "failed"} :
    /\ worker[b].at = "closing"
    /\ batch' = [batch EXCEPT ![b].status = s]
    /\ Leaves(b)
    /\ UNCHANGED <<item, overdue, sent, after, crashes>>

-----------------------------------------------------------------------------
(* Crashes *)

Killed ==
  /\ crashes < MaxCrashes
  /\ crashes' = crashes + 1
  /\ active' = {}
  /\ worker' = [b \in Batches |-> NoWorker]
  /\ UNCHANGED <<overdue, sent, after>>

Crash == Killed /\ UNCHANGED <<batch, item>>

(* startBatch has written the checkpoints and not yet the row. *)
CrashStarting(b) ==
  /\ Quiet /\ Killed
  /\ batch[b].status = "validating" /\ batch[b].parses /\ Room > 0
  /\ item' = [item EXCEPT ![b] = WithCheckpoints(b)]
  /\ UNCHANGED batch

Work(b) ==
  \/ Resume(b) \/ Proceed(b) \/ Dispatch(b) \/ BackOff(b) \/ Redispatch(b)
  \/ Answered(b) \/ EndCancelled(b) \/ MarkFinalizing(b) \/ Complete(b)

Next ==
  \/ \E b \in Batches : Create(b) \/ Cancel(b) \/ WindowPasses(b) \/ Work(b)
                        \/ CrashStarting(b)
  \/ Poll
  \/ Crash

Spec == Init /\ [][Next]_vars

(* The poll's interval, and every dispatch returns or throws. *)
Fairness == WF_vars(Poll) /\ \A b \in Batches : WF_vars(Work(b))

LiveSpec == Spec /\ Fairness

-----------------------------------------------------------------------------
(* Properties *)

(* "without replaying already-dispatched items" (batchProcessor.ts:76): no two
   lifetimes of the process send the same item, wherever the first was killed. *)
NoReplay == \A b \in Batches, i \in Lines : sent[b][i] <= 1

(* finalizeBatch: a completed batch has an outcome for every line, and the
   counts it reports are those of the checkpoints, whichever lifetime wrote them. *)
CompletedAddsUp ==
  \A b \in Batches : batch[b].status = "completed" =>
    /\ Count(b, Answers) = Items /\ batch[b].total = Items
    /\ batch[b].ok = Count(b, {"succeeded"})
    /\ batch[b].bad = Count(b, {"failed"})

(* A batch that has ended stays as it ended: no poll, cancel request, recovery
   or late answer turns it into anything else. *)
EndIsFinal ==
  [][\A b \in Batches : batch[b].status \in Ended => batch'[b].status = batch[b].status]_vars

(* A recorded answer of the provider is never lost or overwritten. *)
AnswersKept ==
  [][\A b \in Batches, i \in Lines : item[b][i] \in Answers => item'[b][i] = item[b][i]]_vars

(* BATCH_MAX_CONCURRENT: no more batches send items than allowed, across
   restarts and recoveries, cancelled ones that still run included. *)
WithinLimit ==
  Cardinality({b \in Batches : worker[b].at # "none"}) <= MaxConcurrent

(* isBatchCancelled is read once per item: a cancelled batch sends at most the
   item it was waiting to send. *)
OneItemAfterCancel == \A b \in Batches : after[b] <= 1

(* Every batch ends, crashes or not: none that was created is under way for ever. *)
BatchesEnd == \A b \in Batches : []<>(batch[b].status \in Ended \cup {"absent"})
=============================================================================
