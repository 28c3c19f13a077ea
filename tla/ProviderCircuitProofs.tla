------------------------ MODULE ProviderCircuitProofs ------------------------
(***************************************************************************)
(* For any number of requests, connections and retries: the request path   *)
(* keeps the breaker's promise to the traffic (it implements CircuitGuard) *)
(* although it judges the breaker from outside execute, more than once per *)
(* request, and long after the gate.                                       *)
(*                                                                         *)
(* The invariant is the type invariant with a Sound breaker in it, and two *)
(* facts it needs to be inductive: a request whose connection may be       *)
(* cooled has one, and one that waits has a retry left.                    *)
(***************************************************************************)
EXTENDS ProviderCircuit, BreakerProofs

Served == {"chosen", "running", "ok", "failed"}

HasConnection == \A r \in Requests : req[r].at \in Served => req[r].conn # None

HasRetry == \A r \in Requests : req[r].at = "waiting" => req[r].attempt < MaxRetries

IInv == Sound(breaker) /\ TypeOK /\ HasConnection /\ HasRetry

Running == {r \in Requests : At(r, "running")}

(* Only request r moved, and it is at `phase` now. *)
MovedTo(r, phase) ==
  /\ req' \in [Requests -> Locals]
  /\ req'[r].at = phase
  /\ phase \in Served => req'[r].conn # None
  /\ phase = "waiting" => req'[r].attempt < MaxRetries
  /\ \A q \in Requests \ {r} : req'[q] = req[q]

-----------------------------------------------------------------------------
(* The moves of a request *)

(* Whatever its new local variables are. *)
LEMMA BecomesMoves ==
  ASSUME TypeOK, NEW r \in Requests, NEW l \in Locals, Becomes(r, l),
         l.at \in Served => l.conn # None,
         l.at = "waiting" => l.attempt < MaxRetries
  PROVE  MovedTo(r, l.at)
  BY DEF TypeOK, Becomes, MovedTo

(* A request that only goes on. *)
LEMMA GoesMoves ==
  ASSUME TypeOK, NEW r \in Requests, NEW p \in Phases, Goes(r, p),
         p \in Served => req[r].conn # None,
         p = "waiting" => req[r].attempt < MaxRetries
  PROVE  MovedTo(r, p)
  <1> DEFINE l == [req[r] EXCEPT !.at = p]
  <1>1. l \in Locals /\ l.at = p /\ l.conn = req[r].conn /\ l.attempt = req[r].attempt
    BY DEF TypeOK, Locals
  <1>2. Becomes(r, l)
    BY DEF Goes
  <1> HIDE DEF l
  <1> QED
    BY <1>1, <1>2, BecomesMoves

(* One that ends. *)
LEMMA EndsMoves ==
  ASSUME TypeOK, NEW r \in Requests, Ends(r)
  PROVE  MovedTo(r, "idle")
  <1>1. 0 \in 0..MaxRetries
    BY RetriesNat
  <1>2. NoRequest \in Locals /\ NoRequest.at = "idle"
    BY <1>1 DEF NoRequest, Locals, Phases
  <1> QED
    BY <1>2, BecomesMoves DEF Ends, Served

(* One that goes back for another connection. *)
LEMMA ChoosesAgainMoves ==
  ASSUME TypeOK, NEW r \in Requests, NEW e \in SUBSET Connections, ChoosesAgain(r, e)
  PROVE  MovedTo(r, "gated")
  <1> DEFINE l == [req[r] EXCEPT !.at = "gated", !.conn = None, !.excluded = e]
  <1>1. l \in Locals /\ l.at = "gated"
    BY DEF TypeOK, Locals, Phases
  <1>2. Becomes(r, l)
    BY DEF ChoosesAgain
  <1> HIDE DEF l
  <1> QED
    BY <1>1, <1>2, BecomesMoves DEF Served

(* One whose call has failed. *)
LEMMA MeetsMoves ==
  ASSUME TypeOK, NEW r \in Requests, NEW w \in {"failure", "refusal"}, Meets(r, w),
         req[r].conn # None
  PROVE  MovedTo(r, "failed")
  <1> DEFINE l == [req[r] EXCEPT !.at = "failed", !.met = @ \cup {w}]
  <1>1. l \in Locals /\ l.at = "failed" /\ l.conn = req[r].conn
    BY DEF TypeOK, Locals, Phases
  <1>2. Becomes(r, l)
    BY DEF Meets
  <1> HIDE DEF l
  <1> QED
    BY <1>1, <1>2, BecomesMoves

(* The calls inside execute after a move. *)
LEMMA RunningAfter ==
  ASSUME NEW r \in Requests, NEW p, MovedTo(r, p)
  PROVE  Running' = IF p = "running" THEN Running \cup {r} ELSE Running \ {r}
  BY DEF MovedTo, Running, At

-----------------------------------------------------------------------------
(* What a step does to the guard *)

(* A request that moves outside execute may tell what it has learnt. *)
LEMMA MoveOutside ==
  ASSUME IInv, NEW r \in Requests, NEW p, MovedTo(r, p),
         ~At(r, "running"), p # "running",
         Sound(breaker'), Judged(breaker, breaker'),
         cooled' \subseteq Connections, streak' \in 0..FailureThreshold
  PROVE  IInv' /\ Guard!Report
  <1>1. Running' = Running
    BY RunningAfter DEF Running
  <1>2. IInv'
    BY DEF IInv, TypeOK, HasConnection, HasRetry, MovedTo, Sound
  <1>3. Guard!Report
    BY <1>1 DEF Running, Judged, Guard!Report, Guard!Verdict
  <1> QED
    BY <1>2, <1>3

(* A request that leaves execute. *)
LEMMA MoveOut ==
  ASSUME IInv, NEW r \in Requests, NEW p, MovedTo(r, p),
         At(r, "running"), p # "running",
         Sound(breaker'), Judged(breaker, breaker'),
         cooled' \subseteq Connections, streak' \in 0..FailureThreshold
  PROVE  IInv' /\ Guard!Leave(r)
  <1>1. r \in Running /\ Running' = Running \ {r}
    BY RunningAfter DEF Running
  <1>2. IInv'
    BY DEF IInv, TypeOK, HasConnection, HasRetry, MovedTo, Sound
  <1>3. Guard!Leave(r)
    BY <1>1 DEF Running, Judged, Guard!Leave, Guard!Verdict
  <1> QED
    BY <1>2, <1>3

(* What the breaker may become when nobody enters. *)
LEMMA BreakerMoves ==
  ASSUME IInv
  PROVE  /\ UNCHANGED breaker => Sound(breaker') /\ Judged(breaker, breaker')
         /\ breaker' = Refresh(breaker) => Sound(breaker') /\ Judged(breaker, breaker')
         /\ breaker' = OnSuccess(breaker) => Sound(breaker') /\ Judged(breaker, breaker')
         /\ breaker' = OnFailure(breaker) => Sound(breaker') /\ Judged(breaker, breaker')
         /\ breaker' = Cleared(breaker) => Sound(breaker') /\ Judged(breaker, breaker')
  <1>1. Sound(breaker)
    BY DEF IInv
  <1>2. Judged(breaker, breaker)
    BY DEF Judged
  <1>3. Sound(Refresh(breaker)) /\ Judged(breaker, Refresh(breaker))
    BY <1>1, RefreshSound DEF Judged
  <1> QED
    BY <1>1, <1>2, <1>3, SuccessSound, FailureSound, ClearedSound

(* The history of failures stays in its range. *)
LEMMA CountUpRange ==
  ASSUME IInv, NEW r \in Requests, CountUp(r)
  PROVE  streak' \in 0..FailureThreshold
  BY BumpRange, ThresholdsPositive DEF IInv, TypeOK, CountUp

-----------------------------------------------------------------------------
(* The actions *)

(* The dispatch of a request is an entry. *)
LEMMA DispatchedStep ==
  ASSUME IInv, NEW r \in Requests, Dispatched(r)
  PROVE  IInv' /\ Guard!Enter(r)
  <1> DEFINE b == Refresh(breaker)
  <1>1. MovedTo(r, "running")
    BY GoesMoves DEF IInv, HasConnection, Served, Dispatched, At, Phases
  <1>2. r \notin Running
    BY DEF Dispatched, Running, At
  <1>3. Running' = Running \cup {r}
    BY <1>1, RunningAfter
  <1>4. Executable(b) /\ breaker' = TakeProbe(b) /\ UNCHANGED <<cooled, streak>>
    BY DEF Dispatched
  <1>5. /\ Sound(b) /\ GuardPhase(b) = GuardPhase(breaker)
        /\ GuardBudget(b) = GuardBudget(breaker)
    BY RefreshSound DEF IInv
  <1> HIDE DEF b
  <1>6. /\ Sound(breaker') /\ GuardPhase(breaker') = GuardPhase(breaker)
        /\ \/ GuardPhase(breaker) = "flowing" /\ GuardBudget(breaker') = GuardBudget(breaker)
           \/ /\ GuardPhase(breaker) = "probing" /\ GuardBudget(breaker) > 0
              /\ GuardBudget(breaker') = GuardBudget(breaker) - 1
    BY <1>4, <1>5, TakeProbeSound
  <1>7. IInv'
    BY <1>1, <1>4, <1>6 DEF IInv, TypeOK, HasConnection, HasRetry, MovedTo, Sound
  <1>8. Guard!Enter(r)
    BY <1>2, <1>3, <1>6 DEF Running, Guard!Enter
  <1> QED
    BY <1>7, <1>8

(* The ways out of execute. *)
LEMMA LeftStep ==
  ASSUME IInv, NEW r \in Requests,
         ReturnedOk(r) \/ ReturnedFailure(r) \/ Threw(r)
  PROVE  IInv' /\ Guard!Leave(r)
  <1>1. At(r, "running")
    BY DEF ReturnedOk, ReturnedFailure, Threw
  <1>0. req[r].conn # None
    BY <1>1 DEF IInv, HasConnection, Served, At
  <1>2. Sound(breaker') /\ Judged(breaker, breaker')
    BY BreakerMoves DEF ReturnedOk, ReturnedFailure, Threw
  <1>3. cooled' \subseteq Connections
    BY DEF IInv, TypeOK, ReturnedOk, ReturnedFailure, Threw
  <1>4. streak' \in 0..FailureThreshold
    BY ThresholdsPositive DEF IInv, TypeOK, ReturnedOk, ReturnedFailure, Threw
  <1>5. MovedTo(r, "ok") \/ MovedTo(r, "failed") \/ MovedTo(r, "idle")
    <2>1. CASE ReturnedOk(r)
      BY <1>1, <1>0, <2>1, GoesMoves DEF IInv, ReturnedOk, Phases
    <2>2. CASE ReturnedFailure(r) \/ Threw(r)
      BY <1>0, <2>2, MeetsMoves, EndsMoves DEF IInv, ReturnedFailure, Threw
    <2> QED
      BY <2>1, <2>2
  <1> QED
    BY <1>1, <1>2, <1>3, <1>4, <1>5, MoveOut

(* Everything a request does outside execute. *)
LEMMA OutsideStep ==
  ASSUME IInv, NEW r \in Requests,
         \/ Gated(r) \/ Chosen(r) \/ Refused(r) \/ Finished(r) \/ FailedOver(r)
         \/ RetriedEarlyEof(r) \/ Surfaced(r) \/ GaveUp(r) \/ NoneLeft(r)
         \/ Waits(r) \/ Resumed(r) \/ Aborted(r)
  PROVE  IInv' /\ Guard!Report
  <1> DEFINE Judging == Sound(breaker') /\ Judged(breaker, breaker')
             Kept == cooled' \subseteq Connections /\ streak' \in 0..FailureThreshold
  <1>0. TypeOK /\ HasConnection /\ HasRetry
    BY DEF IInv
  <1>1. ASSUME NEW p \in {"gated", "waiting", "chosen", "failed", "idle"}, MovedTo(r, p),
               ~At(r, "running"), Judging, Kept
        PROVE  IInv' /\ Guard!Report
    BY <1>1, MoveOutside
  <1>2. UNCHANGED <<cooled, streak>> => Kept
    BY <1>0 DEF TypeOK
  <1>3. UNCHANGED breaker => Judging
    BY BreakerMoves
  <1>4. breaker' \in {Refresh(breaker), OnSuccess(breaker), OnFailure(breaker)} => Judging
    BY BreakerMoves
  <1>5. CountUp(r) /\ UNCHANGED cooled => Kept
    BY <1>0, CountUpRange DEF TypeOK
  <1>6. At(r, "chosen") \/ At(r, "failed") => req[r].conn \in Connections
    BY <1>0 DEF HasConnection, Served, At, TypeOK, Locals
  <1> HIDE DEF Judging, Kept
  <1>7. CASE Gated(r)
    <2>1. MovedTo(r, "gated")
      BY <1>0, <1>7, GoesMoves DEF Gated, Phases, Served
    <2> QED
      BY <1>1, <1>2, <1>4, <1>7, <2>1 DEF Gated, At
  <1>8. CASE Chosen(r)
    <2>1. PICK c \in Connections : Becomes(r, [req[r] EXCEPT !.at = "chosen", !.conn = c])
      BY <1>8 DEF Chosen, Available
    <2> DEFINE l == [req[r] EXCEPT !.at = "chosen", !.conn = c]
    <2>2. l \in Locals /\ l.at = "chosen" /\ l.conn # None
      BY <1>0, ConnectionsNonempty DEF TypeOK, Locals, Phases
    <2>3. Becomes(r, l)
      BY <2>1
    <2> HIDE DEF l
    <2>4. MovedTo(r, "chosen")
      BY <1>0, <2>2, <2>3, BecomesMoves
    <2> QED
      BY <1>1, <1>2, <1>3, <1>8, <2>4 DEF Chosen, At
  <1>9. CASE Refused(r)
    <2>1. MovedTo(r, "failed")
      BY <1>0, <1>6, <1>9, ConnectionsNonempty, MeetsMoves DEF Refused
    <2> QED
      BY <1>1, <1>2, <1>3, <1>9, <2>1 DEF Refused, At
  <1>10. CASE Finished(r)
    <2>1. MovedTo(r, "idle")
      BY <1>0, <1>10, EndsMoves DEF Finished
    <2> QED
      BY <1>1, <1>2, <1>4, <1>10, <2>1 DEF Finished, At
  <1>11. CASE FailedOver(r)
    <2>1. req[r].conn \in Connections /\ req[r].excluded \in SUBSET Connections
      BY <1>0, <1>6, <1>11 DEF FailedOver, TypeOK, Locals
    <2>2. MovedTo(r, "gated")
      BY <1>0, <1>11, <2>1, ChoosesAgainMoves DEF FailedOver
    <2>3. Kept
      BY <1>0, <1>11, <2>1 DEF FailedOver, TypeOK, Kept
    <2> QED
      BY <1>1, <1>3, <1>11, <2>2, <2>3 DEF FailedOver, At
  <1>12. CASE RetriedEarlyEof(r)
    <2> DEFINE l == [req[r] EXCEPT !.at = "gated", !.conn = None, !.reread = TRUE]
    <2>1. l \in Locals /\ l.at = "gated"
      BY <1>0 DEF TypeOK, Locals, Phases
    <2>2. Becomes(r, l)
      BY <1>12 DEF RetriedEarlyEof
    <2> HIDE DEF l
    <2>3. MovedTo(r, "gated")
      BY <1>0, <2>1, <2>2, BecomesMoves DEF Served
    <2> QED
      BY <1>1, <1>2, <1>3, <1>12, <2>3 DEF RetriedEarlyEof, Failing, At
  <1>13. CASE Surfaced(r)
    <2>1. MovedTo(r, "idle")
      BY <1>0, <1>13, EndsMoves DEF Surfaced
    <2> QED
      BY <1>1, <1>2, <1>3, <1>4, <1>5, <1>13, <2>1 DEF Surfaced, Failing, At
  <1>14. CASE GaveUp(r)
    <2>1. MovedTo(r, "idle")
      BY <1>0, <1>14, EndsMoves DEF GaveUp
    <2> QED
      BY <1>1, <1>4, <1>5, <1>14, <2>1 DEF GaveUp, AllCooled, At
  <1>15. CASE NoneLeft(r)
    <2>1. MovedTo(r, "idle")
      BY <1>0, <1>15, EndsMoves DEF NoneLeft
    <2> QED
      BY <1>1, <1>2, <1>3, <1>15, <2>1 DEF NoneLeft, At
  <1>16. CASE Waits(r)
    <2>1. MovedTo(r, "waiting")
      BY <1>0, <1>16, GoesMoves DEF Waits, Phases, Served
    <2> QED
      BY <1>1, <1>2, <1>3, <1>16, <2>1 DEF Waits, AllCooled, At
  <1>17. CASE Resumed(r)
    <2> DEFINE l == [req[r] EXCEPT !.at = "gated", !.excluded = {}, !.attempt = @ + 1]
    <2>1. req[r] \in Locals /\ req[r].attempt < MaxRetries
      BY <1>0, <1>17 DEF TypeOK, HasRetry, Resumed, At
    <2>2. req[r].attempt + 1 \in 0..MaxRetries
      BY <2>1, RetriesNat DEF Locals
    <2>3. l \in Locals /\ l.at = "gated"
      BY <2>1, <2>2 DEF Locals, Phases
    <2>4. Becomes(r, l)
      BY <1>17 DEF Resumed
    <2> HIDE DEF l
    <2>5. MovedTo(r, "gated")
      BY <1>0, <2>3, <2>4, BecomesMoves DEF Served
    <2> QED
      BY <1>1, <1>2, <1>3, <1>17, <2>5 DEF Resumed, At
  <1>18. CASE Aborted(r)
    <2>1. MovedTo(r, "idle")
      BY <1>0, <1>18, EndsMoves DEF Aborted
    <2> QED
      BY <1>1, <1>2, <1>3, <1>18, <2>1 DEF Aborted, At
  <1> QED
    BY <1>7, <1>8, <1>9, <1>10, <1>11, <1>12, <1>13, <1>14, <1>15, <1>16, <1>17, <1>18

(* The steps that are no request's. *)
LEMMA EnvironmentStep ==
  ASSUME IInv,
         \/ \E c \in Connections : ConnectionRecovers(c)
         \/ BreakerCooldownElapses \/ Inspected \/ Reset
  PROVE  IInv' /\ [Guard!Next]_(Guard!gvars)
  <1>1. Sound(breaker)
    BY DEF IInv
  <1>2. 0 \in 0..FailureThreshold
    BY ThresholdsPositive
  <1>3. req' = req
    BY DEF ConnectionRecovers, BreakerCooldownElapses, Inspected, Reset
  <1>4. Running' = Running
    BY <1>3 DEF Running, At
  <1>5. cooled' \subseteq Connections /\ streak' \in 0..FailureThreshold
    BY <1>2 DEF IInv, TypeOK, ConnectionRecovers, BreakerCooldownElapses, Inspected, Reset
  <1>6. ASSUME Sound(breaker') PROVE IInv'
    BY <1>3, <1>5, <1>6 DEF IInv, TypeOK, HasConnection, HasRetry, Sound
  <1>7. CASE \E c \in Connections : ConnectionRecovers(c)
    <2>1. breaker' = breaker
      BY <1>7 DEF ConnectionRecovers
    <2> QED
      BY <1>1, <1>4, <1>6, <2>1 DEF Running, Guard!gvars
  <1>8. CASE BreakerCooldownElapses
    <2>1. /\ breaker.state = "OPEN" /\ ~breaker.elapsed
          /\ breaker' = [breaker EXCEPT !.elapsed = TRUE]
      BY <1>8 DEF BreakerCooldownElapses
    <2>2. Sound(breaker') /\ breaker'.state = "OPEN" /\ breaker'.elapsed
      BY <1>1, <2>1 DEF Sound, Breakers
    <2>3. GuardPhase(breaker) = "resting"
      BY <2>1 DEF GuardPhase
    <2>4. GuardPhase(breaker') = "probing" /\ GuardBudget(breaker') = HalfOpenRequests
      BY <2>2 DEF GuardPhase, GuardBudget
    <2> QED
      BY <1>4, <1>6, <2>2, <2>3, <2>4 DEF Running, Guard!Next, Guard!CooldownOver
  <1>9. CASE Inspected
    <2>1. breaker' = Refresh(breaker)
      BY <1>9 DEF Inspected
    <2> QED
      BY <1>1, <1>4, <1>6, <2>1, RefreshSound DEF Running, Guard!gvars
  <1>10. CASE Reset
    <2>1. breaker' = Cleared(breaker)
      BY <1>10 DEF Reset
    <2>2. Sound(breaker') /\ Judged(breaker, breaker')
      BY <1>1, <2>1, ClearedSound
    <2> QED
      BY <1>4, <1>6, <2>2 DEF Running, Judged, Guard!Next, Guard!Report, Guard!Verdict
  <1> QED
    BY <1>7, <1>8, <1>9, <1>10

(* Every step keeps the invariant and is a step of the guard or none. *)
LEMMA StepSound == IInv /\ [Next]_vars => IInv' /\ [Guard!Next]_(Guard!gvars)
  <1> SUFFICES ASSUME IInv, [Next]_vars
               PROVE  IInv' /\ [Guard!Next]_(Guard!gvars)
    OBVIOUS
  <1>1. ASSUME NEW r \in Requests, Gated(r) \/ GoesOn(r) \/ Aborted(r)
        PROVE  IInv' /\ [Guard!Next]_(Guard!gvars)
    <2>1. CASE Dispatched(r)
      BY <2>1, DispatchedStep DEF Guard!Next
    <2>2. CASE ReturnedOk(r) \/ ReturnedFailure(r) \/ Threw(r)
      BY <2>2, LeftStep DEF Guard!Next
    <2>3. CASE \/ Gated(r) \/ Chosen(r) \/ Refused(r) \/ Finished(r) \/ FailedOver(r)
               \/ RetriedEarlyEof(r) \/ Surfaced(r) \/ GaveUp(r) \/ NoneLeft(r)
               \/ Waits(r) \/ Resumed(r) \/ Aborted(r)
      BY <2>3, OutsideStep DEF Guard!Next
    <2> QED
      BY <1>1, <2>1, <2>2, <2>3 DEF GoesOn
  <1>2. CASE UNCHANGED vars
    BY <1>2 DEF vars, IInv, TypeOK, HasConnection, HasRetry, Sound, At, Guard!gvars
  <1> QED
    BY <1>1, <1>2, EnvironmentStep DEF Next

(* A new process has no request, and the traffic flows. *)
LEMMA InitSound == Init => IInv /\ Guard!Init
  <1> SUFFICES ASSUME Init
               PROVE  IInv /\ Guard!Init
    OBVIOUS
  <1>1. NoRequest \in Locals /\ NoRequest.at = "idle"
    BY RetriesNat DEF NoRequest, Locals, Phases
  <1>2. Sound(breaker)
    BY FreshSound DEF Init
  <1>3. TypeOK
    BY <1>1, <1>2, ThresholdsPositive DEF Init, TypeOK, Sound
  <1>4. HasConnection /\ HasRetry
    BY <1>1 DEF Init, HasConnection, HasRetry, Served
  <1>5. GuardPhase(breaker) = "flowing" /\ GuardBudget(breaker) = 0
    BY DEF Init, Fresh, GuardPhase, GuardBudget
  <1>6. Running = {}
    BY <1>1 DEF Init, Running, At
  <1> QED
    BY <1>2, <1>3, <1>4, <1>5, <1>6 DEF IInv, Running, Guard!Init

-----------------------------------------------------------------------------
(* The theorems *)

(* The inductive invariant. *)
THEOREM Invariance == Spec => []IInv
  <1>1. Init => IInv
    BY InitSound
  <1>2. IInv /\ [Next]_vars => IInv'
    BY StepSound
  <1> QED
    BY <1>1, <1>2, PTL DEF Spec

(* Every variable keeps its type: in particular a request that waits again and
   again never exceeds the retries it is allowed. *)
THEOREM TypeCorrect == Spec => []TypeOK
  <1>1. IInv => TypeOK
    BY DEF IInv
  <1> QED
    BY <1>1, Invariance, PTL

(* The request path keeps the breaker's promise to the traffic. *)
THEOREM Refinement == Spec => ImplementsGuard
  <1>1. Init => Guard!Init
    BY InitSound
  <1>2. IInv /\ [Next]_vars => [Guard!Next]_(Guard!gvars)
    BY StepSound
  <1> QED
    BY <1>1, <1>2, Invariance, PTL DEF Spec, ImplementsGuard, Guard!Spec
=============================================================================
