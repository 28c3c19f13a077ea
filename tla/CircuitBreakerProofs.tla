------------------------ MODULE CircuitBreakerProofs ------------------------
(***************************************************************************)
(* The safety properties of CircuitBreaker for every threshold, every set  *)
(* of callers and every interleaving of them, and the proof that it        *)
(* implements CircuitGuard.                                                *)
(*                                                                         *)
(* One inductive invariant carries them.  It adds to the properties what   *)
(* they lean on: the row in the database is the row of the object (or a    *)
(* restart could bring back anything), and only OPEN has a cooldown.       *)
(***************************************************************************)
EXTENDS CircuitBreaker, BreakerProofs

IInv ==
  /\ Sound(breaker)
  /\ saved = Row(breaker)
  /\ call \in [Callers -> {"none", "free", "probe"}]
  /\ failed \in 0..MaxCycles
  /\ breaker.openCycleCount = failed

-----------------------------------------------------------------------------
(* The actions *)

(* A new process starts sound, with the traffic flowing. *)
LEMMA InitSound == Init => IInv /\ Guard!Init
  <1> SUFFICES ASSUME Init
               PROVE  IInv /\ Guard!Init
    OBVIOUS
  <1>1. IInv
    BY FreshSound, ThresholdsPositive DEF Init, IInv, Fresh
  <1>2. GuardPhase(breaker) = "flowing" /\ GuardBudget(breaker) = 0
    BY DEF Init, Fresh, GuardPhase, GuardBudget
  <1>3. InFlight = {}
    BY DEF Init, InFlight
  <1> QED
    BY <1>1, <1>2, <1>3 DEF Guard!Init

(* A verdict, from inside execute or from elsewhere. *)
LEMMA VerdictStep ==
  ASSUME IInv, Succeed \/ Fail
  PROVE  /\ Sound(breaker') /\ saved' = Row(breaker')
         /\ breaker'.openCycleCount = failed' /\ failed' \in 0..MaxCycles
         /\ Guard!Verdict
  <1>1. Sound(breaker) /\ failed = breaker.openCycleCount
    BY DEF IInv
  <1>2. /\ Sound(breaker') /\ saved' = Row(breaker')
        /\ Judged(breaker, breaker') /\ failed' = breaker'.openCycleCount
    <2>1. CASE Succeed
      <3>1. breaker' = OnSuccess(breaker) /\ saved' = Row(breaker')
            /\ Noted(breaker, breaker', failed, failed')
        BY <2>1 DEF Succeed, Persist, Note, Noted
      <3> QED
        BY <1>1, <3>1, SuccessSound
    <2>2. CASE Fail
      <3>1. breaker' = OnFailure(breaker) /\ saved' = Row(breaker')
            /\ Noted(breaker, breaker', failed, failed')
        BY <2>2 DEF Fail, Persist, Note, Noted
      <3> QED
        BY <1>1, <3>1, FailureSound
    <2> QED
      BY <2>1, <2>2
  <1>3. failed' \in 0..MaxCycles
    BY <1>2 DEF Sound, Breakers
  <1>4. Guard!Verdict
    BY <1>2 DEF Guard!Verdict, Judged
  <1> QED
    BY <1>2, <1>3, <1>4

(* A call enters only as the guard lets it. *)
LEMMA AdmittedStep ==
  ASSUME IInv, NEW r \in Callers, Admitted(r)
  PROVE  IInv' /\ Guard!Enter(r)
  <1> DEFINE b == Refresh(breaker)
             how == IF b.state = "HALF_OPEN" THEN "probe" ELSE "free"
  <1>1. /\ call[r] = "none" /\ Executable(b) /\ breaker' = TakeProbe(b)
        /\ saved' = (IF b = breaker THEN saved ELSE Row(b))
        /\ call' = [call EXCEPT ![r] = how] /\ failed' = failed
    BY DEF Admitted
  <1>2. /\ Sound(b) /\ b.openCycleCount = failed
        /\ GuardPhase(b) = GuardPhase(breaker) /\ GuardBudget(b) = GuardBudget(breaker)
    BY RefreshSound DEF IInv
  <1>3. saved' = Row(b)
    BY <1>1 DEF IInv
  <1>4. how \in {"free", "probe"}
    OBVIOUS
  <1> HIDE DEF b, how
  <1>5. /\ Sound(breaker') /\ saved' = Row(breaker')
        /\ breaker'.openCycleCount = failed' /\ failed' \in 0..MaxCycles
        /\ GuardPhase(breaker') = GuardPhase(breaker)
        /\ \/ GuardPhase(breaker) = "flowing" /\ GuardBudget(breaker') = GuardBudget(breaker)
           \/ /\ GuardPhase(breaker) = "probing" /\ GuardBudget(breaker) > 0
              /\ GuardBudget(breaker') = GuardBudget(breaker) - 1
    BY <1>1, <1>2, <1>3, TakeProbeSound DEF IInv
  <1>6. call' \in [Callers -> {"none", "free", "probe"}]
    BY <1>1, <1>4 DEF IInv
  <1>7. r \notin InFlight /\ InFlight' = InFlight \cup {r}
    BY <1>1, <1>4 DEF InFlight, IInv
  <1> QED
    BY <1>5, <1>6, <1>7 DEF IInv, Guard!Enter

(* A call that ends leaves, whatever it has to tell. *)
LEMMA EndedStep ==
  ASSUME IInv, NEW r \in Callers, call[r] # "none", Ended(r)
  PROVE  /\ call' \in [Callers -> {"none", "free", "probe"}]
         /\ r \in InFlight /\ InFlight' = InFlight \ {r}
  BY DEF IInv, Ended, InFlight

(* The steps of one caller. *)
LEMMA CallerStep ==
  ASSUME IInv, NEW r \in Callers,
         Admitted(r) \/ Succeeded(r) \/ Failed(r) \/ Ignored(r)
  PROVE  IInv' /\ (Guard!Enter(r) \/ Guard!Leave(r))
  <1>1. CASE Admitted(r)
    BY <1>1, AdmittedStep
  <1>2. CASE Succeeded(r) \/ Failed(r)
    <2>1. call[r] # "none" /\ Ended(r) /\ (Succeed \/ Fail)
      BY <1>2 DEF Succeeded, Failed
    <2> QED
      BY <2>1, EndedStep, VerdictStep DEF IInv, Guard!Leave
  <1>3. CASE Ignored(r)
    <2>1. call[r] # "none" /\ Ended(r) /\ UNCHANGED <<breaker, saved, failed>>
      BY <1>3 DEF Ignored
    <2>2. Guard!Verdict
      BY <2>1 DEF Guard!Verdict
    <2> QED
      BY <2>1, <2>2, EndedStep DEF IInv, Guard!Leave
  <1> QED
    BY <1>1, <1>2, <1>3

(* A verdict without a call. *)
LEMMA ReportedStep ==
  ASSUME IInv, ReportedSuccess \/ ReportedFailure
  PROVE  IInv' /\ Guard!Report
  <1>1. (Succeed \/ Fail) /\ UNCHANGED call
    BY DEF ReportedSuccess, ReportedFailure
  <1>2. InFlight' = InFlight
    BY <1>1 DEF InFlight
  <1> QED
    BY <1>1, <1>2, VerdictStep DEF IInv, Guard!Report

(* Looking at the breaker is no step of the guard. *)
LEMMA InspectedStep ==
  ASSUME IInv, Inspected
  PROVE  IInv' /\ UNCHANGED Guard!gvars
  <1>1. /\ breaker' = Refresh(breaker) /\ saved' = Row(breaker')
        /\ call' = call /\ failed' = failed
    BY DEF Inspected, Persist
  <1>2. InFlight' = InFlight
    BY <1>1 DEF InFlight
  <1> QED
    BY <1>1, <1>2, RefreshSound DEF IInv, Guard!gvars

(* reset is a verdict that the service works. *)
LEMMA ResetStep ==
  ASSUME IInv, Reset
  PROVE  IInv' /\ Guard!Report
  <1>1. /\ breaker' = Cleared(breaker) /\ saved' = Row(breaker')
        /\ call' = call /\ failed' = 0
    BY DEF Reset, Persist
  <1>2. InFlight' = InFlight
    BY <1>1 DEF InFlight
  <1>3. 0 \in 0..MaxCycles
    BY ThresholdsPositive
  <1> QED
    BY <1>1, <1>2, <1>3, ClearedSound DEF IInv, Judged, Guard!Report, Guard!Verdict

(* The end of the cooldown grants the budget, before anybody has looked. *)
LEMMA CooldownStep ==
  ASSUME IInv, CooldownElapses
  PROVE  IInv' /\ Guard!CooldownOver
  <1>1. /\ breaker.state = "OPEN" /\ ~breaker.elapsed
        /\ breaker' = [breaker EXCEPT !.elapsed = TRUE]
        /\ saved' = saved /\ call' = call /\ failed' = failed
    BY DEF CooldownElapses
  <1>2. Sound(breaker')
    BY <1>1 DEF IInv, Sound, Breakers
  <1>3. Row(breaker') = Row(breaker) /\ breaker'.openCycleCount = breaker.openCycleCount
    BY <1>1 DEF IInv, Sound, Breakers, Row
  <1>4. breaker'.state = "OPEN" /\ breaker'.elapsed
    BY <1>1 DEF IInv, Sound, Breakers
  <1>5. GuardPhase(breaker) = "resting"
    BY <1>1 DEF GuardPhase
  <1>6. GuardPhase(breaker') = "probing" /\ GuardBudget(breaker') = HalfOpenRequests
    BY <1>4 DEF GuardPhase, GuardBudget
  <1>7. InFlight' = InFlight
    BY <1>1 DEF InFlight
  <1> QED
    BY <1>1, <1>2, <1>3, <1>5, <1>6, <1>7 DEF IInv, Guard!CooldownOver

(* A restart brings back the breaker the row describes, and no call. *)
LEMMA RestartedStep ==
  ASSUME IInv, Restarted
  PROVE  IInv' /\ Guard!Restart
  <1>1. /\ breaker' = Restored(Row(breaker), breaker.elapsed)
        /\ call' = [r \in Callers |-> "none"]
        /\ saved' = Row(breaker) /\ failed' = failed
    BY DEF Restarted, IInv
  <1>2. InFlight' = {}
    BY <1>1 DEF InFlight
  <1>3. call' \in [Callers -> {"none", "free", "probe"}]
    BY <1>1
  <1> QED
    BY <1>1, <1>2, <1>3, RestoredSound DEF IInv, Guard!Restart

(* Every step keeps the invariant and is a step of the guard or none. *)
LEMMA StepSound == IInv /\ [Next]_vars => IInv' /\ [Guard!Next]_(Guard!gvars)
  <1> SUFFICES ASSUME IInv, [Next]_vars
               PROVE  IInv' /\ [Guard!Next]_(Guard!gvars)
    OBVIOUS
  <1>1. ASSUME NEW r \in Callers,
               Admitted(r) \/ Succeeded(r) \/ Failed(r) \/ Ignored(r)
        PROVE  IInv' /\ [Guard!Next]_(Guard!gvars)
    BY <1>1, CallerStep DEF Guard!Next
  <1>2. CASE Inspected
    BY <1>2, InspectedStep
  <1>3. CASE ReportedSuccess \/ ReportedFailure
    BY <1>3, ReportedStep DEF Guard!Next
  <1>4. CASE Reset
    BY <1>4, ResetStep DEF Guard!Next
  <1>5. CASE CooldownElapses
    BY <1>5, CooldownStep DEF Guard!Next
  <1>6. CASE Restarted
    BY <1>6, RestartedStep DEF Guard!Next
  <1>7. CASE UNCHANGED vars
    BY <1>7 DEF vars, IInv, Guard!gvars, InFlight
  <1> QED
    BY <1>1, <1>2, <1>3, <1>4, <1>5, <1>6, <1>7 DEF Next

-----------------------------------------------------------------------------
(* The theorems *)

(* The inductive invariant. *)
THEOREM Invariance == Spec => []IInv
  <1>1. Init => IInv
    BY InitSound
  <1>2. IInv /\ [Next]_vars => IInv'
    BY StepSound
  <1> QED
    BY <1>1, <1>2, PTL DEF Spec

(* Every variable keeps its type. *)
THEOREM TypeCorrect == Spec => []TypeOK
  <1>1. IInv => TypeOK
    BY DEF IInv, TypeOK, Sound, Breakers, Row
  <1> QED
    BY <1>1, Invariance, PTL

(* However verdicts interleave, arrive late or are followed by a restart, the
   state of the breaker is the one its failure count calls for. *)
THEOREM CountDecidesState == Spec => []StateMatchesCount
  <1>1. IInv => StateMatchesCount
    BY DEF IInv, Sound, StateMatchesCount
  <1> QED
    BY <1>1, Invariance, PTL

(* The backoff has counted each failed probing since the last recovery. *)
THEOREM BackoffRemembers == Spec => []BackoffCountsFailedProbes
  <1>1. IInv => BackoffCountsFailedProbes
    BY DEF IInv, BackoffCountsFailedProbes
  <1> QED
    BY <1>1, Invariance, PTL

(* The breaker, which has no timer and moves on only when it is looked at, is
   an implementation of the guard, which has one. *)
THEOREM Refinement == Spec => ImplementsGuard
  <1>1. Init => Guard!Init
    BY InitSound
  <1>2. IInv /\ [Next]_vars => [Guard!Next]_(Guard!gvars)
    BY StepSound
  <1> QED
    BY <1>1, <1>2, Invariance, PTL DEF Spec, ImplementsGuard, Guard!Spec
=============================================================================
