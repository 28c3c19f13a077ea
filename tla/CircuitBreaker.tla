--------------------------- MODULE CircuitBreaker ---------------------------
(***************************************************************************)
(* src/shared/utils/circuitBreaker.ts: one named breaker, the concurrent   *)
(* calls of execute (which awaits the guarded function between its check   *)
(* and its verdict), the callers that report a verdict without execute     *)
(* (chat.ts and accountFallback.ts call _onSuccess and _onFailure), its    *)
(* row in the database, and the restart of the process.                    *)
(***************************************************************************)
EXTENDS Breaker, FiniteSets

CONSTANT Callers
ASSUME CallersFinite == IsFiniteSet(Callers)

VARIABLES
  breaker,   \* the object in the registry
  saved,     \* its row of domain_circuit_breakers
  call,      \* per caller: "none", "free" or "probe" (how it was admitted)
  failed     \* history: HALF_OPEN has failed this often since it last recovered

vars == <<breaker, saved, call, failed>>

InFlight == {r \in Callers : call[r] # "none"}

TypeOK ==
  /\ breaker \in Breakers
  /\ saved \in [state : States, failureCount : 0..FailureThreshold,
                openCycleCount : 0..MaxCycles]
  /\ call \in [Callers -> {"none", "free", "probe"}]
  /\ failed \in 0..MaxCycles

(* getCircuitBreaker creates the object and, called with options as every
   guarded path calls it, persists it. *)
Init ==
  /\ breaker = Fresh
  /\ saved = Row(Fresh)
  /\ call = [r \in Callers |-> "none"]
  /\ failed = 0

-----------------------------------------------------------------------------
(* Every method that changes a persisted field calls _persistToDb. *)
Persist(b) ==
  /\ breaker' = b
  /\ saved' = Row(b)

(* The history of failed and of passed probings. *)
Note(b) ==
  failed' = CASE b.state = "CLOSED" /\ breaker.state \in {"OPEN", "HALF_OPEN"} -> 0
              [] b.state = "OPEN" /\ breaker.state = "HALF_OPEN" -> Bump(failed, MaxCycles)
              [] OTHER -> failed

Succeed == LET b == OnSuccess(breaker) IN Persist(b) /\ Note(b)
Fail == LET b == OnFailure(breaker) IN Persist(b) /\ Note(b)

-----------------------------------------------------------------------------
(* execute up to its await: _refreshOpenState persists, the decrement of
   halfOpenAllowed does not. *)
Admitted(r) ==
  LET b == Refresh(breaker)
  IN /\ call[r] = "none"
     /\ Executable(b)
     /\ breaker' = TakeProbe(b)
     /\ saved' = IF b = breaker THEN saved ELSE Row(b)
     /\ call' = [call EXCEPT ![r] = IF b.state = "HALF_OPEN" THEN "probe" ELSE "free"]
     /\ UNCHANGED failed

(* canExecute, getStatus and getRetryAfterMs refresh the breaker too; so does
   an execute that is refused, and the registry sweep every five minutes. *)
Inspected ==
  /\ Refresh(breaker) # breaker
  /\ Persist(Refresh(breaker))
  /\ UNCHANGED <<call, failed>>

Ended(r) == call' = [call EXCEPT ![r] = "none"]

(* The guarded function returns. *)
Succeeded(r) == call[r] # "none" /\ Ended(r) /\ Succeed

(* It throws an error that isFailure counts. *)
Failed(r) == call[r] # "none" /\ Ended(r) /\ Fail

(* It throws one that isFailure does not count: a client abort, a closed
   stream controller. *)
Ignored(r) == call[r] # "none" /\ Ended(r) /\ UNCHANGED <<breaker, saved, failed>>

ReportedSuccess == Succeed /\ UNCHANGED call
ReportedFailure == Fail /\ UNCHANGED call

(* reset, which the resilience API calls. *)
Reset ==
  /\ Persist(Cleared(breaker))
  /\ failed' = 0
  /\ UNCHANGED call

(* lastFailureTime gets older than the effective cooldown. *)
CooldownElapses ==
  /\ breaker.state = "OPEN" /\ ~breaker.elapsed
  /\ breaker' = [breaker EXCEPT !.elapsed = TRUE]
  /\ UNCHANGED <<saved, call, failed>>

(* The process ends and starts again: the calls in flight are gone, and
   _restoreFromDb reads the row. *)
Restarted ==
  /\ breaker' = Restored(saved, breaker.elapsed)
  /\ call' = [r \in Callers |-> "none"]
  /\ UNCHANGED <<saved, failed>>

Next ==
  \/ \E r \in Callers : Admitted(r) \/ Succeeded(r) \/ Failed(r) \/ Ignored(r)
  \/ Inspected
  \/ ReportedSuccess
  \/ ReportedFailure
  \/ Reset
  \/ CooldownElapses
  \/ Restarted

Spec == Init /\ [][Next]_vars

-----------------------------------------------------------------------------
(* Properties *)

(* The state always matches the count the thresholds are about, for a count
   that failures raise and successes lower one by one, in any interleaving and
   across restarts: CLOSED has not gone past the degradation threshold, DEGRADED
   is at or past it, and neither has reached the failure threshold. *)
StateMatchesCount ==
  /\ breaker.state = "CLOSED" => breaker.failureCount <= DegradationThreshold
  /\ breaker.state = "DEGRADED" => breaker.failureCount >= DegradationThreshold
  /\ breaker.state \in {"CLOSED", "DEGRADED"} => breaker.failureCount < FailureThreshold

(* The backoff escalates with every probing that failed since the provider last
   recovered, whoever's verdict ended it, and no restart forgets it. *)
BackoffCountsFailedProbes == breaker.openCycleCount = failed

Guard == INSTANCE CircuitGuard WITH
  Budget <- HalfOpenRequests,
  phase <- GuardPhase(breaker), budget <- GuardBudget(breaker),
  inside <- InFlight

(* The lazy breaker keeps the promise of one with a timer: an OPEN breaker whose
   cooldown is over already counts as probing, and looking at it is no step. *)
ImplementsGuard == Guard!Spec
=============================================================================
