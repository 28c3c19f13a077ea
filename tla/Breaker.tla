------------------------------ MODULE Breaker ------------------------------
(***************************************************************************)
(* src/shared/utils/circuitBreaker.ts, class CircuitBreaker: the methods   *)
(* of one breaker object as functions of its fields.  No state of its own: *)
(* CircuitBreaker composes them with concurrent callers and a restart, and *)
(* ProviderCircuit with the request path.                                  *)
(*                                                                         *)
(* A breaker is a record of the fields the behaviour depends on.           *)
(*   state            CLOSED, DEGRADED, OPEN or HALF_OPEN                  *)
(*   failureCount     exact below FailureThreshold; at or above it only    *)
(*                    OPEN and HALF_OPEN are left, which never compare it, *)
(*                    so it stays there                                    *)
(*   halfOpenAllowed  the probes HALF_OPEN still admits                    *)
(*   openCycleCount   likewise exact up to MaxCycles, where the backoff    *)
(*                    has reached its maximum                              *)
(*   elapsed          OPEN, and Date.now() - lastFailureTime has reached   *)
(*                    the effective cooldown (FALSE in other states, which *)
(*                    never read lastFailureTime)                          *)
(*                                                                         *)
(* kindThresholds, which no caller in production sets, is left out; so is  *)
(* lastFailureKind, which only picks the length of the cooldown.           *)
(***************************************************************************)
EXTENDS Naturals

CONSTANTS
  FailureThreshold,      \* this.failureThreshold
  DegradationThreshold,  \* this.degradationThreshold
  HalfOpenRequests,      \* this.halfOpenRequests
  MaxCycles              \* where openCycleCount stops mattering

ASSUME ThresholdsPositive ==
  /\ FailureThreshold \in Nat \ {0}
  /\ DegradationThreshold \in Nat \ {0}
  /\ HalfOpenRequests \in Nat \ {0}
  /\ MaxCycles \in Nat

States == {"CLOSED", "DEGRADED", "OPEN", "HALF_OPEN"}

Breakers ==
  [state : States,
   failureCount : 0..FailureThreshold,
   halfOpenAllowed : 0..HalfOpenRequests,
   openCycleCount : 0..MaxCycles,
   elapsed : BOOLEAN]

(* The constructor, when the database has no row for the name. *)
Fresh ==
  [state |-> "CLOSED", failureCount |-> 0, halfOpenAllowed |-> 0,
   openCycleCount |-> 0, elapsed |-> FALSE]

Bump(n, limit) == IF n < limit THEN n + 1 ELSE n

(* Entering HALF_OPEN refills the probes. *)
Transition(b, s) ==
  [b EXCEPT !.state = s,
            !.elapsed = FALSE,
            !.halfOpenAllowed = IF s = "HALF_OPEN" THEN HalfOpenRequests ELSE @]

(* Mutant: the cooldown is not compared. *)
RefreshAtOnce(b) == IF b.state = "OPEN" THEN Transition(b, "HALF_OPEN") ELSE b

(* _refreshOpenState: there is no timer, whoever looks first moves it on. *)
Refresh(b) == IF b.state = "OPEN" /\ b.elapsed THEN Transition(b, "HALF_OPEN") ELSE b

(* Mutant: the probes left are not counted. *)
ExecutableUncounted(b) == b.state # "OPEN"

(* canExecute and execute's two refusals, on a refreshed breaker. *)
Executable(b) ==
  \/ b.state \in {"CLOSED", "DEGRADED"}
  \/ b.state = "HALF_OPEN" /\ b.halfOpenAllowed > 0

(* execute takes a probe from a HALF_OPEN breaker. *)
TakeProbe(b) ==
  IF b.state = "HALF_OPEN" THEN [b EXCEPT !.halfOpenAllowed = @ - 1] ELSE b

(* Mutant: the failures before the outage stay counted. *)
ClearedStateOnly(b) == [Transition(b, "CLOSED") EXCEPT !.openCycleCount = 0]

Cleared(b) == [Transition(b, "CLOSED") EXCEPT !.failureCount = 0, !.openCycleCount = 0]

(* _onSuccess, whichever call succeeded and whenever it started. *)
OnSuccess(b) ==
  LET n == IF b.failureCount > 0 THEN b.failureCount - 1 ELSE 0
      c == [b EXCEPT !.failureCount = n]
  IN IF b.state \in {"OPEN", "HALF_OPEN"} THEN Cleared(b)
     ELSE IF b.state = "DEGRADED" /\ n <= DegradationThreshold THEN Transition(c, "CLOSED")
     ELSE c

(* _onFailure, whichever call failed and whenever it started: lastFailureTime
   is written in every state, so a cooldown under way starts again. *)
OnFailure(b) ==
  LET n == Bump(b.failureCount, FailureThreshold)
      c == [b EXCEPT !.failureCount = n, !.elapsed = FALSE]
  IN CASE b.state = "OPEN" -> c
       [] b.state = "HALF_OPEN" ->
            Transition([c EXCEPT !.openCycleCount = Bump(@, MaxCycles)], "OPEN")
       [] b.state \in {"CLOSED", "DEGRADED"} /\ n >= FailureThreshold ->
            Transition(c, "OPEN")
       [] b.state = "CLOSED" /\ n < FailureThreshold /\ n >= DegradationThreshold ->
            Transition(c, "DEGRADED")
       [] OTHER -> c

(* The row _persistToDb writes, and the object _restoreFromDb makes of it:
   halfOpenAllowed is not in the row.  lastFailureTime is: `elapsed`, which
   time makes TRUE of the object and of its row together, is not repeated. *)
Row(b) ==
  [state |-> b.state, failureCount |-> b.failureCount,
   openCycleCount |-> b.openCycleCount]

(* Mutant: the backoff is not restored. *)
RestoredWithoutCycles(row, el) ==
  [state |-> row.state, failureCount |-> row.failureCount,
   halfOpenAllowed |-> IF row.state = "HALF_OPEN" THEN HalfOpenRequests ELSE 0,
   openCycleCount |-> 0, elapsed |-> row.state = "OPEN" /\ el]

Restored(row, el) ==
  [state |-> row.state, failureCount |-> row.failureCount,
   halfOpenAllowed |-> IF row.state = "HALF_OPEN" THEN HalfOpenRequests ELSE 0,
   openCycleCount |-> row.openCycleCount, elapsed |-> row.state = "OPEN" /\ el]

-----------------------------------------------------------------------------
(* What the breaker means to the traffic, as CircuitGuard says it: an OPEN
   breaker whose cooldown is over is probing already, whether or not anybody
   has looked at it since. *)
GuardPhase(b) ==
  CASE b.state \in {"CLOSED", "DEGRADED"} -> "flowing"
    [] b.state = "OPEN" /\ ~b.elapsed -> "resting"
    [] OTHER -> "probing"

GuardBudget(b) ==
  CASE b.state = "HALF_OPEN" -> b.halfOpenAllowed
    [] b.state = "OPEN" /\ b.elapsed -> HalfOpenRequests
    [] OTHER -> 0
=============================================================================
