--------------------------- MODULE ProviderCircuit ---------------------------
(***************************************************************************)
(* How a chat request uses the breaker of its provider:                    *)
(*   src/sse/handlers/chat.ts         handleSingleModelChat                *)
(*   src/sse/handlers/chatHelpers.ts  checkPipelineGates and               *)
(*                                    executeChatWithBreaker               *)
(*   src/sse/services/auth.ts         markAccountUnavailable, the choice   *)
(*                                    of a connection, clearAccountError   *)
(*                                                                         *)
(* A request passes the gate once, then tries the provider's connections   *)
(* one after the other through breaker.execute, and may wait for a cooled  *)
(* connection and try them again.  Between any two steps it awaits, so     *)
(* requests interleave.                                                    *)
(*                                                                         *)
(* handleChatCore RETURNS an upstream failure as {success: false, status}; *)
(* execute sees a promise that resolved and calls _onSuccess.  chat.ts     *)
(* calls _onFailure later, once per request, when it gives up.             *)
(*                                                                         *)
(* The requests are unpinned production traffic (pinned combo steps and    *)
(* live tests go around execute), and upstream failures are the statuses   *)
(* of PROVIDER_BREAKER_FAILURE_STATUSES.                                   *)
(***************************************************************************)
EXTENDS Breaker, FiniteSets

CONSTANTS
  Requests,
  Connections,  \* the active connections of the provider
  None,         \* no connection
  MaxRetries    \* waitForCooldown.maxRetries (0: waiting is disabled)

ASSUME RequestsFinite == IsFiniteSet(Requests) /\ IsFiniteSet(Connections)
ASSUME ConnectionsNonempty == Connections # {} /\ None \notin Connections
ASSUME RetriesNat == MaxRetries \in Nat

VARIABLES
  breaker,   \* the provider's breaker
  req,       \* per request: the local variables of its handler
  cooled,    \* the connections whose rateLimitedUntil is in the future
  streak     \* history: requests that gave up on the provider since it last answered

vars == <<breaker, req, cooled, streak>>

(* Where a handler awaits.  idle: there is no request; gated: choosing a
   connection; chosen: refreshing its token, resolving its proxy; running: inside
   execute; ok, failed: execute is over; waiting: for a cooled connection. *)
Phases == {"idle", "gated", "chosen", "running", "ok", "failed", "waiting"}

(* conn: credentials.connectionId; excluded: excludedConnectionIds; attempt:
   requestRetryAttempt; reread: streamEarlyEofRetries; met (history): "failure"
   of the provider, "refusal" of the breaker. *)
Locals ==
  [at : Phases,
   conn : Connections \cup {None},
   excluded : SUBSET Connections,
   attempt : 0..MaxRetries,
   reread : BOOLEAN,
   met : SUBSET {"failure", "refusal"}]

NoRequest ==
  [at |-> "idle", conn |-> None, excluded |-> {}, attempt |-> 0,
   reread |-> FALSE, met |-> {}]

TypeOK ==
  /\ breaker \in Breakers
  /\ req \in [Requests -> Locals]
  /\ cooled \subseteq Connections
  /\ streak \in 0..FailureThreshold

Init ==
  /\ breaker = Fresh
  /\ req = [r \in Requests |-> NoRequest]
  /\ cooled = {}
  /\ streak = 0

-----------------------------------------------------------------------------
At(r, phase) == req[r].at = phase
Becomes(r, locals) == req' = [req EXCEPT ![r] = locals]
Goes(r, phase) == Becomes(r, [req[r] EXCEPT !.at = phase])
Ends(r) == Becomes(r, NoRequest)

(* Back to the choice of a connection. *)
ChoosesAgain(r, excluding) ==
  Becomes(r, [req[r] EXCEPT !.at = "gated", !.conn = None, !.excluded = excluding])

(* execute is over with a failure of this kind. *)
Meets(r, what) ==
  Becomes(r, [req[r] EXCEPT !.at = "failed", !.met = @ \cup {what}])

(* Mutant: the gate looks at the breaker and lets everybody pass. *)
GatedOpen(r) ==
  /\ At(r, "idle") /\ Goes(r, "gated")
  /\ breaker' = Refresh(breaker)
  /\ UNCHANGED <<cooled, streak>>

(* checkPipelineGates; a refused request ends with the breaker as it is. *)
Gated(r) ==
  /\ At(r, "idle") /\ Goes(r, "gated")
  /\ Executable(Refresh(breaker))
  /\ breaker' = Refresh(breaker)
  /\ UNCHANGED <<cooled, streak>>

Available(r) == Connections \ (req[r].excluded \cup cooled)

Chosen(r) ==
  /\ At(r, "gated")
  /\ \E c \in Available(r) : Becomes(r, [req[r] EXCEPT !.at = "chosen", !.conn = c])
  /\ UNCHANGED <<breaker, cooled, streak>>

(* Mutant: the gate's answer is taken for granted. *)
DispatchedUnchecked(r) ==
  /\ At(r, "chosen") /\ Goes(r, "running")
  /\ breaker' = Refresh(breaker)
  /\ UNCHANGED <<cooled, streak>>

(* execute up to its await. *)
Dispatched(r) ==
  /\ At(r, "chosen") /\ Goes(r, "running")
  /\ Executable(Refresh(breaker))
  /\ breaker' = TakeProbe(Refresh(breaker))
  /\ UNCHANGED <<cooled, streak>>

(* execute throws CircuitBreakerOpenError, which executeChatWithBreaker turns
   into a result like any other, with status 503. *)
Refused(r) ==
  /\ At(r, "chosen") /\ Meets(r, "refusal")
  /\ ~Executable(Refresh(breaker))
  /\ UNCHANGED <<breaker, cooled, streak>>

(* clearAccountError, called while the stream starts, writes only if the
   connection the request was GIVEN had an error on it. *)
ReturnedOk(r) ==
  /\ At(r, "running") /\ Goes(r, "ok")
  /\ breaker' = OnSuccess(breaker)
  /\ cooled' \in {cooled, cooled \ {req[r].conn}}
  /\ streak' = 0

(* The second _onSuccess of a request that succeeded. *)
Finished(r) ==
  /\ At(r, "ok") /\ Ends(r)
  /\ breaker' = OnSuccess(breaker)
  /\ UNCHANGED <<cooled, streak>>

ReturnedFailure(r) ==
  /\ At(r, "running") /\ Meets(r, "failure")
  /\ breaker' = OnSuccess(breaker)
  /\ UNCHANGED <<cooled, streak>>

(* handleChatCore throws: an unreachable proxy becomes a 503 result, any other
   error ends the request; a local stream error is not counted. *)
Threw(r) ==
  /\ At(r, "running")
  /\ \/ Meets(r, "failure") /\ breaker' = OnFailure(breaker)
     \/ Ends(r) /\ breaker' = OnFailure(breaker)
     \/ Ends(r) /\ UNCHANGED breaker
  /\ UNCHANGED <<cooled, streak>>

(* Mutant: the connection is not excluded from the next choice. *)
FailedOverToSame(r) ==
  /\ At(r, "failed") /\ ChoosesAgain(r, req[r].excluded)
  /\ cooled' = cooled \cup {req[r].conn}
  /\ UNCHANGED <<breaker, streak>>

(* markAccountUnavailable cools the connection, unless it is cooled already, and
   the loop goes on without it. *)
FailedOver(r) ==
  /\ At(r, "failed") /\ ChoosesAgain(r, req[r].excluded \cup {req[r].conn})
  /\ cooled' = cooled \cup {req[r].conn}
  /\ UNCHANGED <<breaker, streak>>

Failing(r) == At(r, "failed") /\ "failure" \in req[r].met

(* A stream that closed before it said anything is tried once more, on whatever
   connection is chosen next, and none is blamed. *)
RetriedEarlyEof(r) ==
  /\ Failing(r) /\ ~req[r].reread
  /\ Becomes(r, [req[r] EXCEPT !.at = "gated", !.conn = None, !.reread = TRUE])
  /\ UNCHANGED <<breaker, cooled, streak>>

CountUp(r) ==
  streak' = IF "failure" \in req[r].met THEN Bump(streak, FailureThreshold) ELSE streak

(* A failure that is no fault of the connection is returned at once: a stream
   that stalled is not counted, our own upstream timeout is. *)
Surfaced(r) ==
  /\ Failing(r) /\ Ends(r)
  /\ \/ UNCHANGED <<breaker, streak>>
     \/ breaker' = OnFailure(breaker) /\ CountUp(r)
  /\ UNCHANGED cooled

AllCooled(r) == At(r, "gated") /\ Available(r) = {} /\ cooled # {}

(* No connection is left; a cooled one has the status of its last error, so
   `lastStatus ?? lastErrorCode` is a breaker status. *)
GaveUp(r) ==
  /\ AllCooled(r) /\ Ends(r)
  /\ breaker' = OnFailure(breaker)
  /\ CountUp(r)
  /\ UNCHANGED cooled

(* No connection is left and none is cooled any more: not counted. *)
NoneLeft(r) ==
  /\ At(r, "gated") /\ Available(r) = {} /\ cooled = {}
  /\ Ends(r)
  /\ UNCHANGED <<breaker, cooled, streak>>

(* Mutant: the attempts are not counted against the limit. *)
WaitsAgain(r) ==
  /\ AllCooled(r) /\ Goes(r, "waiting")
  /\ UNCHANGED <<breaker, cooled, streak>>

(* getCooldownAwareRetryDecision: wait for the earliest cooldown to end if that
   is not too long.  The request resumes without passing the gate again; the
   wait is timed, so a cooldown renewed meanwhile does not lengthen it. *)
Waits(r) ==
  /\ AllCooled(r) /\ Goes(r, "waiting")
  /\ req[r].attempt < MaxRetries
  /\ UNCHANGED <<breaker, cooled, streak>>

Resumed(r) ==
  /\ At(r, "waiting")
  /\ Becomes(r, [req[r] EXCEPT !.at = "gated", !.excluded = {}, !.attempt = @ + 1])
  /\ UNCHANGED <<breaker, cooled, streak>>

(* The client disconnects while the request waits. *)
Aborted(r) ==
  /\ At(r, "waiting") /\ Ends(r)
  /\ UNCHANGED <<breaker, cooled, streak>>

ConnectionRecovers(c) ==
  /\ c \in cooled
  /\ cooled' = cooled \ {c}
  /\ UNCHANGED <<breaker, req, streak>>

BreakerCooldownElapses ==
  /\ breaker.state = "OPEN" /\ ~breaker.elapsed
  /\ breaker' = [breaker EXCEPT !.elapsed = TRUE]
  /\ UNCHANGED <<req, cooled, streak>>

(* The registry sweep, the health API, a combo's look at the breaker. *)
Inspected ==
  /\ Refresh(breaker) # breaker
  /\ breaker' = Refresh(breaker)
  /\ UNCHANGED <<req, cooled, streak>>

(* POST /api/resilience/reset. *)
Reset ==
  /\ breaker' = Cleared(breaker)
  /\ streak' = 0
  /\ UNCHANGED <<req, cooled>>

GoesOn(r) ==
  \/ Chosen(r) \/ Dispatched(r) \/ Refused(r)
  \/ ReturnedOk(r) \/ Finished(r) \/ ReturnedFailure(r) \/ Threw(r)
  \/ FailedOver(r) \/ RetriedEarlyEof(r) \/ Surfaced(r) \/ GaveUp(r) \/ NoneLeft(r)
  \/ Waits(r) \/ Resumed(r)

Next ==
  \/ \E r \in Requests : Gated(r) \/ GoesOn(r) \/ Aborted(r)
  \/ \E c \in Connections : ConnectionRecovers(c)
  \/ BreakerCooldownElapses
  \/ Inspected
  \/ Reset

Spec == Init /\ [][Next]_vars

(* The upstream call ends one way or another (it has timeouts), the code between
   two awaits runs, time passes, the sweep runs.  No request need arrive. *)
Fairness ==
  /\ \A r \in Requests : WF_vars(GoesOn(r))
  /\ \A c \in Connections : WF_vars(ConnectionRecovers(c))
  /\ WF_vars(BreakerCooldownElapses)
  /\ WF_vars(Inspected)

LiveSpec == Spec /\ Fairness

-----------------------------------------------------------------------------
(* Properties *)

Guard == INSTANCE CircuitGuard WITH
  Callers <- Requests, Budget <- HalfOpenRequests,
  phase <- GuardPhase(breaker), budget <- GuardBudget(breaker),
  inside <- {r \in Requests : At(r, "running")}

(* The retries, the verdicts given late and from outside execute, and the gate
   passed long before the dispatch leave the breaker's promise intact: nothing
   is sent while it rests, and no more than its budget while it is probed. *)
ImplementsGuard == Guard!Spec

(* Every request ends: it tries a connection once per attempt, and attempts are
   bounded, whatever other requests do to the connections meanwhile. *)
RequestsEnd == \A r \in Requests : ~At(r, "idle") ~> At(r, "idle")

(* An open breaker does not stay open for ever: the requests that passed the
   gate before may restart its cooldown, but only so often. *)
OpenEnds == breaker.state = "OPEN" ~> breaker.state # "OPEN"

(* "Failure Threshold — Consecutive provider failures before entering OPEN"
   (USER_GUIDE.md:841). *)
RepeatedFailureOpens ==
  streak >= FailureThreshold => breaker.state \in {"OPEN", "HALF_OPEN"}
=============================================================================
