-------------------------- MODULE AccountSemaphore --------------------------
(***************************************************************************)
(* open-sse/services/accountSemaphore.ts: the in-memory limiter of the     *)
(* requests in flight on one provider account, for one semaphore key (keys *)
(* share nothing but resetAll, which resets each of them).                 *)
(*                                                                         *)
(* The gate of the key is an entry of a Map that comes and goes: acquire   *)
(* and markBlocked create it, a zero-delay cleanup timer deletes it when   *)
(* it is idle, reset deletes it at once.  A release function finds its     *)
(* gate by KEY, so a holder that outlives its gate meets another gate.     *)
(*                                                                         *)
(* JavaScript runs each call to its end, so every action is one call or    *)
(* one timer callback, drainQueue's loop included.                         *)
(***************************************************************************)
EXTENDS Naturals, Sequences, FiniteSets

CONSTANTS
  Requests,      \* the callers; each has one acquire under way at a time
  Caps,          \* the maxConcurrency values callers may pass
  MaxQueueSize,  \* DEFAULT_MAX_QUEUE_SIZE
  MaxTimers,     \* bound: markBlocked timers pending at once (0: never called)
  MayReset       \* whether the administrator may reset the semaphores

ASSUME RequestsFinite == IsFiniteSet(Requests)
ASSUME CapsPositive == Caps \subseteq Nat \ {0}
ASSUME BoundsNat == MaxQueueSize \in Nat /\ MaxTimers \in Nat
ASSUME MayResetBoolean == MayReset \in BOOLEAN

VARIABLES
  status,    \* per caller: "idle", "waiting", "holding", or "bypassed"
  present,   \* whether `gates` has an entry for the key
  running,   \* gate.running
  max,       \* gate.maxConcurrency (of the last gate when there is none)
  queue,     \* gate.queue, front first
  blocked,   \* gate.blockedUntil: "none", "active", or "lapsed" (set, past)
  cleanup,   \* whether gate.cleanupTimer is armed
  timers     \* the markBlocked timers that have not fired yet

vars == <<status, present, running, max, queue, blocked, cleanup, timers>>

Holding == {r \in Requests : status[r] = "holding"}
Waiting == {r \in Requests : status[r] = "waiting"}

TypeOK ==
  /\ status \in [Requests -> {"idle", "waiting", "holding", "bypassed"}]
  /\ present \in BOOLEAN
  /\ running \in Nat
  /\ max \in Nat \ {0}
  /\ queue \in Seq(Requests)
  /\ blocked \in {"none", "active", "lapsed"}
  /\ cleanup \in BOOLEAN
  /\ timers \in 0..MaxTimers

Init ==
  /\ status = [r \in Requests |-> "idle"]
  /\ present = FALSE
  /\ running = 0
  /\ max \in Caps
  /\ queue = <<>>
  /\ blocked = "none"
  /\ cleanup = FALSE
  /\ timers = 0

-----------------------------------------------------------------------------
(* The helpers of the gate *)

(* isBlocked forgets a cooldown that is over. *)
Unblock(b) == IF b = "lapsed" THEN "none" ELSE b

(* Mutants: the loop goes on at the cap; it stops one slot short of it. *)
AdmissibleAtCap(n, b) ==
  IF b = "active" \/ n > max THEN 0
  ELSE IF max - n + 1 < Len(queue) THEN max - n + 1 ELSE Len(queue)

AdmissibleShort(n, b) ==
  IF b = "active" \/ n + 1 >= max THEN 0
  ELSE IF max - n - 1 < Len(queue) THEN max - n - 1 ELSE Len(queue)

(* How many waiters drainQueue's loop admits when `n` slots are in use. *)
Admissible(n, b) ==
  IF b = "active" \/ n >= max THEN 0
  ELSE IF max - n < Len(queue) THEN max - n ELSE Len(queue)

(* Mutant: pop() for shift(). *)
AdmitNewest(k, st) ==
  /\ queue' = SubSeq(queue, 1, Len(queue) - k)
  /\ status' = [r \in Requests |->
                  IF \E i \in (Len(queue) - k + 1)..Len(queue) : queue[i] = r
                    THEN "holding" ELSE st[r]]

(* The first `k` waiters get their slot; `st` are the callers as found. *)
Admit(k, st) ==
  /\ queue' = SubSeq(queue, k + 1, Len(queue))
  /\ status' = [r \in Requests |->
                  IF \E i \in 1..k : queue[i] = r THEN "holding" ELSE st[r]]

(* drainQueue: the front of the queue gets the free slots, in order; isBlocked
   is evaluated only for a waiter that finds a slot; a gate left idle is
   scheduled for cleanup.  `n`, `b`, `st` are gate.running, gate.blockedUntil
   and the callers as drainQueue finds them. *)
Drain(n, b, st) ==
  LET k == Admissible(n, b)
  IN /\ Admit(k, st)
     /\ running' = n + k
     /\ blocked' = IF queue # <<>> /\ n < max THEN Unblock(b) ELSE b
     /\ cleanup' = (cleanup \/ (n + k = 0 /\ k = Len(queue)))

(* Mutant: the waiters stay in the queue of the gate. *)
DeleteGateOnly ==
  /\ present' = FALSE
  /\ running' = 0
  /\ blocked' = "none"
  /\ cleanup' = FALSE
  /\ UNCHANGED queue

(* The entry of the Map goes. *)
DeleteGate ==
  /\ present' = FALSE
  /\ running' = 0
  /\ queue' = <<>>
  /\ blocked' = "none"
  /\ cleanup' = FALSE

-----------------------------------------------------------------------------
(* acquire *)

HasRoom(c) == running < c /\ blocked # "active"

(* ensureGate and clearCleanupTimer, which every acquire begins with. *)
EnsureGate(c) ==
  /\ present' = TRUE
  /\ max' = c
  /\ cleanup' = FALSE

(* isBypassed: no cap, or a cap that is not positive. *)
AcquireBypassed(r) ==
  /\ status[r] = "idle"
  /\ status' = [status EXCEPT ![r] = "bypassed"]
  /\ UNCHANGED <<present, running, max, queue, blocked, cleanup, timers>>

AcquireFast(r, c) ==
  /\ status[r] = "idle"
  /\ HasRoom(c)
  /\ EnsureGate(c)
  /\ running' = running + 1
  /\ blocked' = Unblock(blocked)
  /\ status' = [status EXCEPT ![r] = "holding"]
  /\ UNCHANGED <<queue, timers>>

AcquireQueueFull(r, c) ==
  /\ status[r] = "idle"
  /\ ~HasRoom(c)
  /\ Len(queue) >= MaxQueueSize
  /\ EnsureGate(c)
  /\ UNCHANGED <<status, running, queue, blocked, timers>>

AcquireQueued(r, c) ==
  /\ status[r] = "idle"
  /\ ~HasRoom(c)
  /\ Len(queue) < MaxQueueSize
  /\ EnsureGate(c)
  /\ queue' = Append(queue, r)
  /\ status' = [status EXCEPT ![r] = "waiting"]
  /\ UNCHANGED <<running, blocked, timers>>

(* The queue timeout of a waiter fires, or its signal aborts. *)
GiveUp(r) ==
  /\ status[r] = "waiting"
  /\ status' = [status EXCEPT ![r] = "idle"]
  /\ \E i \in 1..Len(queue) :
       /\ queue[i] = r
       /\ queue' = SubSeq(queue, 1, i - 1) \o SubSeq(queue, i + 1, Len(queue))
  /\ cleanup' = (cleanup \/ (running = 0 /\ queue' = <<>>))
  /\ UNCHANGED <<present, running, max, blocked, timers>>

-----------------------------------------------------------------------------
(* The release function; its `released` flag makes a second call a no-op. *)

ReleaseBypassed(r) ==
  /\ status[r] = "bypassed"
  /\ status' = [status EXCEPT ![r] = "idle"]
  /\ UNCHANGED <<present, running, max, queue, blocked, cleanup, timers>>

(* Mutants: the count goes below zero; the slot is not given back. *)
OneLessUnclamped == running - 1
OneLessForgotten == running

OneLess == IF running > 0 THEN running - 1 ELSE 0

Release(r) ==
  LET st == [status EXCEPT ![r] = "idle"]
  IN /\ status[r] = "holding"
     /\ \/ /\ ~present
           /\ status' = st
           /\ UNCHANGED <<running, queue, blocked, cleanup>>
        \/ /\ present /\ queue # <<>>
           /\ Drain(OneLess, blocked, st)
        \/ /\ present /\ queue = <<>>
           /\ running' = OneLess
           /\ status' = st
           /\ cleanup' = TRUE
           /\ UNCHANGED <<queue, blocked>>
     /\ UNCHANGED <<present, max, timers>>

-----------------------------------------------------------------------------
(* markBlocked, the cleanup timer, and reset *)

(* markBlocked with a positive cooldown; a gate created here has cap 1. *)
MarkBlocked ==
  /\ timers < MaxTimers
  /\ present' = TRUE
  /\ max' = IF present THEN max ELSE 1
  /\ blocked' = "active"
  /\ cleanup' = FALSE
  /\ timers' = timers + 1
  /\ UNCHANGED <<status, running, queue>>

(* markBlocked with a cooldown that is not positive lifts the block. *)
LiftBlock ==
  /\ present
  /\ blocked # "none"
  /\ Drain(running, "none", status)
  /\ UNCHANGED <<present, max, timers>>

(* The clock reaches blockedUntil; nothing runs yet. *)
CooldownElapses ==
  /\ blocked = "active"
  /\ blocked' = "lapsed"
  /\ UNCHANGED <<status, present, running, max, queue, cleanup, timers>>

(* Mutant: the timer only clears blockedUntil. *)
BlockTimerClears ==
  /\ timers > (IF blocked = "active" THEN 1 ELSE 0)
  /\ timers' = timers - 1
  /\ blocked' = Unblock(blocked)
  /\ UNCHANGED <<status, present, running, max, queue, cleanup>>

(* A markBlocked timer fires.  The one that belongs to the blockedUntil in
   force cannot fire before it: it is set 50 ms later. *)
BlockTimerFires ==
  /\ timers > (IF blocked = "active" THEN 1 ELSE 0)
  /\ timers' = timers - 1
  /\ IF blocked = "lapsed"
       THEN Drain(running, "none", status)
       ELSE UNCHANGED <<status, running, queue, blocked, cleanup>>
  /\ UNCHANGED <<present, max>>

(* cleanupGateIfIdle, run by the cleanup timer. *)
CleanupFires ==
  /\ cleanup
  /\ IF running = 0 /\ queue = <<>> /\ blocked # "active"
       THEN DeleteGate
       ELSE /\ cleanup' = FALSE
            /\ UNCHANGED <<present, running, queue, blocked>>
  /\ UNCHANGED <<status, max, timers>>

(* reset rejects the waiters and deletes the gate under its holders. *)
Reset ==
  /\ MayReset
  /\ present
  /\ status' = [r \in Requests |->
                  IF status[r] = "waiting" THEN "idle" ELSE status[r]]
  /\ DeleteGate
  /\ UNCHANGED <<max, timers>>

-----------------------------------------------------------------------------
Acquire(r) ==
  \/ AcquireBypassed(r)
  \/ \E c \in Caps : AcquireFast(r, c) \/ AcquireQueueFull(r, c) \/ AcquireQueued(r, c)

Next ==
  \/ \E r \in Requests : Acquire(r) \/ GiveUp(r) \/ Release(r) \/ ReleaseBypassed(r)
  \/ MarkBlocked
  \/ LiftBlock
  \/ CooldownElapses
  \/ BlockTimerFires
  \/ CleanupFires
  \/ Reset

Spec == Init /\ [][Next]_vars

(* chatCore releases every slot it acquires: in the finally path of a
   non-streaming call, when the client drains or cancels a stream, and in every
   catch.  Timers fire and time passes.  Nothing obliges a caller to acquire,
   a waiter to give up, or the administrator to act. *)
Fairness ==
  /\ \A r \in Requests : WF_vars(Release(r))
  /\ WF_vars(CooldownElapses)
  /\ WF_vars(BlockTimerFires)
  /\ WF_vars(CleanupFires)

LiveSpec == Spec /\ Fairness

-----------------------------------------------------------------------------
(* Properties *)

(* The queue and the pending promises agree: every waiter is queued once, and
   nothing else is, so no splice, drain or reset strands a caller or admits one
   that has already been rejected. *)
QueueIsWaiting ==
  /\ {queue[i] : i \in 1..Len(queue)} = Waiting
  /\ \A i, j \in 1..Len(queue) : queue[i] = queue[j] => i = j

(* gate.running counts the callers that hold a slot; a reset may make it count
   too few, never too many, so no slot is lost for good. *)
SlotsAccounted ==
  /\ running <= Cardinality(Holding)
  /\ ~MayReset => running = Cardinality(Holding)

(* A gate that has nothing to do has a timer armed that will delete it, or that
   will find it unblocked and have it deleted: idle gates do not leak. *)
IdleGateHasTimer ==
  present /\ running = 0 /\ queue = <<>> =>
    cleanup \/ (blocked # "none" /\ timers > 0)

Admitted == Holding' \ Holding

(* The waiters that stand in front of r: all of them, if r is not queued. *)
Ahead(r) ==
  {queue[i] : i \in {m \in 1..Len(queue) : \A j \in 1..m : queue[j] # r}}

(* Waiters are admitted in the order in which they queued: whoever is admitted
   from the queue leaves nobody behind who stood in front. *)
WaitersInOrder ==
  [][\A r \in Admitted \cap Waiting : Ahead(r) \cap Waiting' = {}]_vars

(* Once no block is in force and callers agree on the cap, every waiter leaves
   the queue, although newcomers may overtake it and no timeout is assumed to
   fire.  (While callers disagree, newcomers with the larger cap may overtake a
   waiter for ever.) *)
WaitersServed ==
  <>[](blocked # "active") /\ (\E c \in Caps \cup {1} : <>[](max = c)) =>
    \A r \in Requests : status[r] = "waiting" ~> status[r] # "waiting"

(* A key nobody uses any more leaves no gate behind. *)
UnusedGateCollected ==
  <>[](\A r \in Requests : status[r] = "idle") /\ <>[](blocked # "active")
    => []<>(~present)

Limiter == INSTANCE ConcurrencyLimiter WITH
  holding <- Holding, waiting <- Waiting, cap <- max,
  cooling <- (blocked = "active")

(* The gates of a key, deleted and recreated behind its callers, act as one
   limiter that lives forever, as long as nobody resets it. *)
ImplementsLimiter == Limiter!Spec
=============================================================================
