------------------------- MODULE RateLimitSemaphore -------------------------
(***************************************************************************)
(* open-sse/services/rateLimitSemaphore.ts: the limiter that round-robin   *)
(* combos, quota-share combos and the NVIDIA gate put in front of a model, *)
(* for one key.  It differs from AccountSemaphore where it matters: a gate *)
(* left idle is deleted at once, cooldown or not; every call of getGate,   *)
(* markRateLimited's included, writes gate.max; and the callbacks hold on  *)
(* to the gate OBJECT they were created with, while drainQueue and the     *)
(* release functions look the gate up by KEY.                              *)
(*                                                                         *)
(* The callers are the requests of combo.ts handleRoundRobinCombo: a slot  *)
(* is held around the attempts on a target, and it is a holder that marks  *)
(* the target rate-limited after a transient error.                        *)
(***************************************************************************)
EXTENDS Naturals, Sequences, FiniteSets

CONSTANTS
  Requests,      \* the callers
  Caps,          \* the maxConcurrency values callers pass
  DefaultMax,    \* getGate's default for maxConcurrency (3)
  QueueSizes,    \* the maxQueueSize values callers pass
  MaxTimers      \* bound: cooldown timers pending at once (0: nobody marks)

ASSUME RequestsFinite == IsFiniteSet(Requests)
ASSUME CapsPositive == Caps \subseteq Nat \ {0} /\ DefaultMax \in Nat \ {0}
ASSUME BoundsNat == QueueSizes \subseteq Nat /\ MaxTimers \in Nat

VARIABLES
  status,    \* per caller: "idle", "waiting", or "holding"
  present,   \* whether `gates` has an entry for the key
  running,   \* gate.running
  max,       \* gate.max (of the last gate when there is none)
  queue,     \* gate.queue, front first
  limited,   \* gate.rateLimitedUntil: "none", "active", or "lapsed"
  timers,    \* the cooldown timers of this gate object
  orphans,   \* the cooldown timers of gate objects that were deleted
  cooling    \* history: the latest cooldown marked is not over

vars == <<status, present, running, max, queue, limited, timers, orphans, cooling>>

Holding == {r \in Requests : status[r] = "holding"}
Waiting == {r \in Requests : status[r] = "waiting"}

TypeOK ==
  /\ status \in [Requests -> {"idle", "waiting", "holding"}]
  /\ present \in BOOLEAN
  /\ running \in Nat
  /\ max \in Nat \ {0}
  /\ queue \in Seq(Requests)
  /\ limited \in {"none", "active", "lapsed"}
  /\ timers \in Nat /\ orphans \in Nat /\ timers + orphans <= MaxTimers
  /\ cooling \in BOOLEAN

Init ==
  /\ status = [r \in Requests |-> "idle"]
  /\ present = FALSE
  /\ running = 0
  /\ max \in Caps
  /\ queue = <<>>
  /\ limited = "none"
  /\ timers = 0
  /\ orphans = 0
  /\ cooling = FALSE

-----------------------------------------------------------------------------
(* The helpers of the gate *)

(* isRateLimited forgets a cooldown that is over. *)
Forget(b) == IF b = "lapsed" THEN "none" ELSE b

(* Mutants: the loop goes on at the cap; it stops one slot short of it. *)
AdmissibleAtCap(n, b) ==
  IF b = "active" \/ n > max THEN 0
  ELSE IF max - n + 1 < Len(queue) THEN max - n + 1 ELSE Len(queue)

AdmissibleShort(n, b) ==
  IF b = "active" \/ n + 1 >= max THEN 0
  ELSE IF max - n - 1 < Len(queue) THEN max - n - 1 ELSE Len(queue)

(* How many waiters drainQueue's loop admits when `n` slots are in use. *)
Admissible(n, b) ==
  IF b = "active" \/ n >= max THEN 0
  ELSE IF max - n < Len(queue) THEN max - n ELSE Len(queue)

(* Mutant: pop() for shift(). *)
AdmitNewest(k, st) ==
  /\ queue' = SubSeq(queue, 1, Len(queue) - k)
  /\ status' = [r \in Requests |->
                  IF \E i \in (Len(queue) - k + 1)..Len(queue) : queue[i] = r
                    THEN "holding" ELSE st[r]]

(* The first `k` waiters get their slot. *)
Admit(k, st) ==
  /\ queue' = SubSeq(queue, k + 1, Len(queue))
  /\ status' = [r \in Requests |->
                  IF \E i \in 1..k : queue[i] = r THEN "holding" ELSE st[r]]

(* drainQueue admits what fits from the front, then deletes an idle gate.  It
   finds `n` in gate.running, `b` in gate.rateLimitedUntil, `st` in the callers,
   and leaves `own` timers to the gate and `others` to deleted ones. *)
Drain(n, b, st, own, others) ==
  LET k == Admissible(n, b)
      idle == n + k = 0 /\ queue = <<>>
  IN /\ Admit(k, st)
     /\ running' = n + k
     /\ limited' = CASE idle -> "none"
                     [] ~idle /\ queue # <<>> /\ n < max -> Forget(b)
                     [] OTHER -> b
     /\ present' = ~idle
     /\ timers' = IF idle THEN 0 ELSE own
     /\ orphans' = IF idle THEN others + own ELSE others

-----------------------------------------------------------------------------
(* acquire *)

HasRoom(c) == running < c /\ limited # "active"

(* Mutant: the slots left are stored for the cap. *)
GetGateLess(c) == present' = TRUE /\ max' = c - 1

(* getGate creates the gate if there is none, and writes its max. *)
GetGate(c) == present' = TRUE /\ max' = c

AcquireFast(r, c) ==
  /\ status[r] = "idle"
  /\ HasRoom(c)
  /\ GetGate(c)
  /\ running' = running + 1
  /\ limited' = Forget(limited)
  /\ status' = [status EXCEPT ![r] = "holding"]
  /\ UNCHANGED <<queue, timers, orphans, cooling>>

(* A rejected caller deletes the gate if it is idle. *)
AcquireQueueFull(r, c, q) ==
  LET idle == running = 0 /\ queue = <<>>
  IN /\ status[r] = "idle"
     /\ ~HasRoom(c)
     /\ Len(queue) >= q
     /\ max' = c
     /\ present' = ~idle
     /\ limited' = IF idle THEN "none" ELSE limited
     /\ timers' = IF idle THEN 0 ELSE timers
     /\ orphans' = IF idle THEN orphans + timers ELSE orphans
     /\ UNCHANGED <<status, running, queue, cooling>>

AcquireQueued(r, c, q) ==
  /\ status[r] = "idle"
  /\ ~HasRoom(c)
  /\ Len(queue) < q
  /\ GetGate(c)
  /\ queue' = Append(queue, r)
  /\ status' = [status EXCEPT ![r] = "waiting"]
  /\ UNCHANGED <<running, limited, timers, orphans, cooling>>

(* Mutants: the promise is rejected and its waiter stays queued; it gives back a
   slot it did not hold. *)
TimeOutQueued(r) ==
  /\ status[r] = "waiting"
  /\ status' = [status EXCEPT ![r] = "idle"]
  /\ UNCHANGED <<present, running, max, queue, limited, timers, orphans, cooling>>

TimeOutSlot(r) ==
  /\ status[r] = "waiting"
  /\ status' = [status EXCEPT ![r] = "idle"]
  /\ \E i \in 1..Len(queue) :
       /\ queue[i] = r
       /\ queue' = SubSeq(queue, 1, i - 1) \o SubSeq(queue, i + 1, Len(queue))
  /\ running' = IF running > 0 THEN running - 1 ELSE 0
  /\ UNCHANGED <<present, max, limited, timers, orphans, cooling>>

(* The queue timeout of a waiter: it leaves the queue, and nothing else. *)
TimeOut(r) ==
  /\ status[r] = "waiting"
  /\ status' = [status EXCEPT ![r] = "idle"]
  /\ \E i \in 1..Len(queue) :
       /\ queue[i] = r
       /\ queue' = SubSeq(queue, 1, i - 1) \o SubSeq(queue, i + 1, Len(queue))
  /\ UNCHANGED <<present, running, max, limited, timers, orphans, cooling>>

-----------------------------------------------------------------------------
(* The release function, whose `released` flag makes a second call a no-op.
   Without a gate, or with one that counts nobody, it does nothing. *)
Release(r) ==
  LET st == [status EXCEPT ![r] = "idle"]
  IN /\ status[r] = "holding"
     /\ IF present /\ running > 0
          THEN Drain(running - 1, limited, st, timers, orphans)
          ELSE /\ status' = st
               /\ UNCHANGED <<present, running, queue, limited, timers, orphans>>
     /\ UNCHANGED <<max, cooling>>

(* markRateLimited, called by a holder after a transient error; getGate writes
   the default cap into the gate. *)
MarkRateLimited(r) ==
  /\ status[r] = "holding"
  /\ timers + orphans < MaxTimers
  /\ GetGate(DefaultMax)
  /\ limited' = "active"
  /\ timers' = timers + 1
  /\ cooling' = TRUE
  /\ UNCHANGED <<status, running, queue, orphans>>

(* The latest cooldown is over; nothing runs yet. *)
CooldownElapses ==
  /\ cooling
  /\ cooling' = FALSE
  /\ limited' = IF limited = "active" THEN "lapsed" ELSE limited
  /\ UNCHANGED <<status, present, running, max, queue, timers, orphans>>

(* Mutant: the timer only clears rateLimitedUntil. *)
TimerClears ==
  /\ timers > (IF limited = "active" THEN 1 ELSE 0)
  /\ timers' = timers - 1
  /\ limited' = Forget(limited)
  /\ UNCHANGED <<status, present, running, max, queue, orphans, cooling>>

(* A cooldown timer of this gate; the one of the rateLimitedUntil in force
   cannot fire before it: it is set 50 ms later. *)
TimerFires ==
  /\ timers > (IF limited = "active" THEN 1 ELSE 0)
  /\ IF limited = "lapsed"
       THEN Drain(running, "none", status, timers - 1, orphans)
       ELSE /\ timers' = timers - 1
            /\ UNCHANGED <<status, present, running, queue, limited, orphans>>
  /\ UNCHANGED <<max, cooling>>

(* A cooldown timer of a deleted gate: if that gate's cooldown is over and was
   not forgotten, it drains the gate that now has the key. *)
OrphanTimerFires ==
  /\ orphans > (IF cooling /\ limited # "active" THEN 1 ELSE 0)
  /\ \/ /\ orphans' = orphans - 1
        /\ UNCHANGED <<status, present, running, queue, limited, timers>>
     \/ /\ present
        /\ Drain(running, limited, status, timers, orphans - 1)
  /\ UNCHANGED <<max, cooling>>

Next ==
  \/ \E r \in Requests, c \in Caps :
       \/ AcquireFast(r, c)
       \/ \E q \in QueueSizes : AcquireQueueFull(r, c, q) \/ AcquireQueued(r, c, q)
  \/ \E r \in Requests : TimeOut(r) \/ Release(r) \/ MarkRateLimited(r)
  \/ CooldownElapses
  \/ TimerFires
  \/ OrphanTimerFires

Spec == Init /\ [][Next]_vars

(* combo.ts releases its slot in a finally block; timers fire and time passes. *)
Fairness ==
  /\ \A r \in Requests : WF_vars(Release(r))
  /\ WF_vars(CooldownElapses)
  /\ WF_vars(TimerFires)

LiveSpec == Spec /\ Fairness

-----------------------------------------------------------------------------
(* Properties *)

(* Every waiter is queued once, and nobody else is. *)
QueueIsWaiting ==
  /\ {queue[i] : i \in 1..Len(queue)} = Waiting
  /\ \A i, j \in 1..Len(queue) : queue[i] = queue[j] => i = j

(* gate.running counts the callers that hold a slot, although the gate is found
   by key and is deleted and created anew behind them. *)
SlotsAccounted == running = Cardinality(Holding)

(* Only a cooldown keeps a gate that nobody uses, and a timer will end it. *)
IdleGateHasTimer ==
  present /\ running = 0 /\ queue = <<>> => limited # "none" /\ timers > 0

Admitted == Holding' \ Holding

(* The waiters that stand in front of r. *)
Ahead(r) ==
  {queue[i] : i \in {m \in 1..Len(queue) : \A j \in 1..m : queue[j] # r}}

(* Whoever is admitted from the queue leaves nobody behind who stood in front,
   whichever callback drains the queue. *)
WaitersInOrder ==
  [][\A r \in Admitted \cap Waiting : Ahead(r) \cap Waiting' = {}]_vars

(* "After expiry, the queue drains automatically" (rateLimitSemaphore.ts:183):
   once no cooldown is in force and callers agree on the cap, every waiter leaves
   the queue, although newcomers may overtake it and no queue timeout is assumed
   to fire.  (While callers disagree, newcomers with the larger cap may overtake
   a waiter for ever.) *)
WaitersServed ==
  <>[](~cooling) /\ (\E c \in Caps \cup {DefaultMax} : <>[](max = c)) =>
    \A r \in Requests : status[r] = "waiting" ~> status[r] # "waiting"

Limiter == INSTANCE ConcurrencyLimiter WITH
  holding <- Holding, waiting <- Waiting, cap <- max, cooling <- FALSE

(* The gates of a key, deleted and recreated behind its callers and drained by
   the timers of dead ones, act as one limiter that lives forever and admits up
   to the cap written last.  Cooldowns are left out of the promise:
   the release that deletes a gate loses them. *)
ImplementsLimiter == Limiter!Spec
=============================================================================
