------------------------- MODULE ConcurrencyLimiter -------------------------
(***************************************************************************)
(* What a keyed concurrency limiter promises its callers, with nothing of  *)
(* how it does it: no gate objects, no timers, no queue order.  At any     *)
(* moment some requests hold a slot and some wait for one.  A request is   *)
(* admitted only when no cooldown is in force and when the slots in use,   *)
(* the new ones included, fit in the cap of the latest caller.             *)
(*                                                                         *)
(* AccountSemaphore and RateLimitSemaphore are checked against it.         *)
(***************************************************************************)
EXTENDS Naturals, FiniteSets

CONSTANT Requests

VARIABLES
  holding,   \* the requests that hold a slot
  waiting,   \* the requests that wait for one
  cap,       \* the cap in force
  cooling    \* whether a cooldown forbids admissions

lvars == <<holding, waiting, cap, cooling>>

Init ==
  /\ holding = {}
  /\ waiting = {}
  /\ cap \in Nat
  /\ cooling = FALSE

(* S leaves the waiting set for the holders, after `leaving` has left them. *)
Shift(leaving, S) ==
  /\ holding' = (holding \ leaving) \cup S
  /\ waiting' = waiting \ S
  /\ S # {} => /\ ~cooling'
               /\ Cardinality(holding') <= cap'

(* A newcomer is admitted at once, under the cap it brings. *)
Enter(r) ==
  /\ r \notin holding \cup waiting
  /\ ~cooling
  /\ cap' \in Nat
  /\ UNCHANGED cooling
  /\ Shift({}, {r})

(* A newcomer waits; its cap is in force from now on. *)
Wait(r) ==
  /\ r \notin holding \cup waiting
  /\ waiting' = waiting \cup {r}
  /\ cap' \in Nat
  /\ UNCHANGED <<holding, cooling>>

(* A newcomer is turned away; its cap is in force all the same. *)
TurnAway ==
  /\ cap' \in Nat
  /\ UNCHANGED <<holding, waiting, cooling>>

(* A waiter withdraws. *)
Withdraw(r) ==
  /\ r \in waiting
  /\ waiting' = waiting \ {r}
  /\ UNCHANGED <<holding, cap, cooling>>

(* A holder gives its slot back and waiters may take what is free. *)
GiveBack(r) ==
  /\ r \in holding
  /\ \E S \in SUBSET waiting : Shift({r}, S)
  /\ UNCHANGED <<cap, cooling>>

(* Waiters take free slots. *)
Promote ==
  /\ \E S \in SUBSET waiting : Shift({}, S)
  /\ UNCHANGED <<cap, cooling>>

StartCooldown ==
  /\ cooling' = TRUE
  /\ cap' = cap \/ (holding \cup waiting = {} /\ cap' \in Nat)
  /\ UNCHANGED <<holding, waiting>>

EndCooldown ==
  /\ cooling' = FALSE
  /\ \E S \in SUBSET waiting : Shift({}, S)
  /\ UNCHANGED cap

Next ==
  \/ \E r \in Requests : Enter(r) \/ Wait(r) \/ Withdraw(r) \/ GiveBack(r)
  \/ TurnAway
  \/ Promote
  \/ StartCooldown
  \/ EndCooldown

Spec == Init /\ [][Next]_lvars
=============================================================================
