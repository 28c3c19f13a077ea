---------------------------- MODULE CircuitGuard ----------------------------
(***************************************************************************)
(* What a circuit breaker promises of the traffic it guards, with nothing  *)
(* of how it counts failures.  Traffic flows freely, or rests, or is       *)
(* probed.  Nothing enters while it rests; only the end of the cooldown    *)
(* turns resting into probing, and it grants the budget of that probing,   *)
(* which nothing refills; a verdict ends it.                               *)
(*                                                                         *)
(* A restart forgets the calls in flight and grants a new budget.          *)
(*                                                                         *)
(* CircuitBreaker and ProviderCircuit are checked against it.              *)
(***************************************************************************)
EXTENDS Naturals

CONSTANTS
  Callers,
  Budget    \* the calls that one probing admits

VARIABLES
  phase,    \* "flowing", "resting" or "probing"
  budget,   \* the calls that may still enter while probing
  inside    \* the callers whose call is in flight

gvars == <<phase, budget, inside>>

Init == phase = "flowing" /\ budget = 0 /\ inside = {}

Enter(r) ==
  /\ r \notin inside
  /\ inside' = inside \cup {r}
  /\ \/ phase = "flowing" /\ UNCHANGED budget
     \/ phase = "probing" /\ budget > 0 /\ budget' = budget - 1
  /\ UNCHANGED phase

(* A call may tell nothing, that the service works, or that it does not. *)
Verdict ==
  \/ UNCHANGED <<phase, budget>>
  \/ phase' = "flowing" /\ budget' = 0
  \/ phase' = "resting" /\ budget' = 0

Leave(r) ==
  /\ r \in inside
  /\ inside' = inside \ {r}
  /\ Verdict

(* A verdict from elsewhere. *)
Report == Verdict /\ UNCHANGED inside

CooldownOver ==
  /\ phase = "resting"
  /\ phase' = "probing"
  /\ budget' = Budget
  /\ UNCHANGED inside

Restart ==
  /\ inside' = {}
  /\ budget' = IF phase = "probing" THEN Budget ELSE 0
  /\ UNCHANGED phase

Next ==
  \/ \E r \in Callers : Enter(r) \/ Leave(r)
  \/ Report
  \/ CooldownOver
  \/ Restart

Spec == Init /\ [][Next]_gvars
=============================================================================
