------------------------- MODULE MCAccountSemaphore -------------------------
(* Instances of AccountSemaphore for TLC. *)
EXTENDS AccountSemaphore, TLC

(* The callers are interchangeable: sound for the runs that check no liveness. *)
CallerSymmetry == Permutations(Requests)
=============================================================================
