------------------------- MODULE MCProviderCircuit -------------------------
(* Finite instances of ProviderCircuit, with scaled down thresholds.       *)
(* Requests are interchangeable, and so are connections.                   *)
EXTENDS ProviderCircuit, TLC

Symmetry == Permutations(Requests) \cup Permutations(Connections)
=============================================================================
