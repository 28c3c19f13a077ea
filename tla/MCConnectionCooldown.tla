------------------------ MODULE MCConnectionCooldown ------------------------
(* Instances of ConnectionCooldown for TLC. *)
EXTENDS ConnectionCooldown
=============================================================================
