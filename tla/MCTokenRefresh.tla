--------------------------- MODULE MCTokenRefresh ---------------------------
(* Instances of TokenRefresh for TLC: two accounts, of which
   only the health check visits both. *)
EXTENDS TokenRefresh

CONSTANTS c1, c2

MCUses == [x \in Callers |-> IF x \in Sweeping THEN {c1, c2}
                            ELSE IF x \in OnDemand THEN {c2} ELSE {c1}]
=============================================================================
