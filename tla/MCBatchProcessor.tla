-------------------------- MODULE MCBatchProcessor --------------------------
(* Instances of BatchProcessor for TLC. *)
EXTENDS BatchProcessor
=============================================================================
