--------------------------- MODULE MCOrchestrator ---------------------------
(* Instantiates Orchestrator for TLC; the values are in the .cfg files. *)
EXTENDS Orchestrator
=============================================================================
