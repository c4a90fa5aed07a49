-------------------------- MODULE MCStageLauncher ---------------------------
(* Instantiates StageLauncher for TLC; the values are in the .cfg files. *)
EXTENDS StageLauncher
=============================================================================
