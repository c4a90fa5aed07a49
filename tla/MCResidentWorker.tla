-------------------------- MODULE MCResidentWorker --------------------------
(* Instantiates ResidentWorker for TLC; the values are in the .cfg files. *)
EXTENDS ResidentWorker
=============================================================================
