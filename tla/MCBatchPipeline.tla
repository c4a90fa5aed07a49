-------------------------- MODULE MCBatchPipeline --------------------------
(* Instantiates BatchPipeline for TLC; the values are in the .cfg file. *)
EXTENDS BatchPipeline
=============================================================================
