---------------------------- MODULE MCGpuMathGrpo ----------------------------
(* Instantiates GpuMathGrpo for TLC; the values are in the .cfg file. *)
EXTENDS GpuMathGrpo
=============================================================================
