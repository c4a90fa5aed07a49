---------------------------- MODULE MCMathAnswer ----------------------------
(* Instantiates MathAnswer for TLC; the values are in the .cfg file. *)
EXTENDS MathAnswer
=============================================================================
