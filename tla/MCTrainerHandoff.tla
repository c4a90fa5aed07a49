-------------------------- MODULE MCTrainerHandoff --------------------------
(* Instantiates TrainerHandoff for TLC: which machine each rank runs on.   *)
EXTENDS TrainerHandoff

MCOneEach == [r \in Ranks |-> r]
=============================================================================
