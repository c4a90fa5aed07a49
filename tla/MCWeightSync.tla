---------------------------- MODULE MCWeightSync ----------------------------
(* Instantiates WeightSync for TLC: the sizes of the files.                *)
EXTENDS WeightSync

\* With a chunk size of 2: a full and a short chunk, an empty file, one full chunk.
MCSizes == <<3, 0, 2>>
MCTwoFiles == <<1, 1>>
=============================================================================
