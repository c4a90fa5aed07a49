--------------------------- MODULE MCKvRemoteExec ---------------------------
(* Instantiates KvRemoteExec for TLC: the machines are model values. *)
EXTENDS KvRemoteExec
=============================================================================
