---------------------------- MODULE PolicyStore ----------------------------
(***************************************************************************)
(* What the synchronisation of weights promises, without calls, processes, *)
(* chunks and files: the rollout machine stores whole policy versions and  *)
(* serves one of them or none.                                             *)
(***************************************************************************)
EXTENDS Naturals

CONSTANT Versions

VARIABLES
    stored,   \* the versions that are whole on the disk
    served    \* the version that is served, or 0

storeVars == <<stored, served>>

StoreInit == stored = {} /\ served = 0

\* A version arrives, never one older than what is there.
Arrive(v) ==
    /\ \A w \in stored \cup {served} : w <= v
    /\ stored' = stored \cup {v}
    /\ UNCHANGED served

Switch(v) ==
    /\ v \in stored
    /\ v >= served
    /\ served' = v
    /\ UNCHANGED stored

\* The stages were stopped and new ones did not start.
Stop ==
    /\ served' = 0
    /\ UNCHANGED stored

\* Everything but the version served goes.
Clean ==
    /\ served \in stored
    /\ stored' = {served}
    /\ UNCHANGED served

StoreNext == (\E v \in Versions : Arrive(v) \/ Switch(v)) \/ Stop \/ Clean

StoreSpec == StoreInit /\ [][StoreNext]_storeVars
=============================================================================
