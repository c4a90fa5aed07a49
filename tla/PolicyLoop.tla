----------------------------- MODULE PolicyLoop -----------------------------
(***************************************************************************)
(* What the reinforcement-learning loop of quic_rl promises, without       *)
(* saying how: a learner holds a policy, rollout workers serve one, and    *)
(* the learner only ever learns from a batch sampled from exactly the      *)
(* policy it holds ("Policy lifecycle" of docs/ARCHITECTURE.md).  A policy *)
(* is named by the number of updates that produced it.                     *)
(***************************************************************************)
EXTENDS Naturals

VARIABLES
    learned,   \* the policy the learner holds
    served,    \* the policy the rollout workers sample from
    batch      \* the policies the accepted batch was sampled from; {} is no batch

loopVars == <<learned, served, batch>>

LoopTypeOK ==
    /\ learned \in Nat
    /\ served \in Nat
    /\ batch \in SUBSET Nat

LoopInit ==
    /\ learned = 0
    /\ served = 0
    /\ batch = {}

\* A batch is accepted only while the workers serve the learner's policy.
Collect ==
    /\ batch = {}
    /\ served = learned
    /\ batch' = {served}
    /\ UNCHANGED <<learned, served>>

\* One update, from a batch of the policy being updated.
Learn ==
    /\ batch = {learned}
    /\ learned' = learned + 1
    /\ batch' = {}
    /\ UNCHANGED served

\* The workers come to serve the learner's policy.
Publish ==
    /\ batch = {}
    /\ served' = learned
    /\ UNCHANGED <<learned, batch>>

\* The iteration is abandoned and its batch is dropped.
Abandon ==
    /\ batch' = {}
    /\ UNCHANGED <<learned, served>>

\* The process ends: the next one starts from the initial policy.
Reset ==
    /\ learned' = 0
    /\ served' = 0
    /\ batch' = {}

LoopNext == Collect \/ Learn \/ Publish \/ Abandon \/ Reset

LoopSpec == LoopInit /\ [][LoopNext]_loopVars

(* The learner never falls behind the workers, and a batch is always of    *)
(* the learner's own policy.                                               *)
OnlyOnPolicy ==
    /\ served <= learned
    /\ batch \subseteq {learned}
=============================================================================
