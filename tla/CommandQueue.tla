---------------------------- MODULE CommandQueue ----------------------------
(***************************************************************************)
(* What relaying commands promises, without the store, its ids and its     *)
(* watchers: one caller issues commands and waits for each; a command      *)
(* takes effect on one machine, never after a later one took effect        *)
(* there, and perhaps more than once; an answer is the answer to the       *)
(* command that was issued, which took effect before.  A command whose     *)
(* caller gave up may still take effect.                                   *)
(***************************************************************************)
EXTENDS Naturals, Sequences

CONSTANT Machines

VARIABLES
    issued,     \* the number of commands issued
    awaited,    \* the command the caller waits for; 0 is none
    effects,    \* the commands that took effect on each machine, in order
    answers     \* what the caller was told: command and whose answer

queueVars == <<issued, awaited, effects, answers>>

TookEffect(m, k) == \E i \in DOMAIN effects[m] : effects[m][i] = k

QueueInit ==
    /\ issued = 0 /\ awaited = 0
    /\ effects = [m \in Machines |-> << >>]
    /\ answers = {}

Issue ==
    /\ awaited = 0
    /\ issued' = issued + 1
    /\ awaited' = issued + 1
    /\ UNCHANGED <<effects, answers>>

Perform(m, k) ==
    /\ \A i \in DOMAIN effects[m] : effects[m][i] <= k
    /\ \A other \in Machines \ {m} : ~TookEffect(other, k)
    /\ effects' = [effects EXCEPT ![m] = Append(@, k)]
    /\ UNCHANGED <<issued, awaited, answers>>

Answer ==
    /\ \E m \in Machines : TookEffect(m, awaited)
    /\ answers' = answers \cup {<<awaited, awaited>>}
    /\ awaited' = 0
    /\ UNCHANGED <<issued, effects>>

GiveUp ==
    /\ awaited' = 0
    /\ UNCHANGED <<issued, effects, answers>>

QueueNext ==
    \/ Issue
    \/ \E m \in Machines : \E k \in 1 .. issued : Perform(m, k)
    \/ Answer
    \/ GiveUp

QueueSpec == QueueInit /\ [][QueueNext]_queueVars
=============================================================================
