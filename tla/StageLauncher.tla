--------------------------- MODULE StageLauncher ----------------------------
(***************************************************************************)
(* QuicVLLMRollout.load_policy() and generate() (rollout/quic_vllm.py)     *)
(* over a launcher of vLLM pipeline stages: SshMultiMachineStageLauncher   *)
(* (ssh_launcher.py), which kills by command line whatever stage runs on   *)
(* its machines, or LocalTcpStageLauncher (local_launcher.py), which stops *)
(* the processes it has handles of.  With NoOpStageLauncher the restart is *)
(* the one QuicWeightSynchronizer.sync() made just before.                 *)
(*                                                                         *)
(* Stages are external processes: they take some time to start, find each  *)
(* other through names registered on a server, and may die at any time; a  *)
(* killed one may hold its machine for a while.                            *)
(***************************************************************************)
EXTENDS Integers, FiniteSets

CONSTANTS
    Stages,     \* len(machines)
    Orphans,    \* may the program end while stages it has handles of live?
    Policies,   \* the policies load_policy() is given
    MaxLoads,   \* bound: calls of load_policy()
    MaxFaults,  \* bound: commands that fail, stages that die or linger
    MaxEnds     \* bound: how often the program ends and is started again

ASSUME StageAssumption ==
    /\ Stages \in Nat \ {0}
    /\ Orphans \in BOOLEAN
    /\ Policies \subseteq Nat
    /\ {MaxLoads, MaxFaults, MaxEnds} \subseteq Nat

Ranks == 0 .. Stages - 1
Driver == Stages - 1
Runs == 0 .. MaxLoads
None == -1

VARIABLES
    launcher,  \* the launcher load_policy() restarts the stages with
    pc,        \* where load_policy(), restart() or shutdown() is
    goal,      \* what _stop() was called for
    rank,      \* the machine the loop of _stop() or restart() is at
    policy,    \* policy_path
    run,       \* run_suffix of the latest restart()
    stamp,     \* _policy_version
    name,      \* _model_name
    procs,     \* the stage processes
    registry,  \* which stage registered which name
    loads, faults, ends

caller == <<goal, policy, stamp, name>>
fixed == <<launcher, loads, ends>>
vars == <<launcher, pc, goal, rank, policy, run, stamp, name, procs, registry, loads, faults, ends>>

Phases == {"starting", "up", "joined", "stuck", "serving", "dying"}
Process == [rank: Ranks, run: Runs, policy: Policies, phase: Phases, handled: BOOLEAN]

\* LocalTcpStageLauncher starts two stages and knows them by their handles only.
Launchers == {"ssh"} \cup (IF Stages = 2 THEN {"tcp"} ELSE {})
ByHandle == launcher = "tcp"

TypeOK ==
    /\ launcher \in Launchers
    /\ pc \in {"idle", "stop", "settle", "launch", "health", "resolve", "served", "raised"}
    /\ goal \in {"load", "end"}
    /\ rank \in Ranks
    /\ policy \in Policies
    /\ run \in Runs
    /\ stamp \in Policies \cup {None}
    /\ name \in Policies \cup {None}
    /\ procs \subseteq Process
    /\ registry \subseteq [rank: Ranks, wire: Runs, run: Runs]
    /\ loads \in 0 .. MaxLoads
    /\ faults \in 0 .. MaxFaults
    /\ ends \in 0 .. MaxEnds

Init ==
    /\ launcher \in Launchers
    /\ pc = "idle"
    /\ goal = "load"
    /\ rank = 0
    /\ policy \in Policies
    /\ run = 0
    /\ stamp = None
    /\ name = None
    /\ procs = {}
    /\ registry = {}
    /\ loads = 0
    /\ faults = 0
    /\ ends = 0

Misbehave ==
    /\ faults < MaxFaults
    /\ faults' = faults + 1

\* A process that the program can wait for, or that answers.
Live == {p \in procs : p.phase # "dying"}

\* The server the driver's URL leads to.
Answering == {p \in Live : p.rank = Driver /\ p.phase = "serving"}

AdvanceTooFar(next) ==
    IF rank <= Driver
    THEN rank' = rank + 1 /\ UNCHANGED pc
    ELSE rank' = 0 /\ pc' = next

\* The loops over the machines.
Advance(next) ==
    IF rank < Driver
    THEN rank' = rank + 1 /\ UNCHANGED pc
    ELSE rank' = 0 /\ pc' = next

Raise ==
    /\ pc' = "raised"
    /\ rank' = 0

-----------------------------------------------------------------------------
(* _stop(), for restart() and for shutdown() *)

LoadPolicy ==
    /\ pc \in {"idle", "served", "raised"}
    /\ loads < MaxLoads
    /\ loads' = loads + 1
    /\ policy' \in Policies
    /\ goal' = "load"
    /\ pc' = "stop"
    /\ UNCHANGED <<launcher, rank, run, stamp, name, procs, registry, faults, ends>>

Shutdown ==
    /\ pc \in {"served", "raised"}
    /\ goal' = "end"
    /\ pc' = "stop"
    /\ UNCHANGED <<launcher, rank, policy, run, stamp, name, procs, registry, loads, faults, ends>>

MissesRenamed(m) == {p \in procs : p.rank = m /\ p.phase \in {"starting", "up"}}

\* The stages on a machine that are found: by their command line, or by handle.
Found(m) == {p \in procs : p.rank = m /\ (ByHandle => p.handled)}

Killed(m) == (procs \ Found(m)) \cup {[p EXCEPT !.phase = "dying"] : p \in Found(m)}

\* pkill on one machine.  SIGKILL takes effect when the process lets it.
StopMachine ==
    /\ pc = "stop"
    /\ procs' = Killed(rank)
    /\ Advance("settle")
    /\ UNCHANGED <<caller, run, registry, fixed, faults>>

\* The command fails, or takes too long after it was run (check=True, timeout=20).
StopRaises ==
    /\ pc = "stop"
    /\ ~ByHandle
    /\ Misbehave
    /\ procs' \in {procs, Killed(rank)}
    /\ Raise
    /\ UNCHANGED <<caller, run, registry, fixed>>

\* TCP ports close with their process; the signaling server keeps the names of
\* processes that were killed.
AfterDeath(entries, dead) ==
    IF ByHandle THEN {e \in entries : ~\E p \in dead : p.rank = e.rank /\ p.run = e.run} ELSE entries

\* The end of _stop(): 5 seconds, or wait(), in which what was killed goes; on a
\* busy machine it may take longer.  restart() then makes a new suffix.
Settle ==
    /\ pc = "settle"
    /\ \/ procs' = Live /\ UNCHANGED faults
       \/ ~ByHandle /\ Misbehave /\ UNCHANGED procs
    /\ registry' = AfterDeath(registry, procs \ procs')
    /\ IF goal = "load"
       THEN run' = run + 1 /\ pc' = "launch" /\ UNCHANGED <<stamp, name>>
       ELSE pc' = "idle" /\ stamp' = None /\ name' = None /\ UNCHANGED run
    /\ UNCHANGED <<goal, rank, policy, fixed>>

-----------------------------------------------------------------------------
(* restart() and load_policy() *)

Launched == procs \cup {[rank |-> rank, run |-> run, policy |-> policy, phase |-> "starting", handled |-> TRUE]}

\* The command starts the stage in the background: it says nothing of its fate.
Launch ==
    /\ pc = "launch"
    /\ procs' = Launched
    /\ Advance("health")
    /\ UNCHANGED <<caller, run, registry, fixed, faults>>

\* A stage directory is missing, or the command fails or takes too long.
LaunchRaises ==
    /\ pc = "launch"
    /\ Misbehave
    /\ procs' \in IF ByHandle THEN {procs} ELSE {procs, Launched}
    /\ Raise
    /\ UNCHANGED <<caller, run, registry, fixed>>

KeepsName ==
    /\ pc = "health"
    /\ Answering # {}
    /\ stamp' = policy
    /\ pc' = "resolve"
    /\ UNCHANGED <<goal, rank, policy, run, name, procs, registry, fixed, faults>>

\* /health answers 200: the stamp changes and the cached model name is dropped.
Healthy ==
    /\ pc = "health"
    /\ Answering # {}
    /\ stamp' = policy
    /\ name' = None
    /\ pc' = "resolve"
    /\ UNCHANGED <<goal, rank, policy, run, procs, registry, fixed, faults>>

\* health_poll_timeout.
GiveUp ==
    /\ pc = "health"
    /\ Raise
    /\ UNCHANGED <<caller, run, procs, registry, fixed, faults>>

\* _resolve_model_name(): the cached name, or the one that is served.
Resolved == IF name # None THEN {name} ELSE {p.policy : p \in Answering}

Resolve ==
    /\ pc = "resolve"
    /\ name' \in Resolved
    /\ pc' = "served"
    /\ UNCHANGED <<goal, rank, policy, run, stamp, procs, registry, fixed, faults>>

ResolveRaises ==
    /\ pc = "resolve"
    /\ \/ Answering = {} /\ UNCHANGED faults
       \/ Misbehave
    /\ Raise
    /\ UNCHANGED <<caller, run, procs, registry, fixed>>

\* generate() resolves the name when load_policy() did not.
Generate ==
    /\ pc \in {"served", "raised"}
    /\ stamp # None
    /\ name = None
    /\ name' \in Resolved
    /\ UNCHANGED <<pc, goal, rank, policy, run, stamp, procs, registry, fixed, faults>>

\* The program ends wherever it is; its stages go on.
ProgramEnds ==
    /\ ends < MaxEnds
    /\ ByHandle => Orphans \/ procs = {}
    /\ ends' = ends + 1
    /\ pc' = "idle"
    /\ rank' = 0
    /\ stamp' = None
    /\ name' = None
    /\ procs' = {[p EXCEPT !.handled = FALSE] : p \in procs}
    /\ UNCHANGED <<launcher, goal, policy, run, registry, loads, faults>>

-----------------------------------------------------------------------------
(* The stages *)

Becomes(p, phase) == procs' = (procs \ {p}) \cup {[p EXCEPT !.phase = phase]}

\* The name on the wire: a fixed one over TCP, and one with the suffix otherwise.
OneNameForAll(r) == 0
WireName(r) == IF ByHandle THEN 0 ELSE r

\* The stage takes its machine's GPU and port and registers its name, or fails
\* because another process still has them.
StartStage(p) ==
    /\ p.phase = "starting"
    /\ IF \E q \in procs : q.rank = p.rank /\ q.phase # "starting"
       THEN procs' = procs \ {p} /\ UNCHANGED registry
       ELSE /\ Becomes(p, "up")
            /\ registry' = {e \in registry : ~(e.rank = p.rank /\ e.wire = WireName(p.run))}
                             \cup {[rank |-> p.rank, wire |-> WireName(p.run), run |-> p.run]}
    /\ UNCHANGED <<pc, rank, caller, run, fixed, faults>>

\* It looks its neighbour up and waits for it as long as there is no entry; with
\* the entry of a process that is gone it hangs.
Join(p) ==
    /\ p.phase = "up"
    /\ IF p.rank = 0
       THEN Becomes(p, "joined")
       ELSE \E e \in registry :
              /\ e.rank = p.rank - 1
              /\ e.wire = WireName(p.run)
              /\ Becomes(p, IF \E q \in Live : q.rank = e.rank /\ q.run = e.run THEN "joined" ELSE "stuck")
    /\ UNCHANGED <<pc, rank, caller, run, registry, fixed, faults>>

\* The driver's HTTP server comes up when the whole pipeline has.
Serve(p) ==
    /\ p.phase = "joined"
    /\ p.rank = Driver
    /\ \A r \in Ranks : \E q \in procs : q.rank = r /\ q.run = p.run /\ q.phase = "joined"
    /\ Becomes(p, "serving")
    /\ UNCHANGED <<pc, rank, caller, run, registry, fixed, faults>>

StageDies(p) ==
    /\ p.phase # "dying"
    /\ Misbehave
    /\ procs' = procs \ {p}
    /\ registry' = AfterDeath(registry, {p})
    /\ UNCHANGED <<pc, rank, caller, run, fixed>>

\* A killed process that took its time is gone.
KilledGoes(p) ==
    /\ p.phase = "dying"
    /\ pc # "settle"
    /\ procs' = procs \ {p}
    /\ registry' = AfterDeath(registry, {p})
    /\ UNCHANGED <<pc, rank, caller, run, fixed, faults>>

StageRuns(p) == StartStage(p) \/ Join(p) \/ Serve(p)

StageRunsAt(m, r) == \E p \in procs : p.rank = m /\ p.run = r /\ StageRuns(p)

-----------------------------------------------------------------------------
\* Nothing is left to do within the bounds.
Finished ==
    /\ pc \in {"idle", "served", "raised"}
    /\ loads = MaxLoads
    /\ UNCHANGED vars

Next ==
    \/ LoadPolicy
    \/ Shutdown
    \/ StopMachine
    \/ StopRaises
    \/ Settle
    \/ Launch
    \/ LaunchRaises
    \/ Healthy
    \/ GiveUp
    \/ Resolve
    \/ ResolveRaises
    \/ Generate
    \/ ProgramEnds
    \/ \E p \in procs : StartStage(p)
    \/ \E p \in procs : Join(p)
    \/ \E p \in procs : Serve(p)
    \/ \E p \in procs : StageDies(p)
    \/ \E p \in procs : KilledGoes(p)
    \/ Finished

Spec == Init /\ [][Next]_vars

\* Stages make progress and the health poll goes on; its deadline is not relied on.
FairSpec ==
    /\ Spec
    /\ WF_vars(Healthy)
    /\ \A m \in Ranks, r \in Runs : WF_vars(StageRunsAt(m, r))

-----------------------------------------------------------------------------
(* When load_policy() has returned, the server that answers serves the     *)
(* policy that trajectories are stamped with, and it is the one generate() *)
(* asks for by name, whatever failed in earlier restarts and whichever     *)
(* stages outlived them ("returns only once rollout workers would actually *)
(* serve this version", rollout/base.py:41-45; "re-resolve rather than     *)
(* trust a stale cached name", quic_vllm.py).                              *)
LabelsTellServed == pc = "served" => \A d \in Answering : d.policy = stamp /\ d.policy = name

(* A stage is only launched on a machine where the stages of every earlier *)
(* restart, also of one that failed half way, were killed (_stop; orphans  *)
(* that held GPU memory through several restarts are the bug its comments  *)
(* tell of).                                                               *)
PredecessorsKilled ==
    \A p, q \in procs : p.rank = q.rank /\ p.run < q.run => p.phase = "dying"

(* The stages of a restart find each other: as long as all of them live    *)
(* the driver becomes healthy, and none waits for a process of an earlier  *)
(* restart whose name is still registered (run_suffix).                    *)
Whole == \A r \in Ranks : \E p \in procs : p.rank = r /\ p.run = run
BecomesHealthy == (pc = "health") ~> (pc # "health" \/ ~Whole)

-----------------------------------------------------------------------------
(* The inductive invariant, part by part.                                  *)

\* No program ends before the stages that it knows by handle.
HandlesKept == Orphans => Launchers = {"ssh"}

\* The loops over the machines begin with the first one.
LoopsFromFirst == pc \notin {"stop", "launch"} => rank = 0

\* A run of the stages is made by a call of load_policy() of its own.
RunsFit ==
    /\ run <= loads
    /\ pc \in {"stop", "settle"} /\ goal = "load" => run < loads

\* With handles: every stage is one of this program.
HandlesKnown == ByHandle => \A p \in procs : p.handled

\* The machines _stop() has been to have no stage left that was not killed.
StoppedSoFar ==
    /\ pc = "stop" => \A p \in procs : p.rank < rank => p.phase = "dying"
    /\ pc = "settle" => \A p \in procs : p.phase = "dying"

Restarted == pc \in {"launch", "health", "resolve", "served"}

\* From then on only stages of the new run live, and they have its policy.
OneRunLives ==
    \A p \in procs :
        /\ p.run <= run
        /\ Restarted => IF p.run = run THEN p.policy = policy ELSE p.phase = "dying"

\* Stamp and model name change one after the other.
LabelsFollow ==
    /\ pc \in {"resolve", "served"} => stamp = policy
    /\ pc = "resolve" => name = None
    /\ pc = "served" => name = policy

(* From the first kill to the last answer a restart knows what runs on the *)
(* machines: what it has been to is killed, what it launched is of one run *)
(* and one policy, and the labels are those of that policy (restart() of   *)
(* ssh_launcher.py and local_launcher.py, load_policy() of quic_vllm.py).  *)
RestartAgrees ==
    /\ TypeOK
    /\ LoopsFromFirst
    /\ RunsFit
    /\ HandlesKnown
    /\ StoppedSoFar
    /\ OneRunLives
    /\ LabelsFollow
    /\ PredecessorsKilled
=============================================================================
