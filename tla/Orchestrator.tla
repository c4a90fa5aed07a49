---------------------------- MODULE Orchestrator ----------------------------
(***************************************************************************)
(* The orchestrator process: Controller, PolicyVersionState,               *)
(* OrchestratorState, PolicyRegistry, lifecycle and retry_call, driving    *)
(* one trainer and one rollout backend through their protocols             *)
(* (trainer/base.py, rollout/base.py).  Every call to a backend is a step  *)
(* of its own, which may raise; the process may die between any two steps  *)
(* and be launched again on the same state directory.                      *)
(*                                                                         *)
(* Policy weights are named by the number of updates applied to the        *)
(* initial policy.  Labels (policy versions, stamps) and weights are kept  *)
(* apart, so that a label that lies is visible.                            *)
(***************************************************************************)
EXTENDS Integers, FiniteSets

CONSTANTS
    MaxIterations,  \* the argument of Controller.run()
    MaxAttempts,    \* max_retry_attempts
    KeepLast,       \* PolicyRegistry.keep_last
    MaxFaults,      \* bound: how many calls may misbehave in one behaviour
    HardFaults,     \* may a call that is not retried raise, or a batch be mixed?
    MayCrash,       \* may the process die at any step?
    CarefulCaller   \* is run() not called again when train() raised after its update?

ASSUME ConstantsAssumption ==
    /\ MaxIterations \in Nat
    /\ MaxAttempts \in Nat \ {0}
    /\ KeepLast \in Nat
    /\ MaxFaults \in Nat
    /\ HardFaults \in BOOLEAN
    /\ MayCrash \in BOOLEAN
    /\ CarefulCaller \in BOOLEAN

VARIABLES
    pc,        \* where the process is
    attempt,   \* the attempt retry_call is making
    st,        \* Controller.state, with its PolicyVersionState flattened in
    trainer,   \* the trainer backend: its policy version and its real weights
    engine,    \* the rollout backend: the stamp it puts and the weights it serves
    batch,     \* the kinds of trajectory in the accepted batch
    exported,  \* the weights in the export that is being published
    registry,  \* PolicyRegistry._by_version: the versions it knows
    onDisk,    \* the versions whose export directory exists
    disk,      \* orchestrator_state.json
    faults     \* how many calls have misbehaved

inMemory == <<trainer, engine, exported, registry>>
vars == <<pc, attempt, st, trainer, engine, batch, exported, registry, onDisk, disk, faults>>

None == -1     \* Python's None as a policy version

Points == {"down", "construct", "idle", "verify", "generate", "score", "train", "export",
           "register", "sync", "load", "metrics", "save", "saving", "raised", "returned"}

State == [iteration: Nat, current: Nat, rollout: Nat \cup {None}, training: Nat \cup {None}, steps: Nat]
Kind == [stamp: Nat, weights: Nat]

FreshState == [iteration |-> 0, current |-> 0, rollout |-> None, training |-> None, steps |-> 0]
FreshTrainer == [version |-> 0, weights |-> 0]
FreshEngine == [stamp |-> 0, weights |-> 0]

TypeOK ==
    /\ pc \in Points
    /\ attempt \in 1..MaxAttempts
    /\ st \in State
    /\ trainer \in [version: Nat, weights: Nat]
    /\ engine \in Kind
    /\ batch \in SUBSET Kind
    /\ exported \in Nat
    /\ registry \in SUBSET Nat
    /\ onDisk \in SUBSET Nat
    /\ disk \in [file: {"absent", "torn", "whole"}, st: State]
    /\ faults \in 0..MaxFaults

-----------------------------------------------------------------------------
(* Faults, exceptions, retries *)

Misbehave ==
    /\ faults < MaxFaults
    /\ faults' = faults + 1

HardFault == HardFaults /\ Misbehave

\* An exception leaves _run_one_iteration() and run(): nothing catches it.
Raise ==
    /\ pc' = "raised"
    /\ batch' = {}

RetriesOnceMore(point) ==
    IF attempt <= MaxAttempts
    THEN pc' = point /\ attempt' = attempt + 1 /\ UNCHANGED batch
    ELSE Raise /\ UNCHANGED attempt

\* retry_call: one attempt of fn() raised.
RetryOrRaise(point) ==
    IF attempt < MaxAttempts
    THEN pc' = point /\ attempt' = attempt + 1 /\ UNCHANGED batch
    ELSE Raise /\ UNCHANGED attempt

-----------------------------------------------------------------------------
(* The life of the process *)

ProcessGone ==
    /\ pc' = "down"
    /\ attempt' = 1
    /\ st' = FreshState
    /\ trainer' = FreshTrainer
    /\ engine' = FreshEngine
    /\ batch' = {}
    /\ exported' = 0
    /\ registry' = {}
    /\ UNCHANGED <<onDisk, disk, faults>>

Init ==
    /\ pc = "down"
    /\ attempt = 1
    /\ st = FreshState
    /\ trainer = FreshTrainer
    /\ engine = FreshEngine
    /\ batch = {}
    /\ exported = 0
    /\ registry = {}
    /\ onDisk = {}
    /\ disk = [file |-> "absent", st |-> FreshState]
    /\ faults = 0

\* lifecycle.initialize(): the trainer loads the initial policy, whose version
\* every backend of the repository reports as 0; the rollout backend then loads
\* the same policy under that version.
Launch ==
    /\ pc = "down"
    /\ pc' = "construct"
    /\ trainer' = FreshTrainer
    /\ engine' = [stamp |-> trainer'.version, weights |-> trainer'.weights]
    /\ UNCHANGED <<attempt, st, batch, exported, registry, onDisk, disk, faults>>

AlwaysAdopts(saved, initialVersion) == [saved EXCEPT !.current = initialVersion]

\* OrchestratorState.load() and resume_or_start(): the backends' version is
\* adopted only when no rollout was ever recorded.
Resumed(saved, initialVersion) ==
    IF saved.rollout = None THEN [saved EXCEPT !.current = initialVersion] ELSE saved

\* Controller.__init__ and resume_or_start().  A state file that does not parse
\* makes json.load raise, and the program ends.
Construct ==
    /\ pc = "construct"
    /\ IF disk.file = "torn"
       THEN ProcessGone
       ELSE /\ st' = Resumed(IF disk.file = "whole" THEN disk.st ELSE FreshState, trainer.version)
            /\ registry' = {}
            /\ pc' = "idle"
            /\ UNCHANGED <<attempt, trainer, engine, batch, exported, onDisk, disk, faults>>

\* Controller.run(): the test of its loop.
LoopTest == IF st.iteration < MaxIterations THEN "verify" ELSE "returned"

Run ==
    /\ pc = "idle"
    /\ pc' = LoopTest
    /\ UNCHANGED <<attempt, st, batch, onDisk, disk, faults, inMemory>>

\* The caller calls run() again on the same Controller after it raised.  A
\* careful one does not when the update was made that train() did not report.
RunAgain ==
    /\ pc = "raised"
    /\ CarefulCaller => trainer.weights = trainer.version
    /\ pc' = "idle"
    /\ UNCHANGED <<attempt, st, batch, onDisk, disk, faults, inMemory>>

\* The program ends: run() returned, or its exception reached the top.
Exit ==
    /\ pc \in {"returned", "raised"}
    /\ ProcessGone

Crash ==
    /\ MayCrash
    /\ pc # "down"
    /\ ProcessGone

-----------------------------------------------------------------------------
(* One iteration: _run_one_iteration() *)

VerifyRolloutWorkers ==
    /\ pc = "verify"
    /\ \/ /\ pc' = "generate"
          /\ attempt' = 1
          /\ UNCHANGED <<batch, faults>>
       \/ /\ HardFault
          /\ Raise
          /\ UNCHANGED attempt
    /\ UNCHANGED <<st, onDisk, disk, inMemory>>

\* What a trajectory sampled now looks like, and what one from a worker that
\* has not loaded the latest policy looks like.
CurrentKind == [stamp |-> engine.stamp, weights |-> engine.weights]
StaleKinds == {[stamp |-> v, weights |-> v] : v \in 0 .. trainer.version - 1}

AcceptsOneVersion(kinds) == Cardinality({k.stamp : k \in kinds}) = 1

\* PolicyVersionState.record_rollout(): not empty, one version, the current one.
Accepts(kinds) == {k.stamp : k \in kinds} = {st.current}

\* collect_rollouts() returns and record_rollout() checks what it returned.
Collected(kinds) ==
    IF Accepts(kinds)
    THEN /\ st' = [st EXCEPT !.rollout = st.current]
         /\ batch' = kinds
         /\ pc' = "score"
    ELSE Raise /\ UNCHANGED st

Generate ==
    /\ pc = "generate"
    /\ \/ Collected({CurrentKind}) /\ UNCHANGED <<attempt, faults>>
       \/ \E kinds \in SUBSET (StaleKinds \cup {CurrentKind}) :
            HardFault /\ Collected(kinds) /\ UNCHANGED attempt
       \/ Misbehave /\ RetryOrRaise("generate") /\ UNCHANGED st
    /\ UNCHANGED <<onDisk, disk, inMemory>>

\* score_trajectories(): not retried.
Score ==
    /\ pc = "score"
    /\ \/ pc' = "train" /\ UNCHANGED <<batch, faults>>
       \/ HardFault /\ Raise
    /\ UNCHANGED <<attempt, st, onDisk, disk, inMemory>>

\* PolicyVersionState.record_training(): the result must be newer than the rollout.
RecordTraining(result) ==
    IF result > st.rollout
    THEN /\ st' = [st EXCEPT !.training = st.rollout, !.current = result]
         /\ batch' = {}
         /\ pc' = "export"
    ELSE Raise /\ UNCHANGED st

\* TrainerBackend.train(): not retried.  It may raise after its ranks stepped (a
\* result that does not arrive in time): the update is made, the version is not.
Train ==
    /\ pc = "train"
    /\ \/ /\ trainer' = [version |-> trainer.version + 1, weights |-> trainer.weights + 1]
          /\ RecordTraining(trainer'.version)
          /\ UNCHANGED faults
       \/ /\ HardFault
          /\ trainer' \in {trainer, [trainer EXCEPT !.weights = @ + 1]}
          /\ Raise
          /\ UNCHANGED st
    /\ UNCHANGED <<attempt, engine, exported, registry, onDisk, disk>>

\* TrainerBackend.export_policy(): not retried.
ExportPolicy ==
    /\ pc = "export"
    /\ \/ /\ exported' = trainer.weights
          /\ onDisk' = onDisk \cup {st.current}
          /\ pc' = "register"
          /\ UNCHANGED <<batch, faults>>
       \/ HardFault /\ Raise /\ UNCHANGED <<exported, onDisk>>
    /\ UNCHANGED <<attempt, st, trainer, engine, registry, disk>>

PruneNewest(known) ==
    {v \in known : KeepLast > 0 /\ Cardinality({w \in known : w < v}) >= KeepLast}

\* PolicyRegistry._prune(): all but the last KeepLast versions, unless it is 0.
Stale(known) == {v \in known : KeepLast > 0 /\ Cardinality({w \in known : w > v}) >= KeepLast}

\* PolicyRegistry.register(), with its _prune().
Register ==
    /\ pc = "register"
    /\ LET known == registry \cup {st.current}
       IN  /\ registry' = known \ Stale(known)
           /\ onDisk' = onDisk \ Stale(known)
    /\ pc' = "sync"
    /\ attempt' = 1
    /\ UNCHANGED <<st, trainer, engine, batch, exported, disk, faults>>

\* The rollout engine may have been restarted on the export, or not yet.
MayServeExport == engine' \in {engine, [engine EXCEPT !.weights = exported]}

SyncWithoutLoad ==
    /\ pc = "sync"
    /\ MayServeExport
    /\ pc' = "metrics"
    /\ UNCHANGED <<attempt, st, trainer, batch, exported, registry, onDisk, disk, faults>>

\* WeightSynchronizer.sync(), under retry_call.  An attempt that raises may have
\* restarted the stages before it did.
Sync ==
    /\ pc = "sync"
    /\ MayServeExport
    /\ \/ pc' = "load" /\ UNCHANGED <<attempt, batch, faults>>
       \/ Misbehave /\ RetryOrRaise("sync")
    /\ UNCHANGED <<st, trainer, exported, registry, onDisk, disk>>

\* RolloutBackend.load_policy(): not retried.  It may raise before the engine
\* restarted, after it, or after the new stamp was recorded.
StampsBeforeServing ==
    /\ pc = "load"
    /\ \/ /\ engine' = [stamp |-> st.current, weights |-> exported]
          /\ pc' = "metrics"
          /\ UNCHANGED <<batch, faults>>
       \/ /\ HardFault
          /\ engine' = [engine EXCEPT !.stamp = st.current]
          /\ Raise
    /\ UNCHANGED <<attempt, st, trainer, exported, registry, onDisk, disk>>

LoadPolicy ==
    /\ pc = "load"
    /\ \/ /\ engine' = [stamp |-> st.current, weights |-> exported]
          /\ pc' = "metrics"
          /\ UNCHANGED <<batch, faults>>
       \/ /\ HardFault
          /\ MayServeExport \/ engine' = [stamp |-> st.current, weights |-> exported]
          /\ Raise
    /\ UNCHANGED <<attempt, st, trainer, exported, registry, onDisk, disk>>

\* record_sync() compares the version with itself; then log_network(),
\* log_training(), log_rollout() and log_rl() append to a file or call W&B.
LogMetrics ==
    /\ pc = "metrics"
    /\ \/ pc' = "save" /\ UNCHANGED <<batch, faults>>
       \/ HardFault /\ Raise
    /\ UNCHANGED <<attempt, st, onDisk, disk, inMemory>>

\* The counters advance, then open(path, "w") empties the state file.  The
\* directory may be gone or the file not writable: then it stays as it is.
SaveTruncates ==
    /\ pc = "save"
    /\ st' = [st EXCEPT !.iteration = @ + 1, !.steps = @ + 1]
    /\ \/ /\ disk' = [disk EXCEPT !.file = "torn"]
          /\ pc' = "saving"
          /\ UNCHANGED <<batch, faults>>
       \/ HardFault /\ Raise /\ UNCHANGED disk
    /\ UNCHANGED <<attempt, onDisk, inMemory>>

\* json.dump() and close(): run()'s loop then decides.
SaveWrites ==
    /\ pc = "saving"
    /\ \/ /\ disk' = [file |-> "whole", st |-> st]
          /\ pc' = LoopTest
          /\ UNCHANGED <<batch, faults>>
       \/ HardFault /\ Raise /\ UNCHANGED disk
    /\ UNCHANGED <<attempt, st, onDisk, inMemory>>

-----------------------------------------------------------------------------
Iterate ==
    \/ VerifyRolloutWorkers
    \/ Generate
    \/ Score
    \/ Train
    \/ ExportPolicy
    \/ Register
    \/ Sync
    \/ LoadPolicy
    \/ LogMetrics
    \/ SaveTruncates
    \/ SaveWrites

Start == Launch \/ Construct \/ Run

Next == Start \/ Iterate \/ RunAgain \/ Exit \/ Crash

Spec == Init /\ [][Next]_vars

-----------------------------------------------------------------------------
(* A batch the trainer is about to use was sampled, all of it, from the    *)
(* weights the trainer holds: through failed and retried synchronisations, *)
(* run() called again after an exception, crashes and resumes ("Never      *)
(* silently mix trajectories from incompatible policy versions", state.py).*)
OnPolicy ==
    pc \in {"score", "train"} =>
        /\ batch # {}
        /\ \A k \in batch : k.weights = trainer.weights

(* Every export the registry knows exists, the one being published among   *)
(* them, and it knows at most KeepLast: pruning takes the oldest ones only *)
(* (PolicyRegistry.register and _prune).                                   *)
ExportsKept ==
    /\ registry \subseteq onDisk
    /\ pc \in {"sync", "load"} => st.current \in registry
    /\ KeepLast > 0 => Cardinality(registry) <= KeepLast

(* Every completed iteration is backed by a policy version of its own,     *)
(* in memory and in the state file, whatever was abandoned or resumed.     *)
IterationsBacked ==
    /\ st.iteration <= st.current
    /\ disk.file = "whole" => disk.st.iteration <= disk.st.current

(* The state file is completed only when the loop is closed: the workers   *)
(* are stamped with and serve the very policy the trainer holds, and the   *)
(* file names it (the order of _run_one_iteration's steps).                *)
CheckpointIsSynced ==
    [][disk' # disk /\ disk'.file = "whole" =>
         /\ disk'.st.current = trainer.version
         /\ disk'.st.rollout = disk'.st.training
         /\ engine = [stamp |-> trainer.version, weights |-> trainer.weights]]_vars

(* "a resumed run's state must already agree with it (fail loudly if       *)
(* not)": after resume_or_start() the state names the version the backends *)
(* were initialised to.  (controller.py:99-104)                            *)
ResumeAgrees == pc = "idle" => st.current = trainer.version

-----------------------------------------------------------------------------
(* The inductive invariants, part by part.  The first needs no careful     *)
(* caller.                                                                 *)

\* What the labels are to each other, whether or not they name the weights, and
\* what an iteration publishes: what the trainer holds.
LabelsFollow ==
    /\ engine.stamp <= trainer.version
    /\ pc \in {"register", "sync", "load"} => exported = trainer.weights
    /\ pc \in {"metrics", "save", "saving"} =>
          engine = [stamp |-> trainer.version, weights |-> trainer.weights]
    /\ pc \in {"down", "construct"} => trainer = FreshTrainer /\ engine = FreshEngine

\* The state is this process' own, or a resumed one whose version no backend has:
\* then nothing can be accepted, so nothing is ever trained.
OwnOrStuck ==
    \/ st.current = trainer.version
    \/ /\ st.current > 0
       /\ trainer = FreshTrainer
       /\ engine.stamp = 0
       /\ pc \in {"idle", "verify", "generate", "raised", "returned"}

Trained == {"export", "register", "sync", "load", "metrics", "save"}

StateRecorded ==
    /\ IterationsBacked
    /\ pc \in {"score", "train"} => st.current = trainer.version /\ st.rollout = st.current
    /\ pc \in Trained => st.iteration < st.current
    /\ pc \in Trained \cup {"saving"} =>
          st.current > 0 /\ st.rollout # None /\ st.rollout = st.training
    /\ disk.file = "whole" => disk.st.current > 0 /\ disk.st.rollout # None

(* What keeps the state and its file in step with the backends: only a     *)
(* process whose versions are its own ever gets past record_rollout(), and *)
(* what it saves was published before (the order of _run_one_iteration).   *)
StateFollows == LabelsFollow /\ OwnOrStuck /\ StateRecorded

\* A label names the weights it was given to, unless a failed publication left
\* the engine between two versions; then its stamp is an old one.
LabelsHold ==
    /\ \/ trainer.weights = trainer.version
       \/ pc = "raised" /\ trainer.weights = trainer.version + 1
    /\ engine.stamp = trainer.version => engine.weights = trainer.version

AcceptedIsOwn ==
    IF pc \in {"score", "train"}
    THEN batch # {} /\ \A k \in batch : k.weights = trainer.weights
    ELSE batch = {}

(* What makes the version check sufficient, for a careful caller: whenever *)
(* the state could accept a batch, the labels of the engine and of the     *)
(* trainer tell the truth about their weights (record_rollout,             *)
(* record_training).                                                       *)
VersionsTellWeights == StateFollows /\ LabelsHold /\ AcceptedIsOwn

\* What the registry needs to be known of: nothing in it is newer than the state's
\* version, and what is registered next is newer than what is in it, or in it.
RegistryBehind ==
    /\ \A v \in registry : v <= st.current
    /\ pc \in {"down", "construct"} => registry = {}
    /\ pc = "register" => st.current \in onDisk
    /\ pc \in {"score", "train"} => st.rollout = st.current

-----------------------------------------------------------------------------
(* The orchestrator implements the abstract loop. *)
Loop == INSTANCE PolicyLoop WITH
    learned <- trainer.weights,
    served <- engine.weights,
    batch <- {k.weights : k \in batch}

(* Every step of the orchestrator is a step of the policy loop or changes  *)
(* nothing in it (for a careful caller).                                   *)
ImplementsPolicyLoop == Loop!LoopSpec
=============================================================================
