# Formal models of quic_rl

TLA+ modules, model-checking configurations and machine-checked proofs for the
reinforcement-learning orchestrator in `src/quic_rl` and the program around it in
`src/examples/gpu_math_grpo.py`. Other paths below are relative to `src/quic_rl`.

## 1. The system

One **orchestrator** process runs a strictly sequential loop: generate
trajectories, check their policy version, score them, train, export the new
policy, publish it to the rollout machines, save a small state file. Around it
are processes on other machines that it starts over SSH (or over commands put
into the key-value store of a signaling server) and with which it exchanges
files, HTTP requests and QUIC transfers.

| component | source | state it keeps | operations |
|---|---|---|---|
| loop and resume | `orchestrator/controller.py`, `state.py`, `lifecycle.py`, `retry.py` | `OrchestratorState` with its `PolicyVersionState`; `orchestrator_state.json` | `initialize`, `resume_or_start`, `run`, `_run_one_iteration`, `record_*`, `save`, `load`, `retry_call` |
| policy registry | `synchronization/policy.py` | version to path map (in memory), export directories | `register` with `_prune` |
| trainer backends | `trainer/quic_train.py`, `quic_train_multi.py` | `_policy_version`, `_next_step`, `_next_export_id`; step, result, request, shard and done files in a `rollout_dir` per machine | `initialize_policy`, `train`, `export_policy`, `checkpoint`, `shutdown` |
| weight synchronizer | `synchronization/weights.py` | `v{N}/` directories on the rollout machine, logs of detached processes | `sync`, `_send`, `_cleanup_stale_policy_versions` |
| QUIC transfer | `synchronization/quic_transfer.py` | manifest, `.part` and final files | `send_directory`, `recv_directory` |
| key-value commands | `synchronization/kv_remote_exec.py`, counters in `rollout/ssh_launcher.py` and `weights.py` | command counter, store entries, the watcher's next id | `run_remote_command`, `watch_and_execute` |
| stage launchers, quic-vllm backend | `rollout/*_launcher.py`, `rollout/quic_vllm.py` | process handles, port forward, stamp, cached model name | `restart`, `load_policy`, `generate`, `health_check` |
| resident vLLM worker | `rollout/local_vllm.py`, `_local_vllm_worker.py` | request counter, worker process, request, result and policy files | `generate`, `load_policy`, `unload_policy` |
| worker pools | `workers/rollout_worker.py`, `reward_worker.py` | none between calls; threads within one | `collect_rollouts`, `score_trajectories` |
| reward, dataset | `reward/math_verifier.py`, `dataset/math_dataset.py` | the cursor over the examples, the counter that names prompts | `extract_*`, `normalize_answer`, `score`, `build_prompt_source` |
| example programs | `examples/gpu_math_grpo.py` and three others | best and last checkpoint on Drive, exports on the trainer's machine | `main`, `_upload_checkpoint_to_drive`, `_cleanup_remote_exports` |
| metrics, config, data types, mocks | the rest | hardly any | - |

**Interactions.** The loop calls backends through the protocols of
`trainer/base.py` and `rollout/base.py`. The trainer backend and its ranks share
a directory and poll it. The synchronizer launches a receiver and a sender that
outlive the call that started them. Every remote command may instead go through
a store in which the caller and a watcher each count ids.

**What is hard.** Labels (policy versions, stamps, step numbers, request ids,
command ids) stand for things on other machines, and every one of them can get
out of step with its thing: after an exception half way through an iteration,
after a timeout whose answer arrives later, after a restart with counters from
zero in a directory or store with old files. Detached processes overlap with
those of the next attempt. Ranks and watchers run at their own pace.

**What makes each component correct.**

- Loop: only on-policy batches reach the trainer, also across failed
  publications, repeated `run()` calls, crashes and resumes; the state file
  names a synced policy.
- Registry: what is pruned is never what is being published.
- Trainer handoff: results and exports belong to the call that returns them, an
  export is whole, a checkpoint is of one step; no step number is lost, and no
  rank waits for ever.
- Transfer: no file carries its final name before it is whole, and the stages
  only load whole versions; old versions go, the served one stays.
- Commands: results answer their own command, in order, and no command is lost.
- Stage launchers: once a publication is reported, what answers is the policy
  trajectories are stamped with, also after restarts that failed half way; no
  stage is launched beside one of an earlier restart or waits for one.
- Resident worker: completions belong to the prompts of the call that returns
  them, and the numbers of backend and worker agree.
- Worker pools: an accepted batch has every sample of every prompt, each with its
  own reward; fewer failures than attempts do not lose it.
- Reward: the last box wins; spellings agree exactly when the numbers do; a
  solution is correct by its own ground truth.
- Example program: Drive holds the best and the last policy of the program, and
  an upload that is cut off leaves the checkpoint before it.

## 2. Modules

| module | models | main correspondence |
|---|---|---|
| `PolicyLoop` | abstract specification: learner, served policy, batch | what `docs/ARCHITECTURE.md` ("Policy lifecycle") promises |
| `Orchestrator` | controller, version state, state file, registry, retry, with both backends as their protocols | `pc` is the statement `_run_one_iteration` is at; one action per call it makes; a call may raise; `Crash` at any point |
| `MCOrchestrator` | instance for TLC | |
| `OrchestratorProofs`, and below each `...Proofs` | theorems about the module in the name | sections 4 and 5 |
| `BatchPipeline` | prompt source, `collect_rollouts()` under `retry_call`, `score_trajectories()`, the grouping in `train()` | threads are futures that end in any order; a trajectory is its prompt and sample, a reward the trajectory it was computed from; a group is a function on the places of its rows in the batch |
| `MCBatchPipeline` | instance | |
| `BatchPipelineProofs` | theorems | |
| `MathAnswer` | `math_verifier.py` and the ground truths of `math_dataset.py` | pure functions on sequences of tokens; the state is a response that grows token by token |
| `MCMathAnswer` | instance: the alphabet | |
| `GpuMathGrpo` | `main()` of `gpu_math_grpo.py`, Drive, the exports on the trainer's machine | an iteration is one action (its steps are in `Orchestrator`), each command of an upload another |
| `MCGpuMathGrpo` | instance | |
| `GpuMathGrpoProofs` | theorems | |
| `TrainerHandoff` | both trainer backends and their ranks | `pc` is where `train()`/`export_policy()` is; one step per file that lands on one machine; `checkpoint()` may be called at any time and copies one rank per step while the ranks go on; ranks are external, and the first one, having exported, does nothing until the shards of all are there (`Merging`: `quic_train_multi.py:485-495`, `docs/ARCHITECTURE.md:203-205`) |
| `MCTrainerHandoff` | instance: which machine each rank runs on | `QuicTrainBackend` is the case of one machine |
| `TrainerHandoffProofs` | theorems | |
| `PolicyStore` | abstract specification: whole versions on disk, the version served | what `synchronization/weights.py:64-66` and `quic_transfer.py` promise |
| `WeightSync` | `sync()`, sender and receiver of every call, the disk of the rollout machine | a file is a path to an inode, an inode has chunks: two writers of one `.part` are two handles of one inode |
| `MCWeightSync` | instance: file sizes | |
| `WeightSyncProofs` | theorems | |
| `CommandQueue` | abstract specification: commands issued, awaited, their effects and answers | a command takes effect in order, perhaps more than once, and an answer is the command's own |
| `KvRemoteExec` | one caller, the store, one watcher per machine | calls carry a serial number so that a wrong answer shows |
| `MCKvRemoteExec` | instance | |
| `KvRemoteExecProofs` | theorems | |
| `StageLauncher` | `QuicVLLMRollout.load_policy()`, `restart()` and `_stop()` of the SSH and the local launcher, the stages | `pc` is where `load_policy()` is, `rank` where its loops over the machines are; `launcher` is chosen in `Init`; stages and the signaling server are external |
| `MCStageLauncher` | instance | |
| `StageLauncherProofs` | theorems | |
| `ResidentWorker` | `LocalVLLMRollout` and its worker process | one action per statement that touches the directory or `_next_n`; `dir` is `work_dir`; calls carry a serial number in place of prompts |
| `MCResidentWorker` | instance: one rollout thread | |
| `ResidentWorkerProofs` | theorems | |

Three detailed modules implement an abstract one, checked as a property of their
runs (`INSTANCE ... WITH` the mapping given): `Orchestrator` implements
`PolicyLoop`; `WeightSync` implements `PolicyStore`, where a version
is stored when all its files are whole under their final names; `KvRemoteExec`
implements `CommandQueue`, in which ids, store and watchers do not exist. All
three are proved as well.

`Orchestrator` composes with the others by abstraction: its `Train`,
`ExportPolicy`, `Sync`, `LoadPolicy` and `Generate` are single steps that
succeed, raise without effect, or raise after an effect. `TrainerHandoff`,
`WeightSync`, `StageLauncher` and `ResidentWorker` describe what happens inside
those steps and show which of the effects are possible: a `train()` that raises
after its ranks stepped, a `sync()` that raises after the stages were restarted, a
`load_policy()` that raises after the old stages were killed. `KvRemoteExec` is
inside the commands `StageLauncher` and `WeightSync` take as one step.
`BatchPipeline` is the inside of `Generate` and `Score`: its "raised" is their
exception. `GpuMathGrpo` is outside: its `Iterate` is one iteration of
`Orchestrator`, its `StaleState` the resumed state that can accept no batch.

**A caller that is careful.** `train()` may always raise after its update. When
`CarefulCaller` is TRUE, `run()` is not called again on a controller whose trainer
lost an update in this way (a new process is started instead); the code does not
enforce it.

**Weights as numbers.** In `Orchestrator` weights are the number of updates
applied; in `TrainerHandoff` the sequence of groups learned; in `WeightSync` good
or bad chunks. Trajectories are kinds: a stamp and the weights that sampled them.

**Faults** are explicit nondeterminism with a bound in each module
(`MaxFaults`, `MaxDeaths`, `MaxRestarts`).

**Text as tokens.** In `MathAnswer` a token is a character, or one of the markers
`boxed{` and `####`, which the code looks for as a whole. The operators were
compared, by evaluation, with the functions of `math_verifier.py` on some 30,000
texts (all short ones, and longer ones drawn at random) without a difference.

## 3. Runs

Passing runs:

| run | bounds | shows |
|---|---|---|
| `orchestrator` | 4 iterations, 3 attempts, keep 2, 4 faults, crashes | `OnPolicy`, `ExportsKept`, `IterationsBacked`, `CheckpointIsSynced`, refinement of `PolicyLoop`; `VersionsTellWeights`, the inductive invariant of the proofs |
| `batch_pipeline` | 2 batches of 3 prompts with 2 samples, 2 rollout and 4 reward threads, 3 attempts, 3 faults | `BatchAgrees` (the inductive invariant), `SamplesComplete`, `RewardsAreOwn`, `BatchCollected` |
| `math_answer` | every text of up to 5 of 13 tokens | `LastBoxWins`, `SpellingsAgree`, `SolutionIsCorrect` |
| `gpu_driver` | 2 programs of 3 iterations, every 2nd one and the final one due as "last", 3 values of the reward, 3 faults | `UploadAgrees` (the inductive invariant), `UploadKeepsCheckpoint`, `DriveHoldsBestAndLast` |
| `trainer_handoff` | 2 ranks on 2 machines, 2 batches of 2 groups, 2 exports, 1 fault besides timeouts, 1 restart on a new directory | `HandoffAgrees` (the inductive invariant), `ResultsAreOwn`, `LearnedInOrder`, `FilesAreWhole`, `LearnsEveryStep`, `CallsReturn` |
| `weight_sync` | files of 3, 0 and 2 bytes with chunks of 2, 2 versions, 2 attempts, 2 faults, remote sender | `SyncAgrees` (the inductive invariant, `LoadedIsWhole` in it), `FinalIsWhole`, `OldVersionsGo`, `SyncEnds`, refinement of `PolicyStore` |
| `kv_remote_exec` | 1 machine, 4 calls, 2 deaths of the watcher, 1 redeployment | `IdsAgree` (the inductive invariant), `CommandsRun`, refinement of `CommandQueue` |
| `stage_launcher` | 2 stages, either launcher, 2 policies, 3 publications, 2 faults, 1 program that ends anywhere | `RestartAgrees` (the inductive invariant), `LabelsTellServed`, `PredecessorsKilled`, `BecomesHealthy` |
| `resident_worker` | 1 thread, 4 calls, 3 versions, 1 death of a worker, 1 program that ends | `WorkerAgrees` (the inductive invariant), `AnswersAreOwn`, `WorkerKnowsPolicy`, `OneWorker`, `RequestsAnswered` |

Runs that end in a violation, each a disagreement between the code and what the
repository says of it:

| run | property | what happens |
|---|---|---|
| `orchestrator_resume` | `ResumeAgrees` | `resume_or_start()` says it fails loudly when the resumed version is not the one the backends were initialised to; it does not check |
| `kv_shared_counter` | `CommandsRun` | two machines on the key-value channel share one counter; the second watcher waits for an id that never comes |
| `weight_sync_overlap` | `LoadedIsWhole` | the processes of a timed-out attempt and of its retry write the same `.part` file; the stages load a truncated file |

The switch `Overlap` separates the passing run from the violating one: under the
condition under which the code is right, the property holds, and the finding is
that nothing in the code ensures the condition. Further constants have a
passing run for the condition only; changing one in its `.cfg` shows what happens
without it:

| switch | value in the passing run | with the other value |
|---|---|---|
| `CarefulCaller` (`Orchestrator`) | TRUE | `OnPolicy` fails: `train()` times out after its ranks stepped, `run()` is called again, the version no longer names the weights and the next batch is off-policy |
| `CarefulStart` (`KvRemoteExec`) | TRUE | the refinement of `CommandQueue` fails: a watcher started again with the default `--start-id` 0 (`synchronization/kv_remote_exec.py:96`) runs every command of the store again, old kills after later launches |
| `FreshStateDir` (`TrainerHandoff`) | TRUE | `ResultsAreOwn` fails: a program started again on the same `state_dir` counts its steps from 1 and takes the result files of the program before for its own, against `trainer/quic_train.py:8-9` |
| `MaxWrongChunks` (`BatchPipeline`) | 1 | with 2, `RewardsAreOwn` fails: a backend that returns one score too many for a chunk and one too few for another passes the check of `reward_worker.py:55-59`, which compares the length of the whole list only |
| `Threads` (`ResidentWorker`) | one thread | with two, `AnswersAreOwn` and `OneWorker` fail: `_next_n` is read and incremented without a lock, and both threads may start a worker. `num_workers` is 1 by default |
| `Orphans` (`ResidentWorker`) | FALSE | `AnswersAreOwn` and `OneWorker` fail: the worker of a program that did not call `unload_policy()` writes into the directory of the next one |
| `Orphans` (`StageLauncher`) | FALSE | `LabelsTellServed` and `PredecessorsKilled` fail for `LocalTcpStageLauncher`: stages of an ended program have no handles and answer `/health` for the new ones. The SSH launcher, which kills by command line, is not affected: its programs end anywhere in the passing run too |

Properties that say exactly what is not promised:

- `FilesAreWhole` does not say that the files of a checkpoint are of one step. `train()`
  returns on the last rank's result, while the ranks before it may have their last update to make;
  until an export has returned (`settled` in `saved`) the others' files may be one update
  behind the last rank's, and `checkpoint()` copies them without comparing. "Full resumable
  TRAINING state (model, optimizer, RNG, step)" (`trainer/base.py:55`) and files for "exact
  resume" (`quic_train_multi.py:572`) therefore need an export in between. Without
  `~saved.settled` in the property, that is with files alike after every `train()` that
  returned, TLC finds it violated in a run of one batch without any fault: the first rank's file
  is copied before its last update, the last rank's after its own. The property takes each rank's newest
  file to be the one of its last update: files that an earlier program left in a
  `state_dir` that is used again are not modelled.
- `LearnsEveryStep` and `CallsReturn` hold up to the state `Stranded`: an export raised (by its
  deadline, or because a request or a shard could not be copied) before all its shards
  were carried to the first machine. No later call carries them, so the first rank, which waits
  for them without an end, reads no further step, and every later `train()` and
  `export_policy()` of the program ends by its deadline only. Without this exception TLC finds
  both violated. That the wait has no end of its own is an assumption about the
  rank script, which is not in this repository.
- `LearnsEveryStep` also speaks only of the steps before the first one whose file could not be
  copied to every machine: no rank gets past that one.
- `UploadKeepsCheckpoint` names the one step that takes the last whole checkpoint of
  a label from Drive. Within one program no failure does; but a program whose
  `moveto` fails has purged the final folder and leaves the only copy in the
  staging folder, and the first thing the next program's upload does is purge
  that. "A failed/partial upload never destroys the still-good previous version"
  (`gpu_math_grpo.py:105-106`) therefore does not extend to a restart. The
  property is also conditional on purges that fail being noticed, which
  `2>/dev/null` prevents; files that stay can then make a move fail half way.
- `DriveHoldsBestAndLast` speaks of the checkpoint of the iteration with the highest
  reward. That reward is the one of the batch the update was made from, sampled
  from the policy before it.
- `SolutionIsCorrect` leaves out normalised answers that begin or end with `$` or a
  line end. There normalisation is not idempotent (`\boxed{0\n,}`), the ground truth is
  normalised twice and the answer once, although `dataset/math_dataset.py:8-12`
  says that no second pass can diverge.
- `CheckpointIsSynced` and `IterationsBacked` speak of whole state files. A crash
  inside `save()` leaves a torn one, on which this and every later process ends in
  `Construct`: `docs/ARCHITECTURE.md:237-239` ("restarting it picks up from the last
  completed iteration") does not hold there.

**Why the bounds are enough.** Four iterations with `KeepLast = 2` prune
repeatedly and let a version be re-published after an abandoned iteration; four
faults with three attempts exhaust one retry loop and leave a fault for another
place, or hit four places. Two batches of two groups give a rejected or failed
second group followed by another batch; two exports give a late answer to the
first, or a first one that fails half way and strands the first rank, followed by a second. The file sizes cover a full and a short last chunk, an empty file and an exact
multiple; two versions give cleanup something to remove and two attempts a
process left from before. Two deaths let a watcher die both before and after
the command it was running took effect. Three publications with two faults allow
a restart that fails in the middle, one that fails while it cleans up after it,
and one that succeeds on what both left; two stages are the fewest of which one can be
old and the other new. Four calls of `generate()` allow one given up before its
request is read, one given up before its result is written, one with the worker
dead and one after that under numbers that start again. Three prompts on two
threads give parts of different size, and six or more trajectories on four
threads a chunk that is short; three faults lose one batch after three attempts
and leave the next one, or fail both once; six trajectories and one too many
(which passes) shift the chunks. Two batches let a backend answer with a prompt
of the batch before. Five tokens hold a box with a numeral or braces in it and
something after it, a marker with an answer, a line end and another, and numerals
with a comma, sign, point and zeros. Three faults in two programs allow an upload
cut off in the first, and one cut off and a purge that fails in the second.
Theorems remove the
bounds for the safety properties of every module but `MathAnswer`.

**Fairness.** `BatchPipeline`: weak fairness of the controller's next step and of
each thread (every call of a backend has a time limit). `TrainerHandoff`:
weak fairness of the backend's own steps and of each rank (polling loops), merging included;
nothing about timeouts, `train()` being called, or shutdown. `WeightSync`: weak
fairness of the call, of each transfer, and of a process noticing that its peer
is gone (the process group's timeout). `KvRemoteExec`: weak fairness of each
watcher, including that a dead one is started again, as the deployment notes ask
for. `StageLauncher`: weak fairness of each machine's stages of each restart
and of noticing a healthy driver. `ResidentWorker`: weak fairness of each thread and
of each worker's polling loop. Results arriving before a timeout are never
assumed, and no wait is ended by its deadline in the properties of the last
two: what only a deadline ends counts as unanswered.

**Deadlock** is checked in every run; `Finished`, `NoMoreLaunches` and `Ends` stutter
where the bound of the environment is reached.

## 4. Inductive invariants

No safety property above is inductive as it stands. Each module states the
invariant that is, at its end, part by part (in `Orchestrator`: with its
properties); its run checks it, which includes the module's `TypeOK`, and the
proofs use the same formula.

**`Orchestrator`: `VersionsTellWeights`.** The check in `record_rollout()` compares
labels, so what matters is when labels tell the truth:

- `StateFollows` holds for any caller, and is an invariant of its own:
  - `LabelsFollow`: the engine's stamp is at most the trainer's version, and an
    iteration exports and publishes what the trainer holds.
  - `OwnOrStuck`: the state's version is the trainer's, or the state was resumed
    onto fresh backends and its version is one that no backend has. That second
    case is the state the `orchestrator_resume` run reaches; it can never accept a
    batch, which is why training stays safe although the resume check is missing.
  - `StateRecorded`: iterations never exceed versions, in memory and on disk, and
    what is saved was trained and sampled from in the same process.
- `LabelsHold`: the trainer's version is its weights, and when the engine has the
  stamp of that version it serves those weights. (After a failed
  publication the engine may already serve newer weights under the old stamp -
  then the stamp is lower than the current version and nothing is accepted.)
- `AcceptedIsOwn`: an accepted batch was sampled from the trainer's weights.

The last two need `CarefulCaller`: `LabelsHold` allows a trainer that lost its last
result only in a process that has left `run()`, and a caller that goes on in that state
reaches an accepted batch that is off-policy.

**`KvRemoteExec`: `IdsAgree`.** An id stands for one command of this deployment, on one
machine (`CommandsNumbered`); a watcher, up or down, holds the command of its id
(`WatcherHolds`), a result is that of the command under its id (`ResultsAnswer`), and so a call
returns its own (`AnswersAreOwn`). This much, `IdsName`, does not depend on where a watcher
starts. With a careful start a watcher also stands one past the results it posted
(`WatcherFollows`), and what has run on a
machine was issued there, and no later than the id its watcher is at
(`EffectsKnown`). The last part is what makes effects come in order although a
watcher that dies after running a command runs it again.

**`TrainerHandoff`: `HandoffAgrees`.** A step file, once written, is alike on all
machines and of a later group than those with smaller numbers
(`StepFilesInOrder`), and while a batch is trained no file is as late as the group
it is at (`OwnSteps`); hence a step number whose file was only half copied can be given
up and the next one used. `RanksFollow` and `Pipelined` say what ranks have
learned: the files they passed, at most one update apart. `ReturnedIsDone` and
`ExportsAreCurrent` say why an export that follows a batch that returned needs no
barrier of its own: all ranks are at the step to come, and what bears the number of the
export was made for it. `CheckpointFollows` says the same of a checkpoint that began after such a batch:
while it is copied no step is handed over, so the last rank stays where it is, and each copy is
its weights or those one update before.

**`WeightSync`: `SyncAgrees`.** `CallsFit` and `JobsFit` hold whatever overlaps: calls
are numbered within the bounds, and a call that was not made has no processes.
Without overlap, only the processes of the last call run, and the call goes on
only after ack and return (`TransfersFit`); an open file is the `.part` of its
path and holds exactly the chunks received (`HandlesFit`, `Written`: also for empty
files and short last chunks); a `.part` shares its inode with no other name
(`InodesOnce`), so that truncating it cannot touch a final file (with overlap two receivers
have the same `.part` open, and what one gives its final name the other still writes,
against `HandlesFit`); a file the receiver is through with has its final name
(`Arrived`). `LoadedIsWhole` and the refinement follow from these. `CalmAgrees` says the same
of a system that need not wait, as long as nothing has failed (`NothingFailed`): a call that has
returned left no process running, so that it takes a failure for calls to overlap.

**`StageLauncher`: `RestartAgrees`.** While `_stop()` runs, the machines it has been to
have only stages that were killed; after it, none but the new run's stages live, with
its policy; stamp and model name follow one after the other.

**`ResidentWorker`: `WorkerAgrees`.** Every call that has yet to count its number finds one
(`NumbersSuffice`, which holds for any number of threads: each call counts once, and a new worker
only sets the count back); no file and no worker knows the number that the
next request gets (`NumbersAgree`); the version the backend believes loaded is at most what
the worker was told, which is at most the policy file's, which is at most the policy in use
(`VersionsAgree`); the worker started last is the only one (`LastIsOnly`).

**`BatchPipeline`: `BatchAgrees`.** A pool exists only while it is waited for and has one
thread for each part or chunk of this very batch and attempt, and what a thread that is done
shows is what its own part or chunk was asked for, or one mistake away from it
(`JoiningFits`, `ScoringFits`); the prompts are the ones drawn last (`PromptsAreNew`), and
what the two checks of `collect_rollouts()` let through is what is scored (`Accepted`). That
the batch is complete does not follow from the checks alone, which only look for foreign
prompts and count: it takes `JoiningFits` at the moment of the check as well.

**`GpuMathGrpo`: `UploadAgrees`.** Drive has what is due for every label that is not
waiting for its turn, and each command of an upload finds the folders as the one before
left them, unless a purge failed unnoticed.

## 5. Theorems

All are checked by TLAPS, for all values of the constants that satisfy the
assumption of the module, where any number of processes, calls, faults, restarts, ranks, files
and so on is allowed. The assumptions say no more than what values are
meaningful; `WeightSyncAssumption` also says that an exported policy has files
(`save_pretrained()` writes some; with none, every version would be whole from the start).

| module | theorem | under | states |
|---|---|---|---|
| `Orchestrator` | `TypeCorrect` | - | `TypeOK` |
| | `ExportsKeptCorrect` | - | `ExportsKept` |
| | `StateCorrect`, `IterationsBackedCorrect` | - | `StateFollows`, `IterationsBacked` |
| | `CheckpointIsSyncedCorrect` | - | `CheckpointIsSynced`, an action property |
| | `VersionsCorrect`, `OnPolicyCorrect` | `CarefulCaller` | `VersionsTellWeights`, `OnPolicy` |
| | `ImplementsPolicyLoopCorrect` | `CarefulCaller` | the refinement of `PolicyLoop` |
| `KvRemoteExec` | `AnswersCorrect` | - | `IdsName` |
| | `IdsCorrect` | `CarefulStart` | `IdsAgree` |
| | `ImplementsCommandQueueCorrect` | `CarefulStart` | the refinement of `CommandQueue` |
| `TrainerHandoff` | `TypesCorrect` | - | `TypeOK`, `CountersFit` |
| | `HandoffCorrect`, `ResultsCorrect`, `OrderCorrect`, `FilesCorrect` | `FreshStateDir` | `HandoffAgrees`, `ResultsAreOwn`, `LearnedInOrder`, `FilesAreWhole` |
| `WeightSync` | `TypesCorrect` | - | `TypeOK` |
| | `CalmCorrect`, `OldVersionsCorrect` | - | `CalmAgrees`, `OldVersionsGo` |
| | `SyncCorrect`, `FinalCorrect`, `LoadedCorrect` | `~Overlap` | `SyncAgrees`, `FinalIsWhole`, `LoadedIsWhole` |
| | `ImplementsPolicyStoreCorrect` | `~Overlap` | the refinement of `PolicyStore` |
| `StageLauncher` | `TypesCorrect` | - | `TypeOK`, `RunsFit` |
| | `RestartCorrect`, `PredecessorsCorrect`, `LabelsCorrect` | `HandlesKept` | `RestartAgrees`, `PredecessorsKilled`, `LabelsTellServed` |
| `ResidentWorker` | `TypesCorrect` | - | `TypeOK`, `NumbersSuffice`, `WorkersFit` |
| | `WorkerCorrect`, `AnswersCorrect`, `PolicyCorrect`, `OneWorkerCorrect` | `OneThread`, `~Orphans` | `WorkerAgrees`, `AnswersAreOwn`, `WorkerKnowsPolicy`, `OneWorker` |
| `BatchPipeline` | `TypesCorrect` | - | `TypeOK` |
| | `BatchCorrect`, `SamplesCorrect` | - | `BatchAgrees`, `SamplesComplete` |
| | `RewardsCorrect` | `MaxWrongChunks <= 1` | `RewardsAreOwn` |
| `GpuMathGrpo` | `TypesCorrect` | - | `TypeOK` |
| | `UploadCorrect`, `DriveCorrect` | - | `UploadAgrees`, `DriveHoldsBestAndLast` |
| | `UploadKeepsCorrect` | - | `UploadKeepsCheckpoint`, an action property |

The hypotheses are the conditions of section 3 under which the code is right;
each is the value of a constant, or, for `OneThread` and `HandlesKept`, a condition on
constants, that the passing run has: `num_workers` is 1 by default, and handles are lost
only by a program that is killed while `LocalTcpStageLauncher` has stages. `CarefulStart`
is up to whoever starts a watcher again: `--start-id` has to be given. What is listed under "-" needs none
of them and limits the damage where they do not hold. A careless caller may train off-policy,
but the state it saves is still one that was synced and that its updates back; a watcher started
again at id 0 runs old commands, but a call still returns the result of its own; calls of `sync()`
only overlap after a failure; threads without a lock mix up answers, but never run out of numbers.

**How the proofs go.** Types first, with the few relations between counters that
typing needs (`CallsFit`, `CountersFit`, `RunsFit`, `NumbersSuffice`); then one lemma per action on what it does
to the parts of the state the invariant speaks of (`OpensEffect`, `ReplacesEffect` and so on in
`WeightSyncProofs`); then one lemma per part of the invariant, with a step per action that can
disturb it; then the properties, from the invariant. The refinements take the invariant
before and after a step: in `WeightSync` a step makes a version appear only when
`os.replace()` gives the last of its files its name (`ReplaceArrives`), and cleanup keeps the one
that is served (`CleanupCleans`); in `KvRemoteExec` a command that runs is the latest that ran
on its machine, or runs again (`RunPerforms`). Conditions are used as late as they can be: the step
lemmas of `WeightSyncProofs` assume of a new call only that it finds no process of the one before
(`CallWaits`), which follows from `~Overlap`, or from `NothingFailed` (`CalmCorrect`).

`BatchPipelineProofs` reasons about data, and the library's induction theorems take an operator
as a parameter, which the provers cannot instantiate. Its inductions are over sets instead: a
set of naturals has a least element (`LeastExists`), so what holds of 1 and climbs holds up to
N (`Climb`), and the recursive function behind `FlattenSeq` yields `Laid` pieces, one after the
other (`FlattenIs`). Round-robin parts cover the batch and do not meet (`PartsCover`,
`PartsAreDisjoint`); chunks are contiguous and no more than there are workers (`ChunksAre`).
`SamplesCorrect` then needs a count: a thread that loses a sample leaves the prompt of that
sample one row short (`Short`), unless another thread named that prompt by mistake; but then
that thread has left a prompt of its own short, which nobody named (`ChecksSee`). `RewardsCorrect` shows that a list of rewards
of the right length without a gap has every chunk's scores in place when at most one chunk was
wrong (`RewardsAreScores`); with two the theorem is false, as section 3 says.

**Only model-checked:**

- every liveness property (`BatchCollected`, `LearnsEveryStep`, `CallsReturn`, `SyncEnds`,
  `CommandsRun`, `BecomesHealthy`, `RequestsAnswered`): fairness and `ENABLED` are outside the
  prover's reach;
- `MathAnswer`: its functions recurse over the text, several of them into each other, and the
  properties compare what they return. Every text of up to five tokens is checked instead.

## 6. Not modelled

- The port forward of the SSH launcher, which is opened and closed with the
  stages, and the HTTP requests of `generate()`.
- That a run returns when faults are fewer than attempts: `BatchCollected` says so
  of the batch; the rest of an iteration has one retried call more, `sync()`, with
  the same `retry_call`.
- The other example programs: they call `Controller.run()` on fixed backends.
- A remote `rclone` that lives on after its SSH command timed out, beside the next
  program's; ranks left running when an example program ends by an exception
  (`trainer.shutdown()` is not in its `finally`).
- The manifest exchange of a transfer is part of connecting. Transient SSH errors
  absorbed by `_retry_transient()` have no effect and are left out; exhausted
  retries are the faults.
- The rank script, the QUIC process group, the key-value store and vLLM are
  other repositories; they are modelled from how this code uses them.
- The data: token ids, losses, metrics, the loading and interleaving of data
  sets, YAML.
- `config/schema.py` and the data types: values and records without behaviour.
- Job ids and run suffixes that repeat within one second.
- Ranks that outlive a crashed orchestrator.

## 7. Plan

Modelled in order of importance: the loop (`PolicyLoop`, `Orchestrator` and its
proofs), what its steps stand for (`TrainerHandoff`, `WeightSync`, `KvRemoteExec`,
`StageLauncher`, `ResidentWorker`, `BatchPipeline`, `MathAnswer`), and the program
around it (`GpuMathGrpo`); then the proofs of all of them but `MathAnswer`; then what holds
without the conditions of section 3. What is left, in this order:

1. `WeightSync` with a `.part` name per call, a repair of the code under which `SyncAgrees`
   should not need `~Overlap`.
2. `ResidentWorker` with a lock around `_ensure_started()` and `_next_n`, likewise for
   `OneThread`.
