----------------------------- MODULE GpuMathGrpo -----------------------------
(***************************************************************************)
(* The program around the loop (examples/gpu_math_grpo.py): bootstrap of   *)
(* the rollout server, main()'s own iterations, the upload of the "best"   *)
(* and the "last" checkpoint to Drive through a staging folder, the        *)
(* cleanup of exports on the trainer's machine, and programs that raise,   *)
(* are killed and are started again on the same Drive folder.  An          *)
(* iteration is one action here; module Orchestrator has its steps.        *)
(* rclone, ssh and Drive are external.                                     *)
(***************************************************************************)
EXTENDS Integers, Sequences, FiniteSets, Functions, FiniteSetsExt

CONSTANTS
    MaxIterations,        \* max_iterations
    CheckpointInterval,   \* checkpoint_interval
    RewardMeans,          \* the values of reward_mean
    MaxLaunches,          \* bound: programs started
    MaxFaults             \* bound: calls that fail and programs that are killed

ASSUME DriverAssumption ==
    /\ MaxIterations \in Nat \ {0}
    /\ CheckpointInterval \in Nat \ {0}
    /\ RewardMeans \subseteq Nat /\ RewardMeans # {}
    /\ MaxLaunches \in Nat
    /\ MaxFaults \in Nat

VARIABLES
    pc,         \* where main() is
    launch,     \* the number of the program
    server,     \* the rollout server on the GPU machine
    rewards,    \* reward_mean of this program's iterations
    best,       \* best_reward_mean
    todo,       \* the labels this iteration still has to upload
    drive,      \* what Drive holds under <label>_staging and <label>
    unnoticed,  \* a purge of this program failed, and 2>/dev/null hid it
    saved,      \* the version in the state file
    exports,    \* the version folders below exports_root: which program wrote them
    faults

vars == <<pc, launch, server, rewards, best, todo, drive, unnoticed, saved, exports, faults>>
process == <<rewards, best, todo, unnoticed>>
disks == <<drive, saved, exports>>

Labels == {"last", "best"}
Folders == {"staging", "final"} \X Labels
Versions == 1 .. MaxIterations
Done == Len(rewards)
MinusInfinity == -1

\* A folder on Drive: the checkpoint (a program and a version) whose files it
\* has all of, no files at all, or some files.
Whole == (1 .. MaxLaunches) \X Versions
Nothing == <<0, 0>>
Partial == <<0, 1>>

ProgramTyped ==
    /\ pc \in {"down", "bootstrap", "polling", "loop", "purgeStaging", "copy", "purgeFinal", "move", "cleanup"}
    /\ launch \in 0 .. MaxLaunches
    /\ server \in {"down", "starting", "healthy"}
    /\ rewards \in Seq(RewardMeans) /\ Done <= MaxIterations
    /\ todo \in {<< >>, <<"last">>, <<"best">>, <<"last", "best">>}
    /\ unnoticed \in BOOLEAN
    /\ faults \in 0 .. MaxFaults

DisksTyped ==
    /\ drive \in [Folders -> Whole \cup {Nothing, Partial}]
    /\ saved \in 0 .. MaxIterations
    /\ DOMAIN exports \subseteq Versions /\ Range(exports) \subseteq 1 .. MaxLaunches

TypeOK == ProgramTyped /\ DisksTyped /\ best = Max({MinusInfinity} \cup Range(rewards))

Init ==
    /\ pc = "down" /\ launch = 0
    /\ server = "down"
    /\ rewards = << >> /\ best = MinusInfinity /\ todo = << >> /\ unnoticed = FALSE
    /\ drive = [f \in Folders |-> Nothing]
    /\ saved = 0 /\ exports = << >>
    /\ faults = 0

Fault ==
    /\ faults < MaxFaults
    /\ faults' = faults + 1

-----------------------------------------------------------------------------
(* Start *)

\* main() starts; the state directory is the one of the program before, or its
\* state file was removed.
Launch ==
    /\ pc = "down"
    /\ launch < MaxLaunches
    /\ launch' = launch + 1
    /\ pc' = "bootstrap"
    /\ rewards' = << >> /\ best' = MinusInfinity /\ todo' = << >> /\ unnoticed' = FALSE
    /\ saved' \in {saved, 0}
    /\ UNCHANGED <<server, drive, exports, faults>>

\* The base model is downloaded as v0 and the server started on it, in place of
\* one that a killed program left.
Bootstrap ==
    /\ pc = "bootstrap"
    /\ server' = "starting"
    /\ pc' = "polling"
    /\ UNCHANGED <<launch, process, disks, faults>>

BecomesHealthy ==
    /\ server = "starting"
    /\ server' = "healthy"
    /\ UNCHANGED <<pc, launch, process, disks, faults>>

\* health_check() answers; lifecycle.initialize(); resume_or_start().
Polled ==
    /\ pc = "polling"
    /\ server = "healthy"
    /\ pc' = "loop"
    /\ UNCHANGED <<launch, server, process, disks, faults>>

-----------------------------------------------------------------------------
(* Iterations *)

ComparesWithPrevious(mean) == Done = 0 \/ mean > rewards[Done]
IsBest(mean) == mean > best
IsLast(n) == n % CheckpointInterval = 0 \/ n = MaxIterations

TakesEvery(mean) == mean
NewBest(mean) == IF IsBest(mean) THEN mean ELSE best

Uploads(mean) ==
    (IF IsLast(Done + 1) THEN <<"last">> ELSE << >>) \o (IF IsBest(mean) THEN <<"best">> ELSE << >>)

\* The export of the next version, in place of one that an earlier program wrote.
Exported == [v \in DOMAIN exports \cup {Done + 1} |-> IF v = Done + 1 THEN launch ELSE exports[v]]

\* _run_one_iteration() succeeds: the backends of this program have version Done,
\* and a state of another version makes record_rollout() raise.
CanIterate ==
    /\ pc = "loop"
    /\ Done < MaxIterations
    /\ saved = Done

Iterate(mean) ==
    /\ CanIterate
    /\ saved' = Done + 1
    /\ exports' = Exported
    /\ rewards' = Append(rewards, mean)
    /\ best' = NewBest(mean)
    /\ todo' = Uploads(mean)
    /\ pc' = IF Uploads(mean) = << >> THEN "cleanup" ELSE "purgeStaging"
    /\ UNCHANGED <<launch, server, drive, unnoticed, faults>>

\* A resumed state that the backends do not have: every first iteration raises.
StaleState ==
    /\ pc = "loop"
    /\ Done < MaxIterations /\ saved # Done
    /\ pc' = "down" /\ server' = "down"
    /\ UNCHANGED <<launch, process, disks, faults>>

-----------------------------------------------------------------------------
(* _upload_checkpoint_to_drive() *)

Label == Head(todo)
Staging == <<"staging", Label>>
Final == <<"final", Label>>

PurgesFinalFirst == <<"final", Label>>
Purged == IF pc = "purgeStaging" THEN Staging ELSE Final

PurgedInPart == [drive EXCEPT ![Purged] = IF @ = Nothing THEN Nothing ELSE Partial]

\* rclone purge.  When it fails, nobody notices, and files stay.
Purge ==
    /\ pc \in {"purgeStaging", "purgeFinal"}
    /\ pc' = IF pc = "purgeStaging" THEN "copy" ELSE "move"
    /\ \/ /\ drive' = [drive EXCEPT ![Purged] = Nothing]
          /\ UNCHANGED <<unnoticed, faults>>
       \/ /\ Fault
          /\ drive' \in {drive, PurgedInPart}
          /\ unnoticed' = (unnoticed \/ drive[Purged] # Nothing)
    /\ UNCHANGED <<launch, server, rewards, best, todo, saved, exports>>

\* rclone copy of latest_export_dir; files of the same names are replaced.
Copy ==
    /\ pc = "copy"
    /\ Done \in DOMAIN exports
    /\ drive' = [drive EXCEPT ![Staging] = <<exports[Done], Done>>]
    /\ pc' = "purgeFinal"
    /\ UNCHANGED <<launch, server, process, saved, exports, faults>>

StopsAfterOne ==
    /\ todo' = Tail(todo)
    /\ pc' = "cleanup"

\* The next label, or the cleanup.
AfterUpload ==
    /\ todo' = Tail(todo)
    /\ pc' = IF Tail(todo) = << >> THEN "cleanup" ELSE "purgeStaging"

\* rclone moveto.
Move ==
    /\ pc = "move"
    /\ drive' = [drive EXCEPT ![Final] = drive[Staging], ![Staging] = Nothing]
    /\ AfterUpload
    /\ UNCHANGED <<launch, server, rewards, best, unnoticed, saved, exports, faults>>

-----------------------------------------------------------------------------
(* Cleanup and end *)

\* _cleanup_remote_exports(keep_latest=1): the highest number stays, be it a
\* leftover of an earlier program.  Commands that fail are passed over.
Latest == {v \in DOMAIN exports : \A w \in DOMAIN exports : w <= v}

Cleanup ==
    /\ pc = "cleanup"
    /\ pc' = "loop"
    /\ \/ exports' = Restrict(exports, Latest) /\ UNCHANGED faults
       \/ Fault /\ \E kept \in SUBSET DOMAIN exports : Latest \subseteq kept /\ exports' = Restrict(exports, kept)
    /\ UNCHANGED <<launch, server, process, drive, saved>>

\* lifecycle.shutdown(), trainer.shutdown(), real_stage_launcher.shutdown().
Finish ==
    /\ pc = "loop"
    /\ Done = MaxIterations
    /\ pc' = "down" /\ server' = "down"
    /\ UNCHANGED <<launch, process, disks, faults>>

\* What a call that is cut off may leave on Drive.  A folder moves at once to a
\* name that is free, and file by file into one that is there.
Midway ==
    CASE pc \in {"purgeStaging", "purgeFinal"} -> {PurgedInPart}
      [] pc = "copy" -> {[drive EXCEPT ![Staging] = Partial]}
      [] pc = "move" /\ drive[Final] # Nothing -> {[drive EXCEPT ![Final] = Partial, ![Staging] = Partial]}
      [] OTHER -> {}

\* A call raises (its exit status, a time limit, the deadline of the polling, an
\* iteration) and main() leaves through its finally, which stops the server; or
\* the program is killed, and nothing does.
Interrupted ==
    /\ pc # "down"
    /\ Fault
    /\ pc' = "down"
    /\ server' \in {"down", server}
    /\ drive' \in {drive} \cup Midway
    /\ exports' \in {exports} \cup (IF CanIterate THEN {Exported} ELSE {})
    /\ UNCHANGED <<launch, process, saved>>

NoMoreLaunches == pc = "down" /\ launch = MaxLaunches /\ UNCHANGED vars

Next ==
    \/ Launch \/ Bootstrap \/ BecomesHealthy \/ Polled
    \/ (\E mean \in RewardMeans : Iterate(mean)) \/ StaleState
    \/ Purge \/ Copy \/ Move
    \/ Cleanup \/ Finish \/ Interrupted
    \/ NoMoreLaunches

Spec == Init /\ [][Next]_vars

-----------------------------------------------------------------------------
HasWhole(label) == drive[<<"final", label>>] \in Whole \/ drive[<<"staging", label>>] \in Whole

(* Only one step takes the last whole checkpoint of a label from Drive:    *)
(* the purge of a staging folder, when an earlier program left the only    *)
(* copy there.  Within a program "a failed/partial upload never destroys   *)
(* the still-good previous version" (gpu_math_grpo.py:105-106), wherever   *)
(* it fails, unless a purge failed unnoticed before.                       *)
UploadKeepsCheckpoint ==
    [][\A label \in Labels :
         (HasWhole(label) /\ ~HasWhole(label)' /\ ~unnoticed')
            => pc = "purgeStaging" /\ drive[<<"final", label>>] \notin Whole]_vars

IsFirstOfHighest(means, n) ==
    /\ n \in DOMAIN means
    /\ \A m \in DOMAIN means : means[m] <= means[n]
    /\ \A m \in 1 .. n - 1 : means[m] < means[n]

FirstOfHighest(means) == CHOOSE n \in DOMAIN means : IsFirstOfHighest(means, n)

NewestDue(n) == n \in 1 .. Done /\ IsLast(n) /\ \A m \in n + 1 .. Done : ~ IsLast(m)

(* Whenever an iteration may begin and at the end, Drive holds under       *)
(* "best" the whole export of this program's first iteration with the      *)
(* highest reward, and under "last" the newest export that was due; at the *)
(* end that is the final policy (gpu_math_grpo.py:354-363).                *)
DriveHoldsBestAndLast ==
    (pc = "loop" /\ Done > 0) =>
        /\ drive[<<"final", "best">>] = <<launch, FirstOfHighest(rewards)>>
        /\ \A n \in 1 .. Done : NewestDue(n) => drive[<<"final", "last">>] = <<launch, n>>

-----------------------------------------------------------------------------
(* The inductive invariant, part by part.                                  *)

Uploading == pc \in {"purgeStaging", "copy", "purgeFinal", "move"}

\* main() uploads after an iteration, whose export is there, and only then.
StepsFit ==
    /\ pc # "down" => launch # 0
    /\ pc \in {"bootstrap", "polling"} => Done = 0
    /\ pc \in {"bootstrap", "polling", "loop", "cleanup"} => todo = << >>
    /\ Uploading => todo # << >> /\ Done \in DOMAIN exports /\ exports[Done] = launch
    /\ pc = "cleanup" => Done > 0

\* best_reward_mean is the reward of the first iteration with the highest one.
BestIsFirst ==
    IF Done = 0 THEN best = MinusInfinity
    ELSE \E n \in 1 .. Done : IsFirstOfHighest(rewards, n) /\ rewards[n] = best

\* What is moved is whole, and where it goes is free unless a purge failed unnoticed.
FoldersInSteps ==
    /\ pc \in {"purgeFinal", "move"} => drive[Staging] = <<launch, Done>>
    /\ pc = "copy" /\ ~unnoticed => drive[Staging] = Nothing
    /\ pc = "move" /\ ~unnoticed => drive[Final] = Nothing

\* The labels that are still to be uploaded are those of this iteration.
DriveFollows ==
    (pc \in {"loop", "cleanup"} \/ Uploading) /\ Done > 0 =>
        /\ IF "best" \in Range(todo) THEN IsFirstOfHighest(rewards, Done)
           ELSE drive[<<"final", "best">>] = <<launch, FirstOfHighest(rewards)>>
        /\ IF "last" \in Range(todo) THEN IsLast(Done)
           ELSE \A n \in 1 .. Done : NewestDue(n) => drive[<<"final", "last">>] = <<launch, n>>

(* While an iteration uploads its labels one after the other, Drive has    *)
(* what is due for every label that is not waiting its turn, and the steps *)
(* of an upload find the folders as the step before left them              *)
(* (_upload_checkpoint_to_drive() and the loop of main()).                 *)
UploadAgrees == TypeOK /\ StepsFit /\ BestIsFirst /\ FoldersInSteps /\ DriveFollows
=============================================================================
