--------------------------- MODULE TrainerHandoff ---------------------------
(***************************************************************************)
(* The file handoff between the trainer backend and its rank processes:    *)
(* SshMultiMachineTrainBackend (trainer/quic_train_multi.py), with         *)
(* QuicTrainBackend (trainer/quic_train.py) as the case of one machine.    *)
(* train() writes one step file per prompt group into the rollout_dir of   *)
(* every machine and waits for the result the last rank writes; a          *)
(* request file asks the ranks to export, and the backend carries their    *)
(* shards to the first machine, where the first rank merges them.  The     *)
(* ranks belong to another repository and are modelled from this use.      *)
(***************************************************************************)
EXTENDS Integers, Sequences, FiniteSets

CONSTANTS
    WorldSize,       \* _world_size: the ranks, here 1 .. WorldSize
    MachineCount,    \* len(machines)
    MachineOf,       \* _rank_machine: the machine of each rank
    GroupsPerBatch,  \* the prompt groups of a batch
    MaxTrains,       \* bound: calls of train() in one behaviour
    MaxExports,      \* bound: exports one backend object makes
    MaxFaults,       \* bound: calls that raise, timeouts aside
    Faults,          \* the reasons for which calls raise
    FreshStateDir,   \* does a program that starts again use a new state_dir?
    MaxRestarts      \* bound: how often the program is started again

Ranks == 1 .. WorldSize
Machines == 1 .. MachineCount
Primary == 1
LastRank == WorldSize

ASSUME HandoffAssumption ==
    /\ WorldSize \in Nat \ {0}
    /\ MachineCount \in Nat \ {0}
    /\ MachineOf \in [Ranks -> Machines]
    /\ MachineOf[1] = Primary
    /\ GroupsPerBatch \in Nat \ {0}
    /\ MaxTrains \in Nat
    /\ MaxExports \in Nat
    /\ MaxFaults \in Nat
    /\ Faults \subseteq {"reject", "write", "timeout"}
    /\ FreshStateDir \in BOOLEAN
    /\ MaxRestarts \in Nat

Steps == 1 .. MaxTrains * GroupsPerBatch
ExportIds == 1 .. MaxExports
Groups == (1 .. MaxTrains) \X (1 .. GroupsPerBatch)   \* the i-th group of a batch
NoGroup == <<0, 0>>
Weights == Seq(Groups)                                \* the groups learned, in order
NoShard == <<NoGroup>>

VARIABLES
    pc,        \* where the backend is
    version,   \* _policy_version
    nextStep,  \* _next_step
    exportId,  \* _next_export_id
    batch,     \* the number of train() calls made so far
    group,     \* the group train() writes
    copied,    \* how many machines have the file that is written
    steps,     \* step_numbers of the train() call
    reported,  \* the groups whose results the train() call has read
    returned,  \* the batches of this backend object whose train() returned
    stepFile,  \* step_{n}.pt in each rollout_dir
    result,    \* step_{n}.result.json on the machine of the last rank
    request,   \* export_request.json in each rollout_dir: its request_id, or 0
    shard,     \* export_shard_rank{r}_{id}.pt in each rollout_dir
    done,      \* export_done_{id}.json on the first machine: the merged shards
    rank,      \* each rank process
    exported,  \* what the last export_policy() that returned wrote
    saved,     \* what the last checkpoint() has copied, rank after rank
    failed,    \* the steps whose file could not be written everywhere
    faults, restarts

files == <<stepFile, result, request, shard, done>>
progress == <<version, nextStep, batch, group, copied, steps, reported, returned>>
outcome == <<exported, saved>>
budget == <<failed, faults, restarts>>
vars == <<pc, progress, exportId, files, rank, outcome, budget>>

Fresh == [next |-> 1, got |-> NoGroup, weights |-> << >>, served |-> 0]
Nothing == [of |-> {}, parts |-> {}]
NotSaved == [of |-> {}, settled |-> FALSE, parts |-> << >>]

NoFiles ==
    [stepFile |-> [m \in Machines |-> [s \in Steps |-> NoGroup]],
     result   |-> [s \in Steps |-> NoGroup],
     request  |-> [m \in Machines |-> 0],
     shard    |-> [m \in Machines |-> [x \in Ranks \X ExportIds |-> NoShard]],
     done     |-> [i \in ExportIds |-> {}]]

ProgressTyped ==
    /\ pc \in {"down", "idle", "grouping", "copying", "waiting", "requesting", "exporting",
               "checkpointing"}
    /\ version \in 0 .. MaxTrains
    /\ nextStep \in 1 .. MaxTrains * GroupsPerBatch + 1
    /\ exportId \in 0 .. MaxExports
    /\ batch \in 0 .. MaxTrains
    /\ group \in 1 .. GroupsPerBatch
    /\ copied \in 0 .. MachineCount - 1
    /\ steps \in Seq(Steps) /\ Len(steps) <= GroupsPerBatch
    /\ reported \in Seq(Groups) /\ Len(reported) <= Len(steps)
    /\ returned \subseteq 1 .. MaxTrains

FilesTyped ==
    /\ stepFile \in [Machines -> [Steps -> Groups \cup {NoGroup}]]
    /\ result \in [Steps -> Groups \cup {NoGroup}]
    /\ request \in [Machines -> 0 .. MaxExports]
    /\ shard \in [Machines -> [Ranks \X ExportIds -> Weights \cup {NoShard}]]
    /\ done \in [ExportIds -> SUBSET Weights]

RanksTyped ==
    rank \in [Ranks -> [next: 1 .. MaxTrains * GroupsPerBatch + 1, got: Groups \cup {NoGroup},
                        weights: Weights, served: 0 .. MaxExports]]

OutcomeTyped ==
    /\ exported \in [of: SUBSET (1 .. MaxTrains), parts: SUBSET Weights]
    /\ saved \in [of: SUBSET (1 .. MaxTrains), settled: BOOLEAN, parts: Seq(Weights)]
    /\ Len(saved.parts) <= WorldSize
    /\ failed \subseteq Steps
    /\ faults \in 0 .. MaxFaults
    /\ restarts \in 0 .. MaxRestarts

TypeOK == ProgressTyped /\ FilesTyped /\ RanksTyped /\ OutcomeTyped

Init ==
    /\ pc = "down"
    /\ version = 0 /\ nextStep = 1 /\ exportId = 0
    /\ batch = 0 /\ group = 1 /\ copied = 0
    /\ steps = << >> /\ reported = << >> /\ returned = {}
    /\ stepFile = NoFiles.stepFile /\ result = NoFiles.result
    /\ request = NoFiles.request /\ shard = NoFiles.shard /\ done = NoFiles.done
    /\ rank = [r \in Ranks |-> Fresh]
    /\ exported = Nothing /\ saved = NotSaved
    /\ failed = {} /\ faults = 0 /\ restarts = 0

-----------------------------------------------------------------------------
(* The backend starts and stops *)

RanksGoOn == UNCHANGED rank

\* The rank processes of a new backend, each with the policy it was given.
StartRanks == rank' = [r \in Ranks |-> Fresh]

\* initialize_policy() of a new backend object: new ranks, counters from the
\* start.  A rollout_dir that exists is used as it is, never emptied.
InitializePolicy ==
    /\ pc = "down"
    /\ pc' = "idle"
    /\ version' = 0 /\ nextStep' = 1 /\ exportId' = 0
    /\ steps' = << >> /\ reported' = << >> /\ returned' = {}
    /\ StartRanks
    /\ UNCHANGED <<batch, group, copied, files, outcome, budget>>

\* shutdown() at the end of the program: the ranks end, the files stay.  The
\* next program is given the same state_dir or a new one.
Shutdown ==
    /\ pc # "down"
    /\ restarts < MaxRestarts
    /\ restarts' = restarts + 1
    /\ pc' = "down"
    /\ exported' = Nothing /\ saved' = NotSaved /\ failed' = {}
    /\ IF FreshStateDir
       THEN /\ stepFile' = NoFiles.stepFile /\ result' = NoFiles.result
            /\ request' = NoFiles.request /\ shard' = NoFiles.shard /\ done' = NoFiles.done
       ELSE UNCHANGED files
    /\ UNCHANGED <<progress, exportId, rank, faults>>

Raise(reason) ==
    /\ reason \in Faults
    /\ reason = "timeout" \/ faults < MaxFaults
    /\ faults' = IF reason = "timeout" THEN faults ELSE faults + 1
    /\ pc' = "idle"
    /\ UNCHANGED <<exportId, files, rank, outcome, restarts>>

\* `for m in self.machines`: the file goes to one machine after the other.
OneMachineMore(after) ==
    IF copied < MachineCount
    THEN copied' = copied + 1 /\ UNCHANGED pc
    ELSE copied' = 0 /\ pc' = after

NextMachine(after) ==
    IF copied + 1 < MachineCount
    THEN copied' = copied + 1 /\ UNCHANGED pc
    ELSE copied' = 0 /\ pc' = after

-----------------------------------------------------------------------------
(* train() *)

Train ==
    /\ pc = "idle"
    /\ batch < MaxTrains
    /\ batch' = batch + 1
    /\ group' = 1 /\ copied' = 0
    /\ steps' = << >> /\ reported' = << >>
    /\ pc' = "grouping"
    /\ UNCHANGED <<version, nextStep, returned, exportId, files, rank, outcome, budget>>

\* A group of one sample, or a sample without tokens: ValueError, with the files
\* of the groups before it already handed over.
NumberIsGone == nextStep + 1
NumberIsFree == nextStep

RejectGroup ==
    /\ pc = "grouping"
    /\ Raise("reject")
    /\ nextStep' = NumberIsFree
    /\ UNCHANGED <<failed, version, batch, group, copied, steps, reported, returned>>

\* The step number is used up before the file is written.
TakeStep ==
    /\ pc = "grouping"
    /\ nextStep' = nextStep + 1
    /\ steps' = Append(steps, nextStep)
    /\ copied' = 0
    /\ pc' = "copying"
    /\ UNCHANGED <<version, batch, group, reported, returned, exportId, files, rank, outcome, budget>>

FirstGroup == 1
ThisGroup == group

\* _write_rollout_batch_everywhere(): one machine after the other.
CopyStep ==
    /\ pc = "copying"
    /\ stepFile' = [stepFile EXCEPT ![copied + 1][steps[Len(steps)]] = <<batch, ThisGroup>>]
    /\ NextMachine(IF group < GroupsPerBatch THEN "grouping" ELSE "waiting")
    /\ group' = IF pc' = "grouping" THEN group + 1 ELSE group
    /\ UNCHANGED <<version, nextStep, batch, steps, reported, returned, exportId, result, request,
                   shard, done, rank, outcome, budget>>

\* torch.save(), or scp after its third attempt, fails.
CopyFails ==
    /\ pc = "copying"
    /\ Raise("write")
    /\ failed' = failed \cup {steps[Len(steps)]}
    /\ copied' = 0
    /\ UNCHANGED <<version, nextStep, batch, group, steps, reported, returned>>

Awaited == steps[Len(reported) + 1]

AnyRead(count) == count > 0
AllRead(count) == count = Len(steps)

\* _wait_for_result() of the steps in turn; after the last, train() returns the
\* next version.
ReadResult ==
    /\ pc = "waiting"
    /\ result[Awaited] # NoGroup
    /\ reported' = Append(reported, result[Awaited])
    /\ IF AllRead(Len(reported'))
       THEN /\ version' = version + 1
            /\ returned' = returned \cup {batch}
            /\ pc' = "idle"
       ELSE UNCHANGED <<version, returned, pc>>
    /\ UNCHANGED <<nextStep, batch, group, copied, steps, exportId, files, rank, outcome, budget>>

FirstAgain == steps[1]
Onward == nextStep

WaitTimesOut ==
    /\ pc = "waiting"
    /\ result[Awaited] = NoGroup
    /\ Raise("timeout")
    /\ nextStep' = Onward
    /\ UNCHANGED <<failed, version, batch, group, copied, steps, reported, returned>>

-----------------------------------------------------------------------------
(* export_policy() and checkpoint() *)

\* The orchestrator exports after a train() that returned.
MayExport == pc = "idle" /\ batch \in returned

ExportPolicy ==
    /\ MayExport
    /\ exportId < MaxExports
    /\ exportId' = exportId + 1
    /\ copied' = 0
    /\ pc' = "requesting"
    /\ UNCHANGED <<version, nextStep, batch, group, steps, reported, returned, files, rank, outcome, budget>>

\* The request file of a machine is replaced.
CopyRequest ==
    /\ pc = "requesting"
    /\ request' = [request EXCEPT ![copied + 1] = exportId]
    /\ NextMachine("exporting")
    /\ UNCHANGED <<version, nextStep, batch, group, steps, reported, returned, exportId, stepFile,
                   result, shard, done, rank, outcome, budget>>

LooksAtHome(r) == Primary
HeldOn(r) == MachineOf[r]

\* A shard that appears on another machine is carried to the first one.
ToCarry(r) ==
    /\ MachineOf[r] # Primary
    /\ shard[HeldOn(r)][<<r, exportId>>] # NoShard
    /\ shard[Primary][<<r, exportId>>] = NoShard

Shuttle(r) ==
    /\ pc = "exporting"
    /\ ToCarry(r)
    /\ shard' = [shard EXCEPT ![Primary][<<r, exportId>>] = shard[HeldOn(r)][<<r, exportId>>]]
    /\ UNCHANGED <<pc, progress, exportId, stepFile, result, request, done, rank, outcome, budget>>

ExportDone ==
    /\ pc = "exporting"
    /\ done[exportId] # {}
    /\ exported' = [of |-> returned, parts |-> done[exportId]]
    /\ pc' = "idle"
    /\ UNCHANGED <<progress, exportId, files, rank, saved, budget>>

\* A request or a shard cannot be copied, or the merge takes too long.  Nobody
\* takes the request back, and no later call carries the shards of this one.
ExportFails ==
    /\ \/ pc = "requesting" /\ Raise("write")
       \/ pc = "exporting" /\ (\E r \in Ranks : ToCarry(r)) /\ Raise("write")
       \/ pc = "exporting" /\ done[exportId] = {} /\ Raise("timeout")
    /\ copied' = 0
    /\ UNCHANGED <<version, nextStep, batch, group, steps, reported, returned, failed>>

\* The newest checkpoint file of a rank, written after each of its updates: a
\* rank that has made none has no file.
LatestCheckpoint(r) == rank[r].weights

\* checkpoint() is a call for any time.  What it is a checkpoint of is clear when
\* the last train() returned; `settled' when an export has returned since.
Checkpoint ==
    /\ pc = "idle"
    /\ pc' = "checkpointing"
    /\ saved' = [of |-> IF batch \in returned THEN returned ELSE {},
                 settled |-> exported.of = returned, parts |-> << >>]
    /\ UNCHANGED <<progress, exportId, files, rank, exported, budget>>

FirstToSave == 1
NextToSave == Len(saved.parts) + 1

\* The ranks in turn: the newest file is looked up and copied, while the ranks
\* go on.
CopyCheckpoint ==
    /\ pc = "checkpointing"
    /\ LatestCheckpoint(NextToSave) # << >>
    /\ saved' = [saved EXCEPT !.parts = Append(@, LatestCheckpoint(NextToSave))]
    /\ pc' = IF NextToSave < WorldSize THEN pc ELSE "idle"
    /\ UNCHANGED <<progress, exportId, files, rank, exported, budget>>

\* The copies made so far stay, without those of the other ranks.
CopyCheckpointFails ==
    /\ pc = "checkpointing"
    /\ Raise("write")
    /\ UNCHANGED <<progress, failed>>

NoCheckpointFound ==
    /\ pc = "checkpointing"
    /\ LatestCheckpoint(NextToSave) = << >>
    /\ pc' = "idle"
    /\ UNCHANGED <<progress, exportId, files, rank, outcome, budget>>

-----------------------------------------------------------------------------
(* The ranks (external): each polls its own rollout_dir, in step order.    *)

\* Having exported, the first rank waits for the shards of the others, for
\* nothing else and without an end.
Merging == rank[1].served # 0 /\ done[rank[1].served] = {}

Idle(r) == pc # "down" /\ rank[r].got = NoGroup /\ (r = 1 => ~Merging)

RankReads(r) ==
    /\ Idle(r)
    /\ rank[r].next \in Steps
    /\ stepFile[MachineOf[r]][rank[r].next] # NoGroup
    /\ rank' = [rank EXCEPT ![r] = [@ EXCEPT !.got = stepFile[MachineOf[r]][rank[r].next]]]
    /\ UNCHANGED <<pc, progress, exportId, files, outcome, budget>>

\* A pipeline: the forward pass needs the ranks before, the backward pass the
\* ranks after.  Each rank applies its update by itself; only the last one
\* writes a result.
RankApplies(r) ==
    /\ pc # "down"
    /\ rank[r].got # NoGroup
    /\ \A q \in 1 .. r - 1 : rank[q].next = rank[r].next /\ rank[q].got # NoGroup
    /\ \A q \in r + 1 .. WorldSize : rank[q].next = rank[r].next + 1
    /\ rank' = [rank EXCEPT ![r] = [next |-> rank[r].next + 1, got |-> NoGroup, served |-> rank[r].served,
                                    weights |-> Append(rank[r].weights, rank[r].got)]]
    /\ result' = IF r = LastRank THEN [result EXCEPT ![rank[r].next] = rank[r].got] ELSE result
    /\ UNCHANGED <<pc, progress, exportId, stepFile, request, shard, done, outcome, budget>>

\* Between two steps a rank answers a request it has not answered.
RankExports(r) ==
    /\ Idle(r)
    /\ LET m == MachineOf[r] IN
         /\ request[m] # rank[r].served
         /\ rank' = [rank EXCEPT ![r] = [@ EXCEPT !.served = request[m]]]
         /\ shard' = [shard EXCEPT ![m][<<r, request[m]>>] = rank[r].weights]
    /\ UNCHANGED <<pc, progress, exportId, stepFile, result, request, done, outcome, budget>>

\* The first rank merges once the shards of all ranks are in its rollout_dir.
RankMerges ==
    /\ pc # "down"
    /\ Merging
    /\ \A r \in Ranks : shard[Primary][<<r, rank[1].served>>] # NoShard
    /\ done' = [done EXCEPT ![rank[1].served] = {shard[Primary][<<r, rank[1].served>>] : r \in Ranks}]
    /\ UNCHANGED <<pc, progress, exportId, stepFile, result, request, shard, rank, outcome, budget>>

-----------------------------------------------------------------------------
\* Every call of the bound was made.
Finished ==
    /\ pc = "idle"
    /\ UNCHANGED vars

Returns == CopyStep \/ TakeStep \/ ReadResult \/ CopyRequest \/ ExportDone \/ \E r \in Ranks : Shuttle(r)

CheckpointStep == CopyCheckpoint \/ CopyCheckpointFails \/ NoCheckpointFound

RankStep(r) == RankReads(r) \/ RankApplies(r) \/ RankExports(r)

Next ==
    \/ InitializePolicy
    \/ Shutdown
    \/ Train
    \/ Returns
    \/ RejectGroup
    \/ CopyFails
    \/ WaitTimesOut
    \/ ExportPolicy
    \/ ExportFails
    \/ Checkpoint
    \/ CheckpointStep
    \/ \E r \in Ranks : RankStep(r)
    \/ RankMerges
    \/ Finished

Spec == Init /\ [][Next]_vars

\* The ranks poll; a call of the backend runs on until it returns or raises.
FairSpec ==
    /\ Spec
    /\ WF_vars(Returns)
    /\ WF_vars(RankMerges)
    /\ \A r \in Ranks :
         /\ WF_vars(RankReads(r))
         /\ WF_vars(RankApplies(r))
         /\ WF_vars(RankExports(r))
-----------------------------------------------------------------------------
Learned(w) == {w[k] : k \in DOMAIN w}

Earlier(x, y) == x[1] < y[1] \/ (x[1] = y[1] /\ x[2] < y[2])

(* The result train() reads for a step is the result of the group it wrote *)
(* for that step (quic_train.py:8-9), not one a timed-out call, or another *)
(* run on the same state_dir, led to.                                      *)
ResultsAreOwn == \A i \in DOMAIN reported : reported[i] = <<batch, i>>

(* No rank learns a group twice or out of order, also when calls raised    *)
(* and the next call came while the ranks were still at work.              *)
LearnedInOrder ==
    \A r \in Ranks : \A i, j \in DOMAIN rank[r].weights :
        i < j => Earlier(rank[r].weights[i], rank[r].weights[j])

\* All ranks' parts are of the same weights, with every group of the batches.
Whole(parts, of) ==
    \E w \in parts : parts = {w} /\ of \X (1 .. GroupsPerBatch) \subseteq Learned(w)

OneUpdateBehind(u, w) == u # w /\ \E x \in Groups : w = Append(u, x)

(* An export that returns merged shards of one and the same step, with     *)
(* every group of every batch whose train() returned, also when an export  *)
(* before timed out and is answered late.  A checkpoint taken after such a *)
(* train() has in the last rank's file every group of those batches, and   *)
(* in the others' the same, once an export has returned since; until then  *)
(* a rank's file may be one update behind, never more                      *)
(* (quic_train_multi.py:523-543, 568-587).                                 *)
FilesAreWhole ==
    /\ exported.of # {} => Whole(exported.parts, exported.of)
    /\ saved.of # {} /\ Len(saved.parts) = WorldSize =>
         LET last == saved.parts[LastRank] IN
           /\ saved.of \X (1 .. GroupsPerBatch) \subseteq Learned(last)
           /\ \A r \in Ranks :
                \/ saved.parts[r] = last
                \/ ~saved.settled /\ OneUpdateBehind(saved.parts[r], last)

\* An export that raised has left the first rank waiting for a shard.
Stranded ==
    /\ Merging
    /\ rank[1].served # exportId \/ pc \notin {"requesting", "exporting"}
    /\ \E r \in Ranks : shard[Primary][<<r, rank[1].served>>] = NoShard

(* Every step number the backend used up is learned by every rank, unless  *)
(* the file of that step or of one before could not be written, or a       *)
(* failed export left the first rank waiting: no rank waits for a file     *)
(* that will never be there.  (While the program runs.)                    *)
LearnsEveryStep ==
    \A s \in Steps :
        (pc # "down" /\ s < nextStep)
            ~> \/ pc = "down"
               \/ Stranded
               \/ \E f \in failed : f <= s
               \/ \A r \in Ranks : rank[r].next > s

(* Then a wait for results, or for an export, comes to an end.             *)
CallsReturn ==
    (pc \in {"waiting", "exporting"} /\ failed = {}) ~> (pc \in {"idle", "down"} \/ Stranded)

-----------------------------------------------------------------------------
(* The inductive invariant, part by part. *)

InTrain == pc \in {"grouping", "copying", "waiting"}
InExport == pc \in {"requesting", "exporting"}

\* How far the counters of the backend, and what the ranks are at, can be: in
\* one train() call no more numbers are used up than groups were taken up.
CountersFit ==
    /\ version <= batch
    /\ nextStep <= batch * GroupsPerBatch + 1
    /\ InTrain =>
         /\ version < batch
         /\ Len(steps) = IF pc = "grouping" THEN group - 1 ELSE group
         /\ nextStep + GroupsPerBatch <= batch * GroupsPerBatch + 1 + Len(steps)
    /\ pc \in {"grouping", "copying"} => reported = << >>
    /\ pc \in {"copying", "waiting"} => steps[group] = nextStep - 1
    /\ pc = "waiting" => group = GroupsPerBatch /\ Len(reported) < GroupsPerBatch
    /\ InExport => exportId > 0
    /\ pc = "checkpointing" => Len(saved.parts) < WorldSize
    /\ pc # "down" =>
         \A r \in Ranks :
             /\ rank[r].got # NoGroup => rank[r].next \in Steps
             /\ rank[r].served # 0 => request[MachineOf[r]] # 0

\* A step file, once written, is the same on every machine that has it, and
\* of a later group than the files with smaller numbers.
StepFilesInOrder ==
    \A m \in Machines : \A s \in Steps : stepFile[m][s] # NoGroup =>
        /\ s < nextStep
        /\ stepFile[m][s][1] <= batch
        /\ \A n \in Machines : stepFile[n][s] \in {NoGroup, stepFile[m][s]}
        /\ \A t \in Steps : t < s /\ stepFile[m][t] # NoGroup => Earlier(stepFile[m][t], stepFile[m][s])

\* The files of a train() call hold its own groups: no other file is as late as
\* the group it is at, and the group it copies is where it was copied to.
OwnSteps ==
    /\ pc = "grouping" =>
         \A m \in Machines : \A s \in Steps :
             stepFile[m][s] # NoGroup => Earlier(stepFile[m][s], <<batch, group>>)
    /\ pc = "copying" =>
         \A m \in Machines :
             /\ stepFile[m][nextStep - 1] = IF m <= copied THEN <<batch, group>> ELSE NoGroup
             /\ \A s \in Steps : s # nextStep - 1 /\ stepFile[m][s] # NoGroup =>
                    Earlier(stepFile[m][s], <<batch, group>>)
    /\ InTrain =>
         \A i \in 1 .. Len(steps) :
             /\ steps[i] < nextStep
             /\ pc = "copying" /\ i # group => steps[i] < nextStep - 1
             /\ \A m \in Machines : stepFile[m][steps[i]] \in {NoGroup, <<batch, i>>}

\* A rank has learned the step files of its machine up to the one it is at.
RanksFollow ==
    \A r \in Ranks :
        /\ Len(rank[r].weights) = rank[r].next - 1
        /\ \A k \in 1 .. rank[r].next - 1 :
             rank[r].weights[k] # NoGroup /\ rank[r].weights[k] = stepFile[MachineOf[r]][k]
        /\ rank[r].got # NoGroup => rank[r].got = stepFile[MachineOf[r]][rank[r].next]

\* Later ranks of the pipeline are at most one update ahead of earlier ones.
Pipelined ==
    \A q, r \in Ranks : q < r =>
        \/ rank[r].next = rank[q].next
        \/ rank[r].next = rank[q].next + 1 /\ rank[q].got # NoGroup

\* A result is of a group the last rank learned, and what train() has read so
\* far, and every batch that returned, is among what it learned.
ResultsFollow ==
    /\ \A s \in Steps : result[s] # NoGroup =>
         s < rank[LastRank].next /\ result[s] = rank[LastRank].weights[s]
    /\ returned \X (1 .. GroupsPerBatch) \subseteq Learned(rank[LastRank].weights)
    /\ pc = "waiting" =>
         \A i \in 1 .. Len(reported) : <<batch, i>> \in Learned(rank[LastRank].weights)

AllAt(step) == \A r \in Ranks : rank[r].next = step

\* Once train() has returned, the last rank is at the step to come; and once an
\* export after it has returned, every rank is.
ReturnedIsDone ==
    /\ returned \subseteq 1 .. batch
    /\ InTrain => batch \notin returned
    /\ InExport => batch \in returned
    /\ batch \in returned => rank[LastRank].next = nextStep
    /\ batch \in returned /\ exported.of = returned => AllAt(nextStep)

\* Whatever bears the number of the export that runs was made for it.
ExportsAreCurrent ==
    /\ \A i \in ExportIds : i > exportId =>
         done[i] = {} /\ \A m \in Machines : \A r \in Ranks : shard[m][<<r, i>>] = NoShard
    /\ \A m \in Machines : request[m] <= exportId
    /\ \A r \in Ranks : rank[r].served <= exportId
    /\ InExport =>
         /\ \A m \in Machines : \A r \in Ranks : shard[m][<<r, exportId>>] # NoShard =>
              rank[r].next = nextStep /\ shard[m][<<r, exportId>>] = rank[r].weights
         /\ done[exportId] # {} => done[exportId] = {rank[LastRank].weights} /\ AllAt(nextStep)

\* While a checkpoint is copied after a train() that returned, the last rank
\* stays where it is, and what is copied is its weights or those before.
CheckpointFollows ==
    pc = "checkpointing" /\ saved.of # {} =>
        /\ saved.of = returned
        /\ batch \in returned
        /\ saved.settled => AllAt(nextStep)
        /\ \A q \in 1 .. Len(saved.parts) :
             \/ saved.parts[q] = rank[LastRank].weights
             \/ ~saved.settled /\ OneUpdateBehind(saved.parts[q], rank[LastRank].weights)

NothingYet ==
    /\ files = <<NoFiles.stepFile, NoFiles.result, NoFiles.request, NoFiles.shard, NoFiles.done>>
    /\ exported = Nothing

RunAgrees ==
    /\ StepFilesInOrder
    /\ OwnSteps
    /\ RanksFollow
    /\ Pipelined
    /\ ResultsFollow
    /\ ReturnedIsDone
    /\ ExportsAreCurrent
    /\ CheckpointFollows

(* Files, ranks and backend agree as long as a program runs on a state_dir *)
(* of its own: the file of a step is of one group on all machines, a rank  *)
(* has learned the files up to the step it is at, the pipeline is never    *)
(* more than one update apart, and what is exported is of the last step    *)
(* (quic_train_multi.py:246-269, 424-543).                                 *)
HandoffAgrees ==
    /\ TypeOK
    /\ CountersFit
    /\ exported.of \subseteq returned
    /\ pc = "down" => NothingYet
    /\ pc # "down" => RunAgrees
=============================================================================
