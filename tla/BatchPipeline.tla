---------------------------- MODULE BatchPipeline ----------------------------
(***************************************************************************)
(* How a batch comes about: the prompt source (dataset/math_dataset.py)    *)
(* draws prompts, collect_rollouts() (workers/rollout_worker.py) divides   *)
(* them over threads, under Controller._generate()'s retry_call, and       *)
(* score_trajectories() (workers/reward_worker.py) divides the             *)
(* trajectories over threads again; train() groups what comes out.         *)
(* A trajectory is named by its prompt id and sample number, and a reward  *)
(* by the trajectory it was computed from, so that a reward which reaches  *)
(* another trajectory is visible.  The backends the threads call are       *)
(* external: they raise, or return something other than what was asked.    *)
(***************************************************************************)
EXTENDS Integers, Sequences, FiniteSets, SequencesExt, FiniteSetsExt

CONSTANTS
    PromptsPerIteration,   \* prompts_per_iteration
    SamplesPerPrompt,      \* num_samples of each request
    RolloutWorkers,        \* rollout_workers
    RewardWorkers,         \* reward_workers
    MaxAttempts,           \* max_retry_attempts
    MaxBatches,            \* bound: the batches drawn in one behaviour
    MaxFaults,             \* bound: calls of a backend that misbehave
    MaxWrongChunks         \* bound: the chunks of one batch that get a wrong number of scores

ASSUME BatchAssumption ==
    /\ PromptsPerIteration \in Nat \ {0}
    /\ SamplesPerPrompt \in Nat \ {0}
    /\ RolloutWorkers \in Nat \ {0}
    /\ RewardWorkers \in Nat \ {0}
    /\ MaxAttempts \in Nat \ {0}
    /\ MaxBatches \in Nat
    /\ MaxFaults \in Nat
    /\ MaxWrongChunks \in Nat

VARIABLES
    pc,            \* where the controller is
    drawn,         \* the prompts drawn so far: the counter that names them
    requests,      \* the prompt ids of this iteration
    attempt,       \* the attempt retry_call is making
    threads,       \* the futures of the pool: what each thread returned
    trajectories,  \* what collect_rollouts() returned
    groups,        \* the groups train() formed: for each request, the places of its
                   \* rows in the batch, and in each row a trajectory and its reward
    faults

vars == <<pc, drawn, requests, attempt, threads, trajectories, groups, faults>>

PromptIds == 0 .. MaxBatches * PromptsPerIteration - 1
Foreign == -1                        \* an id no prompt ever had
Sample == (PromptIds \cup {Foreign}) \X (1 .. SamplesPerPrompt)
Unscored == <<Foreign, 0>>           \* Python's None
Running == [st |-> "running", out |-> << >>]

\* The places of the batch whose trajectory names the i-th request.
Rows(i) == {x \in DOMAIN trajectories : trajectories[x][1] = requests[i]}

TypeOK ==
    /\ pc \in {"idle", "dispatch", "joining", "score", "scoring", "handed", "raised"}
    /\ drawn \in 0 .. MaxBatches * PromptsPerIteration
    /\ requests \in Seq(PromptIds)
    /\ attempt \in 1 .. MaxAttempts
    /\ threads \in Seq([st: {"running", "done", "failed"}, out: Seq(Sample \cup {Unscored})])
    /\ Len(threads) <= IF pc = "joining" THEN RolloutWorkers ELSE RewardWorkers
    /\ trajectories \in Seq(Sample)
    /\ pc # "handed" => groups = << >>
    /\ pc = "handed" =>
         /\ DOMAIN groups = DOMAIN requests
         /\ \A i \in DOMAIN groups : groups[i] \in [Rows(i) -> Sample \X Sample]
    /\ faults \in 0 .. MaxFaults

Init ==
    /\ pc = "idle"
    /\ drawn = 0
    /\ requests = << >>
    /\ attempt = 1
    /\ threads = << >> /\ trajectories = << >> /\ groups = << >>
    /\ faults = 0

Misbehave ==
    /\ faults < MaxFaults
    /\ faults' = faults + 1

\* The threads of a pool, and its end: `with ThreadPoolExecutor` leaves the
\* block, by an exception too, only when every thread has ended.
Pool(n) == [t \in 1 .. n |-> Running]
AllEnded == \A t \in DOMAIN threads : threads[t].st # "running"
OneFailed == \E t \in DOMAIN threads : threads[t].st = "failed"
Results == [t \in DOMAIN threads |-> threads[t].out]

Ends(t, st, out) ==
    /\ threads[t].st = "running"
    /\ threads' = [threads EXCEPT ![t] = [st |-> st, out |-> out]]
    /\ UNCHANGED <<pc, drawn, requests, attempt, trajectories, groups>>

-----------------------------------------------------------------------------
(* Prompts *)

\* Controller._run_one_iteration() asks the prompt source once, outside the
\* retries.  The cursor over the examples never ends and the counter that names
\* the prompts goes on.
DrawPrompts ==
    /\ pc \in {"idle", "handed", "raised"}
    /\ drawn + PromptsPerIteration <= MaxBatches * PromptsPerIteration
    /\ requests' = [i \in 1 .. PromptsPerIteration |-> drawn + i - 1]
    /\ drawn' = drawn + PromptsPerIteration
    /\ attempt' = 1
    /\ trajectories' = << >> /\ groups' = << >>
    /\ pc' = "dispatch"
    /\ UNCHANGED <<threads, faults>>

-----------------------------------------------------------------------------
(* collect_rollouts() *)

\* partition(): round robin, without the parts that stay empty.
PartCount == IF Len(requests) < RolloutWorkers THEN Len(requests) ELSE RolloutWorkers
Part(p) == [j \in 1 .. (Len(requests) - p) \div RolloutWorkers + 1 |->
                requests[(j - 1) * RolloutWorkers + p]]

Dispatch ==
    /\ pc = "dispatch"
    /\ threads' = Pool(PartCount)
    /\ pc' = "joining"
    /\ UNCHANGED <<drawn, requests, attempt, trajectories, groups, faults>>

\* What RolloutBackend.generate() is asked for: the samples of each request.
Samples(part) ==
    [x \in 1 .. Len(part) * SamplesPerPrompt |->
        <<part[(x - 1) \div SamplesPerPrompt + 1], ((x - 1) % SamplesPerPrompt) + 1>>]

\* A backend that loses a sample, repeats one, or names a prompt of its own
\* (or of an earlier batch).
Mistaken(out) ==
    UNION {{RemoveAt(out, x), Append(out, out[x]), [out EXCEPT ![x] = <<Foreign, @[2]>>],
            [out EXCEPT ![x] = <<0, @[2]>>]} : x \in DOMAIN out}

GenerateReturns(p) ==
    /\ pc = "joining"
    /\ \/ Ends(p, "done", Samples(Part(p))) /\ UNCHANGED faults
       \/ Misbehave /\ \E out \in Mistaken(Samples(Part(p))) : Ends(p, "done", out)

GenerateRaises(p) ==
    /\ pc = "joining"
    /\ Misbehave
    /\ Ends(p, "failed", << >>)

\* retry_call(): collect_rollouts() raised.
RetriesOffByOne ==
    IF attempt + 1 < MaxAttempts
    THEN pc' = "dispatch" /\ attempt' = attempt + 1
    ELSE pc' = "raised" /\ UNCHANGED attempt

RetryOrRaise ==
    IF attempt < MaxAttempts
    THEN pc' = "dispatch" /\ attempt' = attempt + 1
    ELSE pc' = "raised" /\ UNCHANGED attempt

Unexpected(ts) == \E x \in DOMAIN ts : ~ \E i \in DOMAIN requests : requests[i] = ts[x][1]

MissingPrompts(ts) ==
    \E i \in DOMAIN requests : Cardinality({x \in DOMAIN ts : ts[x][1] = requests[i]}) = 0

Missing(ts) ==
    \E i \in DOMAIN requests :
        Cardinality({x \in DOMAIN ts : ts[x][1] = requests[i]}) < SamplesPerPrompt

\* The results, in the order of the parts whatever order the threads ended in,
\* and the two checks.  More samples than asked for pass.
Joined ==
    /\ pc = "joining"
    /\ AllEnded
    /\ LET ts == FlattenSeq(Results) IN
         IF OneFailed \/ Unexpected(ts) \/ Missing(ts)
         THEN RetryOrRaise /\ UNCHANGED trajectories
         ELSE pc' = "score" /\ trajectories' = ts /\ UNCHANGED attempt
    /\ threads' = << >>
    /\ UNCHANGED <<drawn, requests, groups, faults>>

-----------------------------------------------------------------------------
(* score_trajectories() *)

FloorDiv(a, b) == a \div b
CeilDiv(a, b) == (a + b - 1) \div b
Count == Len(trajectories)
Chunked == RewardWorkers > 1 /\ Count > 1
ChunkSize == CeilDiv(Count, RewardWorkers)
ChunkCount == IF Chunked THEN CeilDiv(Count, ChunkSize) ELSE 1
StartOf(c) == (c - 1) * ChunkSize

StridedChunk(c) ==
    [j \in 1 .. (Count - c) \div ChunkCount + 1 |-> trajectories[(j - 1) * ChunkCount + c]]

Chunk(c) ==
    IF Chunked
    THEN SubSeq(trajectories, StartOf(c) + 1,
                IF c = ChunkCount THEN Count ELSE StartOf(c) + ChunkSize)
    ELSE trajectories

StartScoring ==
    /\ pc = "score"
    /\ threads' = Pool(ChunkCount)
    /\ pc' = "scoring"
    /\ UNCHANGED <<drawn, requests, attempt, trajectories, groups, faults>>

WrongChunks == {c \in DOMAIN threads : threads[c].st = "done" /\ threads[c].out # Chunk(c)}

\* batch_score() is asked for one score per input, in order; it may return one
\* too few, or one more.
ScoreReturns(c) ==
    /\ pc = "scoring"
    /\ \/ Ends(c, "done", Chunk(c)) /\ UNCHANGED faults
       \/ /\ Misbehave
          /\ Cardinality(WrongChunks) < MaxWrongChunks
          /\ \/ \E x \in DOMAIN Chunk(c) : Ends(c, "done", RemoveAt(Chunk(c), x))
             \/ Ends(c, "done", Append(Chunk(c), <<Foreign, 1>>))

ScoreRaises(c) ==
    /\ pc = "scoring"
    /\ Misbehave
    /\ Ends(c, "failed", << >>)

\* rewards[start : start + len(scores)] = scores, chunk after chunk: the last one
\* that reaches a place fills it, and one that reaches further makes the list longer.
Filled(c) == StartOf(c) + 1 .. StartOf(c) + Len(threads[c].out)
Rewards ==
    IF Chunked
    THEN [x \in 1 .. Max({Count} \cup {StartOf(c) + Len(threads[c].out) : c \in DOMAIN threads}) |->
            LET fills == {c \in DOMAIN threads : x \in Filled(c)} IN
            IF fills = {} THEN Unscored ELSE threads[Max(fills)].out[x - StartOf(Max(fills))]]
    ELSE threads[1].out

\* QuicTrainBackend.train(): every reward is set.
AllScored(rewards) == \A x \in DOMAIN rewards : rewards[x] # Unscored

\* train() groups by prompt id, each row with its trajectory's reward, in the
\* order of the batch; a group needs two rows to be compared with each other.
Grouped(rewards) ==
    [i \in DOMAIN requests |-> [x \in Rows(i) |-> <<trajectories[x], rewards[x]>>]]
GroupsOfTwo == \A i \in DOMAIN requests : Cardinality(Rows(i)) >= 2

\* The pool ends; the count is checked; nothing is retried.
HandOver ==
    /\ pc = "scoring"
    /\ AllEnded
    /\ LET rewards == Rewards IN
         IF ~OneFailed /\ Len(rewards) = Count /\ AllScored(rewards) /\ GroupsOfTwo
         THEN pc' = "handed" /\ groups' = Grouped(rewards)
         ELSE pc' = "raised" /\ UNCHANGED groups
    /\ threads' = << >>
    /\ UNCHANGED <<drawn, requests, attempt, trajectories, faults>>

-----------------------------------------------------------------------------
\* Every batch of the bound was drawn and is dealt with.
Finished ==
    /\ pc \in {"handed", "raised"}
    /\ drawn = MaxBatches * PromptsPerIteration
    /\ UNCHANGED vars

ThreadStep(t) ==
    /\ t \in DOMAIN threads
    /\ GenerateReturns(t) \/ GenerateRaises(t) \/ ScoreReturns(t) \/ ScoreRaises(t)

CallerStep == Dispatch \/ Joined \/ StartScoring \/ HandOver

Next ==
    \/ DrawPrompts
    \/ CallerStep
    \/ \E t \in 1 .. RolloutWorkers + RewardWorkers : ThreadStep(t)
    \/ Finished

Spec == Init /\ [][Next]_vars

\* The caller runs on, and every call of a backend ends (its own time limit).
FairSpec ==
    /\ Spec
    /\ WF_vars(CallerStep)
    /\ \A t \in 1 .. RolloutWorkers + RewardWorkers : WF_vars(ThreadStep(t))

-----------------------------------------------------------------------------
\* The prompts of an iteration are the ones that were drawn last.
PromptsAreNew ==
    IF pc = "idle"
    THEN drawn = 0 /\ requests = << >>
    ELSE /\ drawn >= PromptsPerIteration
         /\ requests = [i \in 1 .. PromptsPerIteration |-> drawn - PromptsPerIteration + i - 1]

\* A thread has nothing to show before it is done.
OnlyDoneShow == \A t \in DOMAIN threads : threads[t].st # "done" => threads[t].out = << >>

\* A pool of generate() calls: one per part, each about its own part.
JoiningFits ==
    pc = "joining" =>
        /\ Len(threads) = PartCount
        /\ \A p \in DOMAIN threads : threads[p].st = "done" =>
             threads[p].out \in {Samples(Part(p))} \cup Mistaken(Samples(Part(p)))

\* A pool of batch_score() calls: one per chunk, each about its own chunk.
ScoringFits ==
    pc = "scoring" =>
        /\ Len(threads) = ChunkCount
        /\ \A c \in DOMAIN threads : threads[c].st = "done" =>
             threads[c].out \in {Chunk(c), Append(Chunk(c), <<Foreign, 1>>)}
                                   \cup {RemoveAt(Chunk(c), x) : x \in DOMAIN Chunk(c)}
        /\ Cardinality(WrongChunks) <= MaxWrongChunks

\* What the two checks of collect_rollouts() let through stays what is scored.
Accepted ==
    pc \in {"score", "scoring", "handed"} => ~ Unexpected(trajectories) /\ ~ Missing(trajectories)

(* At every moment the batch, the pool and the place of the controller     *)
(* agree: a pool exists only while it is waited for, has one thread for    *)
(* each part or chunk of the very batch of this iteration (never of the    *)
(* one before, of an attempt that failed, or of a chunk computed from      *)
(* another length), and no more threads than workers                       *)
(* (rollout_worker.py:45-53, reward_worker.py:40-53, retry.py:29-39).      *)
BatchAgrees ==
    /\ TypeOK
    /\ PromptsAreNew
    /\ pc \notin {"joining", "scoring"} => threads = << >>
    /\ pc \in {"idle", "dispatch", "joining"} => trajectories = << >>
    /\ OnlyDoneShow /\ JoiningFits /\ ScoringFits /\ Accepted

(* A batch that is accepted has every sample of every prompt that was      *)
(* asked for and none of another prompt, whatever order the threads ended  *)
(* in and whatever attempts failed before ("a backend bug that fabricates  *)
(* or drops prompt_ids fails loudly", rollout_worker.py:39-43).            *)
SamplesComplete ==
    pc \in {"score", "scoring", "handed"} =>
        /\ {requests[i] : i \in DOMAIN requests} \X (1 .. SamplesPerPrompt) \subseteq ToSet(trajectories)
        /\ \A x \in DOMAIN trajectories : trajectories[x][1] \in ToSet(requests)

(* Every row a group is trained on carries the reward of its own response  *)
(* and belongs to the prompt of the group, although chunks are scored      *)
(* concurrently and put together by offset (reward_worker.py:40-41), and   *)
(* a backend may return too few or too many scores.                        *)
RewardsAreOwn ==
    pc = "handed" =>
        \A i \in DOMAIN requests :
            /\ Cardinality(DOMAIN groups[i]) >= SamplesPerPrompt
            /\ \A x \in DOMAIN groups[i] :
                 groups[i][x][2] = groups[i][x][1] /\ groups[i][x][1][1] = requests[i]

(* Fewer failures than attempts never lose a batch that is being           *)
(* collected, and the scoring of an accepted batch ends: no pool waits for *)
(* a thread that was not started (rollout_worker.py:48-53).                *)
BatchCollected ==
    /\ (pc = "dispatch") ~> (pc = "score" \/ faults >= MaxAttempts)
    /\ (pc = "scoring") ~> (pc \in {"handed", "raised"})
=============================================================================
