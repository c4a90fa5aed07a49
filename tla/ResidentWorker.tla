--------------------------- MODULE ResidentWorker ---------------------------
(***************************************************************************)
(* LocalVLLMRollout (rollout/local_vllm.py) and its resident worker        *)
(* processes (_local_vllm_worker.py), which share one directory: numbered  *)
(* request and result files, a policy file with its acknowledgement, and a *)
(* shutdown file.  Rollout threads (workers/rollout_worker.py) call        *)
(* generate() of the one backend object; the program may end without       *)
(* unload_policy() and be started again on the same work_dir.              *)
(*                                                                         *)
(* Every call of generate() carries a serial number in place of its        *)
(* prompts, so that an answer to other prompts is visible.                 *)
(***************************************************************************)
EXTENDS Integers, Sequences, FiniteSets

CONSTANTS
    Threads,      \* the rollout threads
    Orphans,      \* may the program end while its worker lives?
    MaxCalls,     \* bound: calls of generate()
    MaxVersion,   \* bound: the versions load_policy() is given
    MaxDeaths,    \* bound: workers that die by themselves
    MaxEnds       \* bound: how often the program ends and is started again

ASSUME ResidentAssumption ==
    /\ Threads # {} /\ IsFiniteSet(Threads)
    /\ Orphans \in BOOLEAN
    /\ {MaxCalls, MaxVersion, MaxDeaths, MaxEnds} \subseteq Nat

VARIABLES
    calls,     \* what each thread does in generate()
    policy,    \* _policy_version
    proc,      \* _proc: the worker started last by this program, 0 if none
    nextN,     \* _next_n
    loaded,    \* _loaded_version_on_worker
    workers,   \* the workers ever started
    dir,       \* the files of work_dir
    sampled,   \* the threads that returned trajectories of the policy in use
    issued,    \* ghost: the calls of generate() so far
    deaths,    \* workers that died by themselves
    ends       \* programs that ended

backend == <<policy, proc, nextN, loaded>>
bounds == <<deaths, ends>>
vars == <<calls, policy, proc, nextN, loaded, workers, dir, sampled, issued, deaths, ends>>

None == -1
Numbers == 1 .. MaxCalls
Versions == 0 .. MaxVersion
Files == [n: Numbers, call: Numbers]

Working == {"check", "start", "push", "ack", "take", "count", "write", "wait"}

CallsTyped ==
    calls \in [Threads -> [pc: Working \cup {"idle", "returned", "unloading"},
                          call: 0 .. MaxCalls, n: 0 .. MaxCalls, answer: 0 .. MaxCalls]]

BackendTyped ==
    /\ policy \in Versions \cup {None}
    /\ proc \in 0 .. Len(workers)
    /\ nextN \in 1 .. MaxCalls + 1
    /\ loaded \in Versions \cup {None}

WorkersTyped ==
    workers \in Seq([phase: {"boot", "poll", "ack", "busy", "dead"}, next: 1 .. MaxCalls + 1,
                     job: 0 .. MaxCalls, told: Versions \cup {None}])

DirTyped ==
    dir \in [request: SUBSET Files, result: SUBSET Files, policy: Versions \cup {None},
            done: SUBSET Versions, shutdown: BOOLEAN]

BoundsTyped ==
    /\ sampled \subseteq Threads
    /\ issued \in 0 .. MaxCalls
    /\ deaths \in 0 .. MaxDeaths
    /\ ends \in 0 .. MaxEnds

TypeOK == CallsTyped /\ BackendTyped /\ WorkersTyped /\ DirTyped /\ BoundsTyped

EmptyDir == [request |-> {}, result |-> {}, policy |-> None, done |-> {}, shutdown |-> FALSE]
NoCall == [pc |-> "idle", call |-> 0, n |-> 0, answer |-> 0]
Booting == [phase |-> "boot", next |-> 1, job |-> 0, told |-> None]

Live == {w \in DOMAIN workers : workers[w].phase # "dead"}

\* _proc is not None and _proc.poll() is None.
Alive == proc \in Live

AllIdle == \A t \in Threads : calls[t].pc = "idle"

Init ==
    /\ calls = [t \in Threads |-> NoCall]
    /\ policy = None
    /\ proc = 0
    /\ nextN = 1
    /\ loaded = None
    /\ workers = <<>>
    /\ dir = EmptyDir
    /\ sampled = {}
    /\ issued = 0
    /\ deaths = 0
    /\ ends = 0

At(t, point) == calls[t].pc = point
Goes(t, point) == calls' = [calls EXCEPT ![t] = [@ EXCEPT !.pc = point]]
Raises(t) == calls' = [calls EXCEPT ![t] = NoCall]

-----------------------------------------------------------------------------
(* generate() *)

\* load_policy() only records the version.  The first one is the initial policy's;
\* the others come from training, which takes what every thread returned.
LoadPolicy ==
    /\ AllIdle
    /\ policy = None \/ sampled = Threads
    /\ policy < MaxVersion
    /\ policy' = policy + 1
    /\ sampled' = {}
    /\ UNCHANGED <<calls, proc, nextN, loaded, workers, dir, issued, bounds>>

Generate(t) ==
    /\ At(t, "idle")
    /\ policy # None
    /\ issued < MaxCalls
    /\ issued' = issued + 1
    /\ sampled' = sampled \ {t}
    /\ calls' = [calls EXCEPT ![t] = [NoCall EXCEPT !.pc = "check", !.call = issued']]
    /\ UNCHANGED <<backend, workers, dir, bounds>>

\* _ensure_started(): poll() of the process.
CheckWorker(t) ==
    /\ At(t, "check")
    /\ Goes(t, IF Alive THEN "push" ELSE "start")
    /\ UNCHANGED <<backend, workers, dir, sampled, issued, bounds>>

StartsWorker(t, files, number, version) ==
    /\ At(t, "start")
    /\ dir' = files
    /\ workers' = Append(workers, Booting)
    /\ proc' = Len(workers')
    /\ nextN' = number
    /\ loaded' = version
    /\ Goes(t, "push")
    /\ UNCHANGED <<policy, sampled, issued, bounds>>

SpawnKeepsFiles(t) == StartsWorker(t, dir, 1, None)
SpawnKeepsNumber(t) == StartsWorker(t, EmptyDir, nextN, None)
SpawnKeepsLoaded(t) == StartsWorker(t, EmptyDir, 1, loaded)

\* The rest of _ensure_started(): the directory is emptied, a worker started and
\* what was counted for the one before forgotten.
Spawn(t) == StartsWorker(t, EmptyDir, 1, None)

\* _push_policy_if_changed(): the policy file is renamed into place.
PushPolicy(t) ==
    /\ At(t, "push")
    /\ IF loaded = policy
       THEN Goes(t, "take") /\ UNCHANGED dir
       ELSE Goes(t, "ack") /\ dir' = [dir EXCEPT !.policy = policy]
    /\ UNCHANGED <<backend, workers, sampled, issued, bounds>>

SeesAck(t) ==
    /\ At(t, "ack")
    /\ policy \in dir.done
    /\ dir' = [dir EXCEPT !.done = dir.done \ {policy}]
    /\ loaded' = policy
    /\ Goes(t, "take")
    /\ UNCHANGED <<policy, proc, nextN, workers, sampled, issued, bounds>>

PreIncrements(t) ==
    /\ At(t, "take")
    /\ calls' = [calls EXCEPT ![t] = [@ EXCEPT !.pc = "count", !.n = nextN + 1]]
    /\ UNCHANGED <<backend, workers, dir, sampled, issued, bounds>>

\* n = self._next_n
TakesNumber(t) ==
    /\ At(t, "take")
    /\ calls' = [calls EXCEPT ![t] = [@ EXCEPT !.pc = "count", !.n = nextN]]
    /\ UNCHANGED <<backend, workers, dir, sampled, issued, bounds>>

\* self._next_n += 1, a statement of its own that no lock joins to the first.
CountsNumber(t) ==
    /\ At(t, "count")
    /\ nextN' = nextN + 1
    /\ Goes(t, "write")
    /\ UNCHANGED <<policy, proc, loaded, workers, dir, sampled, issued, bounds>>

\* A file replaces the one of the same number.
Put(files, file) == {f \in files : f.n # file.n} \cup {file}

WritesRequest(t) ==
    /\ At(t, "write")
    /\ dir' = [dir EXCEPT !.request = Put(dir.request, [n |-> calls[t].n, call |-> calls[t].call])]
    /\ Goes(t, "wait")
    /\ UNCHANGED <<backend, workers, sampled, issued, bounds>>

\* The result file exists: its completions are paired with the prompts of the call.
ReadsResult(t) ==
    /\ At(t, "wait")
    /\ \E f \in dir.result :
         /\ f.n = calls[t].n
         /\ calls' = [calls EXCEPT ![t] = [@ EXCEPT !.pc = "returned", !.answer = f.call]]
    /\ UNCHANGED <<backend, workers, dir, sampled, issued, bounds>>

\* The trajectories go to the caller.
Return(t) ==
    /\ At(t, "returned")
    /\ calls' = [calls EXCEPT ![t] = NoCall]
    /\ sampled' = sampled \cup {t}
    /\ UNCHANGED <<backend, workers, dir, issued, bounds>>

\* The loops of _push_policy_if_changed() and generate() raise when the worker
\* is found dead.
FindsDead(t) ==
    /\ calls[t].pc \in {"ack", "wait"}
    /\ ~Alive
    /\ Raises(t)
    /\ UNCHANGED <<backend, workers, dir, sampled, issued, bounds>>

\* ... or at generate_timeout_s.  The files stay.
TimesOut(t) ==
    /\ calls[t].pc \in {"ack", "wait"}
    /\ Raises(t)
    /\ UNCHANGED <<backend, workers, dir, sampled, issued, bounds>>

-----------------------------------------------------------------------------
(* The end of the program *)

\* unload_policy(): the worker is asked to end.
Unload ==
    /\ AllIdle
    /\ ends < MaxEnds
    /\ policy' = None
    /\ dir' = IF Alive THEN [dir EXCEPT !.shutdown = TRUE] ELSE dir
    /\ calls' = [t \in Threads |-> [NoCall EXCEPT !.pc = "unloading"]]
    /\ UNCHANGED <<proc, nextN, loaded, workers, sampled, issued, bounds>>

LeavesItRunning ==
    /\ \A t \in Threads : calls[t].pc = "unloading"
    /\ proc' = 0
    /\ calls' = [t \in Threads |-> NoCall]
    /\ UNCHANGED <<policy, nextN, loaded, workers, dir, sampled, issued, bounds>>

\* It ended within 30 seconds, or is killed.  The object can be used again.
Unloaded ==
    /\ \A t \in Threads : calls[t].pc = "unloading"
    /\ workers' = [w \in DOMAIN workers |-> IF w = proc THEN [workers[w] EXCEPT !.phase = "dead"] ELSE workers[w]]
    /\ proc' = 0
    /\ calls' = [t \in Threads |-> NoCall]
    /\ UNCHANGED <<policy, nextN, loaded, dir, sampled, issued, bounds>>

\* The program ends and another one is started on the same work_dir.  A worker
\* that was not unloaded goes on polling.
Restart ==
    /\ ends < MaxEnds
    /\ Orphans \/ Live = {}
    /\ ends' = ends + 1
    /\ calls' = [t \in Threads |-> NoCall]
    /\ policy' = None
    /\ proc' = 0
    /\ nextN' = 1
    /\ loaded' = None
    /\ sampled' = {}
    /\ UNCHANGED <<workers, dir, issued, deaths>>

-----------------------------------------------------------------------------
(* A worker process *)

Worker(w, phase) == w \in DOMAIN workers /\ workers[w].phase = phase

\* The engine starts, unless another worker holds the chips: then it fails.
Boot(w) ==
    /\ Worker(w, "boot")
    /\ LET taken == \E other \in Live \ {w} : workers[other].phase # "boot"
       IN  workers' = [workers EXCEPT ![w] = [@ EXCEPT !.phase = IF taken THEN "dead" ELSE "poll"]]
    /\ UNCHANGED <<calls, backend, dir, sampled, issued, bounds>>

SeesShutdown(w) ==
    /\ Worker(w, "poll")
    /\ dir.shutdown
    /\ workers' = [workers EXCEPT ![w] = [@ EXCEPT !.phase = "dead"]]
    /\ UNCHANGED <<calls, backend, dir, sampled, issued, bounds>>

Requested(w) == {f \in dir.request : f.n = workers[w].next}

\* The request file it waits for exists and is read.
TakesRequest(w) ==
    /\ Worker(w, "poll")
    /\ ~dir.shutdown
    /\ \E f \in Requested(w) : workers' = [workers EXCEPT ![w] = [@ EXCEPT !.phase = "busy", !.job = f.call]]
    /\ UNCHANGED <<calls, backend, dir, sampled, issued, bounds>>

\* No request is there, but a policy file, which it reads.
ReadsPolicy(w) ==
    /\ Worker(w, "poll")
    /\ ~dir.shutdown
    /\ Requested(w) = {}
    /\ dir.policy # None
    /\ workers' = [workers EXCEPT ![w] = [@ EXCEPT !.phase = "ack", !.told = dir.policy]]
    /\ UNCHANGED <<calls, backend, dir, sampled, issued, bounds>>

\* It removes the policy file, which may be another one by now, and acknowledges
\* what it read.  Removing a file that is gone ends the worker.
AcksPolicy(w) ==
    /\ Worker(w, "ack")
    /\ IF dir.policy = None
       THEN workers' = [workers EXCEPT ![w] = [@ EXCEPT !.phase = "dead"]] /\ UNCHANGED dir
       ELSE /\ workers' = [workers EXCEPT ![w] = [@ EXCEPT !.phase = "poll"]]
            /\ dir' = [dir EXCEPT !.policy = None, !.done = dir.done \cup {workers[w].told}]
    /\ UNCHANGED <<calls, backend, sampled, issued, bounds>>

\* llm.generate() returned: the result is renamed into place.
WritesResult(w) ==
    /\ Worker(w, "busy")
    /\ dir' = [dir EXCEPT !.result = Put(dir.result, [n |-> workers[w].next, call |-> workers[w].job])]
    /\ workers' = [workers EXCEPT ![w] = [@ EXCEPT !.phase = "poll", !.next = workers[w].next + 1, !.job = 0]]
    /\ UNCHANGED <<calls, backend, sampled, issued, bounds>>

Dies(w) ==
    /\ w \in Live
    /\ deaths < MaxDeaths
    /\ deaths' = deaths + 1
    /\ workers' = [workers EXCEPT ![w] = [@ EXCEPT !.phase = "dead"]]
    /\ UNCHANGED <<calls, backend, dir, sampled, issued, ends>>

-----------------------------------------------------------------------------
ThreadRuns(t) ==
    \/ CheckWorker(t)
    \/ Spawn(t)
    \/ PushPolicy(t)
    \/ SeesAck(t)
    \/ TakesNumber(t)
    \/ CountsNumber(t)
    \/ WritesRequest(t)
    \/ ReadsResult(t)
    \/ Return(t)
    \/ FindsDead(t)

WorkerRuns(w) ==
    \/ Boot(w)
    \/ SeesShutdown(w)
    \/ TakesRequest(w)
    \/ ReadsPolicy(w)
    \/ AcksPolicy(w)
    \/ WritesResult(w)

\* Nothing is left to do within the bounds.
Finished ==
    /\ AllIdle
    /\ issued = MaxCalls
    /\ UNCHANGED vars

Next ==
    \/ LoadPolicy
    \/ \E t \in Threads : Generate(t) \/ ThreadRuns(t) \/ TimesOut(t)
    \/ Unload
    \/ Unloaded
    \/ Restart
    \/ \E w \in DOMAIN workers : WorkerRuns(w) \/ Dies(w)
    \/ Finished

Spec == Init /\ [][Next]_vars

MaxWorkers == MaxCalls

\* Threads run, and so do the workers' polling loops.  Deadlines are never relied
\* on: a wait that only its deadline ends has not been answered.
FairSpec ==
    /\ Spec
    /\ \A t \in Threads : WF_vars(ThreadRuns(t))
    /\ \A w \in 1 .. MaxWorkers : WF_vars(WorkerRuns(w))

-----------------------------------------------------------------------------
(* The completions a call returns were sampled for its own prompts, through*)
(* timeouts, retries and workers that die (generate() pairs them by their  *)
(* position only).                                                         *)
AnswersAreOwn == \A t \in Threads : At(t, "returned") => calls[t].answer = calls[t].call

(* A request is handed only to a worker that acknowledged the version its  *)
(* trajectories will be stamped with, whichever acknowledgements came late *)
(* or were lost with their worker (_push_policy_if_changed).               *)
WorkerKnowsPolicy ==
    \A t \in Threads :
        At(t, "write") /\ Alive => workers[proc].told = policy

(* One worker polls the directory: a program that starts a worker, and one *)
(* that unloads its policy, leave none behind (_ensure_started and         *)
(* unload_policy).                                                         *)
OneWorker == Cardinality(Live) <= 1

(* A request that was handed over is answered, unless its worker is found  *)
(* dead or its deadline passes: it never carries a number that the worker  *)
(* is not going to look for (the numbers of backend and worker agree, also *)
(* after timeouts and after a worker's death).                             *)
RequestsAnswered == \A t \in Threads : At(t, "wait") ~> ~At(t, "wait")

-----------------------------------------------------------------------------
(* The inductive invariant, part by part.  TypeOK, NumbersSuffice and       *)
(* WorkersFit need neither one thread nor the absence of orphans.          *)

\* One rollout worker: the default, which the example of this backend keeps.
OneThread == \A s, t \in Threads : s = t

\* The worker started last is the only one, and none is started beside it.
LastIsOnly ==
    /\ Live \subseteq {proc}
    /\ \A t \in Threads : At(t, "start") => ~Alive

InCall(t) == calls[t].pc \in Working \cup {"returned"}
BeforeCount(t) == calls[t].pc \in {"check", "start", "push", "ack", "take", "count"}
Started(t) == calls[t].pc \in {"push", "ack", "take", "count", "write", "wait"}

Uncounted == {t \in Threads : BeforeCount(t)}

\* Every call that has yet to count its number finds one within the bound, however
\* many threads take numbers and whichever of them start a worker meanwhile.
NumbersSuffice ==
    /\ nextN + Cardinality(Uncounted) <= issued + 1
    /\ \A t \in Threads :
         /\ InCall(t) => calls[t].call # 0
         /\ calls[t].pc \in {"count", "write", "wait"} => calls[t].n # 0

\* A call is made with a policy and a worker, and its number is the last one taken.
CallsFit ==
    /\ policy = None /\ AllIdle => ~Alive
    /\ \A t \in Threads :
         /\ InCall(t) => policy # None
         /\ Started(t) => proc # 0
         /\ At(t, "count") => calls[t].n = nextN
         /\ calls[t].pc \in {"write", "wait"} => calls[t].n = nextN - 1

\* A worker is busy with a request that was written, and acknowledges a version.
WorkersFit ==
    \A w \in DOMAIN workers :
        /\ workers[w].phase = "busy" => workers[w].next \in Numbers /\ workers[w].job \in Numbers
        /\ workers[w].phase = "ack" => workers[w].told \in Versions

\* The requests that were written, are worked on or are answered.
Asked ==
    dir.request \cup dir.result
      \cup {[n |-> workers[w].next, call |-> workers[w].job] : w \in {v \in DOMAIN workers : workers[v].phase = "busy"}}

\* A number is of one call only, from before its request is written.
NumbersAgree ==
    proc # 0 =>
        \A f \in Asked :
            /\ f.n < nextN
            /\ \A t \in Threads :
                 /\ At(t, "write") => f.n < calls[t].n
                 /\ At(t, "wait") /\ f.n = calls[t].n => f.call = calls[t].call

\* What the backend believes the worker to have, what the worker was told, the
\* policy file and the policy in use only ever follow each other.
VersionsAgree ==
    /\ Alive /\ policy # None =>
         /\ loaded <= workers[proc].told
         /\ workers[proc].told <= policy
         /\ dir.policy # None => workers[proc].told <= dir.policy /\ dir.policy <= policy
         /\ \A v \in dir.done : v <= workers[proc].told
    /\ \A t \in Threads : calls[t].pc \in {"take", "count", "write"} => loaded = policy

(* The numbers, versions and processes of the backend and of its worker    *)
(* agree: the request that is written next has a number no file and no     *)
(* worker knows, and no version is believed loaded that the worker was not *)
(* told (local_vllm.py, _ensure_started to generate).                      *)
WorkerAgrees ==
    TypeOK /\ NumbersSuffice /\ WorkersFit /\ CallsFit /\ LastIsOnly /\ NumbersAgree /\ VersionsAgree
=============================================================================
