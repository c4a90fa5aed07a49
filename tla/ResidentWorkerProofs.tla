------------------------ MODULE ResidentWorkerProofs ------------------------
(***************************************************************************)
(* What a resident worker and its backend guarantee for every number of    *)
(* calls, versions, deaths and programs.  The types hold for any number of *)
(* rollout threads; the rest for one, when no program leaves a worker      *)
(* behind.                                                                 *)
(***************************************************************************)
EXTENDS ResidentWorker, SequenceTheorems, FiniteSetTheorems, TLAPS

Points == Working \cup {"idle", "returned", "unloading"}
Phases == {"boot", "poll", "ack", "busy", "dead"}
CallRecord == [pc: Points, call: 0 .. MaxCalls, n: 0 .. MaxCalls, answer: 0 .. MaxCalls]
WorkerRecord == [phase: Phases, next: 1 .. MaxCalls + 1, job: 0 .. MaxCalls, told: Versions \cup {None}]

LEMMA Bounds == MaxCalls \in Nat /\ MaxVersion \in Nat /\ MaxDeaths \in Nat /\ MaxEnds \in Nat
  BY ResidentAssumption

(* The numbers the parts of the state hold.                                *)
LEMMA Numeric ==
    ASSUME TypeOK
    PROVE  /\ policy \in Int /\ loaded \in Int /\ nextN \in Nat /\ issued \in Nat
           /\ proc \in Nat /\ Len(workers) \in Nat
           /\ DOMAIN workers = 1 .. Len(workers) /\ workers \in Seq(WorkerRecord)
           /\ \A w \in DOMAIN workers : workers[w] \in WorkerRecord /\ workers[w].told \in Int
                /\ workers[w].next \in Nat
           /\ calls \in [Threads -> CallRecord]
           /\ \A t \in Threads : calls[t] \in CallRecord /\ calls[t].n \in Nat
<1>1. workers \in Seq(WorkerRecord) /\ calls \in [Threads -> CallRecord]
  BY DEF TypeOK, WorkersTyped, WorkerRecord, Phases, CallsTyped, CallRecord, Points
<1>2. DOMAIN workers = 1 .. Len(workers) /\ Len(workers) \in Nat
  BY <1>1, LenProperties
<1>3. \A w \in DOMAIN workers : workers[w] \in WorkerRecord
  BY <1>1, <1>2, ElementOfSeq
<1>4. \A w \in DOMAIN workers : workers[w].told \in Int /\ workers[w].next \in Nat
  BY <1>3, Bounds DEF WorkerRecord, Versions, None
<1>5. \A t \in Threads : calls[t] \in CallRecord /\ calls[t].n \in Nat
  BY <1>1, Bounds DEF CallRecord
<1>6. policy \in Int /\ loaded \in Int /\ nextN \in Nat /\ issued \in Nat /\ proc \in Nat
  BY <1>2, Bounds DEF TypeOK, BackendTyped, BoundsTyped, Versions, None
<1>7. QED
  BY <1>1, <1>2, <1>3, <1>4, <1>5, <1>6

-----------------------------------------------------------------------------
(* What the steps of a thread and of a worker change.                      *)
OthersWait(t) == \A s \in Threads : s # t => calls'[s] = calls[s]
OthersLive(w) == \A v \in DOMAIN workers : v # w => workers'[v] = workers[v]

LEMMA CallChanges ==
    ASSUME CallsTyped, NEW t \in Threads, NEW c \in CallRecord, calls' = [calls EXCEPT ![t] = c]
    PROVE  CallsTyped' /\ calls'[t] = c /\ OthersWait(t)
<1>1. calls \in [Threads -> CallRecord]
  BY DEF CallsTyped, CallRecord, Points
<1>2. calls' \in [Threads -> CallRecord] /\ calls'[t] = c /\ OthersWait(t)
  BY <1>1 DEF OthersWait
<1>3. QED
  BY <1>2 DEF CallsTyped, CallRecord, Points

LEMMA GoesChanges ==
    ASSUME CallsTyped, NEW t \in Threads, NEW point \in Points, Goes(t, point)
    PROVE  /\ CallsTyped' /\ OthersWait(t)
           /\ calls'[t].pc = point /\ calls'[t].call = calls[t].call
           /\ calls'[t].n = calls[t].n /\ calls'[t].answer = calls[t].answer
<1> DEFINE c == [calls[t] EXCEPT !.pc = point]
<1>1. calls[t] \in CallRecord
  BY DEF CallsTyped, CallRecord, Points
<1>2. /\ c \in CallRecord
      /\ c.pc = point /\ c.call = calls[t].call /\ c.n = calls[t].n /\ c.answer = calls[t].answer
  BY <1>1 DEF CallRecord
<1>3. calls' = [calls EXCEPT ![t] = c]
  BY DEF Goes
<1> HIDE DEF c
<1>4. CallsTyped' /\ calls'[t] = c /\ OthersWait(t)
  BY <1>2, <1>3, CallChanges
<1>5. QED
  BY <1>2, <1>4

LEMMA GenerateChanges ==
    ASSUME CallsTyped, issued \in 0 .. MaxCalls, NEW t \in Threads, Generate(t)
    PROVE  /\ CallsTyped' /\ OthersWait(t) /\ calls[t].pc = "idle" /\ policy # None
           /\ issued' = issued + 1 /\ issued' \in 1 .. MaxCalls
           /\ calls'[t].pc = "check" /\ calls'[t].call = issued'
<1> DEFINE c == [NoCall EXCEPT !.pc = "check", !.call = issued']
<1>1. issued < MaxCalls /\ issued' = issued + 1
  BY DEF Generate
<1>2. issued' \in 1 .. MaxCalls
  BY <1>1, Bounds
<1>3. c \in CallRecord /\ c.pc = "check" /\ c.call = issued'
  <2>1. NoCall \in CallRecord
    BY Bounds DEF CallRecord, NoCall, Points
  <2>2. ASSUME NEW i \in 0 .. MaxCalls, c = [NoCall EXCEPT !.pc = "check", !.call = i]
        PROVE  c \in CallRecord /\ c.pc = "check" /\ c.call = i
    BY <2>1, <2>2 DEF CallRecord, Points, Working
  <2>3. issued' \in 0 .. MaxCalls
    BY <1>2
  <2>4. QED
    BY <2>2, <2>3
<1>4. calls' = [calls EXCEPT ![t] = c] /\ calls[t].pc = "idle" /\ policy # None
  BY Zenon DEF Generate, At
<1> HIDE DEF c
<1>5. CallsTyped' /\ calls'[t] = c /\ OthersWait(t)
  BY <1>3, <1>4, CallChanges
<1>6. QED
  BY <1>1, <1>2, <1>3, <1>4, <1>5

LEMMA NumberChanges ==
    ASSUME CallsTyped, NEW t \in Threads, TakesNumber(t), nextN \in 0 .. MaxCalls
    PROVE  /\ CallsTyped' /\ OthersWait(t) /\ calls[t].pc = "take"
           /\ calls'[t].pc = "count" /\ calls'[t].n = nextN /\ calls'[t].call = calls[t].call
<1> DEFINE c == [calls[t] EXCEPT !.pc = "count", !.n = nextN]
<1>1. calls[t] \in CallRecord
  BY DEF CallsTyped, CallRecord, Points
<1>2. c \in CallRecord /\ c.pc = "count" /\ c.n = nextN /\ c.call = calls[t].call
  BY <1>1 DEF CallRecord, Points, Working
<1>3. calls' = [calls EXCEPT ![t] = c] /\ calls[t].pc = "take"
  BY DEF TakesNumber, At
<1> HIDE DEF c
<1>4. CallsTyped' /\ calls'[t] = c /\ OthersWait(t)
  BY <1>2, <1>3, CallChanges
<1>5. QED
  BY <1>2, <1>3, <1>4

LEMMA AnswerChanges ==
    ASSUME CallsTyped, DirTyped, NEW t \in Threads, ReadsResult(t)
    PROVE  /\ CallsTyped' /\ OthersWait(t) /\ calls[t].pc = "wait"
           /\ calls'[t].pc = "returned" /\ calls'[t].call = calls[t].call
           /\ \E f \in dir.result : f.n = calls[t].n /\ calls'[t].answer = f.call
<1>1. PICK f \in dir.result :
        f.n = calls[t].n /\ calls' = [calls EXCEPT ![t] = [calls[t] EXCEPT !.pc = "returned", !.answer = f.call]]
  BY DEF ReadsResult
<1> DEFINE c == [calls[t] EXCEPT !.pc = "returned", !.answer = f.call]
<1>2. calls[t] \in CallRecord /\ f.call \in 0 .. MaxCalls
  BY Bounds DEF CallsTyped, CallRecord, Points, DirTyped, Files, Numbers
<1>3. c \in CallRecord /\ c.pc = "returned" /\ c.answer = f.call /\ c.call = calls[t].call
  BY <1>2 DEF CallRecord, Points
<1>4. calls' = [calls EXCEPT ![t] = c] /\ calls[t].pc = "wait"
  BY <1>1 DEF ReadsResult, At
<1> HIDE DEF c
<1>5. CallsTyped' /\ calls'[t] = c /\ OthersWait(t)
  BY <1>3, <1>4, CallChanges
<1>6. QED
  BY <1>1, <1>3, <1>4, <1>5

(* A call that ends, however it ends.                                      *)
LEMMA RaiseChanges ==
    ASSUME CallsTyped, NEW t \in Threads, Raises(t)
    PROVE  CallsTyped' /\ OthersWait(t) /\ calls'[t].pc = "idle"
<1>1. NoCall \in CallRecord /\ NoCall.pc = "idle"
  BY Bounds DEF NoCall, CallRecord, Points
<1>2. CallsTyped' /\ calls'[t] = NoCall /\ OthersWait(t)
  BY <1>1, CallChanges DEF Raises
<1>3. QED
  BY <1>1, <1>2

(* All threads are put to rest, for good or while the worker is unloaded.  *)
LEMMA AllRest ==
    ASSUME calls' = [t \in Threads |-> NoCall]
    PROVE  CallsTyped' /\ \A t \in Threads : calls'[t].pc = "idle"
<1>1. NoCall \in CallRecord /\ NoCall.pc = "idle"
  BY Bounds DEF NoCall, CallRecord, Points
<1>2. calls' \in [Threads -> CallRecord] /\ \A t \in Threads : calls'[t].pc = "idle"
  BY <1>1
<1>3. QED
  BY <1>2 DEF CallsTyped, CallRecord, Points

LEMMA AllUnload ==
    ASSUME calls' = [t \in Threads |-> [NoCall EXCEPT !.pc = "unloading"]]
    PROVE  CallsTyped' /\ \A t \in Threads : calls'[t].pc = "unloading"
<1> DEFINE c == [NoCall EXCEPT !.pc = "unloading"]
<1>1. c \in CallRecord /\ c.pc = "unloading"
  BY Bounds DEF NoCall, CallRecord, Points
<1> HIDE DEF c
<1>2. calls' \in [Threads -> CallRecord] /\ \A t \in Threads : calls'[t].pc = "unloading"
  BY <1>1 DEF c
<1>3. QED
  BY <1>2 DEF CallsTyped, CallRecord, Points

(* The record of one worker is replaced.                                   *)
LEMMA WorkerChanges ==
    ASSUME workers \in Seq(WorkerRecord), NEW w \in DOMAIN workers, NEW k \in WorkerRecord,
           workers' = [workers EXCEPT ![w] = k]
    PROVE  /\ workers' \in Seq(WorkerRecord) /\ WorkersTyped'
           /\ Len(workers') = Len(workers) /\ DOMAIN workers' = DOMAIN workers
           /\ workers'[w] = k /\ OthersLive(w)
<1>1. workers' \in Seq(WorkerRecord) /\ Len(workers') = Len(workers) /\ DOMAIN workers' = DOMAIN workers
  BY ExceptSeq, LenProperties
<1>2. workers'[w] = k /\ OthersLive(w)
  BY DEF OthersLive
<1>3. QED
  BY <1>1, <1>2 DEF WorkersTyped, WorkerRecord, Phases

(* A worker that is not dead takes a step: which fields it may change.     *)
LEMMA WorkerSteps ==
    ASSUME TypeOK, WorkersFit, NEW w \in DOMAIN workers, WorkerRuns(w) \/ Dies(w)
    PROVE  /\ w \in Live
           /\ WorkersTyped' /\ Len(workers') = Len(workers) /\ DOMAIN workers' = DOMAIN workers
           /\ OthersLive(w)
           /\ UNCHANGED <<calls, backend, sampled, issued, ends>>
           /\ \/ /\ workers'[w].phase \in {"poll", "dead"}
                 /\ workers'[w].next = workers[w].next /\ workers'[w].told = workers[w].told
                 /\ UNCHANGED dir
              \/ /\ TakesRequest(w) /\ workers'[w].phase = "busy"
                 /\ workers'[w].next = workers[w].next /\ workers'[w].told = workers[w].told
                 /\ \E f \in dir.request : f.n = workers[w].next /\ workers'[w].job = f.call
                 /\ UNCHANGED dir
              \/ /\ ReadsPolicy(w) /\ workers'[w].phase = "ack"
                 /\ workers'[w].told = dir.policy /\ dir.policy # None
                 /\ UNCHANGED dir
              \/ /\ AcksPolicy(w) /\ workers'[w].phase = "poll" /\ workers[w].phase = "ack"
                 /\ workers'[w].next = workers[w].next /\ workers'[w].told = workers[w].told
                 /\ dir' = [dir EXCEPT !.policy = None, !.done = dir.done \cup {workers[w].told}]
              \/ /\ WritesResult(w) /\ workers'[w].phase = "poll" /\ workers[w].phase = "busy"
                 /\ workers'[w].told = workers[w].told
                 /\ dir' = [dir EXCEPT !.result = Put(dir.result, [n |-> workers[w].next, call |-> workers[w].job])]
<1>1. workers \in Seq(WorkerRecord) /\ workers[w] \in WorkerRecord
  BY Numeric
<1>2. ASSUME NEW p \in Phases, workers' = [workers EXCEPT ![w] = [workers[w] EXCEPT !.phase = p]]
      PROVE  /\ WorkersTyped' /\ Len(workers') = Len(workers) /\ DOMAIN workers' = DOMAIN workers
             /\ OthersLive(w) /\ workers'[w].phase = p
             /\ workers'[w].next = workers[w].next /\ workers'[w].told = workers[w].told
  <2> DEFINE k == [workers[w] EXCEPT !.phase = p]
  <2>1. k \in WorkerRecord /\ k.phase = p /\ k.next = workers[w].next /\ k.told = workers[w].told
    BY <1>1 DEF WorkerRecord
  <2>2. workers' = [workers EXCEPT ![w] = k]
    BY <1>2
  <2> HIDE DEF k
  <2>3. QED
    BY <1>1, <2>1, <2>2, WorkerChanges
<1>3. CASE Boot(w)
  <2>1. PICK p \in {"dead", "poll"} : workers' = [workers EXCEPT ![w] = [workers[w] EXCEPT !.phase = p]]
    BY <1>3 DEF Boot
  <2>2. p \in Phases
    BY DEF Phases
  <2>3. QED
    BY <1>2, <1>3, <2>1, <2>2 DEF Boot, Worker, Live, bounds
<1>4. CASE SeesShutdown(w) \/ Dies(w)
  <2>1. "dead" \in Phases
    BY DEF Phases
  <2>2. QED
    BY <1>2, <1>4, <2>1 DEF SeesShutdown, Dies, Worker, Live, bounds
<1>5. CASE TakesRequest(w)
  <2>1. PICK f \in Requested(w) :
          workers' = [workers EXCEPT ![w] = [workers[w] EXCEPT !.phase = "busy", !.job = f.call]]
    BY <1>5 DEF TakesRequest
  <2> DEFINE k == [workers[w] EXCEPT !.phase = "busy", !.job = f.call]
  <2>2. f \in dir.request /\ f.n = workers[w].next /\ f.call \in 0 .. MaxCalls
    BY Bounds DEF TypeOK, DirTyped, Files, Numbers, Requested
  <2>3. /\ k \in WorkerRecord /\ k.phase = "busy" /\ k.next = workers[w].next /\ k.told = workers[w].told
        /\ k.job = f.call
    BY <1>1, <2>2 DEF WorkerRecord, Phases
  <2>4. workers' = [workers EXCEPT ![w] = k]
    BY <2>1
  <2> HIDE DEF k
  <2>5. /\ WorkersTyped' /\ Len(workers') = Len(workers) /\ DOMAIN workers' = DOMAIN workers
        /\ workers'[w] = k /\ OthersLive(w)
    BY <1>1, <2>3, <2>4, WorkerChanges
  <2>6. w \in Live /\ UNCHANGED <<calls, backend, sampled, issued, ends, dir>>
    BY <1>5 DEF TakesRequest, Worker, Live, bounds
  <2>7. QED
    BY <1>5, <2>2, <2>3, <2>5, <2>6
<1>6. CASE ReadsPolicy(w)
  <2> DEFINE k == [workers[w] EXCEPT !.phase = "ack", !.told = dir.policy]
  <2>1. dir.policy \in Versions \cup {None} /\ dir.policy # None
    BY <1>6 DEF TypeOK, DirTyped, ReadsPolicy
  <2>2. k \in WorkerRecord /\ k.phase = "ack" /\ k.told = dir.policy
    BY <1>1, <2>1 DEF WorkerRecord, Phases
  <2>3. workers' = [workers EXCEPT ![w] = k]
    BY <1>6 DEF ReadsPolicy
  <2> HIDE DEF k
  <2>4. /\ WorkersTyped' /\ Len(workers') = Len(workers) /\ DOMAIN workers' = DOMAIN workers
        /\ workers'[w] = k /\ OthersLive(w)
    BY <1>1, <2>2, <2>3, WorkerChanges
  <2>5. w \in Live /\ UNCHANGED <<calls, backend, sampled, issued, ends, dir>>
    BY <1>6 DEF ReadsPolicy, Worker, Live, bounds
  <2>6. QED
    BY <1>6, <2>1, <2>2, <2>4, <2>5
<1>7. CASE AcksPolicy(w)
  <2>1. "dead" \in Phases /\ "poll" \in Phases
    BY DEF Phases
  <2>2. w \in Live /\ workers[w].phase = "ack" /\ UNCHANGED <<calls, backend, sampled, issued, ends>>
    BY <1>7 DEF AcksPolicy, Worker, Live, bounds
  <2>3. CASE dir.policy = None
    BY <1>2, <1>7, <2>1, <2>2, <2>3 DEF AcksPolicy
  <2>4. CASE dir.policy # None
    BY <1>2, <1>7, <2>1, <2>2, <2>4 DEF AcksPolicy
  <2>5. QED
    BY <2>3, <2>4
<1>8. CASE WritesResult(w)
  <2> DEFINE k == [workers[w] EXCEPT !.phase = "poll", !.next = workers[w].next + 1, !.job = 0]
  <2>1. workers[w].phase = "busy" /\ workers' = [workers EXCEPT ![w] = k]
    BY <1>8 DEF WritesResult, Worker
  <2>2. workers[w].next + 1 \in 1 .. MaxCalls + 1
    BY <2>1, Bounds DEF WorkersFit, Numbers
  <2>3. k \in WorkerRecord /\ k.phase = "poll" /\ k.told = workers[w].told
    <3>1. ASSUME NEW n \in 1 .. MaxCalls + 1, NEW j \in 0 .. MaxCalls,
                 k = [workers[w] EXCEPT !.phase = "poll", !.next = n, !.job = j]
          PROVE  k \in WorkerRecord /\ k.phase = "poll" /\ k.told = workers[w].told
      BY <1>1, <3>1 DEF WorkerRecord, Phases
    <3>2. 0 \in 0 .. MaxCalls
      BY Bounds
    <3>3. QED
      BY <2>2, <3>1, <3>2
  <2> HIDE DEF k
  <2>4. /\ WorkersTyped' /\ Len(workers') = Len(workers) /\ DOMAIN workers' = DOMAIN workers
        /\ workers'[w] = k /\ OthersLive(w)
    BY <1>1, <2>1, <2>3, WorkerChanges
  <2>5. QED
    BY <1>8, <2>1, <2>3, <2>4 DEF WritesResult, Worker, Live, bounds
<1>9. QED
  BY <1>3, <1>4, <1>5, <1>6, <1>7, <1>8 DEF WorkerRuns

-----------------------------------------------------------------------------
(* Types and counters, for any number of threads.                          *)

LEMMA OnlyThread ==
    ASSUME OneThread, NEW t \in Threads
    PROVE  \A s \in Threads : s = t
  BY DEF OneThread

LEMMA TypesStart ==
    ASSUME Init
    PROVE  TypeOK /\ NumbersSuffice /\ WorkersFit /\ CallsFit
<1>1. NoCall \in CallRecord /\ NoCall.pc = "idle"
  BY Bounds DEF NoCall, CallRecord, Points
<1>2. CallsTyped /\ \A t \in Threads : calls[t].pc = "idle"
  BY <1>1 DEF Init, CallsTyped, CallRecord, Points
<1>3. << >> \in Seq(WorkerRecord) /\ Len(<< >>) = 0 /\ DOMAIN << >> = {}
  BY EmptySeq
<1>4. BackendTyped
  BY <1>3, Bounds DEF Init, BackendTyped
<1>5. WorkersTyped
  BY <1>3 DEF Init, WorkersTyped, WorkerRecord, Phases
<1>6. DirTyped
  BY DEF Init, DirTyped, EmptyDir
<1>7. BoundsTyped
  BY Bounds DEF Init, BoundsTyped
<1>8. WorkersFit /\ ~Alive
  BY <1>3 DEF Init, WorkersFit, Alive, Live
<1>9. CallsFit
  BY <1>2, <1>8 DEF Init, CallsFit, InCall, Started, At, Working
<1>10. NumbersSuffice
  <2>1. Uncounted = {}
    BY <1>2 DEF Uncounted, BeforeCount
  <2>2. QED
    BY <1>2, <2>1, FS_EmptySet DEF Init, NumbersSuffice, InCall, Working
<1>11. QED
  BY <1>2, <1>4, <1>5, <1>6, <1>7, <1>8, <1>9, <1>10 DEF TypeOK

(* The worker that is started is the last one, and dead ones stay so.      *)
LEMMA SpawnChanges ==
    ASSUME TypeOK, NEW t \in Threads, Spawn(t)
    PROVE  /\ CallsTyped' /\ OthersWait(t) /\ calls[t].pc = "start" /\ calls'[t].pc = "push"
           /\ calls'[t].call = calls[t].call
           /\ WorkersTyped' /\ proc' = Len(workers) + 1
           /\ Len(workers') = proc' /\ DOMAIN workers' = 1 .. proc'
           /\ \A w \in DOMAIN workers : workers'[w] = workers[w]
           /\ workers'[proc'].phase = "boot" /\ workers'[proc'].told = None
           /\ dir' = EmptyDir /\ nextN' = 1 /\ loaded' = None
           /\ UNCHANGED <<policy, sampled, issued, bounds>>
<1>1. /\ workers' = Append(workers, Booting) /\ proc' = Len(workers')
      /\ calls[t].pc = "start" /\ Goes(t, "push")
      /\ dir' = EmptyDir /\ nextN' = 1 /\ loaded' = None
      /\ UNCHANGED <<policy, sampled, issued, bounds>>
  BY DEF Spawn, StartsWorker, At
<1>2. Booting \in WorkerRecord /\ Booting.phase = "boot" /\ Booting.told = None
  BY Bounds DEF Booting, WorkerRecord, Phases
<1>3. workers \in Seq(WorkerRecord) /\ DOMAIN workers = 1 .. Len(workers) /\ Len(workers) \in Nat
  BY Numeric
<1>4. /\ workers' \in Seq(WorkerRecord) /\ Len(workers') = Len(workers) + 1
      /\ \A w \in 1 .. Len(workers) : workers'[w] = workers[w]
      /\ workers'[Len(workers) + 1] = Booting
  BY <1>1, <1>2, <1>3, AppendProperties
<1>5. DOMAIN workers' = 1 .. Len(workers')
  BY <1>4, LenProperties
<1>6. "push" \in Points
  BY DEF Points, Working
<1>7. CallsTyped' /\ OthersWait(t) /\ calls'[t].pc = "push" /\ calls'[t].call = calls[t].call
  BY <1>1, <1>6, GoesChanges DEF TypeOK
<1>8. WorkersTyped'
  BY <1>4 DEF WorkersTyped, WorkerRecord, Phases
<1>9. QED
  BY <1>1, <1>2, <1>3, <1>4, <1>5, <1>7, <1>8

(* Unloading ends the worker of this program.                              *)
LEMMA UnloadedChanges ==
    ASSUME TypeOK, Unloaded
    PROVE  /\ CallsTyped' /\ \A t \in Threads : calls'[t].pc = "idle"
           /\ WorkersTyped' /\ Len(workers') = Len(workers) /\ DOMAIN workers' = DOMAIN workers
           /\ \A w \in DOMAIN workers : w # proc => workers'[w] = workers[w]
           /\ proc \in DOMAIN workers => workers'[proc].phase = "dead"
           /\ proc' = 0
           /\ UNCHANGED <<policy, nextN, loaded, dir, sampled, issued, bounds>>
<1>1. /\ workers \in Seq(WorkerRecord) /\ DOMAIN workers = 1 .. Len(workers) /\ Len(workers) \in Nat
      /\ \A w \in DOMAIN workers : workers[w] \in WorkerRecord
  BY Numeric
<1>2. /\ proc' = 0 /\ UNCHANGED <<policy, nextN, loaded, dir, sampled, issued, bounds>>
      /\ calls' = [t \in Threads |-> NoCall]
      /\ workers' = [w \in DOMAIN workers |-> IF w = proc THEN [workers[w] EXCEPT !.phase = "dead"] ELSE workers[w]]
  BY DEF Unloaded
<1>3. \A w \in DOMAIN workers :
        [workers[w] EXCEPT !.phase = "dead"] \in WorkerRecord /\ [workers[w] EXCEPT !.phase = "dead"].phase = "dead"
  BY <1>1 DEF WorkerRecord, Phases
<1>4. workers' \in [1 .. Len(workers) -> WorkerRecord]
  BY <1>1, <1>2, <1>3
<1>5. workers' \in Seq(WorkerRecord) /\ Len(workers') = Len(workers)
  BY <1>1, <1>4
<1>6. CallsTyped' /\ \A t \in Threads : calls'[t].pc = "idle"
  BY <1>2, AllRest
<1>7. WorkersTyped'
  BY <1>5 DEF WorkersTyped, WorkerRecord, Phases
<1>8. QED
  BY <1>1, <1>2, <1>3, <1>5, <1>6, <1>7

(* CallsFit speaks of one thread.                                          *)
LEMMA OneFits ==
    ASSUME OneThread, NEW t \in Threads
    PROVE  /\ CallsFit <=>
                /\ policy = None /\ calls[t].pc = "idle" => ~Alive
                /\ calls[t].pc \in Working \cup {"returned"} => policy # None
                /\ calls[t].pc \in {"push", "ack", "take", "count", "write", "wait"} => proc # 0
                /\ calls[t].pc = "count" => calls[t].n = nextN
                /\ calls[t].pc \in {"write", "wait"} => calls[t].n = nextN - 1
           /\ CallsFit' <=>
                /\ policy' = None /\ calls'[t].pc = "idle" => ~Alive'
                /\ calls'[t].pc \in Working \cup {"returned"} => policy' # None
                /\ calls'[t].pc \in {"push", "ack", "take", "count", "write", "wait"} => proc' # 0
                /\ calls'[t].pc = "count" => calls'[t].n = nextN'
                /\ calls'[t].pc \in {"write", "wait"} => calls'[t].n = nextN' - 1
<1>1. \A s \in Threads : s = t
  BY OnlyThread
<1>2. AllIdle <=> calls[t].pc = "idle"
  BY <1>1 DEF AllIdle
<1>3. AllIdle' <=> calls'[t].pc = "idle"
  BY <1>1 DEF AllIdle
<1>4. QED
  BY <1>1, <1>2, <1>3 DEF CallsFit, InCall, Started, At

(* How the number of calls that have yet to count theirs changes with the  *)
(* step of one thread.                                                     *)
LEMMA UncountedChanges ==
    ASSUME NEW t \in Threads, OthersWait(t)
    PROVE  /\ Cardinality(Uncounted) \in Nat /\ Cardinality(Uncounted') \in Nat
           /\ (calls'[t].pc \in {"check", "start", "push", "ack", "take", "count"} <=> BeforeCount(t))
              => Cardinality(Uncounted') = Cardinality(Uncounted)
           /\ Cardinality(Uncounted') <= Cardinality(Uncounted) + 1
           /\ BeforeCount(t) => Cardinality(Uncounted) > 0
           /\ BeforeCount(t) /\ calls'[t].pc \notin {"check", "start", "push", "ack", "take", "count"}
              => Cardinality(Uncounted') = Cardinality(Uncounted) - 1
<1>1. IsFiniteSet(Uncounted) /\ Cardinality(Uncounted) \in Nat
  BY ResidentAssumption, FS_Subset, FS_CardinalityType DEF Uncounted
<1>2. IsFiniteSet(Uncounted') /\ Cardinality(Uncounted') \in Nat
  BY ResidentAssumption, FS_Subset, FS_CardinalityType DEF Uncounted
<1>3. t \in Uncounted <=> BeforeCount(t)
  BY DEF Uncounted
<1>4. t \in Uncounted' <=> calls'[t].pc \in {"check", "start", "push", "ack", "take", "count"}
  BY DEF Uncounted, BeforeCount
<1>5. Uncounted' \ {t} = Uncounted \ {t}
  BY DEF Uncounted, BeforeCount, OthersWait
<1>6. Cardinality(Uncounted \ {t}) = IF t \in Uncounted THEN Cardinality(Uncounted) - 1
                                        ELSE Cardinality(Uncounted)
  BY <1>1, FS_RemoveElement
<1>7. Cardinality(Uncounted' \ {t}) = IF t \in Uncounted' THEN Cardinality(Uncounted') - 1
                                         ELSE Cardinality(Uncounted')
  BY <1>2, FS_RemoveElement
<1>8. Cardinality(Uncounted \ {t}) \in Nat
  BY <1>1, FS_RemoveElement, FS_CardinalityType
<1> DEFINE C == Cardinality(Uncounted)
           D == Cardinality(Uncounted')
           R == Cardinality(Uncounted \ {t})
<1>9. /\ C \in Nat /\ D \in Nat /\ R \in Nat
      /\ R = IF BeforeCount(t) THEN C - 1 ELSE C
      /\ R = IF calls'[t].pc \in {"check", "start", "push", "ack", "take", "count"} THEN D - 1 ELSE D
  BY <1>1, <1>2, <1>3, <1>4, <1>5, <1>6, <1>7, <1>8
<1> HIDE DEF C, D, R
<1>10. /\ (calls'[t].pc \in {"check", "start", "push", "ack", "take", "count"} <=> BeforeCount(t)) => D = C
       /\ D <= C + 1
       /\ BeforeCount(t) => C > 0
       /\ BeforeCount(t) /\ calls'[t].pc \notin {"check", "start", "push", "ack", "take", "count"} => D = C - 1
  BY <1>9
<1>11. QED
  BY <1>1, <1>2, <1>10 DEF C, D

(* A step of one thread leaves numbers enough: it makes a call, forgets or *)
(* keeps the count before its own number is counted, or is done with it.   *)
LEMMA SufficeStep ==
    ASSUME TypeOK, NumbersSuffice, NEW t \in Threads, OthersWait(t),
           \/ issued' = issued + 1 /\ nextN' = nextN
           \/ issued' = issued /\ nextN' \in {1, nextN}
                /\ (calls'[t].pc \in {"check", "start", "push", "ack", "take", "count"} => BeforeCount(t))
           \/ issued' = issued /\ nextN' = nextN + 1 /\ BeforeCount(t)
                /\ calls'[t].pc \notin {"check", "start", "push", "ack", "take", "count"},
           calls'[t].pc \in Working \cup {"returned"} => calls'[t].call # 0,
           calls'[t].pc \in {"count", "write", "wait"} => calls'[t].n # 0
    PROVE  NumbersSuffice'
<1>1. nextN \in Nat /\ nextN >= 1 /\ issued \in Nat
  BY Bounds DEF TypeOK, BackendTyped, BoundsTyped
<1>2. nextN + Cardinality(Uncounted) <= issued + 1
  BY DEF NumbersSuffice
<1>3. nextN' + Cardinality(Uncounted') <= issued' + 1
  BY <1>1, <1>2, UncountedChanges
<1>4. ASSUME NEW s \in Threads
      PROVE  /\ calls'[s].pc \in Working \cup {"returned"} => calls'[s].call # 0
             /\ calls'[s].pc \in {"count", "write", "wait"} => calls'[s].n # 0
  BY <1>4 DEF NumbersSuffice, OthersWait, InCall
<1>5. QED
  BY <1>3, <1>4 DEF NumbersSuffice, InCall

(* So does a step that puts all threads to rest.                           *)
LEMMA RestSuffices ==
    ASSUME TypeOK, NumbersSuffice, issued' = issued, nextN' \in {1, nextN},
           \A t \in Threads : calls'[t].pc \in {"idle", "unloading"}
    PROVE  NumbersSuffice'
<1>1. nextN \in Nat /\ nextN >= 1 /\ issued \in Nat
  BY Bounds DEF TypeOK, BackendTyped, BoundsTyped
<1>2. Uncounted' = {} /\ Cardinality({}) = 0
  BY FS_EmptySet DEF Uncounted, BeforeCount
<1>3. Cardinality(Uncounted) \in Nat
  BY ResidentAssumption, FS_Subset, FS_CardinalityType DEF Uncounted
<1>4. QED
  BY <1>1, <1>2, <1>3 DEF NumbersSuffice, InCall, Working

(* A call that has yet to count its number, and one that has one.          *)
LEMMA NumberThere ==
    ASSUME TypeOK, NumbersSuffice, NEW t \in Threads
    PROVE  /\ nextN <= issued + 1
           /\ calls[t].pc \in {"check", "start", "push", "ack", "take", "count"} => nextN <= issued
           /\ calls[t].pc \in Working \cup {"returned"} => calls[t].call # 0
           /\ calls[t].pc \in {"count", "write", "wait"} => calls[t].n # 0
<1>1. nextN \in Nat /\ issued \in Nat
  BY Bounds DEF TypeOK, BackendTyped, BoundsTyped
<1>2. Uncounted \subseteq Threads /\ IsFiniteSet(Uncounted) /\ Cardinality(Uncounted) \in Nat
  BY ResidentAssumption, FS_Subset, FS_CardinalityType DEF Uncounted
<1>3. BeforeCount(t) => Cardinality(Uncounted) # 0
  BY <1>2, FS_EmptySet DEF Uncounted
<1>4. QED
  BY <1>1, <1>2, <1>3 DEF NumbersSuffice, BeforeCount, InCall

LEMMA TypesStep ==
    ASSUME TypeOK, NumbersSuffice, WorkersFit, [Next]_vars
    PROVE  TypeOK' /\ NumbersSuffice' /\ WorkersFit' /\ (OneThread /\ CallsFit => CallsFit')
<1> USE Bounds
<1>0. /\ policy \in Int /\ loaded \in Int /\ nextN \in Nat /\ nextN # 0 /\ issued \in 0 .. MaxCalls
      /\ proc \in 0 .. Len(workers) /\ Len(workers) \in Nat
      /\ DOMAIN workers = 1 .. Len(workers)
      /\ CallsTyped /\ BackendTyped /\ WorkersTyped /\ DirTyped /\ BoundsTyped
  BY Numeric DEF TypeOK, BackendTyped, BoundsTyped
<1>1. CASE LoadPolicy
  <2>1. \A t \in Threads : calls[t].pc = "idle"
    BY <1>1 DEF LoadPolicy, AllIdle
  <2>2. /\ policy' = policy + 1 /\ policy < MaxVersion /\ sampled' = {}
        /\ UNCHANGED <<calls, proc, nextN, loaded, workers, dir, issued, bounds>>
    BY <1>1 DEF LoadPolicy
  <2>3. policy' \in Versions /\ policy' # None
    BY <1>0, <2>2 DEF BackendTyped, Versions, None
  <2>4. TypeOK'
    BY <1>0, <2>2, <2>3 DEF TypeOK, CallsTyped, BackendTyped, WorkersTyped, DirTyped, BoundsTyped, bounds
  <2>5. OneThread /\ CallsFit => CallsFit'
    BY <2>1, <2>2, <2>3 DEF CallsFit, InCall, Started, At, Working
  <2>6. WorkersFit'
    BY <2>2 DEF WorkersFit
  <2>7. NumbersSuffice'
    BY <1>0, <2>1, <2>2, RestSuffices
  <2>8. QED
    BY <2>4, <2>5, <2>6, <2>7
<1>2. ASSUME NEW t \in Threads, Generate(t)
      PROVE  TypeOK' /\ NumbersSuffice' /\ WorkersFit' /\ (OneThread /\ CallsFit => CallsFit')
  <2>1. /\ CallsTyped' /\ OthersWait(t) /\ calls'[t].pc = "check" /\ calls'[t].call = issued' /\ issued' \in 1 .. MaxCalls
        /\ issued' = issued + 1 /\ policy # None
    BY <1>0, <1>2, GenerateChanges
  <2>2. sampled' = sampled \ {t} /\ UNCHANGED <<backend, workers, dir, bounds>>
    BY <1>2 DEF Generate
  <2>3. TypeOK'
    BY <1>0, <2>1, <2>2 DEF TypeOK, BackendTyped, WorkersTyped, DirTyped, BoundsTyped, bounds, backend
  <2>5. OneThread /\ CallsFit => CallsFit'
    BY <1>0, <2>1, <2>2, OneFits DEF backend
  <2>6. WorkersFit'
    BY <2>2 DEF WorkersFit
  <2>7. NumbersSuffice'
    BY <1>0, <2>1, <2>2, SufficeStep DEF backend
  <2>8. QED
    BY <2>3, <2>5, <2>6, <2>7
<1>3. ASSUME NEW t \in Threads, CheckWorker(t)
      PROVE  TypeOK' /\ NumbersSuffice' /\ WorkersFit' /\ (OneThread /\ CallsFit => CallsFit')
  <2>1. /\ calls[t].pc = "check" /\ UNCHANGED <<backend, workers, dir, sampled, issued, bounds>>
        /\ \/ Goes(t, "push") /\ Alive
           \/ Goes(t, "start")
    BY <1>3 DEF CheckWorker, At
  <2>2. CallsTyped' /\ OthersWait(t) /\ calls'[t].call = calls[t].call
        /\ ((calls'[t].pc = "push" /\ Alive) \/ calls'[t].pc = "start")
    BY <1>0, <2>1, GoesChanges DEF Points, Working
  <2>3. Alive => proc # 0
    BY <1>0 DEF Alive, Live
  <2>4. TypeOK'
    BY <1>0, <2>1, <2>2 DEF TypeOK, BackendTyped, WorkersTyped, DirTyped, BoundsTyped, bounds, backend
  <2>5. OneThread /\ CallsFit => CallsFit'
    BY <2>1, <2>2, <2>3, OneFits DEF backend, Working
  <2>6. WorkersFit'
    BY <2>1 DEF WorkersFit
  <2>7. NumbersSuffice'
    BY <2>1, <2>2, NumberThere, SufficeStep DEF backend, BeforeCount, Working
  <2>8. QED
    BY <2>4, <2>5, <2>6, <2>7
<1>4. ASSUME NEW t \in Threads, Spawn(t)
      PROVE  TypeOK' /\ NumbersSuffice' /\ WorkersFit' /\ (OneThread /\ CallsFit => CallsFit')
  <2>1. /\ CallsTyped' /\ OthersWait(t) /\ calls[t].pc = "start" /\ calls'[t].pc = "push" /\ calls'[t].call = calls[t].call
        /\ WorkersTyped' /\ proc' = Len(workers) + 1
        /\ Len(workers') = proc' /\ DOMAIN workers' = 1 .. proc'
        /\ \A w \in DOMAIN workers : workers'[w] = workers[w]
        /\ workers'[proc'].phase = "boot"
        /\ dir' = EmptyDir /\ nextN' = 1 /\ loaded' = None
        /\ UNCHANGED <<policy, sampled, issued, bounds>>
    BY <1>4, SpawnChanges
  <2>2. DirTyped'
    BY <2>1 DEF DirTyped, EmptyDir
  <2>3. BackendTyped' /\ BoundsTyped'
    BY <1>0, <2>1 DEF BackendTyped, BoundsTyped, bounds
  <2>4. OneThread /\ CallsFit => CallsFit'
    BY <1>0, <2>1, OneFits DEF Working
  <2>5. WorkersFit'
    <3>1. DOMAIN workers' = DOMAIN workers \cup {proc'}
      BY <1>0, <2>1
    <3>2. QED
      BY <2>1, <3>1 DEF WorkersFit
  <2>6. NumbersSuffice'
    BY <2>1, NumberThere, SufficeStep DEF BeforeCount, Working
  <2>7. QED
    BY <2>1, <2>2, <2>3, <2>4, <2>5, <2>6 DEF TypeOK
<1>5. ASSUME NEW t \in Threads, PushPolicy(t)
      PROVE  TypeOK' /\ NumbersSuffice' /\ WorkersFit' /\ (OneThread /\ CallsFit => CallsFit')
  <2>1. /\ calls[t].pc = "push" /\ UNCHANGED <<backend, workers, sampled, issued, bounds>>
        /\ \/ Goes(t, "take") /\ UNCHANGED dir
           \/ Goes(t, "ack") /\ dir' = [dir EXCEPT !.policy = policy]
    BY <1>5 DEF PushPolicy, At
  <2>2. CallsTyped' /\ OthersWait(t) /\ calls'[t].call = calls[t].call /\ calls'[t].pc \in {"take", "ack"}
    BY <1>0, <2>1, GoesChanges DEF Points, Working
  <2>3. DirTyped'
    BY <1>0, <2>1 DEF DirTyped, BackendTyped
  <2>4. TypeOK'
    BY <1>0, <2>1, <2>2, <2>3 DEF TypeOK, BackendTyped, WorkersTyped, BoundsTyped, bounds, backend
  <2>5. OneThread /\ CallsFit => CallsFit'
    BY <2>1, <2>2, OneFits DEF backend, Working
  <2>6. WorkersFit'
    BY <2>1 DEF WorkersFit
  <2>7. NumbersSuffice'
    BY <2>1, <2>2, NumberThere, SufficeStep DEF backend, BeforeCount, Working
  <2>8. QED
    BY <2>4, <2>5, <2>6, <2>7
<1>6. ASSUME NEW t \in Threads, SeesAck(t)
      PROVE  TypeOK' /\ NumbersSuffice' /\ WorkersFit' /\ (OneThread /\ CallsFit => CallsFit')
  <2>1. /\ calls[t].pc = "ack" /\ UNCHANGED <<policy, proc, nextN, workers, sampled, issued, bounds>>
        /\ Goes(t, "take") /\ loaded' = policy /\ dir' = [dir EXCEPT !.done = dir.done \ {policy}]
    BY <1>6 DEF SeesAck, At
  <2>2. CallsTyped' /\ OthersWait(t) /\ calls'[t].call = calls[t].call /\ calls'[t].pc = "take"
    BY <1>0, <2>1, GoesChanges DEF Points, Working
  <2>3. DirTyped'
    BY <1>0, <2>1 DEF DirTyped
  <2>4. TypeOK'
    BY <1>0, <2>1, <2>2, <2>3 DEF TypeOK, BackendTyped, WorkersTyped, BoundsTyped, bounds
  <2>5. OneThread /\ CallsFit => CallsFit'
    BY <2>1, <2>2, OneFits DEF Working
  <2>6. WorkersFit'
    BY <2>1 DEF WorkersFit
  <2>7. NumbersSuffice'
    BY <2>1, <2>2, NumberThere, SufficeStep DEF BeforeCount, Working
  <2>8. QED
    BY <2>4, <2>5, <2>6, <2>7
<1>7. ASSUME NEW t \in Threads, TakesNumber(t)
      PROVE  TypeOK' /\ NumbersSuffice' /\ WorkersFit' /\ (OneThread /\ CallsFit => CallsFit')
  <2>1. calls[t].pc = "take" /\ UNCHANGED <<backend, workers, dir, sampled, issued, bounds>>
    BY <1>7 DEF TakesNumber, At
  <2>2. nextN <= issued
    BY <2>1, NumberThere
  <2>3. CallsTyped' /\ OthersWait(t) /\ calls'[t].pc = "count" /\ calls'[t].n = nextN /\ calls'[t].call = calls[t].call
    BY <1>0, <1>7, <2>2, NumberChanges
  <2>4. TypeOK'
    BY <1>0, <2>1, <2>3 DEF TypeOK, BackendTyped, WorkersTyped, DirTyped, BoundsTyped, bounds, backend
  <2>5. OneThread /\ CallsFit => CallsFit'
    BY <2>1, <2>3, OneFits DEF backend, Working
  <2>6. WorkersFit'
    BY <2>1 DEF WorkersFit
  <2>7. NumbersSuffice'
    BY <1>0, <2>1, <2>3, NumberThere, SufficeStep DEF backend, BeforeCount, Working
  <2>8. QED
    BY <2>4, <2>5, <2>6, <2>7
<1>8. ASSUME NEW t \in Threads, CountsNumber(t)
      PROVE  TypeOK' /\ NumbersSuffice' /\ WorkersFit' /\ (OneThread /\ CallsFit => CallsFit')
  <2>1. /\ calls[t].pc = "count" /\ Goes(t, "write") /\ nextN' = nextN + 1
        /\ UNCHANGED <<policy, proc, loaded, workers, dir, sampled, issued, bounds>>
    BY <1>8 DEF CountsNumber, At
  <2>2. nextN <= issued
    BY <2>1, NumberThere
  <2>3. /\ CallsTyped' /\ OthersWait(t) /\ calls'[t].pc = "write" /\ calls'[t].call = calls[t].call
        /\ calls'[t].n = calls[t].n
    BY <1>0, <2>1, GoesChanges DEF Points, Working
  <2>4. nextN' \in 1 .. MaxCalls + 1
    BY <1>0, <2>1, <2>2
  <2>5. TypeOK'
    BY <1>0, <2>1, <2>3, <2>4 DEF TypeOK, BackendTyped, WorkersTyped, DirTyped, BoundsTyped, bounds
  <2>6. OneThread /\ CallsFit => CallsFit'
    BY <1>0, <2>1, <2>2, <2>3, OneFits DEF Working
  <2>7. WorkersFit'
    BY <2>1 DEF WorkersFit
  <2>8. NumbersSuffice'
    BY <2>1, <2>3, NumberThere, SufficeStep DEF BeforeCount, Working
  <2>9. QED
    BY <2>5, <2>6, <2>7, <2>8
<1>9. ASSUME NEW t \in Threads, WritesRequest(t)
      PROVE  TypeOK' /\ NumbersSuffice' /\ WorkersFit' /\ (OneThread /\ CallsFit => CallsFit')
  <2> DEFINE f == [n |-> calls[t].n, call |-> calls[t].call]
  <2>1. /\ calls[t].pc = "write" /\ Goes(t, "wait")
        /\ UNCHANGED <<backend, workers, sampled, issued, bounds>>
        /\ dir' = [dir EXCEPT !.request = Put(dir.request, f)]
    BY <1>9 DEF WritesRequest, At
  <2>2. calls[t].n # 0 /\ calls[t].call # 0 /\ calls[t] \in CallRecord
    BY <2>1, NumberThere, Numeric DEF Working
  <2>3. f \in Files
    BY <2>2 DEF Files, Numbers, CallRecord
  <2>4. /\ CallsTyped' /\ OthersWait(t) /\ calls'[t].pc = "wait" /\ calls'[t].call = calls[t].call
        /\ calls'[t].n = calls[t].n
    BY <1>0, <2>1, GoesChanges DEF Points, Working
  <2> HIDE DEF f
  <2>5. Put(dir.request, f) \subseteq Files
    BY <1>0, <2>3 DEF DirTyped, Put
  <2>6. DirTyped'
    BY <1>0, <2>1, <2>5 DEF DirTyped
  <2>7. TypeOK'
    BY <1>0, <2>1, <2>4, <2>6 DEF TypeOK, BackendTyped, WorkersTyped, BoundsTyped, bounds, backend
  <2>8. OneThread /\ CallsFit => CallsFit'
    BY <2>1, <2>4, OneFits DEF backend, Working
  <2>9. WorkersFit'
    BY <2>1 DEF WorkersFit
  <2>10. NumbersSuffice'
    BY <2>1, <2>4, NumberThere, SufficeStep DEF backend, Working
  <2>11. QED
    BY <2>7, <2>8, <2>9, <2>10
<1>10. ASSUME NEW t \in Threads, ReadsResult(t)
       PROVE  TypeOK' /\ NumbersSuffice' /\ WorkersFit' /\ (OneThread /\ CallsFit => CallsFit')
  <2>1. UNCHANGED <<backend, workers, dir, sampled, issued, bounds>>
    BY <1>10 DEF ReadsResult
  <2>2. /\ CallsTyped' /\ OthersWait(t) /\ calls[t].pc = "wait" /\ calls'[t].pc = "returned"
        /\ calls'[t].call = calls[t].call
    BY <1>0, <1>10, AnswerChanges
  <2>3. TypeOK'
    BY <1>0, <2>1, <2>2 DEF TypeOK, BackendTyped, WorkersTyped, DirTyped, BoundsTyped, bounds, backend
  <2>4. OneThread /\ CallsFit => CallsFit'
    BY <2>1, <2>2, OneFits DEF backend, Working
  <2>5. WorkersFit'
    BY <2>1 DEF WorkersFit
  <2>6. NumbersSuffice'
    BY <2>1, <2>2, NumberThere, SufficeStep DEF backend, Working
  <2>7. QED
    BY <2>3, <2>4, <2>5, <2>6
<1>11. ASSUME NEW t \in Threads, Return(t) \/ FindsDead(t) \/ TimesOut(t)
       PROVE  TypeOK' /\ NumbersSuffice' /\ WorkersFit' /\ (OneThread /\ CallsFit => CallsFit')
  <2>1. /\ calls[t].pc \in {"returned", "ack", "wait"} /\ Raises(t) /\ sampled' \subseteq sampled \cup {t}
        /\ UNCHANGED <<backend, workers, dir, issued, bounds>>
    BY <1>11 DEF Return, FindsDead, TimesOut, At, Raises
  <2>2. CallsTyped' /\ OthersWait(t) /\ calls'[t].pc = "idle"
    BY <1>0, <2>1, RaiseChanges
  <2>3. OneThread /\ CallsFit => policy # None
    BY <2>1, OneFits DEF Working
  <2>4. TypeOK'
    BY <1>0, <2>1, <2>2 DEF TypeOK, BackendTyped, WorkersTyped, DirTyped, BoundsTyped, bounds, backend
  <2>5. OneThread /\ CallsFit => CallsFit'
    BY <2>1, <2>2, <2>3, OneFits DEF backend, Working
  <2>6. WorkersFit'
    BY <2>1 DEF WorkersFit
  <2>7. NumbersSuffice'
    BY <2>1, <2>2, SufficeStep DEF backend, Working
  <2>8. QED
    BY <2>4, <2>5, <2>6, <2>7
<1>12. CASE Unload
  <2>1. /\ policy' = None /\ (dir' = [dir EXCEPT !.shutdown = TRUE] \/ dir' = dir)
        /\ calls' = [t \in Threads |-> [NoCall EXCEPT !.pc = "unloading"]]
        /\ UNCHANGED <<proc, nextN, loaded, workers, sampled, issued, bounds>>
    BY <1>12 DEF Unload
  <2>2. CallsTyped' /\ \A t \in Threads : calls'[t].pc = "unloading"
    BY <2>1, AllUnload
  <2>3. DirTyped'
    BY <1>0, <2>1 DEF DirTyped
  <2>4. TypeOK'
    BY <1>0, <2>1, <2>2, <2>3 DEF TypeOK, BackendTyped, WorkersTyped, BoundsTyped, bounds
  <2>5. PICK t \in Threads : TRUE
    BY ResidentAssumption
  <2>6. OneThread /\ CallsFit => CallsFit'
    BY <2>1, <2>2, OneFits DEF Working
  <2>7. WorkersFit'
    BY <2>1 DEF WorkersFit
  <2>8. NumbersSuffice'
    BY <2>1, <2>2, RestSuffices
  <2>9. QED
    BY <2>4, <2>6, <2>7, <2>8
<1>13. CASE Unloaded
  <2>1. /\ CallsTyped' /\ \A t \in Threads : calls'[t].pc = "idle"
        /\ WorkersTyped' /\ Len(workers') = Len(workers) /\ DOMAIN workers' = DOMAIN workers
        /\ \A w \in DOMAIN workers : w # proc => workers'[w] = workers[w]
        /\ proc \in DOMAIN workers => workers'[proc].phase = "dead"
        /\ proc' = 0
        /\ UNCHANGED <<policy, nextN, loaded, dir, sampled, issued, bounds>>
    BY <1>13, UnloadedChanges
  <2>2. TypeOK'
    BY <1>0, <2>1 DEF TypeOK, BackendTyped, DirTyped, BoundsTyped, bounds
  <2>3. ~Alive'
    BY <1>0, <2>1 DEF Alive, Live
  <2>4. PICK t \in Threads : TRUE
    BY ResidentAssumption
  <2>5. OneThread /\ CallsFit => CallsFit'
    BY <2>1, <2>3, OneFits DEF Working
  <2>6. WorkersFit'
    BY <2>1 DEF WorkersFit
  <2>7. NumbersSuffice'
    BY <2>1, RestSuffices
  <2>8. QED
    BY <2>2, <2>5, <2>6, <2>7
<1>14. CASE Restart
  <2>1. /\ ends' = ends + 1 /\ ends < MaxEnds /\ policy' = None /\ proc' = 0 /\ nextN' = 1 /\ loaded' = None
        /\ sampled' = {} /\ calls' = [t \in Threads |-> NoCall]
        /\ UNCHANGED <<workers, dir, issued, deaths>>
    BY <1>14 DEF Restart
  <2>2. CallsTyped' /\ \A t \in Threads : calls'[t].pc = "idle"
    BY <2>1, AllRest
  <2>3. TypeOK'
    BY <1>0, <2>1, <2>2 DEF TypeOK, BackendTyped, WorkersTyped, DirTyped, BoundsTyped
  <2>4. ~Alive'
    BY <1>0, <2>1 DEF Alive, Live
  <2>5. PICK t \in Threads : TRUE
    BY ResidentAssumption
  <2>6. OneThread /\ CallsFit => CallsFit'
    BY <1>0, <2>1, <2>2, <2>4, OneFits DEF Working
  <2>7. WorkersFit'
    BY <2>1 DEF WorkersFit
  <2>8. NumbersSuffice'
    BY <2>1, <2>2, RestSuffices
  <2>9. QED
    BY <2>3, <2>6, <2>7, <2>8
<1>15. ASSUME NEW w \in DOMAIN workers, WorkerRuns(w) \/ Dies(w)
       PROVE  TypeOK' /\ NumbersSuffice' /\ WorkersFit' /\ (OneThread /\ CallsFit => CallsFit')
  <2>1. /\ w \in Live /\ WorkersTyped' /\ Len(workers') = Len(workers) /\ DOMAIN workers' = DOMAIN workers
        /\ OthersLive(w) /\ UNCHANGED <<calls, backend, sampled, issued, ends>>
    BY <1>15, WorkerSteps
  <2>2. /\ workers[w].told \in Versions \cup {None} /\ workers[w].job \in 0 .. MaxCalls
        /\ workers[w].phase = "busy" => workers[w].next \in Numbers /\ workers[w].job \in Numbers
        /\ workers[w].phase = "ack" => workers[w].told \in Versions
    BY Numeric DEF WorkersFit, WorkerRecord
  <2>3. deaths' \in 0 .. MaxDeaths
    <3>1. deaths \in 0 .. MaxDeaths
      BY <1>0 DEF BoundsTyped
    <3>2. CASE WorkerRuns(w)
      <4>1. deaths' = deaths
        BY <3>2 DEF WorkerRuns, Boot, SeesShutdown, TakesRequest, ReadsPolicy, AcksPolicy, WritesResult, bounds
      <4>2. QED
        BY <3>1, <4>1
    <3>3. CASE Dies(w)
      <4>1. deaths' = deaths + 1 /\ deaths < MaxDeaths
        BY <3>3 DEF Dies
      <4>2. QED
        BY <3>1, <4>1
    <3>4. QED
      BY <1>15, <3>2, <3>3
  <2>4. DirTyped' /\ (workers'[w].phase = "busy" => workers'[w].next \in Numbers /\ workers'[w].job \in Numbers)
        /\ (workers'[w].phase = "ack" => workers'[w].told \in Versions)
    <3>1. CASE workers'[w].phase \in {"poll", "dead"} /\ UNCHANGED dir
      BY <1>0, <3>1 DEF DirTyped
    <3>2. CASE /\ workers'[w].phase = "busy" /\ workers'[w].next = workers[w].next
               /\ \E f \in dir.request : f.n = workers[w].next /\ workers'[w].job = f.call
               /\ UNCHANGED dir
      BY <1>0, <3>2 DEF DirTyped, Files
    <3>3. CASE /\ workers'[w].phase = "ack" /\ workers'[w].told = dir.policy /\ dir.policy # None
               /\ UNCHANGED dir
      BY <1>0, <3>3 DEF DirTyped
    <3>4. CASE /\ workers'[w].phase = "poll" /\ workers[w].phase = "ack"
               /\ dir' = [dir EXCEPT !.policy = None, !.done = dir.done \cup {workers[w].told}]
      BY <1>0, <2>2, <3>4 DEF DirTyped
    <3>5. CASE /\ workers'[w].phase = "poll" /\ workers[w].phase = "busy"
               /\ dir' = [dir EXCEPT !.result = Put(dir.result, [n |-> workers[w].next, call |-> workers[w].job])]
      <4> DEFINE f == [n |-> workers[w].next, call |-> workers[w].job]
      <4>1. f \in Files /\ dir' = [dir EXCEPT !.result = Put(dir.result, f)]
        BY <2>2, <3>5 DEF Files
      <4> HIDE DEF f
      <4>2. Put(dir.result, f) \subseteq Files
        BY <1>0, <4>1 DEF DirTyped, Put
      <4>3. QED
        BY <1>0, <3>5, <4>1, <4>2 DEF DirTyped
    <3>6. QED
      BY <1>15, <3>1, <3>2, <3>3, <3>4, <3>5, WorkerSteps
  <2>5. TypeOK'
    BY <1>0, <2>1, <2>3, <2>4 DEF TypeOK, CallsTyped, BackendTyped, BoundsTyped, backend
  <2>6. WorkersFit'
    BY <2>1, <2>4 DEF WorkersFit, OthersLive
  <2>7. Alive' => Alive
    BY <2>1 DEF Alive, Live, OthersLive, backend
  <2>8. PICK t \in Threads : TRUE
    BY ResidentAssumption
  <2>9. OneThread /\ CallsFit => CallsFit'
    BY <2>1, <2>7, OneFits DEF backend
  <2>10. NumbersSuffice'
    BY <2>1 DEF NumbersSuffice, Uncounted, BeforeCount, InCall, backend
  <2>11. QED
    BY <2>5, <2>6, <2>9, <2>10
<1>16. CASE UNCHANGED vars
  <2>1. TypeOK'
    BY <1>0, <1>16 DEF vars, TypeOK, CallsTyped, BackendTyped, WorkersTyped, DirTyped, BoundsTyped
  <2>2. WorkersFit'
    BY <1>16 DEF vars, WorkersFit
  <2>3. Alive' <=> Alive
    BY <1>16 DEF vars, Alive, Live
  <2>4. PICK t \in Threads : TRUE
    BY ResidentAssumption
  <2>5. OneThread /\ CallsFit => CallsFit'
    BY <1>16, <2>3, OneFits DEF vars
  <2>6. NumbersSuffice'
    BY <1>16 DEF vars, NumbersSuffice, Uncounted, BeforeCount, InCall
  <2>7. QED
    BY <2>1, <2>2, <2>5, <2>6
<1>17. QED
  BY <1>1, <1>2, <1>3, <1>4, <1>5, <1>6, <1>7, <1>8, <1>9, <1>10, <1>11, <1>12, <1>13, <1>14, <1>15, <1>16
     DEF Next, ThreadRuns, Finished

(* The state of threads, backend, workers and directory keeps its types,   *)
(* and no call runs out of numbers, for any number of threads that take    *)
(* them without a lock, with workers left behind by earlier programs.      *)
THEOREM TypesCorrect == Spec => [](TypeOK /\ NumbersSuffice /\ WorkersFit)
<1>1. Init => TypeOK /\ NumbersSuffice /\ WorkersFit
  BY TypesStart
<1>2. TypeOK /\ NumbersSuffice /\ WorkersFit /\ [Next]_vars => (TypeOK /\ NumbersSuffice /\ WorkersFit)'
  BY TypesStep
<1>3. QED
  BY <1>1, <1>2, PTL DEF Spec

-----------------------------------------------------------------------------
(* The agreement of backend and worker, when no worker outlives its        *)
(* program.                                                                *)

(* A worker that steps was the live one, and stays the only one.           *)
LEMMA LiveSteps ==
    ASSUME TypeOK, WorkersFit, LastIsOnly, NEW w \in DOMAIN workers, WorkerRuns(w) \/ Dies(w)
    PROVE  w = proc /\ Alive /\ Live' \subseteq {proc}
<1>1. w \in Live /\ DOMAIN workers' = DOMAIN workers /\ OthersLive(w)
  BY WorkerSteps
<1>2. w = proc
  BY <1>1 DEF LastIsOnly
<1>3. Live' \subseteq Live
  BY <1>1 DEF Live, OthersLive
<1>4. QED
  BY <1>1, <1>2, <1>3 DEF LastIsOnly, Alive

LEMMA LastIsOnlyStep ==
    ASSUME OneThread, ~Orphans, TypeOK, WorkersFit, LastIsOnly, [Next]_vars
    PROVE  LastIsOnly'
<1>0. DOMAIN workers = 1 .. Len(workers) /\ Len(workers) \in Nat
  BY Numeric
<1>1. ASSUME NEW t \in Threads, CheckWorker(t)
      PROVE  LastIsOnly'
  <2>1. UNCHANGED <<workers, proc>> /\ Goes(t, IF Alive THEN "push" ELSE "start")
    BY <1>1 DEF CheckWorker, backend
  <2>2. calls'[t].pc = IF Alive THEN "push" ELSE "start"
    BY <2>1, GoesChanges DEF Points, Working, TypeOK
  <2>3. Live' = Live /\ (Alive' <=> Alive)
    BY <2>1 DEF Live, Alive
  <2>4. \A s \in Threads : s = t
    BY OnlyThread
  <2>5. QED
    BY <2>1, <2>2, <2>3, <2>4 DEF LastIsOnly, At
<1>2. ASSUME NEW t \in Threads, Spawn(t)
      PROVE  LastIsOnly'
  <2>1. /\ calls[t].pc = "start" /\ calls'[t].pc = "push"
        /\ proc' = Len(workers) + 1 /\ DOMAIN workers' = 1 .. proc'
        /\ \A w \in DOMAIN workers : workers'[w] = workers[w]
    BY <1>2, SpawnChanges
  <2>2. Live = {}
    BY <2>1 DEF LastIsOnly, At, Alive
  <2>3. \A w \in DOMAIN workers : workers'[w].phase = "dead"
    BY <2>1, <2>2 DEF Live
  <2>4. DOMAIN workers' = DOMAIN workers \cup {proc'}
    BY <1>0, <2>1
  <2>5. Live' \subseteq {proc'}
    BY <2>3, <2>4 DEF Live
  <2>6. \A s \in Threads : calls'[s].pc = "push"
    BY <2>1, OnlyThread
  <2>7. QED
    BY <2>5, <2>6 DEF LastIsOnly, At
<1>3. ASSUME NEW t \in Threads,
             \/ Generate(t) \/ PushPolicy(t) \/ SeesAck(t) \/ TakesNumber(t) \/ CountsNumber(t) \/ WritesRequest(t)
             \/ ReadsResult(t) \/ Return(t) \/ FindsDead(t) \/ TimesOut(t)
      PROVE  LastIsOnly'
  <2>1. UNCHANGED <<workers, proc>>
    BY <1>3 DEF Generate, PushPolicy, SeesAck, TakesNumber, CountsNumber, WritesRequest, ReadsResult, Return,
                FindsDead, TimesOut, backend
  <2>2. calls' = [calls EXCEPT ![t] = calls'[t]] /\ calls'[t].pc # "start"
    <3>1. CASE PushPolicy(t) \/ SeesAck(t) \/ CountsNumber(t) \/ WritesRequest(t)
      <4>1. PICK p \in {"take", "ack", "write", "wait"} : Goes(t, p)
        BY <3>1 DEF PushPolicy, SeesAck, CountsNumber, WritesRequest
      <4>2. calls'[t].pc = p
        BY <4>1, GoesChanges DEF Points, Working, TypeOK
      <4>3. calls' = [calls EXCEPT ![t] = calls'[t]]
        BY <4>1 DEF Goes, TypeOK, CallsTyped
      <4>4. QED
        BY <4>2, <4>3
    <3>2. CASE Generate(t) \/ TakesNumber(t) \/ ReadsResult(t)
      <4>1. CASE Generate(t)
        BY <4>1 DEF Generate, TypeOK, CallsTyped, NoCall
      <4>2. CASE TakesNumber(t)
        BY <4>2 DEF TakesNumber, TypeOK, CallsTyped
      <4>3. CASE ReadsResult(t)
        BY <4>3 DEF ReadsResult, TypeOK, CallsTyped
      <4>4. QED
        BY <3>2, <4>1, <4>2, <4>3
    <3>3. CASE Return(t) \/ FindsDead(t) \/ TimesOut(t)
      BY <3>3 DEF Return, FindsDead, TimesOut, Raises, NoCall, TypeOK, CallsTyped
    <3>4. QED
      BY <1>3, <3>1, <3>2, <3>3
  <2>3. Live' = Live
    BY <2>1 DEF Live
  <2>4. \A s \in Threads : calls'[s].pc # "start"
    BY <2>2, OnlyThread
  <2>5. QED
    BY <2>1, <2>3, <2>4 DEF LastIsOnly, At
<1>4. CASE LoadPolicy \/ Finished \/ UNCHANGED vars
  <2>1. UNCHANGED <<calls, workers, proc>>
    BY <1>4 DEF LoadPolicy, Finished, vars
  <2>2. Live' = Live /\ (Alive' <=> Alive)
    BY <2>1 DEF Live, Alive
  <2>3. QED
    BY <2>1, <2>2 DEF LastIsOnly, At
<1>5. CASE Unload
  <2>1. /\ calls' = [t \in Threads |-> [NoCall EXCEPT !.pc = "unloading"]] /\ UNCHANGED <<workers, proc>>
    BY <1>5 DEF Unload
  <2>2. \A t \in Threads : calls'[t].pc = "unloading"
    BY <2>1, AllUnload
  <2>3. Live' = Live
    BY <2>1 DEF Live
  <2>4. QED
    BY <2>1, <2>2, <2>3 DEF LastIsOnly, At
<1>6. CASE Unloaded
  <2>1. /\ \A t \in Threads : calls'[t].pc = "idle"
        /\ DOMAIN workers' = DOMAIN workers
        /\ \A w \in DOMAIN workers : w # proc => workers'[w] = workers[w]
        /\ proc \in DOMAIN workers => workers'[proc].phase = "dead"
    BY <1>6, UnloadedChanges
  <2>2. Live' = {}
    BY <2>1 DEF Live, LastIsOnly
  <2>3. QED
    BY <2>1, <2>2 DEF LastIsOnly, At
<1>7. CASE Restart
  <2>1. Live = {} /\ workers' = workers /\ calls' = [t \in Threads |-> NoCall]
    BY <1>7 DEF Restart
  <2>2. Live' = {} /\ \A t \in Threads : calls'[t].pc = "idle"
    BY <2>1, AllRest DEF Live
  <2>3. QED
    BY <2>2 DEF LastIsOnly, At
<1>8. ASSUME NEW w \in DOMAIN workers, WorkerRuns(w) \/ Dies(w)
      PROVE  LastIsOnly'
  <2>1. UNCHANGED <<calls, proc>>
    BY <1>8, WorkerSteps DEF backend
  <2>2. Alive /\ Live' \subseteq {proc}
    BY <1>8, LiveSteps
  <2>3. QED
    BY <2>1, <2>2 DEF LastIsOnly, At
<1>9. QED
  BY <1>1, <1>2, <1>3, <1>4, <1>5, <1>6, <1>7, <1>8 DEF Next, ThreadRuns

(* No request that was written has a number that is not counted yet, or is *)
(* taken over by another call.                                             *)
LEMMA AskedKept ==
    ASSUME NumbersAgree, Asked' \subseteq Asked, nextN' = nextN, proc' \in {proc, 0},
           \A t \in Threads : calls'[t].pc \in {"write", "wait"} => calls'[t] = calls[t]
    PROVE  NumbersAgree'
<1>1. \A t \in Threads : calls'[t].pc \in {"write", "wait"} => calls'[t] = calls[t]
  OBVIOUS
<1>2. ASSUME proc' # 0, NEW f \in Asked'
      PROVE  /\ f.n < nextN'
             /\ \A t \in Threads :
                  /\ calls'[t].pc = "write" => f.n < calls'[t].n
                  /\ calls'[t].pc = "wait" /\ f.n = calls'[t].n => f.call = calls'[t].call
  <2>1. proc # 0 /\ f \in Asked
    BY <1>2
  <2>2. /\ f.n < nextN
        /\ \A t \in Threads :
             /\ calls[t].pc = "write" => f.n < calls[t].n
             /\ calls[t].pc = "wait" /\ f.n = calls[t].n => f.call = calls[t].call
    BY <2>1 DEF NumbersAgree, At
  <2>3. ASSUME NEW t \in Threads
        PROVE  /\ calls'[t].pc = "write" => f.n < calls'[t].n
               /\ calls'[t].pc = "wait" /\ f.n = calls'[t].n => f.call = calls'[t].call
    <3>1. CASE calls'[t].pc \in {"write", "wait"}
      <4>1. calls'[t] = calls[t]
        BY <1>1, <3>1
      <4>2. QED
        BY <2>2, <4>1
    <3>2. CASE ~(calls'[t].pc \in {"write", "wait"})
      BY <3>2
    <3>3. QED
      BY <3>1, <3>2
  <2>4. QED
    BY <2>2, <2>3
<1>3. QED
  BY <1>2 DEF NumbersAgree, At

LEMMA NumbersAgreeStep ==
    ASSUME OneThread, TypeOK, CallsFit, WorkersFit, LastIsOnly, NumbersAgree, [Next]_vars
    PROVE  NumbersAgree'
<1>0. /\ nextN \in Nat /\ DOMAIN workers = 1 .. Len(workers) /\ Len(workers) \in Nat
      /\ \A t \in Threads : calls[t] \in CallRecord /\ calls[t].n \in Nat
      /\ CallsTyped
      /\ \A f \in Asked : f.n \in Nat
  <2>1. \A f \in Files : f.n \in Nat
    BY Bounds DEF Files, Numbers
  <2>2. \A w \in DOMAIN workers : workers[w].next \in Nat
    BY Numeric
  <2>3. QED
    BY <2>1, <2>2, Numeric DEF Asked, TypeOK, DirTyped
<1>1. ASSUME NEW t \in Threads, Spawn(t)
      PROVE  NumbersAgree'
  <2>1. /\ calls[t].pc = "start" /\ dir' = EmptyDir
        /\ proc' = Len(workers) + 1 /\ DOMAIN workers' = 1 .. proc'
        /\ \A w \in DOMAIN workers : workers'[w] = workers[w]
        /\ workers'[proc'].phase = "boot"
    BY <1>1, SpawnChanges
  <2>2. Live = {}
    BY <2>1 DEF LastIsOnly, At, Alive
  <2>3. DOMAIN workers' = DOMAIN workers \cup {proc'}
    BY <1>0, <2>1
  <2>4. \A w \in DOMAIN workers' : workers'[w].phase # "busy"
    BY <2>1, <2>2, <2>3 DEF Live
  <2>5. Asked' = {}
    BY <2>1, <2>4 DEF Asked, EmptyDir
  <2>6. QED
    BY <2>5 DEF NumbersAgree
<1>2. ASSUME NEW t \in Threads, CountsNumber(t)
      PROVE  NumbersAgree'
  <2>1. /\ calls[t].pc = "count" /\ Goes(t, "write") /\ nextN' = nextN + 1
        /\ UNCHANGED <<proc, workers, dir>>
    BY <1>2 DEF CountsNumber, At
  <2>2. calls[t].n = nextN
    BY <2>1, OneFits
  <2>3. calls'[t].pc = "write" /\ calls'[t].n = nextN
    BY <1>0, <2>1, <2>2, GoesChanges DEF Points, Working
  <2>4. Asked' = Asked
    BY <2>1 DEF Asked
  <2>5. \A s \in Threads : s = t
    BY OnlyThread
  <2>6. proc' # 0 => \A f \in Asked' : f.n < nextN
    BY <2>1, <2>4 DEF NumbersAgree
  <2>7. \A f \in Asked' : f.n < nextN => f.n < nextN'
    BY <1>0, <2>1, <2>4
  <2>8. QED
    BY <2>3, <2>5, <2>6, <2>7 DEF NumbersAgree, At
<1>3. ASSUME NEW t \in Threads, WritesRequest(t)
      PROVE  NumbersAgree'
  <2> DEFINE g == [n |-> calls[t].n, call |-> calls[t].call]
  <2>1. /\ calls[t].pc = "write" /\ Goes(t, "wait")
        /\ UNCHANGED <<proc, nextN, workers>>
        /\ dir' = [dir EXCEPT !.request = Put(dir.request, g)]
    BY <1>3 DEF WritesRequest, At, backend
  <2>2. calls[t].n = nextN - 1 /\ proc # 0
    BY <2>1, OneFits
  <2>3. calls'[t].pc = "wait" /\ calls'[t].n = g.n /\ calls'[t].call = g.call
    BY <1>0, <2>1, GoesChanges DEF Points, Working
  <2>4. g.n = nextN - 1 /\ \A f \in Asked : f.n < nextN /\ f.n < g.n
    BY <2>1, <2>2 DEF NumbersAgree, At
  <2> HIDE DEF g
  <2>5. Asked' \subseteq Asked \cup {g}
    <3>1. dir'.request \subseteq dir.request \cup {g} /\ dir'.result = dir.result
      BY <2>1 DEF Put, TypeOK, DirTyped
    <3>2. QED
      BY <2>1, <3>1 DEF Asked
  <2>6. \A f \in Asked' : f.n < nextN' /\ (f.n = g.n => f = g)
    BY <1>0, <2>1, <2>4, <2>5
  <2>7. \A s \in Threads : s = t
    BY OnlyThread
  <2>8. QED
    BY <2>3, <2>6, <2>7 DEF NumbersAgree, At
<1>4. ASSUME NEW w \in DOMAIN workers, WorkerRuns(w) \/ Dies(w)
      PROVE  NumbersAgree'
  <2>1. /\ DOMAIN workers' = DOMAIN workers /\ OthersLive(w)
        /\ UNCHANGED <<calls, nextN, proc>>
    BY <1>4, WorkerSteps DEF backend
  <2> DEFINE Busy == {[n |-> workers[v].next, call |-> workers[v].job] : v \in {u \in DOMAIN workers : workers[u].phase = "busy"}}
             asked == [n |-> workers[w].next, call |-> workers[w].job]
  <2>2. ASSUME workers'[w].phase # "busy"
        PROVE  Busy' \subseteq Busy
    BY <2>1, <2>2 DEF OthersLive
  <2>3. Asked = dir.request \cup dir.result \cup Busy
    BY DEF Asked
  <2>4. Asked' = dir'.request \cup dir'.result \cup Busy'
    BY DEF Asked
  <2>5. Asked' \subseteq Asked
    <3>1. CASE workers'[w].phase \in {"poll", "dead", "ack"} /\ UNCHANGED dir
      BY <2>2, <2>3, <2>4, <3>1
    <3>2. CASE /\ workers'[w].phase = "busy" /\ workers'[w].next = workers[w].next
               /\ \E f \in dir.request : f.n = workers[w].next /\ workers'[w].job = f.call
               /\ UNCHANGED dir
      <4>1. PICK f \in dir.request : f.n = workers[w].next /\ workers'[w].job = f.call
        BY <3>2
      <4>2. f = [n |-> workers'[w].next, call |-> workers'[w].job]
        BY <3>2, <4>1 DEF TypeOK, DirTyped, Files
      <4>3. Busy' \subseteq Busy \cup {f}
        BY <2>1, <4>2 DEF OthersLive
      <4>4. QED
        BY <2>3, <2>4, <3>2, <4>1, <4>3
    <3>3. CASE /\ workers'[w].phase = "poll" /\ workers[w].phase = "ack"
               /\ dir' = [dir EXCEPT !.policy = None, !.done = dir.done \cup {workers[w].told}]
      <4>1. dir'.request = dir.request /\ dir'.result = dir.result
        BY <3>3 DEF TypeOK, DirTyped
      <4>2. QED
        BY <2>2, <2>3, <2>4, <3>3, <4>1
    <3>4. CASE /\ workers'[w].phase = "poll" /\ workers[w].phase = "busy"
               /\ dir' = [dir EXCEPT !.result = Put(dir.result, asked)]
      <4>1. asked \in Busy
        BY <3>4
      <4>2. dir'.request = dir.request /\ dir'.result = Put(dir.result, asked)
        BY <3>4 DEF TypeOK, DirTyped
      <4>3. Put(dir.result, asked) \subseteq dir.result \cup {asked}
        BY DEF Put
      <4> HIDE DEF asked, Busy
      <4>4. QED
        BY <2>2, <2>3, <2>4, <3>4, <4>1, <4>2, <4>3
    <3>5. QED
      BY <1>4, <3>1, <3>2, <3>3, <3>4, WorkerSteps
  <2>6. QED
    BY <2>1, <2>5, AskedKept
<1>5. ASSUME NEW t \in Threads,
             \/ Generate(t) \/ CheckWorker(t) \/ PushPolicy(t) \/ SeesAck(t) \/ TakesNumber(t)
             \/ ReadsResult(t) \/ Return(t) \/ FindsDead(t) \/ TimesOut(t)
      PROVE  NumbersAgree'
  <2>1. /\ UNCHANGED <<workers, proc, nextN>> /\ dir'.request = dir.request /\ dir'.result = dir.result
    BY <1>5 DEF Generate, CheckWorker, PushPolicy, SeesAck, TakesNumber, ReadsResult, Return,
                FindsDead, TimesOut, backend, TypeOK, DirTyped
  <2>2. ~(calls'[t].pc \in {"write", "wait"})
    <3>1. CASE CheckWorker(t) \/ PushPolicy(t) \/ SeesAck(t)
      <4>1. PICK p \in {"push", "start", "take", "ack"} : Goes(t, p)
        BY <3>1 DEF CheckWorker, PushPolicy, SeesAck
      <4>2. calls'[t].pc = p
        BY <1>0, <4>1, GoesChanges DEF Points, Working
      <4>3. QED
        BY <4>2
    <3>2. CASE Generate(t) \/ TakesNumber(t) \/ ReadsResult(t)
      BY <1>0, <3>2 DEF Generate, TakesNumber, ReadsResult, CallsTyped, NoCall
    <3>3. CASE Return(t) \/ FindsDead(t) \/ TimesOut(t)
      <4>1. Raises(t)
        BY <3>3 DEF Return, FindsDead, TimesOut, Raises
      <4>2. QED
        BY <1>0, <4>1, RaiseChanges
    <3>4. QED
      BY <1>5, <3>1, <3>2, <3>3
  <2>3. \A s \in Threads : ~(calls'[s].pc \in {"write", "wait"})
    BY <2>2, OnlyThread
  <2>4. Asked' = Asked
    BY <2>1 DEF Asked
  <2>5. QED
    BY <2>1, <2>3, <2>4, AskedKept
<1>6. CASE LoadPolicy \/ Finished \/ UNCHANGED vars
  <2>1. UNCHANGED <<calls, workers, proc, dir, nextN>>
    BY <1>6 DEF LoadPolicy, Finished, vars
  <2>2. Asked' = Asked
    BY <2>1 DEF Asked
  <2>3. QED
    BY <2>1, <2>2, AskedKept
<1>7. CASE Unload
  <2>1. /\ calls' = [t \in Threads |-> [NoCall EXCEPT !.pc = "unloading"]] /\ UNCHANGED <<workers, proc, nextN>>
        /\ dir'.request = dir.request /\ dir'.result = dir.result
    BY <1>7 DEF Unload, TypeOK, DirTyped
  <2>2. \A t \in Threads : calls'[t].pc = "unloading"
    BY <2>1, AllUnload
  <2>3. Asked' = Asked
    BY <2>1 DEF Asked
  <2>4. QED
    BY <2>1, <2>2, <2>3, AskedKept
<1>8. CASE Unloaded \/ Restart
  <2>1. proc' = 0
    BY <1>8 DEF Unloaded, Restart
  <2>2. QED
    BY <2>1 DEF NumbersAgree
<1>9. QED
  BY <1>1, <1>2, <1>3, <1>4, <1>5, <1>6, <1>7, <1>8 DEF Next, ThreadRuns

LEMMA VersionsAgreeStep ==
    ASSUME OneThread, TypeOK, CallsFit, WorkersFit, LastIsOnly, VersionsAgree, [Next]_vars
    PROVE  VersionsAgree'
<1>0. /\ policy \in Int /\ loaded \in Int /\ DOMAIN workers = 1 .. Len(workers) /\ Len(workers) \in Nat
      /\ proc \in 0 .. Len(workers)
      /\ dir.policy \in Int /\ \A v \in dir.done : v \in Int
      /\ \A w \in DOMAIN workers : workers[w].told \in Int
      /\ CallsTyped /\ DirTyped
  <2>1. dir.policy \in Int /\ \A v \in dir.done : v \in Int
    BY Bounds DEF TypeOK, DirTyped, Versions, None
  <2>2. QED
    BY <2>1, Numeric DEF TypeOK, BackendTyped
<1>1. CASE LoadPolicy
  <2>1. AllIdle /\ policy' = policy + 1 /\ UNCHANGED <<calls, proc, loaded, workers, dir>>
    BY <1>1 DEF LoadPolicy
  <2>2. Alive' <=> Alive
    BY <2>1 DEF Alive, Live
  <2>3. Alive => policy # None
    BY <2>1 DEF CallsFit
  <2>4. Alive => proc \in DOMAIN workers
    BY DEF Alive, Live
  <2>5. \A t \in Threads : ~(calls'[t].pc \in {"take", "count", "write"})
    BY <2>1 DEF AllIdle
  <2>6. ASSUME Alive
        PROVE  /\ loaded <= workers[proc].told /\ workers[proc].told <= policy'
               /\ dir.policy # None => workers[proc].told <= dir.policy /\ dir.policy <= policy'
               /\ \A v \in dir.done : v <= workers[proc].told
    BY <1>0, <2>1, <2>3, <2>4, <2>6 DEF VersionsAgree
  <2>7. QED
    BY <2>1, <2>2, <2>5, <2>6 DEF VersionsAgree
<1>2. ASSUME NEW t \in Threads, Spawn(t)
      PROVE  VersionsAgree'
  <2>1. /\ calls'[t].pc = "push" /\ workers'[proc'].told = None
        /\ dir' = EmptyDir /\ loaded' = None /\ policy' = policy
    BY <1>2, SpawnChanges
  <2>2. \A s \in Threads : calls'[s].pc = "push"
    BY <2>1, OnlyThread
  <2>3. None <= policy
    BY Bounds DEF TypeOK, BackendTyped, Versions, None
  <2>4. None <= None
    BY DEF None
  <2>5. QED
    BY <2>1, <2>2, <2>3, <2>4 DEF VersionsAgree, EmptyDir
<1>3. ASSUME NEW t \in Threads, PushPolicy(t)
      PROVE  VersionsAgree'
  <2>1. /\ calls[t].pc = "push" /\ UNCHANGED <<policy, proc, loaded, workers>>
        /\ \/ loaded = policy /\ Goes(t, "take") /\ UNCHANGED dir
           \/ Goes(t, "ack") /\ dir' = [dir EXCEPT !.policy = policy]
    BY <1>3 DEF PushPolicy, At, backend
  <2>2. Alive' <=> Alive
    BY <2>1 DEF Alive, Live
  <2>3. \A s \in Threads : s = t
    BY OnlyThread
  <2>4. CASE loaded = policy /\ Goes(t, "take") /\ UNCHANGED dir
    BY <2>1, <2>2, <2>3, <2>4 DEF VersionsAgree
  <2>5. CASE Goes(t, "ack") /\ dir' = [dir EXCEPT !.policy = policy]
    <3>1. calls'[t].pc = "ack"
      BY <1>0, <2>5, GoesChanges DEF Points, Working
    <3>2. dir'.policy = policy /\ dir'.done = dir.done
      BY <1>0, <2>5 DEF DirTyped
    <3>3. policy <= policy
      BY <1>0
    <3>4. QED
      BY <2>1, <2>2, <2>3, <3>1, <3>2, <3>3 DEF VersionsAgree
  <2>6. QED
    BY <2>1, <2>4, <2>5
<1>4. ASSUME NEW t \in Threads, SeesAck(t)
      PROVE  VersionsAgree'
  <2>1. /\ policy \in dir.done /\ loaded' = policy /\ UNCHANGED <<policy, proc, workers>>
        /\ dir' = [dir EXCEPT !.done = dir.done \ {policy}]
    BY <1>4 DEF SeesAck
  <2>2. Alive' <=> Alive
    BY <2>1 DEF Alive, Live
  <2>3. dir'.policy = dir.policy /\ dir'.done \subseteq dir.done
    BY <1>0, <2>1 DEF DirTyped
  <2>4. QED
    BY <2>1, <2>2, <2>3 DEF VersionsAgree
<1>5. ASSUME NEW t \in Threads,
             \/ Generate(t) \/ CheckWorker(t) \/ TakesNumber(t) \/ CountsNumber(t) \/ WritesRequest(t)
             \/ ReadsResult(t) \/ Return(t) \/ FindsDead(t) \/ TimesOut(t)
      PROVE  VersionsAgree'
  <2>1. UNCHANGED <<policy, proc, loaded, workers>> /\ dir'.policy = dir.policy /\ dir'.done = dir.done
    BY <1>0, <1>5 DEF Generate, CheckWorker, TakesNumber, CountsNumber, WritesRequest, ReadsResult, Return,
                FindsDead, TimesOut, backend, DirTyped
  <2>2. calls'[t].pc \in {"take", "count", "write"} => calls[t].pc \in {"take", "count", "write"}
    <3>1. CASE CheckWorker(t) \/ CountsNumber(t) \/ WritesRequest(t)
      <4>1. PICK p \in {"push", "start", "write", "wait"} : Goes(t, p) /\ (p = "write" => calls[t].pc = "count")
        BY <3>1 DEF CheckWorker, CountsNumber, WritesRequest, At
      <4>2. calls'[t].pc = p
        BY <1>0, <4>1, GoesChanges DEF Points, Working
      <4>3. QED
        BY <4>1, <4>2
    <3>2. CASE Generate(t) \/ ReadsResult(t)
      BY <1>0, <3>2 DEF Generate, ReadsResult, CallsTyped, NoCall
    <3>3. CASE TakesNumber(t)
      BY <3>3 DEF TakesNumber, At
    <3>4. CASE Return(t) \/ FindsDead(t) \/ TimesOut(t)
      <4>1. Raises(t)
        BY <3>4 DEF Return, FindsDead, TimesOut, Raises
      <4>2. QED
        BY <1>0, <4>1, RaiseChanges
    <3>5. QED
      BY <1>5, <3>1, <3>2, <3>3, <3>4
  <2>3. \A s \in Threads : s = t
    BY OnlyThread
  <2>4. Alive' <=> Alive
    BY <2>1 DEF Alive, Live
  <2>5. QED
    BY <2>1, <2>2, <2>3, <2>4 DEF VersionsAgree
<1>6. ASSUME NEW w \in DOMAIN workers, WorkerRuns(w) \/ Dies(w)
      PROVE  VersionsAgree'
  <2>1. w = proc /\ Alive
    BY <1>6, LiveSteps
  <2>2. UNCHANGED <<calls, policy, proc, loaded>>
    BY <1>6, WorkerSteps DEF backend
  <2>3. /\ loaded <= workers[w].told
        /\ policy # None =>
             /\ workers[w].told <= policy
             /\ dir.policy # None => workers[w].told <= dir.policy /\ dir.policy <= policy
             /\ \A v \in dir.done : v <= workers[w].told
        \/ policy = None
    BY <2>1 DEF VersionsAgree
  <2>4. policy # None =>
          /\ loaded <= workers'[w].told
          /\ workers'[w].told <= policy
          /\ dir'.policy # None => workers'[w].told <= dir'.policy /\ dir'.policy <= policy
          /\ \A v \in dir'.done : v <= workers'[w].told
    <3>1. CASE UNCHANGED dir /\ workers'[w].told = workers[w].told
      BY <2>3, <3>1
    <3>2. CASE workers'[w].told = dir.policy /\ dir.policy # None /\ UNCHANGED dir
      BY <1>0, <2>3, <3>2
    <3>3. CASE /\ workers'[w].told = workers[w].told
               /\ dir' = [dir EXCEPT !.policy = None, !.done = dir.done \cup {workers[w].told}]
      <4>1. dir'.policy = None /\ dir'.done = dir.done \cup {workers[w].told}
        BY <1>0, <3>3 DEF DirTyped
      <4>2. workers[w].told <= workers[w].told
        BY <1>0
      <4>3. QED
        BY <2>3, <3>3, <4>1, <4>2
    <3>4. CASE /\ workers'[w].told = workers[w].told
               /\ dir' = [dir EXCEPT !.result = Put(dir.result, [n |-> workers[w].next, call |-> workers[w].job])]
      <4>1. dir'.policy = dir.policy /\ dir'.done = dir.done
        BY <1>0, <3>4 DEF DirTyped
      <4>2. QED
        BY <2>3, <3>4, <4>1
    <3>5. QED
      BY <1>6, <3>1, <3>2, <3>3, <3>4, WorkerSteps
  <2>5. QED
    BY <2>1, <2>2, <2>4 DEF VersionsAgree
<1>7. CASE Unload
  <2>1. /\ calls' = [t \in Threads |-> [NoCall EXCEPT !.pc = "unloading"]] /\ policy' = None
    BY <1>7 DEF Unload
  <2>2. \A t \in Threads : calls'[t].pc = "unloading"
    BY <2>1, AllUnload
  <2>3. QED
    BY <2>1, <2>2 DEF VersionsAgree
<1>8. CASE Unloaded \/ Restart
  <2>1. proc' = 0 /\ calls' = [t \in Threads |-> NoCall] /\ DOMAIN workers' = DOMAIN workers
    BY <1>8, UnloadedChanges DEF Unloaded, Restart
  <2>2. \A t \in Threads : calls'[t].pc = "idle"
    BY <2>1, AllRest
  <2>3. ~Alive'
    BY <1>0, <2>1 DEF Alive, Live
  <2>4. QED
    BY <2>2, <2>3 DEF VersionsAgree
<1>9. CASE Finished \/ UNCHANGED vars
  <2>1. UNCHANGED <<calls, policy, proc, loaded, workers, dir>>
    BY <1>9 DEF Finished, vars
  <2>2. Alive' <=> Alive
    BY <2>1 DEF Alive, Live
  <2>3. QED
    BY <2>1, <2>2 DEF VersionsAgree
<1>10. QED
  BY <1>1, <1>2, <1>3, <1>4, <1>5, <1>6, <1>7, <1>8, <1>9 DEF Next, ThreadRuns

(* The numbers, versions and processes of backend and worker agree, for    *)
(* one rollout thread whose program leaves no worker behind.               *)
THEOREM WorkerCorrect == OneThread /\ ~Orphans => (Spec => []WorkerAgrees)
<1> SUFFICES ASSUME OneThread, ~Orphans
             PROVE  Spec => []WorkerAgrees
  OBVIOUS
<1>1. Init => CallsFit /\ LastIsOnly /\ NumbersAgree /\ VersionsAgree
  <2> SUFFICES ASSUME Init
               PROVE  CallsFit /\ LastIsOnly /\ NumbersAgree /\ VersionsAgree
    OBVIOUS
  <2>1. Live = {} /\ proc = 0 /\ \A t \in Threads : calls[t].pc = "idle"
    BY EmptySeq DEF Init, Live, NoCall
  <2>2. QED
    BY <2>1, TypesStart DEF LastIsOnly, NumbersAgree, VersionsAgree, Alive, At
<1>2. /\ TypeOK /\ NumbersSuffice /\ WorkersFit /\ CallsFit
      /\ LastIsOnly /\ NumbersAgree /\ VersionsAgree /\ [Next]_vars
      => CallsFit' /\ LastIsOnly' /\ NumbersAgree' /\ VersionsAgree'
  BY TypesStep, LastIsOnlyStep, NumbersAgreeStep, VersionsAgreeStep
<1>3. /\ TypeOK /\ NumbersSuffice /\ WorkersFit /\ CallsFit /\ LastIsOnly /\ NumbersAgree /\ VersionsAgree
      => WorkerAgrees
  BY DEF WorkerAgrees
<1>4. QED
  BY <1>1, <1>2, <1>3, TypesCorrect, PTL DEF Spec

(* A call returns the completions of its own prompts.                      *)
THEOREM AnswersCorrect == OneThread /\ ~Orphans => (Spec => []AnswersAreOwn)
<1> SUFFICES ASSUME OneThread, ~Orphans
             PROVE  Spec => []AnswersAreOwn
  OBVIOUS
<1>1. Init => AnswersAreOwn
  BY DEF Init, AnswersAreOwn, At, NoCall
<1>2. TypeOK /\ WorkerAgrees /\ AnswersAreOwn /\ [Next]_vars => AnswersAreOwn'
  <2> SUFFICES ASSUME TypeOK, WorkerAgrees, AnswersAreOwn, [Next]_vars
               PROVE  AnswersAreOwn'
    OBVIOUS
  <2>1. CallsTyped /\ DirTyped /\ CallsFit /\ NumbersAgree
    BY DEF TypeOK, WorkerAgrees
  <2>2. ASSUME NEW t \in Threads, ReadsResult(t)
        PROVE  AnswersAreOwn'
    <3>1. /\ calls[t].pc = "wait" /\ calls'[t].call = calls[t].call /\ OthersWait(t)
          /\ \E f \in dir.result : f.n = calls[t].n /\ calls'[t].answer = f.call
      BY <2>1, <2>2, AnswerChanges
    <3>2. PICK f \in dir.result : f.n = calls[t].n /\ calls'[t].answer = f.call
      BY <3>1
    <3>3. f \in Asked /\ proc # 0
      BY <2>1, <3>1, OneFits DEF Asked
    <3>4. f.call = calls[t].call
      BY <2>1, <3>1, <3>2, <3>3 DEF NumbersAgree, At
    <3>5. QED
      BY <3>1, <3>2, <3>4 DEF AnswersAreOwn, At, OthersWait
  <2>3. ASSUME NEW t \in Threads, ThreadRuns(t) \/ Generate(t) \/ TimesOut(t), ~ReadsResult(t)
        PROVE  AnswersAreOwn'
    <3>1. calls'[t].pc # "returned"
      <4>1. CASE CheckWorker(t) \/ PushPolicy(t) \/ SeesAck(t) \/ CountsNumber(t) \/ WritesRequest(t) \/ Spawn(t)
        <5>1. PICK p \in {"push", "start", "take", "ack", "write", "wait"} : Goes(t, p)
          BY <4>1 DEF CheckWorker, PushPolicy, SeesAck, CountsNumber, WritesRequest, Spawn, StartsWorker
        <5>2. calls'[t].pc = p
          BY <2>1, <5>1, GoesChanges DEF Points, Working
        <5>3. QED
          BY <5>2
      <4>2. CASE Generate(t) \/ TakesNumber(t)
        BY <2>1, <4>2 DEF Generate, TakesNumber, CallsTyped, NoCall
      <4>3. CASE Return(t) \/ FindsDead(t) \/ TimesOut(t)
        <5>1. Raises(t)
          BY <4>3 DEF Return, FindsDead, TimesOut, Raises
        <5>2. QED
          BY <2>1, <5>1, RaiseChanges
      <4>4. QED
        BY <2>3, <4>1, <4>2, <4>3 DEF ThreadRuns
    <3>2. \A s \in Threads : calls'[s].pc # "returned"
      BY <3>1, OnlyThread
    <3>3. QED
      BY <3>2 DEF AnswersAreOwn, At
  <2>4. CASE Unload \/ Unloaded \/ Restart
    <3>1. \A t \in Threads : calls'[t].pc \in {"idle", "unloading"}
      BY <2>4, AllUnload, AllRest DEF Unload, Unloaded, Restart
    <3>2. QED
      BY <3>1 DEF AnswersAreOwn, At
  <2>5. ASSUME NEW w \in DOMAIN workers, WorkerRuns(w) \/ Dies(w)
        PROVE  UNCHANGED calls
    BY <2>1, <2>5, WorkerSteps DEF WorkerAgrees
  <2>6. CASE UNCHANGED calls
    BY <2>6 DEF AnswersAreOwn, At
  <2>7. QED
    BY <2>2, <2>3, <2>4, <2>5, <2>6 DEF Next, LoadPolicy, Finished, vars
<1>3. QED
  BY <1>1, <1>2, TypesCorrect, WorkerCorrect, PTL DEF Spec

(* A request is handed to a worker that was told the version it is for.    *)
THEOREM PolicyCorrect == OneThread /\ ~Orphans => (Spec => []WorkerKnowsPolicy)
<1> SUFFICES ASSUME OneThread, ~Orphans
             PROVE  Spec => []WorkerKnowsPolicy
  OBVIOUS
<1>1. TypeOK /\ WorkerAgrees => WorkerKnowsPolicy
  <2> SUFFICES ASSUME TypeOK, WorkerAgrees, NEW t \in Threads, At(t, "write"), Alive
               PROVE  workers[proc].told = policy
    BY DEF WorkerKnowsPolicy
  <2>1. policy # None
    BY OneFits DEF WorkerAgrees, At, Working
  <2>2. loaded = policy /\ loaded <= workers[proc].told /\ workers[proc].told <= policy
    BY <2>1 DEF WorkerAgrees, VersionsAgree, At
  <2>3. policy \in Int /\ workers[proc].told \in Int
    BY Numeric DEF Alive, Live
  <2>4. QED
    BY <2>2, <2>3
<1>2. QED
  BY <1>1, TypesCorrect, WorkerCorrect, PTL

(* One worker polls the directory.                                         *)
THEOREM OneWorkerCorrect == OneThread /\ ~Orphans => (Spec => []OneWorker)
<1> SUFFICES ASSUME OneThread, ~Orphans
             PROVE  Spec => []OneWorker
  OBVIOUS
<1>1. WorkerAgrees => OneWorker
  <2> SUFFICES ASSUME WorkerAgrees
               PROVE  OneWorker
    OBVIOUS
  <2>1. IsFiniteSet({proc}) /\ Cardinality({proc}) = 1
    BY FS_Singleton
  <2>2. Live \subseteq {proc}
    BY DEF WorkerAgrees, LastIsOnly
  <2>3. Cardinality(Live) <= Cardinality({proc})
    BY <2>1, <2>2, FS_Subset
  <2>4. QED
    BY <2>1, <2>3 DEF OneWorker
<1>2. QED
  BY <1>1, WorkerCorrect, PTL

=============================================================================
