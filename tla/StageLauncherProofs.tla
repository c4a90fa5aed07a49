------------------------ MODULE StageLauncherProofs ------------------------
(***************************************************************************)
(* What a restart of the stages guarantees for every number of stages,     *)
(* policies, calls, faults and programs.  The types hold for all of them;  *)
(* the rest when no program ends before the stages that it knows only by   *)
(* handle.                                                                 *)
(***************************************************************************)
EXTENDS StageLauncher, TLAPS

LEMMA Bounds ==
    /\ MaxLoads \in Nat /\ MaxFaults \in Nat /\ MaxEnds \in Nat
    /\ Stages \in Nat /\ Driver \in Nat
    /\ 0 \in Ranks /\ 0 \in Runs /\ Driver \in Ranks
  BY StageAssumption DEF Ranks, Driver, Runs

(* What happens to the stages besides launches: every one is what one was  *)
(* before, and what was killed stays so.                                   *)
SameStage(p, q) ==
    /\ q.rank = p.rank /\ q.run = p.run /\ q.policy = p.policy
    /\ p.phase = "dying" => q.phase = "dying"

Descend == \A q \in procs' : \E p \in procs : SameStage(p, q) /\ q.handled = p.handled

LEMMA StageSteps ==
    ASSUME TypeOK, NEW p \in procs,
           StartStage(p) \/ Join(p) \/ Serve(p) \/ StageDies(p) \/ KilledGoes(p)
    PROVE  procs' \subseteq Process /\ Descend
<1>1. procs \subseteq Process /\ p \in Process
  BY DEF TypeOK
<1>2. ASSUME procs' \subseteq procs
      PROVE  procs' \subseteq Process /\ Descend
  BY <1>1, <1>2 DEF Descend, SameStage
<1>3. ASSUME NEW phase \in Phases, Becomes(p, phase), p.phase # "dying"
      PROVE  procs' \subseteq Process /\ Descend
  <2> DEFINE q == [p EXCEPT !.phase = phase]
  <2>1. q \in Process /\ SameStage(p, q) /\ q.handled = p.handled
    BY <1>1, <1>3 DEF Process, SameStage
  <2>2. procs' = (procs \ {p}) \cup {q}
    BY <1>3 DEF Becomes
  <2>3. \A r \in procs : SameStage(r, r)
    BY DEF SameStage
  <2> HIDE DEF q
  <2>4. QED
    BY <1>1, <2>1, <2>2, <2>3 DEF Descend
<1>4. CASE StartStage(p)
  <2>1. p.phase = "starting" /\ (procs' = procs \ {p} \/ Becomes(p, "up"))
    BY <1>4 DEF StartStage
  <2>2. QED
    BY <1>2, <1>3, <2>1 DEF Phases
<1>5. CASE Join(p)
  <2>1. p.phase = "up" /\ \E phase \in {"joined", "stuck"} : Becomes(p, phase)
    BY <1>5 DEF Join
  <2>2. QED
    BY <1>3, <2>1 DEF Phases
<1>6. CASE Serve(p)
  BY <1>3, <1>6 DEF Serve, Phases
<1>7. CASE StageDies(p) \/ KilledGoes(p)
  BY <1>2, <1>7 DEF StageDies, KilledGoes
<1>8. QED
  BY <1>4, <1>5, <1>6, <1>7

LEMMA StageKeeps ==
    ASSUME NEW p \in procs, StartStage(p) \/ Join(p) \/ Serve(p) \/ StageDies(p) \/ KilledGoes(p)
    PROVE  UNCHANGED <<pc, rank, goal, policy, stamp, name, run, launcher, loads, ends>>
  BY DEF StartStage, Join, Serve, StageDies, KilledGoes, caller, fixed

LEMMA KillSteps ==
    ASSUME TypeOK, NEW m \in Ranks, procs' = Killed(m)
    PROVE  /\ procs' \subseteq Process /\ Descend
           /\ HandlesKnown => \A q \in procs' : q.rank = m => q.phase = "dying"
<1>1. procs \subseteq Process
  BY DEF TypeOK
<1>2. \A p \in procs : LET q == [p EXCEPT !.phase = "dying"] IN
        q \in Process /\ SameStage(p, q) /\ q.handled = p.handled /\ q.rank = p.rank /\ q.phase = "dying"
  BY <1>1 DEF Process, Phases, SameStage
<1>3. Found(m) \subseteq procs
  BY DEF Found
<1>4. ASSUME NEW q \in procs'
      PROVE  /\ q \in Process
             /\ \E p \in procs : SameStage(p, q) /\ q.handled = p.handled
             /\ HandlesKnown /\ q.rank = m => q.phase = "dying"
  <2>1. CASE q \in procs \ Found(m)
    <3>1. SameStage(q, q) /\ q \in Process
      BY <1>1, <2>1 DEF SameStage
    <3>2. HandlesKnown /\ q.rank = m => q \in Found(m)
      BY <2>1 DEF HandlesKnown, Found
    <3>3. QED
      BY <2>1, <3>1, <3>2
  <2>2. CASE \E p \in Found(m) : q = [p EXCEPT !.phase = "dying"]
    BY <1>2, <1>3, <2>2
  <2>3. QED
    BY <1>4, <2>1, <2>2 DEF Killed
<1>5. QED
  BY <1>4 DEF Descend

(* The stage that is launched on the machine of the loop.                  *)
LEMMA LaunchSteps ==
    ASSUME TypeOK, procs' = Launched
    PROVE  /\ procs' \subseteq Process
           /\ \A q \in procs' :
                \/ q \in procs
                \/ q.rank = rank /\ q.run = run /\ q.policy = policy /\ q.handled
<1> DEFINE new == [rank |-> rank, run |-> run, policy |-> policy, phase |-> "starting", handled |-> TRUE]
<1>1. new \in Process /\ new.rank = rank /\ new.run = run /\ new.policy = policy /\ new.handled
  BY DEF TypeOK, Process, Phases
<1>2. procs' = procs \cup {new}
  BY DEF Launched
<1> HIDE DEF new
<1>3. QED
  BY <1>1, <1>2 DEF TypeOK

-----------------------------------------------------------------------------
(* Types, for every launcher and with or without orphans.                  *)

LEMMA AdvanceTyped ==
    ASSUME rank \in Ranks, NEW next, Advance(next)
    PROVE  /\ rank' \in Ranks
           /\ \/ rank < Driver /\ rank' = rank + 1 /\ pc' = pc
              \/ rank = Driver /\ rank' = 0 /\ pc' = next
  BY StageAssumption DEF Advance, Ranks, Driver

LEMMA TypesStart ==
    ASSUME Init
    PROVE  TypeOK /\ RunsFit
  BY Bounds DEF Init, TypeOK, RunsFit

LEMMA TypesStep ==
    ASSUME TypeOK, RunsFit, [Next]_vars
    PROVE  TypeOK' /\ RunsFit'
<1> USE Bounds
<1>0. run \in Nat /\ loads \in 0 .. MaxLoads /\ registry \subseteq [rank: Ranks, wire: Runs, run: Runs]
      /\ rank \in Ranks /\ procs \subseteq Process /\ faults \in 0 .. MaxFaults
  BY DEF TypeOK, Runs
<1>1. \A dead : AfterDeath(registry, dead) \subseteq [rank: Ranks, wire: Runs, run: Runs]
  BY <1>0 DEF AfterDeath
<1>2. ASSUME Misbehave
      PROVE  faults' \in 0 .. MaxFaults
  BY <1>0, <1>2 DEF Misbehave
<1>3. CASE LoadPolicy
  <2>1. loads' = loads + 1 /\ loads < MaxLoads /\ policy' \in Policies /\ pc' = "stop" /\ goal' = "load"
        /\ UNCHANGED <<launcher, rank, run, stamp, name, procs, registry, faults, ends>>
    BY <1>3 DEF LoadPolicy
  <2>2. TypeOK'
    BY <1>0, <2>1 DEF TypeOK
  <2>3. RunsFit'
    BY <1>0, <2>1 DEF RunsFit
  <2>4. QED
    BY <2>2, <2>3
<1>4. CASE Shutdown
  BY <1>4 DEF Shutdown, TypeOK, RunsFit
<1>5. CASE StopMachine
  <2>1. /\ pc = "stop" /\ procs' = Killed(rank) /\ Advance("settle")
        /\ UNCHANGED <<goal, policy, stamp, name, run, registry, launcher, loads, ends, faults>>
    BY <1>5 DEF StopMachine, caller, fixed
  <2>2. procs' \subseteq Process
    BY <1>0, <2>1, KillSteps
  <2>3. rank' \in Ranks /\ pc' \in {"stop", "settle"}
    BY <1>0, <2>1, AdvanceTyped
  <2>4. TypeOK'
    BY <2>1, <2>2, <2>3 DEF TypeOK
  <2>5. RunsFit'
    BY <2>1, <2>3 DEF RunsFit
  <2>6. QED
    BY <2>4, <2>5
<1>6. CASE StopRaises
  <2>1. /\ procs' \in {procs, Killed(rank)} /\ pc' = "raised" /\ rank' = 0 /\ Misbehave
        /\ UNCHANGED <<goal, policy, stamp, name, run, registry, launcher, loads, ends>>
    BY <1>6 DEF StopRaises, Raise, caller, fixed
  <2>2. procs' \subseteq Process
    BY <1>0, <2>1, KillSteps
  <2>3. TypeOK'
    BY <1>2, <2>1, <2>2 DEF TypeOK
  <2>4. RunsFit'
    BY <2>1 DEF RunsFit
  <2>5. QED
    BY <2>3, <2>4
<1>7. CASE Settle
  <2>1. /\ pc = "settle" /\ ((procs' = Live /\ UNCHANGED faults) \/ (Misbehave /\ UNCHANGED procs))
        /\ registry' = AfterDeath(registry, procs \ procs')
        /\ \/ goal = "load" /\ run' = run + 1 /\ pc' = "launch" /\ UNCHANGED <<stamp, name>>
           \/ pc' = "idle" /\ stamp' = None /\ name' = None /\ UNCHANGED run
        /\ UNCHANGED <<goal, rank, policy, launcher, loads, ends>>
    <3>1. /\ pc = "settle" /\ ((procs' = Live /\ UNCHANGED faults) \/ (Misbehave /\ UNCHANGED procs))
          /\ registry' = AfterDeath(registry, procs \ procs')
      BY <1>7 DEF Settle
    <3>2. IF goal = "load"
          THEN run' = run + 1 /\ pc' = "launch" /\ UNCHANGED <<stamp, name>>
          ELSE pc' = "idle" /\ stamp' = None /\ name' = None /\ UNCHANGED run
      BY <1>7 DEF Settle
    <3>3. UNCHANGED <<goal, rank, policy, launcher, loads, ends>>
      BY <1>7 DEF Settle, fixed
    <3>4. QED
      BY <3>1, <3>2, <3>3
  <2>2. procs' \subseteq Process /\ registry' \subseteq [rank: Ranks, wire: Runs, run: Runs]
        /\ faults' \in 0 .. MaxFaults
    BY <1>0, <1>1, <1>2, <2>1 DEF Live
  <2>3. run' \in Runs /\ RunsFit'
    BY <1>0, <2>1 DEF RunsFit, Runs, TypeOK
  <2>4. TypeOK'
    BY <2>1, <2>2, <2>3 DEF TypeOK
  <2>5. QED
    BY <2>3, <2>4
<1>8. CASE Launch
  <2>1. /\ procs' = Launched /\ Advance("health") /\ pc = "launch"
        /\ UNCHANGED <<goal, policy, stamp, name, run, registry, launcher, loads, ends, faults>>
    BY <1>8 DEF Launch, caller, fixed
  <2>2. procs' \subseteq Process /\ rank' \in Ranks /\ pc' \in {"launch", "health"}
    BY <1>0, <2>1, LaunchSteps, AdvanceTyped
  <2>3. QED
    BY <2>1, <2>2 DEF TypeOK, RunsFit
<1>9. CASE LaunchRaises
  <2>1. /\ procs' \in {procs, Launched} /\ pc' = "raised" /\ rank' = 0 /\ Misbehave
        /\ UNCHANGED <<goal, policy, stamp, name, run, registry, launcher, loads, ends>>
    BY <1>9 DEF LaunchRaises, Raise, caller, fixed
  <2>2. procs' \subseteq Process
    BY <1>0, <2>1, LaunchSteps
  <2>3. QED
    BY <1>2, <2>1, <2>2 DEF TypeOK, RunsFit
<1>10. CASE Healthy
  BY <1>10 DEF Healthy, fixed, TypeOK, RunsFit
<1>11. CASE GiveUp
  BY <1>11 DEF GiveUp, Raise, caller, fixed, TypeOK, RunsFit
<1>12. Resolved \subseteq Policies \cup {None}
  BY <1>0 DEF Resolved, Answering, Live, Process, TypeOK
<1>13. CASE Resolve
  BY <1>12, <1>13 DEF Resolve, fixed, TypeOK, RunsFit
<1>14. CASE ResolveRaises
  <2>1. faults' \in 0 .. MaxFaults
    BY <1>0, <1>2, <1>14 DEF ResolveRaises
  <2>2. QED
    BY <1>14, <2>1 DEF ResolveRaises, Raise, caller, fixed, TypeOK, RunsFit
<1>15. CASE Generate
  BY <1>12, <1>15 DEF Generate, fixed, TypeOK, RunsFit
<1>16. CASE ProgramEnds
  <2>1. /\ ends < MaxEnds /\ ends' = ends + 1 /\ pc' = "idle" /\ rank' = 0 /\ stamp' = None /\ name' = None
        /\ procs' = {[p EXCEPT !.handled = FALSE] : p \in procs}
        /\ UNCHANGED <<launcher, goal, policy, run, registry, loads, faults>>
    BY <1>16 DEF ProgramEnds
  <2>2. \A p \in procs : [p EXCEPT !.handled = FALSE] \in Process
    BY <1>0 DEF Process
  <2>3. ends' \in 0 .. MaxEnds /\ procs' \subseteq Process
    BY <2>1, <2>2 DEF TypeOK
  <2>4. QED
    BY <2>1, <2>3 DEF TypeOK, RunsFit
<1>17. ASSUME NEW p \in procs, StartStage(p) \/ Join(p) \/ Serve(p) \/ StageDies(p) \/ KilledGoes(p)
       PROVE  TypeOK' /\ RunsFit'
  <2>1. procs' \subseteq Process
    BY <1>17, StageSteps
  <2>2. UNCHANGED <<pc, rank, goal, policy, stamp, name, run, launcher, loads, ends>>
    BY <1>17, StageKeeps
  <2>3. faults' \in 0 .. MaxFaults
    BY <1>0, <1>2, <1>17 DEF StartStage, Join, Serve, StageDies, KilledGoes
  <2>4. registry' \subseteq [rank: Ranks, wire: Runs, run: Runs]
    <3>1. CASE StartStage(p)
      <4>1. [rank |-> p.rank, wire |-> WireName(p.run), run |-> p.run] \in [rank: Ranks, wire: Runs, run: Runs]
        BY <1>0 DEF Process, WireName
      <4>2. QED
        BY <1>0, <3>1, <4>1 DEF StartStage
    <3>2. CASE ~StartStage(p)
      BY <1>0, <1>1, <1>17, <3>2 DEF Join, Serve, StageDies, KilledGoes
    <3>3. QED
      BY <3>1, <3>2
  <2>5. QED
    BY <2>1, <2>2, <2>3, <2>4 DEF TypeOK, RunsFit
<1>18. CASE Finished \/ UNCHANGED vars
  BY <1>18 DEF Finished, vars, TypeOK, RunsFit
<1>19. QED
  BY <1>3, <1>4, <1>5, <1>6, <1>7, <1>8, <1>9, <1>10, <1>11, <1>13, <1>14, <1>15, <1>16, <1>17, <1>18 DEF Next

(* The state of launcher, stages and names keeps its types, and every run  *)
(* of the stages is of a call of its own.                                  *)
THEOREM TypesCorrect == Spec => [](TypeOK /\ RunsFit)
<1>1. Init => TypeOK /\ RunsFit
  BY TypesStart
<1>2. TypeOK /\ RunsFit /\ [Next]_vars => (TypeOK /\ RunsFit)'
  BY TypesStep
<1>3. QED
  BY <1>1, <1>2, PTL DEF Spec

-----------------------------------------------------------------------------
(* A restart knows what runs on the machines.                              *)

(* What was one run's is not disturbed by what happens to the stages.      *)
LEMMA DescendKeeps ==
    ASSUME Descend, UNCHANGED <<pc, rank, run, policy, launcher>>
    PROVE  /\ StoppedSoFar => StoppedSoFar'
           /\ OneRunLives => OneRunLives'
           /\ HandlesKnown => HandlesKnown'
<1>1. \A q \in procs' : \E p \in procs : SameStage(p, q) /\ q.handled = p.handled
  BY DEF Descend
<1>2. StoppedSoFar => StoppedSoFar'
  BY <1>1 DEF StoppedSoFar, SameStage
<1>3. OneRunLives => OneRunLives'
  BY <1>1 DEF OneRunLives, Restarted, SameStage
<1>4. HandlesKnown => HandlesKnown'
  BY <1>1 DEF HandlesKnown, ByHandle
<1>5. QED
  BY <1>2, <1>3, <1>4

LEMMA DescendKeepsKills ==
    ASSUME Descend, PredecessorsKilled
    PROVE  PredecessorsKilled'
<1> SUFFICES ASSUME NEW p \in procs', NEW q \in procs', p.rank = q.rank, p.run < q.run
             PROVE  p.phase = "dying"
  BY DEF PredecessorsKilled
<1>1. PICK a \in procs : SameStage(a, p)
  BY DEF Descend
<1>2. PICK b \in procs : SameStage(b, q)
  BY DEF Descend
<1>3. QED
  BY <1>1, <1>2 DEF PredecessorsKilled, SameStage

LEMMA HandlesStep ==
    ASSUME HandlesKept, TypeOK, HandlesKnown, [Next]_vars
    PROVE  HandlesKnown'
<1>1. launcher' = launcher
  BY DEF Next, vars, fixed, LoadPolicy, Shutdown, StopMachine, StopRaises, Settle, Launch, LaunchRaises, Healthy,
         GiveUp, Resolve, ResolveRaises, Generate, ProgramEnds, StartStage, Join, Serve, StageDies, KilledGoes,
         Finished
<1>2. CASE ProgramEnds
  <2>1. ByHandle => ~Orphans
    BY DEF HandlesKept, TypeOK, ByHandle
  <2>2. ByHandle => procs' = {}
    BY <1>2, <2>1 DEF ProgramEnds
  <2>3. QED
    BY <1>1, <2>2 DEF HandlesKnown, ByHandle
<1>3. ASSUME Descend
      PROVE  HandlesKnown'
  BY <1>1, <1>3 DEF Descend, HandlesKnown, ByHandle
<1>4. CASE StopMachine \/ StopRaises
  <2>1. procs' = procs \/ procs' = Killed(rank)
    BY <1>4 DEF StopMachine, StopRaises
  <2>2. CASE procs' = Killed(rank)
    BY <1>3, <2>2, KillSteps DEF TypeOK
  <2>3. CASE procs' = procs
    BY <1>1, <2>3 DEF HandlesKnown, ByHandle
  <2>4. QED
    BY <2>1, <2>2, <2>3
<1>5. CASE Launch \/ LaunchRaises
  <2>1. procs' = procs \/ procs' = Launched
    BY <1>5 DEF Launch, LaunchRaises
  <2>2. CASE procs' = Launched
    BY <1>1, <2>2, LaunchSteps DEF HandlesKnown, ByHandle
  <2>3. CASE procs' = procs
    BY <1>1, <2>3 DEF HandlesKnown, ByHandle
  <2>4. QED
    BY <2>1, <2>2, <2>3
<1>6. CASE procs' \subseteq procs
  BY <1>1, <1>6 DEF HandlesKnown, ByHandle
<1>7. ASSUME NEW p \in procs, StartStage(p) \/ Join(p) \/ Serve(p) \/ StageDies(p) \/ KilledGoes(p)
      PROVE  HandlesKnown'
  BY <1>3, <1>7, StageSteps
<1>8. \/ ProgramEnds \/ StopMachine \/ StopRaises \/ Launch \/ LaunchRaises
      \/ procs' \subseteq procs
      \/ \E p \in procs : StartStage(p) \/ Join(p) \/ Serve(p) \/ StageDies(p) \/ KilledGoes(p)
  BY DEF Next, vars, LoadPolicy, Shutdown, Settle, Live, Healthy, GiveUp, caller, Resolve, ResolveRaises, Generate,
         Finished
<1>9. QED
  BY <1>2, <1>4, <1>5, <1>6, <1>7, <1>8

LEMMA RestartStep ==
    ASSUME TypeOK, RunsFit, HandlesKnown, LoopsFromFirst, StoppedSoFar, OneRunLives, LabelsFollow,
           PredecessorsKilled, [Next]_vars
    PROVE  LoopsFromFirst' /\ StoppedSoFar' /\ OneRunLives' /\ LabelsFollow' /\ PredecessorsKilled'
<1> USE Bounds
<1>0. /\ rank \in Ranks /\ run \in Nat /\ procs \subseteq Process
      /\ \A p \in procs : p.run \in Nat /\ p.rank \in Nat /\ p.rank <= Driver
  BY DEF TypeOK, Process, Runs, Ranks, Driver
<1>1. CASE LoadPolicy \/ Shutdown
  <2>1. pc \in {"idle", "served", "raised"} /\ pc' = "stop" /\ UNCHANGED <<rank, run, procs>>
    BY <1>1 DEF LoadPolicy, Shutdown
  <2>2. rank' = 0
    BY <2>1 DEF LoopsFromFirst
  <2>3. StoppedSoFar'
    BY <1>0, <2>1, <2>2 DEF StoppedSoFar
  <2>4. QED
    BY <2>1, <2>3 DEF LoopsFromFirst, OneRunLives, Restarted, LabelsFollow, PredecessorsKilled
<1>2. CASE StopMachine
  <2>1. pc = "stop" /\ procs' = Killed(rank) /\ Advance("settle") /\ run' = run
    BY <1>2 DEF StopMachine
  <2>2. Descend /\ (\A q \in procs' : q.rank = rank => q.phase = "dying") /\ procs' \subseteq Process
    BY <1>0, <2>1, KillSteps
  <2>3. \A q \in procs' : q.rank <= rank => q.phase = "dying"
    <3>1. ASSUME NEW q \in procs', q.rank < rank
          PROVE  q.phase = "dying"
      BY <2>1, <2>2, <3>1 DEF Descend, SameStage, StoppedSoFar
    <3>2. \A q \in procs' : q.rank \in Nat /\ rank \in Nat
      BY <1>0, <2>2 DEF Process, Ranks
    <3>3. QED
      BY <2>2, <3>1, <3>2
  <2>4. \/ rank' = rank + 1 /\ pc' = "stop"
        \/ rank = Driver /\ rank' = 0 /\ pc' = "settle"
    BY <1>0, <2>1, AdvanceTyped
  <2>5. \A q \in procs' : q.rank \in Nat /\ rank \in Nat /\ q.rank <= Driver
    BY <1>0, <2>2 DEF Process, Ranks, Driver
  <2>6. StoppedSoFar'
    BY <2>3, <2>4, <2>5 DEF StoppedSoFar
  <2>7. OneRunLives'
    BY <2>1, <2>2, <2>4 DEF OneRunLives, Restarted, Descend, SameStage
  <2>8. PredecessorsKilled'
    BY <2>2, DescendKeepsKills
  <2>9. QED
    BY <2>4, <2>6, <2>7, <2>8 DEF LoopsFromFirst, LabelsFollow
<1>3. CASE StopRaises
  <2>1. pc' = "raised" /\ rank' = 0 /\ run' = run /\ (procs' = procs \/ procs' = Killed(rank))
    BY <1>3 DEF StopRaises, Raise
  <2>2. Descend
    <3>1. CASE procs' = procs
      BY <3>1 DEF Descend, SameStage
    <3>2. CASE procs' = Killed(rank)
      BY <1>0, <3>2, KillSteps
    <3>3. QED
      BY <2>1, <3>1, <3>2
  <2>3. OneRunLives'
    BY <2>1, <2>2 DEF OneRunLives, Restarted, Descend, SameStage
  <2>4. PredecessorsKilled'
    BY <2>2, DescendKeepsKills
  <2>5. QED
    BY <2>1, <2>3, <2>4 DEF LoopsFromFirst, StoppedSoFar, LabelsFollow
<1>4. CASE Settle
  <2>1. /\ pc = "settle" /\ procs' \subseteq procs /\ rank' = rank
        /\ \/ run' = run + 1 /\ pc' = "launch"
           \/ pc' = "idle" /\ run' = run
    BY <1>4 DEF Settle, Live
  <2>2. \A p \in procs' : p.phase = "dying" /\ p.run <= run /\ p.run \in Nat
    BY <1>0, <2>1 DEF StoppedSoFar, OneRunLives
  <2>3. \A p \in procs' : p.run <= run' /\ (pc' = "launch" => p.run # run')
    BY <1>0, <2>1, <2>2
  <2>4. OneRunLives'
    BY <2>1, <2>2, <2>3 DEF OneRunLives, Restarted
  <2>5. PredecessorsKilled' /\ StoppedSoFar'
    BY <2>1, <2>2 DEF PredecessorsKilled, StoppedSoFar
  <2>6. LoopsFromFirst' /\ LabelsFollow'
    BY <2>1 DEF LoopsFromFirst, LabelsFollow
  <2>7. QED
    BY <2>4, <2>5, <2>6
<1>5. CASE Launch \/ LaunchRaises
  <2>1. /\ pc = "launch" /\ UNCHANGED <<run, policy>> /\ (procs' = procs \/ procs' = Launched)
        /\ Advance("health") \/ Raise
    BY <1>5 DEF Launch, LaunchRaises, caller
  <2>2. pc' = "launch" \/ (pc' \in {"health", "raised"} /\ rank' = 0)
    <3>1. CASE Advance("health")
      BY <1>0, <2>1, <3>1, AdvanceTyped
    <3>2. CASE Raise
      BY <3>2 DEF Raise
    <3>3. QED
      BY <2>1, <3>1, <3>2
  <2>3. \A q \in procs' : q \in procs \/ (q.run = run /\ q.policy = policy)
    BY <2>1, LaunchSteps
  <2>4. \A q \in procs' : q.run <= run /\ (IF q.run = run THEN q.policy = policy ELSE q.phase = "dying")
    BY <1>0, <2>1, <2>3 DEF OneRunLives, Restarted
  <2>5. OneRunLives'
    BY <2>1, <2>4 DEF OneRunLives
  <2>6. PredecessorsKilled'
    <3>1. ASSUME NEW p \in procs', NEW q \in procs', p.run < q.run
          PROVE  p.phase = "dying"
      <4>1. p.run \in Nat /\ q.run \in Nat
        BY <1>0, <2>3
      <4>2. p.run # run
        BY <1>0, <2>4, <3>1, <4>1
      <4>3. QED
        BY <2>4, <4>2
    <3>2. QED
      BY <3>1 DEF PredecessorsKilled
  <2>7. QED
    BY <2>2, <2>5, <2>6 DEF LoopsFromFirst, StoppedSoFar, LabelsFollow
<1>6. CASE Healthy
  <2>1. /\ pc = "health" /\ pc' = "resolve" /\ stamp' = policy /\ name' = None
        /\ UNCHANGED <<rank, policy, run, procs>>
    BY <1>6 DEF Healthy
  <2>2. QED
    BY <2>1 DEF LoopsFromFirst, StoppedSoFar, OneRunLives, Restarted, LabelsFollow, PredecessorsKilled
<1>7. CASE GiveUp \/ ResolveRaises
  <2>1. pc' = "raised" /\ rank' = 0 /\ UNCHANGED <<run, procs>>
    BY <1>7 DEF GiveUp, ResolveRaises, Raise
  <2>2. QED
    BY <2>1 DEF LoopsFromFirst, StoppedSoFar, OneRunLives, Restarted, LabelsFollow, PredecessorsKilled
<1>8. ASSUME Restarted
      PROVE  \A d \in Answering : d.policy = policy
  BY <1>8 DEF Answering, Live, OneRunLives
<1>9. CASE Resolve
  <2>1. /\ pc = "resolve" /\ pc' = "served" /\ name' \in Resolved
        /\ UNCHANGED <<rank, policy, run, stamp, procs>>
    BY <1>9 DEF Resolve
  <2>2. name' = policy
    BY <1>8, <2>1 DEF Resolved, LabelsFollow, Restarted
  <2>3. QED
    BY <2>1, <2>2 DEF LoopsFromFirst, StoppedSoFar, OneRunLives, Restarted, LabelsFollow, PredecessorsKilled
<1>10. CASE Generate
  <2>1. /\ pc \in {"served", "raised"} /\ name = None /\ name' \in Resolved
        /\ UNCHANGED <<pc, rank, policy, run, stamp, procs>>
    BY <1>10 DEF Generate
  <2>2. pc = "served" => name' = policy
    BY <1>8, <2>1 DEF Resolved, Restarted
  <2>3. QED
    BY <2>1, <2>2 DEF LoopsFromFirst, StoppedSoFar, OneRunLives, Restarted, LabelsFollow, PredecessorsKilled
<1>11. CASE ProgramEnds
  <2>1. /\ pc' = "idle" /\ rank' = 0 /\ procs' = {[p EXCEPT !.handled = FALSE] : p \in procs} /\ run' = run
    BY <1>11 DEF ProgramEnds
  <2>2. \A p \in procs : SameStage(p, [p EXCEPT !.handled = FALSE])
    BY <1>0 DEF Process, SameStage
  <2>3. \A q \in procs' : \E p \in procs : SameStage(p, q)
    BY <2>1, <2>2
  <2>4. OneRunLives'
    BY <2>1, <2>3 DEF OneRunLives, Restarted, SameStage
  <2>5. ASSUME NEW p \in procs', NEW q \in procs', p.rank = q.rank, p.run < q.run
        PROVE  p.phase = "dying"
    <3>1. PICK a \in procs : SameStage(a, p)
      BY <2>3
    <3>2. PICK b \in procs : SameStage(b, q)
      BY <2>3
    <3>3. QED
      BY <2>5, <3>1, <3>2 DEF PredecessorsKilled, SameStage
  <2>6. QED
    BY <2>1, <2>4, <2>5 DEF LoopsFromFirst, StoppedSoFar, LabelsFollow, PredecessorsKilled
<1>12. ASSUME NEW p \in procs, StartStage(p) \/ Join(p) \/ Serve(p) \/ StageDies(p) \/ KilledGoes(p)
       PROVE  LoopsFromFirst' /\ StoppedSoFar' /\ OneRunLives' /\ LabelsFollow' /\ PredecessorsKilled'
  <2>1. Descend /\ UNCHANGED <<pc, rank, goal, policy, stamp, name, run, launcher, loads, ends>>
    BY <1>12, StageSteps, StageKeeps
  <2>2. QED
    BY <2>1, DescendKeeps, DescendKeepsKills DEF LoopsFromFirst, LabelsFollow
<1>13. CASE Finished \/ UNCHANGED vars
  <2>1. UNCHANGED <<pc, rank, policy, run, stamp, name, procs>>
    BY <1>13 DEF Finished, vars
  <2>2. QED
    BY <2>1 DEF LoopsFromFirst, StoppedSoFar, OneRunLives, Restarted, LabelsFollow, PredecessorsKilled
<1>14. QED
  BY <1>1, <1>2, <1>3, <1>4, <1>5, <1>6, <1>7, <1>9, <1>10, <1>11, <1>12, <1>13 DEF Next

(* A restart knows what runs on the machines: what it has been to is       *)
(* killed, and what it launched is of one run and one policy.              *)
THEOREM RestartCorrect == HandlesKept => (Spec => []RestartAgrees)
<1> SUFFICES ASSUME HandlesKept
             PROVE  Spec => []RestartAgrees
  OBVIOUS
<1> DEFINE Inv == HandlesKnown /\ LoopsFromFirst /\ StoppedSoFar /\ OneRunLives /\ LabelsFollow /\ PredecessorsKilled
<1>1. Init => Inv
  BY DEF Init, HandlesKnown, LoopsFromFirst, StoppedSoFar, OneRunLives, LabelsFollow, PredecessorsKilled
<1>2. TypeOK /\ RunsFit /\ Inv /\ [Next]_vars => Inv'
  BY HandlesStep, RestartStep
<1>3. TypeOK /\ RunsFit /\ Inv => RestartAgrees
  BY DEF RestartAgrees
<1> HIDE DEF Inv
<1>4. QED
  BY <1>1, <1>2, <1>3, TypesCorrect, PTL DEF Spec

(* No stage is launched beside a live one of an earlier restart.           *)
THEOREM PredecessorsCorrect == HandlesKept => (Spec => []PredecessorsKilled)
<1> SUFFICES ASSUME HandlesKept
             PROVE  Spec => []PredecessorsKilled
  OBVIOUS
<1>1. RestartAgrees => PredecessorsKilled
  BY DEF RestartAgrees
<1>2. QED
  BY <1>1, RestartCorrect, PTL

(* The server that answers serves the policy of the stamp and of the name. *)
THEOREM LabelsCorrect == HandlesKept => (Spec => []LabelsTellServed)
<1> SUFFICES ASSUME HandlesKept
             PROVE  Spec => []LabelsTellServed
  OBVIOUS
<1>1. RestartAgrees => LabelsTellServed
  BY DEF RestartAgrees, LabelsTellServed, OneRunLives, Restarted, LabelsFollow, Answering, Live
<1>2. QED
  BY <1>1, RestartCorrect, PTL

=============================================================================
