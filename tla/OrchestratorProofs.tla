------------------------- MODULE OrchestratorProofs -------------------------
(***************************************************************************)
(* What holds of the orchestrator for every number of iterations, attempts *)
(* and faults, with crashes and with run() called again after exceptions.  *)
(***************************************************************************)
EXTENDS Orchestrator, FiniteSetTheorems, WellFoundedInduction, NaturalsInduction, TLAPS

(* Every variable keeps its type (every action of the orchestrator).       *)
THEOREM TypeCorrect == Spec => []TypeOK
<1> USE ConstantsAssumption DEF TypeOK, State, Kind, Points, None, FreshState, FreshTrainer, FreshEngine
<1>1. Init => TypeOK
  BY DEF Init
<1>2. TypeOK /\ [Next]_vars => TypeOK'
  <2> SUFFICES ASSUME TypeOK, [Next]_vars
               PROVE  TypeOK'
    OBVIOUS
  <2> USE DEF inMemory
  <2>1. CASE Launch
    BY <2>1 DEF Launch
  <2>2. CASE Construct
    BY <2>2 DEF Construct, ProcessGone, Resumed
  <2>3. CASE Run
    BY <2>3 DEF Run, LoopTest
  <2>4. CASE VerifyRolloutWorkers
    BY <2>4 DEF VerifyRolloutWorkers, HardFault, Misbehave, Raise
  <2>5. CASE Generate
    BY <2>5 DEF Generate, HardFault, Misbehave, Raise, RetryOrRaise, Collected, CurrentKind, StaleKinds
  <2>6. CASE Score
    BY <2>6 DEF Score, HardFault, Misbehave, Raise
  <2>7. CASE Train
    <3>1. trainer' \in [version: Nat, weights: Nat]
      BY <2>7 DEF Train
    <3>2. /\ st' \in State
          /\ pc' \in Points
          /\ batch' \in SUBSET Kind
      BY <2>7, <3>1 DEF Train, Raise, RecordTraining
    <3>3. faults' \in 0..MaxFaults
      BY <2>7 DEF Train, HardFault, Misbehave
    <3>4. QED
      BY <2>7, <3>1, <3>2, <3>3 DEF Train
  <2>8. CASE ExportPolicy
    <3>1. onDisk' \in SUBSET Nat /\ exported' \in Nat
      BY <2>8 DEF ExportPolicy
    <3>2. QED
      BY <2>8, <3>1 DEF ExportPolicy, HardFault, Misbehave, Raise
  <2>9. CASE Register
    <3>1. registry' \in SUBSET Nat /\ onDisk' \in SUBSET Nat
      BY <2>9 DEF Register
    <3>2. /\ pc' \in Points
          /\ attempt' \in 1..MaxAttempts
          /\ UNCHANGED <<st, trainer, engine, batch, exported, disk, faults>>
      BY <2>9 DEF Register
    <3>3. QED
      BY <3>1, <3>2
  <2>10. CASE Sync
    BY <2>10 DEF Sync, MayServeExport, Misbehave, Raise, RetryOrRaise
  <2>11. CASE LoadPolicy
    BY <2>11 DEF LoadPolicy, MayServeExport, HardFault, Misbehave, Raise
  <2>12. CASE LogMetrics
    BY <2>12 DEF LogMetrics, HardFault, Misbehave, Raise
  <2>13. CASE SaveTruncates
    <3>1. st' \in State
      <4>1. st' = [st EXCEPT !.iteration = st.iteration + 1, !.steps = st.steps + 1]
        BY <2>13 DEF SaveTruncates
      <4>2. st.iteration + 1 \in Nat /\ st.steps + 1 \in Nat
        OBVIOUS
      <4>3. QED
        BY <4>1, <4>2
    <3>2. disk' \in [file: {"absent", "torn", "whole"}, st: State]
      BY <2>13 DEF SaveTruncates
    <3>3. /\ pc' \in Points
          /\ batch' \in SUBSET Kind
          /\ faults' \in 0..MaxFaults
      BY <2>13 DEF SaveTruncates, HardFault, Misbehave, Raise
    <3>4. QED
      BY <2>13, <3>1, <3>2, <3>3 DEF SaveTruncates
  <2>14. CASE SaveWrites
    BY <2>14 DEF SaveWrites, LoopTest, HardFault, Misbehave, Raise
  <2>15. CASE RunAgain
    BY <2>15 DEF RunAgain
  <2>16. CASE Exit \/ Crash
    <3>1. ProcessGone
      BY <2>16 DEF Exit, Crash
    <3>2. QED
      BY <3>1 DEF ProcessGone
  <2>17. CASE UNCHANGED vars
    BY <2>17 DEF vars
  <2>18. QED
    BY <2>1, <2>2, <2>3, <2>4, <2>5, <2>6, <2>7, <2>8, <2>9, <2>10, <2>11, <2>12, <2>13,
       <2>14, <2>15, <2>16, <2>17 DEF Next, Start, Iterate
<1>3. QED
  BY <1>1, <1>2, PTL DEF Spec

(* What record_rollout() accepts was all sampled by the engine as it is,   *)
(* and under the trainer's version: stale trajectories have older stamps,  *)
(* and a state that is stuck accepts none.                                 *)
LEMMA AcceptsCurrent ==
    ASSUME TypeOK, LabelsFollow, OwnOrStuck, NEW kinds \in SUBSET (StaleKinds \cup {CurrentKind}), Accepts(kinds)
    PROVE  st.current = trainer.version /\ engine.stamp = trainer.version /\ kinds = {CurrentKind}
<1> USE DEF TypeOK, State, Kind, None
<1>1. \A k \in kinds : k.stamp = st.current
  BY DEF Accepts
<1>2. PICK k \in kinds : k.stamp = st.current
  BY DEF Accepts
<1>3. /\ CurrentKind.stamp = engine.stamp
      /\ \A j \in StaleKinds : j.stamp \in 0 .. trainer.version - 1
  BY DEF CurrentKind, StaleKinds
<1>4. st.current = trainer.version
  <2>1. CASE trainer = FreshTrainer /\ st.current > 0 /\ engine.stamp = 0
    <3>1. trainer.version = 0
      BY <2>1 DEF FreshTrainer
    <3>2. k.stamp = 0
      BY <1>2, <1>3, <2>1, <3>1
    <3>3. QED
      BY <1>2, <2>1, <3>2
  <2>2. QED
    BY <2>1 DEF OwnOrStuck
<1>5. \A j \in kinds : j = CurrentKind
  <2>1. \A j \in StaleKinds : j.stamp # trainer.version
    BY <1>3
  <2>2. QED
    BY <1>1, <1>4, <2>1
<1>6. QED
  BY <1>2, <1>3, <1>4, <1>5

(* Every action keeps the state in step with the backends, whatever the    *)
(* caller does.                                                            *)
LEMMA FollowsStep ==
    ASSUME TypeOK, StateFollows, [Next]_vars
    PROVE  StateFollows'
<1> USE ConstantsAssumption DEF StateFollows, LabelsFollow, OwnOrStuck, StateRecorded, IterationsBacked,
        Trained, TypeOK, State, Kind, None, FreshState, FreshTrainer, FreshEngine, inMemory
<1>1. CASE Launch
  <2>1. LabelsFollow'
    BY <1>1 DEF Launch
  <2>2. OwnOrStuck'
    BY <1>1 DEF Launch
  <2>3. StateRecorded'
    BY <1>1 DEF Launch
  <2>4. QED
    BY <2>1, <2>2, <2>3
<1>2. CASE Construct
  <2>1. LabelsFollow'
    BY <1>2 DEF Construct, ProcessGone, Resumed
  <2>2. OwnOrStuck'
    BY <1>2 DEF Construct, ProcessGone, Resumed
  <2>3. StateRecorded'
    BY <1>2 DEF Construct, ProcessGone, Resumed
  <2>4. QED
    BY <2>1, <2>2, <2>3
<1>3. CASE Run
  <2>1. LabelsFollow'
    BY <1>3 DEF Run, LoopTest
  <2>2. OwnOrStuck'
    BY <1>3 DEF Run, LoopTest
  <2>3. StateRecorded'
    BY <1>3 DEF Run, LoopTest
  <2>4. QED
    BY <2>1, <2>2, <2>3
<1>4. CASE VerifyRolloutWorkers
  <2>1. LabelsFollow'
    BY <1>4 DEF VerifyRolloutWorkers, HardFault, Misbehave, Raise
  <2>2. OwnOrStuck'
    BY <1>4 DEF VerifyRolloutWorkers, HardFault, Misbehave, Raise
  <2>3. StateRecorded'
    BY <1>4 DEF VerifyRolloutWorkers, HardFault, Misbehave, Raise
  <2>4. QED
    BY <2>1, <2>2, <2>3
<1>5. CASE Generate
  <2>1. UNCHANGED <<trainer, engine, exported, disk>> /\ pc = "generate"
    BY <1>5 DEF Generate
  <2>2. CASE pc' \in {"generate", "raised"} /\ UNCHANGED st
    BY <2>1, <2>2
  <2>3. CASE /\ pc' = "score" /\ st' = [st EXCEPT !.rollout = st.current]
             /\ \E kinds \in SUBSET (StaleKinds \cup {CurrentKind}) : Accepts(kinds)
    <3>1. st.current = trainer.version
      BY <2>3, AcceptsCurrent
    <3>2. st'.current = st.current /\ st'.rollout = st.current /\ st'.iteration = st.iteration
      BY <2>3
    <3>3. QED
      BY <2>1, <2>3, <3>1, <3>2
  <2>4. QED
    BY <1>5, <2>2, <2>3 DEF Generate, Collected, Raise, RetryOrRaise
<1>6. CASE Score
  <2>1. LabelsFollow'
    BY <1>6 DEF Score, HardFault, Misbehave, Raise
  <2>2. OwnOrStuck'
    BY <1>6 DEF Score, HardFault, Misbehave, Raise
  <2>3. StateRecorded'
    BY <1>6 DEF Score, HardFault, Misbehave, Raise
  <2>4. QED
    BY <2>1, <2>2, <2>3
<1>7. CASE Train
  <2>1. st.current = trainer.version /\ st.rollout = st.current /\ st.rollout \in Nat
    BY <1>7 DEF Train
  <2>2. CASE trainer' = [version |-> trainer.version + 1, weights |-> trainer.weights + 1]
             /\ RecordTraining(trainer'.version)
    <3>1. /\ st' = [st EXCEPT !.training = st.rollout, !.current = trainer'.version]
          /\ pc' = "export" /\ trainer'.version = trainer.version + 1
          /\ UNCHANGED <<engine, disk>>
      BY <1>7, <2>1, <2>2 DEF Train, RecordTraining
    <3>2. /\ st'.current = trainer'.version
          /\ st'.training = st'.rollout
          /\ st'.rollout = st.rollout
          /\ st'.iteration = st.iteration
      BY <3>1
    <3>3. LabelsFollow' /\ OwnOrStuck' /\ StateRecorded'
      BY <2>1, <3>1, <3>2
    <3>4. QED
      BY <3>3
  <2>3. CASE trainer' \in {trainer, [trainer EXCEPT !.weights = @ + 1]} /\ Raise /\ UNCHANGED st
    <3>1. trainer'.version = trainer.version /\ pc' = "raised" /\ UNCHANGED <<engine, disk>>
      BY <1>7, <2>3 DEF Train, Raise
    <3>2. QED
      BY <2>1, <2>3, <3>1
  <2>4. QED
    BY <1>7, <2>2, <2>3 DEF Train
<1>8. CASE ExportPolicy
  <2>1. LabelsFollow'
    BY <1>8 DEF ExportPolicy, HardFault, Misbehave, Raise
  <2>2. OwnOrStuck'
    BY <1>8 DEF ExportPolicy, HardFault, Misbehave, Raise
  <2>3. StateRecorded'
    BY <1>8 DEF ExportPolicy, HardFault, Misbehave, Raise
  <2>4. QED
    BY <2>1, <2>2, <2>3
<1>9. CASE Register
  <2>1. LabelsFollow'
    BY <1>9 DEF Register
  <2>2. OwnOrStuck'
    BY <1>9 DEF Register
  <2>3. StateRecorded'
    BY <1>9 DEF Register
  <2>4. QED
    BY <2>1, <2>2, <2>3
<1>10. CASE Sync
  <2>1. LabelsFollow'
    BY <1>10 DEF Sync, MayServeExport, Misbehave, Raise, RetryOrRaise
  <2>2. OwnOrStuck'
    BY <1>10 DEF Sync, MayServeExport, Misbehave, Raise, RetryOrRaise
  <2>3. StateRecorded'
    BY <1>10 DEF Sync, MayServeExport, Misbehave, Raise, RetryOrRaise
  <2>4. QED
    BY <2>1, <2>2, <2>3
<1>11. CASE LoadPolicy
  <2>1. LabelsFollow'
    BY <1>11 DEF LoadPolicy, MayServeExport, HardFault, Misbehave, Raise
  <2>2. OwnOrStuck'
    BY <1>11 DEF LoadPolicy, MayServeExport, HardFault, Misbehave, Raise
  <2>3. StateRecorded'
    BY <1>11 DEF LoadPolicy, MayServeExport, HardFault, Misbehave, Raise
  <2>4. QED
    BY <2>1, <2>2, <2>3
<1>12. CASE LogMetrics
  <2>1. LabelsFollow'
    BY <1>12 DEF LogMetrics, HardFault, Misbehave, Raise
  <2>2. OwnOrStuck'
    BY <1>12 DEF LogMetrics, HardFault, Misbehave, Raise
  <2>3. StateRecorded'
    BY <1>12 DEF LogMetrics, HardFault, Misbehave, Raise
  <2>4. QED
    BY <2>1, <2>2, <2>3
<1>13. CASE SaveTruncates
  <2>1. LabelsFollow'
    BY <1>13 DEF SaveTruncates, HardFault, Misbehave, Raise
  <2>2. OwnOrStuck'
    BY <1>13 DEF SaveTruncates, HardFault, Misbehave, Raise
  <2>3. StateRecorded'
    BY <1>13 DEF SaveTruncates, HardFault, Misbehave, Raise
  <2>4. QED
    BY <2>1, <2>2, <2>3
<1>14. CASE SaveWrites
  <2>1. LabelsFollow'
    BY <1>14 DEF SaveWrites, LoopTest, HardFault, Misbehave, Raise
  <2>2. OwnOrStuck'
    BY <1>14 DEF SaveWrites, LoopTest, HardFault, Misbehave, Raise
  <2>3. StateRecorded'
    BY <1>14 DEF SaveWrites, LoopTest, HardFault, Misbehave, Raise
  <2>4. QED
    BY <2>1, <2>2, <2>3
<1>15. CASE RunAgain
  <2>1. LabelsFollow'
    BY <1>15 DEF RunAgain
  <2>2. OwnOrStuck'
    BY <1>15 DEF RunAgain
  <2>3. StateRecorded'
    BY <1>15 DEF RunAgain
  <2>4. QED
    BY <2>1, <2>2, <2>3
<1>16. CASE Exit \/ Crash
  <2>1. LabelsFollow'
    BY <1>16 DEF Exit, Crash, ProcessGone
  <2>2. OwnOrStuck'
    BY <1>16 DEF Exit, Crash, ProcessGone
  <2>3. StateRecorded'
    BY <1>16 DEF Exit, Crash, ProcessGone
  <2>4. QED
    BY <2>1, <2>2, <2>3
<1>17. CASE UNCHANGED vars
  BY <1>17 DEF vars
<1>18. QED
  BY <1>1, <1>2, <1>3, <1>4, <1>5, <1>6, <1>7, <1>8, <1>9, <1>10, <1>11, <1>12, <1>13, <1>14, <1>15, <1>16, <1>17 DEF Next, Start, Iterate

(* For a careful caller: every action keeps the labels truthful and the    *)
(* batch on-policy.                                                        *)
LEMMA LabelsStep ==
    ASSUME CarefulCaller, TypeOK, VersionsTellWeights, [Next]_vars
    PROVE  LabelsHold' /\ AcceptedIsOwn'
<1> USE ConstantsAssumption DEF VersionsTellWeights, StateFollows, LabelsFollow, OwnOrStuck, StateRecorded,
        LabelsHold, AcceptedIsOwn, TypeOK, State, Kind, None, FreshState, FreshTrainer, FreshEngine, inMemory
<1>1. CASE Launch
  <2>1. LabelsHold'
    BY <1>1 DEF Launch
  <2>2. AcceptedIsOwn'
    BY <1>1 DEF Launch
  <2>3. QED
    BY <2>1, <2>2
<1>2. CASE Construct
  <2>1. LabelsHold'
    BY <1>2 DEF Construct, ProcessGone, Resumed
  <2>2. AcceptedIsOwn'
    BY <1>2 DEF Construct, ProcessGone, Resumed
  <2>3. QED
    BY <2>1, <2>2
<1>3. CASE Run
  <2>1. LabelsHold'
    BY <1>3 DEF Run, LoopTest
  <2>2. AcceptedIsOwn'
    BY <1>3 DEF Run, LoopTest
  <2>3. QED
    BY <2>1, <2>2
<1>4. CASE VerifyRolloutWorkers
  <2>1. LabelsHold'
    BY <1>4 DEF VerifyRolloutWorkers, HardFault, Misbehave, Raise
  <2>2. AcceptedIsOwn'
    BY <1>4 DEF VerifyRolloutWorkers, HardFault, Misbehave, Raise
  <2>3. QED
    BY <2>1, <2>2
<1>5. CASE Generate
  <2>1. UNCHANGED <<trainer, engine>> /\ pc = "generate" /\ batch = {}
    BY <1>5 DEF Generate
  <2>2. LabelsHold'
    BY <1>5, <2>1 DEF Generate, Collected, Raise, RetryOrRaise
  <2>3. CASE pc' \in {"generate", "raised"} /\ batch' = {}
    BY <2>2, <2>3
  <2>4. ASSUME NEW kinds \in SUBSET (StaleKinds \cup {CurrentKind}), Accepts(kinds), pc' = "score", batch' = kinds
        PROVE  AcceptedIsOwn'
    <3>1. engine.stamp = trainer.version /\ kinds = {CurrentKind}
      BY <2>4, AcceptsCurrent
    <3>2. CurrentKind.weights = trainer.weights
      BY <2>1, <3>1 DEF CurrentKind
    <3>3. QED
      BY <2>1, <2>4, <3>1, <3>2
  <2>5. QED
    BY <1>5, <2>1, <2>2, <2>3, <2>4 DEF Generate, Collected, Raise, RetryOrRaise
<1>6. CASE Score
  <2>1. LabelsHold'
    BY <1>6 DEF Score, HardFault, Misbehave, Raise
  <2>2. AcceptedIsOwn'
    BY <1>6 DEF Score, HardFault, Misbehave, Raise
  <2>3. QED
    BY <2>1, <2>2
<1>7. CASE Train
  <2>1. trainer.weights = trainer.version /\ UNCHANGED engine /\ engine.stamp <= trainer.version
    BY <1>7 DEF Train, LabelsFollow
  <2>2. CASE trainer' = [version |-> trainer.version + 1, weights |-> trainer.weights + 1]
             /\ RecordTraining(trainer'.version)
    <3>1. trainer'.version = trainer.version + 1 /\ trainer'.weights = trainer'.version
      BY <2>1, <2>2
    <3>2. pc' \in {"export", "raised"} /\ batch' = {}
      BY <2>2 DEF RecordTraining, Raise
    <3>3. QED
      BY <2>1, <3>1, <3>2
  <2>3. CASE trainer' \in {trainer, [trainer EXCEPT !.weights = @ + 1]} /\ Raise /\ UNCHANGED st
    <3>1. /\ trainer'.version = trainer.version /\ pc' = "raised" /\ batch' = {}
          /\ trainer'.weights \in {trainer.version, trainer.version + 1}
      BY <2>1, <2>3 DEF Raise
    <3>2. QED
      BY <2>1, <3>1
  <2>4. QED
    BY <1>7, <2>2, <2>3 DEF Train
<1>8. CASE ExportPolicy
  <2>1. LabelsHold'
    BY <1>8 DEF ExportPolicy, HardFault, Misbehave, Raise
  <2>2. AcceptedIsOwn'
    BY <1>8 DEF ExportPolicy, HardFault, Misbehave, Raise
  <2>3. QED
    BY <2>1, <2>2
<1>9. CASE Register
  <2>1. LabelsHold'
    BY <1>9 DEF Register
  <2>2. AcceptedIsOwn'
    BY <1>9 DEF Register
  <2>3. QED
    BY <2>1, <2>2
<1>10. CASE Sync
  <2>1. LabelsHold'
    BY <1>10 DEF Sync, MayServeExport, Misbehave, Raise, RetryOrRaise
  <2>2. AcceptedIsOwn'
    BY <1>10 DEF Sync, MayServeExport, Misbehave, Raise, RetryOrRaise
  <2>3. QED
    BY <2>1, <2>2
<1>11. CASE LoadPolicy
  <2>1. LabelsHold'
    BY <1>11 DEF LoadPolicy, MayServeExport, HardFault, Misbehave, Raise
  <2>2. AcceptedIsOwn'
    BY <1>11 DEF LoadPolicy, MayServeExport, HardFault, Misbehave, Raise
  <2>3. QED
    BY <2>1, <2>2
<1>12. CASE LogMetrics
  <2>1. LabelsHold'
    BY <1>12 DEF LogMetrics, HardFault, Misbehave, Raise
  <2>2. AcceptedIsOwn'
    BY <1>12 DEF LogMetrics, HardFault, Misbehave, Raise
  <2>3. QED
    BY <2>1, <2>2
<1>13. CASE SaveTruncates
  <2>1. LabelsHold'
    BY <1>13 DEF SaveTruncates, HardFault, Misbehave, Raise
  <2>2. AcceptedIsOwn'
    BY <1>13 DEF SaveTruncates, HardFault, Misbehave, Raise
  <2>3. QED
    BY <2>1, <2>2
<1>14. CASE SaveWrites
  <2>1. LabelsHold'
    BY <1>14 DEF SaveWrites, LoopTest, HardFault, Misbehave, Raise
  <2>2. AcceptedIsOwn'
    BY <1>14 DEF SaveWrites, LoopTest, HardFault, Misbehave, Raise
  <2>3. QED
    BY <2>1, <2>2
<1>15. CASE RunAgain
  <2>1. LabelsHold'
    BY <1>15 DEF RunAgain
  <2>2. AcceptedIsOwn'
    BY <1>15 DEF RunAgain
  <2>3. QED
    BY <2>1, <2>2
<1>16. CASE Exit \/ Crash
  <2>1. LabelsHold'
    BY <1>16 DEF Exit, Crash, ProcessGone
  <2>2. AcceptedIsOwn'
    BY <1>16 DEF Exit, Crash, ProcessGone
  <2>3. QED
    BY <2>1, <2>2
<1>17. CASE UNCHANGED vars
  BY <1>17 DEF vars
<1>18. QED
  BY <1>1, <1>2, <1>3, <1>4, <1>5, <1>6, <1>7, <1>8, <1>9, <1>10, <1>11, <1>12, <1>13, <1>14, <1>15, <1>16, <1>17 DEF Next, Start, Iterate

(* The state, its file and the backends agree in every reachable state,    *)
(* also when run() is called again after train() lost the result of an     *)
(* update it made.                                                         *)
THEOREM StateCorrect == Spec => []StateFollows
<1>1. Init => StateFollows
  BY DEF Init, StateFollows, LabelsFollow, OwnOrStuck, StateRecorded, IterationsBacked, Trained, FreshState,
         FreshTrainer, FreshEngine
<1>2. TypeOK /\ StateFollows /\ [Next]_vars => StateFollows'
  BY FollowsStep
<1>3. QED
  BY <1>1, <1>2, TypeCorrect, PTL DEF Spec

(* The labels tell the truth in every reachable state.                     *)
THEOREM VersionsCorrect ==
    ASSUME CarefulCaller
    PROVE  Spec => []VersionsTellWeights
<1>1. Init => LabelsHold /\ AcceptedIsOwn
  BY DEF Init, LabelsHold, AcceptedIsOwn, FreshTrainer, FreshEngine
<1>2. TypeOK /\ StateFollows /\ LabelsHold /\ AcceptedIsOwn /\ [Next]_vars => LabelsHold' /\ AcceptedIsOwn'
  BY LabelsStep DEF VersionsTellWeights
<1>3. StateFollows /\ LabelsHold /\ AcceptedIsOwn => VersionsTellWeights
  BY DEF VersionsTellWeights
<1>4. QED
  BY <1>1, <1>2, <1>3, TypeCorrect, StateCorrect, PTL DEF Spec

(* No batch ever reaches the trainer that was not sampled from the weights *)
(* it holds, whatever failed, was retried, resumed or called again         *)
(* (record_rollout and record_training are enough, unless run() is called  *)
(* again after train() lost the result of an update it made).              *)
THEOREM OnPolicyCorrect ==
    ASSUME CarefulCaller
    PROVE  Spec => []OnPolicy
<1>1. VersionsTellWeights => OnPolicy
  BY DEF VersionsTellWeights, AcceptedIsOwn, OnPolicy
<1>2. QED
  BY <1>1, VersionsCorrect, PTL

(* No iteration is counted that did not produce a policy version of its    *)
(* own (_run_one_iteration, save, load).                                   *)
THEOREM IterationsBackedCorrect == Spec => []IterationsBacked
<1>1. StateFollows => IterationsBacked
  BY DEF StateFollows, StateRecorded
<1>2. QED
  BY <1>1, StateCorrect, PTL

(* A state file is completed only once trainer, rollout and state agree    *)
(* (the order of the steps of _run_one_iteration), whatever the caller     *)
(* does: an update whose result was lost is published with the next one.   *)
THEOREM CheckpointIsSyncedCorrect == Spec => CheckpointIsSynced
<1> DEFINE Synced == disk' # disk /\ disk'.file = "whole" =>
                       /\ disk'.st.current = trainer.version
                       /\ disk'.st.rollout = disk'.st.training
                       /\ engine = [stamp |-> trainer.version, weights |-> trainer.weights]
<1>1. ASSUME TypeOK, StateFollows, [Next]_vars
      PROVE  [Synced]_vars
  <2>1. CASE SaveWrites
    <3>1. ASSUME disk' # disk
          PROVE  disk'.st = st
      BY <2>1, <3>1 DEF SaveWrites
    <3>2. /\ st.current = trainer.version
          /\ st.rollout = st.training
      BY <1>1, <2>1 DEF StateFollows, OwnOrStuck, StateRecorded, SaveWrites
    <3>3. engine = [stamp |-> trainer.version, weights |-> trainer.weights]
      BY <1>1, <2>1 DEF StateFollows, LabelsFollow, SaveWrites
    <3>4. QED
      BY <3>1, <3>2, <3>3
  <2>2. CASE SaveTruncates
    BY <1>1, <2>2 DEF SaveTruncates, TypeOK
  <2>3. CASE UNCHANGED disk
    BY <2>3
  <2>4. SaveWrites \/ SaveTruncates \/ UNCHANGED disk
    BY <1>1 DEF Next, Start, Iterate, vars, inMemory, Launch, Construct, ProcessGone, Run, VerifyRolloutWorkers,
                Generate, Score, Train, ExportPolicy, Register, Sync, LoadPolicy, LogMetrics,
                RunAgain, Exit, Crash
  <2>5. QED
    BY <2>1, <2>2, <2>3, <2>4
<1>2. QED
  BY <1>1, TypeCorrect, StateCorrect, PTL DEF Spec, CheckpointIsSynced

(* A set of naturals that is not empty has a least element.                *)
LEMMA LeastExists ==
    ASSUME NEW S \in SUBSET Nat, S # {}
    PROVE  \E v \in S : \A w \in S : v <= w
<1>1. PICK v \in S : \A w \in S : ~ (<<w, v>> \in OpToRel(<, Nat))
  BY WFMin, NatLessThanWellFounded, Zenon
<1>2. \A w \in S : w \in Nat /\ v \in Nat
  OBVIOUS
<1>3. \A w \in S : ~ (w < v)
  BY <1>1, <1>2, Zenon DEF OpToRel
<1>4. QED
  BY <1>2, <1>3

(* Of one version too many, pruning leaves the number that is kept; and    *)
(* never takes the newest (PolicyRegistry._prune).                         *)
LEMMA PruneKeeps ==
    ASSUME NEW known \in SUBSET Nat, IsFiniteSet(known), KeepLast > 0, Cardinality(known) <= KeepLast + 1
    PROVE  Cardinality(known \ Stale(known)) <= KeepLast
<1> USE ConstantsAssumption
<1>1. /\ known \ Stale(known) \in SUBSET known
      /\ Cardinality(known \ Stale(known)) <= Cardinality(known)
      /\ Cardinality(known) \in Nat /\ Cardinality(known \ Stale(known)) \in Nat
  BY FS_Subset, FS_CardinalityType
<1>2. CASE Cardinality(known) <= KeepLast
  BY <1>1, <1>2
<1>3. CASE Cardinality(known) = KeepLast + 1
  <2>1. known # {}
    BY <1>3, FS_EmptySet
  <2>2. PICK v \in known : \A w \in known : v <= w
    BY <2>1, LeastExists
  <2>3. {w \in known : w > v} = known \ {v}
    <3>1. \A w \in known : w \in Nat /\ (w > v <=> w # v)
      BY <2>2
    <3>2. QED
      BY <3>1, Zenon
  <2>4. Cardinality(known \ {v}) = KeepLast /\ IsFiniteSet(known \ {v})
    BY <1>3, FS_RemoveElement
  <2>5. v \in Stale(known)
    BY <2>3, <2>4 DEF Stale
  <2>6. known \ Stale(known) \in SUBSET (known \ {v})
    BY <2>5
  <2>7. QED
    BY <2>4, <2>6, FS_Subset
<1>4. QED
  BY <1>1, <1>2, <1>3

LEMMA NewestStays ==
    ASSUME NEW known \in SUBSET Nat, NEW v \in known, \A w \in known : w <= v
    PROVE  v \notin Stale(known)
<1>1. {w \in known : w > v} = {}
  <2>1. \A w \in known : ~ (w > v)
    OBVIOUS
  <2>2. QED
    BY <2>1, Zenon
<1>2. QED
  BY <1>1, FS_EmptySet, ConstantsAssumption DEF Stale

(* Registering and pruning, step by step.                                  *)
LEMMA RegistryStep ==
    ASSUME TypeOK, ExportsKept, RegistryBehind, [Next]_vars
    PROVE  ExportsKept' /\ RegistryBehind'
<1> USE ConstantsAssumption DEF ExportsKept, RegistryBehind
<1>1. CASE Register
  <2> DEFINE known == registry \cup {st.current}
  <2>1. /\ registry' = known \ Stale(known)
        /\ onDisk' = onDisk \ Stale(known)
        /\ pc = "register" /\ pc' = "sync" /\ st' = st
    BY <1>1 DEF Register
  <2>2. known \in SUBSET Nat /\ st.current \in Nat /\ \A w \in known : w <= st.current
    <3>1. st.current \in Nat /\ registry \in SUBSET Nat
      BY DEF TypeOK, State
    <3>2. \A w \in registry : w <= st.current
      BY <2>1
    <3>3. known \in SUBSET Nat
      BY <3>1
    <3>4. st.current <= st.current
      BY <3>1
    <3>5. \A w \in known : w \in registry \/ w = st.current
      OBVIOUS
    <3>6. \A w \in known : w <= st.current
      BY ONLY <3>2, <3>4, <3>5
    <3>7. QED
      BY <3>1, <3>3, <3>6
  <2>3. st.current \notin Stale(known)
    BY <2>2, NewestStays
  <2>4. registry' \subseteq onDisk' /\ st'.current \in registry'
    BY <2>1, <2>3
  <2>5. KeepLast > 0 => Cardinality(registry') <= KeepLast
    <3>1. IsFiniteSet(registry)
      BY <2>2, FS_BoundedSetOfNaturals
    <3>2. /\ IsFiniteSet(known)
          /\ Cardinality(known) \in {Cardinality(registry), Cardinality(registry) + 1}
          /\ Cardinality(registry) \in Nat
      BY <3>1, FS_AddElement, FS_CardinalityType
    <3>3. KeepLast > 0 => Cardinality(known) <= KeepLast + 1
      BY <3>2
    <3>4. QED
      BY <2>1, <2>2, <3>2, <3>3, PruneKeeps
  <2>6. RegistryBehind'
    BY <2>1, <2>2
  <2>7. QED
    BY <2>1, <2>4, <2>5, <2>6
<1>2. CASE Construct
  BY <1>2, FS_EmptySet DEF Construct, ProcessGone
<1>3. CASE Exit \/ Crash
  BY <1>3, FS_EmptySet DEF Exit, Crash, ProcessGone
<1>4. CASE Train
  <2>1. UNCHANGED <<registry, onDisk>> /\ pc' \in {"export", "raised"}
    BY <1>4 DEF Train, RecordTraining, Raise
  <2>2. st' = st \/ (st'.current > st.current /\ st'.current \in Nat)
    <3>1. (st.rollout = st.current /\ trainer'.version \in Nat) \/ st' = st
      BY <1>4 DEF Train, TypeOK
    <3>2. CASE RecordTraining(trainer'.version) /\ trainer'.version \in Nat
      BY <1>4, <3>2 DEF Train, RecordTraining, TypeOK, State
    <3>3. QED
      BY <1>4, <3>1, <3>2 DEF Train, TypeOK
  <2>3. \A v \in registry : v \in Nat /\ st.current \in Nat
    BY DEF TypeOK, State
  <2>4. QED
    BY <2>1, <2>2, <2>3
<1>5. CASE Generate
  BY <1>5 DEF Generate, Collected, Raise, RetryOrRaise, inMemory, TypeOK, State
<1>6. CASE ExportPolicy
  BY <1>6 DEF ExportPolicy, Raise, TypeOK
<1>7. CASE SaveTruncates
  BY <1>7 DEF SaveTruncates, Raise, inMemory, TypeOK, State
<1>8. CASE Launch \/ Run \/ RunAgain \/ VerifyRolloutWorkers \/ Score \/ Sync \/ LoadPolicy \/ LogMetrics \/ SaveWrites
  BY <1>8 DEF Launch, Run, RunAgain, VerifyRolloutWorkers, Score, Sync, LoadPolicy, LogMetrics, SaveWrites,
              LoopTest, Raise, RetryOrRaise, inMemory
<1>9. CASE UNCHANGED vars
  BY <1>9 DEF vars
<1>10. QED
  BY <1>1, <1>2, <1>3, <1>4, <1>5, <1>6, <1>7, <1>8, <1>9 DEF Next, Start, Iterate

(* Pruning never takes an export the registry names, nor the one that is   *)
(* being published, and leaves no more than are kept (PolicyRegistry).     *)
THEOREM ExportsKeptCorrect == Spec => []ExportsKept
<1>1. Init => ExportsKept /\ RegistryBehind
  BY FS_EmptySet, ConstantsAssumption DEF Init, ExportsKept, RegistryBehind
<1>2. TypeOK /\ ExportsKept /\ RegistryBehind /\ [Next]_vars => ExportsKept' /\ RegistryBehind'
  BY RegistryStep
<1>3. QED
  BY <1>1, <1>2, TypeCorrect, PTL DEF Spec

(* The initial states are initial states of the policy loop.               *)
LEMMA LoopInitial == Init => Loop!LoopInit
BY DEF Init, Loop!LoopInit, FreshTrainer, FreshEngine

(* Every step of the orchestrator collects, learns, publishes, abandons or *)
(* resets in the policy loop, or leaves it alone.                          *)
LEMMA LoopStep ==
    ASSUME CarefulCaller, TypeOK, VersionsTellWeights, VersionsTellWeights', [Next]_vars
    PROVE  [Loop!LoopNext]_(Loop!loopVars)
<1> DEFINE abstractBatch == {k.weights : k \in batch}
<1> USE DEF Loop!LoopNext, Loop!loopVars, inMemory
<1>1. CASE Generate
  <2>1. CASE UNCHANGED batch \/ batch' = {}
    BY <1>1, <2>1 DEF Generate, Loop!Abandon
  <2>2. CASE pc' = "score"
    <3>1. batch = {}
      BY <1>1 DEF Generate, VersionsTellWeights, AcceptedIsOwn
    <3>2. batch' # {} /\ \A k \in batch' : k.weights = trainer.weights
      BY <1>1, <2>2 DEF Generate, VersionsTellWeights, AcceptedIsOwn
    <3>3. PICK k \in batch' : TRUE
      BY <3>2
    <3>4. k \in StaleKinds \cup {CurrentKind} /\ k.stamp = st.current
      BY <1>1, <2>2, <3>3 DEF Generate, Collected, Accepts, Raise, RetryOrRaise
    <3>5. st.current = trainer.version
      <4>1. st'.current = trainer'.version /\ trainer' = trainer
        BY <1>1, <2>2 DEF Generate, VersionsTellWeights, StateFollows, StateRecorded
      <4>2. st'.current = st.current
        BY <1>1, <2>2 DEF Generate, Collected, Raise, RetryOrRaise, TypeOK, State
      <4>3. QED
        BY <4>1, <4>2
    <3>6. k = CurrentKind
      BY <3>4, <3>5 DEF StaleKinds, TypeOK
    <3>7. engine.weights = trainer.weights
      BY <3>2, <3>3, <3>6 DEF CurrentKind
    <3>8. {j.weights : j \in batch'} = {engine.weights}
      BY <3>2, <3>7
    <3>9. QED
      BY <1>1, <3>1, <3>7, <3>8 DEF Generate, Loop!Collect
  <2>3. QED
    BY <1>1, <2>1, <2>2 DEF Generate, Collected, Raise, RetryOrRaise
<1>2. CASE Train
  <2>1. {k.weights : k \in batch} = {trainer.weights}
    BY <1>2 DEF Train, VersionsTellWeights, AcceptedIsOwn
  <2>2. batch' = {} /\ UNCHANGED engine
    BY <1>2 DEF Train, VersionsTellWeights, AcceptedIsOwn, RecordTraining, Raise
  <2>3. trainer'.weights = trainer.weights + 1 \/ trainer' = trainer
    BY <1>2 DEF Train, TypeOK
  <2>4. QED
    BY <2>1, <2>2, <2>3 DEF Loop!Learn, Loop!Abandon
<1>3. CASE Sync \/ LoadPolicy
  <2>1. batch = {} /\ batch' = {} /\ UNCHANGED trainer /\ exported = trainer.weights
    BY <1>3 DEF Sync, LoadPolicy, VersionsTellWeights, StateFollows, AcceptedIsOwn, LabelsFollow, Raise, RetryOrRaise
  <2>2. engine'.weights = engine.weights \/ engine'.weights = exported
    BY <1>3 DEF Sync, LoadPolicy, MayServeExport, TypeOK, Kind
  <2>3. QED
    BY <2>1, <2>2 DEF Loop!Publish
<1>4. CASE Launch \/ Construct \/ Exit \/ Crash
  <2>1. CASE ProcessGone
    BY <2>1 DEF ProcessGone, Loop!Reset, FreshTrainer, FreshEngine
  <2>2. CASE Launch
    <3>1. batch' = {}
      BY <2>2 DEF Launch, VersionsTellWeights, AcceptedIsOwn
    <3>2. trainer'.weights = 0 /\ engine'.weights = 0
      BY <2>2 DEF Launch, FreshTrainer
    <3>3. QED
      BY <3>1, <3>2 DEF Loop!Reset
  <2>3. CASE Construct /\ ~ProcessGone
    BY <2>3 DEF Construct
  <2>4. QED
    BY <1>4, <2>1, <2>2, <2>3 DEF Exit, Crash
<1>5. CASE Run \/ VerifyRolloutWorkers \/ Score \/ ExportPolicy \/ Register \/ LogMetrics
           \/ SaveTruncates \/ SaveWrites \/ RunAgain
  <2>1. UNCHANGED <<trainer, engine>> /\ (batch' = {} \/ UNCHANGED batch)
    BY <1>5 DEF Run, VerifyRolloutWorkers, Score, ExportPolicy, Register, LogMetrics, SaveTruncates,
                SaveWrites, RunAgain, Raise
  <2>2. QED
    BY <2>1 DEF Loop!Abandon
<1>6. CASE UNCHANGED vars
  BY <1>6 DEF vars
<1>7. QED
  BY <1>1, <1>2, <1>3, <1>4, <1>5, <1>6 DEF Next, Start, Iterate

(* The orchestrator implements the policy loop: it only ever learns from   *)
(* batches of the policy it holds (Controller over the backend protocols). *)
THEOREM ImplementsPolicyLoopCorrect ==
    ASSUME CarefulCaller
    PROVE  Spec => ImplementsPolicyLoop
<1>1. TypeOK /\ VersionsTellWeights /\ VersionsTellWeights' /\ [Next]_vars
        => [Loop!LoopNext]_(Loop!loopVars)
  BY LoopStep
<1>2. QED
  BY <1>1, LoopInitial, TypeCorrect, VersionsCorrect, PTL
     DEF Spec, ImplementsPolicyLoop, Loop!LoopSpec
=============================================================================
