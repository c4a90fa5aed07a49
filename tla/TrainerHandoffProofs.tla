------------------------ MODULE TrainerHandoffProofs ------------------------
(***************************************************************************)
(* What the handoff to the ranks guarantees for every number of ranks and  *)
(* machines, every placement of the ranks, and every number of groups,     *)
(* calls, failed calls, exports and restarts.  The types hold on any       *)
(* state_dir; the rest when each program is given a new one.               *)
(***************************************************************************)
EXTENDS TrainerHandoff, SequenceTheorems, TLAPS

(* The numbers of the batches up to the b-th are among the numbers.        *)
LEMMA StepsFit ==
    ASSUME NEW b \in 0 .. MaxTrains
    PROVE  /\ b * GroupsPerBatch \in Nat
           /\ b * GroupsPerBatch <= MaxTrains * GroupsPerBatch
           /\ (b + 1) * GroupsPerBatch = b * GroupsPerBatch + GroupsPerBatch
           /\ MaxTrains * GroupsPerBatch \in Nat
  BY HandoffAssumption

(* One entry of a table is replaced.                                       *)
LEMMA TableUpdate ==
    ASSUME NEW A, NEW B, NEW C, NEW f \in [A -> [B -> C]], NEW a \in A, NEW b \in B, NEW c \in C
    PROVE  /\ [f EXCEPT ![a][b] = c] \in [A -> [B -> C]]
           /\ [f EXCEPT ![a][b] = c][a][b] = c
           /\ \A x \in A : \A y \in B :
                x # a \/ y # b => [f EXCEPT ![a][b] = c][x][y] = f[x][y]
  OBVIOUS

(* What a sequence of groups, or of step numbers, is after one more.       *)
LEMMA OneMoreGroup ==
    ASSUME NEW w \in Weights, NEW g \in Groups
    PROVE  /\ Append(w, g) \in Weights
           /\ Len(w) \in Nat /\ Len(Append(w, g)) = Len(w) + 1
           /\ \A k \in 1 .. Len(w) : Append(w, g)[k] = w[k]
           /\ Append(w, g)[Len(w) + 1] = g
           /\ DOMAIN w = 1 .. Len(w) /\ DOMAIN Append(w, g) = 1 .. Len(w) + 1
  BY AppendProperties, LenProperties DEF Weights

LEMMA OneMoreStep ==
    ASSUME NEW w \in Seq(Steps), NEW s \in Steps
    PROVE  /\ Append(w, s) \in Seq(Steps)
           /\ Len(w) \in Nat /\ Len(Append(w, s)) = Len(w) + 1
           /\ \A k \in 1 .. Len(w) : Append(w, s)[k] = w[k]
           /\ Append(w, s)[Len(w) + 1] = s
  BY AppendProperties, LenProperties

LEMMA GroupsArePairs ==
    /\ NoGroup \notin Groups
    /\ \A g \in Groups : g[1] \in 1 .. MaxTrains /\ g[2] \in 1 .. GroupsPerBatch /\ g = <<g[1], g[2]>>
    /\ \A b \in 1 .. MaxTrains, i \in 1 .. GroupsPerBatch : <<b, i>> \in Groups
  BY HandoffAssumption DEF Groups, NoGroup

-----------------------------------------------------------------------------
(* What the steps of a rank change.                                        *)
RankRecord == [next: 1 .. MaxTrains * GroupsPerBatch + 1, got: Groups \cup {NoGroup},
               weights: Weights, served: 0 .. MaxExports]

Others(r) == \A q \in Ranks : q # r => rank'[q] = rank[q]

LEMMA ReadChanges ==
    ASSUME TypeOK, NEW r \in Ranks, RankReads(r)
    PROVE  /\ pc # "down" /\ rank[r].got = NoGroup /\ rank[r].next \in Steps
           /\ rank'[r].got = stepFile[MachineOf[r]][rank[r].next]
           /\ rank'[r].got \in Groups
           /\ rank'[r].next = rank[r].next /\ rank'[r].weights = rank[r].weights
           /\ rank'[r].served = rank[r].served
           /\ Others(r)
           /\ rank' \in [Ranks -> RankRecord]
           /\ UNCHANGED <<pc, progress, exportId, files, outcome, budget>>
<1> DEFINE g == stepFile[MachineOf[r]][rank[r].next]
<1>1. MachineOf[r] \in Machines /\ rank \in [Ranks -> RankRecord]
  BY HandoffAssumption DEF TypeOK, RanksTyped, RankRecord
<1>2. rank[r].next \in Steps /\ pc # "down" /\ rank[r].got = NoGroup /\ g # NoGroup
  BY DEF RankReads, Idle
<1>3. g \in Groups
  BY <1>1, <1>2 DEF TypeOK, ProgressTyped, FilesTyped, RanksTyped, OutcomeTyped
<1>4. rank' = [rank EXCEPT ![r] = [rank[r] EXCEPT !.got = g]]
  BY DEF RankReads
<1>5. /\ [rank[r] EXCEPT !.got = g] \in RankRecord
      /\ [rank[r] EXCEPT !.got = g].got = g
      /\ [rank[r] EXCEPT !.got = g].next = rank[r].next
      /\ [rank[r] EXCEPT !.got = g].weights = rank[r].weights
      /\ [rank[r] EXCEPT !.got = g].served = rank[r].served
  <2> HIDE DEF g
  <2>1. rank[r] \in RankRecord
    BY <1>1
  <2>2. QED
    BY <2>1, <1>3 DEF RankRecord
<1>6. rank' \in [Ranks -> RankRecord] /\ rank'[r] = [rank[r] EXCEPT !.got = g] /\ Others(r)
  <2> HIDE DEF g
  <2>1. QED
    BY <1>1, <1>4, <1>5 DEF Others
<1>7. UNCHANGED <<pc, progress, exportId, files, outcome, budget>>
  BY DEF RankReads
<1>8. QED
  BY <1>2, <1>3, <1>5, <1>6, <1>7

LEMMA ApplyChanges ==
    ASSUME TypeOK, CountersFit, NEW r \in Ranks, RankApplies(r)
    PROVE  /\ pc # "down" /\ rank[r].got \in Groups /\ rank[r].next \in Steps
           /\ \A q \in 1 .. r - 1 : rank[q].next = rank[r].next /\ rank[q].got # NoGroup
           /\ \A q \in r + 1 .. WorldSize : rank[q].next = rank[r].next + 1
           /\ rank'[r].got = NoGroup
           /\ rank'[r].weights = Append(rank[r].weights, rank[r].got)
           /\ rank'[r].next = rank[r].next + 1
           /\ rank'[r].served = rank[r].served
           /\ Others(r)
           /\ rank' \in [Ranks -> RankRecord]
           /\ r = LastRank => result' = [result EXCEPT ![rank[r].next] = rank[r].got]
           /\ r # LastRank => result' = result
           /\ UNCHANGED <<pc, progress, exportId, stepFile, request, shard, done, outcome, budget>>
<1> DEFINE new == [next |-> rank[r].next + 1, got |-> NoGroup, served |-> rank[r].served,
                   weights |-> Append(rank[r].weights, rank[r].got)]
<1>1. rank \in [Ranks -> RankRecord] /\ rank[r] \in RankRecord
  BY DEF TypeOK, RanksTyped, RankRecord
<1>2. pc # "down" /\ rank[r].got # NoGroup
  BY DEF RankApplies
<1>3. rank[r].got \in Groups /\ rank[r].next \in Steps
  BY <1>1, <1>2 DEF CountersFit, RankRecord
<1>4. rank' = [rank EXCEPT ![r] = new]
  BY DEF RankApplies
<1>5. Append(rank[r].weights, rank[r].got) \in Weights
  BY <1>1, <1>3, OneMoreGroup DEF RankRecord
<1>6. rank[r].next + 1 \in 1 .. MaxTrains * GroupsPerBatch + 1
  BY <1>3, HandoffAssumption DEF Steps
<1>7. /\ new \in RankRecord
      /\ new.weights = Append(rank[r].weights, rank[r].got)
      /\ new.next = rank[r].next + 1 /\ new.got = NoGroup /\ new.served = rank[r].served
  <2>1. /\ rank[r].weights \in Weights /\ NoGroup \in Groups \cup {NoGroup}
        /\ rank[r].served \in 0 .. MaxExports
    BY <1>1 DEF RankRecord
  <2>2. QED
    BY <1>5, <1>6, <2>1 DEF RankRecord
<1>8. rank' \in [Ranks -> RankRecord] /\ rank'[r] = new /\ Others(r)
  <2> HIDE DEF new
  <2>1. QED
    BY <1>1, <1>4, <1>7 DEF Others
<1>9. QED
  <2> HIDE DEF new
  <2>1. QED
    BY <1>2, <1>3, <1>7, <1>8 DEF RankApplies

LEMMA ExportChanges ==
    ASSUME TypeOK, CountersFit, NEW r \in Ranks, RankExports(r)
    PROVE  LET i == request[MachineOf[r]] IN
           /\ pc # "down" /\ rank[r].got = NoGroup
           /\ i \in ExportIds
           /\ rank'[r].got = rank[r].got /\ rank'[r].next = rank[r].next
           /\ rank'[r].weights = rank[r].weights
           /\ rank'[r].served = i
           /\ Others(r)
           /\ rank' \in [Ranks -> RankRecord]
           /\ shard' \in [Machines -> [Ranks \X ExportIds -> Weights \cup {NoShard}]]
           /\ shard'[MachineOf[r]][<<r, i>>] = rank[r].weights
           /\ \A m \in Machines : \A q \in Ranks : \A j \in ExportIds :
                m # MachineOf[r] \/ q # r \/ j # i => shard'[m][<<q, j>>] = shard[m][<<q, j>>]
           /\ UNCHANGED <<pc, progress, exportId, stepFile, result, request, done, outcome, budget>>
<1> DEFINE i == request[MachineOf[r]]
<1>1. MachineOf[r] \in Machines /\ rank \in [Ranks -> RankRecord] /\ rank[r] \in RankRecord
  BY HandoffAssumption DEF TypeOK, RanksTyped, RankRecord
<1>2. pc # "down" /\ rank[r].got = NoGroup /\ i # rank[r].served
  BY DEF RankExports, Idle
<1>3. i \in 0 .. MaxExports /\ i # 0
  BY <1>1, <1>2 DEF TypeOK, ProgressTyped, FilesTyped, RanksTyped, OutcomeTyped, CountersFit
<1>4. i \in ExportIds /\ <<r, i>> \in Ranks \X ExportIds
  BY <1>3, HandoffAssumption DEF ExportIds
<1>5. rank' = [rank EXCEPT ![r] = [rank[r] EXCEPT !.served = i]]
  BY DEF RankExports
<1>6. shard' = [shard EXCEPT ![MachineOf[r]][<<r, i>>] = rank[r].weights]
  BY DEF RankExports
<1>7. /\ [rank[r] EXCEPT !.served = i] \in RankRecord
      /\ [rank[r] EXCEPT !.served = i].served = i
      /\ [rank[r] EXCEPT !.served = i].got = rank[r].got
      /\ [rank[r] EXCEPT !.served = i].next = rank[r].next
      /\ [rank[r] EXCEPT !.served = i].weights = rank[r].weights
  <2> HIDE DEF i
  <2>1. QED
    BY <1>1, <1>3 DEF RankRecord
<1>8. rank' \in [Ranks -> RankRecord] /\ rank'[r] = [rank[r] EXCEPT !.served = i] /\ Others(r)
  <2> HIDE DEF i
  <2>1. QED
    BY <1>1, <1>5, <1>7 DEF Others
<1>9. /\ shard' \in [Machines -> [Ranks \X ExportIds -> Weights \cup {NoShard}]]
      /\ shard'[MachineOf[r]][<<r, i>>] = rank[r].weights
      /\ \A m \in Machines : \A x \in Ranks \X ExportIds :
           m # MachineOf[r] \/ x # <<r, i>> => shard'[m][x] = shard[m][x]
  <2>1. shard \in [Machines -> [Ranks \X ExportIds -> Weights \cup {NoShard}]]
    BY DEF TypeOK, ProgressTyped, FilesTyped, RanksTyped, OutcomeTyped
  <2>2. rank[r].weights \in Weights \cup {NoShard}
    BY <1>1 DEF RankRecord
  <2> DEFINE A == Ranks \X ExportIds
             C == Weights \cup {NoShard}
             x == <<r, i>>
  <2>3. /\ shard \in [Machines -> [A -> C]] /\ rank[r].weights \in C /\ x \in A
        /\ shard' = [shard EXCEPT ![MachineOf[r]][x] = rank[r].weights]
    BY <1>4, <1>6, <2>1, <2>2
  <2> HIDE DEF A, C, x
  <2>4. /\ shard' \in [Machines -> [A -> C]]
        /\ shard'[MachineOf[r]][x] = rank[r].weights
        /\ \A m \in Machines : \A y \in A :
             m # MachineOf[r] \/ y # x => shard'[m][y] = shard[m][y]
    BY <1>1, <2>3, TableUpdate
  <2>5. QED
    BY <2>4 DEF A, C, x
<1>10. \A m \in Machines : \A q \in Ranks : \A j \in ExportIds :
         m # MachineOf[r] \/ q # r \/ j # i => shard'[m][<<q, j>>] = shard[m][<<q, j>>]
  <2> HIDE DEF i
  <2>1. QED
    BY <1>9
<1>11. UNCHANGED <<pc, progress, exportId, stepFile, result, request, done, outcome, budget>>
  BY DEF RankExports
<1>12. QED
  BY <1>2, <1>4, <1>7, <1>8, <1>9, <1>10, <1>11, Zenon

(* What the copy of a step file to one machine more changes.               *)
LEMMA CopyChanges ==
    ASSUME TypeOK, CountersFit, CopyStep
    PROVE  /\ pc = "copying" /\ batch \in 1 .. MaxTrains
           /\ <<batch, group>> \in Groups
           /\ nextStep - 1 \in Steps /\ copied + 1 \in Machines
           /\ stepFile' \in [Machines -> [Steps -> Groups \cup {NoGroup}]]
           /\ stepFile'[copied + 1][nextStep - 1] = <<batch, group>>
           /\ \A m \in Machines : \A s \in Steps :
                m # copied + 1 \/ s # nextStep - 1 => stepFile'[m][s] = stepFile[m][s]
           /\ \/ copied + 1 < MachineCount /\ pc' = pc /\ copied' = copied + 1 /\ group' = group
              \/ copied + 1 = MachineCount /\ copied' = 0 /\ pc' = "grouping"
                 /\ group < GroupsPerBatch /\ group' = group + 1
              \/ copied + 1 = MachineCount /\ copied' = 0 /\ pc' = "waiting"
                 /\ group = GroupsPerBatch /\ group' = group
           /\ UNCHANGED <<version, nextStep, batch, steps, reported, returned, exportId, result, request,
                          shard, done, rank, outcome, budget>>
<1> USE HandoffAssumption
<1>1. pc = "copying" /\ version < batch /\ Len(steps) = group /\ steps[group] = nextStep - 1
  BY DEF CopyStep, CountersFit, InTrain
<1>2. batch \in 1 .. MaxTrains /\ group \in 1 .. GroupsPerBatch /\ copied + 1 \in Machines
  BY <1>1 DEF TypeOK, ProgressTyped, FilesTyped, RanksTyped, OutcomeTyped, Machines
<1>3. <<batch, group>> \in Groups
  BY <1>2, GroupsArePairs
<1>4. nextStep - 1 \in Steps
  <2>1. steps \in Seq(Steps) /\ Len(steps) = group /\ group \in 1 .. Len(steps)
    BY <1>1, <1>2 DEF TypeOK, ProgressTyped, FilesTyped, RanksTyped, OutcomeTyped
  <2>2. steps[group] \in Steps
    BY <2>1, ElementOfSeq
  <2>3. QED
    BY <1>1, <2>2
<1>5. stepFile' = [stepFile EXCEPT ![copied + 1][nextStep - 1] = <<batch, group>>]
  BY <1>1 DEF CopyStep, ThisGroup
<1>6. /\ stepFile' \in [Machines -> [Steps -> Groups \cup {NoGroup}]]
      /\ stepFile'[copied + 1][nextStep - 1] = <<batch, group>>
      /\ \A m \in Machines : \A s \in Steps :
           m # copied + 1 \/ s # nextStep - 1 => stepFile'[m][s] = stepFile[m][s]
  <2> DEFINE C == Groups \cup {NoGroup}
             g == <<batch, group>>
             a == copied + 1
             b == nextStep - 1
  <2>1. /\ stepFile \in [Machines -> [Steps -> C]] /\ g \in C /\ a \in Machines /\ b \in Steps
        /\ stepFile' = [stepFile EXCEPT ![a][b] = g]
    BY <1>2, <1>3, <1>4, <1>5 DEF TypeOK, ProgressTyped, FilesTyped, RanksTyped, OutcomeTyped
  <2> HIDE DEF C, g, a, b
  <2>2. /\ stepFile' \in [Machines -> [Steps -> C]] /\ stepFile'[a][b] = g
        /\ \A m \in Machines : \A s \in Steps : m # a \/ s # b => stepFile'[m][s] = stepFile[m][s]
    BY <2>1, TableUpdate
  <2>3. QED
    BY <2>2 DEF C, g, a, b
<1>7. \/ copied + 1 < MachineCount /\ pc' = pc /\ copied' = copied + 1 /\ group' = group
      \/ copied + 1 = MachineCount /\ copied' = 0 /\ pc' = "grouping"
         /\ group < GroupsPerBatch /\ group' = group + 1
      \/ copied + 1 = MachineCount /\ copied' = 0 /\ pc' = "waiting"
         /\ group = GroupsPerBatch /\ group' = group
  <2>1. CASE copied + 1 < MachineCount
    BY <1>1, <2>1 DEF CopyStep, NextMachine
  <2>2. CASE copied + 1 = MachineCount
    BY <1>1, <1>2, <2>2 DEF CopyStep, NextMachine
  <2>3. QED
    BY <1>2, <2>1, <2>2 DEF Machines
<1>8. UNCHANGED <<version, nextStep, batch, steps, reported, returned, exportId, result, request,
                  shard, done, rank, outcome, budget>>
  BY DEF CopyStep
<1>9. QED
  BY <1>1, <1>2, <1>3, <1>4, <1>6, <1>7, <1>8

(* What taking the next step number changes.                               *)
LEMMA TakeChanges ==
    ASSUME TypeOK, CountersFit, TakeStep
    PROVE  /\ pc = "grouping" /\ pc' = "copying" /\ copied' = 0
           /\ nextStep \in Steps /\ nextStep' = nextStep + 1
           /\ Len(steps) = group - 1 /\ Len(steps') = group
           /\ \A i \in 1 .. Len(steps) : steps'[i] = steps[i]
           /\ steps'[group] = nextStep
           /\ UNCHANGED <<version, batch, group, reported, returned, exportId, files, rank, outcome, budget>>
<1> USE HandoffAssumption
<1>1. /\ pc = "grouping" /\ Len(steps) = group - 1
      /\ nextStep + GroupsPerBatch <= batch * GroupsPerBatch + 1 + Len(steps)
  BY DEF TakeStep, CountersFit, InTrain
<1>2. /\ batch * GroupsPerBatch <= MaxTrains * GroupsPerBatch
      /\ batch * GroupsPerBatch \in Nat /\ MaxTrains * GroupsPerBatch \in Nat
  BY StepsFit DEF TypeOK, ProgressTyped
<1>3. group \in 1 .. GroupsPerBatch /\ nextStep \in Nat \ {0} /\ steps \in Seq(Steps)
  BY <1>2 DEF TypeOK, ProgressTyped
<1>4. nextStep <= batch * GroupsPerBatch
  BY <1>1, <1>2, <1>3
<1>5. nextStep \in Steps
  BY <1>2, <1>3, <1>4 DEF Steps
<1>6. /\ Len(steps') = group /\ steps'[group] = nextStep
      /\ \A i \in 1 .. Len(steps) : steps'[i] = steps[i]
  BY <1>1, <1>3, <1>5, OneMoreStep DEF TakeStep
<1>7. QED
  BY <1>1, <1>5, <1>6 DEF TakeStep

(* What the copy of one rank's checkpoint file changes.                    *)
LEMMA SavedChanges ==
    ASSUME TypeOK, CountersFit, CopyCheckpoint
    PROVE  /\ NextToSave \in Ranks /\ Len(saved.parts) \in Nat
           /\ Len(saved'.parts) = NextToSave
           /\ \A q \in 1 .. Len(saved.parts) : saved'.parts[q] = saved.parts[q]
           /\ saved'.parts[NextToSave] = rank[NextToSave].weights
           /\ saved'.parts \in Seq(Weights)
           /\ saved' \in [of: SUBSET (1 .. MaxTrains), settled: BOOLEAN, parts: Seq(Weights)]
           /\ saved'.of = saved.of /\ saved'.settled = saved.settled
           /\ UNCHANGED <<progress, exportId, files, rank, exported, budget>>
<1> DEFINE n == NextToSave
           u == saved.parts
           v == rank[n].weights
<1>1. u \in Seq(Weights) /\ Len(u) \in Nat
  BY LenProperties DEF TypeOK, OutcomeTyped
<1>2. Len(u) < WorldSize
  BY DEF CopyCheckpoint, CountersFit
<1>3. n \in Ranks
  BY <1>1, <1>2, HandoffAssumption DEF NextToSave, Ranks
<1>4. v \in Weights
  BY <1>3 DEF TypeOK, RanksTyped
<1>5. saved' = [saved EXCEPT !.parts = Append(u, v)]
  BY DEF CopyCheckpoint, LatestCheckpoint
<1>6. saved \in [of: SUBSET (1 .. MaxTrains), settled: BOOLEAN, parts: Seq(Weights)]
  BY DEF TypeOK, OutcomeTyped
<1>7. /\ Append(u, v) \in Seq(Weights) /\ Len(Append(u, v)) = Len(u) + 1
      /\ \A q \in 1 .. Len(u) : Append(u, v)[q] = u[q]
      /\ Append(u, v)[Len(u) + 1] = v
  <2> HIDE DEF u, v
  <2>1. QED
    BY <1>1, <1>4, AppendProperties
<1>8. saved'.parts = Append(u, v) /\ saved'.of = saved.of /\ saved'.settled = saved.settled
      /\ saved' \in [of: SUBSET (1 .. MaxTrains), settled: BOOLEAN, parts: Seq(Weights)]
  <2> DEFINE a == Append(u, v)
  <2>1. a \in Seq(Weights) /\ saved' = [saved EXCEPT !.parts = a]
    BY <1>5, <1>7
  <2> HIDE DEF a
  <2>2. saved'.parts = a /\ saved'.of = saved.of /\ saved'.settled = saved.settled
        /\ saved' \in [of: SUBSET (1 .. MaxTrains), settled: BOOLEAN, parts: Seq(Weights)]
    BY <1>6, <2>1
  <2>3. QED
    BY <2>2 DEF a
<1>9. UNCHANGED <<progress, exportId, files, rank, exported, budget>>
  BY DEF CopyCheckpoint
<1>10. Len(u) + 1 = n
  BY DEF NextToSave
<1>11. QED
  <2>1. /\ Len(saved'.parts) = n /\ saved'.parts[n] = v /\ saved'.parts \in Seq(Weights)
        /\ \A q \in 1 .. Len(u) : saved'.parts[q] = u[q]
    BY <1>7, <1>8, <1>10
  <2>2. QED
    BY <1>1, <1>3, <1>8, <1>9, <2>1

-----------------------------------------------------------------------------
(* Types and counters, for every state_dir.                                *)

LEMMA TypesStart ==
    ASSUME Init
    PROVE  TypeOK /\ CountersFit
<1> USE HandoffAssumption
<1>1. MaxTrains * GroupsPerBatch \in Nat /\ 0 * GroupsPerBatch = 0
  BY StepsFit
<1>2. << >> \in Weights /\ << >> \in Seq(Steps) /\ << >> \in Seq(Groups) /\ Len(<< >>) = 0
  BY EmptySeq DEF Weights
<1>3. Fresh \in RankRecord
  BY <1>1, <1>2 DEF Fresh, RankRecord
<1>4. rank \in [Ranks -> RankRecord]
  BY <1>3 DEF Init
<1>5. TypeOK
  BY <1>1, <1>2, <1>4 DEF Init, TypeOK, ProgressTyped, FilesTyped, RanksTyped, OutcomeTyped, NoFiles, Nothing,
                          NotSaved,
     RankRecord
<1>6. CountersFit
  BY <1>1 DEF Init, CountersFit, InTrain, InExport
<1>7. QED
  BY <1>5, <1>6

(* The counters, and the numbers of files, machines and ranks, are numbers. *)
LEMMA Numbers ==
    ASSUME TypeOK
    PROVE  /\ nextStep \in Nat \ {0} /\ batch \in Nat /\ group \in Nat \ {0} /\ copied \in Nat
           /\ \A s \in Steps : s \in Nat \ {0}
           /\ \A m \in Machines : m \in Nat \ {0}
           /\ \A r \in Ranks : r \in Nat \ {0}
           /\ \A r \in Ranks : rank[r].next \in Nat \ {0}
<1> USE HandoffAssumption
<1>1. MaxTrains * GroupsPerBatch \in Nat
  BY StepsFit
<1>2. /\ nextStep \in Nat \ {0} /\ batch \in Nat /\ group \in Nat \ {0} /\ copied \in Nat
  BY <1>1 DEF TypeOK, ProgressTyped
<1>3. /\ \A s \in Steps : s \in Nat \ {0}
      /\ \A m \in Machines : m \in Nat \ {0}
      /\ \A r \in Ranks : r \in Nat \ {0}
  BY <1>1 DEF Steps, Machines, Ranks
<1>4. \A r \in Ranks : rank[r].next \in Nat \ {0}
  BY <1>1 DEF TypeOK, RanksTyped
<1>5. QED
  BY <1>2, <1>3, <1>4

(* What is typed stays typed while it is left alone.                       *)
LEMMA KeptTypes ==
    ASSUME TypeOK
    PROVE  /\ UNCHANGED <<pc, progress, exportId>> => ProgressTyped'
           /\ UNCHANGED files => FilesTyped'
           /\ UNCHANGED rank => RanksTyped'
           /\ UNCHANGED <<outcome, budget>> => OutcomeTyped'
<1>1. UNCHANGED <<pc, progress, exportId>> => ProgressTyped'
  BY DEF TypeOK, ProgressTyped, progress
<1>2. UNCHANGED files => FilesTyped'
  BY DEF TypeOK, FilesTyped, files
<1>3. UNCHANGED rank => RanksTyped'
  BY DEF TypeOK, RanksTyped
<1>4. UNCHANGED <<outcome, budget>> => OutcomeTyped'
  BY DEF TypeOK, OutcomeTyped, outcome, budget
<1>5. QED
  BY <1>1, <1>2, <1>3, <1>4

LEMMA TypesStep ==
    ASSUME TypeOK, CountersFit, [Next]_vars
    PROVE  TypeOK' /\ CountersFit'
<1> USE HandoffAssumption DEF progress, files, outcome, budget
<1>1. CASE InitializePolicy
  <2>1. 0 * GroupsPerBatch = 0 /\ batch * GroupsPerBatch \in Nat /\ MaxTrains * GroupsPerBatch \in Nat
    BY StepsFit DEF TypeOK, ProgressTyped
  <2>2. << >> \in Seq(Steps) /\ << >> \in Seq(Groups) /\ << >> \in Weights /\ Len(<< >>) = 0
    BY EmptySeq DEF Weights
  <2>3. Fresh \in RankRecord
    BY <2>1, <2>2 DEF Fresh, RankRecord
  <2>4. rank' \in [Ranks -> RankRecord] /\ \A r \in Ranks : rank'[r] = Fresh
    BY <1>1, <2>3 DEF InitializePolicy, StartRanks
  <2>5. TypeOK'
    <3>1. ProgressTyped'
      BY <1>1, <2>1, <2>2 DEF InitializePolicy, TypeOK, ProgressTyped
    <3>2. RanksTyped'
      BY <2>4 DEF RanksTyped, RankRecord
    <3>3. UNCHANGED files /\ UNCHANGED <<outcome, budget>>
      BY <1>1 DEF InitializePolicy
    <3>4. QED
      BY <3>1, <3>2, <3>3, KeptTypes DEF TypeOK
  <2>6. CountersFit'
    BY <1>1, <2>1, <2>4 DEF InitializePolicy, TypeOK, ProgressTyped, CountersFit, InTrain, InExport, Fresh
  <2>7. QED
    BY <2>5, <2>6
<1>2. CASE Shutdown
  <2>1. TypeOK'
    <3>1. ProgressTyped'
      BY <1>2 DEF Shutdown, TypeOK, ProgressTyped
    <3>2. FilesTyped'
      <4>1. NoShard \in Weights \cup {NoShard} /\ {} \in SUBSET Weights /\ 0 \in 0 .. MaxExports
        OBVIOUS
      <4>2. CASE FreshStateDir
        <5>1. /\ stepFile' = [m \in Machines |-> [s \in Steps |-> NoGroup]]
              /\ result' = [s \in Steps |-> NoGroup]
              /\ request' = [m \in Machines |-> 0]
              /\ shard' = [m \in Machines |-> [x \in Ranks \X ExportIds |-> NoShard]]
              /\ done' = [i \in ExportIds |-> {}]
          BY <1>2, <4>2 DEF Shutdown, NoFiles
        <5>2. QED
          BY <4>1, <5>1 DEF FilesTyped
      <4>3. CASE ~ FreshStateDir
        BY <1>2, <4>3 DEF Shutdown, TypeOK, FilesTyped
      <4>4. QED
        BY <4>2, <4>3
    <3>3. OutcomeTyped'
      BY <1>2 DEF Shutdown, TypeOK, OutcomeTyped, Nothing, NotSaved
    <3>4. UNCHANGED rank
      BY <1>2 DEF Shutdown
    <3>5. QED
      BY <3>1, <3>2, <3>3, <3>4, KeptTypes DEF TypeOK
  <2>2. CountersFit'
    BY <1>2 DEF Shutdown, CountersFit, InTrain, InExport
  <2>3. QED
    BY <2>1, <2>2
<1>3. CASE Train
  <2>1. /\ batch' = batch + 1 /\ batch' \in 1 .. MaxTrains
        /\ batch' * GroupsPerBatch = batch * GroupsPerBatch + GroupsPerBatch
        /\ batch * GroupsPerBatch \in Nat
    BY <1>3, StepsFit DEF Train, TypeOK, ProgressTyped
  <2>2. << >> \in Seq(Steps) /\ << >> \in Seq(Groups) /\ Len(<< >>) = 0
    BY EmptySeq
  <2>3. TypeOK'
    <3>1. ProgressTyped'
      BY <1>3, <2>1, <2>2 DEF Train, TypeOK, ProgressTyped
    <3>2. UNCHANGED files /\ UNCHANGED rank /\ UNCHANGED <<outcome, budget>>
      BY <1>3 DEF Train
    <3>3. QED
      BY <3>1, <3>2, KeptTypes DEF TypeOK
  <2>4. CountersFit'
    BY <1>3, <2>1, <2>2 DEF Train, TypeOK, ProgressTyped, CountersFit, InTrain, InExport
  <2>5. QED
    BY <2>3, <2>4
<1>4. CASE TakeStep
  <2>1. /\ pc = "grouping" /\ version < batch /\ Len(steps) = group - 1 /\ reported = << >>
        /\ nextStep + GroupsPerBatch <= batch * GroupsPerBatch + 1 + Len(steps)
    BY <1>4 DEF TakeStep, CountersFit, InTrain
  <2>2. /\ nextStep \in Steps /\ nextStep' = nextStep + 1 /\ pc' = "copying" /\ copied' = 0
        /\ Len(steps') = group /\ steps'[group] = nextStep
        /\ UNCHANGED <<version, batch, group, reported, returned, exportId, files, rank, outcome, budget>>
    BY <1>4, TakeChanges
  <2>3. steps' \in Seq(Steps)
    BY <1>4, <2>2, OneMoreStep DEF TakeStep, TypeOK, ProgressTyped
  <2>4. /\ group \in 1 .. GroupsPerBatch /\ Len(reported) = 0
        /\ nextStep' \in 1 .. MaxTrains * GroupsPerBatch + 1
        /\ batch * GroupsPerBatch \in Nat
    BY <2>1, <2>2, StepsFit DEF TypeOK, ProgressTyped, Steps
  <2>5. TypeOK'
    <3>1. ProgressTyped'
      BY <2>2, <2>3, <2>4 DEF TypeOK, ProgressTyped
    <3>2. UNCHANGED files /\ UNCHANGED rank /\ UNCHANGED <<outcome, budget>>
      BY <2>2
    <3>3. QED
      BY <3>1, <3>2, KeptTypes DEF TypeOK
  <2>6. CountersFit'
    <3>1. /\ nextStep' <= batch * GroupsPerBatch + 1
          /\ nextStep' + GroupsPerBatch <= batch * GroupsPerBatch + 1 + Len(steps')
          /\ steps'[group] = nextStep' - 1
      <4> DEFINE most == batch * GroupsPerBatch
      <4>1. /\ nextStep \in Nat /\ group \in 1 .. GroupsPerBatch /\ most \in Nat /\ GroupsPerBatch \in Nat
            /\ nextStep + GroupsPerBatch <= most + 1 + (group - 1)
        BY <2>1, <2>4, Numbers
      <4> HIDE DEF most
      <4>2. /\ nextStep + 1 <= most + 1
            /\ (nextStep + 1) + GroupsPerBatch <= most + 1 + group
            /\ nextStep = (nextStep + 1) - 1
        BY ONLY <4>1
      <4>3. QED
        BY <2>2, <4>2 DEF most
    <3>2. QED
      BY <2>1, <2>2, <3>1 DEF CountersFit, InTrain, InExport
  <2>7. QED
    BY <2>5, <2>6
<1>5. CASE CopyStep
  <2>1. /\ group \in 1 .. GroupsPerBatch /\ copied \in 0 .. MachineCount - 1 /\ reported = << >>
        /\ version < batch /\ steps[group] = nextStep - 1 /\ Len(steps) = group
    BY <1>5 DEF CopyStep, TypeOK, ProgressTyped, CountersFit, InTrain
  <2>2. TypeOK'
    <3>1. ProgressTyped'
      <4>1. /\ pc' \in {"copying", "grouping", "waiting"}
            /\ copied' \in 0 .. MachineCount - 1 /\ group' \in 1 .. GroupsPerBatch
        BY <1>5, <2>1, CopyChanges
      <4>2. UNCHANGED <<version, nextStep, batch, steps, reported, returned, exportId>>
        BY <1>5, CopyChanges
      <4>3. QED
        BY <4>1, <4>2 DEF TypeOK, ProgressTyped
    <3>2. FilesTyped'
      BY <1>5, CopyChanges DEF TypeOK, FilesTyped
    <3>3. UNCHANGED rank /\ UNCHANGED <<outcome, budget>>
      BY <1>5, CopyChanges
    <3>4. QED
      BY <3>1, <3>2, <3>3, KeptTypes DEF TypeOK
  <2>3. CountersFit'
    BY <1>5, <2>1, CopyChanges, EmptySeq DEF CountersFit, InTrain, InExport
  <2>4. QED
    BY <2>2, <2>3
<1>6. CASE ReadResult
  <2>1. /\ pc = "waiting" /\ group = GroupsPerBatch /\ Len(steps) = GroupsPerBatch
        /\ Len(reported) < GroupsPerBatch /\ version < batch
    BY <1>6 DEF ReadResult, CountersFit, InTrain
  <2>2. reported \in Seq(Groups) /\ steps \in Seq(Steps) /\ Len(reported) \in Nat
    BY LenProperties DEF TypeOK, ProgressTyped
  <2>3. Awaited \in Steps
    BY <2>1, <2>2, ElementOfSeq DEF Awaited
  <2>4. result[Awaited] \in Groups
    BY <1>6, <2>3 DEF ReadResult, TypeOK, FilesTyped
  <2>5. reported' \in Seq(Groups) /\ Len(reported') = Len(reported) + 1
    BY <1>6, <2>2, <2>4, AppendProperties DEF ReadResult
  <2>6. /\ UNCHANGED <<nextStep, batch, group, copied, steps, exportId, files, rank, outcome, budget>>
        /\ \/ version' = version + 1 /\ returned' = returned \cup {batch} /\ pc' = "idle"
              /\ Len(reported') = Len(steps)
           \/ UNCHANGED <<version, returned, pc>> /\ Len(reported') # Len(steps)
    BY <1>6 DEF ReadResult, AllRead
  <2>7. TypeOK'
    <3>1. ProgressTyped'
      <4>1. /\ version \in 0 .. MaxTrains /\ batch \in 0 .. MaxTrains /\ returned \subseteq 1 .. MaxTrains
            /\ pc \in {"waiting"}
        BY <2>1 DEF TypeOK, ProgressTyped
      <4>2. /\ version' \in 0 .. MaxTrains /\ returned' \subseteq 1 .. MaxTrains
            /\ pc' \in {"waiting", "idle"}
        <5>1. version + 1 \in 0 .. MaxTrains /\ batch \in 1 .. MaxTrains
          BY <2>1, <4>1
        <5>2. QED
          BY <2>6, <4>1, <5>1
      <4>3. Len(reported') <= Len(steps')
        BY <2>1, <2>2, <2>5, <2>6
      <4>4. UNCHANGED <<nextStep, batch, group, copied, steps, exportId>>
        BY <2>6
      <4>5. QED
        BY <2>5, <4>2, <4>3, <4>4 DEF TypeOK, ProgressTyped
    <3>2. UNCHANGED files /\ UNCHANGED rank /\ UNCHANGED <<outcome, budget>>
      BY <2>6
    <3>3. QED
      BY <3>1, <3>2, KeptTypes DEF TypeOK
  <2>8. CountersFit'
    BY <2>1, <2>2, <2>5, <2>6 DEF TypeOK, ProgressTyped, CountersFit, InTrain, InExport
  <2>9. QED
    BY <2>7, <2>8
<1>7. CASE CopyRequest
  <2>1. /\ request' \in [Machines -> 0 .. MaxExports]
        /\ \A m \in Machines : request[m] # 0 => request'[m] # 0
        /\ copied' \in 0 .. MachineCount - 1 /\ pc' \in {"requesting", "exporting"}
        /\ pc = "requesting"
        /\ UNCHANGED <<version, nextStep, batch, group, steps, reported, returned, exportId, stepFile,
                       result, shard, done, rank, outcome, budget>>
    BY <1>7 DEF CopyRequest, NextMachine, TypeOK, ProgressTyped, FilesTyped, CountersFit, InExport, Machines
  <2>2. TypeOK'
    <3>1. ProgressTyped'
      BY <2>1 DEF TypeOK, ProgressTyped
    <3>2. FilesTyped'
      BY <2>1 DEF TypeOK, FilesTyped
    <3>3. UNCHANGED rank /\ UNCHANGED <<outcome, budget>>
      BY <2>1
    <3>4. QED
      BY <3>1, <3>2, <3>3, KeptTypes DEF TypeOK
  <2>3. CountersFit'
    BY <2>1 DEF CountersFit, InTrain, InExport
  <2>4. QED
    BY <2>2, <2>3
<1>8. CASE ExportDone
  <2>1. done[exportId] \in SUBSET Weights /\ exported' = [of |-> returned, parts |-> done[exportId]]
    BY <1>8 DEF ExportDone, TypeOK, ProgressTyped, FilesTyped, CountersFit, InExport, ExportIds
  <2>2. TypeOK'
    <3>1. ProgressTyped'
      BY <1>8 DEF ExportDone, TypeOK, ProgressTyped
    <3>2. OutcomeTyped'
      BY <1>8, <2>1 DEF ExportDone, TypeOK, ProgressTyped, OutcomeTyped
    <3>3. UNCHANGED files /\ UNCHANGED rank
      BY <1>8 DEF ExportDone
    <3>4. QED
      BY <3>1, <3>2, <3>3, KeptTypes DEF TypeOK
  <2>3. CountersFit'
    BY <1>8 DEF ExportDone, CountersFit, InTrain, InExport
  <2>4. QED
    BY <2>2, <2>3
<1>9. ASSUME NEW r \in Ranks, Shuttle(r)
      PROVE  TypeOK' /\ CountersFit'
  <2> DEFINE A == Ranks \X ExportIds
             C == Weights \cup {NoShard}
             x == <<r, exportId>>
             w == shard[HeldOn(r)][<<r, exportId>>]
  <2>1. exportId \in ExportIds /\ HeldOn(r) \in Machines /\ Primary \in Machines
    <3>1. exportId \in ExportIds
      BY <1>9 DEF Shuttle, TypeOK, ProgressTyped, CountersFit, InExport, ExportIds
    <3>2. MachineOf[r] \in Machines /\ Primary \in Machines
      BY DEF Primary, Machines
    <3>3. QED
      BY <3>1, <3>2 DEF HeldOn
  <2>2. /\ shard \in [Machines -> [A -> C]] /\ x \in A /\ w \in C
        /\ shard' = [shard EXCEPT ![Primary][x] = w]
    BY <1>9, <2>1 DEF Shuttle, ToCarry, TypeOK, FilesTyped
  <2>3. shard' \in [Machines -> [A -> C]]
    <3> HIDE DEF A, C, x, w
    <3>1. QED
      BY <2>1, <2>2, TableUpdate
  <2>4. TypeOK'
    <3>1. FilesTyped'
      BY <1>9, <2>3 DEF Shuttle, TypeOK, FilesTyped
    <3>2. UNCHANGED <<pc, progress, exportId>> /\ UNCHANGED rank /\ UNCHANGED <<outcome, budget>>
      BY <1>9 DEF Shuttle
    <3>3. QED
      BY <3>1, <3>2, KeptTypes DEF TypeOK
  <2>5. CountersFit'
    BY <1>9 DEF Shuttle, CountersFit, InTrain, InExport
  <2>6. QED
    BY <2>4, <2>5
<1>10. CASE RejectGroup
  <2>1. TypeOK'
    <3>1. ProgressTyped'
      BY <1>10 DEF RejectGroup, Raise, NumberIsFree, TypeOK, ProgressTyped
    <3>2. OutcomeTyped'
      BY <1>10 DEF RejectGroup, Raise, TypeOK, OutcomeTyped
    <3>3. UNCHANGED files /\ UNCHANGED rank
      BY <1>10 DEF RejectGroup, Raise
    <3>4. QED
      BY <3>1, <3>2, <3>3, KeptTypes DEF TypeOK
  <2>2. CountersFit'
    BY <1>10 DEF RejectGroup, Raise, NumberIsFree, CountersFit, InTrain, InExport
  <2>3. QED
    BY <2>1, <2>2
<1>11. CASE CopyFails
  <2>1. steps[Len(steps)] \in Steps /\ 0 \in 0 .. MachineCount - 1
    BY <1>11, ElementOfSeq DEF CopyFails, TypeOK, ProgressTyped, CountersFit, InTrain
  <2>2. TypeOK'
    <3>1. ProgressTyped'
      BY <1>11, <2>1 DEF CopyFails, Raise, TypeOK, ProgressTyped
    <3>2. OutcomeTyped'
      BY <1>11, <2>1 DEF CopyFails, Raise, TypeOK, OutcomeTyped
    <3>3. UNCHANGED files /\ UNCHANGED rank
      BY <1>11 DEF CopyFails, Raise
    <3>4. QED
      BY <3>1, <3>2, <3>3, KeptTypes DEF TypeOK
  <2>3. CountersFit'
    BY <1>11 DEF CopyFails, Raise, CountersFit, InTrain, InExport
  <2>4. QED
    BY <2>2, <2>3
<1>12. CASE WaitTimesOut
  <2>1. TypeOK'
    <3>1. ProgressTyped'
      BY <1>12 DEF WaitTimesOut, Raise, Onward, TypeOK, ProgressTyped
    <3>2. OutcomeTyped'
      BY <1>12 DEF WaitTimesOut, Raise, TypeOK, OutcomeTyped
    <3>3. UNCHANGED files /\ UNCHANGED rank
      BY <1>12 DEF WaitTimesOut, Raise
    <3>4. QED
      BY <3>1, <3>2, <3>3, KeptTypes DEF TypeOK
  <2>2. CountersFit'
    BY <1>12 DEF WaitTimesOut, Raise, Onward, CountersFit, InTrain, InExport
  <2>3. QED
    BY <2>1, <2>2
<1>13. CASE ExportPolicy
  <2>1. TypeOK'
    <3>1. ProgressTyped'
      BY <1>13 DEF ExportPolicy, TypeOK, ProgressTyped
    <3>2. UNCHANGED files /\ UNCHANGED rank /\ UNCHANGED <<outcome, budget>>
      BY <1>13 DEF ExportPolicy
    <3>3. QED
      BY <3>1, <3>2, KeptTypes DEF TypeOK
  <2>2. CountersFit'
    BY <1>13 DEF ExportPolicy, MayExport, TypeOK, ProgressTyped, CountersFit, InTrain, InExport
  <2>3. QED
    BY <2>1, <2>2
<1>14. CASE ExportFails
  <2>1. TypeOK'
    <3>1. ProgressTyped'
      BY <1>14 DEF ExportFails, Raise, TypeOK, ProgressTyped
    <3>2. OutcomeTyped'
      BY <1>14 DEF ExportFails, Raise, TypeOK, OutcomeTyped
    <3>3. UNCHANGED files /\ UNCHANGED rank
      BY <1>14 DEF ExportFails, Raise
    <3>4. QED
      BY <3>1, <3>2, <3>3, KeptTypes DEF TypeOK
  <2>2. CountersFit'
    BY <1>14 DEF ExportFails, Raise, CountersFit, InTrain, InExport
  <2>3. QED
    BY <2>1, <2>2
<1>15. CASE Checkpoint
  <2>1. << >> \in Seq(Weights) /\ Len(<< >>) = 0
    BY EmptySeq
  <2>2. TypeOK'
    <3>1. ProgressTyped'
      BY <1>15 DEF Checkpoint, TypeOK, ProgressTyped
    <3>2. OutcomeTyped'
      BY <1>15, <2>1 DEF Checkpoint, TypeOK, ProgressTyped, OutcomeTyped
    <3>3. UNCHANGED files /\ UNCHANGED rank
      BY <1>15 DEF Checkpoint
    <3>4. QED
      BY <3>1, <3>2, <3>3, KeptTypes DEF TypeOK
  <2>3. CountersFit'
    BY <1>15, <2>1 DEF Checkpoint, CountersFit, InTrain, InExport
  <2>4. QED
    BY <2>2, <2>3
<1>16. CASE CopyCheckpoint
  <2>1. /\ saved'.parts \in Seq(Weights) /\ Len(saved'.parts) = NextToSave
        /\ saved'.of = saved.of /\ saved'.settled = saved.settled
        /\ saved' \in [of: SUBSET (1 .. MaxTrains), settled: BOOLEAN, parts: Seq(Weights)]
        /\ NextToSave \in Ranks
    BY <1>16, SavedChanges
  <2>2. pc = "checkpointing" /\ pc' = IF NextToSave < WorldSize THEN pc ELSE "idle"
    BY <1>16 DEF CopyCheckpoint
  <2>3. UNCHANGED <<progress, exportId, files, rank, exported, budget>>
    BY <1>16 DEF CopyCheckpoint
  <2>4. TypeOK'
    <3>1. ProgressTyped'
      BY <2>2, <2>3 DEF TypeOK, ProgressTyped
    <3>2. OutcomeTyped'
      BY <2>1, <2>3 DEF TypeOK, OutcomeTyped, Ranks
    <3>3. QED
      BY <2>3, <3>1, <3>2, KeptTypes DEF TypeOK
  <2>5. CountersFit'
    BY <2>1, <2>2, <2>3 DEF CountersFit, InTrain, InExport
  <2>6. QED
    BY <2>4, <2>5
<1>17. CASE CopyCheckpointFails \/ NoCheckpointFound
  <2>1. /\ pc = "checkpointing" /\ pc' = "idle"
        /\ UNCHANGED <<progress, exportId, files, rank, outcome, failed, restarts>>
        /\ faults' \in 0 .. MaxFaults
    BY <1>17 DEF CopyCheckpointFails, NoCheckpointFound, Raise, TypeOK, OutcomeTyped
  <2>2. TypeOK'
    <3>1. ProgressTyped'
      BY <2>1 DEF TypeOK, ProgressTyped
    <3>2. OutcomeTyped'
      BY <2>1 DEF TypeOK, OutcomeTyped
    <3>3. QED
      BY <2>1, <3>1, <3>2, KeptTypes DEF TypeOK
  <2>3. CountersFit'
    BY <2>1 DEF CountersFit, InTrain, InExport
  <2>4. QED
    BY <2>2, <2>3
<1>18. ASSUME NEW r \in Ranks, RankReads(r)
       PROVE  TypeOK' /\ CountersFit'
  <2>1. rank' \in [Ranks -> RankRecord]
        /\ UNCHANGED <<pc, progress, exportId, files, outcome, budget>>
    BY <1>18, ReadChanges
  <2>2. TypeOK'
    <3>1. RanksTyped'
      BY <2>1 DEF RanksTyped, RankRecord
    <3>2. UNCHANGED <<pc, progress, exportId>> /\ UNCHANGED files /\ UNCHANGED <<outcome, budget>>
      BY <2>1
    <3>3. QED
      BY <3>1, <3>2, KeptTypes DEF TypeOK
  <2>3. \A q \in Ranks : /\ rank'[q].got # NoGroup => rank'[q].next \in Steps
                         /\ rank'[q].served = rank[q].served
    BY <1>18, ReadChanges DEF CountersFit, Others
  <2>4. CountersFit'
    BY <2>1, <2>3 DEF CountersFit, InTrain, InExport
  <2>5. QED
    BY <2>2, <2>4
<1>19. ASSUME NEW r \in Ranks, RankApplies(r)
       PROVE  TypeOK' /\ CountersFit'
  <2>1. /\ rank' \in [Ranks -> RankRecord]
        /\ UNCHANGED <<pc, progress, exportId, stepFile, request, shard, done, outcome, budget>>
        /\ rank[r].next \in Steps /\ rank[r].got \in Groups /\ pc # "down"
    BY <1>19, ApplyChanges
  <2>2. result' \in [Steps -> Groups \cup {NoGroup}]
    BY <1>19, <2>1, ApplyChanges DEF TypeOK, FilesTyped
  <2>3. TypeOK'
    <3>1. FilesTyped'
      BY <2>1, <2>2 DEF TypeOK, FilesTyped
    <3>2. RanksTyped'
      BY <2>1 DEF RanksTyped, RankRecord
    <3>3. UNCHANGED <<pc, progress, exportId>> /\ UNCHANGED <<outcome, budget>>
      BY <2>1
    <3>4. QED
      BY <3>1, <3>2, <3>3, KeptTypes DEF TypeOK
  <2>4. \A q \in Ranks : /\ rank'[q].got # NoGroup => rank'[q].next \in Steps
                         /\ rank'[q].served = rank[q].served
    BY <1>19, <2>1, ApplyChanges DEF CountersFit, Others
  <2>5. CountersFit'
    BY <2>1, <2>4 DEF CountersFit, InTrain, InExport
  <2>6. QED
    BY <2>3, <2>5
<1>20. ASSUME NEW r \in Ranks, RankExports(r)
       PROVE  TypeOK' /\ CountersFit'
  <2>1. /\ rank' \in [Ranks -> RankRecord]
        /\ shard' \in [Machines -> [Ranks \X ExportIds -> Weights \cup {NoShard}]]
        /\ UNCHANGED <<pc, progress, exportId, stepFile, result, request, done, outcome, budget>>
        /\ pc # "down" /\ request[MachineOf[r]] \in ExportIds
        /\ rank'[r].got = NoGroup /\ rank'[r].served = request[MachineOf[r]] /\ Others(r)
    BY <1>20, ExportChanges
  <2>2. TypeOK'
    <3>1. RanksTyped'
      BY <2>1 DEF RanksTyped, RankRecord
    <3>2. FilesTyped'
      BY <2>1 DEF TypeOK, FilesTyped
    <3>3. UNCHANGED <<pc, progress, exportId>> /\ UNCHANGED <<outcome, budget>>
      BY <2>1
    <3>4. QED
      BY <3>1, <3>2, <3>3, KeptTypes DEF TypeOK
  <2>3. \A q \in Ranks : /\ rank'[q].got # NoGroup => rank'[q].next \in Steps
                         /\ rank'[q].served # 0 => request'[MachineOf[q]] # 0
    BY <2>1 DEF CountersFit, Others, ExportIds
  <2>4. CountersFit'
    BY <2>1, <2>3 DEF CountersFit, InTrain, InExport
  <2>5. QED
    BY <2>2, <2>4
<1>21. CASE RankMerges
  <2>1. 1 \in Ranks /\ rank[1].served \in ExportIds
    BY <1>21 DEF RankMerges, Merging, TypeOK, RanksTyped, Ranks, ExportIds
  <2>2. Primary \in Machines
    BY DEF Primary, Machines
  <2>3. \A r \in Ranks : shard[Primary][<<r, rank[1].served>>] \in Weights
    BY <1>21, <2>1, <2>2 DEF RankMerges, TypeOK, FilesTyped
  <2>4. done' \in [ExportIds -> SUBSET Weights]
    BY <1>21, <2>1, <2>3 DEF RankMerges, Merging, TypeOK, FilesTyped
  <2>5. TypeOK'
    <3>1. FilesTyped'
      BY <1>21, <2>4 DEF RankMerges, TypeOK, FilesTyped
    <3>2. UNCHANGED <<pc, progress, exportId>> /\ UNCHANGED rank /\ UNCHANGED <<outcome, budget>>
      BY <1>21 DEF RankMerges
    <3>3. QED
      BY <3>1, <3>2, KeptTypes DEF TypeOK
  <2>6. CountersFit'
    BY <1>21 DEF RankMerges, CountersFit, InTrain, InExport
  <2>7. QED
    BY <2>5, <2>6
<1>22. CASE Finished \/ UNCHANGED vars
  <2>1. UNCHANGED vars
    BY <1>22 DEF Finished
  <2>2. TypeOK'
    BY <2>1, KeptTypes DEF TypeOK, vars
  <2>3. CountersFit'
    BY <2>1 DEF vars, CountersFit, InTrain, InExport
  <2>4. QED
    BY <2>2, <2>3
<1>23. QED
  BY <1>1, <1>2, <1>3, <1>4, <1>5, <1>6, <1>7, <1>8, <1>9, <1>10, <1>11, <1>12, <1>13, <1>14, <1>15,
     <1>16, <1>17, <1>18, <1>19, <1>20, <1>21, <1>22 DEF Next, CheckpointStep, Returns, RankStep

(* Every file, counter and rank of the handoff keeps its type: no step     *)
(* number, export id or weight is outside what was written                 *)
(* (quic_train_multi.py:246-269, 424-543).                                 *)
THEOREM TypesCorrect == Spec => [](TypeOK /\ CountersFit)
<1>1. Init => TypeOK /\ CountersFit
  BY TypesStart
<1>2. TypeOK /\ CountersFit /\ [Next]_vars => TypeOK' /\ CountersFit'
  BY TypesStep
<1>3. QED
  BY <1>1, <1>2, PTL DEF Spec

-----------------------------------------------------------------------------
(* Files, ranks and backend agree, when every program has a new state_dir. *)

\* What each lemma below may use of the state before the step, while a program runs.
Here == TypeOK /\ CountersFit /\ RunAgrees /\ exported.of \subseteq returned

(* The first free number is that of no file; so no rank is past it.        *)
LEMMA NextIsFree ==
    ASSUME TypeOK, StepFilesInOrder, RanksFollow, NEW r \in Ranks
    PROVE  /\ rank[r].next <= nextStep
           /\ rank[r].got # NoGroup /\ rank[r].next \in Steps => rank[r].next < nextStep
<1> USE HandoffAssumption
<1>1. MachineOf[r] \in Machines /\ rank[r].next \in 1 .. MaxTrains * GroupsPerBatch + 1
      /\ nextStep \in 1 .. MaxTrains * GroupsPerBatch + 1 /\ MaxTrains * GroupsPerBatch \in Nat
  BY DEF TypeOK, ProgressTyped, RanksTyped
<1>2. CASE rank[r].next = 1
  BY <1>1, <1>2 DEF RanksFollow, StepFilesInOrder
<1>3. CASE rank[r].next > 1
  <2>1. rank[r].next - 1 \in Steps /\ rank[r].next - 1 \in 1 .. rank[r].next - 1
    BY <1>1, <1>3 DEF Steps
  <2>2. stepFile[MachineOf[r]][rank[r].next - 1] # NoGroup
    BY <2>1 DEF RanksFollow
  <2>3. rank[r].next - 1 < nextStep
    BY <1>1, <2>1, <2>2 DEF StepFilesInOrder
  <2>4. QED
    BY <1>1, <2>3 DEF RanksFollow, StepFilesInOrder
<1>4. QED
  BY <1>1, <1>2, <1>3

(* A file that is there stays as it is.                                    *)
LEMMA WrittenOnce ==
    ASSUME TypeOK, CountersFit, OwnSteps, CopyStep,
           NEW m \in Machines, NEW s \in Steps, stepFile[m][s] # NoGroup
    PROVE  stepFile'[m][s] = stepFile[m][s]
<1>1. CASE m # copied + 1 \/ s # nextStep - 1
  BY <1>1, CopyChanges
<1>2. CASE m = copied + 1 /\ s = nextStep - 1
  <2>1. stepFile[m][nextStep - 1] = IF m <= copied THEN <<batch, group>> ELSE NoGroup
    BY CopyChanges DEF OwnSteps
  <2>2. ~ (m <= copied)
    BY <1>2 DEF TypeOK, ProgressTyped
  <2>3. QED
    BY <1>2, <2>1, <2>2
<1>3. QED
  BY <1>1, <1>2

LEMMA StepFilesStep ==
    ASSUME Here, [Next]_vars, pc # "down", pc' # "down"
    PROVE  StepFilesInOrder'
<1> USE HandoffAssumption DEF Here, RunAgrees
<1>1. CASE CopyStep
  <2> DEFINE n == nextStep - 1
             g == <<batch, group>>
  <2>1. /\ pc = "copying" /\ n \in Steps /\ copied + 1 \in Machines /\ g \in Groups
        /\ nextStep' = nextStep /\ batch' = batch /\ batch \in 1 .. MaxTrains
        /\ stepFile'[copied + 1][n] = g
        /\ \A m \in Machines : \A s \in Steps :
             m # copied + 1 \/ s # n => stepFile'[m][s] = stepFile[m][s]
    BY <1>1, CopyChanges
  <2>2. /\ nextStep \in Nat /\ copied \in Nat /\ g # NoGroup
        /\ \A s \in Steps : s \in Nat
        /\ \A m \in Machines : m \in Nat
    BY <2>1, Numbers, GroupsArePairs
  <2>3. \A m \in Machines : stepFile[m][n] = IF m <= copied THEN g ELSE NoGroup
    BY <2>1 DEF OwnSteps
  <2>4. \A m \in Machines : \A s \in Steps : s # n /\ stepFile[m][s] # NoGroup => Earlier(stepFile[m][s], g)
    BY <2>1 DEF OwnSteps
  <2>5. \A m \in Machines : \A s \in Steps : s # n /\ stepFile[m][s] # NoGroup => s < n
    BY <2>2 DEF StepFilesInOrder
  <2>6. \A m \in Machines : stepFile'[m][n] = IF m <= copied + 1 THEN g ELSE NoGroup
    BY <2>1, <2>2, <2>3
  <2> HIDE DEF g
  <2>7. ASSUME NEW m \in Machines, NEW s \in Steps, stepFile'[m][s] # NoGroup
        PROVE  /\ s < nextStep
               /\ stepFile'[m][s][1] <= batch
               /\ \A k \in Machines : stepFile'[k][s] \in {NoGroup, stepFile'[m][s]}
               /\ \A t \in Steps : t < s /\ stepFile'[m][t] # NoGroup => Earlier(stepFile'[m][t], stepFile'[m][s])
    <3>1. CASE s = n
      <4>1. stepFile'[m][s] = g
        BY <2>6, <2>7, <3>1
      <4>2. g[1] <= batch
        BY <2>1 DEF g
      <4>3. \A t \in Steps : t < n /\ stepFile'[m][t] # NoGroup => Earlier(stepFile'[m][t], g)
        BY <2>1, <2>2, <2>4
      <4>4. QED
        BY <2>2, <2>6, <3>1, <4>1, <4>2, <4>3
    <3>2. CASE s # n
      <4>1. \A k \in Machines : stepFile'[k][s] = stepFile[k][s]
        BY <2>1, <3>2
      <4>2. s < n
        BY <2>5, <2>7, <3>2, <4>1
      <4>3. \A t \in Steps : t < s => stepFile'[m][t] = stepFile[m][t]
        BY <2>1, <2>2, <4>2
      <4>4. QED
        BY <2>7, <4>1, <4>2, <4>3 DEF StepFilesInOrder
    <3>3. QED
      BY <3>1, <3>2
  <2>8. QED
    BY <2>1, <2>7 DEF StepFilesInOrder
<1>2. CASE ~ CopyStep
  <2>1. UNCHANGED stepFile /\ nextStep' \in {nextStep, nextStep + 1} /\ batch' \in {batch, batch + 1}
    BY <1>2 DEF Next, vars, progress, files, Shutdown, InitializePolicy, Train, Returns, TakeStep, ReadResult,
                CopyRequest,
                ExportDone, Shuttle, RejectGroup, Raise, NumberIsFree, CopyFails, WaitTimesOut, Onward,
                ExportPolicy, ExportFails, Checkpoint, CheckpointStep, CopyCheckpoint, CopyCheckpointFails,
                NoCheckpointFound, RankStep, RankReads, RankApplies, RankExports,
                RankMerges, Finished
  <2>2. nextStep \in Nat /\ batch \in Nat /\ \A s \in Steps : s \in Nat
    BY Numbers
  <2>3. \A m \in Machines : \A s \in Steps : stepFile[m][s] # NoGroup => stepFile[m][s][1] \in Nat
    BY GroupsArePairs DEF TypeOK, FilesTyped
  <2>4. QED
    BY <2>1, <2>2, <2>3 DEF StepFilesInOrder
<1>3. QED
  BY <1>1, <1>2

LEMMA OwnStepsStep ==
    ASSUME Here, [Next]_vars, pc # "down", pc' # "down"
    PROVE  OwnSteps'
<1> USE HandoffAssumption DEF Here, RunAgrees
<1>1. CASE Train
  <2>1. /\ pc' = "grouping" /\ batch' = batch + 1 /\ group' = 1 /\ steps' = << >>
        /\ UNCHANGED <<stepFile, nextStep>>
    BY <1>1 DEF Train, files
  <2>2. \A m \in Machines : \A s \in Steps : stepFile[m][s] # NoGroup =>
            stepFile[m][s][1] \in Nat /\ stepFile[m][s][1] <= batch
    BY GroupsArePairs DEF TypeOK, FilesTyped, StepFilesInOrder
  <2>3. \A m \in Machines : \A s \in Steps : stepFile[m][s] # NoGroup =>
            Earlier(stepFile[m][s], <<batch + 1, 1>>)
    BY <2>2, Numbers DEF Earlier
  <2>4. Len(steps') = 0
    BY <2>1
  <2>5. QED
    BY <2>1, <2>3, <2>4 DEF OwnSteps, InTrain
<1>2. CASE TakeStep
  <2>1. \A m \in Machines : stepFile[m][nextStep] = NoGroup
    BY <1>2, TakeChanges, Numbers DEF StepFilesInOrder
  <2>2. /\ pc = "grouping" /\ pc' = "copying" /\ copied' = 0 /\ nextStep' = nextStep + 1
        /\ Len(steps) = group - 1 /\ Len(steps') = group /\ steps'[group] = nextStep
        /\ \A i \in 1 .. Len(steps) : steps'[i] = steps[i]
        /\ UNCHANGED <<batch, group, stepFile>>
    BY <1>2, TakeChanges DEF files
  <2>3. /\ nextStep' - 1 = nextStep
        /\ \A m \in Machines : ~ (m <= copied')
    BY <2>2, Numbers
  <2>4. \A m \in Machines : \A s \in Steps : stepFile[m][s] # NoGroup =>
            Earlier(stepFile[m][s], <<batch, group>>)
    BY <2>2 DEF OwnSteps
  <2>5. \A m \in Machines :
             /\ stepFile'[m][nextStep' - 1] = IF m <= copied' THEN <<batch', group'>> ELSE NoGroup
             /\ \A s \in Steps : s # nextStep' - 1 /\ stepFile'[m][s] # NoGroup =>
                    Earlier(stepFile'[m][s], <<batch', group'>>)
    BY <2>1, <2>2, <2>3, <2>4
  <2>6. ASSUME NEW i \in 1 .. Len(steps')
        PROVE  /\ steps'[i] < nextStep'
               /\ pc' = "copying" /\ i # group' => steps'[i] < nextStep' - 1
               /\ \A m \in Machines : stepFile'[m][steps'[i]] \in {NoGroup, <<batch', i>>}
    <3>1. CASE i = group
      BY <2>1, <2>2, <3>1, Numbers
    <3>2. CASE i # group
      <4>1. i \in 1 .. Len(steps) /\ i # group
        BY <2>2, <2>6, <3>2, Numbers
      <4>2. /\ steps[i] < nextStep
            /\ \A m \in Machines : stepFile[m][steps[i]] \in {NoGroup, <<batch, i>>}
        BY <2>2, <4>1 DEF OwnSteps, InTrain
      <4>3. steps[i] \in Nat
        BY <4>1, ElementOfSeq, Numbers DEF TypeOK, ProgressTyped
      <4>4. steps'[i] = steps[i] /\ steps[i] < nextStep + 1 /\ nextStep' - 1 = nextStep
        BY <2>2, <2>3, <4>1, <4>2, <4>3, Numbers
      <4>5. \A m \in Machines : stepFile'[m][steps'[i]] \in {NoGroup, <<batch', i>>}
        BY <2>2, <4>2, <4>4
      <4>6. QED
        BY <2>2, <4>2, <4>4, <4>5
    <3>3. QED
      BY <3>1, <3>2
  <2>7. QED
    BY <2>2, <2>5, <2>6 DEF OwnSteps
<1>3. CASE CopyStep
  <2> DEFINE n == nextStep - 1
             g == <<batch, group>>
  <2>1. /\ pc = "copying" /\ n \in Steps /\ copied + 1 \in Machines
        /\ nextStep' = nextStep /\ batch' = batch /\ steps' = steps
        /\ stepFile'[copied + 1][n] = g
        /\ \A m \in Machines : \A s \in Steps :
             m # copied + 1 \/ s # n => stepFile'[m][s] = stepFile[m][s]
    BY <1>3, CopyChanges
  <2>2. \A m \in Machines :
             /\ stepFile[m][n] = IF m <= copied THEN g ELSE NoGroup
             /\ \A s \in Steps : s # n /\ stepFile[m][s] # NoGroup => Earlier(stepFile[m][s], g)
    BY <2>1 DEF OwnSteps
  <2>3. \A m \in Machines :
             /\ stepFile'[m][n] = IF m <= copied + 1 THEN g ELSE NoGroup
             /\ \A s \in Steps : s # n /\ stepFile'[m][s] # NoGroup => Earlier(stepFile'[m][s], g)
    BY <2>1, <2>2, Numbers
  <2>4. ASSUME NEW i \in 1 .. Len(steps)
        PROVE  /\ steps[i] < nextStep
               /\ i # group => steps[i] < n
               /\ \A m \in Machines : stepFile'[m][steps[i]] \in {NoGroup, <<batch, i>>}
    <3>1. /\ steps[i] < nextStep
          /\ i # group => steps[i] < n
          /\ \A m \in Machines : stepFile[m][steps[i]] \in {NoGroup, <<batch, i>>}
      BY <2>1, <2>4 DEF OwnSteps, InTrain
    <3>2. steps[i] \in Steps /\ steps[i] \in Nat
      BY <2>4, ElementOfSeq, Numbers DEF TypeOK, ProgressTyped
    <3>3. steps[group] = n
      BY <2>1 DEF CountersFit
    <3>4. \A m \in Machines : stepFile'[m][steps[i]] \in {NoGroup, <<batch, i>>}
      <4>1. CASE i = group
        BY <2>3, <3>3, <4>1
      <4>2. CASE i # group
        <5>1. steps[i] # n
          BY <3>1, <3>2, <4>2, Numbers
        <5>2. \A m \in Machines : stepFile'[m][steps[i]] = stepFile[m][steps[i]]
          BY <2>1, <3>2, <5>1
        <5>3. QED
          BY <3>1, <5>2
      <4>3. QED
        BY <4>1, <4>2
    <3>5. QED
      BY <3>1, <3>4
  <2> HIDE DEF n
  <2>5. CASE pc' = "copying"
    <3>1. copied' = copied + 1 /\ group' = group
      BY <1>3, <2>5, CopyChanges
    <3>2. QED
      BY <2>1, <2>3, <2>4, <2>5, <3>1 DEF OwnSteps, n
  <2>6. CASE pc' = "grouping"
    <3>1. group' = group + 1
      BY <1>3, <2>6, CopyChanges
    <3>2. \A m \in Machines : stepFile'[m][n] \in {g, NoGroup}
      BY <2>3
    <3>3. \A h \in Groups : Earlier(h, g) => Earlier(h, <<batch, group + 1>>)
      BY GroupsArePairs, Numbers DEF Earlier
    <3>4. Earlier(g, <<batch, group + 1>>)
      BY Numbers DEF Earlier
    <3>5. stepFile' \in [Machines -> [Steps -> Groups \cup {NoGroup}]]
      BY <1>3, CopyChanges
    <3> HIDE DEF g
    <3>6. \A m \in Machines : \A s \in Steps : stepFile'[m][s] # NoGroup =>
             Earlier(stepFile'[m][s], <<batch, group + 1>>)
      BY <2>3, <3>2, <3>3, <3>4, <3>5
    <3>7. QED
      BY <2>1, <2>4, <2>6, <3>1, <3>6 DEF OwnSteps
  <2>7. CASE pc' = "waiting"
    BY <2>1, <2>4, <2>7 DEF OwnSteps
  <2>8. QED
    BY <1>3, <2>1, <2>5, <2>6, <2>7, CopyChanges
<1>4. CASE ~ (Train \/ TakeStep \/ CopyStep)
  <2>1. \/ pc' \in {"idle", "requesting", "exporting", "checkpointing"}
        \/ UNCHANGED <<pc, stepFile, nextStep, batch, group, copied, steps>>
        \/ UNCHANGED <<stepFile, nextStep, batch, group, steps>> /\ pc = "waiting" /\ pc' = "waiting"
    BY <1>4 DEF Next, vars, progress, files, Shutdown, InitializePolicy, Returns, ReadResult, CopyRequest,
                NextMachine,
                ExportDone, Shuttle, RejectGroup, Raise, CopyFails, WaitTimesOut,
                ExportPolicy, ExportFails, Checkpoint, CheckpointStep, CopyCheckpoint, CopyCheckpointFails,
                NoCheckpointFound, RankStep, RankReads, RankApplies, RankExports,
                RankMerges, Finished
  <2>2. QED
    BY <2>1 DEF OwnSteps, InTrain
<1>5. QED
  BY <1>1, <1>2, <1>3, <1>4

LEMMA RanksFollowStep ==
    ASSUME Here, [Next]_vars, pc # "down", pc' # "down"
    PROVE  RanksFollow'
<1> USE HandoffAssumption DEF Here, RunAgrees
<1> DEFINE Follows(r) ==
             /\ Len(rank'[r].weights) = rank'[r].next - 1
             /\ \A k \in 1 .. rank'[r].next - 1 :
                  rank'[r].weights[k] # NoGroup /\ rank'[r].weights[k] = stepFile'[MachineOf[r]][k]
             /\ rank'[r].got # NoGroup => rank'[r].got = stepFile'[MachineOf[r]][rank'[r].next]
<1>1. ASSUME NEW r \in Ranks, rank'[r] = rank[r], UNCHANGED stepFile
      PROVE  Follows(r)
  BY <1>1 DEF RanksFollow
<1>2. CASE CopyStep
  <2>1. ASSUME NEW r \in Ranks
        PROVE  Follows(r)
    <3>1. rank' = rank /\ MachineOf[r] \in Machines
      BY <1>2, CopyChanges
    <3>2. \A k \in 1 .. rank[r].next - 1 : k \in Steps
      <4>1. rank[r].next \in 1 .. MaxTrains * GroupsPerBatch + 1 /\ MaxTrains * GroupsPerBatch \in Nat
        BY DEF TypeOK, RanksTyped
      <4>2. QED
        BY <4>1 DEF Steps
    <3>3. \A k \in 1 .. rank[r].next - 1 : stepFile'[MachineOf[r]][k] = stepFile[MachineOf[r]][k]
      BY <1>2, <3>1, <3>2, WrittenOnce DEF RanksFollow
    <3>4. rank[r].got # NoGroup =>
            stepFile'[MachineOf[r]][rank[r].next] = stepFile[MachineOf[r]][rank[r].next]
      BY <1>2, <3>1, WrittenOnce DEF RanksFollow, CountersFit
    <3>5. QED
      BY <3>1, <3>3, <3>4 DEF RanksFollow
  <2>2. QED
    BY <2>1 DEF RanksFollow
<1>3. ASSUME NEW r \in Ranks, RankReads(r)
      PROVE  RanksFollow'
  <2>1. Others(r) /\ UNCHANGED stepFile
    BY <1>3, ReadChanges DEF files
  <2>2. Follows(r)
    <3>1. /\ rank'[r].weights = rank[r].weights /\ rank'[r].next = rank[r].next
          /\ rank'[r].got = stepFile[MachineOf[r]][rank[r].next]
      BY <1>3, ReadChanges
    <3>2. QED
      BY <2>1, <3>1 DEF RanksFollow
  <2>3. QED
    BY <1>1, <2>1, <2>2 DEF RanksFollow, Others
<1>4. ASSUME NEW r \in Ranks, RankApplies(r)
      PROVE  RanksFollow'
  <2>1. /\ Others(r) /\ UNCHANGED stepFile
        /\ rank[r].got \in Groups /\ rank[r].next \in Steps
        /\ rank'[r].weights = Append(rank[r].weights, rank[r].got)
        /\ rank'[r].next = rank[r].next + 1 /\ rank'[r].got = NoGroup
    BY <1>4, ApplyChanges
  <2>2. rank[r].weights \in Weights /\ Len(rank[r].weights) = rank[r].next - 1
    BY DEF TypeOK, RanksTyped, RanksFollow
  <2>3. /\ Len(rank'[r].weights) = rank[r].next
        /\ \A k \in 1 .. rank[r].next - 1 : rank'[r].weights[k] = rank[r].weights[k]
        /\ rank'[r].weights[rank[r].next] = rank[r].got
    <3> DEFINE w == rank[r].weights
               g == rank[r].got
    <3>1. w \in Weights /\ g \in Groups /\ Len(w) = rank[r].next - 1 /\ rank'[r].weights = Append(w, g)
      BY <2>1, <2>2
    <3> HIDE DEF w, g
    <3>2. /\ Len(Append(w, g)) = Len(w) + 1
          /\ \A k \in 1 .. Len(w) : Append(w, g)[k] = w[k]
          /\ Append(w, g)[Len(w) + 1] = g
      BY <3>1, OneMoreGroup
    <3>3. Len(w) + 1 = rank[r].next
      BY <3>1, Numbers
    <3>4. QED
      BY <3>1, <3>2, <3>3 DEF w, g
  <2>4. rank[r].got = stepFile[MachineOf[r]][rank[r].next] /\ rank[r].got # NoGroup
    BY <2>1, GroupsArePairs DEF RanksFollow
  <2>5. \A k \in 1 .. rank[r].next : k = rank[r].next \/ k \in 1 .. rank[r].next - 1
    BY Numbers
  <2>6. \A k \in 1 .. rank[r].next :
          rank'[r].weights[k] # NoGroup /\ rank'[r].weights[k] = stepFile[MachineOf[r]][k]
    <3>1. \A k \in 1 .. rank[r].next - 1 :
            rank[r].weights[k] # NoGroup /\ rank[r].weights[k] = stepFile[MachineOf[r]][k]
      BY DEF RanksFollow
    <3>2. QED
      BY <2>3, <2>4, <2>5, <3>1
  <2>7. rank'[r].next - 1 = rank[r].next
    BY <2>1, Numbers
  <2>8. Follows(r)
    BY <2>1, <2>3, <2>6, <2>7
  <2>9. QED
    BY <1>1, <2>1, <2>8 DEF RanksFollow, Others
<1>5. ASSUME NEW r \in Ranks, RankExports(r)
      PROVE  RanksFollow'
  <2>1. Others(r) /\ UNCHANGED stepFile
    BY <1>5, ExportChanges
  <2>2. rank'[r].got = rank[r].got /\ rank'[r].next = rank[r].next /\ rank'[r].weights = rank[r].weights
    BY <1>5, ExportChanges
  <2>3. Follows(r)
    BY <2>1, <2>2 DEF RanksFollow
  <2>4. QED
    BY <1>1, <2>1, <2>3 DEF RanksFollow, Others
<1>6. CASE UNCHANGED <<rank, stepFile>>
  BY <1>6 DEF RanksFollow
<1>7. CopyStep \/ (\E r \in Ranks : RankReads(r) \/ RankApplies(r) \/ RankExports(r)) \/ UNCHANGED <<rank, stepFile>>
  BY DEF Next, vars, files, Shutdown, InitializePolicy, Train, Returns, TakeStep, ReadResult, CopyRequest,
         ExportDone, Shuttle, RejectGroup, Raise, CopyFails, WaitTimesOut,
         ExportPolicy, ExportFails, Checkpoint, CheckpointStep, CopyCheckpoint, CopyCheckpointFails,
         NoCheckpointFound, RankStep, RankMerges, Finished
<1>8. QED
  BY <1>2, <1>3, <1>4, <1>5, <1>6, <1>7

LEMMA PipelinedStep ==
    ASSUME Here, [Next]_vars, pc # "down", pc' # "down"
    PROVE  Pipelined'
<1> USE HandoffAssumption DEF Here, RunAgrees
<1>1. ASSUME NEW r \in Ranks, RankReads(r)
      PROVE  Pipelined'
  <2>1. /\ Others(r) /\ rank'[r].next = rank[r].next
        /\ rank'[r].got # NoGroup
    BY <1>1, ReadChanges, GroupsArePairs
  <2>2. \A q \in Ranks : rank'[q].next = rank[q].next /\ (rank[q].got # NoGroup => rank'[q].got # NoGroup)
    BY <2>1 DEF Others
  <2>3. QED
    BY <2>2 DEF Pipelined
<1>2. ASSUME NEW r \in Ranks, RankApplies(r)
      PROVE  Pipelined'
  <2>1. /\ Others(r) /\ rank'[r].next = rank[r].next + 1
        /\ \A q \in 1 .. r - 1 : rank[q].next = rank[r].next /\ rank[q].got # NoGroup
        /\ \A q \in r + 1 .. WorldSize : rank[q].next = rank[r].next + 1
    BY <1>2, ApplyChanges
  <2>2. ASSUME NEW q \in Ranks, NEW p \in Ranks, q < p
        PROVE  \/ rank'[p].next = rank'[q].next
               \/ rank'[p].next = rank'[q].next + 1 /\ rank'[q].got # NoGroup
    <3>1. CASE p = r
      <4>1. q \in 1 .. r - 1 /\ q # r
        BY <2>2, <3>1 DEF Ranks
      <4>2. QED
        BY <2>1, <3>1, <4>1 DEF Others
    <3>2. CASE q = r
      <4>1. p \in r + 1 .. WorldSize /\ p # r
        BY <2>2, <3>2 DEF Ranks
      <4>2. QED
        BY <2>1, <3>2, <4>1 DEF Others
    <3>3. CASE p # r /\ q # r
      BY <2>1, <2>2, <3>3 DEF Pipelined, Others
    <3>4. QED
      BY <3>1, <3>2, <3>3
  <2>3. QED
    BY <2>2 DEF Pipelined
<1>3. ASSUME NEW r \in Ranks, RankExports(r)
      PROVE  Pipelined'
  <2>1. Others(r) /\ rank'[r].next = rank[r].next /\ rank'[r].got = rank[r].got
    BY <1>3, ExportChanges
  <2>2. \A q \in Ranks : rank'[q].next = rank[q].next /\ rank'[q].got = rank[q].got
    BY <2>1 DEF Others
  <2>3. QED
    BY <2>2 DEF Pipelined
<1>4. CASE UNCHANGED rank
  BY <1>4 DEF Pipelined
<1>5. (\E r \in Ranks : RankReads(r) \/ RankApplies(r) \/ RankExports(r)) \/ UNCHANGED rank
  BY DEF Next, vars, Shutdown, InitializePolicy, Train, Returns, TakeStep, CopyStep, ReadResult, CopyRequest,
         ExportDone, Shuttle, RejectGroup, Raise, CopyFails, WaitTimesOut,
         ExportPolicy, ExportFails, Checkpoint, CheckpointStep, CopyCheckpoint, CopyCheckpointFails,
         NoCheckpointFound, RankStep, RankMerges, Finished
<1>6. QED
  BY <1>1, <1>2, <1>3, <1>4, <1>5

LEMMA LearnedGrows ==
    ASSUME NEW w \in Weights, NEW g \in Groups
    PROVE  Learned(w) \subseteq Learned(Append(w, g))
  BY OneMoreGroup DEF Learned

LEMMA LastIsRank == LastRank \in Ranks /\ MachineOf[LastRank] \in Machines
  BY HandoffAssumption DEF LastRank, Ranks

(* What reading the next result finds and changes.                         *)
LEMMA ResultRead ==
    ASSUME Here, ReadResult
    PROVE  LET i == Len(reported) + 1 IN
           /\ pc = "waiting" /\ i \in 1 .. GroupsPerBatch
           /\ <<batch, i>> \in Learned(rank[LastRank].weights)
           /\ reported' = Append(reported, <<batch, i>>)
           /\ reported \in Seq(Groups) /\ <<batch, i>> \in Groups
           /\ Len(reported') = i
           /\ i = GroupsPerBatch =>
                /\ pc' = "idle" /\ returned' = returned \cup {batch}
                /\ nextStep - 1 < rank[LastRank].next
           /\ i # GroupsPerBatch => pc' = pc /\ UNCHANGED returned
           /\ UNCHANGED <<nextStep, batch, group, copied, steps, exportId, files, rank, outcome, budget>>
<1> USE HandoffAssumption DEF Here, RunAgrees
<1> DEFINE i == Len(reported) + 1
           s == steps[i]
<1>1. /\ pc = "waiting" /\ group = GroupsPerBatch /\ Len(steps) = GroupsPerBatch
      /\ Len(reported) < GroupsPerBatch /\ steps[GroupsPerBatch] = nextStep - 1
      /\ version < batch
  BY DEF ReadResult, CountersFit, InTrain
<1>2. reported \in Seq(Groups) /\ steps \in Seq(Steps) /\ Len(reported) \in Nat
  BY LenProperties DEF TypeOK, ProgressTyped
<1>3. i \in 1 .. GroupsPerBatch /\ i \in 1 .. Len(steps) /\ s \in Steps
  BY <1>1, <1>2, ElementOfSeq
<1>4. batch \in 1 .. MaxTrains /\ <<batch, i>> \in Groups
  <2>1. batch \in 1 .. MaxTrains
    BY <1>1 DEF TypeOK, ProgressTyped
  <2>2. QED
    BY <1>3, <2>1, GroupsArePairs
<1>5. Awaited = s /\ result[s] # NoGroup
  BY DEF ReadResult, Awaited
<1>6. s < rank[LastRank].next /\ result[s] = rank[LastRank].weights[s]
  BY <1>3, <1>5 DEF ResultsFollow
<1>7. s \in 1 .. rank[LastRank].next - 1 /\ s \in Nat
  BY <1>3, <1>6, Numbers, LastIsRank
<1>8. result[s] = <<batch, i>>
  <2>1. rank[LastRank].weights[s] # NoGroup
        /\ rank[LastRank].weights[s] = stepFile[MachineOf[LastRank]][s]
    BY <1>7, LastIsRank DEF RanksFollow
  <2>2. stepFile[MachineOf[LastRank]][s] \in {NoGroup, <<batch, i>>}
    BY <1>1, <1>3, LastIsRank DEF OwnSteps, InTrain
  <2>3. QED
    BY <1>6, <2>1, <2>2
<1>9. <<batch, i>> \in Learned(rank[LastRank].weights)
  <2>1. DOMAIN rank[LastRank].weights = 1 .. rank[LastRank].next - 1
    BY LastIsRank, LenProperties DEF TypeOK, RanksTyped, RanksFollow, Weights
  <2>2. QED
    BY <1>6, <1>7, <1>8, <2>1 DEF Learned
<1>10. reported' = Append(reported, <<batch, i>>)
  BY <1>5, <1>8 DEF ReadResult
<1>11. Len(reported') = i
  BY <1>2, <1>4, <1>10, AppendProperties
<1>12. UNCHANGED <<nextStep, batch, group, copied, steps, exportId, files, rank, outcome, budget>>
  BY DEF ReadResult
<1>13. i = GroupsPerBatch => pc' = "idle" /\ returned' = returned \cup {batch} /\ nextStep - 1 < rank[LastRank].next
  BY <1>1, <1>6, <1>11 DEF ReadResult, AllRead
<1>14. i # GroupsPerBatch => pc' = pc /\ UNCHANGED returned
  BY <1>1, <1>11 DEF ReadResult, AllRead
<1>15. QED
  <2> HIDE DEF i
  <2>1. /\ pc = "waiting" /\ i \in 1 .. GroupsPerBatch
        /\ <<batch, i>> \in Learned(rank[LastRank].weights)
        /\ reported' = Append(reported, <<batch, i>>)
        /\ reported \in Seq(Groups) /\ <<batch, i>> \in Groups
        /\ Len(reported') = i
        /\ i = GroupsPerBatch =>
             /\ pc' = "idle" /\ returned' = returned \cup {batch}
             /\ nextStep - 1 < rank[LastRank].next
        /\ i # GroupsPerBatch => pc' = pc /\ UNCHANGED returned
        /\ UNCHANGED <<nextStep, batch, group, copied, steps, exportId, files, rank, outcome, budget>>
    BY <1>1, <1>2, <1>3, <1>4, <1>9, <1>10, <1>11, <1>12, <1>13, <1>14
  <2>2. QED
    BY <2>1, Zenon DEF i

LEMMA ResultsFollowStep ==
    ASSUME Here, [Next]_vars, pc # "down", pc' # "down"
    PROVE  ResultsFollow'
<1> USE HandoffAssumption DEF Here, RunAgrees
<1> DEFINE last == rank[LastRank]
<1>1. CASE ReadResult
  <2> DEFINE i == Len(reported) + 1
  <2>1. /\ i \in 1 .. GroupsPerBatch /\ Len(reported') = i /\ pc = "waiting"
        /\ <<batch, i>> \in Learned(last.weights)
        /\ i = GroupsPerBatch => pc' = "idle" /\ returned' = returned \cup {batch}
        /\ i # GroupsPerBatch => pc' = pc /\ UNCHANGED returned
        /\ UNCHANGED <<batch, result, rank>>
    BY <1>1, ResultRead DEF files
  <2>2. \A k \in 1 .. i : k = i \/ k \in 1 .. Len(reported)
    BY <2>1
  <2>3. \A k \in 1 .. Len(reported) : <<batch, k>> \in Learned(last.weights)
    BY <2>1 DEF ResultsFollow
  <2> HIDE DEF i
  <2>4. \A k \in 1 .. i : <<batch, k>> \in Learned(last.weights)
    BY <2>1, <2>2, <2>3
  <2>5. returned' \X (1 .. GroupsPerBatch) \subseteq Learned(last.weights)
    <3>1. returned \X (1 .. GroupsPerBatch) \subseteq Learned(last.weights)
      BY DEF ResultsFollow
    <3>2. CASE i = GroupsPerBatch
      BY <2>1, <2>4, <3>1, <3>2
    <3>3. CASE i # GroupsPerBatch
      BY <2>1, <3>1, <3>3
    <3>4. QED
      BY <3>2, <3>3
  <2>6. QED
    BY <2>1, <2>4, <2>5 DEF ResultsFollow
<1>2. ASSUME NEW r \in Ranks, RankApplies(r)
      PROVE  ResultsFollow'
  <2>1. /\ Others(r) /\ UNCHANGED <<pc, batch, reported, returned>>
        /\ rank[r].got \in Groups /\ rank[r].next \in Steps
        /\ rank'[r].weights = Append(rank[r].weights, rank[r].got)
        /\ rank'[r].next = rank[r].next + 1
        /\ r = LastRank => result' = [result EXCEPT ![rank[r].next] = rank[r].got]
        /\ r # LastRank => result' = result
    BY <1>2, ApplyChanges DEF progress
  <2>2. CASE r # LastRank
    BY <2>1, <2>2, LastIsRank DEF ResultsFollow, Others
  <2>3. CASE r = LastRank
    <3> DEFINE w == last.weights
               n == last.next
               g == last.got
    <3>1. /\ w \in Weights /\ g \in Groups /\ n \in Steps /\ n \in Nat /\ Len(w) = n - 1
          /\ rank'[LastRank].weights = Append(w, g) /\ rank'[LastRank].next = n + 1
          /\ result' = [result EXCEPT ![n] = g]
      BY <2>1, <2>3, Numbers, LastIsRank DEF TypeOK, RanksTyped, RanksFollow
    <3>2. /\ \A s \in Steps : result[s] # NoGroup => s < n /\ result[s] = w[s]
          /\ returned \X (1 .. GroupsPerBatch) \subseteq Learned(w)
          /\ pc = "waiting" => \A i \in 1 .. Len(reported) : <<batch, i>> \in Learned(w)
      BY DEF ResultsFollow
    <3> HIDE DEF w, n, g
    <3>3. /\ \A k \in 1 .. n - 1 : Append(w, g)[k] = w[k]
          /\ Append(w, g)[n] = g
      <4>1. Len(w) + 1 = n
        BY <3>1
      <4>2. QED
        BY <3>1, <4>1, OneMoreGroup
    <3>4. ASSUME NEW s \in Steps, result'[s] # NoGroup
          PROVE  s < n + 1 /\ result'[s] = Append(w, g)[s]
      <4>1. CASE s = n
        BY <3>1, <3>3, <4>1 DEF TypeOK, FilesTyped
      <4>2. CASE s # n
        <5>1. result'[s] = result[s]
          BY <3>1, <4>2 DEF TypeOK, FilesTyped
        <5>2. s < n /\ result[s] = w[s] /\ s \in 1 .. n - 1
          <6>1. s < n /\ result[s] = w[s]
            BY <3>2, <3>4, <5>1
          <6>2. QED
            BY <3>1, <6>1, Numbers
        <5>3. QED
          BY <3>1, <3>3, <5>1, <5>2, Numbers
      <4>3. QED
        BY <4>1, <4>2
    <3>5. Learned(w) \subseteq Learned(Append(w, g))
      BY <3>1, LearnedGrows
    <3>6. QED
      BY <2>1, <3>1, <3>2, <3>4, <3>5 DEF ResultsFollow
  <2>4. QED
    BY <2>2, <2>3
<1>3. ASSUME NEW r \in Ranks, RankReads(r) \/ RankExports(r)
      PROVE  ResultsFollow'
  <2>1. /\ Others(r) /\ rank'[r].weights = rank[r].weights /\ rank'[r].next = rank[r].next
        /\ UNCHANGED <<pc, batch, reported, returned, result>>
    BY <1>3, ReadChanges, ExportChanges DEF progress, files
  <2>2. rank'[LastRank].weights = last.weights /\ rank'[LastRank].next = last.next
    BY <2>1, LastIsRank DEF Others
  <2>3. QED
    BY <2>1, <2>2 DEF ResultsFollow
<1>4. CASE CopyStep
  <2>1. /\ UNCHANGED <<rank, result, returned, reported>>
        /\ reported = << >>
    BY <1>4, CopyChanges DEF CountersFit
  <2>2. Len(reported') = 0
    BY <2>1
  <2>3. QED
    BY <2>1, <2>2 DEF ResultsFollow
<1>5. CASE UNCHANGED <<rank, result, returned>> /\ pc' # "waiting"
  BY <1>5 DEF ResultsFollow
<1>6. CASE UNCHANGED <<rank, result, returned, reported, batch, pc>>
  BY <1>6 DEF ResultsFollow
<1>7. \/ ReadResult \/ CopyStep
      \/ \E r \in Ranks : RankReads(r) \/ RankApplies(r) \/ RankExports(r)
      \/ UNCHANGED <<rank, result, returned>> /\ pc' # "waiting"
      \/ UNCHANGED <<rank, result, returned, reported, batch, pc>>
  BY DEF Next, vars, progress, files, Shutdown, InitializePolicy, Train, Returns, TakeStep, CopyRequest, NextMachine,
         ExportDone, Shuttle, RejectGroup, Raise, CopyFails, WaitTimesOut,
         ExportPolicy, ExportFails, Checkpoint, CheckpointStep, CopyCheckpoint, CopyCheckpointFails,
         NoCheckpointFound, RankStep, RankMerges, Finished
<1>8. QED
  BY <1>1, <1>2, <1>3, <1>4, <1>5, <1>6, <1>7

LEMMA ReturnedIsDoneStep ==
    ASSUME Here, [Next]_vars, pc # "down", pc' # "down"
    PROVE  ReturnedIsDone'
<1> USE HandoffAssumption DEF Here, RunAgrees
<1> DEFINE last == rank[LastRank]
<1>1. CASE ReadResult
  <2> DEFINE i == Len(reported) + 1
  <2>1. /\ pc = "waiting" /\ i \in 1 .. GroupsPerBatch
        /\ i = GroupsPerBatch =>
             pc' = "idle" /\ returned' = returned \cup {batch} /\ nextStep - 1 < last.next
        /\ i # GroupsPerBatch => pc' = pc /\ UNCHANGED returned
        /\ UNCHANGED <<batch, nextStep, rank, exported>>
    BY <1>1, ResultRead DEF outcome
  <2> HIDE DEF i
  <2>2. CASE i = GroupsPerBatch
    <3>1. batch \notin returned /\ batch \in 1 .. batch /\ returned \subseteq 1 .. batch
      <4>1. batch \notin returned /\ returned \subseteq 1 .. batch /\ version < batch
        BY <2>1 DEF ReturnedIsDone, InTrain, CountersFit
      <4>2. version \in Nat /\ batch \in Nat
        BY DEF TypeOK, ProgressTyped
      <4>3. QED
        BY <4>1, <4>2
    <3>2. last.next = nextStep
      BY <2>1, <2>2, NextIsFree, LastIsRank, Numbers
    <3>3. exported'.of # returned'
      BY <2>1, <2>2, <3>1
    <3>4. QED
      BY <2>1, <2>2, <3>1, <3>2, <3>3 DEF ReturnedIsDone, InTrain, InExport
  <2>3. CASE i # GroupsPerBatch
    BY <2>1, <2>3 DEF ReturnedIsDone, InTrain, InExport, AllAt
  <2>4. QED
    BY <2>2, <2>3
<1>2. ASSUME NEW r \in Ranks, RankApplies(r)
      PROVE  ReturnedIsDone'
  <2>1. /\ Others(r) /\ UNCHANGED <<pc, batch, nextStep, returned, exported>>
        /\ rank[r].got # NoGroup /\ rank[r].next \in Steps
    BY <1>2, ApplyChanges, GroupsArePairs DEF progress, outcome
  <2>2. rank[r].next < nextStep
    BY <2>1, NextIsFree
  <2>3. rank[r].next # nextStep
    BY <2>2, Numbers
  <2>4. batch \in returned => rank'[LastRank] = last /\ exported.of # returned
    BY <2>1, <2>3, LastIsRank DEF ReturnedIsDone, AllAt, Others
  <2>5. QED
    BY <2>1, <2>4 DEF ReturnedIsDone, InTrain, InExport
<1>3. ASSUME NEW r \in Ranks, RankReads(r) \/ RankExports(r)
      PROVE  ReturnedIsDone'
  <2>1. /\ Others(r) /\ rank'[r].next = rank[r].next
        /\ UNCHANGED <<pc, batch, nextStep, returned, exported>>
    BY <1>3, ReadChanges, ExportChanges DEF progress, outcome
  <2>2. \A q \in Ranks : rank'[q].next = rank[q].next
    BY <2>1 DEF Others
  <2>3. QED
    BY <2>1, <2>2, LastIsRank DEF ReturnedIsDone, InTrain, InExport, AllAt
<1>4. CASE Train
  <2>1. pc' = "grouping" /\ batch' = batch + 1 /\ returned' = returned
    BY <1>4 DEF Train
  <2>2. batch + 1 \notin returned /\ returned \subseteq 1 .. batch + 1
    BY Numbers DEF ReturnedIsDone
  <2>3. QED
    BY <2>1, <2>2 DEF ReturnedIsDone, InTrain, InExport
<1>5. CASE ExportDone
  <2>1. /\ pc = "exporting" /\ pc' = "idle" /\ done[exportId] # {}
        /\ UNCHANGED <<batch, nextStep, returned, rank>>
    BY <1>5 DEF ExportDone, progress
  <2>2. AllAt(nextStep)
    BY <2>1 DEF ExportsAreCurrent, InExport
  <2>3. QED
    BY <2>1, <2>2 DEF ReturnedIsDone, InTrain, InExport, AllAt
<1>6. CASE TakeStep
  BY <1>6 DEF TakeStep, outcome, ReturnedIsDone, InTrain, InExport
<1>7. CASE UNCHANGED <<returned, batch, rank, exported, nextStep>> /\ (InTrain' => InTrain)
           /\ (InExport' => InExport \/ batch \in returned)
  BY <1>7 DEF ReturnedIsDone, AllAt
<1>8. \/ ReadResult \/ Train \/ ExportDone \/ TakeStep
      \/ \E r \in Ranks : RankReads(r) \/ RankApplies(r) \/ RankExports(r)
      \/ UNCHANGED <<returned, batch, rank, exported, nextStep>> /\ (InTrain' => InTrain)
         /\ (InExport' => InExport \/ batch \in returned)
  BY DEF Next, vars, progress, files, outcome, Shutdown, InitializePolicy, Returns, CopyStep, CopyRequest,
         NextMachine,
         Shuttle, RejectGroup, Raise, NumberIsFree, CopyFails, WaitTimesOut, Onward,
         ExportPolicy, MayExport, ExportFails, Checkpoint, CheckpointStep, CopyCheckpoint, CopyCheckpointFails,
         NoCheckpointFound, RankStep, RankMerges, Finished, InTrain, InExport
<1>9. QED
  BY <1>1, <1>2, <1>3, <1>4, <1>5, <1>6, <1>7, <1>8

(* Ranks have learned the same in the steps both have passed.              *)
LEMMA SameGroups ==
    ASSUME TypeOK, StepFilesInOrder, RanksFollow,
           NEW q \in Ranks, NEW r \in Ranks, NEW k \in 1 .. rank[q].next - 1, k \in 1 .. rank[r].next - 1
    PROVE  rank[q].weights[k] = rank[r].weights[k]
<1>1. MachineOf[q] \in Machines /\ MachineOf[r] \in Machines
  BY HandoffAssumption
<1>2. k \in Steps
  <2>1. rank[q].next \in 1 .. MaxTrains * GroupsPerBatch + 1 /\ MaxTrains * GroupsPerBatch \in Nat
    BY HandoffAssumption DEF TypeOK, RanksTyped
  <2>2. QED
    BY <2>1 DEF Steps
<1>3. /\ rank[q].weights[k] # NoGroup /\ rank[q].weights[k] = stepFile[MachineOf[q]][k]
      /\ rank[r].weights[k] # NoGroup /\ rank[r].weights[k] = stepFile[MachineOf[r]][k]
  BY DEF RanksFollow
<1>4. QED
  BY <1>1, <1>2, <1>3 DEF StepFilesInOrder

(* Two ranks that are at the same step have learned the same.              *)
LEMMA SameStepSameWeights ==
    ASSUME TypeOK, StepFilesInOrder, RanksFollow,
           NEW q \in Ranks, NEW r \in Ranks, rank[q].next = rank[r].next
    PROVE  rank[q].weights = rank[r].weights
<1> DEFINE v == rank[q].weights
           w == rank[r].weights
<1>1. /\ v \in Seq(Groups) /\ w \in Seq(Groups)
      /\ Len(v) = rank[r].next - 1 /\ Len(w) = rank[r].next - 1
  BY DEF TypeOK, RanksTyped, RanksFollow, Weights
<1>2. \A k \in 1 .. Len(v) : v[k] = w[k]
  BY <1>1, SameGroups
<1>3. QED
  <2> HIDE DEF v, w
  <2>1. v = w
    BY <1>1, <1>2, SeqEqual
  <2>2. QED
    BY <2>1 DEF v, w

(* No rank is more than one update behind the last.                        *)
LEMMA LastOrOneBefore ==
    ASSUME TypeOK, StepFilesInOrder, RanksFollow, Pipelined, NEW r \in Ranks
    PROVE  \/ rank[r].weights = rank[LastRank].weights
           \/ OneUpdateBehind(rank[r].weights, rank[LastRank].weights)
<1> DEFINE u == rank[r].weights
           w == rank[LastRank].weights
           n == rank[r].next
<1>1. LastRank \in Ranks /\ n \in Nat \ {0}
  BY LastIsRank, Numbers
<1>2. CASE rank[LastRank].next = n
  BY <1>1, <1>2, SameStepSameWeights
<1>3. CASE rank[LastRank].next # n
  <2>1. rank[LastRank].next = n + 1
    <3>1. r = LastRank \/ r < LastRank
      BY HandoffAssumption DEF Ranks, LastRank
    <3>2. QED
      BY <1>1, <1>3, <3>1 DEF Pipelined
  <2>2. /\ u \in Seq(Groups) /\ w \in Seq(Groups)
        /\ Len(u) = n - 1 /\ Len(w) = n
    BY <1>1, <2>1 DEF TypeOK, RanksTyped, RanksFollow, Weights
  <2>3. \A k \in 1 .. n - 1 : u[k] = w[k]
    BY <1>1, <2>1, SameGroups
  <2> HIDE DEF u, w, n
  <2>4. w[n] \in Groups
    BY <1>1, <2>2, ElementOfSeq
  <2> DEFINE v == Append(u, w[n])
  <2>5. v \in Seq(Groups) /\ Len(v) = n /\ v[n] = w[n] /\ \A k \in 1 .. n - 1 : v[k] = u[k]
    BY <1>1, <2>2, <2>4, AppendProperties
  <2>6. \A k \in 1 .. Len(v) : v[k] = w[k]
    <3> HIDE DEF v
    <3>1. QED
      BY <1>1, <2>3, <2>5
  <2>7. v = w
    <3> HIDE DEF v
    <3>1. QED
      BY <2>2, <2>5, <2>6, SeqEqual
  <2>8. u # w
    BY <1>1, <2>2
  <2>9. OneUpdateBehind(u, w)
    BY <2>4, <2>7, <2>8 DEF OneUpdateBehind
  <2>10. QED
    BY <2>9 DEF u, w
<1>4. QED
  BY <1>2, <1>3

LEMMA ExportsStep ==
    ASSUME Here, [Next]_vars, pc # "down", pc' # "down"
    PROVE  ExportsAreCurrent'
<1> USE HandoffAssumption DEF Here, RunAgrees
<1> DEFINE last == rank[LastRank]
<1>1. CASE ExportPolicy
  <2>1. /\ exportId' = exportId + 1 /\ exportId' \in ExportIds /\ exportId \in Nat
        /\ UNCHANGED <<nextStep, rank, shard, done, request>>
    BY <1>1 DEF ExportPolicy, files, TypeOK, ProgressTyped, ExportIds
  <2>2. /\ \A i \in ExportIds : i > exportId' => i > exportId
        /\ exportId' > exportId
        /\ \A m \in Machines : request[m] \in Nat
        /\ \A r \in Ranks : rank[r].served \in Nat
    BY <2>1 DEF ExportIds, TypeOK, FilesTyped, RanksTyped
  <2>3. done[exportId'] = {} /\ \A m \in Machines : \A r \in Ranks : shard[m][<<r, exportId'>>] = NoShard
    BY <2>1, <2>2 DEF ExportsAreCurrent
  <2>4. /\ \A m \in Machines : request[m] <= exportId'
        /\ \A r \in Ranks : rank[r].served <= exportId'
    BY <2>1, <2>2 DEF ExportsAreCurrent
  <2>5. QED
    BY <2>1, <2>2, <2>3, <2>4 DEF ExportsAreCurrent
<1>2. CASE CopyRequest
  <2>1. /\ InExport /\ exportId \in Nat
        /\ request' = [request EXCEPT ![copied + 1] = exportId]
        /\ UNCHANGED <<nextStep, rank, shard, done, exportId>>
    BY <1>2 DEF CopyRequest, InExport, TypeOK, ProgressTyped
  <2>2. \A m \in Machines : request'[m] <= exportId
    BY <2>1 DEF ExportsAreCurrent, TypeOK, FilesTyped
  <2>3. QED
    BY <2>1, <2>2 DEF ExportsAreCurrent, AllAt
<1>3. ASSUME NEW r \in Ranks, Shuttle(r)
      PROVE  ExportsAreCurrent'
  <2> DEFINE A == Ranks \X ExportIds
             C == Weights \cup {NoShard}
             x == <<r, exportId>>
             w == shard[MachineOf[r]][<<r, exportId>>]
  <2>1. InExport /\ exportId \in ExportIds /\ MachineOf[r] \in Machines /\ Primary \in Machines
    <3>1. InExport /\ exportId \in ExportIds
      BY <1>3 DEF Shuttle, TypeOK, ProgressTyped, CountersFit, InExport, ExportIds
    <3>2. MachineOf[r] \in Machines /\ Primary \in Machines
      BY DEF Primary, Machines
    <3>3. QED
      BY <3>1, <3>2
  <2>2. /\ shard \in [Machines -> [A -> C]] /\ x \in A /\ w \in C /\ w # NoShard
        /\ shard' = [shard EXCEPT ![Primary][x] = w]
    BY <1>3, <2>1 DEF Shuttle, ToCarry, TypeOK, FilesTyped, HeldOn
  <2>3. /\ shard'[Primary][x] = w
        /\ \A m \in Machines : \A y \in A : m # Primary \/ y # x => shard'[m][y] = shard[m][y]
    <3> HIDE DEF A, C, x, w
    <3>1. QED
      BY <2>1, <2>2, TableUpdate
  <2>4. UNCHANGED <<nextStep, rank, request, done, exportId>>
    BY <1>3 DEF Shuttle, progress
  <2>5. w = rank[r].weights /\ rank[r].next = nextStep
    BY <2>1, <2>2 DEF ExportsAreCurrent
  <2>6. \A i \in ExportIds : i > exportId => \A m \in Machines : \A q \in Ranks : shard'[m][<<q, i>>] = NoShard
    <3>1. ASSUME NEW i \in ExportIds, i > exportId, NEW m \in Machines, NEW q \in Ranks
          PROVE  shard'[m][<<q, i>>] = NoShard
      <4>1. <<q, i>> \in A /\ <<q, i>> # x
        BY <2>1, <3>1 DEF ExportIds
      <4>2. shard'[m][<<q, i>>] = shard[m][<<q, i>>]
        <5> HIDE DEF A, x, w
        <5>1. QED
          BY <2>3, <4>1
      <4>3. QED
        BY <3>1, <4>2 DEF ExportsAreCurrent
    <3>2. QED
      BY <3>1
  <2>7. \A m \in Machines : \A q \in Ranks : shard'[m][<<q, exportId>>] # NoShard =>
              rank[q].next = nextStep /\ shard'[m][<<q, exportId>>] = rank[q].weights
    <3>1. ASSUME NEW m \in Machines, NEW q \in Ranks, shard'[m][<<q, exportId>>] # NoShard
          PROVE  rank[q].next = nextStep /\ shard'[m][<<q, exportId>>] = rank[q].weights
      <4>1. CASE m = Primary /\ q = r
        BY <2>3, <2>5, <4>1
      <4>2. CASE m # Primary \/ q # r
        <5>1. <<q, exportId>> \in A /\ (m # Primary \/ <<q, exportId>> # x)
          BY <2>1, <4>2
        <5>2. shard'[m][<<q, exportId>>] = shard[m][<<q, exportId>>]
          <6> HIDE DEF A, x, w
          <6>1. QED
            BY <2>3, <5>1
        <5>3. QED
          BY <2>1, <3>1, <5>2 DEF ExportsAreCurrent
      <4>3. QED
        BY <4>1, <4>2
    <3>2. QED
      BY <3>1
  <2>8. QED
    BY <2>1, <2>4, <2>6, <2>7 DEF ExportsAreCurrent, AllAt
<1>4. ASSUME NEW r \in Ranks, RankExports(r)
      PROVE  ExportsAreCurrent'
  <2> DEFINE i == request[MachineOf[r]]
  <2>1. /\ i \in ExportIds /\ rank[r].got = NoGroup
        /\ rank'[r].next = rank[r].next /\ rank'[r].weights = rank[r].weights /\ rank'[r].served = i
        /\ Others(r)
        /\ shard'[MachineOf[r]][<<r, i>>] = rank[r].weights
        /\ \A m \in Machines : \A q \in Ranks : \A j \in ExportIds :
             m # MachineOf[r] \/ q # r \/ j # i => shard'[m][<<q, j>>] = shard[m][<<q, j>>]
        /\ UNCHANGED <<pc, nextStep, exportId, request, done>>
    BY <1>4, ExportChanges DEF progress
  <2>2. i <= exportId /\ exportId \in Nat /\ i \in Nat
    BY <2>1, HandoffAssumption DEF ExportsAreCurrent, TypeOK, ProgressTyped, ExportIds
  <2>3. \A q \in Ranks : /\ rank'[q].next = rank[q].next /\ rank'[q].weights = rank[q].weights
                         /\ rank'[q].served <= exportId
    BY <2>1, <2>2 DEF Others, ExportsAreCurrent
  <2> HIDE DEF i
  <2>4. \A j \in ExportIds : j > exportId => \A m \in Machines : \A q \in Ranks : shard'[m][<<q, j>>] = NoShard
    BY <2>1, <2>2 DEF ExportsAreCurrent, ExportIds
  <2>5. InExport => rank[r].next = nextStep
    <3>1. InExport => rank[LastRank].next = nextStep
      BY DEF ReturnedIsDone
    <3>2. r = LastRank \/ r < LastRank
      BY DEF Ranks, LastRank
    <3>3. rank[LastRank].next = rank[r].next
      BY <2>1, <3>2, LastIsRank DEF Pipelined
    <3>4. QED
      BY <3>1, <3>3
  <2>6. InExport => exportId \in ExportIds
    BY DEF CountersFit, TypeOK, ProgressTyped, ExportIds
  <2>7. ASSUME InExport, NEW m \in Machines, NEW q \in Ranks, shard'[m][<<q, exportId>>] # NoShard
        PROVE  rank[q].next = nextStep /\ shard'[m][<<q, exportId>>] = rank[q].weights
    <3>1. CASE m = MachineOf[r] /\ q = r /\ exportId = i
      BY <2>1, <2>5, <2>7, <3>1
    <3>2. CASE m # MachineOf[r] \/ q # r \/ exportId # i
      BY <2>1, <2>6, <2>7, <3>2 DEF ExportsAreCurrent
    <3>3. QED
      BY <3>1, <3>2
  <2>8. QED
    BY <2>1, <2>3, <2>4, <2>7, LastIsRank DEF ExportsAreCurrent, AllAt, InExport
<1>5. ASSUME NEW r \in Ranks, RankApplies(r)
      PROVE  ExportsAreCurrent'
  <2>1. /\ Others(r) /\ rank'[r].served = rank[r].served
        /\ rank[r].got # NoGroup /\ rank[r].next \in Steps
        /\ UNCHANGED <<pc, nextStep, exportId, request, done, shard>>
    BY <1>5, ApplyChanges, GroupsArePairs DEF progress
  <2>2. rank[r].next < nextStep /\ rank[r].next # nextStep
    BY <2>1, NextIsFree, Numbers
  <2>3. InExport => r # LastRank
    BY <2>2 DEF ReturnedIsDone
  <2>4. InExport =>
          /\ done[exportId] = {}
          /\ \A m \in Machines : shard[m][<<r, exportId>>] = NoShard
    BY <2>2 DEF ExportsAreCurrent, AllAt
  <2>5. \A q \in Ranks : rank'[q].served = rank[q].served
    BY <2>1 DEF Others
  <2>6. QED
    BY <2>1, <2>4, <2>5 DEF ExportsAreCurrent, Others, InExport
<1>6. ASSUME NEW r \in Ranks, RankReads(r)
      PROVE  ExportsAreCurrent'
  <2>1. /\ Others(r) /\ rank'[r].served = rank[r].served
        /\ rank'[r].next = rank[r].next /\ rank'[r].weights = rank[r].weights
        /\ UNCHANGED <<pc, nextStep, exportId, request, done, shard>>
    BY <1>6, ReadChanges DEF progress, files
  <2>2. \A q \in Ranks : /\ rank'[q].served = rank[q].served
                         /\ rank'[q].next = rank[q].next /\ rank'[q].weights = rank[q].weights
    BY <2>1 DEF Others
  <2>3. QED
    BY <2>1, <2>2, LastIsRank DEF ExportsAreCurrent, InExport, AllAt
<1>7. CASE RankMerges
  <2> DEFINE i == rank[1].served
             merged == {shard[Primary][<<r, i>>] : r \in Ranks}
  <2>1. /\ 1 \in Ranks /\ Primary \in Machines /\ i \in Nat /\ i # 0 /\ i <= exportId /\ exportId \in Nat
    BY <1>7 DEF RankMerges, Merging, Ranks, Machines, Primary, TypeOK, RanksTyped, ProgressTyped, ExportsAreCurrent
  <2>2. /\ done' = [done EXCEPT ![i] = merged] /\ \A r \in Ranks : shard[Primary][<<r, i>>] # NoShard
        /\ UNCHANGED <<pc, nextStep, exportId, request, shard, rank>>
    BY <1>7 DEF RankMerges, progress
  <2>3. InExport /\ i = exportId => merged = {last.weights} /\ AllAt(nextStep)
    <3>1. SUFFICES ASSUME InExport, i = exportId
                   PROVE  merged = {last.weights} /\ AllAt(nextStep)
      OBVIOUS
    <3>2. \A r \in Ranks : rank[r].next = nextStep /\ shard[Primary][<<r, i>>] = rank[r].weights
      BY <2>1, <2>2, <3>1 DEF ExportsAreCurrent
    <3>3. \A r \in Ranks : rank[r].weights = last.weights
      BY <3>2, LastIsRank, SameStepSameWeights
    <3>4. \A r \in Ranks : shard[Primary][<<r, i>>] = last.weights
      BY <3>2, <3>3
    <3>5. QED
      BY <3>2, <3>4, LastIsRank DEF AllAt
  <2> HIDE DEF i, merged
  <2>4. \A j \in ExportIds : j # i => done'[j] = done[j]
    BY <2>2 DEF TypeOK, FilesTyped
  <2>5. i = exportId /\ InExport => done'[exportId] = merged
    BY <2>1, <2>2 DEF TypeOK, FilesTyped, ProgressTyped, ExportIds
  <2>6. InExport => exportId \in ExportIds
    BY DEF CountersFit, TypeOK, ProgressTyped, ExportIds
  <2>7. \A j \in ExportIds : j > exportId => done'[j] = {}
    BY <2>1, <2>4 DEF ExportsAreCurrent, ExportIds
  <2>8. InExport /\ done'[exportId] # {} => done'[exportId] = {last.weights} /\ AllAt(nextStep)
    BY <2>3, <2>4, <2>5, <2>6 DEF ExportsAreCurrent
  <2>9. QED
    BY <2>2, <2>7, <2>8 DEF ExportsAreCurrent, AllAt, InExport
<1>8. CASE UNCHANGED <<exportId, done, shard, request, rank, nextStep>> /\ (InExport' => InExport)
  BY <1>8 DEF ExportsAreCurrent, AllAt
<1>9. CASE UNCHANGED <<exportId, done, shard, request, rank>> /\ ~ InExport'
  BY <1>9 DEF ExportsAreCurrent
<1>10. \/ ExportPolicy \/ CopyRequest \/ RankMerges
       \/ \E r \in Ranks : Shuttle(r) \/ RankReads(r) \/ RankApplies(r) \/ RankExports(r)
       \/ UNCHANGED <<exportId, done, shard, request, rank, nextStep>> /\ (InExport' => InExport)
       \/ UNCHANGED <<exportId, done, shard, request, rank>> /\ ~ InExport'
  BY DEF Next, vars, progress, files, Shutdown, InitializePolicy, Train, Returns, TakeStep, CopyStep, NextMachine,
         ReadResult, ExportDone, RejectGroup, Raise, CopyFails, WaitTimesOut,
         ExportFails, Checkpoint, CheckpointStep, CopyCheckpoint, CopyCheckpointFails, NoCheckpointFound, RankStep,
         Finished, InExport
<1>11. QED
  BY <1>1, <1>2, <1>3, <1>4, <1>5, <1>6, <1>7, <1>8, <1>9, <1>10

LEMMA CheckpointFollowsStep ==
    ASSUME Here, [Next]_vars, pc # "down", pc' # "down"
    PROVE  CheckpointFollows'
<1> USE HandoffAssumption DEF Here, RunAgrees
<1> DEFINE w == rank[LastRank].weights
           Kept(part, settled) == part = w \/ (~settled /\ OneUpdateBehind(part, w))
<1>1. CASE Checkpoint
  <2>1. /\ saved'.of = (IF batch \in returned THEN returned ELSE {})
        /\ saved'.settled = (exported.of = returned) /\ saved'.parts = << >>
        /\ UNCHANGED <<batch, returned, nextStep, rank>>
    BY <1>1 DEF Checkpoint, progress
  <2>2. batch \in returned /\ exported.of = returned => AllAt(nextStep)
    BY DEF ReturnedIsDone
  <2>3. 1 .. Len(saved'.parts) = {}
    BY <2>1
  <2>4. CASE batch \in returned
    BY <2>1, <2>2, <2>3, <2>4 DEF CheckpointFollows, AllAt
  <2>5. CASE batch \notin returned
    BY <2>1, <2>5 DEF CheckpointFollows
  <2>6. QED
    BY <2>4, <2>5
<1>2. CASE CopyCheckpoint
  <2> DEFINE n == NextToSave
  <2>1. /\ n \in Ranks /\ Len(saved'.parts) = n /\ Len(saved.parts) \in Nat
        /\ \A q \in 1 .. Len(saved.parts) : saved'.parts[q] = saved.parts[q]
        /\ saved'.parts[n] = rank[n].weights
        /\ saved'.of = saved.of /\ saved'.settled = saved.settled
        /\ UNCHANGED <<batch, returned, nextStep, rank>>
        /\ pc = "checkpointing"
    BY <1>2, SavedChanges DEF progress, CopyCheckpoint
  <2>2. CASE saved.of # {}
    <3>1. /\ saved.of = returned /\ batch \in returned
          /\ saved.settled => AllAt(nextStep)
          /\ \A q \in 1 .. Len(saved.parts) : Kept(saved.parts[q], saved.settled)
      BY <2>1, <2>2 DEF CheckpointFollows
    <3>2. rank[n].weights = w \/ OneUpdateBehind(rank[n].weights, w)
      BY <2>1, LastOrOneBefore
    <3>3. saved.settled => rank[n].weights = w
      BY <2>1, <3>1, LastIsRank, SameStepSameWeights DEF AllAt
    <3>4. Kept(saved'.parts[n], saved.settled)
      BY <2>1, <3>2, <3>3
    <3> HIDE DEF Kept
    <3>5. \A q \in 1 .. n : q = n \/ q \in 1 .. Len(saved.parts)
      BY <2>1 DEF NextToSave
    <3>6. \A q \in 1 .. n : Kept(saved'.parts[q], saved.settled)
      BY <2>1, <3>1, <3>4, <3>5
    <3>7. QED
      BY <2>1, <3>1, <3>6 DEF CheckpointFollows, AllAt, Kept
  <2>3. CASE saved.of = {}
    BY <2>1, <2>3 DEF CheckpointFollows
  <2>4. QED
    BY <2>2, <2>3
<1>3. ASSUME NEW r \in Ranks, RankApplies(r)
      PROVE  CheckpointFollows'
  <2>1. /\ Others(r) /\ rank[r].got # NoGroup /\ rank[r].next \in Steps
        /\ UNCHANGED <<pc, batch, returned, nextStep, saved>>
    BY <1>3, ApplyChanges, GroupsArePairs DEF progress, outcome
  <2>2. rank[r].next # nextStep
    BY <2>1, NextIsFree, Numbers
  <2>3. CASE pc = "checkpointing" /\ saved.of # {}
    <3>1. /\ saved.of = returned /\ batch \in returned /\ ~ saved.settled
          /\ \A q \in 1 .. Len(saved.parts) : Kept(saved.parts[q], saved.settled)
      BY <2>2, <2>3 DEF CheckpointFollows, AllAt
    <3>2. rank'[LastRank] = rank[LastRank]
      BY <2>1, <2>2, <3>1, LastIsRank DEF ReturnedIsDone, Others
    <3>3. QED
      BY <2>1, <3>1, <3>2 DEF CheckpointFollows
  <2>4. CASE ~ (pc = "checkpointing" /\ saved.of # {})
    BY <2>1, <2>4 DEF CheckpointFollows
  <2>5. QED
    BY <2>3, <2>4
<1>4. ASSUME NEW r \in Ranks, RankReads(r) \/ RankExports(r)
      PROVE  CheckpointFollows'
  <2>1. /\ Others(r) /\ rank'[r].next = rank[r].next /\ rank'[r].weights = rank[r].weights
        /\ UNCHANGED <<pc, batch, returned, nextStep, saved>>
    BY <1>4, ReadChanges, ExportChanges DEF progress, outcome
  <2>2. \A q \in Ranks : rank'[q].next = rank[q].next /\ rank'[q].weights = rank[q].weights
    BY <2>1 DEF Others
  <2>3. QED
    BY <2>1, <2>2, LastIsRank DEF CheckpointFollows, AllAt
<1>5. CASE UNCHANGED <<pc, batch, returned, nextStep, saved, rank>>
  BY <1>5 DEF CheckpointFollows, AllAt
<1>6. CASE pc' # "checkpointing"
  BY <1>6 DEF CheckpointFollows
<1>7. \/ Checkpoint \/ CopyCheckpoint
      \/ \E r \in Ranks : RankReads(r) \/ RankApplies(r) \/ RankExports(r)
      \/ UNCHANGED <<pc, batch, returned, nextStep, saved, rank>>
      \/ pc' # "checkpointing"
  BY DEF Next, vars, progress, outcome, Shutdown, InitializePolicy, Train, Returns, TakeStep, CopyStep, NextMachine,
         ReadResult, CopyRequest, ExportDone, Shuttle, RejectGroup, Raise, CopyFails, WaitTimesOut, ExportPolicy,
         ExportFails, CheckpointStep, CopyCheckpointFails, NoCheckpointFound, RankStep, RankMerges, Finished
<1>8. QED
  BY <1>1, <1>2, <1>3, <1>4, <1>5, <1>6, <1>7

(* A program that starts finds nothing, and its ranks know nothing.        *)
LEMMA ProgramStarts ==
    ASSUME TypeOK, NothingYet, InitializePolicy
    PROVE  RunAgrees' /\ exported'.of \subseteq returned'
<1> USE HandoffAssumption
<1>1. /\ pc' = "idle" /\ nextStep' = 1 /\ exportId' = 0 /\ returned' = {}
      /\ reported' = << >> /\ steps' = << >>
      /\ \A r \in Ranks : rank'[r] = Fresh
      /\ exported' = Nothing
      /\ UNCHANGED <<stepFile, result, request, shard, done>>
  BY DEF InitializePolicy, StartRanks, files, outcome, NothingYet
<1>2. /\ \A m \in Machines : \A s \in Steps : stepFile'[m][s] = NoGroup
      /\ \A s \in Steps : result'[s] = NoGroup
      /\ \A m \in Machines : request'[m] = 0
      /\ \A m \in Machines : \A x \in Ranks \X ExportIds : shard'[m][x] = NoShard
      /\ \A i \in ExportIds : done'[i] = {}
  BY <1>1 DEF NothingYet, files, NoFiles
<1>3. \A r \in Ranks : /\ rank'[r].next = 1 /\ rank'[r].got = NoGroup
                       /\ rank'[r].weights = << >> /\ rank'[r].served = 0
  BY <1>1 DEF Fresh
<1>4. StepFilesInOrder'
  BY <1>2 DEF StepFilesInOrder
<1>5. OwnSteps'
  BY <1>1 DEF OwnSteps, InTrain
<1>6. RanksFollow'
  BY <1>3 DEF RanksFollow
<1>7. Pipelined'
  BY <1>3 DEF Pipelined
<1>8. ResultsFollow'
  BY <1>1, <1>2 DEF ResultsFollow
<1>9. ReturnedIsDone'
  BY <1>1 DEF ReturnedIsDone, InTrain, InExport
<1>10. ExportsAreCurrent'
  BY <1>1, <1>2, <1>3 DEF ExportsAreCurrent, InExport
<1>11. CheckpointFollows'
  BY <1>1 DEF CheckpointFollows
<1>12. exported'.of \subseteq returned'
  BY <1>1 DEF Nothing
<1>13. QED
  BY <1>4, <1>5, <1>6, <1>7, <1>8, <1>9, <1>10, <1>11, <1>12 DEF RunAgrees

(* Every step keeps files, ranks and backend in agreement.                 *)
FilesAgree ==
    /\ exported.of \subseteq returned
    /\ pc = "down" => NothingYet
    /\ pc # "down" => RunAgrees

LEMMA HandoffStep ==
    ASSUME FreshStateDir, TypeOK, CountersFit, FilesAgree, [Next]_vars
    PROVE  FilesAgree'
<1> USE DEF FilesAgree
<1>1. CASE pc = "down" /\ pc' = "down"
  <2>1. UNCHANGED vars
    BY <1>1 DEF Next, vars, Shutdown, InitializePolicy, Train, Returns, TakeStep, CopyStep, ReadResult, CopyRequest,
                ExportDone, Shuttle, RejectGroup, CopyFails, WaitTimesOut, ExportPolicy, MayExport, ExportFails,
                Checkpoint, CheckpointStep, CopyCheckpoint, CopyCheckpointFails, NoCheckpointFound, RankStep,
                RankReads, RankApplies, RankExports, RankMerges, Idle, Finished
  <2>2. UNCHANGED <<files, exported, returned, pc>>
    BY <2>1 DEF vars, progress, outcome
  <2>3. NothingYet'
    BY <1>1, <2>2 DEF NothingYet
  <2>4. QED
    BY <1>1, <2>2, <2>3
<1>2. CASE pc = "down" /\ pc' # "down"
  <2>1. InitializePolicy
    BY <1>2 DEF Next, vars, Shutdown, Train, Returns, TakeStep, CopyStep, ReadResult, CopyRequest,
                ExportDone, Shuttle, RejectGroup, CopyFails, WaitTimesOut, ExportPolicy, MayExport, ExportFails,
                Checkpoint, CheckpointStep, CopyCheckpoint, CopyCheckpointFails, NoCheckpointFound, RankStep,
                RankReads, RankApplies, RankExports, RankMerges, Idle, Finished
  <2>2. QED
    BY <1>2, <2>1, ProgramStarts
<1>3. CASE pc # "down" /\ pc' = "down"
  <2>1. Shutdown
    BY <1>3 DEF Next, vars, InitializePolicy, Train, Returns, TakeStep, CopyStep, NextMachine, ReadResult,
                CopyRequest,
                ExportDone, Shuttle, RejectGroup, Raise, CopyFails, WaitTimesOut, ExportPolicy, ExportFails,
                Checkpoint, CheckpointStep, CopyCheckpoint, CopyCheckpointFails, NoCheckpointFound, RankStep,
                RankReads, RankApplies, RankExports, RankMerges, Finished
  <2>2. exported' = Nothing /\ NothingYet'
    BY <2>1 DEF Shutdown, NothingYet, files
  <2>3. QED
    BY <1>3, <2>2 DEF Nothing
<1>4. CASE pc # "down" /\ pc' # "down"
  <2>1. Here
    BY <1>4 DEF Here
  <2>2. RunAgrees'
    BY <1>4, <2>1, StepFilesStep, OwnStepsStep, RanksFollowStep, PipelinedStep, ResultsFollowStep,
       ReturnedIsDoneStep, ExportsStep, CheckpointFollowsStep DEF RunAgrees
  <2>3. exported'.of \subseteq returned'
    <3>1. CASE ExportDone
      BY <3>1 DEF ExportDone, progress
    <3>2. CASE ReadResult
      BY <3>2, <2>1, ResultRead DEF ReadResult, outcome, Here
    <3>3. CASE UNCHANGED <<exported, returned>>
      BY <3>3
    <3>4. ExportDone \/ ReadResult \/ UNCHANGED <<exported, returned>>
      BY <1>4 DEF Next, vars, progress, outcome, Shutdown, InitializePolicy, Train, Returns, TakeStep, CopyStep,
                  CopyRequest, Shuttle, RejectGroup, Raise, CopyFails, WaitTimesOut, ExportPolicy, ExportFails,
                  Checkpoint, CheckpointStep, CopyCheckpoint, CopyCheckpointFails, NoCheckpointFound, RankStep,
                  RankReads, RankApplies, RankExports, RankMerges, Finished
    <3>5. QED
      BY <3>1, <3>2, <3>3, <3>4
  <2>4. QED
    BY <1>4, <2>2, <2>3
<1>5. QED
  BY <1>1, <1>2, <1>3, <1>4

(* With a new state_dir for every program, the file of a step, what the    *)
(* ranks have learned and what train() and the exports have returned agree *)
(* (quic_train_multi.py:246-269, 424-543).                                 *)
THEOREM HandoffCorrect == FreshStateDir => (Spec => []HandoffAgrees)
<1> SUFFICES ASSUME FreshStateDir
             PROVE  Spec => []HandoffAgrees
  OBVIOUS
<1>1. Init => FilesAgree
  BY DEF Init, FilesAgree, NothingYet, files, Nothing
<1>2. TypeOK /\ CountersFit /\ FilesAgree /\ [Next]_vars => FilesAgree'
  BY HandoffStep
<1>3. TypeOK /\ CountersFit /\ FilesAgree => HandoffAgrees
  BY DEF FilesAgree, HandoffAgrees
<1>4. QED
  BY <1>1, <1>2, <1>3, TypesCorrect, PTL DEF Spec

-----------------------------------------------------------------------------
(* What train(), the ranks and the exports promise. *)

(* A result that train() reads is of the group it wrote for that step.     *)
THEOREM ResultsCorrect == FreshStateDir => (Spec => []ResultsAreOwn)
<1> SUFFICES ASSUME FreshStateDir
             PROVE  Spec => []ResultsAreOwn
  OBVIOUS
<1>1. Init => ResultsAreOwn
  BY DEF Init, ResultsAreOwn
<1>2. TypeOK /\ CountersFit /\ HandoffAgrees /\ ResultsAreOwn /\ [Next]_vars => ResultsAreOwn'
  <2> SUFFICES ASSUME TypeOK, CountersFit, HandoffAgrees, ResultsAreOwn, [Next]_vars
               PROVE  ResultsAreOwn'
    OBVIOUS
  <2>1. CASE ReadResult
    <3> DEFINE i == Len(reported) + 1
               g == <<batch, i>>
    <3>1. Here
      BY <2>1 DEF Here, HandoffAgrees, ReadResult
    <3>2. /\ reported \in Seq(Groups) /\ g \in Groups /\ reported' = Append(reported, g) /\ batch' = batch
          /\ Len(reported') = i
      BY <2>1, <3>1, ResultRead
    <3>3. /\ \A k \in 1 .. Len(reported) : reported'[k] = reported[k]
          /\ reported'[i] = g
          /\ DOMAIN reported = 1 .. Len(reported) /\ DOMAIN reported' = 1 .. i
          /\ \A k \in 1 .. i : k = i \/ k \in 1 .. Len(reported)
      <4>1. reported \in Weights /\ Len(reported) \in Nat
        BY <3>2, LenProperties DEF Weights
      <4>2. QED
        BY <3>2, <4>1, OneMoreGroup
    <3>4. \A k \in 1 .. Len(reported) : reported[k] = <<batch, k>>
      BY <3>3 DEF ResultsAreOwn
    <3> HIDE DEF i
    <3>5. \A k \in 1 .. i : reported'[k] = <<batch, k>>
      BY <3>3, <3>4
    <3>6. QED
      BY <3>2, <3>3, <3>5 DEF ResultsAreOwn
  <2>2. CASE UNCHANGED <<reported, batch>>
    BY <2>2 DEF ResultsAreOwn
  <2>3. CASE reported' = << >>
    BY <2>3 DEF ResultsAreOwn
  <2>4. ReadResult \/ UNCHANGED <<reported, batch>> \/ reported' = << >>
    BY DEF Next, vars, progress, Shutdown, InitializePolicy, Train, Returns, TakeStep, CopyStep,
           CopyRequest, ExportDone, Shuttle, RejectGroup, CopyFails, WaitTimesOut, ExportPolicy, ExportFails,
           Checkpoint, CheckpointStep, CopyCheckpoint, CopyCheckpointFails, NoCheckpointFound, RankStep, RankReads,
           RankApplies, RankExports, RankMerges, Finished
  <2>5. QED
    BY <2>1, <2>2, <2>3, <2>4
<1>3. QED
  BY <1>1, <1>2, TypesCorrect, HandoffCorrect, PTL DEF Spec

(* No rank learns a group twice or out of order.                           *)
THEOREM OrderCorrect == FreshStateDir => (Spec => []LearnedInOrder)
<1> SUFFICES ASSUME FreshStateDir
             PROVE  Spec => []LearnedInOrder
  OBVIOUS
<1>1. Init => LearnedInOrder
  BY DEF Init, LearnedInOrder, Fresh
<1>2. TypeOK /\ CountersFit /\ HandoffAgrees /\ LearnedInOrder /\ [Next]_vars => LearnedInOrder'
  <2> SUFFICES ASSUME TypeOK, CountersFit, HandoffAgrees, LearnedInOrder, [Next]_vars
               PROVE  LearnedInOrder'
    OBVIOUS
  <2>1. ASSUME NEW r \in Ranks, RankApplies(r)
        PROVE  LearnedInOrder'
    <3> DEFINE w == rank[r].weights
               g == rank[r].got
               n == rank[r].next
    <3>1. Here
      BY <2>1 DEF Here, HandoffAgrees, RankApplies
    <3>2. /\ Others(r) /\ w \in Weights /\ g \in Groups /\ n \in Steps /\ n \in Nat
          /\ Len(w) = n - 1
          /\ rank'[r].weights = Append(w, g)
          /\ MachineOf[r] \in Machines
      BY <2>1, <3>1, ApplyChanges, Numbers, HandoffAssumption
         DEF Here, RunAgrees, RanksFollow, TypeOK, RanksTyped
    <3>3. \A k \in 1 .. n - 1 : Earlier(w[k], g)
      <4>1. g # NoGroup /\ g = stepFile[MachineOf[r]][n]
        BY <3>1, <3>2, GroupsArePairs DEF Here, RunAgrees, RanksFollow
      <4>2. ASSUME NEW k \in 1 .. n - 1
            PROVE  Earlier(w[k], g)
        <5>1. w[k] # NoGroup /\ w[k] = stepFile[MachineOf[r]][k]
          BY <3>1, <4>2 DEF Here, RunAgrees, RanksFollow
        <5>2. k \in Steps /\ k < n
          BY <3>2, <4>2, HandoffAssumption DEF Steps
        <5>3. QED
          BY <3>1, <3>2, <4>1, <5>1, <5>2 DEF Here, RunAgrees, StepFilesInOrder
      <4>3. QED
        BY <4>2
    <3>4. \A i, j \in DOMAIN w : i < j => Earlier(w[i], w[j])
      BY DEF LearnedInOrder
    <3> HIDE DEF w, g, n
    <3>5. /\ DOMAIN w = 1 .. n - 1 /\ DOMAIN Append(w, g) = 1 .. n
          /\ \A k \in 1 .. n - 1 : Append(w, g)[k] = w[k]
          /\ Append(w, g)[n] = g
      <4>1. Len(w) + 1 = n
        BY <3>2
      <4>2. QED
        BY <3>2, <4>1, OneMoreGroup
    <3>6. ASSUME NEW i \in 1 .. n, NEW j \in 1 .. n, i < j
          PROVE  Earlier(Append(w, g)[i], Append(w, g)[j])
      <4>1. i \in 1 .. n - 1 /\ (j = n \/ j \in 1 .. n - 1)
        BY <3>2, <3>6
      <4>2. QED
        BY <3>3, <3>4, <3>5, <3>6, <4>1
    <3>7. ASSUME NEW q \in Ranks, NEW i \in DOMAIN rank'[q].weights, NEW j \in DOMAIN rank'[q].weights, i < j
          PROVE  Earlier(rank'[q].weights[i], rank'[q].weights[j])
      <4>1. CASE q = r
        BY <3>2, <3>5, <3>6, <3>7, <4>1
      <4>2. CASE q # r
        BY <3>2, <3>7, <4>2 DEF LearnedInOrder, Others
      <4>3. QED
        BY <4>1, <4>2
    <3>8. QED
      BY <3>7 DEF LearnedInOrder
  <2>2. ASSUME NEW r \in Ranks, RankReads(r) \/ RankExports(r)
        PROVE  LearnedInOrder'
    <3>1. Others(r) /\ rank'[r].weights = rank[r].weights
      BY <2>2, ReadChanges, ExportChanges
    <3>2. \A q \in Ranks : rank'[q].weights = rank[q].weights
      BY <3>1 DEF Others
    <3>3. QED
      BY <3>2 DEF LearnedInOrder
  <2>3. CASE StartRanks
    <3>1. \A q \in Ranks : rank'[q].weights = << >>
      BY <2>3 DEF StartRanks, Fresh
    <3>2. QED
      BY <3>1 DEF LearnedInOrder
  <2>4. CASE UNCHANGED rank
    BY <2>4 DEF LearnedInOrder
  <2>5. (\E r \in Ranks : RankReads(r) \/ RankExports(r) \/ RankApplies(r)) \/ StartRanks \/ UNCHANGED rank
    BY DEF Next, vars, Shutdown, InitializePolicy, Train, Returns, TakeStep, CopyStep, ReadResult,
           CopyRequest, ExportDone, Shuttle, RejectGroup, Raise, CopyFails, WaitTimesOut, ExportPolicy, ExportFails,
           Checkpoint, CheckpointStep, CopyCheckpoint, CopyCheckpointFails, NoCheckpointFound, RankStep, RankMerges,
           Finished
  <2>6. QED
    BY <2>1, <2>2, <2>3, <2>4, <2>5
<1>3. QED
  BY <1>1, <1>2, TypesCorrect, HandoffCorrect, PTL DEF Spec

(* What an export that returned has merged is of one step, with every      *)
(* group of every batch that returned.  What a checkpoint has copied rank  *)
(* by rank is so too when an export had returned since the last train();   *)
(* when not, a rank's file may be one update behind the last rank's, which *)
(* has every group of those batches.                                       *)
THEOREM FilesCorrect == FreshStateDir => (Spec => []FilesAreWhole)
<1> SUFFICES ASSUME FreshStateDir
             PROVE  Spec => []FilesAreWhole
  OBVIOUS
<1>1. Init => FilesAreWhole
  BY DEF Init, FilesAreWhole, Nothing, NotSaved
<1>2. TypeOK /\ CountersFit /\ HandoffAgrees /\ FilesAreWhole /\ [Next]_vars => FilesAreWhole'
  <2> SUFFICES ASSUME TypeOK, CountersFit, HandoffAgrees, FilesAreWhole, [Next]_vars
               PROVE  FilesAreWhole'
    OBVIOUS
  <2> DEFINE w == rank[LastRank].weights
  <2>1. CASE ExportDone
    <3>1. pc = "exporting" /\ RunAgrees
      BY <2>1 DEF ExportDone, HandoffAgrees
    <3>2. done[exportId] = {w}
      BY <2>1, <3>1 DEF ExportDone, RunAgrees, ExportsAreCurrent, InExport
    <3>3. returned \X (1 .. GroupsPerBatch) \subseteq Learned(w)
      BY <3>1 DEF RunAgrees, ResultsFollow
    <3>4. exported'.of = returned /\ exported'.parts = {w} /\ saved' = saved
      BY <2>1, <3>2 DEF ExportDone
    <3>5. QED
      BY <3>3, <3>4 DEF FilesAreWhole, Whole
  <2>2. CASE CopyCheckpoint
    <3> DEFINE n == NextToSave
    <3>1. /\ n \in Ranks /\ Len(saved'.parts) = n /\ Len(saved.parts) \in Nat
          /\ \A q \in 1 .. Len(saved.parts) : saved'.parts[q] = saved.parts[q]
          /\ saved'.parts[n] = rank[n].weights
          /\ saved'.of = saved.of /\ saved'.settled = saved.settled
          /\ exported' = exported
      BY <2>2, SavedChanges
    <3>2. CASE saved.of # {} /\ n = WorldSize
      <4>1. pc = "checkpointing" /\ RunAgrees
        BY <2>2 DEF CopyCheckpoint, HandoffAgrees
      <4>2. /\ saved.of = returned
            /\ \A q \in 1 .. Len(saved.parts) :
                 saved.parts[q] = w \/ (~ saved.settled /\ OneUpdateBehind(saved.parts[q], w))
        BY <3>2, <4>1 DEF RunAgrees, CheckpointFollows
      <4>3. saved'.parts[LastRank] = w
        BY <3>1, <3>2 DEF LastRank
      <4>4. returned \X (1 .. GroupsPerBatch) \subseteq Learned(w)
        BY <4>1 DEF RunAgrees, ResultsFollow
      <4>5. \A r \in Ranks : r = LastRank \/ r \in 1 .. Len(saved.parts)
        BY <3>1, <3>2, HandoffAssumption DEF Ranks, LastRank, NextToSave
      <4>6. \A r \in Ranks : \/ saved'.parts[r] = w
                             \/ ~ saved'.settled /\ OneUpdateBehind(saved'.parts[r], w)
        BY <3>1, <4>2, <4>3, <4>5
      <4>7. QED
        BY <3>1, <4>2, <4>3, <4>4, <4>6 DEF FilesAreWhole
    <3>3. CASE ~ (saved.of # {} /\ n = WorldSize)
      BY <3>1, <3>3 DEF FilesAreWhole
    <3>4. QED
      BY <3>2, <3>3
  <2>3. CASE Checkpoint
    <3>1. exported' = exported /\ saved'.parts = << >>
      BY <2>3 DEF Checkpoint
    <3>2. Len(saved'.parts) # WorldSize
      BY <3>1, HandoffAssumption
    <3>3. QED
      BY <3>1, <3>2 DEF FilesAreWhole
  <2>4. CASE exported' = Nothing /\ saved' = NotSaved
    BY <2>4 DEF FilesAreWhole, Nothing, NotSaved
  <2>5. CASE UNCHANGED <<exported, saved>>
    BY <2>5 DEF FilesAreWhole
  <2>6. \/ ExportDone \/ CopyCheckpoint \/ Checkpoint
        \/ exported' = Nothing /\ saved' = NotSaved
        \/ UNCHANGED <<exported, saved>>
    BY DEF Next, vars, outcome, Shutdown, InitializePolicy, Train, Returns, TakeStep, CopyStep, ReadResult,
           CopyRequest, Shuttle, RejectGroup, Raise, CopyFails, WaitTimesOut, ExportPolicy, ExportFails,
           CheckpointStep, CopyCheckpointFails, NoCheckpointFound, RankStep, RankReads, RankApplies, RankExports,
           RankMerges, Finished
  <2>7. QED
    BY <2>1, <2>2, <2>3, <2>4, <2>5, <2>6
<1>3. QED
  BY <1>1, <1>2, TypesCorrect, HandoffCorrect, PTL DEF Spec

=============================================================================
