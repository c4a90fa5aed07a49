------------------------- MODULE GpuMathGrpoProofs -------------------------
(***************************************************************************)
(* What the uploads of the driver guarantee for every number of            *)
(* iterations, checkpoint interval, rewards, programs and faults.          *)
(***************************************************************************)
EXTENDS GpuMathGrpo, SequenceTheorems, TLAPS

LEMMA Bounds ==
    /\ MaxIterations \in Nat \ {0} /\ MaxLaunches \in Nat /\ MaxFaults \in Nat
    /\ MinusInfinity \in Int
    /\ \A r \in RewardMeans : r \in Nat /\ MinusInfinity < r
  BY DriverAssumption DEF MinusInfinity

(* A sequence of rewards.                                                  *)
LEMMA Means ==
    ASSUME NEW w \in Seq(RewardMeans)
    PROVE  /\ Len(w) \in Nat /\ DOMAIN w = 1 .. Len(w)
           /\ \A m \in 1 .. Len(w) : w[m] \in RewardMeans /\ w[m] \in Nat /\ MinusInfinity < w[m]
<1>1. /\ Len(w) \in Nat /\ DOMAIN w = 1 .. Len(w)
      /\ \A m \in 1 .. Len(w) : w[m] \in RewardMeans
  BY LenProperties, ElementOfSeq
<1>2. QED
  BY <1>1, Bounds

(* What Max() is, given a highest element.                                 *)
LEMMA HighestIsMax ==
    ASSUME NEW w \in Seq(RewardMeans), NEW b,
           IF Len(w) = 0 THEN b = MinusInfinity ELSE \E n \in 1 .. Len(w) : w[n] = b /\ \A m \in 1 .. Len(w) : w[m] <= b
    PROVE  b = Max({MinusInfinity} \cup Range(w))
<1> DEFINE S == {MinusInfinity} \cup Range(w)
<1>1. DOMAIN w = 1 .. Len(w) /\ Len(w) \in Nat /\ \A n \in 1 .. Len(w) : w[n] \in Nat /\ MinusInfinity < w[n]
  BY Means
<1>2. \A x : x \in S <=> x = MinusInfinity \/ \E n \in 1 .. Len(w) : x = w[n]
  BY <1>1 DEF Range
<1> HIDE DEF S
<1>3. \A x \in S : x \in Int
  BY <1>1, <1>2, Bounds
<1>4. b \in S /\ \A x \in S : x <= b
  <2>1. CASE Len(w) = 0
    <3>1. b = MinusInfinity /\ b <= b
      BY <2>1, Bounds
    <3>2. ASSUME NEW n \in 1 .. Len(w)
          PROVE  FALSE
      BY <2>1, <3>2
    <3>3. QED
      BY <1>2, <3>1, <3>2
  <2>2. CASE Len(w) # 0
    <3>1. PICK n \in 1 .. Len(w) : w[n] = b /\ \A m \in 1 .. Len(w) : w[m] <= b
      BY <2>2
    <3>2. MinusInfinity <= w[n]
      BY <1>1, <3>1, Bounds
    <3>3. QED
      BY <1>2, <3>1, <3>2
  <2>3. QED
    BY <2>1, <2>2
<1>5. \A x \in S : x \in S /\ (\A y \in S : x >= y) => x = b
  BY <1>3, <1>4
<1>6. \A y \in S : b >= y
  BY <1>3, <1>4
<1>7. Max(S) = b
  BY <1>4, <1>5, <1>6 DEF Max
<1>8. QED
  BY <1>7 DEF S

(* There is one first iteration with the highest reward.                   *)
LEMMA FirstIsOne ==
    ASSUME NEW w \in Seq(RewardMeans), NEW n, IsFirstOfHighest(w, n)
    PROVE  FirstOfHighest(w) = n
<1>1. DOMAIN w = 1 .. Len(w) /\ Len(w) \in Nat /\ \A m \in 1 .. Len(w) : w[m] \in Nat
  BY Means
<1>2. ASSUME NEW m \in DOMAIN w, IsFirstOfHighest(w, m)
      PROVE  m = n
  <2>1. n \in 1 .. Len(w) /\ m \in 1 .. Len(w)
    BY <1>1, <1>2 DEF IsFirstOfHighest
  <2>2. w[n] <= w[m] /\ w[m] <= w[n] /\ w[n] \in Nat /\ w[m] \in Nat
    BY <1>1, <1>2, <2>1 DEF IsFirstOfHighest
  <2>3. ~(m \in 1 .. n - 1) /\ ~(n \in 1 .. m - 1)
    BY <1>2, <2>2 DEF IsFirstOfHighest
  <2>4. QED
    BY <2>1, <2>3
<1>3. n \in DOMAIN w
  BY DEF IsFirstOfHighest
<1>4. QED
  BY <1>2, <1>3 DEF FirstOfHighest

(* A reward above all before it: its iteration is the first of the highest. *)
LEMMA HigherIsFirst ==
    ASSUME NEW w \in Seq(RewardMeans), NEW mean \in RewardMeans,
           \A m \in 1 .. Len(w) : w[m] < mean
    PROVE  IsFirstOfHighest(Append(w, mean), Len(w) + 1)
<1> DEFINE a == Append(w, mean)
           k == Len(w) + 1
<1>1. Len(w) \in Nat /\ mean \in Nat /\ \A m \in 1 .. Len(w) : w[m] \in Nat
  BY Means, Bounds
<1>2. /\ a \in Seq(RewardMeans) /\ DOMAIN a = 1 .. k
      /\ a[k] = mean /\ \A m \in 1 .. Len(w) : a[m] = w[m]
  BY AppendProperties, LenProperties
<1> HIDE DEF a
<1>3. k \in DOMAIN a /\ k - 1 = Len(w)
  BY <1>1, <1>2
<1>4. \A m \in 1 .. k - 1 : a[m] < a[k]
  BY <1>2, <1>3
<1>5. ASSUME NEW m \in DOMAIN a
      PROVE  a[m] <= a[k]
  <2>1. m = k \/ m \in 1 .. Len(w)
    BY <1>1, <1>2, <1>5
  <2>2. CASE m = k
    BY <1>1, <1>2, <2>2
  <2>3. CASE m \in 1 .. Len(w)
    BY <1>1, <1>2, <2>3
  <2>4. QED
    BY <2>1, <2>2, <2>3
<1>6. QED
  BY <1>3, <1>4, <1>5 DEF IsFirstOfHighest, a

(* A reward no higher than the highest: the first of the highest stays.    *)
LEMMA OthersAfter ==
    ASSUME NEW w \in Seq(RewardMeans), NEW mean \in RewardMeans, NEW n,
           IsFirstOfHighest(w, n), mean <= w[n]
    PROVE  IsFirstOfHighest(Append(w, mean), n) /\ Append(w, mean)[n] = w[n]
<1> DEFINE a == Append(w, mean)
           k == Len(w) + 1
<1>1. Len(w) \in Nat /\ DOMAIN w = 1 .. Len(w)
  BY Means
<1>2. /\ DOMAIN a = 1 .. k
      /\ a[k] = mean /\ \A m \in 1 .. Len(w) : a[m] = w[m]
  BY AppendProperties, LenProperties
<1> HIDE DEF a
<1>3. n \in 1 .. Len(w) /\ n \in DOMAIN a /\ a[n] = w[n]
  BY <1>1, <1>2 DEF IsFirstOfHighest
<1>4. ASSUME NEW m \in 1 .. n - 1
      PROVE  a[m] < a[n]
  <2>1. m \in 1 .. Len(w)
    BY <1>1, <1>3, <1>4
  <2>2. QED
    BY <1>2, <1>3, <1>4, <2>1 DEF IsFirstOfHighest
<1>5. ASSUME NEW m \in DOMAIN a
      PROVE  a[m] <= a[n]
  <2>1. m = k \/ m \in 1 .. Len(w)
    BY <1>1, <1>2, <1>5
  <2>2. CASE m = k
    BY <1>2, <1>3, <2>2
  <2>3. CASE m \in 1 .. Len(w)
    BY <1>1, <1>2, <1>3, <2>3 DEF IsFirstOfHighest
  <2>4. QED
    BY <2>1, <2>2, <2>3
<1>6. QED
  BY <1>3, <1>4, <1>5 DEF IsFirstOfHighest, a

-----------------------------------------------------------------------------
(* The steps keep the invariant.                                           *)

UploadFits == StepsFit /\ BestIsFirst /\ FoldersInSteps /\ DriveFollows

IInv == ProgramTyped /\ DisksTyped /\ UploadFits

(* What is left to upload, label by label.                                 *)
LEMMA Labelled ==
    ASSUME todo \in {<< >>, <<"last">>, <<"best">>, <<"last", "best">>}, todo # << >>
    PROVE  /\ Label \in Labels /\ Label \in Range(todo) /\ Label \notin Range(Tail(todo))
           /\ \A l \in Labels : l # Label => (l \in Range(Tail(todo)) <=> l \in Range(todo))
           /\ Tail(todo) \in {<< >>, <<"last">>, <<"best">>, <<"last", "best">>}
<1>1. CASE todo = <<"last">>
  <2>1. Label = "last" /\ Tail(todo) = << >> /\ Range(todo) = {"last"} /\ Range(<< >>) = {}
    BY <1>1 DEF Label, Range
  <2>2. QED
    BY <2>1 DEF Labels
<1>2. CASE todo = <<"best">>
  <2>1. Label = "best" /\ Tail(todo) = << >> /\ Range(todo) = {"best"} /\ Range(<< >>) = {}
    BY <1>2 DEF Label, Range
  <2>2. QED
    BY <2>1 DEF Labels
<1>3. CASE todo = <<"last", "best">>
  <2>1. Label = "last" /\ Tail(todo) = <<"best">>
    BY <1>3 DEF Label
  <2>2. Range(todo) = {"last", "best"} /\ Range(<<"best">>) = {"best"}
    BY <1>3 DEF Range
  <2>3. \A l \in Labels : l # Label => l = "best"
    BY <2>1 DEF Labels
  <2>4. Range(Tail(todo)) = {"best"}
    BY <2>1, <2>2, Zenon
  <2>5. Label \in Labels /\ Label \in Range(todo) /\ Label \notin Range(Tail(todo))
    BY <2>1, <2>2, <2>4 DEF Labels
  <2>6. QED
    BY <2>1, <2>2, <2>3, <2>4, <2>5
<1>4. QED
  BY <1>1, <1>2, <1>3

LEMMA Uploaded ==
    ASSUME NEW mean
    PROVE  /\ Uploads(mean) \in {<< >>, <<"last">>, <<"best">>, <<"last", "best">>}
           /\ "best" \in Range(Uploads(mean)) <=> IsBest(mean)
           /\ "last" \in Range(Uploads(mean)) <=> IsLast(Done + 1)
<1>1. /\ Range(<< >>) = {} /\ Range(<<"last">>) = {"last"} /\ Range(<<"best">>) = {"best"}
      /\ Range(<<"last", "best">>) = {"last", "best"}
  BY DEF Range
<1>2. /\ << >> \o << >> = << >> /\ <<"last">> \o << >> = <<"last">> /\ << >> \o <<"best">> = <<"best">>
      /\ <<"last">> \o <<"best">> = <<"last", "best">>
  <2>1. <<"last">> \in Seq(Labels) /\ <<"best">> \in Seq(Labels) /\ << >> \in Seq(Labels)
    BY DEF Labels
  <2>2. << >> \o << >> = << >> /\ <<"last">> \o << >> = <<"last">> /\ << >> \o <<"best">> = <<"best">>
    BY <2>1, ConcatEmptySeq
  <2>3. Append(<<"last">>, "best") = <<"last", "best">>
    <3>1. Append(<<"last">>, "best") \in Seq(Labels) /\ <<"last", "best">> \in Seq(Labels)
      BY <2>1, AppendProperties DEF Labels
    <3>2. Len(<<"last">>) = 1 /\ Len(Append(<<"last">>, "best")) = 2 /\ Len(<<"last", "best">>) = 2
      BY <2>1, AppendProperties DEF Labels
    <3>3. \A i \in 1 .. 2 : Append(<<"last">>, "best")[i] = <<"last", "best">>[i]
      BY <2>1, <3>2, AppendProperties DEF Labels
    <3>4. QED
      BY <3>1, <3>2, <3>3, SeqEqual
  <2>4. Append(<<"last">>, "best") = <<"last">> \o <<"best">>
    BY <2>1, AppendIsConcat DEF Labels
  <2>5. QED
    BY <2>2, <2>3, <2>4
<1>3. Uploads(mean) = IF IsLast(Done + 1) THEN (IF IsBest(mean) THEN <<"last", "best">> ELSE <<"last">>)
                      ELSE IF IsBest(mean) THEN <<"best">> ELSE << >>
  BY <1>2 DEF Uploads
<1>4. QED
  BY <1>1, <1>3

(* The export of the newest iteration, while its labels are uploaded.      *)
LEMMA Ready ==
    ASSUME IInv, Uploading
    PROVE  /\ Done \in Versions /\ Done > 0 /\ launch \in 1 .. MaxLaunches /\ exports[Done] = launch
           /\ <<launch, Done>> \in Whole /\ Label \in Labels /\ Label \in Range(todo)
           /\ Staging \in Folders /\ Final \in Folders /\ Staging # Final
<1>1. Done \in Versions /\ exports[Done] = launch /\ pc # "down" /\ todo # << >>
  BY DEF IInv, UploadFits, StepsFit, DisksTyped, Uploading
<1>2. launch \in 0 .. MaxLaunches /\ launch # 0
  BY <1>1 DEF IInv, UploadFits, StepsFit, ProgramTyped
<1>3. launch \in 1 .. MaxLaunches /\ Done > 0
  BY <1>1, <1>2, Bounds DEF Versions
<1>4. Label \in Labels /\ Label \in Range(todo)
  BY <1>1, Labelled DEF IInv, ProgramTyped
<1>5. QED
  BY <1>1, <1>3, <1>4 DEF Whole, Staging, Final, Folders

(* The version folders: an export that is added or replaced, and cleanups. *)
LEMMA ExportsTyped ==
    ASSUME DisksTyped
    PROVE  /\ Done + 1 \in Versions /\ launch \in 1 .. MaxLaunches =>
                /\ DOMAIN Exported \subseteq Versions /\ Range(Exported) \subseteq 1 .. MaxLaunches
                /\ Done + 1 \in DOMAIN Exported /\ Exported[Done + 1] = launch
           /\ \A kept \in SUBSET DOMAIN exports :
                /\ DOMAIN Restrict(exports, kept) \subseteq Versions
                /\ Range(Restrict(exports, kept)) \subseteq 1 .. MaxLaunches
<1>1. \A v \in DOMAIN exports : v \in Versions /\ exports[v] \in 1 .. MaxLaunches
  BY DEF DisksTyped, Range
<1>2. ASSUME Done + 1 \in Versions, launch \in 1 .. MaxLaunches
      PROVE  DOMAIN Exported \subseteq Versions /\ Range(Exported) \subseteq 1 .. MaxLaunches
             /\ Done + 1 \in DOMAIN Exported /\ Exported[Done + 1] = launch
  <2>1. /\ DOMAIN Exported = DOMAIN exports \cup {Done + 1}
        /\ \A v \in DOMAIN Exported : Exported[v] = IF v = Done + 1 THEN launch ELSE exports[v]
    BY DEF Exported
  <2>2. \A v \in DOMAIN Exported : v \in Versions /\ Exported[v] \in 1 .. MaxLaunches
    BY <1>1, <1>2, <2>1
  <2>3. QED
    BY <1>2, <2>1, <2>2 DEF Range
<1>3. ASSUME NEW kept \in SUBSET DOMAIN exports
      PROVE  DOMAIN Restrict(exports, kept) \subseteq Versions
             /\ Range(Restrict(exports, kept)) \subseteq 1 .. MaxLaunches
  BY <1>1, <1>3 DEF Restrict, Range
<1>4. QED
  BY <1>2, <1>3

(* What the steps of an upload leave of the folders.                       *)
LEMMA FoldersTyped ==
    ASSUME IInv, Uploading
    PROVE  /\ \A f \in Folders : [drive EXCEPT ![f] = Nothing] \in [Folders -> Whole \cup {Nothing, Partial}]
           /\ PurgedInPart \in [Folders -> Whole \cup {Nothing, Partial}]
           /\ [drive EXCEPT ![Staging] = <<exports[Done], Done>>] \in [Folders -> Whole \cup {Nothing, Partial}]
           /\ [drive EXCEPT ![Final] = drive[Staging], ![Staging] = Nothing] \in [Folders -> Whole \cup {Nothing, Partial}]
           /\ Midway \subseteq [Folders -> Whole \cup {Nothing, Partial}]
<1> DEFINE Contents == Whole \cup {Nothing, Partial}
<1>1. drive \in [Folders -> Contents] /\ Nothing \in Contents /\ Partial \in Contents
  BY DEF IInv, DisksTyped
<1>2. Staging \in Folders /\ Final \in Folders /\ <<exports[Done], Done>> \in Contents
  BY Ready
<1>3. Purged \in Folders
  BY <1>2 DEF Purged
<1> HIDE DEF Contents
<1>4. PurgedInPart \in [Folders -> Contents]
  BY <1>1, <1>3 DEF PurgedInPart
<1>5. drive[Staging] \in Contents
  BY <1>1, <1>2
<1>6. [drive EXCEPT ![Staging] = Partial] \in [Folders -> Contents]
  BY <1>1
<1>7. [drive EXCEPT ![Final] = Partial, ![Staging] = Partial] \in [Folders -> Contents]
  BY <1>1
<1>8. Midway \subseteq [Folders -> Contents]
  BY <1>4, <1>6, <1>7 DEF Midway
<1>9. \A f \in Folders : [drive EXCEPT ![f] = Nothing] \in [Folders -> Contents]
  BY <1>1
<1>10. [drive EXCEPT ![Staging] = <<exports[Done], Done>>] \in [Folders -> Contents]
  BY <1>1, <1>2
<1>11. [drive EXCEPT ![Final] = drive[Staging], ![Staging] = Nothing] \in [Folders -> Contents]
  BY <1>1, <1>5
<1>12. QED
  BY <1>4, <1>8, <1>9, <1>10, <1>11 DEF Contents

LEMMA ProgramStep ==
    ASSUME IInv, [Next]_vars
    PROVE  ProgramTyped'
<1> USE DEF IInv, ProgramTyped
<1>1. ASSUME Fault PROVE faults' \in 0 .. MaxFaults
  BY <1>1, Bounds DEF Fault
<1>2. CASE Launch
  <2>1. Len(<< >>) = 0 /\ << >> \in Seq(RewardMeans)
    OBVIOUS
  <2>2. launch + 1 \in 0 .. MaxLaunches
    BY <1>2, Bounds DEF Launch
  <2>3. rewards' \in Seq(RewardMeans) /\ Done' <= MaxIterations
    BY <1>2, <2>1, Bounds DEF Launch, Done
  <2>4. QED
    BY <1>2, <2>2, <2>3 DEF Launch
<1>3. CASE Bootstrap \/ BecomesHealthy \/ Polled
  BY <1>3 DEF Bootstrap, BecomesHealthy, Polled, process, disks, Done
<1>4. ASSUME NEW mean \in RewardMeans, Iterate(mean) PROVE ProgramTyped'
  <2>1. rewards' \in Seq(RewardMeans) /\ Len(rewards') = Done + 1
    BY <1>4, AppendProperties DEF Iterate, Done
  <2>2. Done \in Nat /\ Done < MaxIterations
    BY <1>4, Means DEF Iterate, CanIterate, Done
  <2>3. Done' <= MaxIterations
    BY <2>1, <2>2, Bounds DEF Done
  <2>4. pc' \in {"cleanup", "purgeStaging"} /\ todo' \in {<< >>, <<"last">>, <<"best">>, <<"last", "best">>}
    BY <1>4, Uploaded DEF Iterate
  <2>5. QED
    BY <1>4, <2>1, <2>3, <2>4 DEF Iterate
<1>5. CASE StaleState \/ Finish
  BY <1>5 DEF StaleState, Finish, process, disks, Done
<1>6. CASE Purge
  <2>1. pc' \in {"copy", "move"} /\ unnoticed' \in BOOLEAN /\ faults' \in 0 .. MaxFaults
    <3>1. pc' \in {"copy", "move"}
      BY <1>6 DEF Purge
    <3>2. unnoticed' \in BOOLEAN
      BY <1>6 DEF Purge
    <3>3. faults' \in 0 .. MaxFaults
      BY <1>1, <1>6 DEF Purge
    <3>4. QED
      BY <3>1, <3>2, <3>3
  <2>2. UNCHANGED <<launch, server, rewards, todo>>
    BY <1>6 DEF Purge
  <2>3. QED
    BY <2>1, <2>2 DEF Done
<1>7. CASE Copy
  BY <1>7 DEF Copy, process, Done
<1>8. CASE Move
  <2>1. todo # << >>
    BY <1>8 DEF Move, UploadFits, StepsFit, Uploading
  <2>2. Tail(todo) \in {<< >>, <<"last">>, <<"best">>, <<"last", "best">>}
    BY <2>1, Labelled
  <2>3. pc' \in {"cleanup", "purgeStaging"}
    BY <1>8 DEF Move, AfterUpload
  <2>4. QED
    BY <1>8, <2>2, <2>3 DEF Move, AfterUpload, Done
<1>9. CASE Cleanup
  <2>1. faults' \in 0 .. MaxFaults
    BY <1>1, <1>9 DEF Cleanup
  <2>2. pc' = "loop" /\ UNCHANGED <<launch, server, rewards, todo, unnoticed>>
    BY <1>9 DEF Cleanup, process
  <2>3. QED
    BY <2>1, <2>2 DEF Done
<1>10. CASE Interrupted
  <2>1. faults' \in 0 .. MaxFaults
    BY <1>1, <1>10 DEF Interrupted
  <2>2. pc' = "down" /\ server' \in {"down", server} /\ UNCHANGED <<launch, rewards, todo, unnoticed>>
    BY <1>10 DEF Interrupted, process
  <2>3. QED
    BY <2>1, <2>2 DEF Done
<1>11. CASE UNCHANGED vars
  BY <1>11 DEF vars, Done
<1>12. QED
  BY <1>2, <1>3, <1>4, <1>5, <1>6, <1>7, <1>8, <1>9, <1>10, <1>11 DEF Next, NoMoreLaunches

LEMMA DisksStep ==
    ASSUME IInv, [Next]_vars
    PROVE  DisksTyped'
<1> DEFINE Contents == Whole \cup {Nothing, Partial}
           Kept(e) == DOMAIN e \subseteq Versions /\ Range(e) \subseteq 1 .. MaxLaunches
<1>1. DisksTyped /\ drive \in [Folders -> Contents] /\ saved \in 0 .. MaxIterations /\ Kept(exports)
  BY DEF IInv, DisksTyped
<1>2. SUFFICES drive' \in [Folders -> Contents] /\ saved' \in 0 .. MaxIterations /\ Kept(exports')
  BY DEF DisksTyped
<1> HIDE DEF Contents, Kept
<1>3. ASSUME CanIterate PROVE Done + 1 \in 0 .. MaxIterations /\ Kept(Exported)
  <2>1. Done \in Nat /\ Done < MaxIterations
    BY <1>3, Means DEF CanIterate, IInv, ProgramTyped, Done
  <2>2. launch \in 1 .. MaxLaunches
    <3>1. launch \in 0 .. MaxLaunches /\ launch # 0
      BY <1>3 DEF CanIterate, IInv, ProgramTyped, UploadFits, StepsFit
    <3>2. QED
      BY <3>1, Bounds
  <2>3. Done + 1 \in Versions /\ Done + 1 \in 0 .. MaxIterations
    BY <2>1, Bounds DEF Versions
  <2>4. QED
    BY <1>1, <2>2, <2>3, ExportsTyped DEF Kept
<1>4. \A kept \in SUBSET DOMAIN exports : Kept(Restrict(exports, kept))
  BY <1>1, ExportsTyped DEF Kept
<1>5. CASE Launch
  BY <1>1, <1>5, Bounds DEF Launch
<1>6. CASE Bootstrap \/ BecomesHealthy \/ Polled \/ StaleState \/ Finish
  BY <1>1, <1>6 DEF Bootstrap, BecomesHealthy, Polled, StaleState, Finish, disks
<1>7. ASSUME NEW mean \in RewardMeans, Iterate(mean) PROVE DisksTyped'
  <2>1. CanIterate /\ saved' = Done + 1 /\ exports' = Exported /\ drive' = drive
    BY <1>7 DEF Iterate
  <2>2. QED
    BY <1>1, <1>3, <2>1 DEF DisksTyped, Contents, Kept
<1>8. CASE Purge
  <2>1. Uploading /\ Purged \in Folders
    BY <1>8, Ready DEF Purge, Uploading, Purged
  <2>2. drive' \in {[drive EXCEPT ![Purged] = Nothing], drive, PurgedInPart}
    BY <1>8 DEF Purge
  <2>3. drive' \in [Folders -> Contents]
    BY <1>1, <2>1, <2>2, FoldersTyped DEF Contents
  <2>4. QED
    BY <1>1, <1>8, <2>3 DEF Purge
<1>9. CASE Copy
  <2>1. drive' \in [Folders -> Contents]
    BY <1>9, FoldersTyped DEF Copy, Uploading, Contents
  <2>2. QED
    BY <1>1, <1>9, <2>1 DEF Copy
<1>10. CASE Move
  <2>1. drive' \in [Folders -> Contents]
    BY <1>10, FoldersTyped DEF Move, Uploading, Contents
  <2>2. QED
    BY <1>1, <1>10, <2>1 DEF Move
<1>11. CASE Cleanup
  <2>1. \E kept \in SUBSET DOMAIN exports : exports' = Restrict(exports, kept)
    BY <1>11 DEF Cleanup, Latest
  <2>2. QED
    BY <1>1, <1>4, <1>11, <2>1 DEF Cleanup
<1>12. CASE Interrupted
  <2>1. Kept(exports')
    BY <1>1, <1>3, <1>12 DEF Interrupted
  <2>2. CASE Uploading
    BY <1>1, <1>12, <2>1, <2>2, FoldersTyped DEF Interrupted, Contents
  <2>3. CASE ~Uploading
    BY <1>1, <1>12, <2>1, <2>3 DEF Interrupted, Midway, Uploading
  <2>4. QED
    BY <2>2, <2>3
<1>13. CASE UNCHANGED vars
  BY <1>1, <1>13 DEF vars
<1>14. QED
  BY <1>5, <1>6, <1>7, <1>8, <1>9, <1>10, <1>11, <1>12, <1>13 DEF Next, NoMoreLaunches, DisksTyped, Contents, Kept

LEMMA StepsFitStep ==
    ASSUME IInv, [Next]_vars
    PROVE  StepsFit'
<1> USE DEF IInv, UploadFits, StepsFit, Uploading
<1>1. CASE Launch
  <2>1. launch' # 0
    BY <1>1, Bounds DEF Launch, ProgramTyped
  <2>2. pc' = "bootstrap" /\ rewards' = << >> /\ todo' = << >>
    BY <1>1 DEF Launch
  <2>3. QED
    BY <2>1, <2>2 DEF Done
<1>2. CASE Bootstrap \/ BecomesHealthy \/ Polled \/ StaleState \/ Finish
  BY <1>2 DEF Bootstrap, BecomesHealthy, Polled, StaleState, Finish, process, disks, Done
<1>3. ASSUME NEW mean \in RewardMeans, Iterate(mean) PROVE StepsFit'
  <2>1. Done' = Done + 1 /\ Done \in Nat /\ Done < MaxIterations
    BY <1>3, Means, AppendProperties DEF Iterate, CanIterate, ProgramTyped, Done
  <2>2. launch # 0 /\ launch \in 0 .. MaxLaunches
    BY <1>3 DEF Iterate, CanIterate, ProgramTyped
  <2>3. Done + 1 \in Versions /\ launch \in 1 .. MaxLaunches
    BY <2>1, <2>2, Bounds DEF Versions
  <2>4. exports' = Exported /\ Done' \in DOMAIN exports' /\ exports'[Done'] = launch'
    BY <1>3, <2>1, <2>3, ExportsTyped DEF Iterate
  <2>5. Done' > 0
    BY <2>1
  <2>6. pc' = (IF todo' = << >> THEN "cleanup" ELSE "purgeStaging") /\ launch' # 0
    BY <1>3, <2>2 DEF Iterate
  <2>7. QED
    BY <2>4, <2>5, <2>6
<1>4. CASE Purge
  BY <1>4 DEF Purge, Done
<1>5. CASE Copy
  BY <1>5 DEF Copy, process, Done
<1>6. CASE Move
  <2>1. Done > 0
    BY <1>6, Ready DEF Move
  <2>2. QED
    BY <1>6, <2>1 DEF Move, AfterUpload, Done
<1>7. CASE Cleanup
  BY <1>7 DEF Cleanup, process, Done
<1>8. CASE Interrupted
  BY <1>8 DEF Interrupted, process, Done
<1>9. CASE UNCHANGED vars
  BY <1>9 DEF vars, Done
<1>10. QED
  BY <1>1, <1>2, <1>3, <1>4, <1>5, <1>6, <1>7, <1>8, <1>9 DEF Next, NoMoreLaunches

(* What an iteration does to best_reward_mean.                             *)
LEMMA Compared ==
    ASSUME ProgramTyped, BestIsFirst, NEW mean \in RewardMeans
    PROVE  /\ IsBest(mean) => IsFirstOfHighest(Append(rewards, mean), Done + 1) /\ NewBest(mean) = mean
           /\ ~IsBest(mean) => /\ Done > 0 /\ NewBest(mean) = best
                               /\ \A n : IsFirstOfHighest(rewards, n) =>
                                    /\ IsFirstOfHighest(Append(rewards, mean), n)
                                    /\ Append(rewards, mean)[n] = rewards[n]
<1>1. /\ rewards \in Seq(RewardMeans) /\ Done \in Nat /\ DOMAIN rewards = 1 .. Done
      /\ \A m \in 1 .. Done : rewards[m] \in Nat /\ MinusInfinity < rewards[m]
  BY Means DEF ProgramTyped, Done
<1>2. mean \in Nat /\ MinusInfinity < mean /\ MinusInfinity \in Int
  BY Bounds
<1>3. best \in Int /\ (Done = 0 => best = MinusInfinity) /\ \A m \in 1 .. Done : rewards[m] <= best
  <2>1. CASE Done = 0
    BY <1>2, <2>1 DEF BestIsFirst
  <2>2. CASE Done # 0
    BY <1>1, <2>2 DEF BestIsFirst, IsFirstOfHighest
  <2>3. QED
    BY <2>1, <2>2
<1>4. ASSUME IsBest(mean)
      PROVE  IsFirstOfHighest(Append(rewards, mean), Done + 1) /\ NewBest(mean) = mean
  <2>1. \A m \in 1 .. Done : rewards[m] < mean
    BY <1>1, <1>2, <1>3, <1>4 DEF IsBest
  <2>2. QED
    BY <1>1, <1>4, <2>1, HigherIsFirst DEF NewBest, Done
<1>5. ASSUME ~IsBest(mean)
      PROVE  Done > 0 /\ NewBest(mean) = best
  BY <1>1, <1>2, <1>3, <1>5 DEF NewBest, IsBest
<1>6. ASSUME ~IsBest(mean), NEW n, IsFirstOfHighest(rewards, n)
      PROVE  IsFirstOfHighest(Append(rewards, mean), n) /\ Append(rewards, mean)[n] = rewards[n]
  <2>1. PICK b \in 1 .. Done : rewards[b] = best
    BY <1>1, <1>5, <1>6 DEF BestIsFirst
  <2>2. n \in 1 .. Done /\ rewards[b] <= rewards[n] /\ rewards[n] \in Nat
    BY <1>1, <1>6, <2>1 DEF IsFirstOfHighest
  <2>3. mean <= best
    BY <1>2, <1>3, <1>6 DEF IsBest
  <2>4. mean <= rewards[n]
    BY <1>2, <1>3, <2>1, <2>2, <2>3
  <2>5. QED
    BY <1>1, <1>6, <2>4, OthersAfter
<1>7. QED
  BY <1>4, <1>5, <1>6

LEMMA BestStep ==
    ASSUME IInv, [Next]_vars
    PROVE  BestIsFirst'
<1>1. CASE UNCHANGED <<rewards, best>>
  BY <1>1 DEF IInv, UploadFits, BestIsFirst, Done
<1>2. CASE Launch
  BY <1>2 DEF Launch, BestIsFirst, Done
<1>3. ASSUME NEW mean \in RewardMeans, Iterate(mean)
      PROVE  BestIsFirst'
  <2>1. ProgramTyped /\ BestIsFirst /\ rewards' = Append(rewards, mean) /\ best' = NewBest(mean)
    BY <1>3 DEF IInv, UploadFits, Iterate
  <2>2. Done' = Done + 1 /\ Done \in Nat /\ rewards'[Done + 1] = mean /\ Done' # 0 /\ Done + 1 \in 1 .. Done'
    BY <2>1, Means, AppendProperties DEF ProgramTyped, Done
  <2>3. CASE IsBest(mean)
    <3>1. IsFirstOfHighest(rewards', Done + 1) /\ best' = rewards'[Done + 1]
      BY <2>1, <2>2, <2>3, Compared
    <3>2. QED
      BY <2>2, <3>1 DEF BestIsFirst
  <2>4. CASE ~IsBest(mean)
    <3>1. Done > 0 /\ best' = best
      BY <2>1, <2>4, Compared
    <3>2. PICK n \in 1 .. Done : IsFirstOfHighest(rewards, n) /\ rewards[n] = best
      BY <2>1, <2>2, <3>1 DEF BestIsFirst
    <3>3. IsFirstOfHighest(rewards', n) /\ rewards'[n] = best'
      BY <2>1, <2>4, <3>1, <3>2, Compared
    <3>4. n \in 1 .. Done'
      BY <2>2, <3>2
    <3>5. QED
      BY <2>2, <3>3, <3>4 DEF BestIsFirst
  <2>5. QED
    BY <2>3, <2>4
<1>4. QED
  BY <1>1, <1>2, <1>3 DEF Next, Bootstrap, BecomesHealthy, Polled, StaleState, Purge, Copy, Move, Cleanup,
                          Finish, Interrupted, NoMoreLaunches, process, vars

LEMMA FoldersStep ==
    ASSUME IInv, [Next]_vars
    PROVE  FoldersInSteps'
<1>1. CASE pc' \in {"down", "bootstrap", "polling", "loop", "cleanup", "purgeStaging"}
  BY <1>1 DEF FoldersInSteps
<1>2. CASE UNCHANGED <<pc, launch, rewards, todo, unnoticed, drive>>
  BY <1>2 DEF IInv, UploadFits, FoldersInSteps, Staging, Final, Label, Done
<1>3. CASE Purge
  <2>1. Uploading /\ Staging \in Folders /\ Final \in Folders /\ Staging # Final /\ Purged \in Folders
    BY <1>3, Ready DEF Purge, Uploading, Purged
  <2>2. drive \in [Folders -> Whole \cup {Nothing, Partial}]
    BY DEF IInv, DisksTyped
  <2>3. UNCHANGED <<Staging, Final, launch, Done>>
    BY <1>3 DEF Purge, Staging, Final, Label, Done
  <2>4. /\ \A f \in Folders : f # Purged => drive'[f] = drive[f]
        /\ ~unnoticed' => drive'[Purged] = Nothing
    <3>1. CASE drive' = [drive EXCEPT ![Purged] = Nothing]
      BY <2>1, <2>2, <3>1
    <3>2. CASE drive' \in {drive, PurgedInPart} /\ unnoticed' = (unnoticed \/ drive[Purged] # Nothing)
      <4>1. \A f \in Folders : f # Purged => drive'[f] = drive[f]
        BY <2>1, <2>2, <3>2 DEF PurgedInPart
      <4>2. ASSUME ~unnoticed' PROVE drive'[Purged] = Nothing
        BY <2>1, <2>2, <3>2, <4>2 DEF PurgedInPart
      <4>3. QED
        BY <4>1, <4>2
    <3>3. QED
      BY <1>3, <3>1, <3>2 DEF Purge
  <2>5. CASE pc = "purgeStaging"
    <3>1. pc' = "copy" /\ Purged = Staging
      BY <1>3, <2>5 DEF Purge, Purged
    <3>2. QED
      BY <2>3, <2>4, <3>1 DEF FoldersInSteps
  <2>6. CASE pc = "purgeFinal"
    <3>1. pc' = "move" /\ Purged = Final
      BY <1>3, <2>6 DEF Purge, Purged
    <3>2. drive[Staging] = <<launch, Done>>
      BY <2>6 DEF IInv, UploadFits, FoldersInSteps
    <3>3. drive'[Staging] = drive[Staging]
      BY <2>1, <2>4, <3>1
    <3>4. QED
      BY <2>3, <2>4, <3>1, <3>2, <3>3 DEF FoldersInSteps
  <2>7. QED
    BY <1>3, <2>5, <2>6 DEF Purge
<1>4. CASE Copy
  <2>1. Uploading /\ Staging \in Folders /\ exports[Done] = launch
    BY <1>4, Ready DEF Copy, Uploading
  <2>2. drive \in [Folders -> Whole \cup {Nothing, Partial}]
    BY DEF IInv, DisksTyped
  <2>3. drive'[Staging] = <<launch, Done>>
    BY <1>4, <2>1, <2>2 DEF Copy
  <2>4. UNCHANGED <<Staging, launch, Done>> /\ pc' = "purgeFinal"
    BY <1>4 DEF Copy, process, Staging, Label, Done
  <2>5. QED
    BY <2>3, <2>4 DEF FoldersInSteps
<1>5. QED
  BY <1>1, <1>2, <1>3, <1>4 DEF Next, Launch, Bootstrap, BecomesHealthy, Polled, Iterate, StaleState, Move, AfterUpload,
                                Cleanup, Finish, Interrupted, NoMoreLaunches, process, disks, vars

(* What an iteration makes due.                                            *)
LEMMA DueNext ==
    ASSUME NEW mean \in RewardMeans, IInv, Iterate(mean)
    PROVE  DriveFollows'
<1>1. /\ ProgramTyped /\ BestIsFirst /\ pc = "loop" /\ todo = << >>
      /\ rewards \in Seq(RewardMeans) /\ rewards' = Append(rewards, mean) /\ rewards' \in Seq(RewardMeans)
      /\ todo' = Uploads(mean) /\ drive' = drive /\ launch' = launch
  BY AppendProperties DEF IInv, UploadFits, StepsFit, Iterate, CanIterate, ProgramTyped
<1>2. Done' = Done + 1 /\ Done \in Nat
  BY <1>1, Means, AppendProperties DEF Done
<1>3. Range(<< >>) = {}
  BY DEF Range
<1>4. ASSUME Done > 0
      PROVE  /\ drive[<<"final", "best">>] = <<launch, FirstOfHighest(rewards)>>
             /\ \A n \in 1 .. Done : NewestDue(n) => drive[<<"final", "last">>] = <<launch, n>>
  BY <1>1, <1>3, <1>4 DEF IInv, UploadFits, DriveFollows
<1>5. "best" \in Range(todo') <=> IsBest(mean)
  BY <1>1, Uploaded
<1>6. "last" \in Range(todo') <=> IsLast(Done + 1)
  BY <1>1, Uploaded
<1>7. ASSUME IsBest(mean) PROVE IsFirstOfHighest(rewards', Done')
  BY <1>1, <1>2, <1>7, Compared
<1>8. ASSUME ~IsBest(mean) PROVE drive'[<<"final", "best">>] = <<launch', FirstOfHighest(rewards')>>
  <2>1. Done > 0
    BY <1>1, <1>8, Compared
  <2>2. PICK n \in 1 .. Done : IsFirstOfHighest(rewards, n)
    BY <1>1, <1>2, <2>1 DEF BestIsFirst
  <2>3. IsFirstOfHighest(rewards', n)
    BY <1>1, <1>8, <2>2, Compared
  <2>4. FirstOfHighest(rewards) = n /\ FirstOfHighest(rewards') = n
    BY <1>1, <2>2, <2>3, FirstIsOne
  <2>5. QED
    BY <1>1, <1>4, <2>1, <2>4
<1>9. ASSUME IsLast(Done + 1) PROVE IsLast(Done')
  BY <1>2, <1>9
<1>10. ASSUME ~IsLast(Done + 1), NEW n \in 1 .. Done', NewestDue(n)'
       PROVE  drive'[<<"final", "last">>] = <<launch', n>>
  <2>1. IsLast(n) /\ n \in 1 .. Done + 1 /\ \A m \in n + 1 .. Done + 1 : ~IsLast(m)
    BY <1>2, <1>10 DEF NewestDue
  <2>2. n \in 1 .. Done
    <3>1. n # Done + 1
      BY <1>10, <2>1
    <3>2. QED
      BY <1>2, <2>1, <3>1
  <2>3. \A m \in n + 1 .. Done : ~IsLast(m)
    <3>1. \A m \in n + 1 .. Done : m \in n + 1 .. Done + 1
      BY <1>2, <2>2
    <3>2. QED
      BY <2>1, <3>1
  <2>4. NewestDue(n) /\ Done > 0
    BY <1>2, <2>1, <2>2, <2>3 DEF NewestDue
  <2>5. QED
    BY <1>1, <1>4, <2>2, <2>4
<1>11. QED
  BY <1>5, <1>6, <1>7, <1>8, <1>9, <1>10 DEF DriveFollows

(* The step that gives a label its new checkpoint.                         *)
LEMMA DueUploaded ==
    ASSUME IInv, Move
    PROVE  DriveFollows'
<1>1. /\ Uploading /\ ProgramTyped /\ todo # << >> /\ todo' = Tail(todo)
      /\ UNCHANGED <<launch, rewards>> /\ Done' = Done
      /\ rewards \in Seq(RewardMeans)
  BY DEF IInv, UploadFits, StepsFit, Move, AfterUpload, Uploading, ProgramTyped, Done
<1>2. /\ Staging \in Folders /\ Final \in Folders /\ Staging # Final
      /\ Label \in Range(todo) /\ Label \in Labels /\ Done > 0 /\ Done \in Versions
  BY <1>1, Ready
<1>3. drive[Staging] = <<launch, Done>> /\ drive \in [Folders -> Whole \cup {Nothing, Partial}]
  BY DEF IInv, UploadFits, FoldersInSteps, Move, DisksTyped
<1>4. drive' = [drive EXCEPT ![Final] = drive[Staging], ![Staging] = Nothing]
  BY DEF Move
<1>5. drive'[Final] = <<launch, Done>>
  BY <1>2, <1>3, <1>4
<1>6. ASSUME NEW l \in Labels, l # Label
      PROVE  drive'[<<"final", l>>] = drive[<<"final", l>>] /\ (l \in Range(todo') <=> l \in Range(todo))
  <2>1. <<"final", l>> \in Folders /\ <<"final", l>> # Final /\ <<"final", l>> # Staging
    BY <1>6 DEF Folders, Final, Staging
  <2>2. QED
    BY <1>1, <1>3, <1>4, <1>6, <2>1, Labelled DEF ProgramTyped
<1>7. Label \notin Range(todo')
  BY <1>1, Labelled DEF ProgramTyped
<1>8. /\ IF "best" \in Range(todo) THEN IsFirstOfHighest(rewards, Done)
         ELSE drive[<<"final", "best">>] = <<launch, FirstOfHighest(rewards)>>
      /\ IF "last" \in Range(todo) THEN IsLast(Done)
         ELSE \A n \in 1 .. Done : NewestDue(n) => drive[<<"final", "last">>] = <<launch, n>>
  BY <1>1, <1>2 DEF IInv, UploadFits, DriveFollows
<1>9. /\ IF "best" \in Range(todo') THEN IsFirstOfHighest(rewards, Done)
         ELSE drive'[<<"final", "best">>] = <<launch, FirstOfHighest(rewards)>>
  <2>1. CASE Label = "best"
    <3>1. FirstOfHighest(rewards) = Done
      BY <1>1, <1>2, <1>8, <2>1, FirstIsOne
    <3>2. QED
      BY <1>5, <1>7, <2>1, <3>1 DEF Final
  <2>2. CASE Label # "best"
    BY <1>6, <1>8, <2>2 DEF Labels
  <2>3. QED
    BY <2>1, <2>2
<1>10. /\ IF "last" \in Range(todo') THEN IsLast(Done)
          ELSE \A n \in 1 .. Done : NewestDue(n) => drive'[<<"final", "last">>] = <<launch, n>>
  <2>1. CASE Label = "last"
    <3>1. IsLast(Done) /\ Done \in Nat
      BY <1>2, <1>8, <2>1 DEF Versions
    <3>2. ASSUME NEW n \in 1 .. Done, NewestDue(n)
          PROVE  n = Done
      <4>1. Done \notin n + 1 .. Done
        BY <3>1, <3>2 DEF NewestDue
      <4>2. QED
        BY <3>1, <3>2, <4>1
    <3>3. QED
      BY <1>5, <1>7, <2>1, <3>2 DEF Final
  <2>2. CASE Label # "last"
    BY <1>6, <1>8, <2>2 DEF Labels
  <2>3. QED
    BY <2>1, <2>2
<1>11. \A n : NewestDue(n)' <=> NewestDue(n)
  BY <1>1 DEF NewestDue
<1>12. QED
  BY <1>1, <1>9, <1>10, <1>11 DEF DriveFollows

LEMMA DriveStep ==
    ASSUME IInv, [Next]_vars
    PROVE  DriveFollows'
<1> DEFINE At == pc \in {"loop", "cleanup"} \/ Uploading
<1>1. ASSUME UNCHANGED <<launch, rewards, todo>>, At' => At \/ Done = 0,
             At' => \A l \in Labels : l \in Range(todo) \/ drive'[<<"final", l>>] = drive[<<"final", l>>]
      PROVE  DriveFollows'
  <2>1. Done' = Done /\ \A n : NewestDue(n)' <=> NewestDue(n)
    BY <1>1 DEF NewestDue, Done
  <2>2. CASE At' /\ Done > 0
    <3>1. Done # 0
      BY <2>2, Means DEF IInv, ProgramTyped, Done
    <3>2. /\ IF "best" \in Range(todo) THEN IsFirstOfHighest(rewards, Done)
             ELSE drive[<<"final", "best">>] = <<launch, FirstOfHighest(rewards)>>
          /\ IF "last" \in Range(todo) THEN IsLast(Done)
             ELSE \A n \in 1 .. Done : NewestDue(n) => drive[<<"final", "last">>] = <<launch, n>>
      BY <1>1, <2>2, <3>1 DEF IInv, UploadFits, DriveFollows
    <3>3. \A l \in Labels : l \in Range(todo) \/ drive'[<<"final", l>>] = drive[<<"final", l>>]
      BY <1>1, <2>2
    <3>4. "best" \in Labels /\ "last" \in Labels
      BY DEF Labels
    <3>5. /\ IF "best" \in Range(todo') THEN IsFirstOfHighest(rewards', Done')
             ELSE drive'[<<"final", "best">>] = <<launch', FirstOfHighest(rewards')>>
      BY <1>1, <2>1, <3>2, <3>3, <3>4
    <3>6. /\ IF "last" \in Range(todo') THEN IsLast(Done')
             ELSE \A n \in 1 .. Done' : NewestDue(n)' => drive'[<<"final", "last">>] = <<launch', n>>
      BY <1>1, <2>1, <3>2, <3>3, <3>4
    <3>7. QED
      BY <3>5, <3>6 DEF DriveFollows
  <2>3. CASE ~(At' /\ Done > 0)
    BY <2>1, <2>3 DEF DriveFollows
  <2>4. QED
    BY <2>2, <2>3
<1>2. CASE pc' \in {"down", "bootstrap", "polling"}
  BY <1>2 DEF DriveFollows, Uploading
<1>3. CASE Polled \/ Cleanup \/ UNCHANGED <<pc, launch, rewards, todo, drive>>
  <2>1. UNCHANGED <<launch, rewards, todo, drive>>
    BY <1>3 DEF Polled, Cleanup, process, disks
  <2>2. At' => At \/ Done = 0
    BY <1>3 DEF Polled, Cleanup, Uploading, IInv, UploadFits, StepsFit
  <2>3. QED
    BY <1>1, <2>1, <2>2
<1>4. CASE Purge
  <2>1. Uploading /\ Staging \in Folders /\ Final \in Folders /\ Purged \in Folders /\ Label \in Range(todo)
    BY <1>4, Ready DEF Purge, Uploading, Purged
  <2>2. drive \in [Folders -> Whole \cup {Nothing, Partial}]
    BY DEF IInv, DisksTyped
  <2>3. \A f \in Folders : f # Purged => drive'[f] = drive[f]
    <3>1. drive' \in {[drive EXCEPT ![Purged] = Nothing], drive, PurgedInPart}
      BY <1>4 DEF Purge
    <3>2. QED
      BY <2>1, <2>2, <3>1 DEF PurgedInPart
  <2>4. \A l \in Labels : l # Label => <<"final", l>> \in Folders /\ <<"final", l>> # Purged
    BY DEF Folders, Purged, Staging, Final
  <2>5. \A l \in Labels : l \in Range(todo) \/ drive'[<<"final", l>>] = drive[<<"final", l>>]
    BY <2>1, <2>3, <2>4
  <2>6. UNCHANGED <<launch, rewards, todo>> /\ At
    BY <1>4, <2>1 DEF Purge
  <2>7. QED
    BY <1>1, <2>5, <2>6
<1>5. CASE Copy
  <2>1. Uploading /\ Staging \in Folders
    BY <1>5, Ready DEF Copy, Uploading
  <2>2. drive \in [Folders -> Whole \cup {Nothing, Partial}]
    BY DEF IInv, DisksTyped
  <2>3. \A l \in Labels : <<"final", l>> \in Folders /\ <<"final", l>> # Staging
    BY DEF Folders, Staging
  <2>4. \A l \in Labels : drive'[<<"final", l>>] = drive[<<"final", l>>]
    BY <1>5, <2>1, <2>2, <2>3 DEF Copy
  <2>5. UNCHANGED <<launch, rewards, todo>> /\ At
    BY <1>5, <2>1 DEF Copy, process
  <2>6. QED
    BY <1>1, <2>4, <2>5
<1>6. QED
  BY <1>2, <1>3, <1>4, <1>5, DueNext, DueUploaded
  DEF Next, Launch, Bootstrap, BecomesHealthy, StaleState, Finish, Interrupted, NoMoreLaunches, process, disks, vars

-----------------------------------------------------------------------------
(* The invariants of the driver.                                           *)

LEMMA Invariant == Spec => []IInv
<1>1. Init => IInv
  <2> SUFFICES ASSUME Init PROVE IInv
    OBVIOUS
  <2>1. Len(<< >>) = 0 /\ << >> \in Seq(RewardMeans) /\ DOMAIN << >> = {} /\ Range(<< >>) = {}
    BY DEF Range
  <2>2. ProgramTyped
    <3>1. rewards \in Seq(RewardMeans) /\ Done <= MaxIterations
      BY <2>1, Bounds DEF Init, Done
    <3>2. launch \in 0 .. MaxLaunches /\ faults \in 0 .. MaxFaults
      BY Bounds DEF Init
    <3>3. QED
      BY <3>1, <3>2 DEF Init, ProgramTyped
  <2>3. DisksTyped
    BY <2>1, Bounds DEF Init, DisksTyped
  <2>4. UploadFits
    BY <2>1 DEF Init, UploadFits, StepsFit, BestIsFirst, FoldersInSteps, DriveFollows, Uploading, Done
  <2>5. QED
    BY <2>2, <2>3, <2>4 DEF IInv
<1>2. IInv /\ [Next]_vars => IInv'
  <2> SUFFICES ASSUME IInv, [Next]_vars PROVE IInv'
    OBVIOUS
  <2>1. ProgramTyped' /\ DisksTyped'
    BY ProgramStep, DisksStep
  <2>2. StepsFit' /\ BestIsFirst' /\ FoldersInSteps' /\ DriveFollows'
    BY StepsFitStep, BestStep, FoldersStep, DriveStep
  <2>3. QED
    BY <2>1, <2>2 DEF IInv, UploadFits
<1>3. QED
  BY <1>1, <1>2, PTL DEF Spec

(* Every variable of the driver keeps its type, and best_reward_mean is    *)
(* the highest reward_mean of this program (main()).                       *)
THEOREM TypesCorrect == Spec => []TypeOK
<1>1. IInv => TypeOK
  <2> SUFFICES ASSUME IInv PROVE TypeOK
    OBVIOUS
  <2>1. rewards \in Seq(RewardMeans) /\ BestIsFirst /\ Done = Len(rewards) /\ DOMAIN rewards = 1 .. Done
    BY Means DEF IInv, UploadFits, ProgramTyped, Done
  <2>2. IF Len(rewards) = 0 THEN best = MinusInfinity
        ELSE \E n \in 1 .. Len(rewards) : rewards[n] = best /\ \A m \in 1 .. Len(rewards) : rewards[m] <= best
    BY <2>1 DEF BestIsFirst, IsFirstOfHighest
  <2>3. best = Max({MinusInfinity} \cup Range(rewards))
    BY <2>1, <2>2, HighestIsMax
  <2>4. QED
    BY <2>3 DEF IInv, TypeOK
<1>2. QED
  BY <1>1, Invariant, PTL

(* While an iteration uploads its labels, Drive has what is due for every  *)
(* label that is not waiting its turn, and every step of an upload finds   *)
(* the folders as the step before left them                                *)
(* (_upload_checkpoint_to_drive() and the loop of main()).                 *)
THEOREM UploadCorrect == Spec => []UploadAgrees
<1>1. IInv /\ TypeOK => UploadAgrees
  BY DEF IInv, UploadFits, UploadAgrees
<1>2. QED
  BY <1>1, Invariant, TypesCorrect, PTL

(* Whenever an iteration may begin and at the end, Drive holds the first   *)
(* checkpoint with the highest reward as "best" and the newest one that    *)
(* was due as "last" (gpu_math_grpo.py:354-363).                           *)
THEOREM DriveCorrect == Spec => []DriveHoldsBestAndLast
<1>1. IInv => DriveHoldsBestAndLast
  <2> SUFFICES ASSUME IInv, pc = "loop", Done > 0
               PROVE  /\ drive[<<"final", "best">>] = <<launch, FirstOfHighest(rewards)>>
                      /\ \A n \in 1 .. Done : NewestDue(n) => drive[<<"final", "last">>] = <<launch, n>>
    BY DEF DriveHoldsBestAndLast
  <2>1. todo = << >> /\ Range(<< >>) = {}
    BY DEF IInv, UploadFits, StepsFit, Range
  <2>2. QED
    BY <2>1 DEF IInv, UploadFits, DriveFollows
<1>2. QED
  BY <1>1, Invariant, PTL

(* A call that fails, and a program that is killed, take the last whole    *)
(* checkpoint of a label from Drive only where an earlier program left the *)
(* only copy in the staging folder, unless a purge failed unnoticed        *)
(* (gpu_math_grpo.py:105-106).                                             *)
LEMMA CheckpointKept ==
    ASSUME IInv, [Next]_vars, NEW label \in Labels, HasWhole(label), ~HasWhole(label)', ~unnoticed'
    PROVE  pc = "purgeStaging" /\ drive[<<"final", label>>] \notin Whole
<1> DEFINE s == <<"staging", label>>
           f == <<"final", label>>
<1>1. drive \in [Folders -> Whole \cup {Nothing, Partial}] /\ s \in Folders /\ f \in Folders /\ s # f
  BY DEF IInv, DisksTyped, Folders
<1>2. /\ (drive[f] \in Whole \/ drive[s] \in Whole) /\ drive'[f] \notin Whole /\ drive'[s] \notin Whole
  BY DEF HasWhole
<1>3. Nothing \notin Whole
  BY Bounds DEF Whole, Nothing, Versions
<1>4. ASSUME drive' = drive PROVE FALSE
  BY <1>2, <1>4
<1>5. ASSUME Uploading
      PROVE  /\ <<launch, Done>> \in Whole /\ exports[Done] = launch
             /\ Staging \in Folders /\ Final \in Folders /\ Staging # Final
             /\ label # Label => f # Final /\ s # Staging /\ f # Staging /\ s # Final
             /\ label = Label => f = Final /\ s = Staging
             /\ f # Staging /\ s # Final
  BY <1>5, Ready DEF Staging, Final
<1>6. ASSUME pc = "purgeStaging", \A g \in Folders : g # Staging => drive'[g] = drive[g]
      PROVE  pc = "purgeStaging" /\ drive[f] \notin Whole
  <2>1. f # Staging
    BY DEF Staging
  <2>2. QED
    BY <1>1, <1>2, <1>6, <2>1
<1>7. ASSUME pc = "purgeFinal", \A g \in Folders : g # Final => drive'[g] = drive[g]
      PROVE  FALSE
  <2>1. drive[Staging] = <<launch, Done>> /\ Uploading
    BY <1>7 DEF IInv, UploadFits, FoldersInSteps, Uploading
  <2>2. label # Label
    BY <1>1, <1>2, <1>5, <1>7, <2>1
  <2>3. QED
    BY <1>1, <1>2, <1>5, <1>7, <2>1, <2>2
<1>8. CASE Purge
  <2>1. Uploading /\ Purged \in Folders
    BY <1>5, <1>8 DEF Purge, Uploading, Purged
  <2>2. drive' \in {[drive EXCEPT ![Purged] = Nothing], drive, PurgedInPart}
    BY <1>8 DEF Purge
  <2>3. \A g \in Folders : g # Purged => drive'[g] = drive[g]
    BY <1>1, <2>1, <2>2 DEF PurgedInPart
  <2>4. CASE pc = "purgeStaging"
    BY <1>6, <2>3, <2>4 DEF Purged
  <2>5. CASE pc = "purgeFinal"
    BY <1>7, <2>3, <2>5 DEF Purged
  <2>6. QED
    BY <1>8, <2>4, <2>5 DEF Purge
<1>9. CASE Copy
  <2>1. Uploading /\ drive' = [drive EXCEPT ![Staging] = <<exports[Done], Done>>]
    BY <1>9 DEF Copy, Uploading
  <2>2. drive'[Staging] \in Whole
    BY <1>1, <1>5, <2>1
  <2>3. \A g \in Folders : g # Staging => drive'[g] = drive[g]
    BY <1>1, <2>1
  <2>4. QED
    BY <1>1, <1>2, <1>5, <2>1, <2>2, <2>3
<1>10. CASE Move
  <2>1. Uploading /\ drive[Staging] = <<launch, Done>>
    BY <1>10 DEF Move, Uploading, IInv, UploadFits, FoldersInSteps
  <2>2. drive' = [drive EXCEPT ![Final] = drive[Staging], ![Staging] = Nothing]
    BY <1>10 DEF Move
  <2>3. drive'[Final] \in Whole
    BY <1>1, <1>5, <2>1, <2>2
  <2>4. \A g \in Folders : g # Staging /\ g # Final => drive'[g] = drive[g]
    BY <1>1, <2>2
  <2>5. QED
    BY <1>1, <1>2, <1>5, <2>1, <2>3, <2>4
<1>11. CASE Interrupted
  <2>1. drive' \in Midway /\ unnoticed' = unnoticed
    BY <1>4, <1>11 DEF Interrupted, process
  <2>2. CASE pc = "purgeStaging"
    <3>1. Uploading /\ drive' = PurgedInPart /\ Purged = Staging
      BY <2>1, <2>2 DEF Midway, Uploading, Purged
    <3>2. \A g \in Folders : g # Staging => drive'[g] = drive[g]
      BY <1>1, <3>1 DEF PurgedInPart
    <3>3. QED
      BY <1>6, <2>2, <3>2
  <2>3. CASE pc = "purgeFinal"
    <3>1. Uploading /\ drive' = PurgedInPart /\ Purged = Final
      BY <2>1, <2>3 DEF Midway, Uploading, Purged
    <3>2. \A g \in Folders : g # Final => drive'[g] = drive[g]
      BY <1>1, <3>1 DEF PurgedInPart
    <3>3. QED
      BY <1>7, <2>3, <3>2
  <2>4. CASE pc = "copy"
    <3>1. Uploading /\ drive' = [drive EXCEPT ![Staging] = Partial]
      BY <2>1, <2>4 DEF Midway, Uploading
    <3>2. drive[Staging] = Nothing
      BY <2>1, <2>4 DEF IInv, UploadFits, FoldersInSteps
    <3>3. \A g \in Folders : g # Staging => drive'[g] = drive[g]
      BY <1>1, <3>1
    <3>4. QED
      BY <1>1, <1>2, <1>3, <1>5, <3>1, <3>2, <3>3
  <2>5. CASE pc = "move"
    <3>1. FALSE
      BY <2>1, <2>5 DEF Midway, IInv, UploadFits, FoldersInSteps
    <3>2. QED
      BY <3>1
  <2>6. QED
    BY <2>1, <2>2, <2>3, <2>4, <2>5 DEF Midway
<1>12. CASE drive' = drive
  BY <1>4, <1>12
<1>13. QED
  BY <1>8, <1>9, <1>10, <1>11, <1>12
  DEF Next, Launch, Bootstrap, BecomesHealthy, Polled, Iterate, StaleState, Cleanup, Finish, NoMoreLaunches, disks, vars

(* "A failed/partial upload never destroys the still-good previous         *)
(* version" (gpu_math_grpo.py:105-106), within a program and unless a      *)
(* purge failed unnoticed: the steps of _upload_checkpoint_to_drive().     *)
THEOREM UploadKeepsCorrect == Spec => UploadKeepsCheckpoint
<1>1. IInv /\ [Next]_vars =>
        [\A label \in Labels :
           (HasWhole(label) /\ ~HasWhole(label)' /\ ~unnoticed')
              => pc = "purgeStaging" /\ drive[<<"final", label>>] \notin Whole]_vars
  BY CheckpointKept
<1>2. QED
  BY <1>1, Invariant, PTL DEF Spec, UploadKeepsCheckpoint
=============================================================================
