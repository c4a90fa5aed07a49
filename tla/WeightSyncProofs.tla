------------------------- MODULE WeightSyncProofs -------------------------
(***************************************************************************)
(* What the synchronisation of weights guarantees for every checkpoint,    *)
(* chunk size, window and number of versions, attempts and faults.         *)
(***************************************************************************)
EXTENDS WeightSync, SequenceTheorems, TLAPS

LEMMA Bounds ==
    /\ ChunkSize \in Nat /\ ChunkSize > 0 /\ Window \in Nat /\ Window > 0
    /\ MaxVersions \in Nat /\ MaxAttempts \in Nat /\ MaxAttempts > 0 /\ MaxFaults \in Nat
    /\ Len(Sizes) \in Nat /\ Len(Sizes) > 0 /\ Files = 1 .. Len(Sizes)
    /\ \A f \in Files : Sizes[f] \in Nat
<1>1. Sizes \in Seq(Nat) /\ Sizes # << >>
  BY WeightSyncAssumption
<1>2. Len(Sizes) \in Nat /\ DOMAIN Sizes = 1 .. Len(Sizes) /\ \A f \in 1 .. Len(Sizes) : Sizes[f] \in Nat
  BY <1>1, LenProperties, ElementOfSeq
<1>3. Len(Sizes) # 0
  BY <1>1, EmptySeq
<1>4. QED
  BY <1>2, <1>3, WeightSyncAssumption DEF Files

-----------------------------------------------------------------------------
(* Chunks *)

LEMMA Quotient ==
    ASSUME NEW a \in Int, NEW c \in Nat \ {0}, NEW q \in Int, NEW r \in 0 .. c - 1, a = q * c + r
    PROVE  a \div c = q /\ a % c = r
  OBVIOUS

LEMMA Divides ==
    ASSUME NEW a \in Nat, NEW c \in Nat \ {0}, a % c = 0
    PROVE  a \div c \in Nat /\ a = (a \div c) * c
<1>1. a \div c \in Int /\ a = (a \div c) * c
  BY SMT
<1>2. a \div c >= 0
  <2>1. SUFFICES ASSUME a \div c <= -1 PROVE FALSE
    BY <1>1
  <2>2. (a \div c) * c <= (-1) * c
    BY <1>1, <2>1
  <2>3. QED
    BY <1>1, <2>2
<1>3. QED
  BY <1>1, <1>2

(* Before the first chunk of a file.                                       *)
LEMMA NothingWritten ==
    ASSUME NEW f \in Files
    PROVE  /\ Written(f, Sizes[f]) = 0
           /\ (Sizes[f] - Sizes[f]) % ChunkSize = 0
<1>1. Sizes[f] \in Nat /\ ChunkSize \in Nat \ {0}
  BY Bounds
<1>2. Sizes[f] - Sizes[f] = 0 /\ 0 \div ChunkSize = 0 /\ 0 % ChunkSize = 0
  BY <1>1
<1>3. CASE Sizes[f] = 0
  <2>1. Sizes[f] + ChunkSize - 1 = 0 * ChunkSize + (ChunkSize - 1) /\ ChunkSize - 1 \in 0 .. ChunkSize - 1
    BY <1>1, <1>3
  <2>2. (Sizes[f] + ChunkSize - 1) \div ChunkSize = 0
    BY <1>1, <2>1, Quotient
  <2>3. QED
    BY <1>2, <1>3, <2>2 DEF Written, ChunkCount
<1>4. CASE Sizes[f] # 0
  BY <1>2, <1>4 DEF Written, ChunkOf
<1>5. QED
  BY <1>3, <1>4

(* A chunk is written where the chunks before it end.                      *)
LEMMA ChunkWritten ==
    ASSUME NEW f \in Files, NEW remaining \in Nat, remaining # 0, remaining <= Sizes[f],
           (Sizes[f] - remaining) % ChunkSize = 0
    PROVE  /\ ChunkOf(f, remaining) \in Nat /\ ChunkOf(f, remaining) >= 1
           /\ Written(f, remaining) = ChunkOf(f, remaining) - 1
           /\ Written(f, Rest(remaining)) = ChunkOf(f, remaining)
           /\ Rest(remaining) \in Nat /\ Rest(remaining) <= Sizes[f]
           /\ Rest(remaining) # 0 => (Sizes[f] - Rest(remaining)) % ChunkSize = 0
<1> DEFINE c == ChunkSize
           q == (Sizes[f] - remaining) \div c
<1>1. Sizes[f] \in Nat /\ c \in Nat \ {0} /\ Sizes[f] - remaining \in Nat
  BY Bounds
<1>2. q \in Nat /\ Sizes[f] - remaining = q * c
  BY <1>1, Divides
<1>3. ChunkOf(f, remaining) = q + 1
  BY DEF ChunkOf
<1> HIDE DEF q, c
<1>4. Rest(remaining) \in Nat /\ Rest(remaining) <= Sizes[f]
  BY <1>1 DEF Rest, c
<1>5. CASE remaining > c
  <2>1. Rest(remaining) = remaining - c /\ Rest(remaining) # 0
    BY <1>1, <1>5 DEF Rest, c
  <2>2. Sizes[f] - Rest(remaining) = (q + 1) * c + 0
    <3>1. Sizes[f] - Rest(remaining) = (Sizes[f] - remaining) + c
      BY <1>1, <2>1
    <3>2. (q + 1) * c + 0 = q * c + c
      BY <1>1, <1>2
    <3>3. QED
      BY <1>2, <3>1, <3>2
  <2>3. (Sizes[f] - Rest(remaining)) \div c = q + 1 /\ (Sizes[f] - Rest(remaining)) % c = 0
    <3>1. Sizes[f] - Rest(remaining) \in Int /\ q + 1 \in Int /\ 0 \in 0 .. c - 1
      BY <1>1, <1>2, <1>4
    <3>2. ASSUME NEW a \in Int, NEW d \in Int, a = d * c + 0
          PROVE  a \div c = d /\ a % c = 0
      BY <1>1, <3>1, <3>2, Quotient
    <3>3. QED
      BY <2>2, <3>1, <3>2
  <2>4. Written(f, Rest(remaining)) = q + 1
    BY <1>2, <2>1, <2>3 DEF Written, ChunkOf, c
  <2>5. QED
    BY <1>2, <1>3, <1>4, <2>3, <2>4 DEF Written, c
<1>6. CASE remaining <= c
  <2>1. Rest(remaining) = 0
    BY <1>1, <1>6 DEF Rest, c
  <2>2. Sizes[f] + c - 1 = (q + 1) * c + (remaining - 1) /\ remaining - 1 \in 0 .. c - 1
    <3>1. (q + 1) * c = q * c + c
      BY <1>1, <1>2
    <3>2. QED
      BY <1>1, <1>2, <1>6, <3>1
  <2>3. (Sizes[f] + c - 1) \div c = q + 1
    <3>1. Sizes[f] + c - 1 \in Int /\ q + 1 \in Int
      BY <1>1, <1>2
    <3>2. QED
      BY <1>1, <2>2, <3>1, Quotient
  <2>4. Written(f, Rest(remaining)) = q + 1
    BY <2>1, <2>3 DEF Written, ChunkCount, c
  <2>5. QED
    BY <1>2, <1>3, <1>4, <2>1, <2>4 DEF Written
<1>7. QED
  BY <1>1, <1>5, <1>6

-----------------------------------------------------------------------------
(* Types *)

Numbers ==
    /\ pc \in {"idle", "receiving", "sending", "restart", "cleanup", "stopped"}
    /\ version \in 0 .. MaxVersions
    /\ attempt \in 0 .. MaxAttempts
    /\ job \in 0 .. MaxVersions * MaxAttempts
    /\ jobOf \in [Jobs -> 0 .. MaxVersions]
    /\ served \in 0 .. MaxVersions
    /\ synced \in 0 .. MaxVersions
    /\ faults \in 0 .. MaxFaults

Chunk == {"none", "good", "bad"}
Disks ==
    /\ part \in [Places -> Inodes \cup {NoInode}]
    /\ final \in [Places -> Inodes \cup {NoInode}]
    /\ content \in [Inodes -> [Chunks -> Chunk]]
    /\ loaded \in [Files -> [Chunks -> Chunk]]

Transfers ==
    /\ sender \in [Jobs -> Process]
    /\ receiver \in [Jobs -> Receiver]
    /\ wire \in [Jobs -> Seq({"good", "bad"})] /\ \A j \in Jobs : Len(wire[j]) <= Window
    /\ acked \subseteq Jobs

LEMMA TypedParts == TypeOK <=> Numbers /\ Disks /\ Transfers
  BY DEF TypeOK, Numbers, Disks, Transfers, Places, Chunk


(* Calls *)

LEMMA JobNumbers ==
    ASSUME Numbers, CallsFit
    PROVE  /\ job \in Nat /\ MaxVersions * MaxAttempts \in Nat
           /\ version # 0 => job \in Jobs /\ version \in Versions /\ jobOf[job] = version
           /\ pc # "idle" => version # 0
           /\ version = 0 => job = 0
<1>1. MaxVersions * MaxAttempts \in Nat /\ job \in 0 .. MaxVersions * MaxAttempts /\ version \in 0 .. MaxVersions
  BY Bounds DEF Numbers
<1>2. ASSUME version # 0
      PROVE  job \in Jobs /\ version \in Versions /\ jobOf[job] = version
  <2>1. job \in 1 .. (version - 1) * MaxAttempts + attempt /\ jobOf[job] = version
    BY <1>2 DEF CallsFit
  <2>2. job # 0
    BY <2>1
  <2>3. QED
    BY <1>1, <1>2, <2>1, <2>2, Bounds DEF Jobs, Versions
<1>3. QED
  BY <1>1, <1>2 DEF CallsFit

(* The number of the next call is one of the bound.                        *)
LEMMA NextJob ==
    ASSUME Numbers, CallsFit, Sync
    PROVE  /\ job + 1 \in Jobs /\ job' = job + 1 /\ job' \in 0 .. MaxVersions * MaxAttempts
           /\ version' \in Versions /\ version' # 0 /\ version' >= version
           /\ attempt' \in 1 .. MaxAttempts
           /\ job + 1 \in 1 .. (version' - 1) * MaxAttempts + attempt'
           /\ (version' = version \/ (version = synced /\ version' = version + 1))
<1> DEFINE M == MaxAttempts
           V == MaxVersions
<1>1. M \in Nat \ {0} /\ V \in Nat /\ version \in 0 .. V /\ attempt \in 0 .. M /\ job \in Nat
  BY Bounds, JobNumbers DEF Numbers
<1>2. version \in Nat /\ attempt \in Nat
  BY <1>1
<1>3. version # 0 => job \in 1 .. (version - 1) * M + attempt
  BY DEF CallsFit
<1>4. pc = "idle" /\ job' = job + 1
  BY DEF Sync
<1>5. ASSUME NEW w \in 1 .. V, NEW a \in 1 .. M, job + 1 <= (w - 1) * M + a
      PROVE  job + 1 <= V * M
  <2>1. (w - 1) * M <= (V - 1) * M
    BY <1>1
  <2>2. (V - 1) * M + M = V * M
    BY <1>1
  <2>3. (w - 1) * M \in Int /\ (V - 1) * M \in Int /\ V * M \in Int
    BY <1>1
  <2>4. QED
    BY <1>1, <1>5, <2>1, <2>2, <2>3
<1>6. /\ version' \in 1 .. V /\ attempt' \in 1 .. M /\ job + 1 <= (version' - 1) * M + attempt'
      /\ version' >= version /\ (version' = version \/ (version = synced /\ version' = version + 1))
  <2>1. CASE version # synced /\ version' = version /\ attempt' = attempt + 1
    <3>1. version # 0
      BY <1>4, <2>1, <1>1 DEF CallsFit, Numbers
    <3>2. attempt < M
      BY <1>4, <2>1 DEF CallsFit
    <3>3. job <= (version - 1) * M + attempt /\ (version - 1) * M \in Int
      BY <1>1, <1>3, <3>1
    <3>4. job + 1 <= (version - 1) * M + (attempt + 1)
      BY <1>1, <1>2, <3>3
    <3>5. QED
      BY <1>1, <1>2, <2>1, <3>1, <3>2, <3>4
  <2>2. CASE version = synced /\ version < V /\ version' = version + 1 /\ attempt' = 1
    <3>1. job <= version * M
      <4>1. CASE version = 0
        BY <1>1, <4>1 DEF CallsFit
      <4>2. CASE version # 0
        <5>1. (version - 1) * M + M = version * M /\ (version - 1) * M \in Int
          BY <1>1, <1>2
        <5>2. QED
          BY <1>1, <1>2, <1>3, <4>2, <5>1
      <4>3. QED
        BY <4>1, <4>2
    <3>2. (version + 1) - 1 = version /\ version * M \in Int
      BY <1>1, <1>2
    <3>3. job + 1 <= ((version + 1) - 1) * M + 1
      BY <1>1, <3>1, <3>2
    <3>4. QED
      BY <1>1, <1>2, <2>2, <3>3
  <2>3. QED
    BY <2>1, <2>2 DEF Sync
<1>7. job + 1 <= V * M
  BY <1>5, <1>6
<1>8. job + 1 \in 1 .. V * M /\ job + 1 \in 0 .. V * M
  <2>1. V * M \in Nat
    BY <1>1
  <2>2. QED
    BY <1>1, <1>7, <2>1
<1>9. job + 1 \in 1 .. (version' - 1) * M + attempt'
  <2>1. (version' - 1) * M + attempt' \in Int
    <3>1. version' \in Int /\ attempt' \in Int
      BY <1>1, <1>6
    <3>2. QED
      BY <1>1, <3>1
  <2>2. ASSUME NEW n \in Int, job + 1 <= n
        PROVE  job + 1 \in 1 .. n
    BY <1>1, <2>2
  <2>3. QED
    BY <1>6, <2>1, <2>2
<1>10. job + 1 \in Jobs /\ version' \in Versions /\ version' # 0
  BY <1>1, <1>6, <1>8 DEF Jobs, Versions
<1>11. QED
  BY <1>4, <1>6, <1>8, <1>9, <1>10

LEMMA CallsStep ==
    ASSUME Numbers, CallsFit, [Next]_vars
    PROVE  Numbers' /\ CallsFit'
<1>1. ASSUME Fault PROVE faults' \in 0 .. MaxFaults
  BY <1>1, Bounds DEF Fault, Numbers
<1>2. CASE UNCHANGED <<pc, call, served, synced>> /\ (Fault \/ UNCHANGED faults)
  BY <1>1, <1>2 DEF Numbers, CallsFit, call
<1>3. CASE Sync
  <2>1. /\ pc' = "receiving" /\ jobOf' = [jobOf EXCEPT ![job + 1] = version']
        /\ UNCHANGED <<served, synced, faults>>
    BY <1>3 DEF Sync, stages
  <2>2. /\ job + 1 \in Jobs /\ job' = job + 1 /\ job' \in 0 .. MaxVersions * MaxAttempts
        /\ version' \in Versions /\ version' # 0 /\ version' >= version
        /\ attempt' \in 1 .. MaxAttempts /\ job' \in 1 .. (version' - 1) * MaxAttempts + attempt'
    BY <1>3, NextJob
  <2>3. jobOf' \in [Jobs -> 0 .. MaxVersions] /\ jobOf'[job'] = version'
    BY <2>1, <2>2, Bounds DEF Numbers, Versions
  <2>4. version' \in 0 .. MaxVersions /\ attempt' \in 0 .. MaxAttempts
    BY <2>2, Bounds DEF Versions
  <2>5. synced' <= version' /\ served' <= version'
    BY <2>1, <2>2, <2>4, Bounds DEF Numbers, CallsFit
  <2>6. Numbers'
    BY <2>1, <2>2, <2>3, <2>4 DEF Numbers
  <2>7. CallsFit'
    BY <2>1, <2>2, <2>3, <2>5 DEF CallsFit
  <2>8. QED
    BY <2>6, <2>7
<1>4. ASSUME pc # "idle", UNCHANGED <<call, synced>>, Fault \/ UNCHANGED faults,
             served' \in {0, served, version},
             pc' \in {"sending", "restart", "cleanup"} \/ RaisesInto(pc')
      PROVE  Numbers' /\ CallsFit'
  <2>1. pc' \in {"sending", "restart", "cleanup", "idle", "stopped"} /\ (pc' = "idle" => attempt < MaxAttempts)
    BY <1>4 DEF RaisesInto
  <2>2. served' \in 0 .. MaxVersions /\ served' <= version /\ faults' \in 0 .. MaxFaults
    BY <1>1, <1>4, Bounds DEF Numbers, CallsFit
  <2>3. Numbers'
    BY <1>4, <2>1, <2>2 DEF Numbers, call
  <2>4. CallsFit'
    BY <1>4, <2>1, <2>2 DEF CallsFit, call
  <2>5. QED
    BY <2>3, <2>4
<1>5. CASE Send \/ LaunchFails \/ SendReturns \/ SendRaises \/ PollFails \/ CleanupRaises
  BY <1>4, <1>5 DEF Send, LaunchFails, SendReturns, SendRaises, PollFails, CleanupRaises, stages
<1>6. CASE Restart \/ RestartFails
  BY <1>4, <1>6 DEF Restart, RestartFails
<1>7. CASE Cleanup
  <2>1. /\ pc = "cleanup" /\ pc' = "idle" /\ synced' = version /\ UNCHANGED <<call, served>>
        /\ Fault \/ UNCHANGED faults
    BY <1>7 DEF Cleanup, stages
  <2>2. faults' \in 0 .. MaxFaults
    BY <1>1, <2>1 DEF Numbers
  <2>3. Numbers'
    BY <2>1, <2>2 DEF Numbers, call
  <2>4. CallsFit'
    BY <2>1, Bounds DEF CallsFit, call, Numbers
  <2>5. QED
    BY <2>3, <2>4
<1>8. CASE \E j \in Jobs : TransferStep(j) \/ Fails(j)
  <2>1. UNCHANGED <<pc, call, stages, synced>> /\ (Fault \/ UNCHANGED faults)
    BY <1>8 DEF TransferStep, Fails, ProcessFails, SenderOpens, SenderSends, SenderReturns, ReceiverOpens,
                ReceiverWrites, ReceiverReplaces, ReceiverRejects, ReceiverAcks
  <2>2. QED
    BY <1>2, <2>1 DEF stages
<1>9. CASE PollAgain \/ Finished \/ UNCHANGED vars
  BY <1>2, <1>9 DEF PollAgain, Finished, vars, stages
<1>10. QED
  BY <1>3, <1>5, <1>6, <1>7, <1>8, <1>9 DEF Next, CallStep

-----------------------------------------------------------------------------
(* Processes *)

LEMMA ProcessTyped ==
    ASSUME NEW at \in Process
    PROVE  /\ at.st \in {"none", "run", "done", "failed"} /\ at.file \in 0 .. Len(Sizes) + 1 /\ at.remaining \in Nat
           /\ at.file \in Nat
           /\ \A st \in {"none", "run", "done", "failed"} :
                LET k == [at EXCEPT !.st = st]
                IN k \in Process /\ k.st = st /\ k.file = at.file /\ k.remaining = at.remaining
           /\ \A n \in Nat :
                LET k == [at EXCEPT !.remaining = n]
                IN k \in Process /\ k.st = at.st /\ k.file = at.file /\ k.remaining = n
<1>1. at.st \in {"none", "run", "done", "failed"} /\ at.file \in 0 .. Len(Sizes) + 1 /\ at.remaining \in Nat
  BY DEF Process
<1>2. ASSUME NEW st \in {"none", "run", "done", "failed"}
      PROVE  LET k == [at EXCEPT !.st = st]
             IN k \in Process /\ k.st = st /\ k.file = at.file /\ k.remaining = at.remaining
  BY DEF Process
<1>3. ASSUME NEW n \in Nat
      PROVE  LET k == [at EXCEPT !.remaining = n]
             IN k \in Process /\ k.st = at.st /\ k.file = at.file /\ k.remaining = n
  BY DEF Process
<1>4. QED
  BY <1>1, <1>2, <1>3, Bounds

LEMMA StTyped ==
    ASSUME NEW at \in Process, NEW st \in {"none", "run", "done", "failed"}, NEW k, k = [at EXCEPT !.st = st]
    PROVE  k \in Process /\ k.st = st /\ k.file = at.file /\ k.remaining = at.remaining
  BY DEF Process

LEMMA RemainingTyped ==
    ASSUME NEW at \in Process, NEW n \in Nat, NEW k, k = [at EXCEPT !.remaining = n]
    PROVE  k \in Process /\ k.st = at.st /\ k.file = at.file /\ k.remaining = n
  BY DEF Process

LEMMA StartTyped ==
    /\ NotStarted \in Process /\ Started \in Process
    /\ NotStarted.st = "none" /\ NotStarted.file = 0 /\ NotStarted.remaining = 0
    /\ Started.st = "run" /\ Started.file = 0 /\ Started.remaining = 0
    /\ NoHandle.inode = NoInode /\ NoHandle.bad = FALSE
  BY Bounds DEF NotStarted, Started, NoHandle, Process

LEMMA SenderMoves ==
    ASSUME Transfers, NEW j \in Jobs, NEW at \in Process, SenderIs(j, at)
    PROVE  /\ sender' \in [Jobs -> Process] /\ sender'[j] = at
           /\ \A k \in Jobs : k # j => sender'[k] = sender[k]
  BY DEF Transfers, SenderIs

Handle == [inode: Inodes \cup {NoInode}, bad: BOOLEAN]

LEMMA ReceiverMoves ==
    ASSUME Transfers, NEW j \in Jobs, NEW at \in Process, NEW handle \in Handle, ReceiverIs(j, at, handle)
    PROVE  /\ receiver' \in [Jobs -> Receiver] /\ receiver'[j].at = at /\ receiver'[j].handle = handle
           /\ \A k \in Jobs : k # j => receiver'[k] = receiver[k]
<1>1. [at |-> at, handle |-> handle] \in Receiver
  BY DEF Receiver, Handle
<1>2. receiver' = [receiver EXCEPT ![j] = [at |-> at, handle |-> handle]] /\ receiver \in [Jobs -> Receiver]
  BY DEF ReceiverIs, Transfers
<1>3. receiver' \in [Jobs -> Receiver] /\ receiver'[j] = [at |-> at, handle |-> handle]
      /\ \A k \in Jobs : k # j => receiver'[k] = receiver[k]
  BY <1>1, <1>2
<1>4. QED
  BY <1>3

LEMMA ReceiverTyped ==
    ASSUME Transfers, NEW j \in Jobs
    PROVE  /\ sender[j] \in Process /\ receiver[j].at \in Process /\ receiver[j].handle \in Handle
           /\ receiver[j].handle.inode \in Inodes \cup {NoInode} /\ receiver[j].handle.bad \in BOOLEAN
           /\ NoHandle \in Handle /\ wire[j] \in Seq({"good", "bad"}) /\ Len(wire[j]) \in Nat
<1>1. receiver[j] \in Receiver /\ sender[j] \in Process /\ wire[j] \in Seq({"good", "bad"})
  BY DEF Transfers
<1>2. receiver[j].at \in Process /\ receiver[j].handle \in Handle
  BY <1>1 DEF Receiver, Handle
<1>3. NoHandle \in Handle
  BY DEF NoHandle, Handle
<1>4. QED
  BY <1>1, <1>2, <1>3, LenProperties DEF Handle

LEMMA Fields ==
    ASSUME Transfers, NEW j \in Jobs
    PROVE  /\ sender[j].st \in {"none", "run", "done", "failed"} /\ receiver[j].at.st \in {"none", "run", "done", "failed"}
           /\ sender[j].file \in 0 .. Len(Sizes) + 1 /\ receiver[j].at.file \in 0 .. Len(Sizes) + 1
           /\ sender[j].file \in Nat /\ receiver[j].at.file \in Nat
           /\ sender[j].remaining \in Nat /\ receiver[j].at.remaining \in Nat
  BY ReceiverTyped, ProcessTyped

LEMMA RestTyped == \A n \in Nat : Rest(n) \in Nat
  BY Bounds DEF Rest

Typed == Numbers /\ Disks /\ Transfers /\ CallsFit /\ JobsFit

\* The steps that fail one or the other process of a transfer.
LEMMA FailsEffect ==
    ASSUME Typed, NEW j \in Jobs, ProcessFails(j)
    PROVE  \/ SenderEnds(j, "failed") /\ UNCHANGED receiver /\ sender[j].st = "run"
           \/ ReceiverEnds(j, "failed") /\ UNCHANGED sender /\ receiver[j].at.st = "run"
  BY DEF ProcessFails, PeerGone, R

\* A process that runs is one of a call that was made.
LEMMA RunsForVersion ==
    ASSUME Typed, NEW j \in Jobs, sender[j].st # "none" \/ receiver[j].at.st # "none"
    PROVE  j <= job /\ jobOf[j] \in Versions
<1>1. CASE j <= job
  BY <1>1 DEF Typed, JobsFit
<1>2. CASE ~(j <= job)
  <2>1. sender[j] = NotStarted /\ receiver[j] = [at |-> NotStarted, handle |-> NoHandle]
    BY <1>2 DEF Typed, JobsFit
  <2>2. QED
    BY <2>1, StartTyped
<1>3. QED
  BY <1>1, <1>2

LEMMA TransfersStep ==
    ASSUME Typed, [Next]_vars
    PROVE  Transfers'
<1> USE DEF Typed
<1>1. ASSUME UNCHANGED <<wire, acked>>, sender' \in [Jobs -> Process], receiver' \in [Jobs -> Receiver]
      PROVE  Transfers'
  BY <1>1 DEF Transfers
<1>2. ASSUME NEW j \in Jobs, NEW at \in Process, SenderIs(j, at)
      PROVE  sender' \in [Jobs -> Process]
  BY <1>2, SenderMoves
<1>3. ASSUME NEW j \in Jobs, NEW at \in Process, NEW handle \in Handle, ReceiverIs(j, at, handle)
      PROVE  receiver' \in [Jobs -> Receiver]
  BY <1>3, ReceiverMoves
<1>4. ASSUME NEW j \in Jobs, NEW st \in {"none", "run", "done", "failed"}, SenderEnds(j, st)
      PROVE  sender' \in [Jobs -> Process]
  BY <1>2, <1>4, ProcessTyped, ReceiverTyped DEF SenderEnds
<1>5. ASSUME NEW j \in Jobs, NEW st \in {"none", "run", "done", "failed"}, ReceiverEnds(j, st)
      PROVE  receiver' \in [Jobs -> Receiver]
  BY <1>3, <1>5, ProcessTyped, ReceiverTyped DEF ReceiverEnds
<1>6. CASE UNCHANGED transfer
  BY <1>1, <1>6 DEF transfer, Transfers
<1>7. CASE Sync
  <2>1. job + 1 \in Jobs
    BY <1>7, NextJob
  <2>2. ReceiverIs(job + 1, Started, NoHandle) /\ UNCHANGED <<sender, wire, acked>>
    BY <1>7 DEF Sync
  <2>3. receiver' \in [Jobs -> Receiver]
    BY <1>3, <2>1, <2>2, StartTyped, ReceiverTyped
  <2>4. QED
    BY <1>1, <2>2, <2>3 DEF Transfers
<1>8. CASE Send \/ LaunchFails
  <2>1. job \in Jobs
    BY <1>8, JobNumbers DEF Send, LaunchFails
  <2>2. /\ UNCHANGED <<wire, acked>>
        /\ \/ UNCHANGED <<sender, receiver>>
           \/ SenderIs(job, Started) /\ UNCHANGED receiver
           \/ ReceiverEnds(job, "failed") /\ UNCHANGED sender
    BY <1>8 DEF Send, LaunchFails
  <2>3. CASE UNCHANGED <<sender, receiver>>
    BY <1>1, <2>2, <2>3 DEF Transfers
  <2>4. CASE SenderIs(job, Started) /\ UNCHANGED receiver
    BY <1>1, <1>2, <2>1, <2>2, <2>4, StartTyped DEF Transfers
  <2>5. CASE ReceiverEnds(job, "failed") /\ UNCHANGED sender
    BY <1>1, <1>5, <2>1, <2>2, <2>5 DEF Transfers
  <2>6. QED
    BY <2>2, <2>3, <2>4, <2>5
<1>9. ASSUME NEW j \in Jobs, SenderOpens(j)
      PROVE  Transfers'
  <2>1. sender[j].file + 1 \in 0 .. Len(Sizes) + 1 /\ \A f \in Files : Sizes[f] \in Nat
    BY <1>9, Fields, Bounds DEF SenderOpens
  <2>2. PICK at \in Process : SenderIs(j, at)
    <3> DEFINE f == sender[j].file + 1
               at == [st |-> "run", file |-> f, remaining |-> IF f \in Files THEN Sizes[f] ELSE 0]
    <3>1. at \in Process
      BY <2>1 DEF Process
    <3>2. SenderIs(j, at)
      BY <1>9 DEF SenderOpens
    <3>3. QED
      BY <3>1, <3>2
  <2>3. QED
    BY <1>1, <1>2, <1>9, <2>2 DEF SenderOpens, Transfers
<1>10. ASSUME NEW j \in Jobs, SenderSends(j)
       PROVE  Transfers'
  <2>1. Rest(sender[j].remaining) \in Nat
    BY Fields, RestTyped
  <2>2. sender' \in [Jobs -> Process]
    BY <1>2, <1>10, <2>1, ProcessTyped, ReceiverTyped DEF SenderSends
  <2>3. PICK c \in {"good", "bad"} : wire' = [wire EXCEPT ![j] = Append(wire[j], c)]
    BY <1>10 DEF SenderSends
  <2>4. Append(wire[j], c) \in Seq({"good", "bad"}) /\ Len(Append(wire[j], c)) = Len(wire[j]) + 1
    BY ReceiverTyped, AppendProperties
  <2>5. Len(Append(wire[j], c)) <= Window
    BY <1>10, <2>4, ReceiverTyped, Bounds DEF SenderSends
  <2>6. wire' \in [Jobs -> Seq({"good", "bad"})] /\ wire'[j] = Append(wire[j], c)
        /\ \A k \in Jobs : k # j => wire'[k] = wire[k]
    BY <2>3, <2>4 DEF Transfers
  <2>7. \A k \in Jobs : Len(wire'[k]) <= Window
    BY <2>5, <2>6 DEF Transfers
  <2>8. UNCHANGED <<receiver, acked>>
    BY <1>10 DEF SenderSends
  <2>9. QED
    BY <2>2, <2>6, <2>7, <2>8 DEF Transfers
<1>11. ASSUME NEW j \in Jobs, SenderReturns(j)
       PROVE  Transfers'
  BY <1>1, <1>4, <1>11 DEF SenderReturns, Transfers
<1>12. ASSUME NEW j \in Jobs, ReceiverOpens(j)
       PROVE  Transfers'
  <2> DEFINE f == R(j).file + 1
             p == <<jobOf[j], f>>
             i == IF part[p] = NoInode THEN <<j, f>> ELSE part[p]
             at == [st |-> "run", file |-> f, remaining |-> Announced(f)]
             handle == [inode |-> i, bad |-> FALSE]
  <2>1. ReceiverIs(j, at, handle) /\ R(j).file < Len(Sizes) /\ UNCHANGED <<sender, wire, acked>>
    BY <1>12 DEF ReceiverOpens
  <2>2. f \in Files /\ f \in 0 .. Len(Sizes) + 1 /\ Announced(f) \in Nat
    BY <2>1, Fields, Bounds DEF R, Announced
  <2>3. at \in Process
    BY <2>2 DEF Process
  <2>4. i \in Inodes \cup {NoInode}
    <3>1. CASE part[p] = NoInode
      BY <2>2, <3>1 DEF Inodes
    <3>2. CASE part[p] # NoInode
      <4>1. jobOf[j] \in Versions
        BY <1>12, RunsForVersion DEF ReceiverOpens, R
      <4>2. p \in Places
        BY <2>2, <4>1 DEF Places
      <4>3. QED
        BY <3>2, <4>2 DEF Disks
    <3>3. QED
      BY <3>1, <3>2
  <2>5. handle \in Handle
    BY <2>4 DEF Handle
  <2>6. receiver' \in [Jobs -> Receiver]
    <3> HIDE DEF at, handle
    <3>1. QED
      BY <1>3, <2>1, <2>3, <2>5
  <2>7. QED
    BY <1>1, <2>1, <2>6 DEF Transfers
<1>13. ASSUME NEW j \in Jobs, ReceiverWrites(j)
       PROVE  Transfers'
  <2> DEFINE i == receiver[j].handle.inode
             at == [R(j) EXCEPT !.remaining = Rest(R(j).remaining)]
             handle == [inode |-> i, bad |-> receiver[j].handle.bad \/ Head(wire[j]) = "bad"]
  <2>1. ReceiverIs(j, at, handle) /\ UNCHANGED <<sender, acked>> /\ wire' = [wire EXCEPT ![j] = Tail(wire[j])]
        /\ wire[j] # << >>
    BY <1>13 DEF ReceiverWrites
  <2>2. at \in Process
    <3>1. Rest(R(j).remaining) \in Nat
      BY Fields, RestTyped DEF R
    <3>2. QED
      BY <3>1, ProcessTyped, ReceiverTyped DEF R
  <2>3. handle \in Handle
    BY ReceiverTyped DEF Handle
  <2>4. receiver' \in [Jobs -> Receiver]
    <3> HIDE DEF at, handle
    <3>1. QED
      BY <1>3, <2>1, <2>2, <2>3
  <2>5. Tail(wire[j]) \in Seq({"good", "bad"}) /\ Len(Tail(wire[j])) <= Window
    <3>1. Tail(wire[j]) \in Seq({"good", "bad"}) /\ Len(Tail(wire[j])) = Len(wire[j]) - 1
      BY <2>1, ReceiverTyped, HeadTailProperties
    <3>2. Len(wire[j]) <= Window
      BY DEF Transfers
    <3>3. QED
      BY <3>1, <3>2, ReceiverTyped, Bounds
  <2>6. wire' \in [Jobs -> Seq({"good", "bad"})] /\ wire'[j] = Tail(wire[j])
        /\ \A k \in Jobs : k # j => wire'[k] = wire[k]
    BY <2>1, <2>5 DEF Transfers
  <2>7. \A k \in Jobs : Len(wire'[k]) <= Window
    BY <2>5, <2>6 DEF Transfers
  <2>8. QED
    BY <2>1, <2>4, <2>6, <2>7 DEF Transfers
<1>14. ASSUME NEW j \in Jobs, ReceiverReplaces(j)
       PROVE  Transfers'
  <2>1. receiver' \in [Jobs -> Receiver]
    BY <1>3, <1>14, ReceiverTyped DEF ReceiverReplaces, R
  <2>2. QED
    BY <1>1, <1>14, <2>1 DEF ReceiverReplaces, Transfers
<1>15. ASSUME NEW j \in Jobs, ReceiverRejects(j)
       PROVE  Transfers'
  BY <1>1, <1>5, <1>15 DEF ReceiverRejects, Transfers
<1>16. ASSUME NEW j \in Jobs, ReceiverAcks(j)
       PROVE  Transfers'
  <2>1. receiver' \in [Jobs -> Receiver] /\ UNCHANGED <<sender, wire>> /\ acked' \subseteq Jobs
    BY <1>5, <1>16 DEF ReceiverAcks, Transfers
  <2>2. QED
    BY <2>1 DEF Transfers
<1>17. ASSUME NEW j \in Jobs, Fails(j)
       PROVE  Transfers'
  <2>1. UNCHANGED <<wire, acked>> /\ ProcessFails(j)
    BY <1>17 DEF Fails
  <2>2. sender' \in [Jobs -> Process] /\ receiver' \in [Jobs -> Receiver]
    BY <1>4, <1>5, <2>1, FailsEffect DEF Transfers
  <2>3. QED
    BY <1>1, <2>1, <2>2
<1>18. CASE \E j \in Jobs : TransferStep(j) \/ Fails(j)
  BY <1>9, <1>10, <1>11, <1>12, <1>13, <1>14, <1>15, <1>16, <1>17, <1>18 DEF TransferStep
<1>19. CASE SendReturns \/ SendRaises \/ Restart \/ Cleanup \/ PollAgain \/ PollFails \/ RestartFails
            \/ CleanupRaises \/ Finished \/ UNCHANGED vars
  BY <1>6, <1>19 DEF SendReturns, SendRaises, Restart, Cleanup, PollAgain, PollFails, RestartFails, CleanupRaises,
                     Finished, vars
<1>20. QED
  BY <1>7, <1>8, <1>18, <1>19 DEF Next, CallStep

LEMMA JobsStep ==
    ASSUME Typed, [Next]_vars
    PROVE  JobsFit'
<1> USE DEF Typed
<1>1. ASSUME UNCHANGED <<job, jobOf>>, \A j \in Jobs : j <= job \/ (sender'[j] = sender[j] /\ receiver'[j] = receiver[j])
      PROVE  JobsFit'
  BY <1>1 DEF JobsFit
<1>2. CASE UNCHANGED <<job, jobOf, sender, receiver>>
  BY <1>1, <1>2
<1>3. CASE Sync
  <2>1. job + 1 \in Jobs /\ job' = job + 1 /\ version' \in Versions /\ job \in Nat
    BY <1>3, NextJob, JobNumbers
  <2>2. jobOf' = [jobOf EXCEPT ![job + 1] = version'] /\ sender' = sender /\ ReceiverIs(job + 1, Started, NoHandle)
    BY <1>3 DEF Sync
  <2>3. \A k \in Jobs : k # job + 1 => receiver'[k] = receiver[k] /\ jobOf'[k] = jobOf[k]
    BY <2>1, <2>2, StartTyped, ReceiverTyped, ReceiverMoves DEF Numbers
  <2>4. jobOf'[job + 1] \in Versions
    BY <2>1, <2>2 DEF Numbers
  <2>5. ASSUME NEW k \in Jobs
        PROVE  IF k <= job' THEN jobOf'[k] \in Versions
               ELSE sender'[k] = NotStarted /\ receiver'[k] = [at |-> NotStarted, handle |-> NoHandle]
    <3>1. k \in Int
      BY JobNumbers DEF Jobs
    <3>2. CASE k = job + 1
      BY <2>1, <2>4, <3>2
    <3>3. CASE k # job + 1
      <4>1. k <= job' <=> k <= job
        BY <2>1, <3>1, <3>3
      <4>2. QED
        BY <2>2, <2>3, <3>3, <4>1 DEF JobsFit
    <3>4. QED
      BY <3>2, <3>3
  <2>6. QED
    BY <2>5 DEF JobsFit
<1>4. CASE Send \/ LaunchFails
  <2>1. job \in Jobs /\ UNCHANGED <<job, jobOf>> /\ job \in Nat
    BY <1>4, JobNumbers DEF Send, LaunchFails, call
  <2>2. \A k \in Jobs : k # job => sender'[k] = sender[k] /\ receiver'[k] = receiver[k]
    BY <1>4, <2>1 DEF Send, LaunchFails, SenderIs, ReceiverEnds, ReceiverIs, Transfers
  <2>3. QED
    BY <1>1, <2>1, <2>2
<1>5. ASSUME NEW j \in Jobs, TransferStep(j) \/ Fails(j)
      PROVE  JobsFit'
  <2>1. UNCHANGED <<job, jobOf>>
    BY <1>5 DEF TransferStep, Fails, SenderOpens, SenderSends, SenderReturns, ReceiverOpens,
                ReceiverWrites, ReceiverReplaces, ReceiverRejects, ReceiverAcks, call
  <2>2. \A k \in Jobs : k # j => sender'[k] = sender[k] /\ receiver'[k] = receiver[k]
    <3>1. CASE TransferStep(j)
      <4>1. \/ (\E at : SenderIs(j, at)) /\ UNCHANGED receiver
            \/ (\E at, handle : ReceiverIs(j, at, handle)) /\ UNCHANGED sender
        BY <3>1 DEF TransferStep, SenderOpens, SenderSends, SenderReturns, SenderEnds, ReceiverOpens,
                    ReceiverWrites, ReceiverReplaces, ReceiverRejects, ReceiverAcks, ReceiverEnds
      <4>2. QED
        BY <4>1 DEF SenderIs, ReceiverIs, Transfers
    <3>2. CASE Fails(j)
      <4>1. ProcessFails(j)
        BY <3>2 DEF Fails
      <4>2. QED
        BY <4>1, FailsEffect DEF SenderEnds, ReceiverEnds, SenderIs, ReceiverIs, Transfers
    <3>3. QED
      BY <1>5, <3>1, <3>2
  <2>3. sender[j].st # "none" \/ receiver[j].at.st # "none"
    <3>1. CASE TransferStep(j)
      BY <3>1 DEF TransferStep, SenderOpens, SenderSends, SenderReturns, Connected, ReceiverOpens,
                  ReceiverWrites, ReceiverReplaces, ReceiverRejects, ReceiverAcks, R
    <3>2. CASE Fails(j)
      <4>1. ProcessFails(j)
        BY <3>2 DEF Fails
      <4>2. QED
        BY <4>1, FailsEffect
    <3>3. QED
      BY <1>5, <3>1, <3>2
  <2>4. j <= job
    BY <2>3, RunsForVersion
  <2>5. QED
    BY <1>1, <2>1, <2>2, <2>4
<1>6. CASE SendReturns \/ SendRaises \/ Restart \/ Cleanup \/ PollAgain \/ PollFails \/ RestartFails
           \/ CleanupRaises \/ Finished \/ UNCHANGED vars
  BY <1>2, <1>6 DEF SendReturns, SendRaises, Restart, Cleanup, PollAgain, PollFails, RestartFails, CleanupRaises,
                    Finished, vars, transfer, call
<1>7. QED
  BY <1>3, <1>4, <1>5, <1>6 DEF Next, CallStep

LEMMA DisksStep ==
    ASSUME Typed, [Next]_vars
    PROVE  Disks'
<1> USE DEF Typed
<1> DEFINE Contents == [Chunks -> Chunk]
<1>1. /\ part \in [Places -> Inodes \cup {NoInode}] /\ final \in [Places -> Inodes \cup {NoInode}]
      /\ content \in [Inodes -> Contents] /\ loaded \in [Files -> Contents] /\ Blank \in Contents
  BY DEF Disks, Blank, Chunk
<1>2. CASE UNCHANGED <<disk, loaded>>
  BY <1>2 DEF Disks, disk
<1>3. CASE Restart
  <2>1. version \in Versions
    BY <1>3, JobNumbers DEF Restart
  <2>2. \A f \in Files : ReadBy(version, f) \in Contents
    <3>1. ASSUME NEW f \in Files PROVE final[<<version, f>>] \in Inodes \cup {NoInode}
      BY <1>1, <2>1, <3>1 DEF Places
    <3>2. QED
      BY <1>1, <3>1 DEF ReadBy
  <2>3. loaded' \in [Files -> Contents] /\ UNCHANGED disk
    BY <1>3, <2>2 DEF Restart
  <2>4. QED
    BY <2>3 DEF Disks, disk
<1>4. CASE RestartFails
  BY <1>1, <1>4 DEF RestartFails, Disks, disk
<1>5. CASE Cleanup
  <2>1. part' \in [Places -> Inodes \cup {NoInode}] /\ final' \in [Places -> Inodes \cup {NoInode}]
    BY <1>1, <1>5 DEF Cleanup, RemoveOthers, Places
  <2>2. QED
    BY <1>5, <2>1 DEF Cleanup, stages, Disks
<1>6. ASSUME NEW j \in Jobs, ReceiverOpens(j)
      PROVE  Disks'
  <2> DEFINE f == R(j).file + 1
             p == <<jobOf[j], f>>
             i == IF part[p] = NoInode THEN <<j, f>> ELSE part[p]
  <2>1. /\ part' = [part EXCEPT ![p] = i] /\ content' = [content EXCEPT ![i] = Blank]
        /\ R(j).file < Len(Sizes) /\ UNCHANGED <<final, stages>>
    BY <1>6 DEF ReceiverOpens
  <2>2. f \in Files /\ jobOf[j] \in Versions
    BY <1>6, <2>1, Fields, Bounds, RunsForVersion DEF R, ReceiverOpens
  <2>3. p \in Places
    BY <2>2 DEF Places
  <2>4. i \in Inodes \cup {NoInode}
    BY <1>1, <2>2, <2>3 DEF Inodes
  <2> HIDE DEF i, p
  <2>5. part' \in [Places -> Inodes \cup {NoInode}] /\ content' \in [Inodes -> Contents]
    BY <1>1, <2>1, <2>4
  <2>6. QED
    BY <2>1, <2>5 DEF Disks, stages
<1>7. ASSUME NEW j \in Jobs, ReceiverWrites(j)
      PROVE  Disks'
  <2> DEFINE i == receiver[j].handle.inode
             c == ChunkOf(R(j).file, R(j).remaining)
             new == [content[i] EXCEPT ![c] = Head(wire[j])]
  <2>1. content' = [content EXCEPT ![i] = new] /\ UNCHANGED <<part, final, stages>> /\ wire[j] # << >>
    BY <1>7 DEF ReceiverWrites
  <2>2. Head(wire[j]) \in {"good", "bad"}
    BY <2>1, ReceiverTyped, HeadTailProperties
  <2>3. i \in Inodes => new \in Contents
    BY <1>1, <2>2 DEF Chunk
  <2> HIDE DEF i, new
  <2>4. content' \in [Inodes -> Contents]
    BY <1>1, <2>1, <2>3
  <2>5. QED
    BY <2>1, <2>4 DEF Disks, stages
<1>8. ASSUME NEW j \in Jobs, ReceiverReplaces(j)
      PROVE  Disks'
  <2>1. /\ final' = [final EXCEPT ![Path(j)] = part[Path(j)]] /\ part' = [part EXCEPT ![Path(j)] = NoInode]
        /\ UNCHANGED <<content, stages>>
    BY <1>8 DEF ReceiverReplaces
  <2>2. Path(j) \in Places => part[Path(j)] \in Inodes \cup {NoInode}
    BY <1>1
  <2>3. final' \in [Places -> Inodes \cup {NoInode}] /\ part' \in [Places -> Inodes \cup {NoInode}]
    BY <1>1, <2>1, <2>2
  <2>4. QED
    BY <2>1, <2>3 DEF Disks, stages
<1>9. CASE \E j \in Jobs : TransferStep(j) \/ Fails(j)
  BY <1>2, <1>6, <1>7, <1>8, <1>9
  DEF TransferStep, Fails, SenderOpens, SenderSends, SenderReturns, ReceiverRejects, ReceiverAcks, stages
<1>10. CASE Sync \/ Send \/ LaunchFails \/ SendReturns \/ SendRaises \/ PollAgain \/ PollFails
            \/ CleanupRaises \/ Finished \/ UNCHANGED vars
  BY <1>2, <1>10 DEF Sync, Send, LaunchFails, SendReturns, SendRaises, PollAgain, PollFails, CleanupRaises,
                     Finished, vars, stages
<1>11. QED
  BY <1>3, <1>4, <1>5, <1>9, <1>10 DEF Next, CallStep

LEMMA TypedStep == Typed /\ [Next]_vars => Typed'
<1> SUFFICES ASSUME Typed, [Next]_vars PROVE Typed'
  OBVIOUS
<1>1. Numbers /\ CallsFit
  BY DEF Typed
<1>2. Numbers' /\ CallsFit'
  BY <1>1, CallsStep
<1>3. QED
  BY <1>2, TransfersStep, DisksStep, JobsStep DEF Typed

LEMMA TypedInit == Init => Typed
<1> SUFFICES ASSUME Init PROVE Typed
  OBVIOUS
<1>1. MaxVersions * MaxAttempts \in Nat
  BY Bounds
<1>2. Numbers
  BY <1>1, Bounds DEF Init, Numbers
<1>3. CallsFit
  BY Bounds DEF Init, CallsFit
<1>4. JobsFit
  BY <1>1, Bounds DEF Init, JobsFit, Jobs
<1>5. Disks
  BY DEF Init, Disks, Places, Blank, Chunk
<1>6. Transfers
  <2>1. << >> \in Seq({"good", "bad"}) /\ Len(<< >>) = 0
    OBVIOUS
  <2>2. [at |-> NotStarted, handle |-> NoHandle] \in Receiver
    BY StartTyped DEF Receiver, NoHandle
  <2>3. wire \in [Jobs -> Seq({"good", "bad"})] /\ \A j \in Jobs : Len(wire[j]) <= Window
    BY <2>1, Bounds DEF Init
  <2>4. sender \in [Jobs -> Process] /\ receiver \in [Jobs -> Receiver] /\ acked \subseteq Jobs
    BY <2>2, StartTyped DEF Init
  <2>5. QED
    BY <2>3, <2>4 DEF Transfers
<1>7. QED
  BY <1>2, <1>3, <1>4, <1>5, <1>6 DEF Typed

(* Every variable keeps its type, whichever calls overlap: no more calls   *)
(* are made than the attempts allow, and what processes leave behind stays *)
(* within the files of the checkpoint (sync()).                            *)
THEOREM TypesCorrect == Spec => []TypeOK
<1>1. Typed => TypeOK
  BY TypedParts DEF Typed
<1>2. QED
  BY <1>1, TypedInit, TypedStep, PTL DEF Spec

-----------------------------------------------------------------------------
(* What the steps of a transfer do, when only the last call has processes. *)

LEMMA OnlyLast ==
    ASSUME Typed, TransfersFit, NEW j \in Jobs, sender[j].st = "run" \/ receiver[j].at.st = "run"
    PROVE  j = job /\ job # 0 /\ version # 0 /\ version \in Versions /\ jobOf[j] = version /\ jobOf[job] = version
<1>1. j = job
  BY DEF TransfersFit, Ended
<1>2. job # 0
  BY <1>1, JobNumbers DEF Typed, Jobs
<1>3. QED
  BY <1>1, <1>2, JobNumbers DEF Typed

LEMMA SenderEffect ==
    ASSUME Typed, NEW j \in Jobs, SenderOpens(j) \/ SenderSends(j) \/ SenderReturns(j)
    PROVE  /\ sender[j].st = "run" /\ sender'[j].st \in {"run", "done"}
           /\ sender'[j].st = "done" => j \in acked
           /\ \A k \in Jobs : k # j => sender'[k] = sender[k]
           /\ UNCHANGED <<pc, call, receiver, acked, disk, stages, synced>> /\ (Fault \/ UNCHANGED faults)
<1> USE DEF Typed
<1>1. CASE SenderOpens(j)
  <2>1. PICK at : SenderIs(j, at) /\ at.st = "run"
    BY <1>1 DEF SenderOpens
  <2>2. sender'[j].st = "run" /\ \A k \in Jobs : k # j => sender'[k] = sender[k]
    BY <2>1 DEF SenderIs, Transfers
  <2>3. QED
    BY <1>1, <2>2 DEF SenderOpens, Connected
<1>2. CASE SenderSends(j)
  <2>1. /\ SenderIs(j, [sender[j] EXCEPT !.remaining = Rest(sender[j].remaining)]) /\ sender[j].st = "run"
        /\ UNCHANGED <<pc, call, receiver, acked, disk, stages, synced>> /\ (Fault \/ UNCHANGED faults)
    BY <1>2 DEF SenderSends, Connected
  <2>2. PICK at \in Process : SenderIs(j, at) /\ at.st = "run"
    <3> DEFINE at == [sender[j] EXCEPT !.remaining = Rest(sender[j].remaining)]
    <3>1. at \in Process /\ at.st = sender[j].st
      BY Fields, RestTyped, ReceiverTyped, RemainingTyped
    <3> HIDE DEF at
    <3>2. SenderIs(j, at)
      BY <2>1 DEF at
    <3>3. QED
      BY <2>1, <3>1, <3>2
  <2>3. QED
    BY <2>1, <2>2, SenderMoves
<1>3. CASE SenderReturns(j)
  <2>1. /\ SenderEnds(j, "done") /\ sender[j].st = "run" /\ j \in acked
        /\ UNCHANGED <<pc, call, receiver, acked, disk, stages, synced, faults>>
    BY <1>3 DEF SenderReturns, AckCame
  <2>2. PICK at \in Process : SenderIs(j, at) /\ at.st = "done"
    BY <2>1, ReceiverTyped, ProcessTyped DEF SenderEnds
  <2>3. QED
    BY <2>1, <2>2, SenderMoves
<1>4. QED
  BY <1>1, <1>2, <1>3

LEMMA SenderEndsEffect ==
    ASSUME Typed, NEW j \in Jobs, NEW st \in {"run", "done", "failed"}, SenderEnds(j, st)
    PROVE  sender'[j].st = st /\ \A k \in Jobs : k # j => sender'[k] = sender[k]
<1>1. PICK at \in Process : SenderIs(j, at) /\ at.st = st
  <2> DEFINE at == [sender[j] EXCEPT !.st = st]
  <2>1. at \in Process /\ at.st = st
    BY ReceiverTyped, StTyped DEF Typed
  <2> HIDE DEF at
  <2>2. SenderIs(j, at)
    BY DEF SenderEnds, at
  <2>3. QED
    BY <2>1, <2>2
<1>2. QED
  BY <1>1, SenderMoves DEF Typed

LEMMA ReceiverEndsEffect ==
    ASSUME Typed, NEW j \in Jobs, NEW st \in {"run", "done", "failed"}, ReceiverEnds(j, st)
    PROVE  /\ receiver'[j].at.st = st /\ receiver'[j].at.file = receiver[j].at.file
           /\ receiver'[j].at.remaining = receiver[j].at.remaining
           /\ receiver'[j].handle.inode = NoInode /\ \A k \in Jobs : k # j => receiver'[k] = receiver[k]
<1>1. PICK at \in Process :
        /\ ReceiverIs(j, at, NoHandle)
        /\ at.st = st /\ at.file = receiver[j].at.file /\ at.remaining = receiver[j].at.remaining
  <2> DEFINE at == [receiver[j].at EXCEPT !.st = st]
  <2>1. at \in Process /\ at.st = st /\ at.file = receiver[j].at.file /\ at.remaining = receiver[j].at.remaining
    BY ReceiverTyped, StTyped DEF Typed
  <2> HIDE DEF at
  <2>2. ReceiverIs(j, at, NoHandle)
    BY DEF ReceiverEnds, at
  <2>3. QED
    BY <2>1, <2>2
<1>2. NoHandle \in Handle /\ NoHandle.inode = NoInode
  BY ReceiverTyped, StartTyped DEF Typed
<1>3. QED
  BY <1>1, <1>2, ReceiverMoves DEF Typed

LEMMA OpensEffect ==
    ASSUME Typed, TransfersFit, NEW j \in Jobs, ReceiverOpens(j), NEW f, f = R(job).file + 1,
           NEW p, p = <<version, f>>, NEW i, i = IF part[p] = NoInode THEN <<job, f>> ELSE part[p]
    PROVE  /\ j = job /\ R(job).st = "run" /\ FileClosed(job) /\ sender[job].st # "none"
           /\ f \in Files /\ p \in Places /\ i \in Inodes /\ p = Path(job)'
           /\ part' = [part EXCEPT ![p] = i] /\ content' = [content EXCEPT ![i] = Blank]
           /\ receiver'[job].at.st = "run" /\ receiver'[job].at.file = f /\ receiver'[job].at.remaining = Sizes[f]
           /\ receiver'[job].handle.inode = i /\ \A k \in Jobs : k # job => receiver'[k] = receiver[k]
           /\ UNCHANGED <<pc, call, sender, acked, final, stages, synced, faults>>
<1> USE DEF Typed
<1>1. R(j).st = "run" /\ FileClosed(j) /\ sender[j].st # "none" /\ R(j).file < Len(Sizes)
      /\ UNCHANGED <<pc, call, sender, acked, final, stages, synced, faults>>
  BY DEF ReceiverOpens, FileClosed
<1>2. j = job /\ job \in Jobs /\ jobOf[job] = version /\ version \in Versions
  BY <1>1, OnlyLast DEF R
<1>3. f \in Files /\ f \in 0 .. Len(Sizes) + 1
  BY <1>1, <1>2, Fields, Bounds DEF R
<1>4. p \in Places
  BY <1>2, <1>3 DEF Places
<1>5. i \in Inodes
  <2>1. part[p] \in Inodes \cup {NoInode}
    BY <1>4 DEF Disks
  <2>2. QED
    BY <1>2, <1>3, <2>1 DEF Inodes
<1> DEFINE at == [st |-> "run", file |-> f, remaining |-> Sizes[f]]
           handle == [inode |-> i, bad |-> FALSE]
<1>6. ReceiverIs(job, at, handle) /\ part' = [part EXCEPT ![p] = i] /\ content' = [content EXCEPT ![i] = Blank]
  BY <1>2 DEF ReceiverOpens, Announced, R
<1>7. at \in Process /\ at.st = "run" /\ at.file = f /\ at.remaining = Sizes[f]
  BY <1>3, Bounds DEF Process
<1>8. handle \in Handle /\ handle.inode = i
  BY <1>5 DEF Handle
<1> HIDE DEF at, handle
<1>9. /\ receiver'[job].at = at /\ receiver'[job].handle = handle
      /\ \A k \in Jobs : k # job => receiver'[k] = receiver[k]
  BY <1>2, <1>6, <1>7, <1>8, ReceiverMoves
<1>10. p = Path(job)'
  BY <1>1, <1>2, <1>7, <1>9 DEF Path, R, call
<1>11. QED
  BY <1>1, <1>2, <1>3, <1>4, <1>5, <1>6, <1>7, <1>8, <1>9, <1>10

LEMMA WritesEffect ==
    ASSUME Typed, TransfersFit, HandlesFit, NEW j \in Jobs, ReceiverWrites(j),
           NEW i, i = receiver[job].handle.inode, NEW c, c = ChunkOf(R(job).file, R(job).remaining)
    PROVE  /\ j = job /\ R(job).st = "run" /\ ~FileClosed(job) /\ i \in Inodes /\ R(job).remaining # 0
           /\ \E w \in {"good", "bad"} :
                /\ content' = [content EXCEPT ![i] = [content[i] EXCEPT ![c] = w]]
                /\ receiver'[job].handle.bad <=> receiver[job].handle.bad \/ w = "bad"
           /\ receiver'[job].at.st = "run" /\ receiver'[job].at.file = R(job).file
           /\ receiver'[job].at.remaining = Rest(R(job).remaining)
           /\ receiver'[job].handle.inode = i /\ \A k \in Jobs : k # job => receiver'[k] = receiver[k]
           /\ UNCHANGED <<pc, call, sender, acked, part, final, stages, synced, faults>>
<1> USE DEF Typed
<1>1. R(j).st = "run" /\ R(j).remaining > 0 /\ wire[j] # << >>
      /\ UNCHANGED <<pc, call, sender, acked, part, final, stages, synced, faults>>
  BY DEF ReceiverWrites
<1>2. j = job /\ job \in Jobs
  BY <1>1, OnlyLast DEF R
<1>3. R(job).remaining # 0 /\ R(job).remaining \in Nat
  BY <1>1, <1>2, Fields DEF R
<1>4. ~FileClosed(job) /\ i \in Inodes
  <2>1. ~FileClosed(job)
    BY <1>1, <1>2, <1>3 DEF HandlesFit
  <2>2. QED
    BY <1>2, <2>1, ReceiverTyped DEF FileClosed
<1>5. PICK w \in {"good", "bad"} : w = Head(wire[job])
  BY <1>1, <1>2, ReceiverTyped, HeadTailProperties
<1> DEFINE at == [R(job) EXCEPT !.remaining = Rest(R(job).remaining)]
           handle == [inode |-> i, bad |-> receiver[job].handle.bad \/ w = "bad"]
<1>6. ReceiverIs(job, at, handle) /\ content' = [content EXCEPT ![i] = [content[i] EXCEPT ![c] = w]]
  BY <1>2, <1>5 DEF ReceiverWrites
<1>7. at \in Process /\ at.st = "run" /\ at.file = R(job).file /\ at.remaining = Rest(R(job).remaining)
  <2>1. R(job) \in Process /\ R(job).st = "run" /\ Rest(R(job).remaining) \in Nat
    BY <1>1, <1>2, <1>3, RestTyped, ReceiverTyped DEF R
  <2>2. QED
    BY <2>1, RemainingTyped
<1>8. handle \in Handle /\ handle.inode = i /\ handle.bad = (receiver[job].handle.bad \/ w = "bad")
  BY <1>2, <1>4, ReceiverTyped DEF Handle
<1> HIDE DEF at, handle
<1>9. /\ receiver'[job].at = at /\ receiver'[job].handle = handle
      /\ \A k \in Jobs : k # job => receiver'[k] = receiver[k]
  BY <1>2, <1>6, <1>7, <1>8, ReceiverMoves
<1>10. QED
  BY <1>1, <1>2, <1>3, <1>4, <1>6, <1>7, <1>8, <1>9

LEMMA ReplacesEffect ==
    ASSUME Typed, TransfersFit, HandlesFit, NEW j \in Jobs, ReceiverReplaces(j), NEW p, p = Path(job)
    PROVE  /\ j = job /\ R(job).st = "run" /\ ~FileClosed(job) /\ OpenFits(job) /\ ~receiver[job].handle.bad
           /\ R(job).remaining = 0 /\ R(job).file \in Files /\ p = <<version, R(job).file>> /\ p \in Places
           /\ part[p] # NoInode /\ part[p] = receiver[job].handle.inode /\ part[p] \in Inodes
           /\ final' = [final EXCEPT ![p] = part[p]] /\ part' = [part EXCEPT ![p] = NoInode]
           /\ receiver'[job].at = receiver[job].at /\ receiver'[job].handle.inode = NoInode
           /\ \A k \in Jobs : k # job => receiver'[k] = receiver[k]
           /\ UNCHANGED <<pc, call, sender, acked, content, stages, synced, faults>>
<1> USE DEF Typed
<1>1. /\ R(j).st = "run" /\ ~FileClosed(j) /\ R(j).remaining = 0 /\ ~receiver[j].handle.bad /\ part[Path(j)] # NoInode
      /\ final' = [final EXCEPT ![Path(j)] = part[Path(j)]] /\ part' = [part EXCEPT ![Path(j)] = NoInode]
      /\ ReceiverIs(j, R(j), NoHandle)
      /\ UNCHANGED <<pc, call, sender, acked, content, stages, synced, faults>>
  BY DEF ReceiverReplaces, FileClosed, HashMatches
<1>2. j = job /\ job \in Jobs /\ jobOf[job] = version /\ version \in Versions
  BY <1>1, OnlyLast DEF R
<1>3. OpenFits(job)
  BY <1>1, <1>2 DEF HandlesFit
<1>4. R(job).file \in Files /\ part[p] = receiver[job].handle.inode
  BY <1>3 DEF OpenFits
<1>5. p = <<version, R(job).file>> /\ p \in Places
  BY <1>2, <1>4 DEF Path, Places
<1>6. part[p] \in Inodes
  BY <1>1, <1>2, <1>5 DEF Disks
<1>7. /\ receiver'[job].at = receiver[job].at /\ receiver'[job].handle = NoHandle
      /\ \A k \in Jobs : k # job => receiver'[k] = receiver[k]
  BY <1>1, <1>2, ReceiverTyped, ReceiverMoves DEF R
<1>8. QED
  BY <1>1, <1>2, <1>3, <1>4, <1>5, <1>6, <1>7, StartTyped

-----------------------------------------------------------------------------
(* The steps keep the invariant, when the processes of a call end before   *)
(* the next call.                                                          *)

CallWaits == Sync => \A j \in Jobs : Ended(j)

\* What a receiver does that is not about its file.
LEMMA AcksEffect ==
    ASSUME Typed, TransfersFit, NEW j \in Jobs, ReceiverRejects(j) \/ ReceiverAcks(j) \/ Fails(j)
    PROVE  /\ j = job
           /\ UNCHANGED <<pc, call, disk, stages, synced>> /\ (Fault \/ UNCHANGED faults)
           /\ \/ /\ sender[job].st = "run" /\ sender'[job].st = "failed"
                 /\ \A k \in Jobs : k # job => sender'[k] = sender[k]
                 /\ UNCHANGED <<receiver, acked>>
              \/ /\ UNCHANGED sender
                 /\ R(job).st = "run" /\ receiver'[job].at.file = R(job).file /\ receiver'[job].handle.inode = NoInode
                 /\ \A k \in Jobs : k # job => receiver'[k] = receiver[k]
                 /\ \/ receiver'[job].at.st = "failed" /\ UNCHANGED acked
                    \/ /\ receiver'[job].at.st = "done" /\ acked' = acked \cup {job}
                       /\ R(job).file = Len(Sizes) /\ FileClosed(job)
<1>1. CASE ReceiverRejects(j)
  <2>1. ReceiverEnds(j, "failed") /\ receiver[j].at.st = "run" /\ UNCHANGED <<sender, acked>>
        /\ UNCHANGED <<pc, call, disk, stages, synced, faults>>
    BY <1>1 DEF ReceiverRejects, R
  <2>2. QED
    BY <2>1, ReceiverEndsEffect, OnlyLast DEF R
<1>2. CASE ReceiverAcks(j)
  <2>1. ReceiverEnds(j, "done") /\ receiver[j].at.st = "run" /\ UNCHANGED sender /\ acked' = acked \cup {j}
        /\ R(j).file = Len(Sizes) /\ FileClosed(j) /\ UNCHANGED <<pc, call, disk, stages, synced, faults>>
    BY <1>2 DEF ReceiverAcks, R
  <2>2. QED
    BY <2>1, ReceiverEndsEffect, OnlyLast DEF R
<1>3. CASE Fails(j)
  <2>1. ProcessFails(j) /\ UNCHANGED <<pc, call, acked, disk, stages, synced>> /\ (Fault \/ UNCHANGED faults)
    BY <1>3 DEF Fails, ProcessFails
  <2>2. CASE SenderEnds(j, "failed") /\ UNCHANGED receiver /\ sender[j].st = "run"
    BY <2>1, <2>2, SenderEndsEffect, OnlyLast
  <2>3. CASE ReceiverEnds(j, "failed") /\ UNCHANGED sender /\ receiver[j].at.st = "run"
    BY <2>1, <2>3, ReceiverEndsEffect, OnlyLast DEF R
  <2>4. QED
    BY <2>1, <2>2, <2>3, FailsEffect
<1>4. QED
  BY <1>1, <1>2, <1>3

\* The part of TransfersFit that is about one call.
CallFits(j) ==
    /\ j # job => Ended(j)
    /\ sender[j].st = "none" => R(j).file = 0
    /\ sender[j].st = "done" => j \in acked
    /\ j \in acked => R(j).st = "done"
    /\ R(j).st = "done" => R(j).file = Len(Sizes)

LEMMA TransfersFitStep ==
    ASSUME Typed, TransfersFit, HandlesFit, CallWaits, [Next]_vars
    PROVE  TransfersFit'
<1>1. \A j \in Jobs : CallFits(j)
  BY DEF TransfersFit, CallFits
<1>2. SUFFICES /\ \A j \in Jobs : CallFits(j)'
               /\ (pc = "receiving" => sender[job].st = "none")'
               /\ (pc \in {"restart", "cleanup"} => sender[job].st = "done")'
               /\ (pc = "cleanup" => served = version)'
  BY DEF TransfersFit, CallFits
<1>3. ASSUME NEW j \in Jobs, job' = job, sender'[j] = sender[j], receiver'[j] = receiver[j], j \in acked' => j \in acked,
             acked \subseteq acked'
      PROVE  CallFits(j)'
  BY <1>1, <1>3 DEF CallFits, Ended, R
<1>4. CASE UNCHANGED <<transfer, call, pc, served>>
  BY <1>1, <1>4 DEF TransfersFit, CallFits, transfer, call, Ended, R
<1>5. CASE Sync
  <2>1. PICK n \in Jobs : n = job + 1 /\ job' = n /\ job \in Nat
    BY <1>5, NextJob, JobNumbers DEF Typed
  <2>2. /\ pc' = "receiving" /\ ReceiverIs(n, Started, NoHandle) /\ UNCHANGED <<sender, acked>>
        /\ \A j \in Jobs : Ended(j)
    BY <1>5, <2>1 DEF Sync, CallWaits
  <2>3. receiver'[n].at = Started /\ \A k \in Jobs : k # n => receiver'[k] = receiver[k]
    BY <2>1, <2>2, StartTyped, ReceiverTyped, ReceiverMoves DEF Typed
  <2>4. sender[n] = NotStarted /\ receiver[n].at = NotStarted
    BY <2>1 DEF Typed, JobsFit
  <2>5. n \notin acked
    BY <1>1, <2>1, <2>4, StartTyped DEF CallFits, R
  <2>6. sender'[n].st = "none" /\ receiver'[n].at.file = 0 /\ receiver'[n].at.st = "run" /\ n \notin acked'
    BY <2>1, <2>2, <2>3, <2>4, <2>5, StartTyped
  <2>7. CallFits(n)'
    BY <2>1, <2>6 DEF CallFits, R
  <2>8. ASSUME NEW k \in Jobs, k # n PROVE CallFits(k)'
    BY <1>1, <2>2, <2>3, <2>8 DEF CallFits, R, Ended
  <2>9. QED
    BY <2>1, <2>2, <2>6, <2>7, <2>8
<1>6. CASE Send \/ LaunchFails
  <2>1. job \in Jobs /\ job' = job /\ pc = "receiving" /\ sender[job].st = "none" /\ UNCHANGED acked
        /\ pc' \in {"sending", "idle", "stopped"}
    BY <1>6, JobNumbers DEF Send, LaunchFails, call, RaisesInto, TransfersFit, Typed
  <2>2. R(job).file = 0 /\ R(job).st # "done" /\ job \notin acked
    BY <1>1, <2>1, Bounds DEF CallFits
  <2>3. CASE SenderIs(job, Started) /\ UNCHANGED receiver
    <3>1. sender'[job].st = "run" /\ \A k \in Jobs : k # job => sender'[k] = sender[k]
      BY <2>1, <2>3, StartTyped, SenderMoves DEF Typed
    <3>2. CallFits(job)'
      BY <2>1, <2>2, <2>3, <3>1 DEF CallFits, R
    <3>3. QED
      BY <1>3, <2>1, <2>3, <3>1, <3>2
  <2>4. CASE ReceiverEnds(job, "failed") /\ UNCHANGED sender
    <3>1. /\ receiver'[job].at.st = "failed" /\ receiver'[job].at.file = 0
          /\ \A k \in Jobs : k # job => receiver'[k] = receiver[k]
      BY <2>1, <2>2, <2>4, ReceiverEndsEffect DEF R
    <3>2. CallFits(job)'
      BY <2>1, <2>2, <2>4, <3>1 DEF CallFits, R
    <3>3. QED
      BY <1>3, <2>1, <2>4, <3>1, <3>2
  <2>5. CASE UNCHANGED <<sender, receiver>>
    BY <1>3, <2>1, <2>5
  <2>6. QED
    BY <1>6, <2>3, <2>4, <2>5 DEF Send, LaunchFails
<1>7. CASE SendReturns \/ SendRaises \/ PollFails \/ Restart \/ RestartFails \/ Cleanup \/ CleanupRaises
  <2>1. UNCHANGED <<job, version, sender, receiver, acked>>
    BY <1>7 DEF SendReturns, SendRaises, PollFails, Restart, RestartFails, Cleanup, CleanupRaises, call, transfer
  <2>2. \A j \in Jobs : CallFits(j)'
    BY <1>3, <2>1
  <2>3. pc' \in {"restart", "cleanup", "idle", "stopped"} /\ (pc' \in {"restart", "cleanup"} => sender[job].st = "done")
        /\ (pc' = "cleanup" => served' = version)
    BY <1>7 DEF SendReturns, SendRaises, PollFails, Restart, RestartFails, Cleanup, CleanupRaises, RaisesInto, TransfersFit
  <2>4. QED
    BY <2>1, <2>2, <2>3
<1>8. ASSUME NEW j \in Jobs, j = job, sender[job].st = "run", UNCHANGED <<pc, call, served, receiver, acked>>,
             sender'[job].st \in {"run", "done", "failed"}, sender'[job].st = "done" => job \in acked,
             \A k \in Jobs : k # job => sender'[k] = sender[k]
      PROVE  TransfersFit'
  <2>1. CallFits(job)'
    BY <1>1, <1>8 DEF CallFits, R, call
  <2>2. \A k \in Jobs : k # job => CallFits(k)'
    BY <1>3, <1>8 DEF call
  <2>3. pc \notin {"receiving", "restart", "cleanup"}
    BY <1>8 DEF TransfersFit
  <2>4. QED
    BY <1>8, <2>1, <2>2, <2>3 DEF TransfersFit, CallFits, call
<1>9. ASSUME NEW j \in Jobs, j = job, R(job).st = "run", UNCHANGED <<pc, call, served, sender>>,
             acked' \in {acked, acked \cup {job}}, job \in acked' => receiver'[job].at.st = "done",
             sender[job].st = "none" => receiver'[job].at.file = 0,
             receiver'[job].at.st = "done" => receiver'[job].at.file = Len(Sizes),
             \A k \in Jobs : k # job => receiver'[k] = receiver[k]
      PROVE  TransfersFit'
  <2>1. CallFits(job)'
    BY <1>1, <1>9 DEF CallFits, R, call
  <2>2. \A k \in Jobs : k # job => CallFits(k)'
    BY <1>3, <1>9 DEF call
  <2>3. QED
    BY <1>9, <2>1, <2>2 DEF TransfersFit, CallFits, call
<1>10. ASSUME NEW j \in Jobs, R(j).st = "run" PROVE j \notin acked
  BY <1>1, <1>10 DEF CallFits
<1>11. ASSUME NEW j \in Jobs, TransferStep(j) \/ Fails(j)
       PROVE  TransfersFit'
  <2>1. CASE SenderOpens(j) \/ SenderSends(j) \/ SenderReturns(j)
    BY <1>8, <2>1, SenderEffect, OnlyLast DEF stages
  <2>2. CASE ReceiverOpens(j)
    <3> DEFINE f == R(job).file + 1
               p == <<version, f>>
               i == IF part[p] = NoInode THEN <<job, f>> ELSE part[p]
    <3>1. /\ j = job /\ R(job).st = "run" /\ sender[job].st # "none" /\ receiver'[job].at.st = "run"
          /\ \A k \in Jobs : k # job => receiver'[k] = receiver[k]
          /\ UNCHANGED <<pc, call, sender, acked, stages>>
      BY <2>2, OpensEffect
    <3>2. QED
      BY <1>9, <1>10, <3>1 DEF stages
  <2>3. CASE ReceiverWrites(j)
    <3>1. sender[job].st = "none" => R(job).file = 0
      BY <1>1, <2>3, WritesEffect DEF CallFits
    <3>2. QED
      BY <1>9, <1>10, <2>3, <3>1, WritesEffect DEF stages
  <2>4. CASE ReceiverReplaces(j)
    <3>1. sender[job].st = "none" => R(job).file = 0
      BY <1>1, <2>4, ReplacesEffect DEF CallFits
    <3>2. QED
      BY <1>9, <1>10, <2>4, <3>1, ReplacesEffect DEF stages, R
  <2>5. CASE ReceiverRejects(j) \/ ReceiverAcks(j) \/ Fails(j)
    <3>1. sender[job].st = "none" => R(job).file = 0
      BY <1>1, <2>5, AcksEffect DEF CallFits
    <3>2. QED
      BY <1>8, <1>9, <1>10, <2>5, <3>1, AcksEffect DEF stages
  <2>6. QED
    BY <1>11, <2>1, <2>2, <2>3, <2>4, <2>5 DEF TransferStep
<1>12. CASE PollAgain \/ Finished \/ UNCHANGED vars
  BY <1>4, <1>12 DEF PollAgain, Finished, vars, stages
<1>13. CASE \E j \in Jobs : TransferStep(j) \/ Fails(j)
  BY <1>11, <1>13 DEF TransfersFit, CallFits
<1>14. QED
  BY <1>5, <1>6, <1>7, <1>12, <1>13 DEF Next, CallStep

LEMMA ChunksPositive == \A c \in Chunks : c \in Nat /\ c >= 1
<1>1. \A f \in Files : ChunkCount(f) \in Int
  BY Bounds DEF ChunkCount
<1>2. QED
  BY <1>1 DEF Chunks

HandleFits(j) == IF FileClosed(j) THEN R(j).st = "run" => R(j).remaining = 0 ELSE OpenFits(j)

LEMMA HandlesFitStep ==
    ASSUME Typed, TransfersFit, HandlesFit, CallWaits, [Next]_vars
    PROVE  HandlesFit'
<1>1. \A j \in Jobs : HandleFits(j)
  BY DEF HandlesFit, HandleFits
<1>2. SUFFICES \A j \in Jobs : HandleFits(j)'
  BY DEF HandlesFit, HandleFits
<1>3. ASSUME NEW j \in Jobs, R(j).st # "run", receiver'[j] = receiver[j]
      PROVE  HandleFits(j)'
  BY <1>1, <1>3 DEF HandleFits, OpenFits, FileClosed, R
<1>4. ASSUME NEW j \in Jobs, j # job PROVE R(j).st # "run"
  BY <1>4 DEF TransfersFit, Ended, R
<1>5. ASSUME NEW j \in Jobs, receiver'[j].handle.inode = NoInode,
             receiver'[j].at.st # "run" \/ receiver'[j].at.remaining = 0
      PROVE  HandleFits(j)'
  BY <1>5 DEF HandleFits, FileClosed, R
<1>6. CASE UNCHANGED <<receiver, jobOf, part, content>>
  BY <1>1, <1>6 DEF HandleFits, FileClosed, OpenFits, R, Path
<1>7. CASE Sync
  <2>1. PICK n \in Jobs : n = job + 1 /\ job' = n /\ ReceiverIs(n, Started, NoHandle)
    BY <1>7, NextJob DEF Sync, Typed
  <2>2. /\ receiver'[n].at = Started /\ receiver'[n].handle = NoHandle
        /\ \A k \in Jobs : k # n => receiver'[k] = receiver[k]
    BY <2>1, StartTyped, ReceiverTyped, ReceiverMoves DEF Typed
  <2>3. HandleFits(n)'
    BY <1>5, <2>2, StartTyped
  <2>4. \A k \in Jobs : R(k).st # "run"
    BY <1>7 DEF CallWaits, Ended, R
  <2>5. QED
    BY <1>3, <2>2, <2>3, <2>4
<1>8. CASE Send \/ LaunchFails
  <2>1. job \in Jobs /\ UNCHANGED <<jobOf, part, content>>
    BY <1>8, JobNumbers DEF Send, LaunchFails, call, disk, Typed
  <2>2. CASE UNCHANGED receiver
    BY <1>6, <2>1, <2>2
  <2>3. CASE ReceiverEnds(job, "failed")
    <3>1. /\ receiver'[job].at.st = "failed" /\ receiver'[job].handle.inode = NoInode
          /\ \A k \in Jobs : k # job => receiver'[k] = receiver[k]
      BY <2>1, <2>3, ReceiverEndsEffect
    <3>2. QED
      BY <1>3, <1>4, <1>5, <3>1
  <2>4. QED
    BY <1>8, <2>2, <2>3 DEF Send, LaunchFails
<1>9. CASE Cleanup
  <2>1. job \in Jobs /\ sender[job].st = "done" /\ receiver' = receiver
    BY <1>9, JobNumbers DEF Cleanup, transfer, TransfersFit, Typed
  <2>2. R(job).st # "run"
    BY <2>1 DEF TransfersFit
  <2>3. QED
    BY <1>3, <1>4, <2>1, <2>2
<1>10. CASE SendReturns \/ SendRaises \/ PollFails \/ Restart \/ RestartFails \/ CleanupRaises \/ PollAgain
            \/ Finished \/ UNCHANGED vars
  BY <1>6, <1>10 DEF SendReturns, SendRaises, PollFails, Restart, RestartFails, CleanupRaises, PollAgain, Finished,
                     vars, call, transfer, disk
<1>11. ASSUME NEW j \in Jobs, ReceiverOpens(j)
       PROVE  \A k \in Jobs : HandleFits(k)'
  <2>1. PICK f, p, i : /\ f = R(job).file + 1 /\ p = <<version, f>>
                       /\ i = IF part[p] = NoInode THEN <<job, f>> ELSE part[p]
    OBVIOUS
  <2>2. /\ j = job /\ f \in Files /\ p \in Places /\ i \in Inodes /\ p = Path(job)'
        /\ part' = [part EXCEPT ![p] = i] /\ content' = [content EXCEPT ![i] = Blank]
        /\ receiver'[job].at.st = "run" /\ receiver'[job].at.file = f /\ receiver'[job].at.remaining = Sizes[f]
        /\ receiver'[job].handle.inode = i /\ (\A k \in Jobs : k # job => receiver'[k] = receiver[k])
        /\ UNCHANGED <<pc, call, sender, acked, final, stages, synced, faults>>
    BY <1>11, <2>1, OpensEffect
  <2>3. part'[p] = i /\ content'[i] = Blank
    BY <2>2 DEF Typed, Disks
  <2>4. Written(f, Sizes[f]) = 0 /\ (Sizes[f] - Sizes[f]) % ChunkSize = 0 /\ Sizes[f] <= Sizes[f]
    BY <2>2, NothingWritten, Bounds
  <2>5. \A c \in Chunks : ~(c <= 0) /\ Blank[c] = "none"
    BY ChunksPositive DEF Blank
  <2>6. i # NoInode
    BY <2>2, Bounds DEF Inodes, NoInode, Jobs
  <2>7. job' = job /\ Path(job)' = p
    BY <2>2 DEF call
  <2>8. OpenFits(job)'
    BY <2>2, <2>3, <2>4, <2>5, <2>7 DEF OpenFits, R
  <2>9. ~FileClosed(job)'
    BY <2>2, <2>6, <2>7 DEF FileClosed
  <2>10. HandleFits(job)'
    BY <2>8, <2>9 DEF HandleFits
  <2>11. QED
    BY <1>3, <1>4, <2>2, <2>7, <2>10
<1>12. ASSUME NEW j \in Jobs, ReceiverWrites(j)
       PROVE  \A k \in Jobs : HandleFits(k)'
  <2>1. PICK i, c : i = receiver[job].handle.inode /\ c = ChunkOf(R(job).file, R(job).remaining)
    OBVIOUS
  <2>2. /\ j = job /\ ~FileClosed(job) /\ i \in Inodes /\ R(job).remaining # 0
        /\ receiver'[job].at.st = "run" /\ receiver'[job].at.file = R(job).file
        /\ receiver'[job].at.remaining = Rest(R(job).remaining)
        /\ receiver'[job].handle.inode = i /\ (\A k \in Jobs : k # job => receiver'[k] = receiver[k])
        /\ UNCHANGED <<pc, call, sender, acked, part, final, stages, synced, faults>>
    BY <1>12, <2>1, WritesEffect
  <2>3. PICK w \in {"good", "bad"} :
          /\ content' = [content EXCEPT ![i] = [content[i] EXCEPT ![c] = w]]
          /\ receiver'[job].handle.bad <=> receiver[job].handle.bad \/ w = "bad"
    BY <1>12, <2>1, WritesEffect
  <2>4. OpenFits(job)
    BY <1>1, <2>2 DEF HandleFits
  <2> DEFINE f == R(job).file
             remaining == R(job).remaining
  <2>5. /\ f \in Files /\ remaining \in Nat /\ remaining # 0 /\ remaining <= Sizes[f]
        /\ (Sizes[f] - remaining) % ChunkSize = 0
    BY <2>2, <2>4, Fields DEF OpenFits, R, Typed
  <2>6. /\ c \in Nat /\ c >= 1 /\ Written(f, remaining) = c - 1 /\ Written(f, Rest(remaining)) = c
        /\ Rest(remaining) <= Sizes[f] /\ (Rest(remaining) # 0 => (Sizes[f] - Rest(remaining)) % ChunkSize = 0)
    BY <2>1, <2>5, ChunkWritten
  <2>7. /\ \A d \in Chunks : d # c => content'[i][d] = content[i][d]
        /\ c \in Chunks => content'[i][c] = w
    <3>1. content[i] \in [Chunks -> Chunk]
      BY <2>2 DEF Typed, Disks
    <3>2. content'[i] = [content[i] EXCEPT ![c] = w]
      BY <2>2, <2>3 DEF Typed, Disks
    <3>3. QED
      BY <3>1, <3>2
  <2>8. ASSUME NEW d \in Chunks
        PROVE  IF d <= c THEN content'[i][d] = "good" \/ receiver'[job].handle.bad ELSE content'[i][d] = "none"
    <3>1. IF d <= c - 1 THEN content[i][d] = "good" \/ receiver[job].handle.bad ELSE content[i][d] = "none"
      BY <2>1, <2>4, <2>6 DEF OpenFits
    <3>2. d \in Nat
      BY ChunksPositive
    <3>3. CASE d = c
      BY <2>3, <2>6, <2>7, <3>3
    <3>4. CASE d # c
      <4>1. d <= c <=> d <= c - 1
        BY <2>6, <3>2, <3>4
      <4>2. QED
        BY <2>3, <2>7, <3>1, <3>4, <4>1
    <3>5. QED
      BY <3>3, <3>4
  <2>9. job' = job /\ Path(job)' = Path(job) /\ part' = part
    BY <2>2 DEF Path, R, call
  <2>10. OpenFits(job)'
    <3>1. part'[Path(job)'] = i
      BY <2>1, <2>4, <2>9 DEF OpenFits
    <3>2. QED
      BY <2>2, <2>5, <2>6, <2>8, <2>9, <3>1 DEF OpenFits, R
  <2>11. ~FileClosed(job)'
    BY <2>1, <2>2, <2>9 DEF FileClosed
  <2>12. HandleFits(job)'
    BY <2>10, <2>11 DEF HandleFits
  <2>13. QED
    BY <1>3, <1>4, <2>2, <2>9, <2>12
<1>13. ASSUME NEW j \in Jobs, ReceiverReplaces(j)
       PROVE  \A k \in Jobs : HandleFits(k)'
  <2>1. /\ j = job /\ R(job).remaining = 0
        /\ receiver'[job].at = receiver[job].at /\ receiver'[job].handle.inode = NoInode
        /\ \A k \in Jobs : k # job => receiver'[k] = receiver[k]
    BY <1>13, ReplacesEffect
  <2>2. QED
    BY <1>3, <1>4, <1>5, <2>1 DEF R
<1>14. ASSUME NEW j \in Jobs, ReceiverRejects(j) \/ ReceiverAcks(j) \/ Fails(j)
       PROVE  \A k \in Jobs : HandleFits(k)'
  <2>1. j = job /\ UNCHANGED <<jobOf, part, content>>
    BY <1>14, AcksEffect DEF call, disk
  <2>2. CASE UNCHANGED receiver
    BY <1>6, <2>1, <2>2
  <2>3. CASE /\ receiver'[job].at.st \in {"failed", "done"} /\ receiver'[job].handle.inode = NoInode
             /\ \A k \in Jobs : k # job => receiver'[k] = receiver[k]
    BY <1>3, <1>4, <1>5, <2>1, <2>3
  <2>4. QED
    BY <1>14, <2>2, <2>3, AcksEffect
<1>15. ASSUME NEW j \in Jobs, SenderOpens(j) \/ SenderSends(j) \/ SenderReturns(j)
       PROVE  \A k \in Jobs : HandleFits(k)'
  BY <1>6, <1>15, SenderEffect DEF call, disk
<1>16. CASE \E j \in Jobs : TransferStep(j) \/ Fails(j)
  BY <1>11, <1>12, <1>13, <1>14, <1>15, <1>16 DEF TransferStep
<1>17. QED
  BY <1>7, <1>8, <1>9, <1>10, <1>16 DEF Next, CallStep

\* The two halves of InodesOnce.
Apart ==
    \A x \in Places, y \in Places :
        part[x] # NoInode => (part[y] = part[x] => y = x) /\ final[y] # part[x]

Known(x, i) == x[1] <= version /\ (i[1] < job \/ (i[1] = job /\ i[2] <= R(job).file))

LEMMA Halves ==
    /\ InodesOnce <=> Apart /\ \A x \in Places : \A i \in {part[x], final[x]} \ {NoInode} : Known(x, i)
    /\ InodesOnce' <=> Apart' /\ \A x \in Places : \A i \in {part'[x], final'[x]} \ {NoInode} : Known(x, i)'
<1>1. InodesOnce <=> Apart /\ \A x \in Places : \A i \in {part[x], final[x]} \ {NoInode} : Known(x, i)
  BY DEF InodesOnce, Apart, Known
<1>2. InodesOnce' <=> Apart' /\ \A x \in Places : \A i \in {part'[x], final'[x]} \ {NoInode} : Known(x, i)'
  BY DEF InodesOnce, Apart, Known
<1>3. QED
  BY <1>1, <1>2

\* What was known stays known.
LEMMA KnownStep ==
    ASSUME Typed, NEW x \in Places, NEW i \in Inodes, Known(x, i), version' \in Int, version' >= version,
           \/ job' = job + 1
           \/ job' = job /\ receiver'[job].at.file \in Nat /\ (job \in Jobs => receiver'[job].at.file >= R(job).file)
    PROVE  Known(x, i)'
<1>1. x[1] \in Nat /\ version \in Nat /\ job \in Nat /\ i[1] \in Nat /\ i[2] \in Nat /\ i[1] # 0
  BY Bounds, JobNumbers DEF Typed, Numbers, Places, Versions, Inodes, Jobs
<1>2. x[1] <= version'
  BY <1>1 DEF Known
<1>3. CASE job' = job + 1
  BY <1>1, <1>2, <1>3 DEF Known
<1>4. CASE job' = job /\ receiver'[job].at.file \in Nat /\ (job \in Jobs => receiver'[job].at.file >= R(job).file)
  <2>1. CASE i[1] < job
    BY <1>2, <1>4, <2>1 DEF Known
  <2>2. CASE i[1] = job /\ i[2] <= R(job).file
    <3>1. job \in Jobs
      BY <2>2 DEF Inodes
    <3>2. R(job).file \in Nat
      BY <3>1, Fields DEF R, Typed
    <3>3. i[2] <= receiver'[job].at.file
      BY <1>1, <1>4, <2>2, <3>1, <3>2
    <3>4. QED
      BY <1>2, <1>4, <2>2, <3>3 DEF Known, R
  <2>3. QED
    BY <2>1, <2>2 DEF Known
<1>5. QED
  BY <1>3, <1>4

LEMMA InodesStep ==
    ASSUME Typed, TransfersFit, HandlesFit, InodesOnce, [Next]_vars
    PROVE  InodesOnce'
<1> DEFINE Stays == /\ version' \in Int /\ version' >= version
                    /\ \/ job' = job + 1
                       \/ job' = job /\ receiver'[job].at.file \in Nat
                          /\ (job \in Jobs => receiver'[job].at.file >= R(job).file)
<1>1. Apart /\ \A x \in Places : \A i \in {part[x], final[x]} \ {NoInode} : Known(x, i)
  BY Halves
<1>2. \A x \in Places : part[x] \in Inodes \cup {NoInode} /\ final[x] \in Inodes \cup {NoInode}
  BY DEF Typed, Disks
<1>3. ASSUME Stays, NEW x \in Places, NEW i \in {part[x], final[x]} \ {NoInode}
      PROVE  Known(x, i)'
  <2>1. i \in Inodes /\ Known(x, i)
    BY <1>1, <1>2, <1>3
  <2>2. QED
    BY <1>3, <2>1, KnownStep
<1>4. version \in Nat /\ job \in Nat /\ (job = 0 \/ job \in Jobs)
  BY Bounds, JobNumbers DEF Typed, Numbers, CallsFit
<1>5. ASSUME Stays,
             \A x \in Places : part'[x] \in {part[x], NoInode} /\ final'[x] \in {final[x], NoInode}
      PROVE  InodesOnce'
  <2>1. Apart'
    BY <1>1, <1>5 DEF Apart
  <2>2. ASSUME NEW x \in Places, NEW i \in {part'[x], final'[x]} \ {NoInode}
        PROVE  i \in {part[x], final[x]} \ {NoInode}
    BY <1>5, <2>2
  <2>3. QED
    BY <1>3, <1>5, <2>1, <2>2, Halves
<1>6. ASSUME UNCHANGED <<version, job, part, final>>,
             job # 0 => receiver'[job].at.file \in Nat /\ receiver'[job].at.file >= R(job).file
      PROVE  InodesOnce'
  <2>1. CASE job # 0
    <3>1. Stays
      BY <1>4, <1>6, <2>1
    <3>2. QED
      BY <1>5, <1>6, <3>1
  <2>2. CASE job = 0
    <3>1. ASSUME NEW x \in Places, NEW i \in {part[x], final[x]} \ {NoInode} PROVE FALSE
      <4>1. i \in Inodes /\ Known(x, i)
        BY <1>1, <1>2, <3>1
      <4>2. i[1] \in Nat /\ i[1] >= 1
        BY <4>1, JobNumbers DEF Inodes, Jobs, Typed
      <4>3. QED
        BY <2>2, <4>1, <4>2 DEF Known
    <3>2. Apart'
      BY <1>1, <1>6 DEF Apart
    <3>3. QED
      BY <1>6, <3>1, <3>2, Halves
  <2>3. QED
    BY <2>1, <2>2
<1>7. ASSUME job # 0 PROVE R(job).file \in Nat /\ R(job).file >= R(job).file
  BY <1>4, <1>7, Fields DEF R, Typed
<1>8. CASE UNCHANGED <<version, job, part, final, receiver>>
  BY <1>6, <1>7, <1>8 DEF R
<1>9. CASE Sync
  <2>1. job' = job + 1 /\ version' \in Int /\ version' >= version /\ UNCHANGED <<part, final>>
    BY <1>9, NextJob DEF Sync, disk, Typed, Versions
  <2>2. QED
    BY <1>5, <2>1
<1>10. CASE Send \/ LaunchFails
  <2>1. job \in Jobs /\ UNCHANGED <<version, job, part, final>> /\ R(job).file \in Nat
    <3>1. job \in Jobs /\ UNCHANGED <<version, job, part, final>>
      BY <1>10, JobNumbers DEF Send, LaunchFails, call, disk, Typed
    <3>2. R(job).file \in Nat
      BY <3>1, Fields DEF R, Typed
    <3>3. QED
      BY <3>1, <3>2
  <2>2. CASE UNCHANGED receiver
    BY <1>8, <2>1, <2>2
  <2>3. CASE ReceiverEnds(job, "failed")
    <3>1. receiver'[job].at.file = R(job).file
      BY <2>1, <2>3, ReceiverEndsEffect DEF R
    <3>2. QED
      BY <1>6, <2>1, <3>1
  <2>4. QED
    BY <1>10, <2>2, <2>3 DEF Send, LaunchFails
<1>11. CASE Cleanup
  <2>1. job \in Jobs /\ UNCHANGED <<version, job, receiver>>
    BY <1>11, JobNumbers DEF Cleanup, call, transfer, Typed
  <2>2. \A x \in Places : part'[x] \in {part[x], NoInode} /\ final'[x] \in {final[x], NoInode}
    BY <1>11 DEF Cleanup, RemoveOthers, Places
  <2>3. Stays
    BY <1>4, <1>7, <2>1, Fields DEF R, Typed
  <2>4. QED
    BY <1>5, <2>2, <2>3
<1>12. CASE SendReturns \/ SendRaises \/ PollFails \/ Restart \/ RestartFails \/ CleanupRaises \/ PollAgain
            \/ Finished \/ UNCHANGED vars
  BY <1>8, <1>12 DEF SendReturns, SendRaises, PollFails, Restart, RestartFails, CleanupRaises, PollAgain, Finished,
                     vars, call, transfer, disk
<1>13. ASSUME NEW j \in Jobs, ReceiverOpens(j)
       PROVE  InodesOnce'
  <2>1. PICK f, p, i : /\ f = R(job).file + 1 /\ p = <<version, f>>
                       /\ i = IF part[p] = NoInode THEN <<job, f>> ELSE part[p]
    OBVIOUS
  <2>2. /\ j = job /\ f \in Files /\ p \in Places /\ i \in Inodes
        /\ part' = [part EXCEPT ![p] = i] /\ receiver'[job].at.file = f
        /\ UNCHANGED <<call, final>>
    BY <1>13, <2>1, OpensEffect
  <2>3. R(job).file \in Nat /\ f \in Nat /\ f > R(job).file
    BY <2>1, <2>2, Fields DEF R, Typed
  <2>4. Stays /\ UNCHANGED <<version, job>>
    BY <1>4, <2>2, <2>3 DEF call
  <2>5. part'[p] = i /\ (\A x \in Places : x # p => part'[x] = part[x]) /\ final' = final
    BY <2>2 DEF Typed, Disks
  <2>6. CASE part[p] # NoInode
    <3>1. \A x \in Places : part'[x] = part[x]
      BY <2>1, <2>5, <2>6
    <3>2. QED
      BY <1>5, <2>4, <2>5, <3>1
  <2>7. CASE part[p] = NoInode
    <3>1. i = <<job, f>> /\ i[1] = job /\ i[2] = f
      BY <2>1, <2>7
    <3>2. \A x \in Places : part[x] # i /\ final[x] # i
      <4>1. ASSUME NEW x \in Places, i \in {part[x], final[x]} PROVE FALSE
        <5>1. i # NoInode
          BY <2>2, JobNumbers DEF Inodes, NoInode, Jobs, Typed
        <5>2. Known(x, i)
          BY <1>1, <4>1, <5>1
        <5>3. i[2] <= R(job).file
          BY <1>4, <3>1, <5>2 DEF Known
        <5>4. QED
          BY <2>3, <3>1, <5>3
      <4>2. QED
        BY <4>1
    <3>3. Apart'
      BY <1>1, <2>5, <3>2 DEF Apart
    <3>4. Known(p, i)'
      BY <1>4, <2>1, <2>2, <2>3, <2>4, <3>1 DEF Known, R
    <3>5. ASSUME NEW x \in Places, NEW k \in {part'[x], final'[x]} \ {NoInode}
          PROVE  (x = p /\ k = i) \/ k \in {part[x], final[x]} \ {NoInode}
      BY <2>5, <3>5
    <3>6. QED
      BY <1>3, <2>4, <3>3, <3>4, <3>5, Halves
  <2>8. QED
    BY <2>6, <2>7
<1>14. ASSUME NEW j \in Jobs, ReceiverReplaces(j)
       PROVE  InodesOnce'
  <2>1. PICK p : p = Path(job)
    OBVIOUS
  <2>2. /\ j = job /\ p \in Places /\ part[p] # NoInode
        /\ final' = [final EXCEPT ![p] = part[p]] /\ part' = [part EXCEPT ![p] = NoInode]
        /\ receiver'[job].at = receiver[job].at /\ UNCHANGED call
    BY <1>14, <2>1, ReplacesEffect
  <2>3. /\ part'[p] = NoInode /\ final'[p] = part[p]
        /\ \A x \in Places : x # p => part'[x] = part[x] /\ final'[x] = final[x]
    BY <2>2 DEF Typed, Disks
  <2>4. Stays
    BY <1>4, <1>7, <2>2, Fields DEF R, Typed, call
  <2>5. Apart'
    BY <1>1, <2>2, <2>3 DEF Apart
  <2>6. ASSUME NEW x \in Places, NEW k \in {part'[x], final'[x]} \ {NoInode}
        PROVE  k \in {part[x], final[x]} \ {NoInode}
    BY <2>3, <2>6
  <2>7. QED
    BY <1>3, <2>4, <2>5, <2>6, Halves
<1>15. ASSUME NEW j \in Jobs, ReceiverWrites(j)
       PROVE  InodesOnce'
  <2>1. PICK i, c : i = receiver[job].handle.inode /\ c = ChunkOf(R(job).file, R(job).remaining)
    OBVIOUS
  <2>2. j = job /\ receiver'[job].at.file = R(job).file /\ UNCHANGED <<call, part, final>>
    BY <1>15, <2>1, WritesEffect
  <2>3. QED
    BY <1>6, <1>7, <2>2 DEF call
<1>16. ASSUME NEW j \in Jobs, ReceiverRejects(j) \/ ReceiverAcks(j) \/ Fails(j)
       PROVE  InodesOnce'
  <2>1. j = job /\ UNCHANGED <<version, job, part, final>>
    BY <1>16, AcksEffect DEF call, disk
  <2>2. UNCHANGED receiver \/ receiver'[job].at.file = R(job).file
    BY <1>16, AcksEffect
  <2>3. QED
    BY <1>6, <1>7, <1>8, <2>1, <2>2
<1>17. ASSUME NEW j \in Jobs, SenderOpens(j) \/ SenderSends(j) \/ SenderReturns(j)
       PROVE  InodesOnce'
  BY <1>8, <1>17, SenderEffect DEF call, disk
<1>18. CASE \E j \in Jobs : TransferStep(j) \/ Fails(j)
  BY <1>13, <1>14, <1>15, <1>16, <1>17, <1>18 DEF TransferStep
<1>19. QED
  BY <1>9, <1>10, <1>11, <1>12, <1>18 DEF Next, CallStep

LEMMA ArrivedStep ==
    ASSUME Typed, TransfersFit, HandlesFit, InodesOnce, Arrived, [Next]_vars
    PROVE  Arrived'
<1>1. job \in Nat /\ (job # 0 => job \in Jobs)
  BY Bounds, JobNumbers DEF Typed, Numbers, CallsFit
\* The receiver is no further, and what has arrived stays.
<1>2. ASSUME UNCHANGED <<version, job>>, \A x \in Places : x[1] = version /\ final[x] # NoInode => final'[x] # NoInode,
             job # 0 =>
                \/ receiver'[job].at.st \notin {"run", "done"}
                \/ /\ R(job).st \in {"run", "done"} /\ receiver'[job].at.file = R(job).file
                   /\ receiver'[job].handle.inode = NoInode => FileClosed(job)
      PROVE  Arrived'
  <2>1. SUFFICES ASSUME job # 0, receiver'[job].at.st \in {"run", "done"}, NEW f \in Files,
                        f < receiver'[job].at.file \/ (f = receiver'[job].at.file /\ receiver'[job].handle.inode = NoInode)
                 PROVE  final'[<<version, f>>] # NoInode
    BY <1>2 DEF Arrived, R, FileClosed
  <2>2. final[<<version, f>>] # NoInode
    BY <1>2, <2>1 DEF Arrived
  <2>3. <<version, f>> \in Places
    BY <1>1, <2>1, JobNumbers DEF Places, Typed
  <2>4. QED
    BY <1>2, <2>2, <2>3
<1>3. CASE UNCHANGED <<version, job, final, receiver>>
  BY <1>3 DEF Arrived, R, FileClosed
<1>4. CASE Sync
  <2>1. PICK n \in Jobs : n = job + 1 /\ job' = n /\ ReceiverIs(n, Started, NoHandle)
    BY <1>4, NextJob DEF Sync, Typed
  <2>2. receiver'[n].at.file = 0
    BY <2>1, StartTyped, ReceiverTyped, ReceiverMoves DEF Typed
  <2>3. \A f \in Files : ~(f < 0) /\ f # 0
    BY Bounds
  <2>4. QED
    BY <2>1, <2>2, <2>3 DEF Arrived, R
<1>5. CASE Send \/ LaunchFails
  <2>1. job \in Jobs /\ UNCHANGED <<version, job, final>>
    BY <1>5, JobNumbers DEF Send, LaunchFails, call, disk, Typed
  <2>2. CASE UNCHANGED receiver
    BY <1>3, <2>1, <2>2
  <2>3. CASE ReceiverEnds(job, "failed")
    <3>1. receiver'[job].at.st = "failed"
      BY <2>1, <2>3, ReceiverEndsEffect
    <3>2. QED
      BY <1>2, <2>1, <3>1
  <2>4. QED
    BY <1>5, <2>2, <2>3 DEF Send, LaunchFails
<1>6. CASE Cleanup
  <2>1. UNCHANGED <<version, job, receiver>>
    BY <1>6 DEF Cleanup, call, transfer
  <2>2. \A x \in Places : x[1] = version => final'[x] = final[x]
    BY <1>6 DEF Cleanup, RemoveOthers, Places
  <2>3. SUFFICES ASSUME job # 0, R(job).st \in {"run", "done"}, NEW f \in Files,
                        f < R(job).file \/ (f = R(job).file /\ FileClosed(job))
                 PROVE  final'[<<version, f>>] # NoInode
    BY <2>1 DEF Arrived, R, FileClosed
  <2>4. <<version, f>> \in Places /\ final[<<version, f>>] # NoInode
    BY <1>1, <2>3, JobNumbers DEF Places, Typed, Arrived
  <2>5. QED
    BY <2>2, <2>4
<1>7. CASE SendReturns \/ SendRaises \/ PollFails \/ Restart \/ RestartFails \/ CleanupRaises \/ PollAgain
           \/ Finished \/ UNCHANGED vars
  BY <1>3, <1>7 DEF SendReturns, SendRaises, PollFails, Restart, RestartFails, CleanupRaises, PollAgain, Finished,
                    vars, call, transfer, disk
<1>8. ASSUME NEW j \in Jobs, ReceiverOpens(j)
      PROVE  Arrived'
  <2>1. PICK f, p, i : /\ f = R(job).file + 1 /\ p = <<version, f>>
                       /\ i = IF part[p] = NoInode THEN <<job, f>> ELSE part[p]
    OBVIOUS
  <2>2. /\ j = job /\ R(job).st = "run" /\ FileClosed(job) /\ f \in Files /\ i \in Inodes
        /\ receiver'[job].at.file = f /\ receiver'[job].handle.inode = i
        /\ UNCHANGED <<call, final>>
    BY <1>8, <2>1, OpensEffect
  <2>3. i # NoInode
    BY <2>2, JobNumbers DEF Inodes, NoInode, Jobs, Typed
  <2>4. R(job).file \in Nat
    BY <2>2, Fields DEF R, Typed
  <2>5. \A g \in Files : g < f => g < R(job).file \/ g = R(job).file
    BY <2>1, <2>4, Bounds
  <2>6. \A g \in Files : g < f => final[<<version, g>>] # NoInode
    <3>1. job # 0 /\ R(job).st \in {"run", "done"}
      BY <2>2, JobNumbers DEF Jobs, Typed
    <3>2. QED
      BY <2>2, <2>5, <3>1 DEF Arrived
  <2>7. QED
    BY <2>2, <2>3, <2>6 DEF Arrived, R, FileClosed, call
<1>9. ASSUME NEW j \in Jobs, ReceiverWrites(j)
      PROVE  Arrived'
  <2>1. PICK i, c : i = receiver[job].handle.inode /\ c = ChunkOf(R(job).file, R(job).remaining)
    OBVIOUS
  <2>2. j = job /\ R(job).st = "run" /\ receiver'[job].at.file = R(job).file /\ UNCHANGED <<call, final>>
        /\ receiver'[job].handle.inode = i
    BY <1>9, <2>1, WritesEffect
  <2>3. QED
    BY <1>2, <2>1, <2>2 DEF call, FileClosed
<1>10. ASSUME NEW j \in Jobs, ReceiverReplaces(j)
       PROVE  Arrived'
  <2>1. PICK p : p = Path(job)
    OBVIOUS
  <2>2. /\ j = job /\ R(job).st = "run" /\ p \in Places /\ p = <<version, R(job).file>> /\ part[p] # NoInode
        /\ final' = [final EXCEPT ![p] = part[p]]
        /\ receiver'[job].at = receiver[job].at /\ UNCHANGED call
    BY <1>10, <2>1, ReplacesEffect
  <2>3. final'[p] # NoInode /\ \A x \in Places : x # p => final'[x] = final[x]
    BY <2>2 DEF Typed, Disks
  <2>4. SUFFICES ASSUME NEW f \in Files, f < R(job).file \/ f = R(job).file
                 PROVE  final'[<<version, f>>] # NoInode
    BY <2>2 DEF Arrived, R, call
  <2>5. CASE f = R(job).file
    BY <2>2, <2>3, <2>5
  <2>6. CASE f < R(job).file
    <3>1. final[<<version, f>>] # NoInode /\ <<version, f>> \in Places
      BY <1>1, <2>2, <2>6, JobNumbers DEF Arrived, Places, Typed, Jobs
    <3>2. QED
      BY <2>3, <3>1
  <2>7. QED
    BY <2>4, <2>5, <2>6
<1>11. ASSUME NEW j \in Jobs, ReceiverRejects(j) \/ ReceiverAcks(j) \/ Fails(j)
       PROVE  Arrived'
  <2>1. j = job /\ UNCHANGED <<version, job, final>>
    BY <1>11, AcksEffect DEF call, disk
  <2>2. CASE UNCHANGED receiver
    BY <1>3, <2>1, <2>2
  <2>3. CASE receiver'[job].at.st = "failed"
    BY <1>2, <2>1, <2>3
  <2>4. CASE R(job).st = "run" /\ receiver'[job].at.file = R(job).file /\ FileClosed(job)
    BY <1>2, <2>1, <2>4
  <2>5. QED
    BY <1>11, <2>2, <2>3, <2>4, AcksEffect
<1>12. ASSUME NEW j \in Jobs, SenderOpens(j) \/ SenderSends(j) \/ SenderReturns(j)
       PROVE  Arrived'
  BY <1>3, <1>12, SenderEffect DEF call, disk
<1>13. CASE \E j \in Jobs : TransferStep(j) \/ Fails(j)
  BY <1>8, <1>9, <1>10, <1>11, <1>12, <1>13 DEF TransferStep
<1>14. QED
  BY <1>4, <1>5, <1>6, <1>7, <1>13 DEF Next, CallStep

LEMMA WholeWritten ==
    ASSUME Typed, NEW i \in Inodes, NEW f \in Files,
           \A c \in Chunks : IF c <= ChunkCount(f) THEN content[i][c] = "good" ELSE content[i][c] = "none"
    PROVE  content[i] = WholeContent(f)
<1>1. content[i] \in [Chunks -> Chunk]
  BY DEF Typed, Disks
<1>2. \A c \in Chunks : content[i][c] = WholeContent(f)[c]
  BY DEF WholeContent
<1>3. WholeContent(f) = [c \in Chunks |-> WholeContent(f)[c]] /\ content[i] = [c \in Chunks |-> content[i][c]]
  BY <1>1 DEF WholeContent
<1>4. QED
  BY <1>2, <1>3

LEMMA FinalStep ==
    ASSUME Typed, TransfersFit, HandlesFit, InodesOnce, FinalIsWhole, [Next]_vars
    PROVE  FinalIsWhole'
<1>1. \A x \in Places : final[x] # NoInode => content[final[x]] = WholeContent(x[2])
  BY DEF FinalIsWhole, Places
<1>2. SUFFICES \A x \in Places : final'[x] # NoInode => content'[final'[x]] = WholeContent(x[2])
  <2>1. ASSUME NEW v \in Versions, NEW f \in Files
        PROVE  <<v, f>> \in Places /\ <<v, f>>[2] = f
    BY DEF Places
  <2>2. QED
    BY <2>1 DEF FinalIsWhole
<1>3. \A x \in Places : part[x] \in Inodes \cup {NoInode} /\ final[x] \in Inodes \cup {NoInode}
  BY DEF Typed, Disks
<1>4. CASE content' = content /\ \A x \in Places : final'[x] \in {final[x], NoInode}
  BY <1>1, <1>4
<1>5. CASE Cleanup
  <2>1. content' = content /\ \A x \in Places : final'[x] \in {final[x], NoInode}
    BY <1>5 DEF Cleanup, RemoveOthers, Places
  <2>2. QED
    BY <1>4, <2>1
<1>6. CASE Sync \/ Send \/ LaunchFails \/ SendReturns \/ SendRaises \/ PollFails \/ Restart \/ RestartFails
           \/ CleanupRaises \/ PollAgain \/ Finished \/ UNCHANGED vars
  BY <1>4, <1>6 DEF Sync, Send, LaunchFails, SendReturns, SendRaises, PollFails, Restart, RestartFails, CleanupRaises,
                    PollAgain, Finished, vars, disk
<1>7. ASSUME UNCHANGED final, NEW i \in Inodes, \A k \in Inodes : k # i => content'[k] = content[k],
             \A x \in Places : final[x] # i
      PROVE  \A x \in Places : final'[x] # NoInode => content'[final'[x]] = WholeContent(x[2])
  BY <1>1, <1>3, <1>7
<1>8. ASSUME NEW j \in Jobs, ReceiverOpens(j)
      PROVE  \A x \in Places : final'[x] # NoInode => content'[final'[x]] = WholeContent(x[2])
  <2>1. PICK f, p, i : /\ f = R(job).file + 1 /\ p = <<version, f>>
                       /\ i = IF part[p] = NoInode THEN <<job, f>> ELSE part[p]
    OBVIOUS
  <2>2. /\ j = job /\ f \in Files /\ p \in Places /\ i \in Inodes
        /\ content' = [content EXCEPT ![i] = Blank] /\ UNCHANGED final
    BY <1>8, <2>1, OpensEffect
  <2>3. \A k \in Inodes : k # i => content'[k] = content[k]
    BY <2>2 DEF Typed, Disks
  <2>4. ASSUME NEW x \in Places PROVE final[x] # i
    <3>1. CASE part[p] # NoInode
      BY <2>1, <2>2, <3>1 DEF InodesOnce
    <3>2. CASE part[p] = NoInode
      <4>1. i[1] = job /\ i[2] = f /\ i # NoInode /\ job \in Nat
        BY <2>1, <2>2, <3>2, JobNumbers DEF Inodes, NoInode, Jobs, Typed
      <4>2. R(job).file \in Nat /\ ~(f <= R(job).file)
        <5>1. R(job).file \in Nat
          BY <2>2, Fields DEF R, Typed
        <5>2. QED
          BY <2>1, <5>1
      <4>3. ASSUME final[x] = i PROVE FALSE
        <5>1. i[1] < job \/ (i[1] = job /\ i[2] <= R(job).file)
          BY <4>1, <4>3 DEF InodesOnce
        <5>2. QED
          BY <4>1, <4>2, <5>1
      <4>4. QED
        BY <4>3
    <3>3. QED
      BY <3>1, <3>2
  <2>5. QED
    BY <1>7, <2>2, <2>3, <2>4
<1>9. ASSUME NEW j \in Jobs, ReceiverWrites(j)
      PROVE  \A x \in Places : final'[x] # NoInode => content'[final'[x]] = WholeContent(x[2])
  <2>1. PICK i, c : i = receiver[job].handle.inode /\ c = ChunkOf(R(job).file, R(job).remaining)
    OBVIOUS
  <2>2. /\ j = job /\ ~FileClosed(job) /\ i \in Inodes /\ UNCHANGED final
        /\ \E w \in {"good", "bad"} : content' = [content EXCEPT ![i] = [content[i] EXCEPT ![c] = w]]
    BY <1>9, <2>1, WritesEffect
  <2>3. \A k \in Inodes : k # i => content'[k] = content[k]
    BY <2>2 DEF Typed, Disks
  <2>4. OpenFits(job) /\ jobOf[job] = version /\ version \in Versions
    <3>1. OpenFits(job)
      BY <2>2 DEF HandlesFit
    <3>2. QED
      BY <2>2, <3>1, OnlyLast DEF OpenFits, R
  <2>5. Path(job) \in Places /\ part[Path(job)] = i
    BY <2>1, <2>4 DEF OpenFits, Path, Places
  <2>6. i # NoInode
    BY <2>1, <2>2 DEF FileClosed
  <2>7. \A x \in Places : final[x] # i
    BY <2>5, <2>6 DEF InodesOnce
  <2>8. QED
    BY <1>7, <2>2, <2>3, <2>7
<1>10. ASSUME NEW j \in Jobs, ReceiverReplaces(j)
       PROVE  \A x \in Places : final'[x] # NoInode => content'[final'[x]] = WholeContent(x[2])
  <2>1. PICK p : p = Path(job)
    OBVIOUS
  <2>2. /\ OpenFits(job) /\ ~receiver[job].handle.bad /\ R(job).remaining = 0 /\ R(job).file \in Files
        /\ p = <<version, R(job).file>> /\ p \in Places
        /\ part[p] = receiver[job].handle.inode /\ part[p] \in Inodes
        /\ final' = [final EXCEPT ![p] = part[p]] /\ UNCHANGED content
    BY <1>10, <2>1, ReplacesEffect
  <2>3. final'[p] = part[p] /\ \A x \in Places : x # p => final'[x] = final[x]
    BY <2>2 DEF Typed, Disks
  <2>4. \A c \in Chunks : IF c <= ChunkCount(R(job).file) THEN content[part[p]][c] = "good" ELSE content[part[p]][c] = "none"
    BY <2>2 DEF OpenFits, Written
  <2>5. content[part[p]] = WholeContent(R(job).file) /\ p[2] = R(job).file
    BY <2>2, <2>4, WholeWritten
  <2>6. QED
    BY <1>1, <2>2, <2>3, <2>5
<1>11. ASSUME NEW j \in Jobs, ReceiverRejects(j) \/ ReceiverAcks(j) \/ Fails(j)
       PROVE  \A x \in Places : final'[x] # NoInode => content'[final'[x]] = WholeContent(x[2])
  BY <1>4, <1>11, AcksEffect DEF disk
<1>12. ASSUME NEW j \in Jobs, SenderOpens(j) \/ SenderSends(j) \/ SenderReturns(j)
       PROVE  \A x \in Places : final'[x] # NoInode => content'[final'[x]] = WholeContent(x[2])
  BY <1>4, <1>12, SenderEffect DEF disk
<1>13. CASE \E j \in Jobs : TransferStep(j) \/ Fails(j)
  BY <1>8, <1>9, <1>10, <1>11, <1>12, <1>13 DEF TransferStep
<1>14. QED
  BY <1>5, <1>6, <1>13 DEF Next, CallStep

(* Where the call goes on, the version is whole.                           *)
LEMMA RestartsWhole ==
    ASSUME Typed, TransfersFit, HandlesFit, Arrived, FinalIsWhole, pc \in {"restart", "cleanup"}
    PROVE  /\ version \in Versions /\ version \in StoredVersions
           /\ \A f \in Files : final[<<version, f>>] # NoInode /\ content[final[<<version, f>>]] = WholeContent(f)
<1>1. job \in Jobs /\ job # 0 /\ version \in Versions
  BY JobNumbers DEF Typed, Jobs
<1>2. sender[job].st = "done"
  BY DEF TransfersFit
<1>3. R(job).st = "done" /\ R(job).file = Len(Sizes)
  BY <1>1, <1>2 DEF TransfersFit
<1>4. FileClosed(job)
  BY <1>1, <1>3 DEF HandlesFit, OpenFits
<1>5. \A f \in Files : f < R(job).file \/ f = R(job).file
  BY <1>3, Bounds
<1>6. \A f \in Files : final[<<version, f>>] # NoInode
  BY <1>1, <1>3, <1>4, <1>5 DEF Arrived
<1>7. \A f \in Files : content[final[<<version, f>>]] = WholeContent(f)
  BY <1>1, <1>6 DEF FinalIsWhole
<1>8. QED
  BY <1>1, <1>6, <1>7 DEF StoredVersions

LEMMA LoadedStep ==
    ASSUME Typed, TransfersFit, HandlesFit, Arrived, FinalIsWhole, LoadedIsWhole, [Next]_vars
    PROVE  LoadedIsWhole'
<1>1. CASE UNCHANGED stages
  BY <1>1 DEF LoadedIsWhole, stages
<1>2. CASE Restart
  <2>1. \A f \in Files : final[<<version, f>>] # NoInode /\ content[final[<<version, f>>]] = WholeContent(f)
    BY <1>2, RestartsWhole DEF Restart
  <2>2. \A f \in Files : loaded'[f] = WholeContent(f)
    BY <1>2, <2>1 DEF Restart, ReadBy
  <2>3. QED
    BY <2>2 DEF LoadedIsWhole
<1>3. CASE RestartFails
  BY <1>3 DEF RestartFails, LoadedIsWhole
<1>4. QED
  BY <1>1, <1>2, <1>3
  DEF Next, CallStep, Sync, Send, LaunchFails, SendReturns, SendRaises, PollAgain, PollFails, Cleanup, CleanupRaises,
      TransferStep, Fails, SenderOpens, SenderSends, SenderReturns, ReceiverOpens, ReceiverWrites, ReceiverReplaces,
      ReceiverRejects, ReceiverAcks, Finished, vars

\* No step takes a fault back.
LEMMA FaultsCount ==
    ASSUME Typed, [Next]_vars, faults' = 0
    PROVE  faults = 0 /\ ~Fault
<1>1. faults \in Nat
  BY Bounds DEF Typed, Numbers
<1>2. faults' = faults \/ faults' = faults + 1
  BY DEF Next, CallStep, Sync, Send, LaunchFails, SendReturns, SendRaises, PollAgain, PollFails, Restart, RestartFails,
         Cleanup, CleanupRaises, TransferStep, Fails, ProcessFails, SenderOpens, SenderSends, SenderReturns,
         ReceiverOpens, ReceiverWrites, ReceiverReplaces, ReceiverRejects, ReceiverAcks, Finished, vars, Fault
<1>3. QED
  BY <1>1, <1>2 DEF Fault

LEMMA OldStep ==
    ASSUME Typed, TransfersFit, HandlesFit, OldVersionsGo, [Next]_vars
    PROVE  OldVersionsGo'
<1>1. SUFFICES ASSUME faults' = 0, NEW x \in Places, x[1] < synced'
               PROVE  final'[x] = NoInode /\ part'[x] = NoInode
  <2>1. ASSUME NEW v \in Versions, NEW f \in Files
        PROVE  <<v, f>> \in Places /\ <<v, f>>[1] = v
    BY DEF Places
  <2>2. QED
    BY <1>1, <2>1 DEF OldVersionsGo
<1>2. faults = 0 /\ ~Fault
  BY <1>1, FaultsCount
<1>3. x[1] < synced => final[x] = NoInode /\ part[x] = NoInode
  BY <1>2 DEF OldVersionsGo, Places
<1>4. synced <= version /\ synced \in Nat /\ version \in Nat /\ x[1] \in Nat
  BY Bounds DEF Typed, Numbers, CallsFit, Places, Versions
<1>5. CASE UNCHANGED <<part, final, synced>>
  BY <1>1, <1>3, <1>5
<1>6. CASE Cleanup
  <2>1. RemoveOthers(version) /\ synced' = version
    BY <1>2, <1>6 DEF Cleanup
  <2>2. x[1] # version
    BY <1>1, <1>4, <2>1
  <2>3. QED
    BY <2>1, <2>2 DEF RemoveOthers, Places
<1>7. ASSUME NEW p \in Places, p[1] = version, synced' = synced,
             (part'[x] = part[x] /\ final'[x] = final[x]) \/ x = p
      PROVE  final'[x] = NoInode /\ part'[x] = NoInode
  BY <1>1, <1>3, <1>4, <1>7
<1>8. ASSUME NEW j \in Jobs, ReceiverOpens(j)
      PROVE  final'[x] = NoInode /\ part'[x] = NoInode
  <2>1. PICK f, p, i : /\ f = R(job).file + 1 /\ p = <<version, f>>
                       /\ i = IF part[p] = NoInode THEN <<job, f>> ELSE part[p]
    OBVIOUS
  <2>2. p \in Places /\ part' = [part EXCEPT ![p] = i] /\ UNCHANGED <<final, synced>>
    BY <1>8, <2>1, OpensEffect
  <2>3. (part'[x] = part[x] /\ final'[x] = final[x]) \/ x = p
    BY <2>2 DEF Typed, Disks
  <2>4. QED
    BY <1>7, <2>1, <2>2, <2>3
<1>9. ASSUME NEW j \in Jobs, ReceiverReplaces(j)
      PROVE  final'[x] = NoInode /\ part'[x] = NoInode
  <2>1. PICK p : p = Path(job)
    OBVIOUS
  <2>2. /\ p \in Places /\ p = <<version, R(job).file>> /\ UNCHANGED synced
        /\ final' = [final EXCEPT ![p] = part[p]] /\ part' = [part EXCEPT ![p] = NoInode]
    BY <1>9, <2>1, ReplacesEffect
  <2>3. (part'[x] = part[x] /\ final'[x] = final[x]) \/ x = p
    BY <2>2 DEF Typed, Disks
  <2>4. QED
    BY <1>7, <2>2, <2>3
<1>10. CASE \E j \in Jobs : TransferStep(j) \/ Fails(j)
  BY <1>5, <1>8, <1>9, <1>10
  DEF TransferStep, Fails, SenderOpens, SenderSends, SenderReturns, ReceiverWrites, ReceiverRejects, ReceiverAcks, disk
<1>11. CASE Sync \/ Send \/ LaunchFails \/ SendReturns \/ SendRaises \/ PollFails \/ Restart \/ RestartFails
            \/ CleanupRaises \/ PollAgain \/ Finished \/ UNCHANGED vars
  BY <1>5, <1>11 DEF Sync, Send, LaunchFails, SendReturns, SendRaises, PollFails, Restart, RestartFails, CleanupRaises,
                     PollAgain, Finished, vars, disk
<1>12. QED
  BY <1>6, <1>10, <1>11 DEF Next, CallStep


-----------------------------------------------------------------------------
(* The inductive invariant, and the theorems for calls that do not overlap. *)

SyncInv ==
    Typed /\ TransfersFit /\ HandlesFit /\ InodesOnce /\ Arrived /\ FinalIsWhole /\ LoadedIsWhole /\ OldVersionsGo

LEMMA SyncInit == Init => SyncInv
<1> SUFFICES ASSUME Init PROVE SyncInv
  OBVIOUS
<1>1. Typed
  BY TypedInit
<1>2. TransfersFit
  BY DEF Init, TransfersFit, Ended, R, NotStarted
<1>3. HandlesFit
  BY DEF Init, HandlesFit, FileClosed, R, NotStarted, NoHandle
<1>4. InodesOnce /\ FinalIsWhole /\ OldVersionsGo
  BY DEF Init, InodesOnce, FinalIsWhole, OldVersionsGo, Places
<1>5. Arrived /\ LoadedIsWhole
  BY DEF Init, Arrived, LoadedIsWhole
<1>6. QED
  BY <1>1, <1>2, <1>3, <1>4, <1>5 DEF SyncInv

LEMMA SyncStep ==
    ASSUME SyncInv, [Next]_vars, CallWaits
    PROVE  SyncInv'
  BY TypedStep, TransfersFitStep, HandlesFitStep, InodesStep, ArrivedStep, FinalStep, LoadedStep, OldStep DEF SyncInv

LEMMA SyncInvariant == ~Overlap => (Spec => []SyncInv)
<1> SUFFICES ASSUME ~Overlap
             PROVE  Spec => []SyncInv
  OBVIOUS
<1>1. SyncInv /\ [Next]_vars => SyncInv'
  BY SyncStep DEF CallWaits, Sync
<1>2. QED
  BY <1>1, SyncInit, PTL DEF Spec

(* The call, the processes of its transfer and the files on the rollout    *)
(* machine agree, whatever fails and however often sync() is called again. *)
THEOREM SyncCorrect == ~Overlap => (Spec => []SyncAgrees)
<1> SUFFICES ASSUME ~Overlap
             PROVE  Spec => []SyncAgrees
  OBVIOUS
<1>1. SyncInv => SyncAgrees
  BY TypedParts DEF SyncInv, SyncAgrees, Typed
<1>2. QED
  BY <1>1, SyncInvariant, PTL

(* A file has its final name only when it is whole: what a failed or       *)
(* corrupted transfer leaves is never taken for a file of the policy.      *)
THEOREM FinalCorrect == ~Overlap => (Spec => []FinalIsWhole)
<1> SUFFICES ASSUME ~Overlap
             PROVE  Spec => []FinalIsWhole
  OBVIOUS
<1>1. SyncInv => FinalIsWhole
  BY DEF SyncInv
<1>2. QED
  BY <1>1, SyncInvariant, PTL

(* Stages are started from the bytes of the policy, all of them.           *)
THEOREM LoadedCorrect == ~Overlap => (Spec => []LoadedIsWhole)
<1> SUFFICES ASSUME ~Overlap
             PROVE  Spec => []LoadedIsWhole
  OBVIOUS
<1>1. SyncInv => LoadedIsWhole
  BY DEF SyncInv
<1>2. QED
  BY <1>1, SyncInvariant, PTL

-----------------------------------------------------------------------------
(* While nothing fails, no call has to wait.                               *)

LEMMA NothingFailedStep ==
    ASSUME SyncInv, NothingFailed, [Next]_vars, ~Fault
    PROVE  NothingFailed'
<1> DEFINE Fine(j) == /\ sender[j].st # "failed" /\ R(j).st # "failed"
                      /\ wire[j] \in Seq({"good"}) /\ ~receiver[j].handle.bad
<1>1. \A j \in Jobs : Fine(j)
  BY DEF NothingFailed
<1>2. SUFFICES /\ \A j \in Jobs : Fine(j)'
               /\ (pc # "stopped")'
               /\ (pc = "sending" => sender[job].st # "none")'
               /\ (pc = "idle" => \A j \in Jobs : Ended(j))'
  BY DEF NothingFailed
<1>3. Typed /\ Transfers /\ TransfersFit /\ HandlesFit
  BY DEF SyncInv, Typed
<1>4. CASE UNCHANGED <<pc, job, transfer>>
  BY <1>1, <1>4 DEF NothingFailed, transfer, R, Ended
<1>5. CASE Sync
  <2>1. PICK n \in Jobs : n = job + 1 /\ job' = n /\ ReceiverIs(n, Started, NoHandle)
    BY <1>3, <1>5, NextJob DEF Sync, Typed
  <2>2. /\ receiver'[n].at = Started /\ receiver'[n].handle = NoHandle
        /\ \A k \in Jobs : k # n => receiver'[k] = receiver[k]
    BY <1>3, <2>1, StartTyped, ReceiverTyped, ReceiverMoves
  <2>3. pc' = "receiving" /\ UNCHANGED <<sender, wire>>
    BY <1>5 DEF Sync
  <2>4. QED
    BY <1>1, <2>2, <2>3, StartTyped DEF R
<1>6. CASE Send
  <2>1. job \in Jobs /\ job' = job /\ pc' = "sending" /\ SenderIs(job, Started) /\ UNCHANGED <<receiver, wire>>
    BY <1>3, <1>6, JobNumbers DEF Send, call, Typed
  <2>2. sender'[job].st = "run" /\ \A k \in Jobs : k # job => sender'[k] = sender[k]
    BY <1>3, <2>1, StartTyped, SenderMoves
  <2>3. QED
    BY <1>1, <2>1, <2>2 DEF R
<1>7. CASE SendReturns \/ Restart
  BY <1>1, <1>7 DEF SendReturns, Restart, transfer, R
<1>8. ~SendRaises
  BY <1>1, <1>3, JobNumbers DEF SendRaises, Typed
<1>9. CASE Cleanup
  <2>1. job \in Jobs /\ sender[job].st = "done"
    BY <1>3, <1>9, JobNumbers DEF Cleanup, TransfersFit, Typed
  <2>2. R(job).st = "done"
    BY <1>3, <2>1 DEF TransfersFit
  <2>3. \A j \in Jobs : Ended(j)
    BY <1>3, <2>1, <2>2 DEF TransfersFit, Ended, R
  <2>4. QED
    BY <1>1, <1>9, <2>3 DEF Cleanup, transfer, call, R, Ended
<1>10. ASSUME NEW j \in Jobs, SenderOpens(j) \/ SenderSends(j) \/ SenderReturns(j)
       PROVE  NothingFailed'
  <2>1. /\ sender[j].st = "run" /\ sender'[j].st \in {"run", "done"} /\ j = job
        /\ \A k \in Jobs : k # j => sender'[k] = sender[k]
        /\ UNCHANGED <<pc, call, receiver>>
    BY <1>3, <1>10, SenderEffect, OnlyLast
  <2>2. \A k \in Jobs : wire'[k] \in Seq({"good"})
    <3>1. CASE UNCHANGED wire
      BY <1>1, <3>1
    <3>2. CASE wire' = [wire EXCEPT ![j] = Append(wire[j], "good")]
      <4>1. wire[j] \in Seq({"good"}) /\ Append(wire[j], "good") \in Seq({"good"})
        BY <1>1, AppendProperties
      <4>2. QED
        BY <1>1, <1>3, <3>2, <4>1 DEF Transfers
    <3>3. QED
      BY <1>10, <3>1, <3>2 DEF SenderOpens, SenderSends, SenderReturns
  <2>3. pc # "idle"
    BY <2>1 DEF NothingFailed, Ended
  <2>4. QED
    BY <1>1, <2>1, <2>2, <2>3 DEF NothingFailed, call, R
<1>11. ASSUME NEW j \in Jobs, ReceiverOpens(j) \/ ReceiverWrites(j) \/ ReceiverReplaces(j) \/ ReceiverAcks(j)
       PROVE  NothingFailed'
  <2>1. R(j).st = "run" /\ j = job /\ UNCHANGED <<pc, call, sender>>
    BY <1>3, <1>11, OnlyLast DEF ReceiverOpens, ReceiverWrites, ReceiverReplaces, ReceiverAcks, R
  <2>2. /\ receiver'[j].at.st # "failed" /\ ~receiver'[j].handle.bad
        /\ \A k \in Jobs : k # j => receiver'[k] = receiver[k]
    <3>1. CASE ReceiverOpens(j)
      <4> DEFINE f == R(job).file + 1
                 p == <<version, f>>
                 i == IF part[p] = NoInode THEN <<job, f>> ELSE part[p]
      <4>1. /\ receiver'[job].at.st = "run" /\ f \in Files /\ i \in Inodes
            /\ \A k \in Jobs : k # job => receiver'[k] = receiver[k]
        BY <1>3, <3>1, OpensEffect
      <4>2. receiver'[j].handle.bad = FALSE
        BY <1>3, <3>1 DEF ReceiverOpens, ReceiverIs, Transfers
      <4>3. QED
        BY <2>1, <4>1, <4>2
    <3>2. CASE ReceiverWrites(j)
      <4>1. Head(wire[j]) = "good"
        BY <1>1, <3>2, HeadTailProperties DEF ReceiverWrites
      <4>2. receiver'[j].handle.bad = (receiver[j].handle.bad \/ Head(wire[j]) = "bad")
        BY <1>3, <3>2 DEF ReceiverWrites, ReceiverIs, Transfers
      <4>3. receiver'[job].at.st = "run" /\ \A k \in Jobs : k # job => receiver'[k] = receiver[k]
        BY <1>3, <3>2, WritesEffect
      <4>4. QED
        BY <1>1, <2>1, <4>1, <4>2, <4>3
    <3>3. CASE ReceiverReplaces(j)
      <4>1. ReceiverIs(j, R(j), NoHandle) /\ R(j) \in Process
        BY <1>3, <3>3, ReceiverTyped DEF ReceiverReplaces, R
      <4>2. receiver'[j].at = R(j) /\ receiver'[j].handle = NoHandle /\ \A k \in Jobs : k # j => receiver'[k] = receiver[k]
        BY <1>3, <4>1, ReceiverTyped, ReceiverMoves
      <4>3. QED
        BY <2>1, <4>2, StartTyped
    <3>4. CASE ReceiverAcks(j)
      <4>1. ReceiverEnds(j, "done")
        BY <3>4 DEF ReceiverAcks
      <4>2. receiver'[j].at.st = "done" /\ \A k \in Jobs : k # j => receiver'[k] = receiver[k]
        BY <1>3, <4>1, ReceiverEndsEffect
      <4>3. receiver'[j].handle.bad = FALSE
        BY <1>3, <4>1 DEF ReceiverEnds, ReceiverIs, NoHandle, Transfers
      <4>4. QED
        BY <4>2, <4>3
    <3>5. QED
      BY <1>11, <3>1, <3>2, <3>3, <3>4
  <2>3. \A k \in Jobs : wire'[k] \in Seq({"good"})
    <3>1. CASE UNCHANGED wire
      BY <1>1, <3>1
    <3>2. CASE wire[j] # << >> /\ wire' = [wire EXCEPT ![j] = Tail(wire[j])]
      <4>1. wire[j] \in Seq({"good"}) /\ Tail(wire[j]) \in Seq({"good"})
        BY <1>1, <3>2, HeadTailProperties
      <4>2. QED
        BY <1>1, <1>3, <3>2, <4>1 DEF Transfers
    <3>3. QED
      BY <1>11, <3>1, <3>2 DEF ReceiverOpens, ReceiverWrites, ReceiverReplaces, ReceiverAcks
  <2>4. pc # "idle"
    BY <2>1 DEF NothingFailed, Ended, R
  <2>5. QED
    BY <1>1, <2>1, <2>2, <2>3, <2>4 DEF NothingFailed, call, R
<1>12. ASSUME NEW j \in Jobs, ReceiverRejects(j)
       PROVE  FALSE
  <2>1. ~FileClosed(j) /\ part[Path(j)] = NoInode
    BY <1>1, <1>12 DEF ReceiverRejects, FileClosed, HashMatches
  <2>2. OpenFits(j)
    BY <1>3, <2>1 DEF HandlesFit
  <2>3. QED
    BY <2>1, <2>2 DEF OpenFits, FileClosed
<1>13. ASSUME NEW j \in Jobs, Fails(j)
       PROVE  FALSE
  <2>1. /\ R(j).st = "run" /\ sender[j].st = "none"
        /\ j < job \/ pc # "receiving"
    BY <1>1, <1>13 DEF Fails, ProcessFails, PeerGone
  <2>2. j = job /\ job \in Nat
    BY <1>3, <2>1, OnlyLast, Bounds, JobNumbers DEF R, Typed, Numbers
  <2>3. pc \in {"idle", "sending", "restart", "cleanup", "stopped"}
    BY <1>3, <2>1, <2>2 DEF Typed, Numbers
  <2>4. QED
    BY <1>3, <2>1, <2>2, <2>3 DEF NothingFailed, TransfersFit, Ended, R
<1>14. CASE \E j \in Jobs : TransferStep(j) \/ Fails(j)
  BY <1>10, <1>11, <1>12, <1>13, <1>14 DEF TransferStep, NothingFailed
<1>15. ~LaunchFails /\ ~PollFails /\ ~RestartFails /\ ~CleanupRaises
  BY DEF LaunchFails, PollFails, RestartFails, CleanupRaises
<1>16. CASE PollAgain \/ Finished \/ UNCHANGED vars
  BY <1>4, <1>16 DEF PollAgain, Finished, vars, call
<1>17. QED
  BY <1>5, <1>6, <1>7, <1>8, <1>9, <1>14, <1>15, <1>16 DEF Next, CallStep

(* While nothing fails, everything agrees, also when sync() does not wait  *)
(* for the processes of the call before: a call that has returned left     *)
(* none running.                                                           *)
THEOREM CalmCorrect == Spec => []CalmAgrees
<1> DEFINE Calm == faults = 0 => SyncInv /\ NothingFailed
<1>1. Init => Typed /\ Calm
  <2> SUFFICES ASSUME Init PROVE SyncInv /\ NothingFailed
    BY TypedInit
  <2>1. << >> \in Seq({"good"})
    BY EmptySeq
  <2>2. NothingFailed
    BY <2>1 DEF Init, NothingFailed, Ended, R, NotStarted, NoHandle
  <2>3. QED
    BY <2>2, SyncInit
<1>2. Typed /\ Calm /\ [Next]_vars => Typed' /\ Calm'
  <2> SUFFICES ASSUME Typed, Calm, [Next]_vars
               PROVE  Typed' /\ Calm'
    OBVIOUS
  <2>1. ASSUME faults' = 0
        PROVE  SyncInv' /\ NothingFailed'
    <3>1. faults = 0 /\ ~Fault /\ SyncInv /\ NothingFailed
      BY <2>1, FaultsCount
    <3>2. CallWaits
      BY <3>1 DEF CallWaits, Sync, NothingFailed
    <3>3. QED
      BY <3>1, <3>2, SyncStep, NothingFailedStep
  <2>2. QED
    BY <2>1, TypedStep
<1>3. Calm => CalmAgrees
  BY TypedParts DEF CalmAgrees, SyncInv, SyncAgrees, Typed
<1>4. QED
  BY <1>1, <1>2, <1>3, PTL DEF Spec

(* While nothing fails, only one version that was synced keeps its files.  *)
THEOREM OldVersionsCorrect == Spec => []OldVersionsGo
<1>1. CalmAgrees => OldVersionsGo
  BY DEF CalmAgrees, OldVersionsGo
<1>2. QED
  BY <1>1, CalmCorrect, PTL

-----------------------------------------------------------------------------
(* The refinement: what a step does to the versions that are whole.        *)

\* A version is stored when each of its files has the final name.
LEMMA Stored ==
    ASSUME FinalIsWhole
    PROVE  StoredVersions = {v \in Versions : \A f \in Files : final[<<v, f>>] # NoInode}
  BY DEF StoredVersions, FinalIsWhole

LEMMA StoredNext ==
    ASSUME FinalIsWhole'
    PROVE  StoredVersions' = {v \in Versions : \A f \in Files : final'[<<v, f>>] # NoInode}
  BY DEF StoredVersions, FinalIsWhole

\* What is stored or served is not newer than the version that is synced.
LEMMA NotNewer ==
    ASSUME SyncInv
    PROVE  \A w \in StoredVersions \cup {served} : w <= version
<1>1. ASSUME NEW w \in StoredVersions
      PROVE  w <= version
  <2>1. PICK f \in Files : TRUE
    BY Bounds
  <2>2. <<w, f>> \in Places /\ final[<<w, f>>] # NoInode
    BY <1>1 DEF StoredVersions, Places
  <2>3. <<w, f>>[1] <= version
    BY <2>2 DEF SyncInv, InodesOnce
  <2>4. QED
    BY <2>3
<1>2. served <= version
  BY DEF SyncInv, Typed, CallsFit
<1>3. QED
  BY <1>1, <1>2

LEMMA StoreInitially == Init => Store!StoreInit
<1> SUFFICES ASSUME Init PROVE Store!StoreInit
  OBVIOUS
<1>1. PICK f \in Files : TRUE
  BY Bounds
<1>2. \A v \in Versions : final[<<v, f>>] = NoInode
  BY DEF Init
<1>3. StoredVersions = {}
  BY <1>2 DEF StoredVersions
<1>4. QED
  BY <1>3 DEF Init, Store!StoreInit

\* A file with its final name is all a version is waiting for, or not.
LEMMA ReplaceArrives ==
    ASSUME SyncInv, SyncInv', NEW j \in Jobs, ReceiverReplaces(j)
    PROVE  (\E v \in Versions : Store!Arrive(v)) \/ UNCHANGED <<StoredVersions, served>>
<1> USE DEF SyncInv
<1>1. PICK p : p = Path(job)
  OBVIOUS
<1>2. /\ p = <<version, R(job).file>> /\ p \in Places /\ final' = [final EXCEPT ![p] = part[p]] /\ part[p] # NoInode
      /\ UNCHANGED served
  BY <1>1, ReplacesEffect DEF stages
<1>3. version \in Versions
  BY <1>2 DEF Places
<1>4. \A x \in Places : x # p => final'[x] = final[x]
  BY <1>2 DEF Typed, Disks
<1>5. ASSUME NEW v \in Versions, v # version, NEW f \in Files
      PROVE  final'[<<v, f>>] = final[<<v, f>>]
  BY <1>2, <1>4, <1>5 DEF Places
<1>6. ASSUME NEW f \in Files, final[<<version, f>>] # NoInode
      PROVE  final'[<<version, f>>] # NoInode
  <2>1. <<version, f>> \in Places
    BY <1>3 DEF Places
  <2>2. CASE <<version, f>> = p
    BY <1>2, <2>1, <2>2 DEF Typed, Disks
  <2>3. QED
    BY <1>4, <1>6, <2>1, <2>2
<1>7. StoredVersions' = StoredVersions \/ StoredVersions' = StoredVersions \cup {version}
  BY <1>3, <1>5, <1>6, Stored, StoredNext
<1>8. QED
  BY <1>2, <1>3, <1>7, NotNewer DEF Store!Arrive

\* What goes is everything but the version that is served.
LEMMA CleanupCleans ==
    ASSUME SyncInv, SyncInv', Cleanup
    PROVE  Store!Clean \/ UNCHANGED <<StoredVersions, served>>
<1> USE DEF SyncInv
<1>1. served = version /\ served' = served /\ version \in Versions /\ version \in StoredVersions
  BY RestartsWhole DEF Cleanup, TransfersFit, stages
<1>2. CASE UNCHANGED <<part, final>>
  BY <1>1, <1>2, Stored, StoredNext
<1>3. CASE RemoveOthers(version)
  <2>1. PICK f \in Files : TRUE
    BY Bounds
  <2>2. ASSUME NEW v \in Versions, v # version
        PROVE  final'[<<v, f>>] = NoInode
    BY <1>3, <2>1, <2>2 DEF RemoveOthers
  <2>3. ASSUME NEW g \in Files
        PROVE  final'[<<version, g>>] = final[<<version, g>>]
    BY <1>1, <1>3, <2>3 DEF RemoveOthers
  <2>4. StoredVersions' = {version}
    BY <1>1, <2>1, <2>2, <2>3, Stored, StoredNext
  <2>5. QED
    BY <1>1, <2>4 DEF Store!Clean
<1>4. QED
  BY <1>2, <1>3 DEF Cleanup

LEMMA StoreStep ==
    ASSUME SyncInv, SyncInv', [Next]_vars
    PROVE  [Store!StoreNext]_(Store!storeVars)
<1> USE DEF SyncInv
<1>1. ASSUME UNCHANGED <<final, served>>
      PROVE  UNCHANGED <<StoredVersions, served>>
  BY <1>1, Stored, StoredNext
<1>2. ASSUME UNCHANGED <<StoredVersions, served>>
      PROVE  [Store!StoreNext]_(Store!storeVars)
  BY <1>2 DEF Store!storeVars
<1>3. CASE Restart
  <2>1. version \in Versions /\ version \in StoredVersions /\ served <= version
    BY <1>3, RestartsWhole, NotNewer DEF Restart
  <2>2. StoredVersions' = StoredVersions /\ served' = version
    BY <1>3, Stored, StoredNext DEF Restart, disk
  <2>3. Store!Switch(version)
    BY <2>1, <2>2 DEF Store!Switch
  <2>4. QED
    BY <2>1, <2>3 DEF Store!StoreNext
<1>4. CASE RestartFails
  <2>1. StoredVersions' = StoredVersions /\ served' = 0
    BY <1>4, Stored, StoredNext DEF RestartFails, disk
  <2>2. QED
    BY <2>1 DEF Store!Stop, Store!StoreNext
<1>5. CASE Cleanup
  BY <1>2, <1>5, CleanupCleans DEF Store!StoreNext
<1>6. ASSUME NEW j \in Jobs, ReceiverReplaces(j)
      PROVE  [Store!StoreNext]_(Store!storeVars)
  BY <1>2, <1>6, ReplaceArrives DEF Store!StoreNext
<1>7. ASSUME NEW j \in Jobs, TransferStep(j) \/ Fails(j), ~ReceiverReplaces(j)
      PROVE  UNCHANGED <<final, served>>
  BY <1>7 DEF TransferStep, Fails, SenderOpens, SenderSends, SenderReturns, ReceiverOpens, ReceiverWrites,
              ReceiverRejects, ReceiverAcks, disk, stages
<1>8. CASE Sync \/ Send \/ LaunchFails \/ SendReturns \/ SendRaises \/ PollAgain \/ PollFails \/ CleanupRaises
           \/ Finished \/ UNCHANGED vars
  <2>1. UNCHANGED <<final, served>>
    BY <1>8 DEF Sync, Send, LaunchFails, SendReturns, SendRaises, PollAgain, PollFails, CleanupRaises, Finished, vars,
                disk, stages
  <2>2. QED
    BY <1>1, <1>2, <2>1
<1>9. QED
  BY <1>1, <1>2, <1>3, <1>4, <1>5, <1>6, <1>7, <1>8 DEF Next, CallStep

(* sync(), over all its transfers, retries and failures, is the policy     *)
(* store: a version appears when its last file does, the stages switch to  *)
(* whole versions only, and what is removed is never what is served.       *)
THEOREM ImplementsPolicyStoreCorrect == ~Overlap => (Spec => ImplementsPolicyStore)
<1> SUFFICES ASSUME ~Overlap
             PROVE  Spec => ImplementsPolicyStore
  OBVIOUS
<1>1. SyncInv /\ SyncInv' /\ [Next]_vars => [Store!StoreNext]_(Store!storeVars)
  BY StoreStep
<1>2. QED
  BY <1>1, StoreInitially, SyncInvariant, PTL DEF Spec, ImplementsPolicyStore, Store!StoreSpec
=============================================================================
