----------------------------- MODULE WeightSync -----------------------------
(***************************************************************************)
(* QuicWeightSynchronizer.sync() (synchronization/weights.py) over         *)
(* send_directory() and recv_directory() (synchronization/                 *)
(* quic_transfer.py): the receiver is launched on the rollout machine, the *)
(* sender sends the files of the exported policy in chunks, the stages are *)
(* restarted from the files received, and older versions are removed.  The *)
(* orchestrator calls sync() again when it raises.  The processes of a     *)
(* call are detached and can outlive it.                                   *)
(***************************************************************************)
EXTENDS Integers, Sequences, FiniteSets

CONSTANTS
    Sizes,           \* the size of each file of a checkpoint, in bytes
    ChunkSize,       \* CHUNK_SIZE_BYTES
    Window,          \* bound: chunks in flight
    MaxVersions,     \* bound: policy versions synced
    MaxAttempts,     \* retry_attempts of the orchestrator
    MaxFaults,       \* bound: failures in one behaviour
    RemoteSender,    \* is `sender` set, so that sync() polls the log of the sender?
    Overlap          \* may sync() be called while processes of an earlier call run?

Files == DOMAIN Sizes
Versions == 1 .. MaxVersions
Jobs == 1 .. MaxVersions * MaxAttempts
ChunkCount(f) == (Sizes[f] + ChunkSize - 1) \div ChunkSize
Chunks == UNION {1 .. ChunkCount(f) : f \in Files}
Inodes == Jobs \X Files
NoInode == <<0, 0>>

ASSUME WeightSyncAssumption ==
    /\ Sizes \in Seq(Nat) \ {<< >>}    \* an exported policy has files
    /\ ChunkSize \in Nat \ {0}
    /\ Window \in Nat \ {0}
    /\ MaxVersions \in Nat
    /\ MaxAttempts \in Nat \ {0}
    /\ MaxFaults \in Nat
    /\ RemoteSender \in BOOLEAN
    /\ Overlap \in BOOLEAN

VARIABLES
    pc,        \* where the orchestrator is in sync()
    version,   \* policy_version of the sync() call
    attempt,   \* which call for that version it is
    job,       \* the number of calls made; the job_id of the last
    jobOf,     \* the policy version of each call
    sender,    \* send_directory() of each call
    receiver,  \* recv_directory() of each call
    wire,      \* the chunks on their way, per call
    acked,     \* the calls whose receiver has sent its ack
    part,      \* v{N}/stage0/{file}.part on the rollout machine: an inode
    final,     \* v{N}/stage0/{file}
    content,   \* what was written to each inode
    served,    \* the version the stages were started from, or 0
    loaded,    \* what they read from each file
    synced,    \* the last version sync() returned for
    faults

disk == <<part, final, content>>
transfer == <<sender, receiver, wire, acked>>
stages == <<served, loaded>>
call == <<version, attempt, job, jobOf>>
vars == <<pc, call, transfer, disk, stages, synced, faults>>

Blank == [k \in Chunks |-> "none"]
ChunkOf(f, remaining) == (Sizes[f] - remaining) \div ChunkSize + 1
WholeContent(f) == [k \in Chunks |-> IF k <= ChunkCount(f) THEN "good" ELSE "none"]

Process == [st: {"none", "run", "done", "failed"}, file: 0 .. Len(Sizes) + 1, remaining: Nat]
NotStarted == [st |-> "none", file |-> 0, remaining |-> 0]
Started == [st |-> "run", file |-> 0, remaining |-> 0]
NoHandle == [inode |-> NoInode, bad |-> FALSE]
Receiver == [at: Process, handle: [inode: Inodes \cup {NoInode}, bad: BOOLEAN]]

TypeOK ==
    /\ pc \in {"idle", "receiving", "sending", "restart", "cleanup", "stopped"}
    /\ version \in 0 .. MaxVersions
    /\ attempt \in 0 .. MaxAttempts
    /\ job \in 0 .. MaxVersions * MaxAttempts
    /\ jobOf \in [Jobs -> 0 .. MaxVersions]
    /\ sender \in [Jobs -> Process]
    /\ receiver \in [Jobs -> Receiver]
    /\ wire \in [Jobs -> Seq({"good", "bad"})] /\ \A j \in Jobs : Len(wire[j]) <= Window
    /\ acked \subseteq Jobs
    /\ part \in [Versions \X Files -> Inodes \cup {NoInode}]
    /\ final \in [Versions \X Files -> Inodes \cup {NoInode}]
    /\ content \in [Inodes -> [Chunks -> {"none", "good", "bad"}]]
    /\ served \in 0 .. MaxVersions
    /\ loaded \in [Files -> [Chunks -> {"none", "good", "bad"}]]
    /\ synced \in 0 .. MaxVersions
    /\ faults \in 0 .. MaxFaults

Init ==
    /\ pc = "idle"
    /\ version = 0 /\ attempt = 0 /\ job = 0
    /\ jobOf = [j \in Jobs |-> 0]
    /\ sender = [j \in Jobs |-> NotStarted]
    /\ receiver = [j \in Jobs |-> [at |-> NotStarted, handle |-> NoHandle]]
    /\ wire = [j \in Jobs |-> << >>]
    /\ acked = {}
    /\ part = [x \in Versions \X Files |-> NoInode]
    /\ final = [x \in Versions \X Files |-> NoInode]
    /\ content = [i \in Inodes |-> Blank]
    /\ served = 0
    /\ loaded = [f \in Files |-> Blank]
    /\ synced = 0
    /\ faults = 0

Fault == faults < MaxFaults /\ faults' = faults + 1

-----------------------------------------------------------------------------
(* The orchestrator *)

\* sync() raises: called again for the version, at most retry_attempts times.
RaisesInto(p) == p = IF attempt < MaxAttempts THEN "idle" ELSE "stopped"

Ended(j) == sender[j].st # "run" /\ receiver[j].at.st # "run"

\* sender and receiver, when the process of one call starts, ends or goes on.
SenderIs(j, at) == sender' = [sender EXCEPT ![j] = at]
SenderEnds(j, st) == SenderIs(j, [sender[j] EXCEPT !.st = st])
ReceiverIs(j, at, handle) == receiver' = [receiver EXCEPT ![j] = [at |-> at, handle |-> handle]]
ReceiverEnds(j, st) == ReceiverIs(j, [receiver[j].at EXCEPT !.st = st], NoHandle)

\* sync(): a new job_id, and the receiver launched for it.
Sync ==
    /\ pc = "idle"
    /\ \/ version # synced /\ version' = version /\ attempt' = attempt + 1
       \/ version = synced /\ version < MaxVersions /\ version' = version + 1 /\ attempt' = 1
    /\ Overlap \/ \A j \in Jobs : Ended(j)
    /\ job' = job + 1
    /\ jobOf' = [jobOf EXCEPT ![job + 1] = version']
    /\ ReceiverIs(job + 1, Started, NoHandle)
    /\ pc' = "receiving"
    /\ UNCHANGED <<sender, wire, acked, disk, stages, synced, faults>>

\* _send(): in this process, or launched on the machine of the trainer.
Send ==
    /\ pc = "receiving"
    /\ SenderIs(job, Started)
    /\ pc' = "sending"
    /\ UNCHANGED <<call, receiver, wire, acked, disk, stages, synced, faults>>

\* A launch command fails, whether or not what it launched is running.
LaunchFails ==
    /\ pc = "receiving"
    /\ Fault
    /\ RaisesInto(pc')
    /\ \/ UNCHANGED <<sender, receiver>>
       \/ ReceiverEnds(job, "failed") /\ UNCHANGED sender
       \/ RemoteSender /\ SenderIs(job, Started) /\ UNCHANGED receiver
    /\ UNCHANGED <<call, wire, acked, disk, stages, synced>>

\* send_directory() returns, or its log shows SEND_RESULT.
SendReturns ==
    /\ pc = "sending"
    /\ sender[job].st = "done"
    /\ pc' = "restart"
    /\ UNCHANGED <<call, transfer, disk, stages, synced, faults>>

\* send_directory() raises, or its log shows a traceback.
SendRaises ==
    /\ pc = "sending"
    /\ sender[job].st = "failed"
    /\ RaisesInto(pc')
    /\ UNCHANGED <<call, transfer, disk, stages, synced, faults>>

\* The log says nothing yet.
PollAgain ==
    /\ pc = "sending"
    /\ RemoteSender
    /\ sender[job].st = "run"
    /\ UNCHANGED vars

\* The command that reads the log fails, or transfer_timeout_s is over: sync()
\* raises and the transfer goes on.
PollFails ==
    /\ pc = "sending"
    /\ RemoteSender
    /\ Fault
    /\ RaisesInto(pc')
    /\ UNCHANGED <<call, transfer, disk, stages, synced>>

ReadBy(v, f) == IF final[<<v, f>>] = NoInode THEN Blank ELSE content[final[<<v, f>>]]

\* stage_launcher.restart(): the stages read the files of the version.
Restart ==
    /\ pc = "restart"
    /\ served' = version
    /\ loaded' = [f \in Files |-> ReadBy(version, f)]
    /\ pc' = "cleanup"
    /\ UNCHANGED <<call, transfer, disk, synced, faults>>

\* The launcher raises after the old stages were stopped.
RestartFails ==
    /\ pc = "restart"
    /\ Fault
    /\ served' = 0
    /\ loaded' = [f \in Files |-> Blank]
    /\ RaisesInto(pc')
    /\ UNCHANGED <<call, transfer, disk, synced>>

\* _cleanup_stale_policy_versions(): every other version's directory goes.
KeepsNumbersBelow(v) ==
    /\ part' = [x \in Versions \X Files |-> IF x[1] <= v THEN part[x] ELSE NoInode]
    /\ final' = [x \in Versions \X Files |-> IF x[1] <= v THEN final[x] ELSE NoInode]

RemoveOthers(v) ==
    /\ part' = [x \in Versions \X Files |-> IF x[1] = v THEN part[x] ELSE NoInode]
    /\ final' = [x \in Versions \X Files |-> IF x[1] = v THEN final[x] ELSE NoInode]

Cleanup ==
    /\ pc = "cleanup"
    /\ \/ RemoveOthers(version) /\ UNCHANGED faults
       \/ Fault /\ UNCHANGED <<part, final>>    \* CalledProcessError: passed over
    /\ synced' = version
    /\ pc' = "idle"
    /\ UNCHANGED <<call, transfer, content, stages>>

\* subprocess.TimeoutExpired, or an error of the key-value channel, is no
\* CalledProcessError: sync() raises.
CleanupRaises ==
    /\ pc = "cleanup"
    /\ Fault
    /\ RaisesInto(pc')
    /\ UNCHANGED <<call, transfer, disk, stages, synced>>

-----------------------------------------------------------------------------
(* send_directory() *)

Connected(j) == sender[j].st = "run" /\ receiver[j].at.st \in {"run", "done"}

\* The next file: `remaining` is its size.  After the last comes the wait for
\* the ack.
SenderOpens(j) ==
    /\ Connected(j)
    /\ sender[j].remaining = 0
    /\ sender[j].file <= Len(Sizes)
    /\ LET f == sender[j].file + 1 IN
         SenderIs(j, [st |-> "run", file |-> f, remaining |-> IF f \in Files THEN Sizes[f] ELSE 0])
    /\ UNCHANGED <<pc, call, receiver, wire, acked, disk, stages, synced, faults>>

RestUnclamped(remaining) == remaining - ChunkSize

Rest(remaining) == IF remaining > ChunkSize THEN remaining - ChunkSize ELSE 0

SenderSends(j) ==
    /\ Connected(j)
    /\ sender[j].remaining > 0
    /\ Len(wire[j]) < Window
    /\ SenderIs(j, [sender[j] EXCEPT !.remaining = Rest(sender[j].remaining)])
    /\ \/ wire' = [wire EXCEPT ![j] = Append(wire[j], "good")] /\ UNCHANGED faults
       \/ Fault /\ wire' = [wire EXCEPT ![j] = Append(wire[j], "bad")]
    /\ UNCHANGED <<pc, call, receiver, acked, disk, stages, synced>>

AckNotRead(j) == TRUE
AckCame(j) == j \in acked

SenderReturns(j) ==
    /\ sender[j].st = "run"
    /\ sender[j].file = Len(Sizes) + 1
    /\ AckCame(j)
    /\ SenderEnds(j, "done")
    /\ UNCHANGED <<pc, call, receiver, wire, acked, disk, stages, synced, faults>>

-----------------------------------------------------------------------------
(* recv_directory() *)

R(j) == receiver[j].at
Path(j) == <<jobOf[j], R(j).file>>

OneByteMore(f) == Sizes[f] + 1
Announced(f) == Sizes[f]     \* by the manifest

\* The next file: open({file}.part, "wb") truncates the file that is there.
ReceiverOpens(j) ==
    /\ R(j).st = "run"
    /\ sender[j].st # "none"
    /\ R(j).file < Len(Sizes)
    /\ receiver[j].handle.inode = NoInode
    /\ LET f == R(j).file + 1
           p == <<jobOf[j], f>>
           i == IF part[p] = NoInode THEN <<j, f>> ELSE part[p]
       IN /\ part' = [part EXCEPT ![p] = i]
          /\ content' = [content EXCEPT ![i] = Blank]
          /\ ReceiverIs(j, [st |-> "run", file |-> f, remaining |-> Announced(f)], [inode |-> i, bad |-> FALSE])
    /\ UNCHANGED <<pc, call, sender, wire, acked, final, stages, synced, faults>>

\* One chunk: received, written where the handle stands, and hashed.
ReceiverWrites(j) ==
    /\ R(j).st = "run"
    /\ R(j).remaining > 0
    /\ wire[j] # << >>
    /\ LET i == receiver[j].handle.inode
       IN /\ content' = [content EXCEPT ![i] =
                            [content[i] EXCEPT ![ChunkOf(R(j).file, R(j).remaining)] = Head(wire[j])]]
          /\ ReceiverIs(j, [R(j) EXCEPT !.remaining = Rest(R(j).remaining)],
                        [inode |-> i, bad |-> receiver[j].handle.bad \/ Head(wire[j]) = "bad"])
    /\ wire' = [wire EXCEPT ![j] = Tail(wire[j])]
    /\ UNCHANGED <<pc, call, sender, acked, part, final, stages, synced, faults>>

Unchecked(j) == TRUE
HashMatches(j) == ~receiver[j].handle.bad

\* The hash of what was received matches: os.replace() of whatever .part is.
ReceiverReplaces(j) ==
    /\ R(j).st = "run"
    /\ receiver[j].handle.inode # NoInode
    /\ R(j).remaining = 0
    /\ HashMatches(j)
    /\ part[Path(j)] # NoInode
    /\ final' = [final EXCEPT ![Path(j)] = part[Path(j)]]
    /\ part' = [part EXCEPT ![Path(j)] = NoInode]
    /\ ReceiverIs(j, R(j), NoHandle)
    /\ UNCHANGED <<pc, call, sender, wire, acked, content, stages, synced, faults>>

\* The hash does not match, or there is no .part left to replace.
ReceiverRejects(j) ==
    /\ R(j).st = "run"
    /\ receiver[j].handle.inode # NoInode
    /\ R(j).remaining = 0
    /\ ~HashMatches(j) \/ part[Path(j)] = NoInode
    /\ ReceiverEnds(j, "failed")
    /\ UNCHANGED <<pc, call, sender, wire, acked, disk, stages, synced, faults>>

LastByteCame(j) == R(j).remaining = 0
FileClosed(j) == receiver[j].handle.inode = NoInode

ReceiverAcks(j) ==
    /\ R(j).st = "run"
    /\ R(j).file = Len(Sizes)
    /\ FileClosed(j)
    /\ acked' = acked \cup {j}
    /\ ReceiverEnds(j, "done")
    /\ UNCHANGED <<pc, call, sender, wire, disk, stages, synced, faults>>

-----------------------------------------------------------------------------
(* The processes fail: killed or cut off; or, with nothing left to receive *)
(* or nobody to send to, because the peer is gone.                         *)

PeerGone(j) ==
    \/ /\ R(j).st = "failed"
       /\ sender[j].st = "run"
       /\ SenderEnds(j, "failed")
       /\ UNCHANGED receiver
    \/ /\ R(j).st = "run"
       /\ R(j).remaining > 0 \/ receiver[j].handle.inode = NoInode
       /\ wire[j] = << >>
       /\ sender[j].st = "failed" \/ (sender[j].st = "none" /\ (j < job \/ pc # "receiving"))
       /\ ReceiverEnds(j, "failed")
       /\ UNCHANGED sender

ProcessFails(j) ==
    \/ PeerGone(j) /\ UNCHANGED faults
    \/ Fault /\ sender[j].st = "run" /\ SenderEnds(j, "failed") /\ UNCHANGED receiver
    \/ /\ Fault /\ R(j).st = "run"
       /\ ReceiverEnds(j, "failed")
       /\ UNCHANGED sender

Fails(j) ==
    /\ ProcessFails(j)
    /\ UNCHANGED <<pc, call, wire, acked, disk, stages, synced>>

-----------------------------------------------------------------------------
\* Every version of the bound is synced, or the attempts are used up.
Finished ==
    /\ pc = "stopped" \/ (pc = "idle" /\ version = MaxVersions /\ synced = version)
    /\ UNCHANGED vars

TransferStep(j) ==
    \/ SenderOpens(j) \/ SenderSends(j) \/ SenderReturns(j)
    \/ ReceiverOpens(j) \/ ReceiverWrites(j) \/ ReceiverReplaces(j)
    \/ ReceiverRejects(j) \/ ReceiverAcks(j)

CallStep == Sync \/ Send \/ SendReturns \/ SendRaises \/ Restart \/ Cleanup

Next ==
    \/ CallStep
    \/ LaunchFails
    \/ PollAgain
    \/ PollFails
    \/ RestartFails
    \/ CleanupRaises
    \/ \E j \in Jobs : TransferStep(j) \/ Fails(j)
    \/ Finished

Spec == Init /\ [][Next]_vars

\* The call runs on; the processes of a transfer make progress, and notice
\* in the end that their peer is gone.
FairSpec ==
    /\ Spec
    /\ WF_vars(CallStep)
    /\ \A j \in Jobs :
         /\ WF_vars(TransferStep(j))
         /\ WF_vars(PeerGone(j) /\ UNCHANGED <<pc, call, wire, acked, disk, stages, synced, faults>>)

-----------------------------------------------------------------------------
(* When the stages are started, every file of the version is there, whole  *)
(* and with the bytes that were sent: send_directory() returns only after  *)
(* the receiver has verified every file (weights.py:63-66).                *)
LoadedIsWhole == served # 0 => \A f \in Files : loaded[f] = WholeContent(f)

(* A file that has its final name is whole: a failed or corrupted transfer *)
(* leaves only .part files behind (quic_transfer.py:190-195).              *)
FinalIsWhole ==
    \A v \in Versions, f \in Files :
        final[<<v, f>>] # NoInode => content[final[<<v, f>>]] = WholeContent(f)

(* Seen through the versions that are whole on the rollout machine and the *)
(* one that is served, sync() is the abstract policy store, while syncs    *)
(* fail and are called again: a version appears whole or not at all, the   *)
(* stages are only started from a whole one, and what goes is never the    *)
(* version served (weights.py:38-46, 182-190).                             *)
StoredVersions ==
    {v \in Versions : \A f \in Files :
        final[<<v, f>>] # NoInode /\ content[final[<<v, f>>]] = WholeContent(f)}

Store == INSTANCE PolicyStore WITH stored <- StoredVersions

ImplementsPolicyStore == Store!StoreSpec

(* Of the versions synced one is on the disk at a time, and one more while *)
(* it is being sent: the disk does not fill up (weights.py:181-188).       *)
OldVersionsGo ==
    faults = 0 =>
        \A v \in Versions : v < synced => \A f \in Files : final[<<v, f>>] = NoInode /\ part[<<v, f>>] = NoInode

(* Sender and receiver never wait for each other: every sync() call ends.  *)
SyncEnds == (pc = "sending") ~> (pc # "sending")

-----------------------------------------------------------------------------
(* The inductive invariant, part by part; all but CallsFit and JobsFit for *)
(* calls whose processes end before the next one.                          *)

Places == Versions \X Files

\* The calls that were made, for the versions that were synced.
CallsFit ==
    /\ version = 0 => job = 0 /\ pc = "idle"
    /\ version # 0 => job \in 1 .. (version - 1) * MaxAttempts + attempt /\ jobOf[job] = version
    /\ synced <= version /\ served <= version
    /\ pc = "idle" /\ version # synced => attempt < MaxAttempts

\* A call that was not made has no processes.
JobsFit ==
    \A j \in Jobs :
        IF j <= job THEN jobOf[j] \in Versions
        ELSE sender[j] = NotStarted /\ receiver[j] = [at |-> NotStarted, handle |-> NoHandle]

\* Only the processes of the last call run, the receiver ends before the sender,
\* and the call goes on when both are done.
TransfersFit ==
    /\ \A j \in Jobs :
         /\ j # job => Ended(j)
         /\ sender[j].st = "none" => R(j).file = 0
         /\ sender[j].st = "done" => j \in acked
         /\ j \in acked => R(j).st = "done"
         /\ R(j).st = "done" => R(j).file = Len(Sizes)
    /\ pc = "receiving" => sender[job].st = "none"
    /\ pc \in {"restart", "cleanup"} => sender[job].st = "done"
    /\ pc = "cleanup" => served = version

\* The chunks of f that are written when `remaining` bytes are not.
Written(f, remaining) == IF remaining = 0 THEN ChunkCount(f) ELSE ChunkOf(f, remaining) - 1

\* An open file is the .part of its path, and has the chunks received so far.
OpenFits(j) ==
    LET i == receiver[j].handle.inode
        f == R(j).file
        remaining == R(j).remaining
    IN /\ R(j).st = "run" /\ f \in Files /\ remaining <= Sizes[f]
       /\ part[Path(j)] = i
       /\ remaining # 0 => (Sizes[f] - remaining) % ChunkSize = 0
       /\ \A c \in Chunks :
            IF c <= Written(f, remaining) THEN content[i][c] = "good" \/ receiver[j].handle.bad
            ELSE content[i][c] = "none"

HandlesFit ==
    \A j \in Jobs : IF FileClosed(j) THEN R(j).st = "run" => R(j).remaining = 0 ELSE OpenFits(j)

\* A .part has an inode of its own, and inodes and directories are those of the
\* calls so far.
InodesOnce ==
    \A x \in Places :
        /\ part[x] # NoInode => \A y \in Places : (part[y] = part[x] => y = x) /\ final[y] # part[x]
        /\ \A i \in {part[x], final[x]} \ {NoInode} :
             /\ x[1] <= version
             /\ i[1] < job \/ (i[1] = job /\ i[2] <= R(job).file)

\* Every file the receiver is through with has its final name.
Arrived ==
    job # 0 /\ R(job).st \in {"run", "done"} =>
        \A f \in Files :
            f < R(job).file \/ (f = R(job).file /\ FileClosed(job)) => final[<<version, f>>] # NoInode

(* The processes of the last call, the files on the rollout machine and    *)
(* the call itself agree: what a receiver writes is a .part of the version *)
(* that is synced and nothing else, what it is through with is there, and  *)
(* the call goes on, to stages that load all of it, only when the receiver *)
(* is through with everything (sync(), send_directory() and                *)
(* recv_directory()).                                                      *)
SyncAgrees ==
    /\ TypeOK
    /\ CallsFit
    /\ JobsFit
    /\ TransfersFit
    /\ HandlesFit
    /\ InodesOnce
    /\ Arrived
    /\ LoadedIsWhole

\* No process has failed and no chunk was corrupted: a call that went on, or has
\* returned, left nothing running.
NothingFailed ==
    /\ \A j \in Jobs :
         /\ sender[j].st # "failed" /\ R(j).st # "failed"
         /\ wire[j] \in Seq({"good"}) /\ ~receiver[j].handle.bad
    /\ pc # "stopped"
    /\ pc = "sending" => sender[job].st # "none"
    /\ pc = "idle" => \A j \in Jobs : Ended(j)

(* What sync() promises while nothing has failed, whether or not the next  *)
(* call waits for the processes of the one before: without a failure there *)
(* is nothing to wait for, and all of it agrees (sync(), recv_directory()).*)
CalmAgrees == faults = 0 => NothingFailed /\ SyncAgrees /\ FinalIsWhole /\ OldVersionsGo
=============================================================================
