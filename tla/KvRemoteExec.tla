---------------------------- MODULE KvRemoteExec ----------------------------
(***************************************************************************)
(* Shell commands relayed through the key-value store of the signaling     *)
(* server (synchronization/kv_remote_exec.py), as                          *)
(* SshMultiMachineStageLauncher and QuicWeightSynchronizer issue them: one *)
(* caller with one command counter, one channel and one watcher per        *)
(* machine.  A call is named by its serial number, 1, 2, ...; the command  *)
(* and the result it leads to carry that name, so that a result which      *)
(* answers another call is visible.                                        *)
(***************************************************************************)
EXTENDS Integers, Sequences, FiniteSets

CONSTANTS
    Machines,        \* the machines with kv_channel_signaling_url set
    MaxCalls,        \* bound: the calls made in one behaviour
    MaxDeaths,       \* bound: how often watchers die
    MaxRestarts,     \* bound: how often the whole deployment is started again
    CarefulStart     \* is --start-id given the first unanswered id, or left at 0?

ASSUME KvAssumption ==
    /\ MaxCalls \in Nat
    /\ MaxDeaths \in Nat
    /\ MaxRestarts \in Nat
    /\ CarefulStart \in BOOLEAN

VARIABLES
    nextId,    \* _kv_cmd_id of the caller
    calls,     \* the number of calls made
    pending,   \* the call that waits for its result
    cmds,      \* the store's {channel}_cmd_v{id}, as serials; 0 is absent
    results,   \* the store's {channel}_result_v{id}, as serials; 0 is absent
    watcher,   \* watch_and_execute() on each machine
    executed,  \* the commands each machine ran, in order
    returned,  \* what run_remote_command() returned: call and result
    deaths,    \* how many watchers died
    restarts   \* how many deployments there were before

store == <<cmds, results>>
caller == <<nextId, calls, pending, returned, restarts>>
vars == <<nextId, calls, pending, cmds, results, watcher, executed, returned, deaths, restarts>>

Ids == 0 .. MaxCalls - 1
Serials == 1 .. MaxCalls
Absent == 0
NoEntries == [m \in Machines |-> [i \in Ids |-> Absent]]
NoCall == [on |-> FALSE]
Call == [on: {TRUE}, machine: Machines, id: Ids, serial: Serials]

\* phase: blocked in store.get(), running the command cmd, or about to post its result
Watcher == [up: BOOLEAN, next: 0 .. MaxCalls, phase: {"get", "run", "post"},
            cmd: Serials \cup {Absent}]
Listening(id) == [up |-> TRUE, next |-> id, phase |-> "get", cmd |-> Absent]

TypeOK ==
    /\ nextId \in 0 .. MaxCalls
    /\ calls \in 0 .. MaxCalls
    /\ pending \in Call \cup {NoCall}
    /\ cmds \in [Machines -> [Ids -> Serials \cup {Absent}]]
    /\ results \in [Machines -> [Ids -> Serials \cup {Absent}]]
    /\ watcher \in [Machines -> Watcher]
    /\ executed \in [Machines -> Seq(Serials)]
    /\ returned \in SUBSET (Serials \X Serials)
    /\ deaths \in 0 .. MaxDeaths
    /\ restarts \in 0 .. MaxRestarts

Init ==
    /\ nextId = 0
    /\ calls = 0
    /\ pending = NoCall
    /\ cmds = NoEntries
    /\ results = NoEntries
    /\ watcher = [m \in Machines |-> Listening(0)]
    /\ executed = [m \in Machines |-> << >>]
    /\ returned = {}
    /\ deaths = 0
    /\ restarts = 0

-----------------------------------------------------------------------------
(* The caller *)

\* _next_kv_cmd_id(): post-increment, so that the first id is the watcher's
\* start id.
PreIncrement(id) == id = nextId + 1
TakesId(id) == id = nextId

\* run_remote_command(): store.set() of the command.
Submit(m) ==
    /\ ~pending.on
    /\ calls < MaxCalls
    /\ \E id \in Ids :
         /\ TakesId(id)
         /\ calls' = calls + 1
         /\ nextId' = nextId + 1
         /\ cmds' = [cmds EXCEPT ![m][id] = calls + 1]
         /\ pending' = [on |-> TRUE, machine |-> m, id |-> id, serial |-> calls + 1]
    /\ UNCHANGED <<results, watcher, executed, returned, deaths, restarts>>

\* run_remote_command(): store.get() of the result returns what is there.
Receive ==
    /\ pending.on
    /\ results[pending.machine][pending.id] # Absent
    /\ returned' = returned \cup {<<pending.serial, results[pending.machine][pending.id]>>}
    /\ pending' = NoCall
    /\ UNCHANGED <<nextId, calls, cmds, results, watcher, executed, deaths, restarts>>

\* store.get() raises after timeout_s; the command stays in the store.
TimeOut ==
    /\ pending.on
    /\ results[pending.machine][pending.id] = Absent
    /\ pending' = NoCall
    /\ UNCHANGED <<nextId, calls, cmds, results, watcher, executed, returned, deaths, restarts>>

\* The whole deployment is started again: a new launcher or synchronizer object
\* counts from 0, and so do the store of a new signaling server and its watchers.
Redeploy ==
    /\ restarts < MaxRestarts
    /\ restarts' = restarts + 1
    /\ nextId' = 0
    /\ pending' = NoCall
    /\ cmds' = NoEntries
    /\ results' = NoEntries
    /\ watcher' = [m \in Machines |-> Listening(0)]
    /\ UNCHANGED <<calls, executed, returned, deaths>>

-----------------------------------------------------------------------------
(* The watcher of a machine: watch_and_execute() *)

WatcherGets(m) ==
    /\ watcher[m].up
    /\ watcher[m].phase = "get"
    /\ watcher[m].next \in Ids
    /\ cmds[m][watcher[m].next] # Absent
    /\ watcher' = [watcher EXCEPT ![m] = [@ EXCEPT !.phase = "run", !.cmd = cmds[m][watcher[m].next]]]
    /\ UNCHANGED <<caller, store, executed, deaths>>

WatcherRuns(m) ==
    /\ watcher[m].up
    /\ watcher[m].phase = "run"
    /\ executed' = [executed EXCEPT ![m] = Append(@, watcher[m].cmd)]
    /\ watcher' = [watcher EXCEPT ![m] = [@ EXCEPT !.phase = "post"]]
    /\ UNCHANGED <<caller, store, deaths>>

\* The result goes under the id of the command that ran; then the next id.
SkipsAnId(m) == watcher[m].next + 2
NextId(m) == watcher[m].next + 1

WatcherPosts(m) ==
    /\ watcher[m].up
    /\ watcher[m].phase = "post"
    /\ results' = [results EXCEPT ![m][watcher[m].next] = watcher[m].cmd]
    /\ watcher' = [watcher EXCEPT ![m] = Listening(NextId(m))]
    /\ UNCHANGED <<caller, cmds, executed, deaths>>

\* store.get() raises after 3600 s without a command, or the command exceeds its
\* timeout_s and subprocess.run() raises: neither is caught.  The command may have
\* had its effect by then.
WatcherDies(m) ==
    /\ watcher[m].up
    /\ deaths < MaxDeaths
    /\ deaths' = deaths + 1
    /\ watcher' = [watcher EXCEPT ![m] = [@ EXCEPT !.up = FALSE]]
    /\ UNCHANGED <<caller, store, executed>>

FirstUnanswered(m) ==
    CHOOSE i \in 0 .. MaxCalls :
        /\ i \in Ids => results[m][i] = Absent
        /\ \A j \in 0 .. i - 1 : results[m][j] # Absent

\* Started again by hand, with --start-id or its default.
StartsAtZero(m) == 0
StartId(m) == IF CarefulStart THEN FirstUnanswered(m) ELSE 0

WatcherStarts(m) ==
    /\ ~watcher[m].up
    /\ watcher' = [watcher EXCEPT ![m] = Listening(StartId(m))]
    /\ UNCHANGED <<caller, store, executed, deaths>>

WatcherStep(m) == WatcherGets(m) \/ WatcherRuns(m) \/ WatcherPosts(m) \/ WatcherStarts(m)

-----------------------------------------------------------------------------
\* All calls of the bound were made.
Finished ==
    /\ calls = MaxCalls
    /\ ~pending.on
    /\ UNCHANGED vars

Next ==
    \/ \E m \in Machines : Submit(m)
    \/ Receive
    \/ TimeOut
    \/ Redeploy
    \/ \E m \in Machines : WatcherStep(m) \/ WatcherDies(m)
    \/ Finished

Spec == Init /\ [][Next]_vars

\* A watcher that is up polls, runs and posts; one that died is started again.
FairSpec == Spec /\ \A m \in Machines : WF_vars(WatcherStep(m))

-----------------------------------------------------------------------------
(* Seen through the commands that were issued, took effect and were        *)
(* answered, the channel is the abstract queue: a call that returns,       *)
(* returns the result of its own command, never one that an earlier call   *)
(* left behind; commands take effect in the order they were issued, also   *)
(* those whose caller had given up, so that a late kill never follows the  *)
(* launch issued after it; and a watcher that died and was started again   *)
(* repeats the last command at most (kv_remote_exec.py:12-24).             *)
Queue == INSTANCE CommandQueue WITH
    issued <- calls,
    awaited <- IF pending.on THEN pending.serial ELSE 0,
    effects <- executed,
    answers <- returned

ImplementsCommandQueue == Queue!QueueSpec

-----------------------------------------------------------------------------
(* The inductive invariants, part by part.  The first needs no careful     *)
(* start.                                                                  *)

Base == calls - nextId      \* the calls made in earlier deployments
Ran(m, serial) == \E i \in DOMAIN executed[m] : executed[m][i] = serial

\* An id stands for one call of this deployment, made on one machine.
CommandsNumbered ==
    /\ nextId <= calls
    /\ \A m \in Machines, i \in Ids : cmds[m][i] # Absent => i < nextId /\ cmds[m][i] = Base + i + 1
    /\ \A m, n \in Machines, i \in Ids : cmds[m][i] # Absent /\ cmds[n][i] # Absent => m = n

CallIsLast ==
    pending.on => /\ pending.serial = calls
                  /\ pending.id = nextId - 1
                  /\ cmds[pending.machine][pending.id] = calls

ResultsAnswer ==
    \A m \in Machines, i \in Ids :
        results[m][i] # Absent => results[m][i] = cmds[m][i] /\ Ran(m, cmds[m][i])

\* A watcher that runs or has run a command, up or down, holds the one of its id.
WatcherHolds ==
    \A m \in Machines :
        /\ watcher[m].phase # "get" =>
              /\ watcher[m].next \in Ids
              /\ watcher[m].cmd # Absent
              /\ watcher[m].cmd = cmds[m][watcher[m].next]
        /\ watcher[m].phase = "post" => Ran(m, watcher[m].cmd)

AnswersAreOwn == \A r \in returned : r[2] = r[1] /\ \E m \in Machines : Ran(m, r[1])

(* What a call returns is the result of its own command, which ran on a    *)
(* machine, wherever a watcher was started again: an id names one command  *)
(* of this deployment, and the result under it is that command's           *)
(* (the ids of run_remote_command and of watch_and_execute).               *)
IdsName == TypeOK /\ CommandsNumbered /\ CallIsLast /\ ResultsAnswer /\ WatcherHolds /\ AnswersAreOwn

\* A watcher is one past its results.
WatcherFollows == \A m \in Machines, i \in Ids : results[m][i] # Absent <=> i < watcher[m].next

\* What ran on a machine was issued there, and no later than the id it is at.
EffectsKnown ==
    \A m \in Machines : \A i \in DOMAIN executed[m] :
        /\ executed[m][i] <= calls
        /\ executed[m][i] <= Base + watcher[m].next + 1
        /\ executed[m][i] > Base => cmds[m][executed[m][i] - Base - 1] = executed[m][i]

(* What keeps results, ids and effects together, for a careful start: an   *)
(* id names one command, and a watcher stands one past the results it      *)
(* posted, however often it died.                                          *)
IdsAgree == IdsName /\ WatcherFollows /\ EffectsKnown

(* Every command that was put in the store is run in the end: no watcher   *)
(* waits for an id that no call will use (ssh_launcher.py:107-113), as long *)
(* as the deployment lasts.                                                *)
CommandsRun ==
    \A k \in Serials, n \in 0 .. MaxRestarts :
        (pending.on /\ pending.serial = k /\ restarts = n)
            ~> (restarts # n \/ \E m \in Machines : \E i \in DOMAIN executed[m] : executed[m][i] = k)
=============================================================================
