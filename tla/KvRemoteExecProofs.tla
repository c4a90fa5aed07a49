------------------------- MODULE KvRemoteExecProofs -------------------------
(***************************************************************************)
(* What relaying commands guarantees for every number of machines, calls,  *)
(* deaths of watchers and deployments: wherever watchers are started       *)
(* again, and when that is at the first unanswered id.                     *)
(***************************************************************************)
EXTENDS KvRemoteExec, SequenceTheorems, WellFoundedInduction, TLAPS

(* What a sequence of serials has after one was appended to it.           *)
LEMMA AppendAdds ==
    ASSUME NEW s \in Seq(Serials), NEW x \in Serials
    PROVE  /\ \A i \in DOMAIN s : i \in DOMAIN Append(s, x) /\ Append(s, x)[i] = s[i]
           /\ \A i \in DOMAIN Append(s, x) : (i \in DOMAIN s /\ Append(s, x)[i] = s[i]) \/ Append(s, x)[i] = x
           /\ \E i \in DOMAIN Append(s, x) : Append(s, x)[i] = x
<1>1. /\ Len(Append(s, x)) = Len(s) + 1
      /\ \A i \in 1 .. Len(s) : Append(s, x)[i] = s[i]
      /\ Append(s, x)[Len(s) + 1] = x
      /\ Append(s, x) \in Seq(Serials)
  BY AppendProperties
<1>2. /\ DOMAIN s = 1 .. Len(s)
      /\ DOMAIN Append(s, x) = 1 .. Len(s) + 1
      /\ Len(s) \in Nat
  BY <1>1, LenProperties
<1>3. QED
  BY <1>1, <1>2

(* The first unanswered id of a machine is the one its watcher was at.     *)
LEMMA StartsWhereItWas ==
    ASSUME KvAssumption, TypeOK, WatcherFollows, NEW m \in Machines
    PROVE  FirstUnanswered(m) = watcher[m].next
<1> DEFINE At(i) == /\ i \in Ids => results[m][i] = Absent
                    /\ \A j \in 0 .. i - 1 : results[m][j] # Absent
<1>1. watcher[m].next \in 0 .. MaxCalls /\ MaxCalls \in Nat
  BY DEF TypeOK, Watcher, KvAssumption
<1>2. At(watcher[m].next)
  BY <1>1 DEF WatcherFollows, Ids
<1>3. ASSUME NEW i \in 0 .. MaxCalls, At(i)
      PROVE  i = watcher[m].next
  <2>1. CASE i < watcher[m].next
    BY <1>1, <1>3, <2>1 DEF WatcherFollows, Ids
  <2>2. CASE watcher[m].next < i
    BY <1>1, <1>3, <2>2 DEF WatcherFollows, Ids
  <2>3. QED
    BY <1>1, <2>1, <2>2
<1>4. QED
  BY <1>1, <1>2, <1>3 DEF FirstUnanswered

(* A set of naturals that is not empty has a least element.                *)
LEMMA LeastExists ==
    ASSUME NEW S \in SUBSET Nat, S # {}
    PROVE  \E v \in S : \A w \in S : v <= w
<1>1. PICK v \in S : \A w \in S : ~ (<<w, v>> \in OpToRel(<, Nat))
  BY WFMin, NatLessThanWellFounded, Zenon
<1>2. \A w \in S : w \in Nat /\ v \in Nat
  OBVIOUS
<1>3. \A w \in S : ~ (w < v)
  BY <1>1, <1>2, Zenon DEF OpToRel
<1>4. QED
  BY <1>2, <1>3

(* A watcher is started at an id of the channel, or past the last one.     *)
LEMMA StartsInRange ==
    ASSUME TypeOK, NEW m \in Machines
    PROVE  StartId(m) \in 0 .. MaxCalls
<1> USE KvAssumption
<1> DEFINE First(i) == /\ i \in Ids => results[m][i] = Absent
                       /\ \A j \in 0 .. i - 1 : results[m][j] # Absent
           Open == {i \in 0 .. MaxCalls : i \in Ids => results[m][i] = Absent}
<1>1. MaxCalls \in Open /\ Open \in SUBSET Nat
  BY DEF Ids
<1>2. PICK v \in Open : \A w \in Open : v <= w
  BY <1>1, LeastExists
<1>3. v \in 0 .. MaxCalls /\ First(v)
  BY <1>2 DEF Ids
<1>4. FirstUnanswered(m) \in 0 .. MaxCalls
  BY <1>3 DEF FirstUnanswered
<1>5. QED
  BY <1>4 DEF StartId

(* What has run stays known as having run.                                 *)
LEMMA RanStays ==
    ASSUME TypeOK, NEW m \in Machines, NEW c \in Serials, executed' = [executed EXCEPT ![m] = Append(@, c)]
    PROVE  /\ executed' \in [Machines -> Seq(Serials)]
           /\ \A n \in Machines : \A i \in DOMAIN executed[n] :
                i \in DOMAIN executed'[n] /\ executed'[n][i] = executed[n][i]
           /\ \E i \in DOMAIN executed'[m] : executed'[m][i] = c
           /\ \A n \in Machines : \A i \in DOMAIN executed'[n] :
                \/ i \in DOMAIN executed[n] /\ executed'[n][i] = executed[n][i]
                \/ n = m /\ executed'[n][i] = c
<1>1. executed[m] \in Seq(Serials) /\ executed' \in [Machines -> Seq(Serials)]
  BY AppendProperties DEF TypeOK
<1>2. executed'[m] = Append(executed[m], c) /\ \A n \in Machines \ {m} : executed'[n] = executed[n]
  BY DEF TypeOK
<1> DEFINE ran == executed[m]
           more == Append(ran, c)
<1>3. /\ \A i \in DOMAIN ran : i \in DOMAIN more /\ more[i] = ran[i]
      /\ \A i \in DOMAIN more : (i \in DOMAIN ran /\ more[i] = ran[i]) \/ more[i] = c
      /\ \E i \in DOMAIN more : more[i] = c
  <2>1. ran \in Seq(Serials)
    BY <1>1
  <2> HIDE DEF ran
  <2>2. QED
    BY <2>1, AppendAdds, Zenon
<1> HIDE DEF more
<1>4. executed'[m] = more
  BY <1>2 DEF more
<1>5. QED
  BY <1>1, <1>2, <1>3, <1>4

(* Every action keeps the types and what ids name.                         *)
LEMMA NamesStep ==
    ASSUME IdsName, [Next]_vars
    PROVE  IdsName'
<1> USE KvAssumption DEF Ids, Serials, Absent
<1>0. TypeOK
  BY DEF IdsName
<1>1. ASSUME NEW m \in Machines, Submit(m)
      PROVE  IdsName'
  <2>1. /\ nextId \in Ids /\ calls' = calls + 1 /\ nextId' = nextId + 1
        /\ nextId <= calls /\ calls < MaxCalls
        /\ cmds' = [cmds EXCEPT ![m][nextId] = calls + 1]
        /\ pending' = [on |-> TRUE, machine |-> m, id |-> nextId, serial |-> calls + 1]
        /\ UNCHANGED <<results, watcher, executed, returned, deaths, restarts>>
    BY <1>0, <1>1 DEF Submit, TakesId, IdsName, CommandsNumbered
  <2>2. TypeOK'
    BY <1>0, <2>1 DEF TypeOK, Call, NoCall
  <2>3. Base' = Base /\ Base \in Nat
    BY <1>0, <2>1 DEF Base, TypeOK
  <2>4. /\ \A n \in Machines, i \in Ids : cmds[n][i] # Absent => i < nextId
        /\ \A n \in Machines, i \in Ids : i # nextId => cmds'[n][i] = cmds[n][i]
        /\ \A n \in Machines : n # m => cmds'[n][nextId] = Absent
        /\ cmds'[m][nextId] = calls + 1
    BY <1>0, <2>1 DEF IdsName, CommandsNumbered, TypeOK
  <2>5. CommandsNumbered'
    <3>1. calls + 1 = Base + nextId + 1 /\ nextId + 1 <= calls + 1
      BY <1>0, <2>1 DEF Base, TypeOK
    <3>2. \A n \in Machines, i \in Ids : cmds'[n][i] # Absent => i < nextId' /\ cmds'[n][i] = Base' + i + 1
      BY <1>0, <2>1, <2>3, <2>4, <3>1 DEF IdsName, CommandsNumbered, TypeOK
    <3>3. \A n, o \in Machines, i \in Ids : cmds'[n][i] # Absent /\ cmds'[o][i] # Absent => n = o
      BY <1>0, <2>4 DEF IdsName, CommandsNumbered
    <3>4. QED
      BY <1>0, <2>1, <3>1, <3>2, <3>3 DEF CommandsNumbered
  <2>6. CallIsLast'
    BY <1>0, <2>1, <2>4 DEF CallIsLast, TypeOK
  <2>7. \A n \in Machines, i \in Ids : cmds[n][i] # Absent => cmds'[n][i] = cmds[n][i]
    BY <1>0, <2>1, <2>4 DEF TypeOK
  <2>8. ResultsAnswer'
    BY <1>0, <2>1, <2>7 DEF IdsName, ResultsAnswer, CommandsNumbered, Ran, TypeOK
  <2>9. WatcherHolds' /\ AnswersAreOwn'
    BY <1>0, <2>1, <2>7 DEF IdsName, WatcherHolds, AnswersAreOwn, Ran, TypeOK
  <2>10. QED
    BY <1>0, <2>2, <2>5, <2>6, <2>8, <2>9 DEF IdsName
<1>2. CASE Receive
  <2>1. /\ pending' = NoCall /\ pending \in Call
        /\ returned' = returned \cup {<<pending.serial, results[pending.machine][pending.id]>>}
        /\ results[pending.machine][pending.id] # Absent
        /\ UNCHANGED <<nextId, calls, cmds, results, watcher, executed, deaths, restarts>>
    BY <1>0, <1>2 DEF Receive, TypeOK, NoCall
  <2>2. /\ pending.machine \in Machines /\ pending.id \in Ids /\ pending.serial = calls /\ calls \in Serials
        /\ cmds[pending.machine][pending.id] = calls
    BY <1>2, <2>1 DEF Receive, Call, IdsName, CallIsLast
  <2>3. results[pending.machine][pending.id] = calls /\ Ran(pending.machine, calls)
    BY <2>1, <2>2 DEF IdsName, ResultsAnswer
  <2>4. returned' = returned \cup {<<calls, calls>>}
    BY <2>1, <2>2, <2>3
  <2>5. TypeOK'
    BY <1>0, <2>1, <2>2, <2>4 DEF TypeOK
  <2>6. AnswersAreOwn'
    <3>1. \A r \in returned' : r \in returned \/ r = <<calls, calls>>
      BY <2>4
    <3>2. \A r \in returned' : r[2] = r[1] /\ \E m \in Machines : Ran(m, r[1])
      BY <2>2, <2>3, <3>1 DEF IdsName, AnswersAreOwn
    <3>3. QED
      BY <2>1, <3>2 DEF AnswersAreOwn, Ran
  <2>7. QED
    BY <2>1, <2>5, <2>6 DEF IdsName, CommandsNumbered, CallIsLast, ResultsAnswer, WatcherHolds, Base, Ran, NoCall
<1>3. CASE TimeOut
  BY <1>0, <1>3 DEF TimeOut, TypeOK, IdsName, CommandsNumbered, CallIsLast, ResultsAnswer, WatcherHolds,
                    AnswersAreOwn, Base, Ran, NoCall
<1>4. CASE Redeploy
  <2> USE <1>4 DEF Redeploy, NoEntries, Listening
  <2>1. TypeOK'
    BY <1>0 DEF TypeOK, Watcher
  <2>2. CommandsNumbered' /\ CallIsLast' /\ ResultsAnswer' /\ WatcherHolds'
    BY <1>0 DEF CommandsNumbered, CallIsLast, ResultsAnswer, WatcherHolds, NoCall, TypeOK
  <2>3. AnswersAreOwn'
    BY DEF IdsName, AnswersAreOwn, Ran
  <2>4. QED
    BY <2>1, <2>2, <2>3 DEF IdsName
<1>5. ASSUME NEW m \in Machines, WatcherGets(m)
      PROVE  IdsName'
  <2> DEFINE c == cmds[m][watcher[m].next]
  <2>0. watcher[m] \in Watcher /\ watcher[m].next \in Ids /\ c \in Serials
    BY <1>0, <1>5 DEF WatcherGets, TypeOK
  <2>1. /\ watcher' = [watcher EXCEPT ![m] = [@ EXCEPT !.phase = "run", !.cmd = cmds[m][watcher[m].next]]]
        /\ UNCHANGED <<nextId, calls, pending, cmds, results, executed, returned, deaths, restarts>>
    BY <1>0, <1>5 DEF WatcherGets, caller, store
  <2>2. /\ watcher'[m] = [watcher[m] EXCEPT !.phase = "run", !.cmd = c]
        /\ \A n \in Machines \ {m} : watcher'[n] = watcher[n]
    BY <1>0, <2>1 DEF TypeOK
  <2>3. /\ watcher'[m] \in Watcher
        /\ watcher'[m].next = watcher[m].next
        /\ watcher'[m].phase = "run"
        /\ watcher'[m].cmd = c
    <3> HIDE DEF c
    <3>1. QED
      BY <2>0, <2>2 DEF Watcher
  <2>4. TypeOK'
    BY <1>0, <2>1, <2>2, <2>3 DEF TypeOK, caller, store
  <2>5. CommandsNumbered' /\ CallIsLast' /\ ResultsAnswer' /\ AnswersAreOwn'
    BY <2>1 DEF IdsName, CommandsNumbered, CallIsLast, ResultsAnswer, AnswersAreOwn, Ran, Base
  <2>6. WatcherHolds'
    BY <2>0, <2>1, <2>2, <2>3 DEF IdsName, WatcherHolds, Ran
  <2>7. QED
    BY <2>4, <2>5, <2>6 DEF IdsName
<1>6. ASSUME NEW m \in Machines, WatcherRuns(m)
      PROVE  IdsName'
  <2>1. /\ watcher[m].cmd \in Serials
        /\ watcher' = [watcher EXCEPT ![m] = [@ EXCEPT !.phase = "post"]]
        /\ executed' = [executed EXCEPT ![m] = Append(@, watcher[m].cmd)]
        /\ watcher[m].phase # "get"
        /\ UNCHANGED <<nextId, calls, pending, cmds, results, returned, deaths, restarts>>
    BY <1>0, <1>6 DEF WatcherRuns, caller, store, IdsName, WatcherHolds, TypeOK, Watcher
  <2>2. /\ executed' \in [Machines -> Seq(Serials)]
        /\ \A n \in Machines : \A i \in DOMAIN executed[n] :
             i \in DOMAIN executed'[n] /\ executed'[n][i] = executed[n][i]
        /\ \E i \in DOMAIN executed'[m] : executed'[m][i] = watcher[m].cmd
    <3> DEFINE c == watcher[m].cmd
    <3>1. c \in Serials /\ executed' = [executed EXCEPT ![m] = Append(@, c)]
      BY <2>1
    <3> HIDE DEF c, Serials
    <3>2. /\ executed' \in [Machines -> Seq(Serials)]
          /\ \A n \in Machines : \A i \in DOMAIN executed[n] :
               i \in DOMAIN executed'[n] /\ executed'[n][i] = executed[n][i]
          /\ \E i \in DOMAIN executed'[m] : executed'[m][i] = c
      BY <1>0, <3>1, RanStays
    <3>3. QED
      BY <3>2 DEF c
  <2>3. TypeOK'
    <3>1. watcher[m] \in Watcher /\ watcher' = [watcher EXCEPT ![m] = [watcher[m] EXCEPT !.phase = "post"]]
      BY <1>0, <2>1 DEF TypeOK
    <3>2. [watcher[m] EXCEPT !.phase = "post"] \in Watcher
      BY <3>1 DEF Watcher
    <3>3. watcher' \in [Machines -> Watcher] /\ executed' \in [Machines -> Seq(Serials)]
      BY <1>0, <2>2, <3>1, <3>2 DEF TypeOK
    <3> HIDE DEF Serials, Ids, Absent
    <3>4. QED
      BY <1>0, <2>1, <3>3 DEF TypeOK
  <2>4. CommandsNumbered' /\ CallIsLast'
    BY <2>1 DEF IdsName, CommandsNumbered, CallIsLast, Base
  <2>5. ResultsAnswer'
    <3> SUFFICES ASSUME NEW n \in Machines, NEW i \in Ids, results[n][i] # Absent
                 PROVE  /\ results[n][i] = cmds[n][i]
                        /\ \E j \in DOMAIN executed'[n] : executed'[n][j] = cmds[n][i]
      BY <2>1 DEF ResultsAnswer, Ran
    <3>1. results[n][i] = cmds[n][i] /\ Ran(n, cmds[n][i])
      BY DEF IdsName, ResultsAnswer
    <3>2. PICK j \in DOMAIN executed[n] : executed[n][j] = cmds[n][i]
      BY <3>1 DEF Ran
    <3>3. QED
      BY <2>2, <3>1, <3>2
  <2>6. AnswersAreOwn'
    <3> SUFFICES ASSUME NEW r \in returned
                 PROVE  r[2] = r[1] /\ \E n \in Machines : \E j \in DOMAIN executed'[n] : executed'[n][j] = r[1]
      BY <2>1 DEF AnswersAreOwn, Ran
    <3>1. PICK n \in Machines : r[2] = r[1] /\ Ran(n, r[1])
      BY DEF IdsName, AnswersAreOwn
    <3>2. PICK j \in DOMAIN executed[n] : executed[n][j] = r[1]
      BY <3>1 DEF Ran
    <3>3. QED
      BY <2>2, <3>1, <3>2
  <2>7. WatcherHolds'
    <3>1. /\ watcher'[m].next = watcher[m].next /\ watcher'[m].cmd = watcher[m].cmd
          /\ \A n \in Machines \ {m} : watcher'[n] = watcher[n]
          /\ \A n \in Machines : watcher[n].cmd \in Serials \cup {Absent}
      BY <1>0, <2>1 DEF TypeOK, Watcher
    <3>2. ASSUME NEW n \in Machines, watcher'[n].phase # "get"
          PROVE  /\ watcher'[n].next \in Ids
                 /\ watcher'[n].cmd # Absent
                 /\ watcher'[n].cmd = cmds[n][watcher'[n].next]
      BY <2>1, <3>1, <3>2 DEF IdsName, WatcherHolds
    <3>3. ASSUME NEW n \in Machines, watcher'[n].phase = "post"
          PROVE  \E i \in DOMAIN executed'[n] : executed'[n][i] = watcher'[n].cmd
      <4>1. CASE n = m
        BY <2>2, <3>1, <4>1
      <4>2. CASE n # m
        <5>1. watcher'[n] = watcher[n] /\ Ran(n, watcher[n].cmd) /\ watcher[n].cmd \in Serials
          BY <3>1, <3>2, <3>3, <4>2 DEF IdsName, WatcherHolds
        <5>2. PICK i \in DOMAIN executed[n] : executed[n][i] = watcher[n].cmd
          BY <5>1 DEF Ran
        <5>3. QED
          BY <2>2, <5>1, <5>2
      <4>3. QED
        BY <4>1, <4>2
    <3>4. QED
      BY <2>1, <3>2, <3>3 DEF WatcherHolds, Ran
  <2>8. QED
    BY <2>3, <2>4, <2>5, <2>6, <2>7 DEF IdsName
<1>7. ASSUME NEW m \in Machines, WatcherPosts(m)
      PROVE  IdsName'
  <2> USE <1>7 DEF WatcherPosts, caller, NextId, Listening
  <2>1. /\ watcher[m].next \in Ids /\ watcher[m].cmd \in Serials
        /\ watcher[m].cmd = cmds[m][watcher[m].next]
        /\ Ran(m, watcher[m].cmd)
    BY <1>0 DEF IdsName, WatcherHolds, TypeOK, Watcher
  <2>2. TypeOK'
    BY <1>0, <2>1 DEF TypeOK, Watcher
  <2>3. CommandsNumbered' /\ CallIsLast' /\ AnswersAreOwn'
    BY DEF IdsName, CommandsNumbered, CallIsLast, AnswersAreOwn, Ran, Base
  <2>4. ResultsAnswer'
    BY <1>0, <2>1 DEF IdsName, ResultsAnswer, Ran, TypeOK
  <2>5. WatcherHolds'
    BY <1>0, <2>1 DEF IdsName, WatcherHolds, Ran, TypeOK
  <2>6. QED
    BY <2>2, <2>3, <2>4, <2>5 DEF IdsName
<1>8. ASSUME NEW m \in Machines, WatcherDies(m) \/ WatcherStarts(m)
      PROVE  IdsName'
  <2>1. /\ UNCHANGED <<nextId, calls, pending, cmds, results, executed, returned, restarts>>
        /\ deaths' \in 0 .. MaxDeaths
        /\ \A n \in Machines \ {m} : watcher'[n] = watcher[n]
        /\ watcher' \in [Machines -> Watcher]
        /\ watcher'[m].phase = "get" \/ (/\ watcher'[m].phase = watcher[m].phase
                                        /\ watcher'[m].next = watcher[m].next
                                        /\ watcher'[m].cmd = watcher[m].cmd)
    <3>1. CASE WatcherDies(m)
      <4>1. watcher[m] \in Watcher /\ watcher' = [watcher EXCEPT ![m] = [watcher[m] EXCEPT !.up = FALSE]]
        BY <1>0, <3>1 DEF WatcherDies, TypeOK
      <4>2. LET x == [watcher[m] EXCEPT !.up = FALSE]
            IN  x \in Watcher /\ x.phase = watcher[m].phase /\ x.next = watcher[m].next /\ x.cmd = watcher[m].cmd
        BY <4>1 DEF Watcher
      <4>3. QED
        BY <1>0, <3>1, <4>1, <4>2 DEF WatcherDies, TypeOK, caller, store
    <3>2. CASE WatcherStarts(m)
      BY <1>0, <3>2, StartsInRange DEF WatcherStarts, TypeOK, Watcher, Listening, caller, store
    <3>3. QED
      BY <1>8, <3>1, <3>2
  <2>2. TypeOK'
    BY <1>0, <2>1 DEF TypeOK
  <2>3. CommandsNumbered' /\ CallIsLast' /\ ResultsAnswer' /\ AnswersAreOwn'
    BY <2>1 DEF IdsName, CommandsNumbered, CallIsLast, ResultsAnswer, AnswersAreOwn, Ran, Base
  <2>4. WatcherHolds'
    BY <2>1 DEF IdsName, WatcherHolds, Ran
  <2>5. QED
    BY <2>2, <2>3, <2>4 DEF IdsName
<1>9. CASE UNCHANGED vars
  BY <1>9 DEF vars, TypeOK, IdsName, CommandsNumbered, CallIsLast, ResultsAnswer, WatcherHolds, AnswersAreOwn, Base, Ran
<1>10. QED
  BY <1>1, <1>2, <1>3, <1>4, <1>5, <1>6, <1>7, <1>8, <1>9 DEF Next, WatcherStep, Finished

(* For a careful start: every action leaves watchers one past their        *)
(* results, and effects where they are known.                              *)
LEMMA PlacesStep ==
    ASSUME CarefulStart, IdsAgree, [Next]_vars
    PROVE  WatcherFollows' /\ EffectsKnown'
<1> USE KvAssumption DEF Ids, Serials, Absent
<1>0. TypeOK /\ IdsName /\ WatcherFollows /\ EffectsKnown
  BY DEF IdsAgree, IdsName
<1>a. \A m \in Machines : \A i \in DOMAIN executed[m] : executed[m][i] \in Serials
  BY <1>0, ElementOfSeq, LenProperties DEF TypeOK
<1>b. calls \in Nat /\ nextId \in Nat /\ Base \in Nat /\ Base + nextId = calls
      /\ \A m \in Machines : watcher[m].next \in Nat
  BY <1>0 DEF TypeOK, Watcher, Base, IdsName, CommandsNumbered
<1>1. ASSUME NEW m \in Machines, Submit(m)
      PROVE  WatcherFollows' /\ EffectsKnown'
  <2>1. /\ nextId \in Ids /\ calls' = calls + 1 /\ nextId' = nextId + 1
        /\ cmds' = [cmds EXCEPT ![m][nextId] = calls + 1]
        /\ UNCHANGED <<results, watcher, executed>>
    BY <1>0, <1>1 DEF Submit, TakesId
  <2>2. Base' = Base
    BY <1>b, <2>1 DEF Base
  <2>3. \A n \in Machines, i \in Ids : cmds[n][i] # Absent => cmds'[n][i] = cmds[n][i]
    BY <1>0, <1>b, <2>1 DEF IdsName, CommandsNumbered, TypeOK
  <2>4. ASSUME NEW n \in Machines, NEW i \in DOMAIN executed[n]
        PROVE  /\ executed[n][i] <= calls'
               /\ executed[n][i] <= Base + watcher[n].next + 1
               /\ executed[n][i] > Base => cmds'[n][executed[n][i] - Base - 1] = executed[n][i]
    <3>1. /\ executed[n][i] \in Serials
          /\ executed[n][i] <= calls
          /\ executed[n][i] <= Base + watcher[n].next + 1
          /\ executed[n][i] > Base => cmds[n][executed[n][i] - Base - 1] = executed[n][i]
      BY <1>0, <1>a DEF EffectsKnown
    <3>2. executed[n][i] > Base => executed[n][i] - Base - 1 \in Ids
      BY <1>b, <2>1, <3>1
    <3>3. QED
      BY <1>b, <2>1, <2>3, <3>1, <3>2
  <2>5. EffectsKnown'
    BY <2>1, <2>2, <2>4 DEF EffectsKnown
  <2>6. QED
    BY <1>0, <2>1, <2>5 DEF WatcherFollows
<1>2. CASE Receive \/ TimeOut
  BY <1>0, <1>2 DEF Receive, TimeOut, WatcherFollows, EffectsKnown, Base
<1>3. CASE Redeploy
  <2>1. WatcherFollows'
    BY <1>3 DEF Redeploy, NoEntries, Listening, WatcherFollows
  <2>2. Base' = calls /\ UNCHANGED <<calls, executed>> /\ \A m \in Machines : watcher'[m].next = 0
    BY <1>3, <1>b DEF Redeploy, Base, Listening
  <2>3. EffectsKnown'
    BY <1>0, <1>a, <1>b, <2>2 DEF EffectsKnown
  <2>4. QED
    BY <2>1, <2>3
<1>4. ASSUME NEW m \in Machines, WatcherGets(m)
      PROVE  WatcherFollows' /\ EffectsKnown'
  <2>1. /\ UNCHANGED <<calls, nextId, cmds, results, executed>>
        /\ \A n \in Machines : watcher'[n].next = watcher[n].next
    BY <1>0, <1>4 DEF WatcherGets, caller, store, TypeOK, Watcher
  <2>2. QED
    BY <1>0, <2>1 DEF WatcherFollows, EffectsKnown, Base
<1>5. ASSUME NEW m \in Machines, WatcherRuns(m)
      PROVE  WatcherFollows' /\ EffectsKnown'
  <2> DEFINE c == watcher[m].cmd
  <2>1. /\ UNCHANGED <<calls, nextId, cmds, results>>
        /\ executed' = [executed EXCEPT ![m] = Append(@, c)]
        /\ \A n \in Machines : watcher'[n].next = watcher[n].next
    BY <1>0, <1>5 DEF WatcherRuns, caller, store, TypeOK, Watcher
  <2>2. /\ c \in Serials /\ watcher[m].next \in Ids /\ c = cmds[m][watcher[m].next]
    BY <1>0, <1>5 DEF WatcherRuns, IdsName, WatcherHolds, TypeOK, Watcher
  <2>3. c = Base + watcher[m].next + 1 /\ watcher[m].next < nextId
    BY <1>0, <2>2 DEF IdsName, CommandsNumbered
  <2>4. ASSUME NEW n \in Machines, NEW i \in DOMAIN executed'[n]
        PROVE  /\ executed'[n][i] <= calls
               /\ executed'[n][i] <= Base + watcher[n].next + 1
               /\ executed'[n][i] > Base => cmds[n][executed'[n][i] - Base - 1] = executed'[n][i]
    <3>1. \/ i \in DOMAIN executed[n] /\ executed'[n][i] = executed[n][i]
          \/ n = m /\ executed'[n][i] = c
      <4> HIDE DEF c
      <4>1. QED
        BY <1>0, <2>1, <2>2, RanStays
    <3>2. CASE n = m /\ executed'[n][i] = c
      <4>1. c <= calls /\ c <= Base + watcher[m].next + 1 /\ c - Base - 1 = watcher[m].next
        BY <1>b, <2>2, <2>3
      <4>2. QED
        BY <2>2, <3>2, <4>1
    <3>3. CASE i \in DOMAIN executed[n] /\ executed'[n][i] = executed[n][i]
      BY <1>0, <3>3 DEF EffectsKnown
    <3>4. QED
      BY <3>1, <3>2, <3>3
  <2>5. EffectsKnown'
    BY <2>1, <2>4 DEF EffectsKnown, Base
  <2>6. QED
    BY <1>0, <2>1, <2>5 DEF WatcherFollows
<1>6. ASSUME NEW m \in Machines, WatcherPosts(m)
      PROVE  WatcherFollows' /\ EffectsKnown'
  <2>1. watcher[m].next \in Ids /\ watcher[m].cmd \in Serials
    BY <1>0, <1>6 DEF WatcherPosts, IdsName, WatcherHolds, TypeOK, Watcher
  <2>2. /\ UNCHANGED <<calls, nextId, cmds, executed>>
        /\ results' = [results EXCEPT ![m][watcher[m].next] = watcher[m].cmd]
        /\ watcher' = [watcher EXCEPT ![m] = Listening(watcher[m].next + 1)]
    BY <1>6 DEF WatcherPosts, NextId, caller
  <2>3. WatcherFollows'
    BY <1>0, <2>1, <2>2 DEF WatcherFollows, Listening, TypeOK
  <2>4. \A n \in Machines : watcher'[n].next \in {watcher[n].next, watcher[n].next + 1}
    BY <1>0, <2>2 DEF TypeOK, Listening
  <2>5. EffectsKnown'
    BY <1>0, <1>a, <1>b, <2>2, <2>4 DEF EffectsKnown, Base
  <2>6. QED
    BY <2>3, <2>5
<1>7. ASSUME NEW m \in Machines, WatcherDies(m) \/ WatcherStarts(m)
      PROVE  WatcherFollows' /\ EffectsKnown'
  <2>1. UNCHANGED <<calls, nextId, cmds, results, executed>>
    BY <1>7 DEF WatcherDies, WatcherStarts, caller, store
  <2>2. \A n \in Machines : watcher'[n].next = watcher[n].next
    <3>1. CASE WatcherDies(m)
      BY <1>0, <3>1 DEF WatcherDies, TypeOK, Watcher
    <3>2. CASE WatcherStarts(m)
      BY <1>0, <3>2, StartsWhereItWas DEF WatcherStarts, StartId, TypeOK, Watcher, Listening
    <3>3. QED
      BY <1>7, <3>1, <3>2
  <2>3. QED
    BY <1>0, <2>1, <2>2 DEF WatcherFollows, EffectsKnown, Base
<1>8. CASE UNCHANGED vars
  BY <1>0, <1>8 DEF vars, WatcherFollows, EffectsKnown, Base
<1>9. QED
  BY <1>1, <1>2, <1>3, <1>4, <1>5, <1>6, <1>7, <1>8 DEF Next, WatcherStep, Finished

(* Types, ids, commands and results belong together in every reachable     *)
(* state, and every call that returned was given the result of its own     *)
(* command, which ran, also when a watcher was started again with the      *)
(* default --start-id (kv_remote_exec.py:96).                              *)
THEOREM AnswersCorrect == Spec => []IdsName
<1>1. Init => IdsName
  <2> SUFFICES ASSUME Init
               PROVE  IdsName
    OBVIOUS
  <2> USE KvAssumption DEF Init, NoEntries, Listening, Ids, Serials, Absent, NoCall
  <2>1. TypeOK
    BY EmptySeq DEF TypeOK, Watcher
  <2>2. CommandsNumbered /\ CallIsLast /\ ResultsAnswer /\ WatcherHolds /\ AnswersAreOwn
    BY DEF CommandsNumbered, CallIsLast, ResultsAnswer, WatcherHolds, AnswersAreOwn
  <2>3. QED
    BY <2>1, <2>2 DEF IdsName
<1>2. IdsName /\ [Next]_vars => IdsName'
  BY NamesStep
<1>3. QED
  BY <1>1, <1>2, PTL DEF Spec

(* For a careful start, watchers stand one past the results they posted,   *)
(* and what ran on a machine was issued there (run_remote_command and      *)
(* watch_and_execute).                                                     *)
THEOREM IdsCorrect ==
    ASSUME CarefulStart
    PROVE  Spec => []IdsAgree
<1>1. Init => WatcherFollows /\ EffectsKnown
  BY KvAssumption DEF Init, NoEntries, Listening, Absent, Ids, WatcherFollows, EffectsKnown
<1>2. IdsName /\ WatcherFollows /\ EffectsKnown /\ [Next]_vars => WatcherFollows' /\ EffectsKnown'
  BY PlacesStep DEF IdsAgree
<1>3. IdsName /\ WatcherFollows /\ EffectsKnown => IdsAgree
  BY DEF IdsAgree
<1>4. QED
  BY <1>1, <1>2, <1>3, AnswersCorrect, PTL DEF Spec

(* A command that runs is the latest that ran on its machine, or runs      *)
(* again, and ran nowhere else.                                            *)
LEMMA RunPerforms ==
    ASSUME TypeOK, IdsAgree, NEW m \in Machines, WatcherRuns(m)
    PROVE  \E k \in 1 .. calls : Queue!Perform(m, k)
<1> USE KvAssumption DEF Serials, Ids, Absent
<1> DEFINE k == watcher[m].cmd
<1>1. /\ k \in Serials
      /\ watcher[m].next \in Ids
      /\ k = cmds[m][watcher[m].next]
      /\ k = Base + watcher[m].next + 1
      /\ watcher[m].next < nextId
  BY DEF WatcherRuns, IdsAgree, IdsName, WatcherHolds, CommandsNumbered, TypeOK, Watcher
<1>2. Base \in Nat /\ Base + nextId = calls /\ calls \in Nat /\ nextId \in Nat
  BY DEF Base, TypeOK, IdsAgree, IdsName, CommandsNumbered
<1>3. k \in 1 .. calls /\ k > Base
  BY <1>1, <1>2
<1>4. \A i \in DOMAIN executed[m] : executed[m][i] <= k
  BY <1>1 DEF IdsAgree, EffectsKnown
<1>5. ASSUME NEW other \in Machines \ {m}, Queue!TookEffect(other, k)
      PROVE  FALSE
  <2>1. PICK i \in DOMAIN executed[other] : executed[other][i] = k
    BY <1>5 DEF Queue!TookEffect
  <2>2. cmds[other][k - Base - 1] = k
    BY <1>3, <2>1 DEF IdsAgree, EffectsKnown
  <2>3. k - Base - 1 = watcher[m].next
    BY <1>1, <1>2
  <2>4. cmds[other][watcher[m].next] # 0 /\ cmds[m][watcher[m].next] # 0
    BY <1>1, <2>2, <2>3
  <2>5. QED
    BY <1>1, <2>4 DEF IdsAgree, IdsName, CommandsNumbered
<1>6. /\ executed' = [executed EXCEPT ![m] = Append(executed[m], k)]
      /\ UNCHANGED <<calls, pending, returned>>
  BY DEF WatcherRuns, caller, store
<1>7. Queue!Perform(m, k)
  BY <1>4, <1>5, <1>6 DEF Queue!Perform
<1>8. QED
  BY <1>3, <1>7

(* Every step of the channel is a step of the abstract queue, or changes   *)
(* nothing in it.                                                          *)
LEMMA QueueStep ==
    ASSUME TypeOK, IdsAgree, [Next]_vars
    PROVE  [Queue!QueueNext]_(Queue!queueVars)
<1> USE KvAssumption DEF Queue!QueueNext, Queue!queueVars
<1>1. ASSUME NEW m \in Machines, Submit(m)
      PROVE  Queue!Issue
  BY <1>1 DEF Submit, Queue!Issue
<1>2. CASE Receive
  <2>1. pending \in Call
    BY <1>2 DEF Receive, TypeOK, NoCall
  <2>2. /\ pending.machine \in Machines /\ pending.id \in Ids
        /\ pending.serial = calls
    BY <1>2, <2>1 DEF Receive, Call, IdsAgree, IdsName, CallIsLast
  <2>3. results[pending.machine][pending.id] = calls /\ Ran(pending.machine, calls)
    BY <1>2, <2>2 DEF Receive, IdsAgree, IdsName, CallIsLast, ResultsAnswer
  <2>4. /\ pending.on
        /\ pending' = NoCall
        /\ returned' = returned \cup {<<pending.serial, results[pending.machine][pending.id]>>}
        /\ UNCHANGED <<calls, executed>>
    BY <1>2 DEF Receive
  <2>5. ~pending'.on /\ returned' = returned \cup {<<calls, calls>>}
    BY <2>2, <2>3, <2>4 DEF NoCall
  <2>6. Queue!Answer
    BY <2>2, <2>3, <2>4, <2>5 DEF Ran, Queue!Answer, Queue!TookEffect
  <2>7. QED
    BY <2>6
<1>3. CASE TimeOut \/ Redeploy
  BY <1>3 DEF TimeOut, Redeploy, NoCall, Queue!GiveUp
<1>4. ASSUME NEW m \in Machines, WatcherRuns(m)
      PROVE  Queue!QueueNext
  BY <1>4, RunPerforms
<1>5. ASSUME NEW m \in Machines, WatcherGets(m) \/ WatcherPosts(m) \/ WatcherStarts(m) \/ WatcherDies(m)
      PROVE  UNCHANGED Queue!queueVars
  BY <1>5 DEF WatcherGets, WatcherPosts, WatcherStarts, WatcherDies, caller, store
<1>6. CASE UNCHANGED vars
  BY <1>6 DEF vars
<1>7. QED
  BY <1>1, <1>2, <1>3, <1>4, <1>5, <1>6 DEF Next, WatcherStep, Finished

(* The channel implements the abstract queue, however many calls timed out, *)
(* watchers died and deployments were started again: an answer is that of  *)
(* its own command, and commands take effect in the order of their issue,  *)
(* each on its own machine (kv_remote_exec.py:12-24).                      *)
THEOREM ImplementsCommandQueueCorrect ==
    ASSUME CarefulStart
    PROVE  Spec => ImplementsCommandQueue
<1>1. Init => Queue!QueueInit
  BY DEF Init, NoCall, Queue!QueueInit
<1>2. IdsAgree /\ [Next]_vars => [Queue!QueueNext]_(Queue!queueVars)
  BY QueueStep DEF IdsAgree, IdsName
<1>3. QED
  BY <1>1, <1>2, IdsCorrect, PTL DEF Spec, ImplementsCommandQueue, Queue!QueueSpec
=============================================================================
