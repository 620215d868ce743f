---------------------------- MODULE ClusterProofs ----------------------------
(***************************************************************************)
(* Proofs about Cluster.  Every step is a step of the election and a step  *)
(* of the processors, or none, so that what is proved of each alone holds  *)
(* in the cluster; the exclusion of leaders then gives the processors what *)
(* SingleNodeProofs asks for.                                              *)
(***************************************************************************)
EXTENDS Cluster, TLAPS

(* The parts once more, with the theorems about them.                      *)
EP == INSTANCE ElectorProofs WITH RunOnce <- PollingInterval = 0

PP == INSTANCE SingleNodeProofs WITH pc <- at, faults <- failures,
                               MaxRuns <- MaxTerms + 1, MaxFaults <- MaxFailures

(* The definitions only abbreviate: each name of one instance stands for   *)
(* what it stands for in the other.                                        *)
LEMMA SameProcessors ==
    /\ P!Init <=> PP!Init
    /\ \A n \in Nodes : /\ P!Step(n) <=> PP!Step(n)
                        /\ P!Cancel(n) <=> PP!Cancel(n)
                        /\ P!Crash(n) <=> PP!Crash(n)
    /\ P!StoreEvent <=> PP!StoreEvent
    /\ P!ClockTick <=> PP!ClockTick
<1>1. P!Init <=> PP!Init
  BY DEF P!Init, PP!Init, P!EventIDs, PP!EventIDs, P!FreshCheckpoint,
         PP!FreshCheckpoint
<1>2. ASSUME NEW n \in Nodes PROVE P!Step(n) <=> PP!Step(n)
  BY
    DEF P!Step, PP!Step, P!Cardinality, PP!Cardinality, P!Matches, PP!Matches,
        P!Matching, PP!Matching, P!InOrder, PP!InOrder, P!Orderings,
        PP!Orderings, P!EffectiveLimit, PP!EffectiveLimit, P!PageOf,
        PP!PageOf, P!GetEvents, PP!GetEvents, P!db, PP!db, P!query, PP!query,
        P!local, PP!local, P!EventIDs, PP!EventIDs, P!Times, PP!Times,
        P!Event, PP!Event, P!FreshCheckpoint, PP!FreshCheckpoint, P!Offset,
        PP!Offset, P!Query, PP!Query, P!HasPosition, PP!HasPosition,
        P!LookbackWindow, PP!LookbackWindow, P!Advanced, PP!Advanced,
        P!Loaded, PP!Loaded, P!ShortBatch, PP!ShortBatch, P!SavedRow,
        PP!SavedRow, P!AfterFailedSave, PP!AfterFailedSave, P!ClearPoll,
        PP!ClearPoll, P!LeaveRun, PP!LeaveRun, P!LeavePoll, PP!LeavePoll,
        P!CallFails, PP!CallFails, P!CallRun, PP!CallRun, P!LoadCheckpoint,
        PP!LoadCheckpoint, P!LoadFails, PP!LoadFails, P!Tick, PP!Tick,
        P!Return, PP!Return, P!BeginPoll, PP!BeginPoll, P!FetchBatch,
        PP!FetchBatch, P!FetchEmpty, PP!FetchEmpty, P!FetchFails,
        PP!FetchFails, P!WriteLine, PP!WriteLine, P!LineLost, PP!LineLost,
        P!SendFails, PP!SendFails, P!AdvanceCheckpoint, PP!AdvanceCheckpoint,
        P!SaveCheckpoint, PP!SaveCheckpoint, P!SaveFails, PP!SaveFails,
        P!Cancel, PP!Cancel, P!Crash, PP!Crash, P!StoreEvent, PP!StoreEvent,
        P!ClockTick, PP!ClockTick
<1>3. ASSUME NEW n \in Nodes
      PROVE  (P!Cancel(n) <=> PP!Cancel(n)) /\ (P!Crash(n) <=> PP!Crash(n))
  BY DEF P!Cancel, PP!Cancel, P!Crash, PP!Crash, P!LeaveRun, PP!LeaveRun,
         P!ClearPoll, PP!ClearPoll, P!AfterFailedSave, PP!AfterFailedSave,
         P!SavedRow, PP!SavedRow, P!FreshCheckpoint, PP!FreshCheckpoint,
         P!db, PP!db, P!query, PP!query
<1>4. (P!StoreEvent <=> PP!StoreEvent) /\ (P!ClockTick <=> PP!ClockTick)
  BY DEF P!StoreEvent, PP!StoreEvent, P!ClockTick, PP!ClockTick, P!Event,
         PP!Event, P!EventIDs, PP!EventIDs, P!Times, PP!Times, P!local, PP!local
<1> QED
  BY <1>1, <1>2, <1>3, <1>4

LEMMA SameElection ==
    /\ E!Init <=> EP!Init
    /\ \A n \in Nodes : /\ E!Step(n) <=> EP!Step(n)
                        /\ E!Heartbeat(n) <=> EP!Heartbeat(n)
                        /\ E!ProcReturns(n) <=> EP!ProcReturns(n)
                        /\ E!Terminate(n) <=> EP!Terminate(n)
                        /\ E!Crash(n) <=> EP!Crash(n)
    /\ E!Tick <=> EP!Tick
<1>1. E!Init <=> EP!Init
  BY DEF E!Init, EP!Init
<1>2. ASSUME NEW n \in Nodes
      PROVE  /\ E!Step(n) <=> EP!Step(n)
             /\ E!Heartbeat(n) <=> EP!Heartbeat(n)
             /\ E!ProcReturns(n) <=> EP!ProcReturns(n)
             /\ E!Terminate(n) <=> EP!Terminate(n)
             /\ E!Crash(n) <=> EP!Crash(n)
  BY
    DEF E!Step, EP!Step, E!Heartbeat, EP!Heartbeat, E!control, EP!control,
        E!timers, EP!timers, E!Period, EP!Period, E!Holds, EP!Holds, E!Leased,
        EP!Leased, E!Abandoned, EP!Abandoned, E!Cancelled, EP!Cancelled,
        E!Fault, EP!Fault, E!ReleaseLock, EP!ReleaseLock, E!MayJoin,
        EP!MayJoin, E!AfterFailure, EP!AfterFailure, E!LeaderCancel,
        EP!LeaderCancel, E!MustStop, EP!MustStop, E!Start, EP!Start,
        E!Terminate, EP!Terminate, E!Crash, EP!Crash, E!Obtained, EP!Obtained,
        E!NotObtained, EP!NotObtained, E!ObtainFails, EP!ObtainFails,
        E!ObtainGivesUp, EP!ObtainGivesUp, E!Retry, EP!Retry,
        E!SleepCancelled, EP!SleepCancelled, E!BeginTerm, EP!BeginTerm,
        E!AfterTerm, EP!AfterTerm, E!Beat, EP!Beat, E!RedisRefresh,
        EP!RedisRefresh, E!RefreshOK, EP!RefreshOK, E!RefreshFails,
        EP!RefreshFails, E!RefreshTimesOut, EP!RefreshTimesOut,
        E!HeartbeatStops, EP!HeartbeatStops, E!ProcReturns, EP!ProcReturns,
        E!ProcDone, EP!ProcDone, E!TermCancelled, EP!TermCancelled, E!Drained,
        EP!Drained, E!HeartbeatJoined, EP!HeartbeatJoined, E!Release,
        EP!Release, E!Less, EP!Less, E!Due, EP!Due, E!Tick, EP!Tick
<1>3. E!Tick <=> EP!Tick
  BY DEF E!Tick, EP!Tick, E!Due, EP!Due, E!MustStop, EP!MustStop, E!Cancelled,
         EP!Cancelled, E!Less, EP!Less, E!control, EP!control
<1> QED
  BY <1>1, <1>2, <1>3

(* The assumptions of the parts follow from those of the cluster.          *)
LEMMA BothAssume ==
    /\ EP!ElectorAssumption
    /\ PP!ProcessorAssumption
    /\ PP!DefaultLimitAssumption
BY ClusterAssumption
DEF EP!ElectorAssumption, PP!ProcessorAssumption, PP!DefaultLimitAssumption

-----------------------------------------------------------------------------
(* A step of the cluster is a step of both parts.                          *)

LEMMA ElectionSteps == [Next]_vars => [EP!Next]_(EP!vars)
<1> SUFFICES ASSUME [Next]_vars PROVE EP!Next \/ UNCHANGED EP!vars
  OBVIOUS
<1>1. ASSUME UNCHANGED election PROVE UNCHANGED EP!vars
  BY <1>1 DEF election, EP!vars, EP!control, EP!timers
<1>2. ASSUME NEW n \in Nodes, BeginTerm(n) \/ Elect(n) PROVE EP!Next
  BY <1>2, SameElection DEF BeginTerm, Elect, E!Step, EP!Next
<1>3. ASSUME NEW n \in Nodes,
             RunReturns(n) \/ Crash(n) \/ Keep(n) \/ Terminate(n)
      PROVE  EP!Next
  BY <1>3, SameElection DEF RunReturns, Crash, Keep, Terminate, EP!Next
<1>4. ASSUME Pass PROVE EP!Next
  BY <1>4, SameElection DEF Pass, EP!Next
<1>5. ASSUME \/ \E n \in Nodes : CancelSeen(n) \/ Pump(n)
             \/ NetBird \/ UNCHANGED vars
      PROVE  UNCHANGED election
  BY <1>5 DEF CancelSeen, Pump, NetBird, vars
<1> QED
  BY <1>1, <1>2, <1>3, <1>4, <1>5 DEF Next

LEMMA PumpSteps == [Next]_vars => [PP!Next]_(PP!vars)
<1> SUFFICES ASSUME [Next]_vars PROVE PP!Next \/ UNCHANGED PP!vars
  OBVIOUS
<1>1. ASSUME UNCHANGED pumps PROVE UNCHANGED PP!vars
  BY <1>1 DEF pumps, PP!vars, PP!db, PP!local
<1>2. ASSUME NEW n \in Nodes,
             BeginTerm(n) \/ RunReturns(n) \/ Pump(n) \/ CancelSeen(n)
      PROVE  PP!Next
  BY <1>2, SameProcessors
  DEF BeginTerm, RunReturns, Pump, CancelSeen, P!Step, PP!Next
<1>3. ASSUME NEW n \in Nodes, Crash(n)
      PROVE  PP!Next \/ UNCHANGED pumps
  BY <1>3, SameProcessors DEF Crash, PP!Next
<1>4. ASSUME NetBird PROVE PP!Next
  BY <1>4, SameProcessors DEF NetBird, PP!Next
<1>5. ASSUME \/ \E n \in Nodes : Elect(n) \/ Keep(n) \/ Terminate(n)
             \/ Pass \/ UNCHANGED vars
      PROVE  UNCHANGED pumps
  BY <1>5 DEF Elect, Keep, Terminate, Pass, vars
<1> QED
  BY <1>1, <1>2, <1>3, <1>4, <1>5 DEF Next

(***************************************************************************)
(* A cluster is an election and a set of processors: whatever is proved of *)
(* either holds in it.                                                     *)
(***************************************************************************)
THEOREM BothParts == Spec => EP!Spec /\ PP!Spec
<1>1. Init => EP!Init /\ PP!Init
  BY SameElection, SameProcessors DEF Init
<1> QED
  BY <1>1, ElectionSteps, PumpSteps, PTL DEF Spec, EP!Spec, PP!Spec

(***************************************************************************)
(* The saved position never passes an event that was not printed, whatever *)
(* the election does: two leaders at once, expired locks, lost answers and *)
(* timeouts of Redis lose nothing (processor.go:205-236).                  *)
(***************************************************************************)
THEOREM ClusterLosesNothing ==
    ASSUME IdsInOrder, TimesInOrder, ~StdoutMayFail
    PROVE  Spec => []P!NoEventLost
<1>1. PP!Spec => []PP!NoEventLost
  BY BothAssume, PP!NothingLost
<1>2. PP!NoEventLost <=> P!NoEventLost
  BY DEF PP!NoEventLost, P!NoEventLost, PP!Position, P!Position, PP!Delivered,
         P!Delivered, PP!Expired, P!Expired
<1> QED
  BY BothParts, <1>1, <1>2, PTL

(***************************************************************************)
(* When a poll ends without an error, the cluster has printed every event  *)
(* that was stored before the poll's last query, the expired ones excepted *)
(* - in whatever term and by whatever node, also while two of them lead    *)
(* (processor.go:152-250).                                                 *)
(***************************************************************************)
THEOREM ClusterCatchesUp ==
    ASSUME IdsInOrder, TimesInOrder, ~StdoutMayFail,
           NEW n \in Nodes, NEW e \in PP!Event
    PROVE  Spec => [](e \in events /\ PP!BeforeQuery(n) =>
                        [][PP!PollSucceeds(n) =>
                              PP!Delivered(e) \/ PP!Expired(e)]_(PP!vars))
<1>1. PP!Spec => [](e \in events /\ PP!BeforeQuery(n) =>
                      [][PP!PollSucceeds(n) =>
                            PP!Delivered(e) \/ PP!Expired(e)]_(PP!vars))
  BY BothAssume, PP!PollsCatchUp
<1> QED
  BY BothParts, <1>1, PTL

-----------------------------------------------------------------------------
(* Where Run is being executed, runFn is.                                  *)

Coupled == \A n \in Nodes : at[n] # "idle" <=> E!Leads(n)

(* What a step of n leaves of the others.                                  *)
OthersCoupled(n) ==
    \A m \in Nodes \ {n} : at'[m] = at[m] /\ proc'[m] = proc[m]

LEMMA CoupledAfter ==
    ASSUME Coupled, NEW n \in Nodes, OthersCoupled(n),
           at'[n] # "idle" <=> proc'[n] = "running"
    PROVE  Coupled'
BY DEF Coupled, OthersCoupled, E!Leads

LEMMA CoupledInit == Init => Coupled
BY DEF Init, E!Init, P!Init, Coupled, E!Leads

LEMMA CoupledStep ==
    ASSUME EP!TypeOK, PP!TypeOK, Coupled, [Next]_vars
    PROVE  Coupled'
<1>1. /\ at \in [Nodes -> PP!PCs]
      /\ proc \in [Nodes -> {"none", "running", "done"}]
  BY DEF EP!TypeOK, PP!TypeOK
<1>2. ASSUME NEW n \in Nodes, PP!Step(n) \/ PP!Cancel(n) \/ PP!Crash(n),
             NEW m \in Nodes \ {n}
      PROVE  at'[m] = at[m]
  BY <1>2, BothAssume, PP!StepsAlone DEF PP!OthersSame, PP!SameLocal
<1>3. ASSUME NEW n \in Nodes, BeginTerm(n) PROVE Coupled'
  <2>1. /\ at' = [at EXCEPT ![n] = "load"]
        /\ proc' = [proc EXCEPT ![n] = "running"]
    BY <1>3 DEF BeginTerm, E!BeginTerm, P!CallRun
  <2> QED
    BY <1>1, <2>1, CoupledAfter DEF OthersCoupled
<1>4. ASSUME NEW n \in Nodes, RunReturns(n) PROVE Coupled'
  <2>1. /\ at'[n] = "idle"
        /\ proc' = [proc EXCEPT ![n] = "done"]
    BY <1>4 DEF RunReturns, E!ProcReturns
  <2>2. PP!Step(n)
    BY <1>4, SameProcessors DEF RunReturns, P!Step
  <2> QED
    BY <1>1, <1>2, <2>1, <2>2, CoupledAfter DEF OthersCoupled
<1>5. ASSUME NEW n \in Nodes, Crash(n) PROVE Coupled'
  <2>1. proc' = [proc EXCEPT ![n] = "none"]
    BY <1>5 DEF Crash, E!Crash
  <2>2. CASE at[n] = "idle"
    BY <1>1, <1>5, <2>1, <2>2, CoupledAfter DEF Crash, pumps, OthersCoupled
  <2>3. CASE at[n] # "idle"
    <3>1. P!Crash(n)
      BY <1>5, <2>3 DEF Crash
    <3>2. PP!Crash(n) /\ at'[n] = "idle"
      BY <1>1, <3>1, SameProcessors DEF P!Crash, P!LeaveRun
    <3> QED
      BY <1>1, <1>2, <2>1, <3>2, CoupledAfter DEF OthersCoupled
  <2> QED
    BY <2>2, <2>3
<1>6. ASSUME NEW n \in Nodes, CancelSeen(n) PROVE Coupled'
  BY <1>6 DEF CancelSeen, P!Cancel, election, Coupled, E!Leads
<1>7. ASSUME NEW n \in Nodes, Pump(n) PROVE Coupled'
  <2>1. PP!Step(n) /\ at[n] # "idle" /\ at'[n] # "idle" /\ proc' = proc
    BY <1>7, SameProcessors DEF Pump, election
  <2> QED
    BY <1>2, <2>1, CoupledAfter DEF OthersCoupled, Coupled, E!Leads
<1>8. ASSUME \/ \E n \in Nodes : Elect(n) \/ Keep(n) \/ Terminate(n)
             \/ Pass \/ NetBird \/ UNCHANGED vars
      PROVE  Coupled'
  <2>1. UNCHANGED <<at, proc>>
    BY <1>8 DEF Elect, Keep, Terminate, E!Terminate, Pass, E!Tick, E!control,
       NetBird, P!StoreEvent, P!ClockTick, P!local, vars, pumps, election
  <2> QED
    BY <2>1 DEF Coupled, E!Leads
<1> QED
  BY <1>3, <1>4, <1>5, <1>6, <1>7, <1>8 DEF Next

LEMMA CoupledAlways == Spec => []Coupled
<1>1. EP!Spec => []EP!TypeOK
  BY BothAssume, EP!TypeCorrect
<1>2. PP!Spec => []PP!TypeOK
  BY BothAssume, PP!TypeCorrect
<1>3. EP!TypeOK /\ PP!TypeOK /\ Coupled /\ [Next]_vars => Coupled'
  BY CoupledStep
<1> QED
  BY BothParts, CoupledInit, <1>1, <1>2, <1>3, PTL DEF Spec

(***************************************************************************)
(* A node that is inside Processor.Run without the lock leaves it within   *)
(* the time by which half a TTL, two answers and the stop of runFn exceed  *)
(* the TTL: for no longer can two nodes work on the one checkpoint.  If    *)
(* calls are answered and runFn stops in time, and no call times out.      *)
(***************************************************************************)
THEOREM OverlapIsBounded ==
    ASSUME Timely, ~RedisTimeouts
    PROVE  Spec => [](\A n \in Nodes :
                         at[n] # "idle" /\ ~E!Holds(n) =>
                            EP!Rest(n) \in Nat /\ EP!Rest(n) + TTL <= EP!Need)
<1>1. EP!Spec => [](\A n \in Nodes : EP!StopsSoon(n))
  BY BothAssume, EP!DeposedLeaderStops, PTL
<1>2. Coupled /\ (\A n \in Nodes : EP!StopsSoon(n)) =>
         \A n \in Nodes : at[n] # "idle" /\ ~E!Holds(n) =>
            EP!Rest(n) \in Nat /\ EP!Rest(n) + TTL <= EP!Need
  BY DEF Coupled, E!Leads, EP!StopsSoon, EP!Deposed, EP!Leads, EP!Holds, E!Holds
<1> QED
  BY BothParts, CoupledAlways, <1>1, <1>2, PTL

(***************************************************************************)
(* At most one node of a cluster is inside Processor.Run, whatever crashes *)
(* or fails, if calls are answered and runFn stops in time, no call times  *)
(* out, and half a TTL, two answers and the stop of runFn fit into a TTL.  *)
(***************************************************************************)
THEOREM OneNodeRuns ==
    ASSUME Timely, ~RedisTimeouts, EP!DelaysFit
    PROVE  Spec => []PP!Solo
<1>1. EP!Spec => []EP!OneLeader
  BY BothAssume, EP!Exclusion
<1>2. Coupled /\ EP!OneLeader => PP!Solo
  BY DEF Coupled, E!Leads, EP!Leads, EP!OneLeader, PP!Solo
<1> QED
  BY BothParts, CoupledAlways, <1>1, <1>2, PTL

(***************************************************************************)
(* Under these conditions a leader that is being replaced never puts its   *)
(* old position over the one of its successor.                             *)
(***************************************************************************)
THEOREM ClusterNeverRegresses ==
    ASSUME Timely, ~RedisTimeouts, EP!DelaysFit
    PROVE  Spec => PositionNeverRegresses
<1>1. Spec => []PP!Solo
  BY OneNodeRuns
<1>2. PP!Spec /\ []PP!Solo => PP!PositionNeverRegresses
  BY BothAssume, PP!NeverRegresses
<1>3. [PP!Position <= PP!Position']_(PP!vars) =>
          [P!Position <= P!Position']_(P!vars)
  BY DEF PP!Position, P!Position, PP!vars, P!vars, PP!db, P!db, PP!local, P!local
<1> QED
  BY BothParts, <1>1, <1>2, <1>3, PTL
  DEF PositionNeverRegresses, P!PositionNeverRegresses, PP!PositionNeverRegresses

(***************************************************************************)
(* ... no node prints what another one has covered ...                     *)
(***************************************************************************)
THEOREM ClusterNeverResends ==
    ASSUME Timely, ~RedisTimeouts, EP!DelaysFit
    PROVE  Spec => CoveredNeverResent
<1>1. Spec => []PP!Solo
  BY OneNodeRuns
<1>2. PP!Spec /\ []PP!Solo => PP!CoveredNeverResent
  BY BothAssume, PP!NeverResent
<1>3. [\A i \in PP!EventIDs : i <= PP!Position => out'[i] = out[i]]_(PP!vars) =>
          [\A i \in P!EventIDs : i <= P!Position => out'[i] = out[i]]_(P!vars)
  BY DEF PP!Position, P!Position, PP!EventIDs, P!EventIDs,
         PP!vars, P!vars, PP!db, P!db, PP!local, P!local
<1> QED
  BY BothParts, <1>1, <1>2, <1>3, PTL
  DEF CoveredNeverResent, P!CoveredNeverResent, PP!CoveredNeverResent

(***************************************************************************)
(* ... what is printed or saved is printed or saved by a node that has the *)
(* lock ...                                                                *)
(***************************************************************************)
THEOREM ClusterWorksUnderLock ==
    ASSUME Timely, ~RedisTimeouts, EP!DelaysFit
    PROVE  Spec => WorksUnderLock
<1>1. EP!Spec => []EP!LeaderHoldsLock
  BY BothAssume, EP!LeadsWithLock
<1>2. ASSUME Coupled, EP!LeaderHoldsLock, [Next]_vars,
             out' # out \/ ckpt' # ckpt
      PROVE  \E n \in Nodes : at[n] # "idle" /\ E!Holds(n)
  <2>1. [PP!Next]_(PP!vars)
    BY <1>2, PumpSteps
  <2>2. PICK n \in Nodes : at[n] \in {"send", "save"}
    <3>1. CASE out' # out
      BY <2>1, <3>1, BothAssume, PP!OutputChanges DEF PP!WriteLine
    <3>2. CASE ckpt' # ckpt
      BY <2>1, <3>2, BothAssume, PP!RowChanges
    <3> QED
      BY <1>2, <3>1, <3>2
  <2>3. E!Leads(n)
    BY <1>2, <2>2 DEF Coupled
  <2> QED
    BY <1>2, <2>2, <2>3
    DEF EP!LeaderHoldsLock, EP!Leads, E!Leads, EP!Holds, E!Holds
<1>3. Coupled /\ EP!LeaderHoldsLock /\ [Next]_vars =>
        [out' # out \/ ckpt' # ckpt =>
             \E n \in Nodes : at[n] # "idle" /\ E!Holds(n)]_vars
  BY <1>2
<1> QED
  BY BothParts, CoupledAlways, <1>1, <1>3, PTL DEF Spec, WorksUnderLock

(***************************************************************************)
(* ... what a failover prints again is at most one batch, as long as no    *)
(* call fails ...                                                          *)
(***************************************************************************)
THEOREM ClusterRepeatsOneBatch ==
    ASSUME Timely, ~RedisTimeouts, EP!DelaysFit,
           IdsInOrder, TimesInOrder, ~StdoutMayFail
    PROVE  Spec => []GapAtMostOneBatch
<1>1. Spec => []PP!Solo
  BY OneNodeRuns
<1>2. PP!Spec /\ []PP!Solo => []PP!GapAtMostOneBatch
  BY BothAssume, PP!GapIsOneBatch
<1>3. PP!GapAtMostOneBatch => GapAtMostOneBatch
  BY DEF PP!GapAtMostOneBatch, GapAtMostOneBatch, P!GapAtMostOneBatch,
         PP!PrintedAgain, P!PrintedAgain, PP!Position, P!Position,
         PP!Delivered, P!Delivered, PP!Expired, P!Expired,
         PP!EffectiveLimit, P!EffectiveLimit, PP!Cardinality, P!Cardinality
<1> QED
  BY BothParts, <1>1, <1>2, <1>3, PTL

(***************************************************************************)
(* ... and the cluster as a whole implements the audit feed, for rows      *)
(* committed in the order of their ids and times and a stdout that takes   *)
(* every line.                                                             *)
(***************************************************************************)
THEOREM ClusterKeepsTheFeed ==
    ASSUME Timely, ~RedisTimeouts, EP!DelaysFit,
           IdsInOrder, TimesInOrder, ~StdoutMayFail
    PROVE  Spec => ImplementsFeed
<1>1. Spec => []PP!Solo
  BY OneNodeRuns
<1>2. PP!Spec /\ []PP!Solo => PP!ImplementsFeed
  BY BothAssume, PP!KeepsTheFeed
<1>3. PP!Feed!Init <=> P!Feed!Init
  BY DEF PP!Feed!Init, P!Feed!Init, PP!Feed!Ids, P!Feed!Ids, PP!Event, P!Event,
         PP!EventIDs, P!EventIDs, PP!Times, P!Times, PP!Position, P!Position
<1>4. [PP!Feed!Next]_(PP!Feed!feed) <=> [P!Feed!Next]_(P!Feed!feed)
  BY DEF PP!Feed!Next, P!Feed!Next, PP!Feed!feed, P!Feed!feed,
         PP!Feed!Store, P!Feed!Store, PP!Feed!Deliver, P!Feed!Deliver,
         PP!Feed!Commit, P!Feed!Commit, PP!Feed!Hour, P!Feed!Hour,
         PP!Feed!Expired, P!Feed!Expired, PP!Event, P!Event,
         PP!EventIDs, P!EventIDs, PP!Times, P!Times, PP!Position, P!Position
<1> QED
  BY BothParts, <1>1, <1>2, <1>3, <1>4, PTL
  DEF ImplementsFeed, P!ImplementsFeed, PP!ImplementsFeed,
      P!Feed!Spec, PP!Feed!Spec
=============================================================================
