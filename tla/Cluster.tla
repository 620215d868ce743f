------------------------------ MODULE Cluster -------------------------------
(***************************************************************************)
(* The program in cluster mode (cmd/main.go:92-118): every process runs an *)
(* Elector, whose runFn calls Processor.Run with the context of the term.  *)
(* All processes share one Redis key, one events table and one row of the  *)
(* checkpoint table.                                                       *)
(*                                                                         *)
(* E is the election, P the processors.  They meet where runFn is called,  *)
(* where it returns, where its context is done, and where the process      *)
(* dies; otherwise each takes its steps alone.                             *)
(***************************************************************************)
EXTENDS Integers, FiniteSets

CONSTANTS
    Nodes, Nobody,
    TTL, Latency, StopDelay, Timely, RedisTimeouts,       \* see Elector
    DefaultLimit, BatchSize, LookbackHours, PollingInterval,
    IdsInOrder, TimesInOrder, StdoutMayFail, SendMayFail, \* see Processor
    MaxEventID, MaxTime,
    MaxTerms,     \* bound: the number of calls of Run
    MaxFaults,    \* bound: the faults of Elector
    MaxFailures   \* bound: the failed calls of Processor

ASSUME ClusterAssumption ==
    /\ Nobody \notin Nodes
    /\ TTL \in Nat /\ TTL > 1
    /\ Latency \in Nat /\ StopDelay \in Nat
    /\ DefaultLimit \in Nat \ {0}
    /\ BatchSize \in Nat /\ LookbackHours \in Nat /\ PollingInterval \in Nat
    /\ { Timely, RedisTimeouts, IdsInOrder, TimesInOrder, StdoutMayFail,
         SendMayFail } \subseteq BOOLEAN
    /\ { MaxEventID, MaxTime, MaxTerms, MaxFaults, MaxFailures } \subseteq Nat

VARIABLES
    lock, pc, appDone, lost, hb, proc, result, beat, call, stop, faults,
    events, now, ckpt, out,
    at,           \* pc of Processor: where Run is, "idle" when runFn is not running
    mem, resume, window, batch, sent, cancelled, runs,
    failures      \* faults of Processor

election == <<lock, pc, appDone, lost, hb, proc, result, beat, call, stop, faults>>
pumps == <<events, now, ckpt, out, at, mem, resume, window, batch, sent,
           cancelled, runs, failures>>
vars == <<election, pumps>>

E == INSTANCE Elector WITH RunOnce <- PollingInterval = 0

P == INSTANCE Processor WITH pc <- at, faults <- failures,
                             MaxRuns <- MaxTerms + 1, MaxFaults <- MaxFailures

Init == E!Init /\ P!Init

-----------------------------------------------------------------------------
(* Where the two meet.                                                     *)

(* runAsLeader starts runFn: main's closure calls proc.Run(ctx).           *)
BeginTerm(n) ==
    /\ runs < MaxTerms
    /\ E!BeginTerm(n)
    /\ P!CallRun(n)

(* leaderCtx is done, because appCtx is or leaderCancel was called, and    *)
(* the processor's calls begin to notice.                                  *)
CancelSeen(n) == E!Cancelled(n) /\ P!Cancel(n) /\ UNCHANGED election

(* Run returns nil, ctx.Err() or another error, and with it runFn.  What   *)
(* a cancelled call returns need not be context.Canceled.                  *)
RunReturns(n) ==
    /\ at[n] # "idle"
    /\ E!ProcReturns(n)
    /\ \/ /\ P!FetchEmpty(n) \/ P!SaveCheckpoint(n)
          /\ result'[n] = "nil"
       \/ /\ P!Return(n)
          /\ result'[n] = "canceled"
       \/ /\ P!LoadFails(n) \/ P!FetchFails(n) \/ P!SendFails(n) \/ P!SaveFails(n)
          /\ result'[n] = "error" \/ (cancelled[n] /\ result'[n] = "canceled")
    /\ at'[n] = "idle"

Crash(n) ==
    /\ E!Crash(n)
    /\ IF at[n] = "idle" THEN UNCHANGED pumps ELSE P!Crash(n)

-----------------------------------------------------------------------------
(* Steps of one side.                                                      *)

Elect(n) == UNCHANGED <<proc, pumps>> /\ E!Step(n)
Keep(n) == UNCHANGED <<proc, pumps>> /\ E!Heartbeat(n)
Terminate(n) == UNCHANGED pumps /\ E!Terminate(n)

Pump(n) ==
    /\ at[n] # "idle"
    /\ P!Step(n)
    /\ at'[n] # "idle"
    /\ UNCHANGED election

Pass == UNCHANGED pumps /\ E!Tick

NetBird == UNCHANGED election /\ (P!StoreEvent \/ P!ClockTick)

Next ==
    \/ \E n \in Nodes :
          \/ BeginTerm(n) \/ CancelSeen(n) \/ RunReturns(n) \/ Crash(n)
          \/ Elect(n) \/ Keep(n) \/ Terminate(n) \/ Pump(n)
    \/ Pass
    \/ NetBird

Spec == Init /\ [][Next]_vars

(* The fairness of both parts, for the steps they take here.               *)
Fairness ==
    /\ \A n \in Nodes :
          /\ WF_vars(Elect(n) \/ BeginTerm(n))
          /\ WF_vars(Keep(n))
          /\ WF_vars(Keep(n) /\ E!HeartbeatStops(n))
          /\ WF_vars(CancelSeen(n))
          /\ WF_vars(Pump(n) \/ RunReturns(n))
          /\ SF_vars(RunReturns(n) /\ P!Return(n))
    /\ WF_vars(Pass)

FairSpec == Spec /\ Fairness

-----------------------------------------------------------------------------
(* Properties.  Where the delays fit into a TTL and no call to Redis times *)
(* out (Timely, ~RedisTimeouts), several nodes behave like one.            *)

(***************************************************************************)
(* The cluster as a whole keeps what the audit feed promises: a node that  *)
(* takes over prints from the row that the last leader left, and the old   *)
(* leader neither prints nor saves after it (elector.go:201-213,           *)
(* processor.go:98-121).                                                   *)
(***************************************************************************)
ImplementsFeed == P!ImplementsFeed

(***************************************************************************)
(* A leader that is being replaced does not put its old position over the  *)
(* one of its successor: SaveCheckpoint is an upsert without a comparison  *)
(* (postgres_reader.go:381-389).                                           *)
(***************************************************************************)
PositionNeverRegresses == P!PositionNeverRegresses

(***************************************************************************)
(* No node prints what another one has covered: a standby loads the row    *)
(* when its term begins, not when its process starts.                      *)
(***************************************************************************)
CoveredNeverResent == P!CoveredNeverResent

(***************************************************************************)
(* However often leaders change, at most one batch was printed beyond the  *)
(* saved position (TECH_DOC 7.7.2), unless calls of the processor fail.    *)
(***************************************************************************)
GapAtMostOneBatch == P!GapAtMostOneBatch

(***************************************************************************)
(* Events are printed and positions saved by a node that has the lock, the *)
(* last batch of a leader that is being stopped included                   *)
(* (elector.go:206-211).                                                   *)
(***************************************************************************)
WorksUnderLock ==
    [][out' # out \/ ckpt' # ckpt =>
         \E n \in Nodes : at[n] # "idle" /\ E!Holds(n)]_vars

(***************************************************************************)
(* Every committed event is printed in the end, by whichever node leads,   *)
(* through crashes, lost locks, signals and failed calls.                  *)
(***************************************************************************)
EventuallyDelivered == P!EventuallyDelivered

(***************************************************************************)
(* With polling_interval 0 a process runs once and exits                   *)
(* (config.go:168).                                                        *)
(***************************************************************************)
RunsOnceAndExits == PollingInterval = 0 => runs <= Cardinality(Nodes)
=============================================================================
