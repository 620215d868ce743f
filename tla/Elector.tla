------------------------------ MODULE Elector -------------------------------
(***************************************************************************)
(* Leader election of pkg/election over a Redis lock with a time to live,  *)
(* and the process around it (cmd/main.go in cluster mode, under systemd). *)
(*                                                                         *)
(* A process has three goroutines here: Elector.Run (pc), the heartbeat    *)
(* (hb) and runFn, which is Processor.Run (proc).  A call to Redis takes   *)
(* effect in one step and is answered in another.  Time is a set of        *)
(* countdowns that Tick moves together; when Timely holds, time does not   *)
(* pass a deadline, so a call is answered within Latency, a due heartbeat  *)
(* is sent, and runFn returns within StopDelay of its cancellation.        *)
(*                                                                         *)
(* The token of a lock is the life of the process that obtained it: when   *)
(* that process dies or never hears that it got the lock, the lock belongs *)
(* to nobody until it expires.                                             *)
(***************************************************************************)
EXTENDS Integers

CONSTANTS
    Nodes,
    Nobody,         \* the owner of a lock whose token nobody remembers
    TTL,            \* e.ttl
    Latency,        \* how long an answer of Redis may take
    StopDelay,      \* how long runFn may run on after its context is cancelled
    Timely,         \* TRUE: the two bounds above are kept
    RunOnce,        \* TRUE: runFn may return nil on its own (polling_interval 0)
    RedisTimeouts,  \* TRUE: a call may fail with context.DeadlineExceeded
    MaxFaults       \* bound: crashes, failed calls, failed processors, signals

ASSUME ElectorAssumption ==
    /\ Nobody \notin Nodes
    /\ TTL \in Nat /\ TTL > 1
    /\ Latency \in Nat
    /\ StopDelay \in Nat
    /\ Timely \in BOOLEAN
    /\ RunOnce \in BOOLEAN
    /\ RedisTimeouts \in BOOLEAN
    /\ MaxFaults \in Nat

VARIABLES
    lock,      \* the Redis key: {} or one [owner, left]
    pc,        \* Elector.Run and runAsLeader
    appDone,   \* appCtx is cancelled
    lost,      \* leaderCancel was called
    hb,        \* the heartbeat goroutine
    proc,      \* the goroutine of runFn
    result,    \* what runFn returned
    beat,      \* time until the heartbeat ticker fires
    call,      \* time the pending call to Redis may still take
    stop,      \* time runFn may still take once cancelled
    faults

control == <<pc, appDone, lost, hb, proc, result>>
timers == <<beat, call, stop>>
vars == <<lock, control, timers, faults>>

(* An operator whose name ends in an underscore and a word is a plausible  *)
(* mistake in the operator that follows it.                                *)
Period_Whole == TTL
Period == TTL \div 2

Owners == Nodes \cup {Nobody}

(* down: no process (systemd starts it).  obtain: in Obtain, not answered.  *)
(* granted: Redis set the key.  sleep: between two attempts.  lead: in the  *)
(* select of runAsLeader.  drain: waiting for runFn.  join: waiting for the *)
(* heartbeat.  release: in the deferred Release.  check: the select that    *)
(* follows.  exited: main returned with status 0.                           *)
PCs == {"down", "obtain", "granted", "sleep", "lead", "drain", "join",
        "release", "check", "exited"}

(* call: a Refresh is on its way.  ok, refused: Redis has run it.           *)
HBs == {"none", "wait", "call", "ok", "refused", "ended"}

TypeOK ==
    /\ lock \subseteq [owner : Owners, left : 1..TTL]
    /\ \A l, m \in lock : l = m
    /\ pc \in [Nodes -> PCs]
    /\ appDone \in [Nodes -> BOOLEAN]
    /\ lost \in [Nodes -> BOOLEAN]
    /\ hb \in [Nodes -> HBs]
    /\ proc \in [Nodes -> {"none", "running", "done"}]
    /\ result \in [Nodes -> {"nil", "canceled", "error"}]
    /\ beat \in [Nodes -> 0..Period]
    /\ call \in [Nodes -> 0..Latency]
    /\ stop \in [Nodes -> 0..StopDelay]
    /\ faults \in 0..MaxFaults

Init ==
    /\ lock = {}
    /\ pc = [n \in Nodes |-> "down"]
    /\ appDone = [n \in Nodes |-> FALSE]
    /\ lost = [n \in Nodes |-> FALSE]
    /\ hb = [n \in Nodes |-> "none"]
    /\ proc = [n \in Nodes |-> "none"]
    /\ result = [n \in Nodes |-> "nil"]
    /\ beat = [n \in Nodes |-> 0]
    /\ call = [n \in Nodes |-> 0]
    /\ stop = [n \in Nodes |-> 0]
    /\ faults = 0

-----------------------------------------------------------------------------
Holds(n) == \E l \in lock : l.owner = n

(* The key in Redis after n obtained or refreshed it.                      *)
Leased_WrongUnit(n) == {[owner |-> n, left |-> 1000 * TTL]}
Leased(n) == {[owner |-> n, left |-> TTL]}

(* The lock after the process of n has forgotten its token.                *)
Abandoned(n) ==
    { [owner |-> IF l.owner = n THEN Nobody ELSE l.owner, left |-> l.left]
        : l \in lock }

Cancelled(n) == appDone[n] \/ lost[n]

Fault == faults < MaxFaults /\ faults' = faults + 1

ReleaseLock(n) == { l \in lock : l.owner # n }

MayJoin_NoWait(n) == TRUE
MayJoin(n) == proc[n] = "done"

AfterFailure_Exit(n) == pc' = [pc EXCEPT ![n] = "exited"]
AfterFailure(n) == pc' = [pc EXCEPT ![n] = "sleep"]

(* leaderCancel()                                                          *)
LeaderCancel_Forgotten(n) == lost' = lost
LeaderCancel(n) == lost' = [lost EXCEPT ![n] = TRUE]

(* The context given to runFn is done.                                     *)
MustStop_AppOnly(n) == appDone[n]
MustStop(n) == Cancelled(n)

-----------------------------------------------------------------------------
(* The process: main, systemd, signals.                                    *)

(* systemd starts a process that crashed or failed, an operator one that   *)
(* was stopped.  Nobody restarts one that exited by itself with status 0.  *)
Start(n) ==
    /\ pc[n] = "down" \/ (pc[n] = "exited" /\ appDone[n])
    /\ pc' = [pc EXCEPT ![n] = "obtain"]
    /\ appDone' = [appDone EXCEPT ![n] = FALSE]
    /\ UNCHANGED <<lock, lost, hb, proc, result, timers, faults>>

(* SIGTERM or SIGINT.                                                      *)
Terminate(n) ==
    /\ pc[n] \notin {"down", "exited"}
    /\ ~appDone[n]
    /\ Fault
    /\ appDone' = [appDone EXCEPT ![n] = TRUE]
    /\ UNCHANGED <<lock, pc, lost, hb, proc, result, timers>>

Crash(n) ==
    /\ pc[n] \notin {"down", "exited"}
    /\ Fault
    /\ lock' = Abandoned(n)
    /\ pc' = [pc EXCEPT ![n] = "down"]
    /\ appDone' = [appDone EXCEPT ![n] = FALSE]
    /\ lost' = [lost EXCEPT ![n] = FALSE]
    /\ hb' = [hb EXCEPT ![n] = "none"]
    /\ proc' = [proc EXCEPT ![n] = "none"]
    /\ result' = [result EXCEPT ![n] = "nil"]
    /\ beat' = [beat EXCEPT ![n] = 0]
    /\ call' = [call EXCEPT ![n] = 0]
    /\ stop' = [stop EXCEPT ![n] = 0]

-----------------------------------------------------------------------------
(* Elector.Run                                                             *)

(* Redis sets the key (SET NX PX).                                         *)
Obtained(n) ==
    /\ pc[n] = "obtain"
    /\ lock = {}
    /\ lock' = Leased(n)
    /\ pc' = [pc EXCEPT ![n] = "granted"]
    /\ call' = [call EXCEPT ![n] = Latency]
    /\ UNCHANGED <<appDone, lost, hb, proc, result, beat, stop, faults>>

(* ErrNotObtained.                                                         *)
NotObtained(n) ==
    /\ pc[n] = "obtain"
    /\ lock # {}
    /\ pc' = [pc EXCEPT ![n] = "sleep"]
    /\ UNCHANGED <<lock, appDone, lost, hb, proc, result, timers, faults>>

(* Obtain returns another error; Redis may have set the key all the same.  *)
ObtainFails(n) ==
    /\ pc[n] \in {"obtain", "granted"}
    /\ Fault
    /\ lock' = Abandoned(n)
    /\ AfterFailure(n)
    /\ call' = [call EXCEPT ![n] = 0]
    /\ UNCHANGED <<appDone, lost, hb, proc, result, beat, stop>>

(* context.Canceled, or context.DeadlineExceeded: Run returns nil.         *)
ObtainGivesUp(n) ==
    /\ pc[n] \in {"obtain", "granted"}
    /\ \/ appDone[n] /\ UNCHANGED faults
       \/ ~appDone[n] /\ RedisTimeouts /\ Fault
    /\ lock' = Abandoned(n)
    /\ pc' = [pc EXCEPT ![n] = "exited"]
    /\ call' = [call EXCEPT ![n] = 0]
    /\ UNCHANGED <<appDone, lost, hb, proc, result, beat, stop>>

(* time.After(e.retryInterval), unless appCtx is done: then, of the two    *)
(* ready cases, the select may take either.                                *)
Retry(n) ==
    /\ pc[n] = "sleep"
    /\ pc' = [pc EXCEPT ![n] = "obtain"]
    /\ UNCHANGED <<lock, appDone, lost, hb, proc, result, timers, faults>>

SleepCancelled(n) ==
    /\ pc[n] = "sleep"
    /\ appDone[n]
    /\ pc' = [pc EXCEPT ![n] = "exited"]
    /\ UNCHANGED <<lock, appDone, lost, hb, proc, result, timers, faults>>

(* The answer arrives: runAsLeader starts the heartbeat and runFn.         *)
BeginTerm(n) ==
    /\ pc[n] = "granted"
    /\ pc' = [pc EXCEPT ![n] = "lead"]
    /\ lost' = [lost EXCEPT ![n] = FALSE]
    /\ hb' = [hb EXCEPT ![n] = "wait"]
    /\ beat' = [beat EXCEPT ![n] = Period]
    /\ proc' = [proc EXCEPT ![n] = "running"]
    /\ stop' = [stop EXCEPT ![n] = StopDelay]
    /\ call' = [call EXCEPT ![n] = 0]
    /\ UNCHANGED <<lock, appDone, result, faults>>

(* The check after a term that ended cleanly.                              *)
AfterTerm(n) ==
    /\ pc[n] = "check"
    /\ pc' = [pc EXCEPT ![n] = IF appDone[n] THEN "exited" ELSE "obtain"]
    /\ UNCHANGED <<lock, appDone, lost, hb, proc, result, timers, faults>>

-----------------------------------------------------------------------------
(* runAsLeader: the heartbeat goroutine.                                   *)

Beat(n) ==
    /\ hb[n] = "wait"
    /\ beat[n] = 0
    /\ hb' = [hb EXCEPT ![n] = "call"]
    /\ beat' = [beat EXCEPT ![n] = Period]
    /\ call' = [call EXCEPT ![n] = Latency]
    /\ UNCHANGED <<lock, pc, appDone, lost, proc, result, stop, faults>>

(* Redis compares the token and sets the expiry, or refuses.               *)
RedisRefresh(n) ==
    /\ hb[n] = "call"
    /\ IF Holds(n)
       THEN /\ lock' = Leased(n)
            /\ hb' = [hb EXCEPT ![n] = "ok"]
       ELSE /\ hb' = [hb EXCEPT ![n] = "refused"]
            /\ UNCHANGED lock
    /\ UNCHANGED <<pc, appDone, lost, proc, result, timers, faults>>

RefreshOK(n) ==
    /\ hb[n] = "ok"
    /\ hb' = [hb EXCEPT ![n] = "wait"]
    /\ call' = [call EXCEPT ![n] = 0]
    /\ UNCHANGED <<lock, pc, appDone, lost, proc, result, beat, stop, faults>>

(* ErrNotObtained, or an error of the connection: leadership is given up.  *)
RefreshFails(n) ==
    /\ \/ hb[n] = "refused" /\ UNCHANGED faults
       \/ hb[n] \in {"call", "ok", "refused"} /\ Fault
    /\ LeaderCancel(n)
    /\ hb' = [hb EXCEPT ![n] = "ended"]
    /\ call' = [call EXCEPT ![n] = 0]
    /\ UNCHANGED <<lock, pc, appDone, proc, result, beat, stop>>

(* context.DeadlineExceeded: the goroutine returns, and that is all.       *)
RefreshTimesOut(n) ==
    /\ hb[n] \in {"call", "ok", "refused"}
    /\ RedisTimeouts
    /\ Fault
    /\ hb' = [hb EXCEPT ![n] = "ended"]
    /\ call' = [call EXCEPT ![n] = 0]
    /\ UNCHANGED <<lock, pc, appDone, lost, proc, result, beat, stop>>

(* leaderCtx.Done(), in the select or as the error of Refresh.             *)
HeartbeatStops(n) ==
    /\ hb[n] \in {"wait", "call", "ok", "refused"}
    /\ Cancelled(n)
    /\ hb' = [hb EXCEPT ![n] = "ended"]
    /\ call' = [call EXCEPT ![n] = 0]
    /\ UNCHANGED <<lock, pc, appDone, lost, proc, result, beat, stop, faults>>

-----------------------------------------------------------------------------
(* runAsLeader: runFn, and the end of a term.                              *)

(* runFn returns; a panic has become an error.  The error of a cancelled   *)
(* query need not be context.Canceled.                                     *)
ProcReturns(n) ==
    /\ proc[n] = "running"
    /\ \E r \in {"nil", "canceled", "error"} :
          /\ result' = [result EXCEPT ![n] = r]
          /\ \/ MustStop(n) /\ r # "error" /\ UNCHANGED faults
             \/ RunOnce /\ r = "nil" /\ UNCHANGED faults
             \/ r = "error" /\ Fault
    /\ proc' = [proc EXCEPT ![n] = "done"]
    /\ UNCHANGED <<lock, pc, appDone, lost, hb, timers>>

(* procErr = <-procDone; leaderCancel()                                    *)
ProcDone(n) ==
    /\ pc[n] = "lead"
    /\ proc[n] = "done"
    /\ LeaderCancel(n)
    /\ pc' = [pc EXCEPT ![n] = "join"]
    /\ UNCHANGED <<lock, appDone, hb, proc, result, timers, faults>>

(* <-leaderCtx.Done()                                                      *)
TermCancelled(n) ==
    /\ pc[n] = "lead"
    /\ Cancelled(n)
    /\ pc' = [pc EXCEPT ![n] = "drain"]
    /\ UNCHANGED <<lock, appDone, lost, hb, proc, result, timers, faults>>

Drained(n) ==
    /\ pc[n] = "drain"
    /\ MayJoin(n)
    /\ pc' = [pc EXCEPT ![n] = "join"]
    /\ UNCHANGED <<lock, appDone, lost, hb, proc, result, timers, faults>>

HeartbeatJoined(n) ==
    /\ pc[n] = "join"
    /\ hb[n] = "ended"
    /\ pc' = [pc EXCEPT ![n] = "release"]
    /\ UNCHANGED <<lock, appDone, lost, hb, proc, result, timers, faults>>

(* The deferred Release: the key is deleted if the token is still ours.    *)
(* When the call fails the key stays until it expires.  An error of the    *)
(* processor makes main exit with status 1.                                *)
Release(n) ==
    /\ pc[n] = "release"
    /\ \/ lock' = ReleaseLock(n) /\ UNCHANGED faults
       \/ lock' = Abandoned(n) /\ Fault
    /\ pc' = [pc EXCEPT ![n] = IF result[n] = "error" THEN "down" ELSE "check"]
    /\ appDone' = [appDone EXCEPT ![n] = @ /\ result[n] # "error"]
    /\ result' = [result EXCEPT ![n] = "nil"]
    /\ UNCHANGED <<lost, hb, proc, timers>>

-----------------------------------------------------------------------------
(* Time.                                                                   *)

Less(t) == IF t = 0 THEN 0 ELSE t - 1

(* Something of n is due now.                                              *)
Due(n) ==
    \/ pc[n] = "granted" /\ call[n] = 0
    \/ hb[n] \in {"call", "ok", "refused"} /\ call[n] = 0
    \/ hb[n] = "wait" /\ beat[n] = 0
    \/ proc[n] = "running" /\ MustStop(n) /\ stop[n] = 0

Tick ==
    /\ Timely => \A n \in Nodes : ~Due(n)
    /\ lock' = { [owner |-> l.owner, left |-> l.left - 1]
                 : l \in { m \in lock : m.left > 1 } }
    /\ beat' = [n \in Nodes |-> Less(beat[n])]
    /\ call' = [n \in Nodes |-> Less(call[n])]
    /\ stop' = [n \in Nodes |->
                  IF proc[n] = "running" /\ MustStop(n) THEN Less(stop[n])
                  ELSE stop[n]]
    /\ UNCHANGED <<control, faults>>

-----------------------------------------------------------------------------
Step(n) ==
    \/ Start(n) \/ Obtained(n) \/ NotObtained(n) \/ ObtainFails(n)
    \/ ObtainGivesUp(n) \/ Retry(n) \/ SleepCancelled(n) \/ BeginTerm(n)
    \/ AfterTerm(n) \/ ProcDone(n) \/ TermCancelled(n) \/ Drained(n)
    \/ HeartbeatJoined(n) \/ Release(n)

Heartbeat(n) ==
    \/ Beat(n) \/ RedisRefresh(n) \/ RefreshOK(n) \/ RefreshFails(n)
    \/ RefreshTimesOut(n) \/ HeartbeatStops(n)

Next ==
    \/ \E n \in Nodes :
          Step(n) \/ Heartbeat(n) \/ ProcReturns(n) \/ Terminate(n) \/ Crash(n)
    \/ Tick

Spec == Init /\ [][Next]_vars

(***************************************************************************)
(* Goroutines are scheduled, calls are answered, a cancelled runFn         *)
(* returns, systemd and operators start processes, time passes.  Of two    *)
(* ready cases Go's select takes a random one, so that the heartbeat does  *)
(* not pass over leaderCtx.Done() for ever.                                *)
(***************************************************************************)
Fairness ==
    /\ \A n \in Nodes : /\ WF_vars(Step(n))
                        /\ WF_vars(Heartbeat(n))
                        /\ WF_vars(HeartbeatStops(n))
                        /\ WF_vars(ProcReturns(n))
    /\ WF_vars(Tick)

FairSpec == Spec /\ Fairness

-----------------------------------------------------------------------------
(* Properties.                                                             *)

Leads(n) == proc[n] = "running"

(* The heartbeat is gone and runFn has not been told to stop.              *)
Unguarded(n) == Leads(n) /\ hb[n] = "ended" /\ ~Cancelled(n)

(***************************************************************************)
(* Two nodes never run the processor at the same time (elector.go:15-17),  *)
(* if no call to Redis times out and if half a TTL, two answers of Redis   *)
(* and the stop of runFn fit into one TTL.                                 *)
(***************************************************************************)
OneLeader == \A n, m \in Nodes : Leads(n) /\ Leads(m) => n = m

(***************************************************************************)
(* A node holds the lock for as long as its runFn runs, also while runFn   *)
(* is being stopped, and whatever the other nodes release: runAsLeader     *)
(* waits for runFn before it gives the lock away (elector.go:201-211), and *)
(* metrics.go:54 promises it.  Under the same conditions.                  *)
(***************************************************************************)
LeaderHoldsLock == \A n \in Nodes : Leads(n) => Holds(n)

(***************************************************************************)
(* No term goes on without a heartbeat: when the heartbeat goroutine has   *)
(* ended while runFn runs, the context of runFn is cancelled               *)
(* (elector.go:93-95).  Whatever the delays, if no call to Redis times     *)
(* out.                                                                    *)
(***************************************************************************)
HeartbeatGuardsTerm == \A n \in Nodes : ~Unguarded(n)

(***************************************************************************)
(* Run returns without an error only when the application is shutting down *)
(* (elector.go:88, "blocks until appCtx is cancelled or runFn returns a    *)
(* fatal error"), if no call to Redis times out.  systemd does not restart *)
(* a process that exited with status 0.                                    *)
(***************************************************************************)
ExitsOnlyOnShutdown == \A n \in Nodes : pc[n] = "exited" => appDone[n]

(***************************************************************************)
(* There is always a leader again: a lock that nobody can release expires, *)
(* and a node takes over after crashes, lost answers, failed refreshes and *)
(* failed processors, as long as one process has not given up on a timeout *)
(* of Redis.                                                               *)
(***************************************************************************)
LeaderAgain ==
    []<>(\/ \E n \in Nodes : Leads(n)
         \/ \A n \in Nodes : pc[n] = "exited" /\ ~appDone[n])

(***************************************************************************)
(* A node whose lock has expired or gone to another finds out and stops    *)
(* (elector.go:93-95), unless a timeout has ended its heartbeat.           *)
(***************************************************************************)
LosingLeaderStops ==
    \A n \in Nodes : (Leads(n) /\ ~Holds(n)) ~> (~Leads(n) \/ Unguarded(n))

(***************************************************************************)
(* Nodes of different environments, each with a database of its own, do    *)
(* not keep each other from working: "should be scoped per environment to  *)
(* avoid cross-environment collisions" (elector.go:34).  Every node here   *)
(* is the only one of its environment.                                     *)
(***************************************************************************)
EnvironmentsApart == \A n \in Nodes : <>Leads(n)
=============================================================================
