--------------------------- MODULE ElectorProofs ----------------------------
(***************************************************************************)
(* Proofs about Elector, for every number of nodes, every TTL and delay.   *)
(***************************************************************************)
EXTENDS Elector, TLAPS

(* runFn only runs while runAsLeader waits for it.                         *)
ProcInTerm == \A n \in Nodes : Leads(n) => pc[n] \in {"lead", "drain"}

(* So does the heartbeat, until runAsLeader has waited for it, too.        *)
HeartbeatInTerm ==
    \A n \in Nodes :
        hb[n] \notin {"none", "ended"} => pc[n] \in {"lead", "drain", "join"}

TermInv ==
    /\ TypeOK
    /\ ProcInTerm
    /\ HeartbeatInTerm
    /\ HeartbeatGuardsTerm
    /\ ExitsOnlyOnShutdown

(***************************************************************************)
(* What a lock may have to last for: half a TTL, two answers of Redis and  *)
(* the stop of runFn; one answer for Obtain, which is not known before it  *)
(* arrives, and one for the first Refresh that fails.                      *)
(***************************************************************************)
Need == Period + 2 * Latency + StopDelay

(* All of it fits into one TTL.                                            *)
DelaysFit == Need < TTL

(* Zero if it does, and otherwise more than what a lock lacks.             *)
Margin == IF DelaysFit THEN 0 ELSE Need - TTL + 1

(* k units of time end before the lock of n, or less than Margin after it; *)
(* k is a time in which n still runs, so that nothing fits into no margin. *)
Keeps(n, k) ==
    \/ k < Margin
    \/ \E l \in lock : l.owner = n /\ k < l.left + Margin

(* n has just got the lock or refreshed it and waits for the answer.       *)
Fresh(n) == Keeps(n, Period + Latency + StopDelay + call[n])

(* While runFn runs, the lock and the margin outlast what remains until it *)
(* has stopped: from the cancellation on, the countdown stop; before it,   *)
(* in addition, the pending Refresh, and before that, the time until the   *)
(* next one.                                                               *)
TermCovered(n) ==
    Leads(n) =>
        IF Cancelled(n) THEN Keeps(n, stop[n])
        ELSE /\ stop[n] = StopDelay
             /\ hb[n] \in {"wait", "call", "refused", "ok"}
             /\ hb[n] = "wait" => Keeps(n, beat[n] + Latency + StopDelay)
             /\ hb[n] \in {"call", "refused"} => Keeps(n, call[n] + StopDelay)
             /\ hb[n] = "ok" => Fresh(n)

(* The most that remains until the runFn of n has stopped.                 *)
Rest(n) ==
    IF Cancelled(n) THEN stop[n]
    ELSE StopDelay +
           CASE hb[n] = "wait" -> beat[n] + Latency
             [] hb[n] \in {"call", "refused"} -> call[n]
             [] hb[n] = "ok" -> call[n] + Period + Latency

NodeCovered(n) ==
    /\ pc[n] = "granted" => Fresh(n)
    /\ TermCovered(n)

IInv == TermInv /\ \A n \in Nodes : NodeCovered(n)

-----------------------------------------------------------------------------
(* Types and terms, whatever the delays.                                   *)

LEMMA PeriodType == Period \in Nat
BY ElectorAssumption DEF Period

(***************************************************************************)
(* A full lock and the margin outlast all that the lock may be needed for. *)
(***************************************************************************)
LEMMA MarginType == Margin \in Nat /\ Need < TTL + Margin
BY PeriodType, ElectorAssumption DEF Margin, Need, DelaysFit

(***************************************************************************)
(* Forgetting or deleting the token of n leaves at most one lock.          *)
(***************************************************************************)
LEMMA LockType ==
    ASSUME TypeOK, NEW n \in Nodes
    PROVE  /\ Abandoned(n) \subseteq [owner : Owners, left : 1..TTL]
           /\ \A l, m \in Abandoned(n) : l = m
           /\ ReleaseLock(n) \subseteq [owner : Owners, left : 1..TTL]
           /\ \A l, m \in ReleaseLock(n) : l = m
           /\ Leased(n) \subseteq [owner : Owners, left : 1..TTL]
           /\ \A l, m \in Leased(n) : l = m
<1>1. TTL \in 1..TTL
  BY ElectorAssumption
<1> QED
  BY <1>1 DEF TypeOK, Abandoned, ReleaseLock, Leased, Owners

LEMMA TypeStep == TypeOK /\ [Next]_vars => TypeOK'
<1> SUFFICES ASSUME TypeOK, [Next]_vars PROVE TypeOK'
  OBVIOUS
<1> USE DEF TypeOK, control, timers, Fault
<1>1. ASSUME NEW n \in Nodes, Start(n) PROVE TypeOK'
  BY <1>1 DEF Start, PCs
<1>2. ASSUME NEW n \in Nodes, Obtained(n) PROVE TypeOK'
  BY <1>2, LockType, ElectorAssumption DEF Obtained, PCs
<1>3. ASSUME NEW n \in Nodes, NotObtained(n) PROVE TypeOK'
  BY <1>3 DEF NotObtained, PCs
<1>4. ASSUME NEW n \in Nodes, ObtainFails(n) PROVE TypeOK'
  BY <1>4, LockType, ElectorAssumption DEF ObtainFails, AfterFailure, PCs
<1>5. ASSUME NEW n \in Nodes, ObtainGivesUp(n) PROVE TypeOK'
  BY <1>5, LockType, ElectorAssumption DEF ObtainGivesUp, PCs
<1>6. ASSUME NEW n \in Nodes, Retry(n) PROVE TypeOK'
  BY <1>6 DEF Retry, PCs
<1>7. ASSUME NEW n \in Nodes, SleepCancelled(n) PROVE TypeOK'
  BY <1>7 DEF SleepCancelled, PCs
<1>8. ASSUME NEW n \in Nodes, BeginTerm(n) PROVE TypeOK'
  BY <1>8, PeriodType, ElectorAssumption DEF BeginTerm, PCs, HBs
<1>9. ASSUME NEW n \in Nodes, AfterTerm(n) PROVE TypeOK'
  BY <1>9 DEF AfterTerm, PCs
<1>10. ASSUME NEW n \in Nodes, ProcDone(n) PROVE TypeOK'
  BY <1>10 DEF ProcDone, LeaderCancel, PCs
<1>11. ASSUME NEW n \in Nodes, TermCancelled(n) PROVE TypeOK'
  BY <1>11 DEF TermCancelled, PCs
<1>12. ASSUME NEW n \in Nodes, Drained(n) PROVE TypeOK'
  BY <1>12 DEF Drained, PCs
<1>13. ASSUME NEW n \in Nodes, HeartbeatJoined(n) PROVE TypeOK'
  BY <1>13 DEF HeartbeatJoined, PCs
<1>14. ASSUME NEW n \in Nodes, Release(n) PROVE TypeOK'
  BY <1>14, LockType, ElectorAssumption DEF Release, PCs
<1>15. ASSUME NEW n \in Nodes, Beat(n) PROVE TypeOK'
  BY <1>15, PeriodType, ElectorAssumption DEF Beat, HBs
<1>16. ASSUME NEW n \in Nodes, RedisRefresh(n) PROVE TypeOK'
  BY <1>16, LockType DEF RedisRefresh, HBs
<1>17. ASSUME NEW n \in Nodes, RefreshOK(n) PROVE TypeOK'
  BY <1>17, ElectorAssumption DEF RefreshOK, HBs
<1>18. ASSUME NEW n \in Nodes, RefreshFails(n) PROVE TypeOK'
  BY <1>18, ElectorAssumption DEF RefreshFails, LeaderCancel, HBs
<1>19. ASSUME NEW n \in Nodes, RefreshTimesOut(n) PROVE TypeOK'
  BY <1>19, ElectorAssumption DEF RefreshTimesOut, HBs
<1>20. ASSUME NEW n \in Nodes, HeartbeatStops(n) PROVE TypeOK'
  BY <1>20, ElectorAssumption DEF HeartbeatStops, HBs
<1>21. ASSUME NEW n \in Nodes, ProcReturns(n) PROVE TypeOK'
  BY <1>21, ElectorAssumption DEF ProcReturns
<1>22. ASSUME NEW n \in Nodes, Terminate(n) PROVE TypeOK'
  BY <1>22, ElectorAssumption DEF Terminate
<1>23. ASSUME NEW n \in Nodes, Crash(n) PROVE TypeOK'
  BY <1>23, LockType, PeriodType, ElectorAssumption DEF Crash, PCs, HBs
<1>24. ASSUME Tick PROVE TypeOK'
  <2>1. /\ lock' \subseteq [owner : Owners, left : 1..TTL]
        /\ \A l, m \in lock' : l = m
    BY <1>24, ElectorAssumption DEF Tick
  <2>2. \A k \in Nat : \A t \in 0..k : Less(t) \in 0..k
    BY DEF Less
  <2>3. /\ beat' \in [Nodes -> 0..Period]
        /\ call' \in [Nodes -> 0..Latency]
        /\ stop' \in [Nodes -> 0..StopDelay]
    BY <1>24, <2>2, PeriodType, ElectorAssumption DEF Tick
  <2> QED
    BY <1>24, <2>1, <2>3 DEF Tick
<1>25. CASE UNCHANGED vars
  BY <1>25 DEF vars
<1> QED
  BY <1>1, <1>2, <1>3, <1>4, <1>5, <1>6, <1>7, <1>8, <1>9, <1>10, <1>11, <1>12,
     <1>13, <1>14, <1>15, <1>16, <1>17, <1>18, <1>19, <1>20, <1>21, <1>22,
     <1>23, <1>24, <1>25
  DEF Next, Step, Heartbeat

LEMMA TypeInit == Init => TypeOK
BY PeriodType, ElectorAssumption DEF Init, TypeOK, PCs, HBs

(***************************************************************************)
(* Every variable keeps its type; there is at most one lock.               *)
(***************************************************************************)
THEOREM TypeCorrect == Spec => []TypeOK
BY TypeInit, TypeStep, PTL DEF Spec

-----------------------------------------------------------------------------
(* Terms, whatever the delays.                                             *)

LEMMA TermInit == Init => TermInv
BY TypeInit DEF Init, TermInv, ProcInTerm, HeartbeatInTerm, HeartbeatGuardsTerm, Unguarded,
   ExitsOnlyOnShutdown, Leads

LEMMA TermStep ==
    ASSUME ~RedisTimeouts
    PROVE  TermInv /\ [Next]_vars => TermInv'
<1> SUFFICES ASSUME TermInv, [Next]_vars PROVE TermInv'
  OBVIOUS
<1>1. TypeOK /\ TypeOK'
  BY TypeStep DEF TermInv
<1> DEFINE T(n) == /\ Leads(n) => pc[n] \in {"lead", "drain"}
                   /\ hb[n] \notin {"none", "ended"} =>
                         pc[n] \in {"lead", "drain", "join"}
                   /\ ~Unguarded(n)
                   /\ pc[n] = "exited" => appDone[n]
           (* What each of these says of n depends on n's own variables.   *)
           Same(m) == /\ pc'[m] = pc[m] /\ appDone'[m] = appDone[m]
                      /\ lost'[m] = lost[m] /\ hb'[m] = hb[m]
                      /\ proc'[m] = proc[m]
<1>2. \A n \in Nodes : T(n)
  BY DEF TermInv, ProcInTerm, HeartbeatInTerm, HeartbeatGuardsTerm,
     ExitsOnlyOnShutdown
<1>3. ASSUME NEW m \in Nodes, Same(m) PROVE T(m)'
  BY <1>2, <1>3 DEF Leads, Unguarded, Cancelled
<1>4. SUFFICES \A m \in Nodes : T(m)'
  BY <1>1, <1>4 DEF TermInv, ProcInTerm, HeartbeatInTerm, HeartbeatGuardsTerm,
     ExitsOnlyOnShutdown
<1> USE DEF Leads, Unguarded, Cancelled
<1>5. ASSUME NEW n \in Nodes, Step(n) PROVE \A m \in Nodes : T(m)'
  <2>1. T(n)'
    BY <1>1, <1>2, <1>5
    DEF TypeOK, Step, Start, Obtained, NotObtained, ObtainFails, AfterFailure,
        ObtainGivesUp, Retry, SleepCancelled, BeginTerm, AfterTerm, ProcDone,
        LeaderCancel, TermCancelled, Drained, MayJoin, HeartbeatJoined, Release
  <2>2. ASSUME NEW m \in Nodes \ {n} PROVE Same(m)
    BY <1>1, <1>5
    DEF TypeOK, Step, Start, Obtained, NotObtained, ObtainFails, AfterFailure,
        ObtainGivesUp, Retry, SleepCancelled, BeginTerm, AfterTerm, ProcDone,
        LeaderCancel, TermCancelled, Drained, MayJoin, HeartbeatJoined, Release
  <2> QED
    BY <1>3, <2>1, <2>2
<1>6. ASSUME NEW n \in Nodes, Heartbeat(n) PROVE \A m \in Nodes : T(m)'
  <2>1. T(n)'
    BY <1>1, <1>2, <1>6
    DEF TypeOK, Heartbeat, Beat, RedisRefresh, RefreshOK, RefreshFails,
        LeaderCancel, RefreshTimesOut, HeartbeatStops
  <2>2. ASSUME NEW m \in Nodes \ {n} PROVE Same(m)
    BY <1>1, <1>6
    DEF TypeOK, Heartbeat, Beat, RedisRefresh, RefreshOK, RefreshFails,
        LeaderCancel, RefreshTimesOut, HeartbeatStops
  <2> QED
    BY <1>3, <2>1, <2>2
<1>7. ASSUME NEW n \in Nodes, ProcReturns(n) \/ Terminate(n) \/ Crash(n)
      PROVE  \A m \in Nodes : T(m)'
  <2>1. T(n)'
    BY <1>1, <1>2, <1>7 DEF TypeOK, ProcReturns, Terminate, Crash
  <2>2. ASSUME NEW m \in Nodes \ {n} PROVE Same(m)
    BY <1>1, <1>7 DEF TypeOK, ProcReturns, Terminate, Crash
  <2> QED
    BY <1>3, <2>1, <2>2
<1>8. CASE Tick
  BY <1>3, <1>8 DEF Tick, control
<1>9. CASE UNCHANGED vars
  BY <1>3, <1>9 DEF vars, control
<1> QED
  BY <1>5, <1>6, <1>7, <1>8, <1>9 DEF Next

(***************************************************************************)
(* If no call to Redis times out, runFn never runs on uncancelled after    *)
(* its heartbeat has ended, whatever the delays (elector.go:93-95).        *)
(***************************************************************************)
THEOREM TermsGuarded ==
    ASSUME ~RedisTimeouts
    PROVE  Spec => []HeartbeatGuardsTerm
<1>1. TermInv /\ [Next]_vars => TermInv'
  BY TermStep
<1>2. TermInv => HeartbeatGuardsTerm
  BY DEF TermInv
<1> QED
  BY TermInit, <1>1, <1>2, PTL DEF Spec

(***************************************************************************)
(* If no call to Redis times out, a process exits with status 0 only when  *)
(* it was told to stop (elector.go:88).                                    *)
(***************************************************************************)
THEOREM ExitsWhenTold ==
    ASSUME ~RedisTimeouts
    PROVE  Spec => []ExitsOnlyOnShutdown
<1>1. TermInv /\ [Next]_vars => TermInv'
  BY TermStep
<1>2. TermInv => ExitsOnlyOnShutdown
  BY DEF TermInv
<1> QED
  BY TermInit, <1>1, <1>2, PTL DEF Spec

-----------------------------------------------------------------------------
(* One leader, when the delays fit.                                        *)

(* A step of another node leaves the state of n alone, and its lock.       *)
Undisturbed(n) ==
    /\ pc'[n] = pc[n] /\ appDone'[n] = appDone[n] /\ lost'[n] = lost[n]
    /\ hb'[n] = hb[n] /\ proc'[n] = proc[n]
    /\ beat'[n] = beat[n] /\ call'[n] = call[n] /\ stop'[n] = stop[n]
    /\ \A l \in lock : l.owner = n => l \in lock'

LEMMA CoveredStays ==
    ASSUME NEW n \in Nodes, NodeCovered(n), Undisturbed(n)
    PROVE  NodeCovered(n)'
BY DEF NodeCovered, TermCovered, Fresh, Keeps, Leads, Cancelled, Undisturbed

LEMMA OthersUndisturbed ==
    ASSUME TypeOK, NEW n \in Nodes, NEW m \in Nodes \ {n},
           \/ Step(n) \/ Heartbeat(n) \/ ProcReturns(n) \/ Terminate(n) \/ Crash(n)
    PROVE  Undisturbed(m)
<1>1. \A l \in lock : l.owner = m => l \in Abandoned(n) /\ l \in ReleaseLock(n)
  <2>1. ASSUME NEW l \in lock, l.owner = m
        PROVE  l \in Abandoned(n) /\ l \in ReleaseLock(n)
    <3>1. l = [owner |-> IF l.owner = n THEN Nobody ELSE l.owner, left |-> l.left]
      BY <2>1 DEF TypeOK
    <3> QED
      BY <2>1, <3>1 DEF Abandoned, ReleaseLock
  <2> QED
    BY <2>1
<1>2. ASSUME Step(n) PROVE Undisturbed(m)
  BY <1>1, <1>2
  DEF TypeOK, Undisturbed, timers, Step, Start, Obtained, NotObtained,
      ObtainFails, AfterFailure, ObtainGivesUp, Retry, SleepCancelled,
      BeginTerm, AfterTerm, ProcDone, LeaderCancel, TermCancelled, Drained,
      HeartbeatJoined, Release
<1>3. ASSUME Heartbeat(n) PROVE Undisturbed(m)
  <2>1. CASE RedisRefresh(n)
    BY <2>1 DEF TypeOK, Undisturbed, timers, RedisRefresh, Holds
  <2>2. CASE ~RedisRefresh(n)
    BY <1>3, <2>2
    DEF TypeOK, Undisturbed, Heartbeat, Beat, RefreshOK, RefreshFails,
        LeaderCancel, RefreshTimesOut, HeartbeatStops
  <2> QED
    BY <2>1, <2>2
<1>4. ASSUME ProcReturns(n) \/ Terminate(n) \/ Crash(n) PROVE Undisturbed(m)
  BY <1>1, <1>4 DEF TypeOK, Undisturbed, timers, ProcReturns, Terminate, Crash
<1> QED
  BY <1>2, <1>3, <1>4

(***************************************************************************)
(* What outlasts a time outlasts a shorter one, and a unit of time takes   *)
(* no more than one from what the lock lasts for.                          *)
(***************************************************************************)
LEMMA KeepsLess ==
    ASSUME TypeOK, NEW n \in Nodes, NEW k \in Nat, NEW j \in Nat, j <= k,
           Keeps(n, k)
    PROVE  Keeps(n, j)
BY MarginType, ElectorAssumption DEF Keeps, TypeOK

LEMMA KeepsTick ==
    ASSUME TypeOK, Tick, NEW n \in Nodes, NEW k \in Nat, k > 0, Keeps(n, k)
    PROVE  \/ k - 1 < Margin
           \/ \E l \in lock' : l.owner = n /\ k - 1 < l.left + Margin
<1>1. CASE k < Margin
  BY <1>1, MarginType
<1>2. CASE ~(k < Margin)
  <2>1. PICK l \in lock : l.owner = n /\ k < l.left + Margin
    BY <1>2 DEF Keeps
  <2>2. l.left \in Nat /\ l.left > 0
    BY ElectorAssumption DEF TypeOK
  <2>3. CASE l.left > 1
    <3>1. [owner |-> l.owner, left |-> l.left - 1] \in lock'
      BY <2>3 DEF Tick
    <3> QED
      BY <2>1, <2>2, <3>1, MarginType
  <2>4. CASE l.left = 1
    BY <2>1, <2>4, MarginType
  <2> QED
    BY <2>2, <2>3, <2>4
<1> QED
  BY <1>1, <1>2

(***************************************************************************)
(* The lock and the margin outlast what remains of a term, of which the    *)
(* stop of runFn is the last part.                                         *)
(***************************************************************************)
LEMMA CoveredRest ==
    ASSUME TermInv, NEW n \in Nodes, NodeCovered(n), Leads(n)
    PROVE  Rest(n) \in Nat /\ Keeps(n, Rest(n)) /\ Keeps(n, stop[n])
<1>1. beat[n] \in Nat /\ call[n] \in Nat /\ stop[n] \in Nat
  BY PeriodType, ElectorAssumption DEF TermInv, TypeOK
<1>2. CASE Cancelled(n)
  BY <1>1, <1>2 DEF Rest, NodeCovered, TermCovered
<1>3. CASE ~Cancelled(n)
  <2>1. Rest(n) \in Nat
    BY <1>1, <1>3, PeriodType, ElectorAssumption
    DEF Rest, NodeCovered, TermCovered
  <2>2. ASSUME hb[n] = "wait"
        PROVE  Keeps(n, Rest(n))
    <3>1. Rest(n) = beat[n] + Latency + StopDelay
      BY <1>1, <1>3, <2>2, ElectorAssumption DEF Rest
    <3>2. Keeps(n, beat[n] + Latency + StopDelay)
      BY <1>3, <2>2 DEF NodeCovered, TermCovered
    <3> QED
      BY <3>1, <3>2
  <2>3. ASSUME hb[n] \in {"call", "refused"}
        PROVE  Keeps(n, Rest(n))
    <3>1. Rest(n) = call[n] + StopDelay
      BY <1>1, <1>3, <2>3, ElectorAssumption DEF Rest
    <3>2. Keeps(n, call[n] + StopDelay)
      BY <1>3, <2>3 DEF NodeCovered, TermCovered
    <3> QED
      BY <3>1, <3>2
  <2>4. ASSUME hb[n] = "ok"
        PROVE  Keeps(n, Rest(n))
    <3>1. Rest(n) = Period + Latency + StopDelay + call[n]
      BY <1>1, <1>3, <2>4, PeriodType, ElectorAssumption DEF Rest
    <3>2. Keeps(n, Period + Latency + StopDelay + call[n])
      BY <1>3, <2>4 DEF NodeCovered, TermCovered, Fresh
    <3> QED
      BY <3>1, <3>2
  <2>5. Keeps(n, Rest(n))
    BY <1>3, <2>2, <2>3, <2>4 DEF NodeCovered, TermCovered
  <2>6. stop[n] <= Rest(n)
    BY <1>1, <1>3, PeriodType, ElectorAssumption
    DEF Rest, NodeCovered, TermCovered
  <2> QED
    BY <1>1, <2>1, <2>5, <2>6, KeepsLess DEF TermInv
<1> QED
  BY <1>2, <1>3

(***************************************************************************)
(* The steps of Elector.Run: a grant is fresh, and a term begins with a    *)
(* lock that outlasts its first heartbeat.                                 *)
(***************************************************************************)
LEMMA RunCovered ==
    ASSUME TermInv, TermInv', NEW n \in Nodes, NodeCovered(n), Step(n)
    PROVE  NodeCovered(n)'
<1> USE DEF NodeCovered
<1>1. CASE Obtained(n)
  <2>1. [owner |-> n, left |-> TTL] \in lock'
    BY <1>1 DEF Obtained, Leased
  <2>2. Fresh(n)'
    BY <1>1, <2>1, PeriodType, MarginType, ElectorAssumption
    DEF TermInv, TypeOK, Obtained, Fresh, Keeps, Need
  <2>3. ~Leads(n)'
    BY <1>1 DEF TermInv, TypeOK, ProcInTerm, Obtained, Leads
  <2> QED
    BY <2>2, <2>3 DEF TermCovered
<1>2. CASE BeginTerm(n)
  <2>1. Keeps(n, Period + Latency + StopDelay) /\ lock' = lock
    <3>1. call[n] \in Nat /\ Period + Latency + StopDelay \in Nat
      BY PeriodType, ElectorAssumption DEF TermInv, TypeOK
    <3>2. Period + Latency + StopDelay <= Period + Latency + StopDelay + call[n]
      BY <3>1, PeriodType, ElectorAssumption
    <3>3. Fresh(n)
      BY <1>2 DEF BeginTerm
    <3> QED
      BY <1>2, <3>1, <3>2, <3>3, KeepsLess, PeriodType, ElectorAssumption
      DEF TermInv, BeginTerm, Fresh
  <2>2. /\ beat'[n] = Period /\ stop'[n] = StopDelay /\ hb'[n] = "wait"
        /\ pc'[n] = "lead"
    BY <1>2 DEF TermInv, TypeOK, BeginTerm
  <2>3. Keeps(n, StopDelay)
    BY <2>1, KeepsLess, PeriodType, ElectorAssumption DEF TermInv
  <2> QED
    BY <2>1, <2>2, <2>3 DEF TermCovered, Keeps
<1>3. CASE ProcDone(n)
  BY <1>3 DEF TermInv, TypeOK, ProcDone, TermCovered, Leads
<1>4. CASE TermCancelled(n)
  BY <1>4 DEF TermInv, TypeOK, TermCancelled, timers, TermCovered, Leads,
     Cancelled, Keeps
<1>5. CASE Drained(n)
  BY <1>5 DEF TermInv, TypeOK, Drained, MayJoin, TermCovered, Leads
<1>6. CASE \/ Start(n) \/ NotObtained(n) \/ ObtainFails(n) \/ ObtainGivesUp(n)
           \/ Retry(n) \/ SleepCancelled(n) \/ AfterTerm(n)
           \/ HeartbeatJoined(n) \/ Release(n)
  <2>1. pc'[n] \notin {"granted", "lead", "drain"}
    BY <1>6
    DEF TermInv, TypeOK, Start, NotObtained, ObtainFails, AfterFailure,
        ObtainGivesUp, Retry, SleepCancelled, AfterTerm, HeartbeatJoined, Release
  <2> QED
    BY <2>1 DEF TermInv, ProcInTerm, TermCovered, Leads
<1> QED
  BY <1>1, <1>2, <1>3, <1>4, <1>5, <1>6 DEF Step

(***************************************************************************)
(* The steps of the heartbeat: what a Refresh may take is paid for by the  *)
(* time that the beat has left, and one that Redis ran renews it all.      *)
(***************************************************************************)
LEMMA HeartbeatCovered ==
    ASSUME ~RedisTimeouts, TermInv, TermInv', NEW n \in Nodes,
           NodeCovered(n), Heartbeat(n)
    PROVE  NodeCovered(n)'
<1> USE DEF NodeCovered
<1>1. pc[n] # "granted" /\ pc'[n] = pc[n] /\ proc'[n] = proc[n]
      /\ stop'[n] = stop[n] /\ appDone'[n] = appDone[n]
  BY DEF TermInv, TypeOK, HeartbeatInTerm, Heartbeat, Beat, RedisRefresh,
     RefreshOK, RefreshFails, RefreshTimesOut, HeartbeatStops, timers
<1>2. CASE Beat(n)
  <2>1. /\ hb[n] = "wait" /\ beat[n] = 0 /\ hb'[n] = "call" /\ call'[n] = Latency
        /\ lost'[n] = lost[n] /\ lock' = lock
    BY <1>2 DEF TermInv, TypeOK, Beat
  <2> QED
    BY <1>1, <2>1, ElectorAssumption
    DEF TermInv, TypeOK, TermCovered, Leads, Cancelled, Keeps
<1>3. CASE RedisRefresh(n)
  <2>1. /\ hb[n] = "call" /\ lost'[n] = lost[n] /\ call'[n] = call[n]
        /\ hb'[n] \in {"ok", "refused"}
    BY <1>3 DEF TermInv, TypeOK, RedisRefresh, timers
  <2>2. CASE Holds(n)
    <3>1. [owner |-> n, left |-> TTL] \in lock' /\ hb'[n] = "ok"
      BY <1>3, <2>2 DEF TermInv, TypeOK, RedisRefresh, Leased
    <3>2. Fresh(n)' /\ Keeps(n, stop[n])'
      BY <1>1, <2>1, <3>1, PeriodType, MarginType, ElectorAssumption
      DEF TermInv, TypeOK, Fresh, Keeps, Need
    <3> QED
      BY <1>1, <2>1, <3>1, <3>2 DEF TermCovered, Leads, Cancelled
  <2>3. CASE ~Holds(n)
    <3>1. lock' = lock /\ hb'[n] = "refused"
      BY <1>3, <2>3 DEF TermInv, TypeOK, RedisRefresh
    <3>2. Leads(n)' = Leads(n) /\ Cancelled(n)' = Cancelled(n)
      BY <1>1, <2>1 DEF Leads, Cancelled
    <3> QED
      BY <1>1, <2>1, <3>1, <3>2 DEF TermCovered, Keeps
  <2> QED
    BY <2>2, <2>3
<1>4. CASE RefreshOK(n)
  <2>1. /\ hb[n] = "ok" /\ hb'[n] = "wait" /\ lost'[n] = lost[n]
        /\ beat'[n] = beat[n] /\ lock' = lock
    BY <1>4 DEF TermInv, TypeOK, RefreshOK
  <2>2. Fresh(n) => Keeps(n, beat[n] + Latency + StopDelay)
    <3>1. /\ beat[n] \in 0..Period /\ call[n] \in Nat
          /\ Latency \in Nat /\ StopDelay \in Nat
      BY ElectorAssumption DEF TermInv, TypeOK
    <3>2. /\ beat[n] + Latency + StopDelay \in Nat
          /\ Period + Latency + StopDelay + call[n] \in Nat
          /\ beat[n] + Latency + StopDelay
               <= Period + Latency + StopDelay + call[n]
      BY <3>1, PeriodType
    <3> QED
      BY <3>2, KeepsLess DEF TermInv, Fresh
  <2> QED
    BY <1>1, <2>1, <2>2 DEF TermCovered, Leads, Cancelled, Keeps
<1>5. CASE RefreshFails(n)
  <2>1. lost'[n] = TRUE /\ lock' = lock
        /\ hb[n] \in {"call", "ok", "refused"}
    BY <1>5 DEF TermInv, TypeOK, RefreshFails, LeaderCancel
  <2>2. Leads(n) => Keeps(n, stop[n])
    BY CoveredRest
  <2> QED
    BY <1>1, <2>1, <2>2 DEF TermCovered, Leads, Cancelled, Keeps
<1>6. CASE HeartbeatStops(n)
  BY <1>1, <1>6
  DEF TermInv, TypeOK, HeartbeatStops, TermCovered, Leads, Cancelled, Keeps
<1>7. CASE RefreshTimesOut(n)
  BY <1>7 DEF RefreshTimesOut
<1> QED
  BY <1>2, <1>3, <1>4, <1>5, <1>6, <1>7 DEF Heartbeat

(***************************************************************************)
(* A cancellation from outside starts the countdown of runFn.              *)
(***************************************************************************)
LEMMA EndCovered ==
    ASSUME TermInv, TermInv', NEW n \in Nodes, NodeCovered(n),
           ProcReturns(n) \/ Terminate(n) \/ Crash(n)
    PROVE  NodeCovered(n)'
<1> USE DEF NodeCovered
<1>1. CASE ProcReturns(n)
  <2>1. ~Leads(n)' /\ UNCHANGED <<pc, call, lock>>
    BY <1>1 DEF TermInv, TypeOK, ProcReturns, Leads, timers
  <2> QED
    BY <2>1 DEF TermCovered, Fresh, Keeps
<1>2. CASE Terminate(n)
  <2>1. Cancelled(n)' /\ UNCHANGED <<pc, lock, hb, proc, timers>>
    BY <1>2 DEF TermInv, TypeOK, Terminate, Cancelled
  <2>2. Leads(n) => Keeps(n, stop[n])
    BY CoveredRest
  <2> QED
    BY <2>1, <2>2 DEF TermCovered, Fresh, Keeps, Leads, timers
<1>3. CASE Crash(n)
  BY <1>3 DEF TermInv, TypeOK, Crash, TermCovered, Leads
<1> QED
  BY <1>1, <1>2, <1>3

(***************************************************************************)
(* Time takes as much from the lock as from the countdown that it covers,  *)
(* and does not pass one that is due.                                      *)
(***************************************************************************)
LEMMA TickCovered ==
    ASSUME Timely, TermInv, NEW n \in Nodes, NodeCovered(n), Tick
    PROVE  NodeCovered(n)'
<1>1. ~Due(n) /\ UNCHANGED control
  BY DEF Tick
<1>2. /\ beat'[n] = Less(beat[n])
      /\ call'[n] = Less(call[n])
      /\ stop'[n] = IF proc[n] = "running" /\ Cancelled(n) THEN Less(stop[n])
                    ELSE stop[n]
  BY DEF Tick, MustStop
<1>3. beat[n] \in Nat /\ call[n] \in Nat /\ stop[n] \in Nat
  BY PeriodType, ElectorAssumption DEF TermInv, TypeOK
<1>4. TypeOK /\ Latency \in Nat /\ StopDelay \in Nat /\ Period \in Nat
  BY PeriodType, ElectorAssumption DEF TermInv
<1>5. ASSUME pc[n] = "granted" \/ hb[n] = "ok", Fresh(n) PROVE Fresh(n)'
  <2>1. call[n] > 0 /\ call'[n] = call[n] - 1
    BY <1>1, <1>2, <1>3, <1>5 DEF Due, Less
  <2> DEFINE k == Period + Latency + StopDelay + call[n]
  <2>2. k \in Nat /\ k > 0 /\ Keeps(n, k)
    BY <1>3, <1>4, <1>5, <2>1 DEF Fresh
  <2>3. k - 1 = Period + Latency + StopDelay + call'[n]
    BY <1>3, <1>4, <2>1
  <2> HIDE DEF k
  <2> QED
    BY <1>4, <2>2, <2>3, KeepsTick DEF Fresh, Keeps
<1>6. ASSUME TermCovered(n), Leads(n), Cancelled(n) PROVE Keeps(n, stop[n])'
  <2>1. stop[n] > 0 /\ stop'[n] = stop[n] - 1
    BY <1>1, <1>2, <1>3, <1>6 DEF Due, Less, MustStop, Leads
  <2> QED
    BY <1>3, <1>4, <1>6, <2>1, KeepsTick DEF TermCovered, Keeps
<1>7. ASSUME TermCovered(n), Leads(n), ~Cancelled(n), hb[n] = "wait"
      PROVE  Keeps(n, beat[n] + Latency + StopDelay)'
  <2>1. beat[n] > 0 /\ beat'[n] = beat[n] - 1
    BY <1>1, <1>2, <1>3, <1>7 DEF Due, Less
  <2> DEFINE k == beat[n] + Latency + StopDelay
  <2>2. k \in Nat /\ k > 0 /\ Keeps(n, k)
    BY <1>3, <1>4, <1>7, <2>1 DEF TermCovered
  <2>3. k - 1 = beat'[n] + Latency + StopDelay
    BY <1>3, <1>4, <2>1
  <2> HIDE DEF k
  <2> QED
    BY <1>4, <2>2, <2>3, KeepsTick DEF Keeps
<1>8. ASSUME TermCovered(n), Leads(n), ~Cancelled(n),
             hb[n] \in {"call", "refused"}
      PROVE  Keeps(n, call[n] + StopDelay)'
  <2>1. call[n] > 0 /\ call'[n] = call[n] - 1
    BY <1>1, <1>2, <1>3, <1>8 DEF Due, Less
  <2> DEFINE k == call[n] + StopDelay
  <2>2. k \in Nat /\ k > 0 /\ Keeps(n, k)
    BY <1>3, <1>4, <1>8, <2>1 DEF TermCovered
  <2>3. k - 1 = call'[n] + StopDelay
    BY <1>3, <1>4, <2>1
  <2> HIDE DEF k
  <2> QED
    BY <1>4, <2>2, <2>3, KeepsTick DEF Keeps
<1>9. (pc[n] = "granted")' => Fresh(n)'
  BY <1>1, <1>5 DEF NodeCovered, control
<1>10. TermCovered(n)'
  <2>1. /\ Leads(n)' = Leads(n) /\ Cancelled(n)' = Cancelled(n)
        /\ hb'[n] = hb[n]
    BY <1>1 DEF control, Leads, Cancelled
  <2>2. CASE Leads(n) /\ Cancelled(n)
    BY <1>6, <2>1, <2>2 DEF NodeCovered, TermCovered
  <2>3. CASE Leads(n) /\ ~Cancelled(n)
    <3>1. /\ stop'[n] = StopDelay
          /\ hb[n] \in {"wait", "call", "refused", "ok"}
          /\ hb[n] = "ok" => Fresh(n)
      BY <1>2, <2>3 DEF NodeCovered, TermCovered
    <3> QED
      BY <1>5, <1>7, <1>8, <2>1, <2>3, <3>1 DEF NodeCovered, TermCovered
  <2> QED
    BY <2>1, <2>2, <2>3 DEF TermCovered
<1> QED
  BY <1>9, <1>10 DEF NodeCovered

LEMMA CoveredStep ==
    ASSUME Timely, ~RedisTimeouts
    PROVE  IInv /\ [Next]_vars => IInv'
<1> SUFFICES ASSUME IInv, [Next]_vars PROVE IInv'
  OBVIOUS
<1>1. TermInv /\ TermInv' /\ TypeOK
  BY TermStep DEF IInv, TermInv
<1>2. \A m \in Nodes : NodeCovered(m)
  BY DEF IInv
<1>3. ASSUME NEW n \in Nodes,
             \/ Step(n) \/ Heartbeat(n) \/ ProcReturns(n)
             \/ Terminate(n) \/ Crash(n)
      PROVE  \A m \in Nodes : NodeCovered(m)'
  <2>1. NodeCovered(n)'
    BY <1>1, <1>2, <1>3, RunCovered, HeartbeatCovered, EndCovered
  <2>2. ASSUME NEW m \in Nodes \ {n} PROVE NodeCovered(m)'
    BY <1>1, <1>2, <1>3, OthersUndisturbed, CoveredStays
  <2> QED
    BY <2>1, <2>2
<1>4. CASE Tick
  BY <1>1, <1>2, <1>4, TickCovered DEF IInv
<1>5. CASE UNCHANGED vars
  <2>1. \A m \in Nodes : Undisturbed(m)
    BY <1>5 DEF vars, control, timers, Undisturbed
  <2> QED
    BY <1>1, <1>2, <2>1, CoveredStays DEF IInv
<1> QED
  BY <1>1, <1>3, <1>4, <1>5 DEF Next, IInv

LEMMA CoveredInit == Init => IInv
BY TermInit DEF Init, IInv, NodeCovered, TermCovered, Leads

(***************************************************************************)
(* Without a margin a term is covered only if the lock is there, and there *)
(* is only one.                                                            *)
(***************************************************************************)
LEMMA CoveredLeads ==
    ASSUME DelaysFit
    PROVE  IInv => LeaderHoldsLock /\ OneLeader
<1> SUFFICES ASSUME IInv PROVE LeaderHoldsLock /\ OneLeader
  OBVIOUS
<1>1. ASSUME NEW n \in Nodes, Leads(n) PROVE Holds(n)
  <2>1. Rest(n) \in Nat /\ Keeps(n, Rest(n))
    BY <1>1, CoveredRest DEF IInv
  <2>2. Margin = 0
    BY DEF Margin
  <2> QED
    BY <2>1, <2>2 DEF Keeps, Holds
<1>2. \A n, m \in Nodes : Holds(n) /\ Holds(m) => n = m
  BY DEF IInv, TermInv, TypeOK, Holds
<1> QED
  BY <1>1, <1>2 DEF LeaderHoldsLock, OneLeader

(***************************************************************************)
(* Two nodes never run the processor at the same time, for every number of *)
(* nodes and every TTL, whatever crashes or fails - provided that calls    *)
(* are answered and runFn stops in time, that no call times out, and that  *)
(* half a TTL, two answers and the stop of runFn fit into one TTL.         *)
(***************************************************************************)
THEOREM Exclusion ==
    ASSUME Timely, ~RedisTimeouts, DelaysFit
    PROVE  Spec => []OneLeader
<1>1. IInv /\ [Next]_vars => IInv'
  BY CoveredStep
<1>2. IInv => OneLeader
  BY CoveredLeads
<1> QED
  BY CoveredInit, <1>1, <1>2, PTL DEF Spec

(***************************************************************************)
(* Under the same conditions a node that runs the processor has the lock   *)
(* until runFn has returned.                                               *)
(***************************************************************************)
THEOREM LeadsWithLock ==
    ASSUME Timely, ~RedisTimeouts, DelaysFit
    PROVE  Spec => []LeaderHoldsLock
<1>1. IInv /\ [Next]_vars => IInv'
  BY CoveredStep
<1>2. IInv => LeaderHoldsLock
  BY CoveredLeads
<1> QED
  BY CoveredInit, <1>1, <1>2, PTL DEF Spec

-----------------------------------------------------------------------------
(* How long a deposed leader runs on, whether the delays fit or not.       *)

(* runFn runs, and the lock has expired or is somebody else's.             *)
Deposed(n) == Leads(n) /\ ~Holds(n)

(* What remains until it has stopped is no more than what is needed beyond *)
(* the TTL.                                                                *)
StopsSoon(n) == Deposed(n) => Rest(n) \in Nat /\ Rest(n) + TTL <= Need

(* It does not get the lock back in this term, no step grants it more      *)
(* time, and time takes its due.                                           *)
Expires(n) ==
    Deposed(n) /\ Leads(n)' =>
        /\ Deposed(n)'
        /\ Rest(n)' <= Rest(n)
        /\ Tick => Rest(n)' = Rest(n) - 1

LEMMA NotGivenBack ==
    ASSUME TermInv, NEW n \in Nodes, Deposed(n), NEW m \in Nodes,
           \/ Step(m) \/ Heartbeat(m) \/ ProcReturns(m) \/ Terminate(m) \/ Crash(m)
    PROVE  ~Holds(n)'
<1>1. \A l \in lock : l.owner # n
  BY DEF Deposed, Holds
<1>2. \A l \in Abandoned(m) \cup ReleaseLock(m) : l.owner # n
  <2>1. \A l \in lock :
           [owner |-> IF l.owner = m THEN Nobody ELSE l.owner,
            left |-> l.left].owner # n
    BY <1>1, ElectorAssumption
  <2> QED
    BY <1>1, <2>1 DEF Abandoned, ReleaseLock
<1>3. CASE Obtained(m)
  <2>1. m # n
    BY <1>3 DEF TermInv, ProcInTerm, Deposed, Obtained
  <2> QED
    BY <1>3, <2>1 DEF Obtained, Leased, Holds
<1>4. CASE RedisRefresh(m)
  BY <1>1, <1>4 DEF Deposed, RedisRefresh, Leased, Holds
<1>5. CASE ~Obtained(m) /\ ~RedisRefresh(m)
  <2>1. \/ lock' = lock \/ lock' = Abandoned(m) \/ lock' = ReleaseLock(m)
    BY <1>5
    DEF Step, Start, NotObtained, ObtainFails, ObtainGivesUp, Retry,
        SleepCancelled, BeginTerm, AfterTerm, ProcDone, TermCancelled, Drained,
        HeartbeatJoined, Release, Heartbeat, Beat, RefreshOK, RefreshFails,
        RefreshTimesOut, HeartbeatStops, ProcReturns, Terminate, Crash
  <2> QED
    BY <1>1, <1>2, <2>1 DEF Holds
<1> QED
  BY <1>3, <1>4, <1>5

(***************************************************************************)
(* No step of the node itself grants its term more time, as long as Redis  *)
(* refuses to refresh the lock.                                            *)
(***************************************************************************)
LEMMA RestShrinks ==
    ASSUME ~RedisTimeouts, TermInv, NEW n \in Nodes, NodeCovered(n),
           Deposed(n), Leads(n)',
           \/ Step(n) \/ Heartbeat(n) \/ ProcReturns(n) \/ Terminate(n) \/ Crash(n)
    PROVE  Rest(n)' <= Rest(n)
<1>1. /\ beat[n] \in 0..Period /\ call[n] \in 0..Latency
      /\ stop[n] \in 0..StopDelay
      /\ Period \in Nat /\ Latency \in Nat /\ StopDelay \in Nat
  BY PeriodType, ElectorAssumption DEF TermInv, TypeOK
<1>2. pc[n] \in {"lead", "drain"} /\ proc[n] = "running"
  BY DEF TermInv, ProcInTerm, Deposed, Leads
<1>3. Rest(n) \in Nat /\ stop[n] <= Rest(n)
  BY <1>1 DEF Rest, NodeCovered, TermCovered, Deposed
<1>4. CASE Step(n)
  <2>1. /\ lost'[n] = lost[n] /\ appDone'[n] = appDone[n]
        /\ UNCHANGED <<hb, timers>>
    BY <1>2, <1>4
    DEF Step, Start, Obtained, NotObtained, ObtainFails, ObtainGivesUp, Retry,
        SleepCancelled, BeginTerm, AfterTerm, ProcDone, TermCancelled, Drained,
        HeartbeatJoined, Release
  <2> QED
    BY <1>1, <1>3, <2>1
    DEF Rest, Cancelled, timers, NodeCovered, TermCovered, Deposed
<1>5. CASE Terminate(n)
  <2>1. Cancelled(n)' /\ stop' = stop
    BY <1>5 DEF TermInv, TypeOK, Terminate, Cancelled, timers
  <2> QED
    BY <1>3, <2>1 DEF Rest
<1>6. CASE ProcReturns(n) \/ Crash(n)
  BY <1>6 DEF TermInv, TypeOK, ProcReturns, Crash, Leads
<1>7. CASE Beat(n)
  <2>1. /\ hb[n] = "wait" /\ beat[n] = 0 /\ hb'[n] = "call"
        /\ call'[n] = Latency /\ stop' = stop
        /\ Cancelled(n)' = Cancelled(n)
    BY <1>7 DEF TermInv, TypeOK, Beat, Cancelled
  <2> QED
    BY <1>1, <2>1 DEF Rest
<1>8. CASE RedisRefresh(n)
  <2>1. /\ hb[n] = "call" /\ hb'[n] = "refused"
        /\ UNCHANGED timers /\ Cancelled(n)' = Cancelled(n)
    BY <1>8 DEF TermInv, TypeOK, RedisRefresh, Cancelled, Deposed
  <2> QED
    BY <1>1, <2>1 DEF Rest, timers
<1>9. CASE RefreshOK(n)
  <2>1. /\ hb[n] = "ok" /\ hb'[n] = "wait" /\ beat' = beat /\ stop' = stop
        /\ Cancelled(n)' = Cancelled(n)
    BY <1>9 DEF TermInv, TypeOK, RefreshOK, Cancelled
  <2> QED
    BY <1>1, <2>1 DEF Rest
<1>10. CASE RefreshFails(n)
  <2>1. Cancelled(n)' /\ stop' = stop
    BY <1>10 DEF TermInv, TypeOK, RefreshFails, LeaderCancel, Cancelled
  <2> QED
    BY <1>3, <2>1 DEF Rest
<1>11. CASE HeartbeatStops(n)
  <2>1. Cancelled(n) /\ Cancelled(n)' /\ stop' = stop
    BY <1>11 DEF HeartbeatStops, Cancelled
  <2> QED
    BY <1>1, <2>1 DEF Rest
<1> QED
  BY <1>4, <1>5, <1>6, <1>7, <1>8, <1>9, <1>10, <1>11
  DEF Heartbeat, RefreshTimesOut


LEMMA TickTakes ==
    ASSUME Timely, TermInv, NEW n \in Nodes, NodeCovered(n), Deposed(n), Tick
    PROVE  Deposed(n)' /\ Rest(n)' = Rest(n) - 1
<1>1. ~Due(n) /\ UNCHANGED control
  BY DEF Tick
<1>2. /\ beat'[n] = Less(beat[n])
      /\ call'[n] = Less(call[n])
      /\ stop'[n] = IF Cancelled(n) THEN Less(stop[n]) ELSE stop[n]
  BY DEF Tick, MustStop, Deposed, Leads
<1>3. /\ beat[n] \in Nat /\ call[n] \in Nat /\ stop[n] \in Nat
      /\ Period \in Nat /\ Latency \in Nat /\ StopDelay \in Nat
  BY PeriodType, ElectorAssumption DEF TermInv, TypeOK
<1>4. Deposed(n)'
  BY <1>1 DEF Deposed, Leads, Holds, Tick, control
<1>5. /\ hb'[n] = hb[n] /\ Cancelled(n)' = Cancelled(n)
      /\ ~Cancelled(n) => hb[n] \in {"wait", "call", "refused", "ok"}
  BY <1>1 DEF control, Cancelled, NodeCovered, TermCovered, Deposed
<1>6. CASE Cancelled(n)
  <2>1. stop[n] > 0
    BY <1>1, <1>3, <1>6 DEF Due, MustStop, Deposed, Leads
  <2> QED
    BY <1>2, <1>3, <1>4, <1>5, <1>6, <2>1 DEF Rest, Less
<1>7. CASE ~Cancelled(n)
  <2>1. /\ hb[n] = "wait" => beat[n] > 0
        /\ hb[n] \in {"call", "refused", "ok"} => call[n] > 0
    BY <1>1, <1>3 DEF Due
  <2> QED
    BY <1>2, <1>3, <1>4, <1>5, <1>7, <2>1 DEF Rest, Less
<1> QED
  BY <1>6, <1>7

LEMMA ExpiresStep ==
    ASSUME Timely, ~RedisTimeouts, IInv, [Next]_vars
    PROVE  \A n \in Nodes : Expires(n)
<1> SUFFICES ASSUME NEW n \in Nodes, Deposed(n), Leads(n)'
             PROVE  /\ Deposed(n)' /\ Rest(n)' <= Rest(n)
                    /\ Tick => Rest(n)' = Rest(n) - 1
  BY DEF Expires
<1>1. TermInv /\ NodeCovered(n) /\ TypeOK
  BY DEF IInv, TermInv
<1>2. Rest(n) \in Nat
  BY <1>1, CoveredRest DEF Deposed
<1>3. Tick => Deposed(n)' /\ Rest(n)' = Rest(n) - 1
  BY <1>1, TickTakes
<1>4. ASSUME NEW m \in Nodes,
             \/ Step(m) \/ Heartbeat(m) \/ ProcReturns(m)
             \/ Terminate(m) \/ Crash(m)
      PROVE  Deposed(n)' /\ Rest(n)' <= Rest(n)
  <2>1. Deposed(n)'
    BY <1>1, <1>4, NotGivenBack DEF Deposed
  <2>2. CASE m = n
    BY <1>1, <1>4, <2>1, <2>2, RestShrinks
  <2>3. CASE m # n
    <3>1. Undisturbed(n)
      BY <1>1, <1>4, <2>3, OthersUndisturbed
    <3>2. Rest(n)' = Rest(n)
      BY <3>1 DEF Undisturbed, Rest, Cancelled
    <3> QED
      BY <1>2, <2>1, <3>2
  <2> QED
    BY <2>2, <2>3
<1>5. CASE UNCHANGED vars
  <2>1. Deposed(n)' /\ Rest(n)' = Rest(n)
    BY <1>5 DEF vars, control, timers, Deposed, Leads, Holds, Rest, Cancelled
  <2> QED
    BY <1>2, <1>3, <2>1
<1> QED
  BY <1>2, <1>3, <1>4, <1>5 DEF Next

(***************************************************************************)
(* A node whose lock has expired while its runFn runs does not get the     *)
(* lock back, and runs on for no longer than half a TTL, two answers and   *)
(* the stop of runFn exceed the TTL by (elector.go:93-95, 201-211) - not   *)
(* at all when they fit, and otherwise for the time in which two nodes may *)
(* run the processor.  For every number of nodes, every TTL and every      *)
(* delay, provided that the delays are kept and no call times out.         *)
(***************************************************************************)
THEOREM DeposedLeaderStops ==
    ASSUME Timely, ~RedisTimeouts
    PROVE  Spec => /\ [](\A n \in Nodes : StopsSoon(n))
                   /\ [][\A n \in Nodes : Expires(n)]_vars
<1>1. IInv /\ [Next]_vars => IInv'
  BY CoveredStep
<1>2. IInv => \A n \in Nodes : StopsSoon(n)
  <2> SUFFICES ASSUME IInv, NEW n \in Nodes, Deposed(n)
               PROVE  Rest(n) \in Nat /\ Rest(n) + TTL <= Need
    BY DEF StopsSoon
  <2>1. Rest(n) \in Nat /\ Keeps(n, Rest(n))
    BY CoveredRest DEF IInv, Deposed
  <2>2. Rest(n) < Margin
    BY <2>1 DEF Keeps, Deposed, Holds
  <2>3. Need \in Nat
    BY PeriodType, ElectorAssumption DEF Need
  <2> QED
    BY <2>1, <2>2, <2>3, ElectorAssumption DEF Margin
<1>3. IInv /\ [Next]_vars => [\A n \in Nodes : Expires(n)]_vars
  BY ExpiresStep
<1> QED
  BY CoveredInit, <1>1, <1>2, <1>3, PTL DEF Spec
=============================================================================
