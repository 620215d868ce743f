-------------------------- MODULE ProcessorProofs ---------------------------
(***************************************************************************)
(* Proofs about Processor, for every number of nodes, every batch size,    *)
(* lookback and bound.                                                     *)
(***************************************************************************)
EXTENDS Processor, FiniteSetTheorems, SequenceTheorems, TLAPS

(***************************************************************************)
(* The inductive invariant behind NoEventLost.                             *)
(***************************************************************************)

(* The table orders ids and timestamps alike.                              *)
StoreOrdered ==
    \A e, f \in events :
        /\ e.id = f.id => e = f
        /\ e.id < f.id => e.timestamp < f.timestamp

(* Resuming above k misses nothing, now or later: ids yet to come are      *)
(* larger than k, because k is 0 or the id of a stored event.              *)
SafePosition(k) ==
    /\ \A e \in events : e.id <= k => Delivered(e) \/ Expired(e)
    /\ k = 0 \/ \E e \in events : e.id = k

(* What a query's StartTime excludes has expired.                          *)
WindowExpired(n) ==
    \A w \in window[n] : LookbackHours > 0 /\ w <= now - LookbackHours

(* A query without MinEventID is only made from position 0.                *)
QueryFromPosition(n) ==
    pc[n] \in {"fetch", "send"} /\ ~resume[n] => mem[n].LastEventID = 0

InBatch(n, e) == \E i \in 1..Len(batch[n]) : batch[n][i] = e

(* The batch being sent leaves no hole below its last event, and what      *)
(* SendEvents has handled was printed.                                     *)
BatchComplete(n) ==
    pc[n] = "send" =>
        /\ \A i \in 1..Len(batch[n]) : batch[n][i] \in events
        /\ \A e \in events :
              e.id <= batch[n][Len(batch[n])].id =>
                 \/ e.id <= mem[n].LastEventID
                 \/ \E w \in window[n] : e.timestamp < w
                 \/ InBatch(n, e)

PrefixPrinted(n) ==
    pc[n] = "send" => \A i \in 1..sent[n] : out[batch[n][i].id] > 0

NodeInv(n) ==
    /\ SafePosition(mem[n].LastEventID)
    /\ WindowExpired(n)
    /\ QueryFromPosition(n)
    /\ BatchComplete(n)
    /\ PrefixPrinted(n)

CheckpointSafe == \A c \in ckpt : SafePosition(c.LastEventID)

IInv ==
    /\ TypeOK
    /\ StoreOrdered
    /\ CheckpointSafe
    /\ \A n \in Nodes : NodeInv(n)

-----------------------------------------------------------------------------
(* What a query returns.                                                   *)

(***************************************************************************)
(* The first page of a query in ascending order: a sequence of matching    *)
(* rows, and if it leaves a matching row out then it is full, and the row  *)
(* is not older than any row on it.                                        *)
(***************************************************************************)
LEMMA FirstPage ==
    ASSUME NEW rows, IsFiniteSet(rows),
           NEW opts, opts.Offset = 0, opts.Limit \in Nat, opts.OrderAsc = TRUE,
           NEW b \in GetEvents(rows, opts)
    PROVE  /\ b \in Seq(Matching(rows, opts))
           /\ Len(b) <= EffectiveLimit(opts)
           /\ \A e \in Matching(rows, opts) :
                 \/ \E i \in 1..Len(b) : b[i] = e
                 \/ /\ Len(b) = EffectiveLimit(opts)
                    /\ \A i \in 1..Len(b) : b[i].timestamp <= e.timestamp
<1> DEFINE S == Matching(rows, opts)
           n == Cardinality(S)
           limit == EffectiveLimit(opts)
           last == IF limit < n THEN limit ELSE n
<1>1. IsFiniteSet(S) /\ n \in Nat
  <2>1. S \subseteq rows
    BY DEF Matching
  <2> QED
    BY <2>1, FS_Subset, FS_CardinalityType
<1>2. limit \in Nat \ {0}
  BY DefaultLimitAssumption DEF EffectiveLimit
<1>3. PICK f \in Orderings(S, TRUE) : b = PageOf(f, n, opts)
  BY DEF GetEvents
<1>4. /\ f \in [1..n -> S]
      /\ \A e \in S : \E i \in 1..n : f[i] = e
      /\ \A i, j \in 1..n : i < j => f[i].timestamp <= f[j].timestamp
  BY <1>3 DEF Orderings, InOrder
<1>5. b = SubSeq(f, 1, last)
  <2>1. 0 + limit = limit
    BY <1>2
  <2> QED
    BY <1>1, <1>2, <1>3, <2>1 DEF PageOf
<1>6. last \in Nat /\ last <= n /\ last <= limit /\ (last < n => last = limit)
  BY <1>1, <1>2
<1> HIDE DEF S, n, limit, last
<1>7. /\ b \in Seq(S)
      /\ Len(b) = last
      /\ \A i \in 1..last : b[i] = f[i]
  <2>1. \A i \in 1..last : f[i] \in S
    BY <1>1, <1>4, <1>6
  <2>2. /\ SubSeq(f, 1, last) \in Seq(S)
        /\ Len(SubSeq(f, 1, last)) = IF 1 <= last THEN last - 1 + 1 ELSE 0
        /\ \A i \in 1..(last - 1 + 1) : SubSeq(f, 1, last)[i] = f[1 + i - 1]
    BY <1>6, <2>1, SubSeqProperties
  <2> QED
    BY <1>5, <1>6, <2>2
<1>8. ASSUME NEW e \in S, ~ \E i \in 1..Len(b) : b[i] = e
      PROVE  /\ Len(b) = limit
             /\ \A i \in 1..Len(b) : b[i].timestamp <= e.timestamp
  <2>1. PICK j \in 1..n : f[j] = e
    BY <1>4
  <2>2. j > last
    BY <1>1, <1>6, <1>7, <1>8, <2>1
  <2> QED
    BY <1>1, <1>4, <1>6, <1>7, <2>1, <2>2
<1> QED
  BY <1>6, <1>7, <1>8 DEF S, limit
(* What GetEvents hands to processEvents: a sequence of stored events.     *)
LEMMA FetchedType ==
    ASSUME TypeOK, NEW n \in Nodes, NEW b \in GetEvents(events, Query(n))
    PROVE  b \in Seq(Event) /\ \A i \in 1..Len(b) : b[i] \in events
<1>1. /\ Query(n).Offset = 0
      /\ Query(n).Limit \in Nat
      /\ Query(n).OrderAsc = TRUE
  BY ProcessorAssumption DEF Query, Offset
<1>2. b \in Seq(Matching(events, Query(n)))
  BY <1>1, FirstPage DEF TypeOK
<1>3. Matching(events, Query(n)) \subseteq events
  BY DEF Matching
<1>4. b \in Seq(events)
  BY <1>2, <1>3, SeqMonotonic
<1> QED
  BY <1>4, SeqMonotonic, ElementOfSeq DEF TypeOK

-----------------------------------------------------------------------------
(* Type correctness.                                                       *)

(* The variables LeavePoll and LeaveRun assign keep their types.           *)
LocalTypeOK ==
    /\ pc \in [Nodes -> PCs]
    /\ mem \in [Nodes -> Checkpoint]
    /\ resume \in [Nodes -> BOOLEAN]
    /\ window \in [Nodes -> SUBSET Int]
    /\ batch \in [Nodes -> Seq(Event)]
    /\ sent \in [Nodes -> Nat]
    /\ \A n \in Nodes : sent[n] <= Len(batch[n])
    /\ \A n \in Nodes : pc[n] = "send" => batch[n] # <<>>
    /\ cancelled \in [Nodes -> BOOLEAN]

LEMMA ClearPollType ==
    ASSUME TypeOK, NEW n \in Nodes, ClearPoll(n)
    PROVE  /\ resume' \in [Nodes -> BOOLEAN]
           /\ window' \in [Nodes -> SUBSET Int]
           /\ batch' \in [Nodes -> Seq(Event)]
           /\ sent' \in [Nodes -> Nat]
           /\ \A m \in Nodes : sent'[m] <= Len(batch'[m])
<1>1. <<>> \in Seq(Event) /\ Len(<<>>) = 0
  BY EmptySeq
<1>2. \A m \in Nodes : sent'[m] <= Len(batch'[m])
  BY <1>1 DEF TypeOK, ClearPoll
<1> QED
  BY <1>1, <1>2 DEF TypeOK, ClearPoll

LEMMA LeaveRunType ==
    ASSUME TypeOK, NEW n \in Nodes, LeaveRun(n)
    PROVE  LocalTypeOK'
<1>1. FreshCheckpoint \in Checkpoint
  BY ProcessorAssumption DEF FreshCheckpoint, Checkpoint
<1>2. \A m \in Nodes : pc'[m] = "send" => batch'[m] # <<>>
  BY DEF TypeOK, LeaveRun, ClearPoll, PCs
<1>3. /\ pc' \in [Nodes -> PCs]
      /\ mem' \in [Nodes -> Checkpoint]
      /\ cancelled' \in [Nodes -> BOOLEAN]
  BY <1>1 DEF TypeOK, LeaveRun, PCs
<1> QED
  BY <1>2, <1>3, ClearPollType DEF LocalTypeOK, LeaveRun

LEMMA LeavePollType ==
    ASSUME TypeOK, NEW n \in Nodes, LeavePoll(n)
    PROVE  LocalTypeOK'
<1>1. CASE PollingInterval = 0
  BY <1>1, LeaveRunType DEF LeavePoll
<1>2. CASE PollingInterval # 0
  <2>1. \A m \in Nodes : pc'[m] = "send" => batch'[m] # <<>>
    BY <1>2 DEF TypeOK, LeavePoll, ClearPoll, PCs
  <2>2. /\ pc' \in [Nodes -> PCs]
        /\ mem' \in [Nodes -> Checkpoint]
        /\ cancelled' \in [Nodes -> BOOLEAN]
    BY <1>2 DEF TypeOK, LeavePoll, PCs
  <2> QED
    BY <1>2, <2>1, <2>2, ClearPollType DEF LocalTypeOK, LeavePoll
<1> QED
  BY <1>1, <1>2

LEMMA CallFailsType ==
    ASSUME TypeOK, NEW n \in Nodes, CallFails(n)
    PROVE  faults' \in 0..MaxFaults
BY ProcessorAssumption DEF TypeOK, CallFails

LEMMA LoadedType ==
    ASSUME TypeOK
    PROVE  Loaded(ckpt) \in Checkpoint
BY ProcessorAssumption DEF TypeOK, Loaded, FreshCheckpoint, Checkpoint

LEMMA InitType == Init => TypeOK
<1> SUFFICES ASSUME Init PROVE TypeOK
  OBVIOUS
<1>1. <<>> \in Seq(Event) /\ Len(<<>>) = 0
  BY EmptySeq
<1>2. IsFiniteSet({})
  BY FS_EmptySet
<1> QED
  BY <1>1, <1>2, ProcessorAssumption
  DEF Init, TypeOK, Times, EventIDs, PCs, FreshCheckpoint, Checkpoint

LEMMA NextType == TypeOK /\ [Next]_vars => TypeOK'
<1> SUFFICES ASSUME TypeOK, [Next]_vars PROVE TypeOK'
  OBVIOUS
<1> USE DEF db, query, local
<1>1. ASSUME NEW n \in Nodes, CallRun(n) PROVE TypeOK'
  BY <1>1, ProcessorAssumption DEF TypeOK, CallRun, PCs
<1>2. ASSUME NEW n \in Nodes, LoadCheckpoint(n) PROVE TypeOK'
  BY <1>2, LoadedType DEF TypeOK, LoadCheckpoint, PCs
<1>3. ASSUME NEW n \in Nodes, LoadFails(n) PROVE TypeOK'
  BY <1>3, LeaveRunType, CallFailsType DEF TypeOK, LocalTypeOK, LoadFails
<1>4. ASSUME NEW n \in Nodes, Tick(n) PROVE TypeOK'
  BY <1>4 DEF TypeOK, Tick, PCs
<1>5. ASSUME NEW n \in Nodes, Return(n) PROVE TypeOK'
  BY <1>5, LeaveRunType DEF TypeOK, LocalTypeOK, Return
<1>6. ASSUME NEW n \in Nodes, BeginPoll(n) PROVE TypeOK'
  <2>1. LookbackWindow(mem[n]) \in SUBSET Int
    BY ProcessorAssumption DEF TypeOK, LookbackWindow, Times
  <2>2. HasPosition(mem[n]) \in BOOLEAN
    BY DEF HasPosition
  <2> QED
    BY <1>6, <2>1, <2>2 DEF TypeOK, BeginPoll, PCs
<1>7. ASSUME NEW n \in Nodes, FetchBatch(n) PROVE TypeOK'
  <2>1. PICK b \in GetEvents(events, Query(n)) :
            b # <<>> /\ batch' = [batch EXCEPT ![n] = b]
    BY <1>7 DEF FetchBatch
  <2>2. b \in Seq(Event)
    BY FetchedType
  <2>3. \A m \in Nodes : sent'[m] <= Len(batch'[m])
    BY <1>7, <2>1, <2>2, LenProperties DEF TypeOK, FetchBatch
  <2>4. \A m \in Nodes : pc'[m] = "send" => batch'[m] # <<>>
    BY <1>7, <2>1 DEF TypeOK, FetchBatch
  <2> QED
    BY <1>7, <2>1, <2>2, <2>3, <2>4 DEF TypeOK, FetchBatch, PCs
<1>8. ASSUME NEW n \in Nodes, FetchEmpty(n) PROVE TypeOK'
  BY <1>8, LeavePollType DEF TypeOK, LocalTypeOK, FetchEmpty
<1>9. ASSUME NEW n \in Nodes, FetchFails(n) PROVE TypeOK'
  BY <1>9, LeavePollType, CallFailsType DEF TypeOK, LocalTypeOK, FetchFails
<1>10. ASSUME NEW n \in Nodes, WriteLine(n) PROVE TypeOK'
  <2>1. Len(batch[n]) \in Nat
    BY LenProperties DEF TypeOK
  <2>2. batch[n][sent[n] + 1] \in Event
    BY <1>10, <2>1, ElementOfSeq DEF TypeOK, WriteLine
  <2>3. \A m \in Nodes : sent'[m] <= Len(batch'[m])
    BY <1>10, <2>1 DEF TypeOK, WriteLine
  <2>4. out' \in [EventIDs -> Nat]
    BY <1>10, <2>2 DEF TypeOK, WriteLine, Event
  <2> QED
    BY <1>10, <2>3, <2>4 DEF TypeOK, WriteLine
<1>11. ASSUME NEW n \in Nodes, LineLost(n) PROVE TypeOK'
  <2>1. Len(batch[n]) \in Nat
    BY LenProperties DEF TypeOK
  <2>2. \A m \in Nodes : sent'[m] <= Len(batch'[m])
    BY <1>11, <2>1 DEF TypeOK, LineLost
  <2> QED
    BY <1>11, <2>2 DEF TypeOK, LineLost
<1>12. ASSUME NEW n \in Nodes, SendFails(n) PROVE TypeOK'
  <2>1. faults' \in 0..MaxFaults
    BY <1>12, ProcessorAssumption DEF TypeOK, SendFails
  <2> QED
    BY <1>12, <2>1, LeavePollType DEF TypeOK, LocalTypeOK, SendFails
<1>13. ASSUME NEW n \in Nodes, AdvanceCheckpoint(n) PROVE TypeOK'
  <2>1. Len(batch[n]) \in Nat \ {0}
    BY <1>13, EmptySeq DEF TypeOK, AdvanceCheckpoint
  <2>2. batch[n][Len(batch[n])] \in Event
    BY <2>1, ElementOfSeq DEF TypeOK
  <2>3. Advanced(mem[n], batch[n]) \in Checkpoint
    BY <2>1, <2>2 DEF TypeOK, Advanced, Checkpoint, Event, EventIDs
  <2> QED
    BY <1>13, <2>3 DEF TypeOK, AdvanceCheckpoint, PCs
<1>14. ASSUME NEW n \in Nodes, SaveCheckpoint(n) PROVE TypeOK'
  <2>1. ckpt' \subseteq Checkpoint /\ \A c, d \in ckpt' : c = d
    BY <1>14 DEF TypeOK, SaveCheckpoint, SavedRow
  <2>2. CASE ShortBatch(batch[n])
    BY <1>14, <2>1, <2>2, LeavePollType DEF TypeOK, LocalTypeOK, SaveCheckpoint
  <2>3. CASE ~ShortBatch(batch[n])
    <3>1. <<>> \in Seq(Event) /\ Len(<<>>) = 0
      BY EmptySeq
    <3>2. \A m \in Nodes : sent'[m] <= Len(batch'[m])
      BY <1>14, <2>3, <3>1 DEF TypeOK, SaveCheckpoint
    <3>3. \A m \in Nodes : pc'[m] = "send" => batch'[m] # <<>>
      BY <1>14, <2>3 DEF TypeOK, SaveCheckpoint
    <3>4. /\ batch' \in [Nodes -> Seq(Event)]
          /\ sent' \in [Nodes -> Nat]
      <4>1. /\ batch' = [batch EXCEPT ![n] = <<>>]
            /\ sent' = [sent EXCEPT ![n] = 0]
        BY <1>14, <2>3 DEF SaveCheckpoint
      <4> QED
        BY <3>1, <4>1 DEF TypeOK
    <3>5. /\ pc' \in [Nodes -> PCs]
          /\ resume' \in [Nodes -> BOOLEAN]
      BY <1>14, <2>3 DEF TypeOK, SaveCheckpoint, PCs
    <3>6. UNCHANGED <<events, now, out, mem, window, cancelled, runs, faults>>
      BY <1>14, <2>3 DEF SaveCheckpoint
    <3> QED
      BY <2>1, <3>2, <3>3, <3>4, <3>5, <3>6 DEF TypeOK
  <2> QED
    BY <2>2, <2>3
<1>15. ASSUME NEW n \in Nodes, SaveFails(n) PROVE TypeOK'
  <2>1. ckpt' \subseteq Checkpoint /\ \A c, d \in ckpt' : c = d
    BY <1>15 DEF TypeOK, SaveFails, AfterFailedSave, SavedRow
  <2> QED
    BY <1>15, <2>1, LeavePollType, CallFailsType DEF TypeOK, LocalTypeOK, SaveFails
<1>16. ASSUME NEW n \in Nodes, Cancel(n) PROVE TypeOK'
  BY <1>16 DEF TypeOK, Cancel
<1>17. ASSUME NEW n \in Nodes, Crash(n) PROVE TypeOK'
  <2>1. ckpt' \subseteq Checkpoint /\ \A c, d \in ckpt' : c = d
    BY <1>17 DEF TypeOK, Crash, AfterFailedSave, SavedRow
  <2> QED
    BY <1>17, <2>1, LeaveRunType DEF TypeOK, LocalTypeOK, Crash
<1>18. ASSUME StoreEvent PROVE TypeOK'
  <2>1. IsFiniteSet(events')
    BY <1>18, FS_AddElement DEF TypeOK, StoreEvent
  <2> QED
    BY <1>18, <2>1 DEF TypeOK, StoreEvent
<1>19. ASSUME ClockTick PROVE TypeOK'
  BY <1>19, ProcessorAssumption DEF TypeOK, ClockTick, Times
<1>20. CASE UNCHANGED vars
  BY <1>20 DEF TypeOK, vars
<1> QED
  BY <1>1, <1>2, <1>3, <1>4, <1>5, <1>6, <1>7, <1>8, <1>9, <1>10, <1>11,
     <1>12, <1>13, <1>14, <1>15, <1>16, <1>17, <1>18, <1>19, <1>20
  DEF Next, Step

(***************************************************************************)
(* Every variable keeps its type, for all values of the constants.         *)
(***************************************************************************)
THEOREM TypeCorrect == Spec => []TypeOK
BY InitType, NextType, PTL DEF Spec
-----------------------------------------------------------------------------
(* No event is lost.                                                       *)

(* What a step may do to the rest of the system without harm.              *)
PrintedStays == \A i \in EventIDs : out[i] > 0 => out'[i] > 0

SameLocal(m) ==
    /\ pc'[m] = pc[m] /\ mem'[m] = mem[m] /\ resume'[m] = resume[m]
    /\ window'[m] = window[m] /\ batch'[m] = batch[m] /\ sent'[m] = sent[m]

OthersSame(n) == \A m \in Nodes \ {n} : SameLocal(m)

LEMMA SafePositionStable ==
    ASSUME TypeOK, PrintedStays, events' = events, now' = now,
           NEW k, SafePosition(k)
    PROVE  SafePosition(k)'
<1>1. \A e \in events : Delivered(e) => Delivered(e)'
  BY DEF TypeOK, Event, PrintedStays, Delivered
<1> QED
  BY <1>1 DEF SafePosition, Expired

(* A step that leaves node m alone keeps what is known of m.               *)
LEMMA NodeStable ==
    ASSUME TypeOK, PrintedStays, events' = events, now' = now,
           NEW m \in Nodes, NodeInv(m), SameLocal(m)
    PROVE  NodeInv(m)'
<1>1. SafePosition(mem[m].LastEventID)'
  BY SafePositionStable DEF NodeInv, SameLocal, SafePosition, Expired, Delivered
<1>2. WindowExpired(m)'
  BY DEF NodeInv, SameLocal, WindowExpired
<1>3. QueryFromPosition(m)'
  BY DEF NodeInv, SameLocal, QueryFromPosition
<1>4. BatchComplete(m)'
  BY DEF NodeInv, SameLocal, BatchComplete, InBatch
<1>5. PrefixPrinted(m)'
  <2>1. ASSUME pc[m] = "send", NEW i \in 1..sent[m]
        PROVE  out'[batch[m][i].id] > 0
    <3>1. i \in 1..Len(batch[m])
      BY LenProperties DEF TypeOK
    <3>2. batch[m][i].id \in EventIDs
      BY <3>1, ElementOfSeq DEF TypeOK, Event
    <3> QED
      BY <2>1, <3>2 DEF NodeInv, PrefixPrinted, PrintedStays
  <2> QED
    BY <2>1 DEF SameLocal, PrefixPrinted
<1> QED
  BY <1>1, <1>2, <1>3, <1>4, <1>5 DEF NodeInv

(* Position 0 is always safe: ids start at 1.                              *)
LEMMA ZeroSafe == ASSUME TypeOK PROVE SafePosition(0)
BY DEF TypeOK, Event, EventIDs, SafePosition

(* A node that leaves its poll, or Run, holds on to nothing but mem.       *)
LEMMA LeaveEffect ==
    ASSUME TypeOK, NEW n \in Nodes, LeaveRun(n) \/ LeavePoll(n)
    PROVE  /\ pc'[n] \in {"idle", "wait"}
           /\ mem'[n] = mem[n] \/ mem'[n] = FreshCheckpoint
           /\ window'[n] = {}
           /\ OthersSame(n)
<1>1. CASE LeaveRun(n)
  BY <1>1 DEF TypeOK, LeaveRun, ClearPoll, OthersSame, SameLocal
<1>2. CASE LeavePoll(n) /\ ~LeaveRun(n)
  BY <1>2 DEF TypeOK, LeavePoll, ClearPoll, OthersSame, SameLocal
<1> QED
  BY <1>1, <1>2

(* A step of one node changes no other node's memory.                      *)
LEMMA StepsAlone ==
    ASSUME TypeOK, NEW n \in Nodes, Step(n) \/ Cancel(n) \/ Crash(n)
    PROVE  OthersSame(n)
<1>1. CASE LeaveRun(n) \/ LeavePoll(n)
  BY <1>1, LeaveEffect
<1>2. CASE ~(LeaveRun(n) \/ LeavePoll(n))
  BY <1>2 DEF Step, Cancel, Crash, CallRun, LoadCheckpoint, LoadFails, Tick,
     Return, BeginPoll, FetchBatch, FetchEmpty, FetchFails, WriteLine, LineLost,
     SendFails, AdvanceCheckpoint, SaveCheckpoint, SaveFails, TypeOK, query,
     OthersSame, SameLocal
<1> QED
  BY <1>1, <1>2

(* Node steps leave the table and the clock alone, and take no line back.  *)
LEMMA NodeSteps ==
    ASSUME TypeOK, NEW n \in Nodes, Step(n) \/ Cancel(n) \/ Crash(n)
    PROVE  UNCHANGED <<events, now>> /\ PrintedStays
<1>1. UNCHANGED <<events, now>>
  BY DEF Step, CallRun, LoadCheckpoint, LoadFails, Tick, Return, BeginPoll,
     FetchBatch, FetchEmpty, FetchFails, WriteLine, LineLost, SendFails,
     AdvanceCheckpoint, SaveCheckpoint, SaveFails, Cancel, Crash, db
<1>2. CASE WriteLine(n)
  BY <1>1, <1>2 DEF WriteLine, PrintedStays, TypeOK
<1>3. CASE ~WriteLine(n)
  <2>1. out' = out
    BY <1>3 DEF Step, CallRun, LoadCheckpoint, LoadFails, Tick, Return, BeginPoll,
       FetchBatch, FetchEmpty, FetchFails, LineLost, SendFails,
       AdvanceCheckpoint, SaveCheckpoint, SaveFails, Cancel, Crash
  <2> QED
    BY <1>1, <2>1 DEF PrintedStays
<1> QED
  BY <1>1, <1>2, <1>3

LEMMA PositionOfRow ==
    ASSUME TypeOK
    PROVE  /\ Position \in 0..MaxEventID
           /\ \A c \in ckpt : Position = c.LastEventID
           /\ Position = Loaded(ckpt).LastEventID
BY ProcessorAssumption
DEF TypeOK, Position, Loaded, FreshCheckpoint, Checkpoint

(* The row changes only where a node saves what it holds in memory.        *)
LEMMA RowChanges ==
    ASSUME [Next]_vars
    PROVE  \/ ckpt' = ckpt
           \/ \E n \in Nodes : pc[n] = "save" /\ ckpt' = {mem[n]}
<1> USE DEF db, AfterFailedSave, SavedRow
<1>1. ASSUME NEW n \in Nodes, Step(n) \/ Cancel(n) \/ Crash(n)
      PROVE  ckpt' = ckpt \/ (pc[n] = "save" /\ ckpt' = {mem[n]})
  BY <1>1
  DEF Step, CallRun, LoadCheckpoint, LoadFails, Tick, Return, BeginPoll,
      FetchBatch, FetchEmpty, FetchFails, WriteLine, LineLost, SendFails,
      AdvanceCheckpoint, SaveCheckpoint, SaveFails, Cancel, Crash
<1>2. CASE StoreEvent \/ ClockTick \/ UNCHANGED vars
  BY <1>2 DEF StoreEvent, ClockTick, vars
<1> QED
  BY <1>1, <1>2 DEF Next

(* The output changes only where a node sends the next event of its batch. *)
LEMMA OutputChanges ==
    ASSUME [Next]_vars
    PROVE  out' = out \/ \E n \in Nodes : WriteLine(n)
<1>1. ASSUME NEW n \in Nodes, Step(n) \/ Cancel(n) \/ Crash(n), ~WriteLine(n)
      PROVE  out' = out
  BY <1>1
  DEF Step, CallRun, LoadCheckpoint, LoadFails, Tick, Return, BeginPoll,
      FetchBatch, FetchEmpty, FetchFails, LineLost, SendFails,
      AdvanceCheckpoint, SaveCheckpoint, SaveFails, Cancel, Crash
<1>2. CASE StoreEvent \/ ClockTick \/ UNCHANGED vars
  BY <1>2 DEF StoreEvent, ClockTick, vars
<1> QED
  BY <1>1, <1>2 DEF Next

LEMMA LeaveStep ==
    ASSUME IInv, TypeOK', NEW n \in Nodes, LeaveRun(n) \/ LeavePoll(n),
           UNCHANGED <<events, now, out>>,
           \A c \in ckpt' : SafePosition(c.LastEventID)
    PROVE  IInv'
<1>1. TypeOK /\ PrintedStays
  BY DEF IInv, PrintedStays
<1>2. /\ pc'[n] \in {"idle", "wait"}
      /\ mem'[n] = mem[n] \/ mem'[n] = FreshCheckpoint
      /\ window'[n] = {}
      /\ OthersSame(n)
  BY <1>1, LeaveEffect
<1>3. StoreOrdered'
  BY DEF IInv, StoreOrdered
<1>4. CheckpointSafe'
  BY DEF CheckpointSafe, SafePosition, Delivered, Expired
<1>5. NodeInv(n)'
  <2>1. SafePosition(mem'[n].LastEventID)
    BY <1>1, <1>2, ZeroSafe DEF IInv, NodeInv, FreshCheckpoint
  <2>2. SafePosition(mem[n].LastEventID)'
    BY <2>1 DEF SafePosition, Delivered, Expired
  <2> QED
    BY <1>2, <2>2 DEF NodeInv, WindowExpired, QueryFromPosition,
                      BatchComplete, PrefixPrinted
<1>6. ASSUME NEW m \in Nodes \ {n} PROVE NodeInv(m)'
  BY <1>1, <1>2, NodeStable DEF IInv, OthersSame
<1> QED
  BY <1>3, <1>4, <1>5, <1>6 DEF IInv

(* A step of node n that prints or saves nothing.                          *)
LEMMA LocalStep ==
    ASSUME IInv, TypeOK', NEW n \in Nodes, OthersSame(n),
           UNCHANGED <<events, now, ckpt, out>>, NodeInv(n)'
    PROVE  IInv'
<1>1. TypeOK /\ PrintedStays
  BY DEF IInv, PrintedStays
<1>2. StoreOrdered' /\ CheckpointSafe'
  BY DEF IInv, StoreOrdered, CheckpointSafe, SafePosition, Delivered, Expired
<1>3. ASSUME NEW m \in Nodes \ {n} PROVE NodeInv(m)'
  BY <1>1, NodeStable DEF IInv, OthersSame
<1> QED
  BY <1>2, <1>3 DEF IInv
LEMMA InitInv == Init => IInv
<1> SUFFICES ASSUME Init PROVE IInv
  OBVIOUS
<1>1. TypeOK
  BY InitType
<1>2. StoreOrdered /\ CheckpointSafe
  BY DEF Init, StoreOrdered, CheckpointSafe
<1>3. ASSUME NEW n \in Nodes PROVE NodeInv(n)
  BY <1>1, ZeroSafe DEF Init, NodeInv, FreshCheckpoint, WindowExpired,
     QueryFromPosition, BatchComplete, PrefixPrinted
<1> QED
  BY <1>1, <1>2, <1>3 DEF IInv

(* A fetched page leaves no hole: an event that the page does not hold is  *)
(* below the position, outside the window, or above all of the page.       *)
LEMMA FetchInv ==
    ASSUME IInv, TypeOK', NEW n \in Nodes, FetchBatch(n)
    PROVE  IInv'
<1>1. TypeOK /\ StoreOrdered /\ NodeInv(n)
  BY DEF IInv
<1>2. PICK b \in GetEvents(events, Query(n)) :
          b # <<>> /\ batch' = [batch EXCEPT ![n] = b]
  BY DEF FetchBatch
<1>3. batch'[n] = b /\ pc'[n] = "send" /\ sent'[n] = 0
  BY <1>1, <1>2 DEF FetchBatch, TypeOK
<1>4. UNCHANGED <<events, now, ckpt, out, mem, resume, window>>
  BY DEF FetchBatch, db, query
<1>5. OthersSame(n)
  BY <1>1, <1>2, <1>4 DEF FetchBatch, TypeOK, OthersSame, SameLocal
<1>6. /\ b \in Seq(Event)
      /\ \A i \in 1..Len(b) : b[i] \in events
  BY <1>1, FetchedType
<1>7. Len(b) \in 1..Len(b) /\ Len(b) \in Nat
  BY <1>2, <1>6, EmptySeq
<1>8. ASSUME NEW e \in events, e.id <= b[Len(b)].id,
             ~ (e.id <= mem[n].LastEventID),
             ~ \E w \in window[n] : e.timestamp < w
      PROVE  \E i \in 1..Len(b) : b[i] = e
  <2>1. e \in Event /\ mem[n] \in Checkpoint /\ window[n] \subseteq Int
    BY <1>1 DEF TypeOK
  <2>2. \A w \in window[n] : e.timestamp >= w
    BY <1>8, <2>1 DEF Event, Times
  <2>3. e.id > mem[n].LastEventID
    BY <1>8, <2>1 DEF Event, EventIDs, Checkpoint
  <2>4. e \in Matching(events, Query(n))
    BY <2>2, <2>3 DEF Matching, Matches, Query
  <2>5. \/ \E i \in 1..Len(b) : b[i] = e
        \/ \A i \in 1..Len(b) : b[i].timestamp <= e.timestamp
    <3>1. /\ Query(n).Offset = 0
          /\ Query(n).Limit \in Nat
          /\ Query(n).OrderAsc = TRUE
      BY ProcessorAssumption DEF Query, Offset
    <3> QED
      BY <1>1, <2>4, <3>1, FirstPage DEF TypeOK
  <2>6. CASE b[Len(b)].timestamp <= e.timestamp
    <3>1. b[Len(b)] \in events /\ b[Len(b)] \in Event
      BY <1>1, <1>6, <1>7 DEF TypeOK
    <3>2. b[Len(b)] = e
      BY <1>1, <1>8, <2>1, <2>6, <3>1 DEF StoreOrdered, Event, EventIDs, Times
    <3> QED
      BY <1>7, <3>2
  <2> QED
    BY <1>7, <2>5, <2>6
<1>9. BatchComplete(n)'
  BY <1>3, <1>4, <1>6, <1>8 DEF BatchComplete, InBatch
<1>10. PrefixPrinted(n)'
  BY <1>3 DEF PrefixPrinted
<1>11. QueryFromPosition(n)'
  BY <1>1, <1>4 DEF NodeInv, QueryFromPosition, FetchBatch
<1>12. WindowExpired(n)'
  BY <1>1, <1>4 DEF NodeInv, WindowExpired
<1>13. SafePosition(mem[n].LastEventID)'
  BY <1>1, <1>4 DEF NodeInv, SafePosition, Delivered, Expired
<1> QED
  BY <1>4, <1>5, <1>9, <1>10, <1>11, <1>12, <1>13, LocalStep DEF NodeInv

LEMMA WriteLineInv ==
    ASSUME IInv, TypeOK', NEW n \in Nodes, WriteLine(n)
    PROVE  IInv'
<1>1. TypeOK /\ StoreOrdered /\ CheckpointSafe /\ NodeInv(n)
  BY DEF IInv
<1> DEFINE i == batch[n][sent[n] + 1].id
<1>2. Len(batch[n]) \in Nat /\ sent[n] \in Nat
  BY <1>1, LenProperties DEF TypeOK
<1>3. i \in EventIDs
  BY <1>1, <1>2, ElementOfSeq DEF TypeOK, WriteLine, Event
<1>4. /\ out' = [out EXCEPT ![i] = @ + 1]
      /\ sent' = [sent EXCEPT ![n] = @ + 1]
      /\ UNCHANGED <<events, now, ckpt, pc, mem, resume, window, batch>>
  BY DEF WriteLine, db, query
<1>5. out'[i] > 0 /\ PrintedStays
  BY <1>1, <1>3, <1>4 DEF TypeOK, PrintedStays
<1>6. OthersSame(n)
  BY <1>1, <1>4 DEF TypeOK, OthersSame, SameLocal
<1>7. CheckpointSafe'
  BY <1>1, <1>4, <1>5, SafePositionStable DEF CheckpointSafe
<1>8. SafePosition(mem[n].LastEventID)'
  BY <1>1, <1>4, <1>5, SafePositionStable DEF NodeInv, SafePosition, Delivered, Expired
<1>9. PrefixPrinted(n)'
  <2>1. ASSUME NEW j \in 1..(sent[n] + 1) PROVE out'[batch[n][j].id] > 0
    <3>1. j \in 1..Len(batch[n])
      BY <1>2 DEF WriteLine
    <3>2. batch[n][j].id \in EventIDs
      <4>1. batch[n] \in Seq(Event)
        BY <1>1 DEF TypeOK
      <4>2. batch[n][j] \in Event
        BY <3>1, <4>1, ElementOfSeq
      <4> QED
        BY <4>2 DEF Event
    <3>3. CASE j = sent[n] + 1
      BY <1>5, <3>3
    <3>4. CASE j \in 1..sent[n]
      BY <1>1, <1>5, <3>2, <3>4 DEF NodeInv, PrefixPrinted, PrintedStays, WriteLine
    <3> QED
      BY <1>2, <3>3, <3>4
  <2> QED
    BY <1>1, <1>4, <2>1 DEF PrefixPrinted, TypeOK
<1>10. NodeInv(n)'
  BY <1>1, <1>4, <1>8, <1>9
  DEF NodeInv, WindowExpired, QueryFromPosition, BatchComplete, InBatch
<1>11. ASSUME NEW m \in Nodes \ {n} PROVE NodeInv(m)'
  BY <1>1, <1>4, <1>5, <1>6, NodeStable DEF IInv, OthersSame
<1> QED
  BY <1>1, <1>4, <1>7, <1>10, <1>11 DEF IInv, StoreOrdered

(* Once the batch is sent, its last event is a safe position.              *)
LEMMA AdvanceInv ==
    ASSUME IInv, TypeOK', NEW n \in Nodes, AdvanceCheckpoint(n)
    PROVE  IInv'
<1>1. TypeOK /\ NodeInv(n)
  BY DEF IInv
<1> DEFINE last == batch[n][Len(batch[n])]
<1>2. Len(batch[n]) \in 1..Len(batch[n]) /\ sent[n] = Len(batch[n])
  BY <1>1, EmptySeq DEF TypeOK, AdvanceCheckpoint
<1>3. /\ UNCHANGED <<events, now, ckpt, out, resume, window, batch, sent>>
      /\ pc'[n] = "save"
      /\ mem'[n].LastEventID = last.id
  BY <1>1 DEF TypeOK, AdvanceCheckpoint, Advanced, db, query
<1>4. OthersSame(n)
  BY <1>1, <1>3 DEF TypeOK, AdvanceCheckpoint, OthersSame, SameLocal
<1>5. SafePosition(last.id)
  <2>1. last \in events
    BY <1>1, <1>2 DEF NodeInv, BatchComplete, AdvanceCheckpoint
  <2>2. ASSUME NEW e \in events, e.id <= last.id
        PROVE  Delivered(e) \/ Expired(e)
    <3>1. \/ e.id <= mem[n].LastEventID
          \/ \E w \in window[n] : e.timestamp < w
          \/ InBatch(n, e)
      BY <1>1, <2>2 DEF NodeInv, BatchComplete, AdvanceCheckpoint
    <3>2. CASE e.id <= mem[n].LastEventID
      BY <1>1, <3>2 DEF NodeInv, SafePosition
    <3>3. CASE \E w \in window[n] : e.timestamp < w
      <4>1. PICK w \in window[n] : e.timestamp < w
        BY <3>3
      <4>2. LookbackHours > 0 /\ w <= now - LookbackHours
        BY <1>1 DEF NodeInv, WindowExpired
      <4>3. w \in Int /\ e.timestamp \in Int /\ now \in Int
        BY <1>1 DEF TypeOK, Event, Times
      <4> QED
        BY <4>1, <4>2, <4>3, ProcessorAssumption DEF Expired
    <3>4. CASE InBatch(n, e)
      BY <1>1, <1>2, <3>4
      DEF InBatch, NodeInv, PrefixPrinted, Delivered, AdvanceCheckpoint
    <3> QED
      BY <3>1, <3>2, <3>3, <3>4
  <2> QED
    BY <2>1, <2>2 DEF SafePosition
<1>6. SafePosition(mem[n].LastEventID)'
  BY <1>3, <1>5 DEF SafePosition, Delivered, Expired
<1>7. NodeInv(n)'
  BY <1>1, <1>3, <1>6 DEF NodeInv, WindowExpired, QueryFromPosition,
                          BatchComplete, PrefixPrinted
<1> QED
  BY <1>3, <1>4, <1>7, LocalStep

(* Whatever a save leaves in the row is a safe position.                   *)
LEMMA SaveInv ==
    ASSUME IInv, NEW n \in Nodes, ckpt' \in {ckpt, {mem[n]}}
    PROVE  \A c \in ckpt' : SafePosition(c.LastEventID)
BY DEF IInv, CheckpointSafe, NodeInv

(* A new event is above every position: ids are committed in order.        *)
LEMMA StoreInv ==
    ASSUME IdsInOrder, TimesInOrder, IInv, TypeOK', StoreEvent
    PROVE  IInv'
<1>1. TypeOK /\ StoreOrdered /\ CheckpointSafe
  BY DEF IInv
<1>2. PICK e \in Event :
          /\ \A f \in events : f.id < e.id /\ f.timestamp < e.timestamp
          /\ events' = events \cup {e}
  BY DEF StoreEvent
<1>3. /\ UNCHANGED <<now, ckpt, out, pc, mem, resume, window, batch, sent>>
  BY DEF StoreEvent, local
<1>4. StoreOrdered'
  BY <1>1, <1>2 DEF StoreOrdered, TypeOK, Event, EventIDs, Times
<1>5. ASSUME NEW k \in 0..MaxEventID, SafePosition(k)
      PROVE  SafePosition(k)'
  <2>1. k < e.id
    BY <1>2, <1>5 DEF SafePosition, Event, EventIDs
  <2> QED
    BY <1>2, <1>3, <1>5, <2>1
    DEF SafePosition, Delivered, Expired, Event, EventIDs
<1>6. CheckpointSafe'
  BY <1>1, <1>3, <1>5 DEF CheckpointSafe, TypeOK, Checkpoint
<1>7. ASSUME NEW n \in Nodes PROVE NodeInv(n)'
  <2>1. NodeInv(n)
    BY DEF IInv
  <2>2. SafePosition(mem[n].LastEventID)'
    <3>1. mem[n].LastEventID \in 0..MaxEventID
      BY <1>1 DEF TypeOK, Checkpoint
    <3>2. SafePosition(mem[n].LastEventID)
      BY <2>1 DEF NodeInv
    <3> QED
      BY <1>3, <1>5, <3>1, <3>2 DEF SafePosition, Delivered, Expired
  <2>3. BatchComplete(n)'
    <3>1. SUFFICES ASSUME pc[n] = "send"
                   PROVE  BatchComplete(n)'
      BY <1>3 DEF BatchComplete
    <3>2. Len(batch[n]) \in 1..Len(batch[n])
      BY <1>1, <3>1, EmptySeq DEF TypeOK
    <3>3. batch[n][Len(batch[n])] \in events
      BY <2>1, <3>1, <3>2 DEF NodeInv, BatchComplete
    <3>4. ~ (e.id <= batch[n][Len(batch[n])].id)
      BY <1>1, <1>2, <3>3 DEF TypeOK, Event, EventIDs
    <3> QED
      BY <1>2, <1>3, <2>1, <3>1, <3>4 DEF NodeInv, BatchComplete, InBatch
  <2> QED
    BY <1>3, <2>1, <2>2, <2>3
    DEF NodeInv, WindowExpired, QueryFromPosition, PrefixPrinted
<1> QED
  BY <1>4, <1>6, <1>7 DEF IInv

(* Time only lets more events expire.                                      *)
LEMMA ClockInv ==
    ASSUME IInv, TypeOK', ClockTick
    PROVE  IInv'
<1>1. TypeOK /\ StoreOrdered /\ CheckpointSafe
  BY DEF IInv
<1>2. /\ UNCHANGED <<events, ckpt, out, pc, mem, resume, window, batch, sent>>
      /\ now' = now + 1
  BY DEF ClockTick, local
<1>3. \A e \in events : Expired(e) => Expired(e)'
  BY <1>1, <1>2, ProcessorAssumption DEF TypeOK, Expired, Event, Times
<1>4. ASSUME NEW k, SafePosition(k) PROVE SafePosition(k)'
  BY <1>2, <1>3, <1>4 DEF SafePosition, Delivered
<1>5. CheckpointSafe'
  BY <1>1, <1>2, <1>4 DEF CheckpointSafe
<1>6. ASSUME NEW n \in Nodes PROVE NodeInv(n)'
  <2>1. NodeInv(n)
    BY DEF IInv
  <2>2. SafePosition(mem[n].LastEventID)'
    <3>1. SafePosition(mem[n].LastEventID)
      BY <2>1 DEF NodeInv
    <3> QED
      BY <1>2, <1>3, <3>1 DEF SafePosition, Delivered
  <2>3. WindowExpired(n)'
    <3>1. SUFFICES ASSUME NEW w \in window[n]
                   PROVE  LookbackHours > 0 /\ w <= now' - LookbackHours
      BY <1>2 DEF WindowExpired
    <3>2. LookbackHours > 0 /\ w <= now - LookbackHours
      BY <2>1 DEF NodeInv, WindowExpired
    <3>3. w \in Int /\ now \in Int /\ LookbackHours \in Int
      BY <1>1, ProcessorAssumption DEF TypeOK, Times
    <3> QED
      BY <1>2, <3>2, <3>3
  <2> QED
    BY <1>2, <2>1, <2>2, <2>3
    DEF NodeInv, QueryFromPosition, BatchComplete, InBatch, PrefixPrinted
<1> QED
  BY <1>1, <1>2, <1>5, <1>6 DEF IInv, StoreOrdered
LEMMA NextInv ==
    ASSUME IdsInOrder, TimesInOrder, ~StdoutMayFail
    PROVE  IInv /\ [Next]_vars => IInv'
<1> SUFFICES ASSUME IInv, [Next]_vars PROVE IInv'
  OBVIOUS
<1>1. TypeOK /\ TypeOK'
  BY NextType DEF IInv
<1>2. \A c \in ckpt : SafePosition(c.LastEventID)
  BY DEF IInv, CheckpointSafe
<1>3. ASSUME NEW n \in Nodes, CallRun(n) PROVE IInv'
  <2>1. OthersSame(n) /\ UNCHANGED <<events, now, ckpt, out, mem, window>>
    BY <1>1, <1>3 DEF TypeOK, CallRun, OthersSame, SameLocal, db, query
  <2>2. pc'[n] = "load"
    BY <1>1, <1>3 DEF TypeOK, CallRun
  <2>3. NodeInv(n)'
    BY <2>1, <2>2 DEF IInv, NodeInv, WindowExpired, QueryFromPosition,
       BatchComplete, PrefixPrinted, SafePosition, Delivered, Expired
  <2> QED
    BY <1>1, <2>1, <2>3, LocalStep
<1>4. ASSUME NEW n \in Nodes, LoadCheckpoint(n) PROVE IInv'
  <2>1. OthersSame(n) /\ UNCHANGED <<events, now, ckpt, out, window>>
    BY <1>1, <1>4 DEF TypeOK, LoadCheckpoint, OthersSame, SameLocal, db, query
  <2>2. pc'[n] = "poll" /\ mem'[n] = Loaded(ckpt)
    BY <1>1, <1>4 DEF TypeOK, LoadCheckpoint
  <2>3. SafePosition(Loaded(ckpt).LastEventID)
    BY <1>1, <1>2, ZeroSafe DEF Loaded, FreshCheckpoint
  <2>4. SafePosition(mem[n].LastEventID)'
    BY <2>1, <2>2, <2>3 DEF SafePosition, Delivered, Expired
  <2>5. NodeInv(n)'
    BY <2>1, <2>2, <2>4 DEF IInv, NodeInv, WindowExpired, QueryFromPosition,
       BatchComplete, PrefixPrinted
  <2> QED
    BY <1>1, <2>1, <2>5, LocalStep
<1>5. ASSUME NEW n \in Nodes, LoadFails(n) PROVE IInv'
  BY <1>1, <1>2, <1>5, LeaveStep DEF LoadFails, db
<1>6. ASSUME NEW n \in Nodes, Tick(n) PROVE IInv'
  <2>1. OthersSame(n) /\ UNCHANGED <<events, now, ckpt, out, mem, window>>
    BY <1>1, <1>6 DEF TypeOK, Tick, OthersSame, SameLocal, db, query
  <2>2. pc'[n] = "poll"
    BY <1>1, <1>6 DEF TypeOK, Tick
  <2>3. NodeInv(n)'
    BY <2>1, <2>2 DEF IInv, NodeInv, WindowExpired, QueryFromPosition,
       BatchComplete, PrefixPrinted, SafePosition, Delivered, Expired
  <2> QED
    BY <1>1, <2>1, <2>3, LocalStep
<1>7. ASSUME NEW n \in Nodes, Return(n) PROVE IInv'
  BY <1>1, <1>2, <1>7, LeaveStep DEF Return, db
<1>8. ASSUME NEW n \in Nodes, BeginPoll(n) PROVE IInv'
  <2>1. OthersSame(n) /\ UNCHANGED <<events, now, ckpt, out, mem>>
    BY <1>1, <1>8 DEF TypeOK, BeginPoll, OthersSame, SameLocal, db
  <2>2. /\ pc'[n] = "fetch"
        /\ resume'[n] = HasPosition(mem[n])
        /\ window'[n] = LookbackWindow(mem[n])
    BY <1>1, <1>8 DEF TypeOK, BeginPoll
  <2>3. WindowExpired(n)'
    BY <1>1, <2>1, <2>2, ProcessorAssumption
    DEF WindowExpired, LookbackWindow, TypeOK, Times
  <2>4. QueryFromPosition(n)'
    BY <1>1, <2>1, <2>2 DEF QueryFromPosition, HasPosition, TypeOK, Checkpoint
  <2>5. SafePosition(mem[n].LastEventID)'
    BY <2>1 DEF IInv, NodeInv, SafePosition, Delivered, Expired
  <2>6. NodeInv(n)'
    BY <2>2, <2>3, <2>4, <2>5 DEF NodeInv, BatchComplete, PrefixPrinted
  <2> QED
    BY <1>1, <2>1, <2>6, LocalStep
<1>9. ASSUME NEW n \in Nodes, FetchBatch(n) PROVE IInv'
  BY <1>1, <1>9, FetchInv
<1>10. ASSUME NEW n \in Nodes, FetchEmpty(n) PROVE IInv'
  BY <1>1, <1>2, <1>10, LeaveStep DEF FetchEmpty, db
<1>11. ASSUME NEW n \in Nodes, FetchFails(n) PROVE IInv'
  BY <1>1, <1>2, <1>11, LeaveStep DEF FetchFails, db
<1>12. ASSUME NEW n \in Nodes, WriteLine(n) PROVE IInv'
  BY <1>1, <1>12, WriteLineInv
<1>13. ASSUME NEW n \in Nodes, LineLost(n) PROVE IInv'
  BY <1>13 DEF LineLost
<1>14. ASSUME NEW n \in Nodes, SendFails(n) PROVE IInv'
  BY <1>1, <1>2, <1>14, LeaveStep DEF SendFails, db
<1>15. ASSUME NEW n \in Nodes, AdvanceCheckpoint(n) PROVE IInv'
  BY <1>1, <1>15, AdvanceInv
<1>16. ASSUME NEW n \in Nodes, SaveCheckpoint(n) PROVE IInv'
  <2>1. \A c \in ckpt' : SafePosition(c.LastEventID)
    BY <1>16, SaveInv DEF SaveCheckpoint, SavedRow
  <2>2. CASE ShortBatch(batch[n])
    BY <1>1, <1>16, <2>1, <2>2, LeaveStep DEF SaveCheckpoint
  <2>3. CASE ~ShortBatch(batch[n])
    <3>1. /\ UNCHANGED <<events, now, out, mem, window>>
          /\ OthersSame(n)
      BY <1>1, <1>16, <2>3 DEF TypeOK, SaveCheckpoint, OthersSame, SameLocal
    <3>2. pc'[n] = "fetch" /\ resume'[n] = TRUE
      BY <1>1, <1>16, <2>3 DEF TypeOK, SaveCheckpoint
    <3>3. NodeInv(n)'
      BY <3>1, <3>2 DEF IInv, NodeInv, WindowExpired, QueryFromPosition,
         BatchComplete, PrefixPrinted, SafePosition, Delivered, Expired
    <3>4. StoreOrdered' /\ CheckpointSafe'
      BY <2>1, <3>1 DEF IInv, StoreOrdered, CheckpointSafe, SafePosition,
         Delivered, Expired
    <3>5. PrintedStays
      BY <3>1 DEF PrintedStays
    <3>6. ASSUME NEW m \in Nodes \ {n} PROVE NodeInv(m)'
      BY <1>1, <3>1, <3>5, NodeStable DEF IInv, OthersSame
    <3> QED
      BY <1>1, <3>3, <3>4, <3>6 DEF IInv
  <2> QED
    BY <2>2, <2>3
<1>17. ASSUME NEW n \in Nodes, SaveFails(n) PROVE IInv'
  <2>1. \A c \in ckpt' : SafePosition(c.LastEventID)
    BY <1>17, SaveInv DEF SaveFails, AfterFailedSave, SavedRow
  <2> QED
    BY <1>1, <1>17, <2>1, LeaveStep DEF SaveFails
<1>18. ASSUME NEW n \in Nodes, Cancel(n) PROVE IInv'
  <2>1. /\ OthersSame(n)
        /\ UNCHANGED <<events, now, ckpt, out, pc, mem, resume, window, batch, sent>>
    BY <1>1, <1>18 DEF TypeOK, Cancel, OthersSame, SameLocal, db, query
  <2>2. NodeInv(n)'
    BY <2>1 DEF IInv, NodeInv, WindowExpired, QueryFromPosition, BatchComplete,
       InBatch, PrefixPrinted, SafePosition, Delivered, Expired
  <2> QED
    BY <1>1, <2>1, <2>2, LocalStep
<1>19. ASSUME NEW n \in Nodes, Crash(n) PROVE IInv'
  <2>1. \A c \in ckpt' : SafePosition(c.LastEventID)
    BY <1>19, SaveInv DEF Crash, AfterFailedSave, SavedRow
  <2> QED
    BY <1>1, <1>19, <2>1, LeaveStep DEF Crash
<1>20. ASSUME StoreEvent PROVE IInv'
  BY <1>1, <1>20, StoreInv
<1>21. ASSUME ClockTick PROVE IInv'
  BY <1>1, <1>21, ClockInv
<1>22. CASE UNCHANGED vars
  BY <1>1, <1>22 DEF IInv, StoreOrdered, CheckpointSafe, NodeInv, WindowExpired,
     QueryFromPosition, BatchComplete, InBatch, PrefixPrinted, SafePosition,
     Delivered, Expired, vars, db, local
<1> QED
  BY <1>3, <1>4, <1>5, <1>6, <1>7, <1>8, <1>9, <1>10, <1>11, <1>12, <1>13,
     <1>14, <1>15, <1>16, <1>17, <1>18, <1>19, <1>20, <1>21, <1>22
  DEF Next, Step

LEMMA IInvSafe == IInv => NoEventLost
BY ZeroSafe DEF IInv, CheckpointSafe, SafePosition, NoEventLost, Position

(***************************************************************************)
(* The saved checkpoint never passes an event that was not printed (or had *)
(* left the lookback window), for every number of nodes running at once,   *)
(* every batch size, polling or not, whatever is cancelled, crashes or     *)
(* fails - provided rows are committed in the order of their ids and       *)
(* times, and stdout takes every line.                                     *)
(***************************************************************************)
THEOREM NothingLost ==
    ASSUME IdsInOrder, TimesInOrder, ~StdoutMayFail
    PROVE  Spec => []NoEventLost
<1>1. IInv /\ [Next]_vars => IInv'
  BY NextInv
<1> QED
  BY InitInv, <1>1, IInvSafe, PTL DEF Spec
-----------------------------------------------------------------------------
(***************************************************************************)
(* What counts: what total_events_processed says, and how often a run      *)
(* prints an event.  For any number of nodes, running at the same time or  *)
(* not, and rows committed in the order of their ids and times.            *)
(***************************************************************************)

(* The batch in SendEvents: stored events above the position, in the order *)
(* of their ids, none twice.                                               *)
BatchSorted(n) ==
    pc[n] = "send" =>
        /\ \A i \in 1..Len(batch[n]) :
              batch[n][i] \in events /\ batch[n][i].id > mem[n].LastEventID
        /\ \A i, j \in 1..Len(batch[n]) :
              i < j => batch[n][i].id < batch[n][j].id

SortedNode(n) == QueryFromPosition(n) /\ BatchSorted(n)

SortedInv == TypeOK /\ StoreOrdered /\ \A n \in Nodes : SortedNode(n)

-----------------------------------------------------------------------------
(***************************************************************************)
(* The first page in ascending order names no row twice, and names them in *)
(* the order of their timestamps.                                          *)
(***************************************************************************)
LEMMA PageOrder ==
    ASSUME NEW rows, IsFiniteSet(rows),
           NEW opts, opts.Offset = 0, opts.Limit \in Nat, opts.OrderAsc = TRUE,
           NEW b \in GetEvents(rows, opts)
    PROVE  \A i, j \in 1..Len(b) :
              i < j => b[i] # b[j] /\ b[i].timestamp <= b[j].timestamp
<1> DEFINE S == Matching(rows, opts)
           n == Cardinality(S)
           limit == EffectiveLimit(opts)
           last == IF limit < n THEN limit ELSE n
<1>1. IsFiniteSet(S) /\ n \in Nat
  <2>1. S \subseteq rows
    BY DEF Matching
  <2> QED
    BY <2>1, FS_Subset, FS_CardinalityType
<1>2. limit \in Nat \ {0}
  BY DefaultLimitAssumption DEF EffectiveLimit
<1>3. PICK f \in Orderings(S, TRUE) : b = PageOf(f, n, opts)
  BY DEF GetEvents
<1>4. /\ f \in [1..n -> S]
      /\ \A e \in S : \E i \in 1..n : f[i] = e
      /\ \A i, j \in 1..n : i < j => f[i].timestamp <= f[j].timestamp
  BY <1>3 DEF Orderings, InOrder
<1>5. b = SubSeq(f, 1, last)
  <2>1. 0 + limit = limit
    BY <1>2
  <2> QED
    BY <1>1, <1>2, <1>3, <2>1 DEF PageOf
<1>6. last \in Nat /\ last <= n
  BY <1>1, <1>2
<1>7. \A i, j \in 1..n : f[i] = f[j] => i = j
  <2>1. IsFiniteSet(1..n) /\ Cardinality(1..n) = n
    BY <1>1, FS_Interval
  <2>2. f \in Surjection(1..n, S)
    BY <1>4 DEF Surjection
  <2>3. f \in Injection(1..n, S)
    BY <1>1, <2>1, <2>2, FS_SurjSameCardinalityImpliesInj
  <2> QED
    BY <2>3 DEF Injection, IsInjective
<1> HIDE DEF S, n, limit, last
<1>8. /\ Len(b) = last
      /\ \A i \in 1..last : b[i] = f[i]
  <2>1. \A i \in 1..last : f[i] \in S
    BY <1>1, <1>4, <1>6
  <2>2. /\ Len(SubSeq(f, 1, last)) = IF 1 <= last THEN last - 1 + 1 ELSE 0
        /\ \A i \in 1..(last - 1 + 1) : SubSeq(f, 1, last)[i] = f[1 + i - 1]
    BY <1>6, <2>1, SubSeqProperties
  <2> QED
    BY <1>5, <1>6, <2>2
<1> QED
  BY <1>1, <1>4, <1>6, <1>7, <1>8

LEMMA FetchSorted ==
    ASSUME TypeOK, StoreOrdered, NEW n \in Nodes,
           pc[n] = "fetch", QueryFromPosition(n),
           NEW b \in GetEvents(events, Query(n))
    PROVE  /\ b \in Seq(Event)
           /\ \A i \in 1..Len(b) : b[i] \in events /\ b[i].id > mem[n].LastEventID
           /\ \A i, j \in 1..Len(b) : i < j => b[i].id < b[j].id
<1>1. /\ Query(n).Offset = 0
      /\ Query(n).Limit \in Nat
      /\ Query(n).OrderAsc = TRUE
  BY ProcessorAssumption DEF Query, Offset
<1>2. /\ b \in Seq(Event)
      /\ \A i \in 1..Len(b) : b[i] \in events
  BY FetchedType
<1>3. ASSUME NEW i \in 1..Len(b) PROVE b[i].id > mem[n].LastEventID
  <2>1. b \in Seq(Matching(events, Query(n)))
    BY <1>1, FirstPage DEF TypeOK
  <2>2. b[i] \in Matching(events, Query(n))
    BY <2>1, ElementOfSeq
  <2>3. CASE resume[n]
    BY <2>2, <2>3 DEF Matching, Matches, Query
  <2>4. CASE ~resume[n]
    <3>1. mem[n].LastEventID = 0
      BY <2>4 DEF QueryFromPosition
    <3>2. b[i].id \in EventIDs
      BY <2>2 DEF Matching, TypeOK, Event
    <3> QED
      BY <3>1, <3>2 DEF EventIDs
  <2> QED
    BY <2>3, <2>4
<1>4. ASSUME NEW i \in 1..Len(b), NEW j \in 1..Len(b), i < j
      PROVE  b[i].id < b[j].id
  <2>1. b[i] # b[j] /\ b[i].timestamp <= b[j].timestamp
    BY <1>1, <1>4, PageOrder DEF TypeOK
  <2>2. b[i] \in events /\ b[j] \in events /\ b[i] \in Event /\ b[j] \in Event
    BY <1>2 DEF TypeOK
  <2> QED
    BY <2>1, <2>2 DEF StoreOrdered, Event, EventIDs, Times
<1> QED
  BY <1>2, <1>3, <1>4

LEMMA SortedStep ==
    ASSUME SortedInv, TypeOK', NEW n \in Nodes, OthersSame(n), events' = events,
           SortedNode(n)'
    PROVE  SortedInv'
<1>1. StoreOrdered'
  BY DEF SortedInv, StoreOrdered
<1>2. ASSUME NEW m \in Nodes \ {n} PROVE SortedNode(m)'
  <2>1. SortedNode(m) /\ SameLocal(m)
    BY DEF SortedInv, OthersSame
  <2> QED
    BY <2>1 DEF SortedNode, QueryFromPosition, BatchSorted, SameLocal
<1> QED
  BY <1>1, <1>2 DEF SortedInv

LEMMA SortedLeave ==
    ASSUME SortedInv, TypeOK', NEW n \in Nodes, LeaveRun(n) \/ LeavePoll(n),
           events' = events
    PROVE  SortedInv'
<1>1. OthersSame(n) /\ pc'[n] \in {"idle", "wait"}
  BY LeaveEffect DEF SortedInv
<1>2. SortedNode(n)'
  BY <1>1 DEF SortedNode, QueryFromPosition, BatchSorted
<1> QED
  BY <1>1, <1>2, SortedStep

LEMMA SortedInit == Init => SortedInv
BY InitType DEF Init, SortedInv, StoreOrdered, SortedNode, QueryFromPosition,
                BatchSorted

LEMMA SortedNext ==
    ASSUME IdsInOrder, TimesInOrder
    PROVE  SortedInv /\ [Next]_vars => SortedInv'
<1> SUFFICES ASSUME SortedInv, [Next]_vars PROVE SortedInv'
  OBVIOUS
<1>1. TypeOK /\ TypeOK'
  BY NextType DEF SortedInv
<1> USE DEF db, query
<1>2. ASSUME NEW n \in Nodes,
             CallRun(n) \/ LoadCheckpoint(n) \/ Tick(n) \/ AdvanceCheckpoint(n)
      PROVE  SortedInv'
  <2>1. /\ OthersSame(n) /\ events' = events
        /\ pc'[n] \in {"load", "poll", "save"}
    BY <1>1, <1>2 DEF TypeOK, CallRun, LoadCheckpoint, Tick, AdvanceCheckpoint,
       OthersSame, SameLocal
  <2>2. SortedNode(n)'
    BY <2>1 DEF SortedNode, QueryFromPosition, BatchSorted
  <2> QED
    BY <1>1, <2>1, <2>2, SortedStep
<1>3. ASSUME NEW n \in Nodes, BeginPoll(n) PROVE SortedInv'
  <2>1. /\ OthersSame(n) /\ UNCHANGED <<events, mem>>
        /\ pc'[n] = "fetch" /\ resume'[n] = HasPosition(mem[n])
    BY <1>1, <1>3 DEF TypeOK, BeginPoll, OthersSame, SameLocal
  <2>2. SortedNode(n)'
    BY <1>1, <2>1 DEF SortedNode, QueryFromPosition, BatchSorted, HasPosition,
       TypeOK, Checkpoint
  <2> QED
    BY <1>1, <2>1, <2>2, SortedStep
<1>4. ASSUME NEW n \in Nodes, FetchBatch(n) PROVE SortedInv'
  <2>1. PICK b \in GetEvents(events, Query(n)) :
            batch' = [batch EXCEPT ![n] = b]
    BY <1>4 DEF FetchBatch
  <2>2. /\ OthersSame(n) /\ UNCHANGED <<events, mem, resume>>
        /\ pc[n] = "fetch" /\ pc'[n] = "send" /\ batch'[n] = b
    BY <1>1, <1>4, <2>1 DEF TypeOK, FetchBatch, OthersSame, SameLocal
  <2>3. StoreOrdered /\ SortedNode(n)
    BY DEF SortedInv
  <2>4. BatchSorted(n)'
    BY <1>1, <2>2, <2>3, FetchSorted DEF SortedNode, BatchSorted
  <2>5. SortedNode(n)'
    BY <2>2, <2>3, <2>4 DEF SortedNode, QueryFromPosition
  <2> QED
    BY <1>1, <2>2, <2>5, SortedStep
<1>5. ASSUME NEW n \in Nodes, WriteLine(n) \/ LineLost(n) PROVE SortedInv'
  <2>1. OthersSame(n) /\ UNCHANGED <<events, pc, mem, resume, batch>>
    BY <1>1, <1>5 DEF TypeOK, WriteLine, LineLost, OthersSame, SameLocal
  <2>2. SortedNode(n)'
    BY <2>1 DEF SortedInv, SortedNode, QueryFromPosition, BatchSorted
  <2> QED
    BY <1>1, <2>1, <2>2, SortedStep
<1>6. ASSUME NEW n \in Nodes,
             \/ LoadFails(n) \/ Return(n) \/ FetchEmpty(n) \/ FetchFails(n)
             \/ SendFails(n) \/ SaveFails(n) \/ Crash(n)
      PROVE  SortedInv'
  <2>1. events' = events /\ (LeaveRun(n) \/ LeavePoll(n))
    BY <1>6 DEF LoadFails, Return, FetchEmpty, FetchFails, SendFails, SaveFails,
       Crash
  <2> QED
    BY <1>1, <2>1, SortedLeave
<1>7. ASSUME NEW n \in Nodes, SaveCheckpoint(n) PROVE SortedInv'
  <2>1. CASE ShortBatch(batch[n])
    BY <1>1, <1>7, <2>1, SortedLeave DEF SaveCheckpoint
  <2>2. CASE ~ShortBatch(batch[n])
    <3>1. /\ OthersSame(n) /\ events' = events
          /\ pc'[n] = "fetch" /\ resume'[n] = TRUE
      BY <1>1, <1>7, <2>2 DEF TypeOK, SaveCheckpoint, OthersSame, SameLocal
    <3>2. SortedNode(n)'
      BY <3>1 DEF SortedNode, QueryFromPosition, BatchSorted
    <3> QED
      BY <1>1, <3>1, <3>2, SortedStep
  <2> QED
    BY <2>1, <2>2
<1>8. ASSUME StoreEvent PROVE SortedInv'
  <2>1. PICK e \in Event :
            /\ \A f \in events : f.id < e.id /\ f.timestamp < e.timestamp
            /\ events' = events \cup {e}
    BY <1>8 DEF StoreEvent
  <2>2. StoreOrdered'
    BY <1>1, <2>1 DEF SortedInv, StoreOrdered, TypeOK, Event, EventIDs, Times
  <2>3. UNCHANGED <<pc, mem, resume, batch>>
    BY <1>8 DEF StoreEvent, local
  <2> QED
    BY <1>1, <2>1, <2>2, <2>3
    DEF SortedInv, SortedNode, QueryFromPosition, BatchSorted
<1>9. ASSUME (\E n \in Nodes : Cancel(n)) \/ ClockTick \/ UNCHANGED vars
      PROVE  SortedInv'
  <2>1. UNCHANGED <<events, pc, mem, resume, batch>>
    BY <1>9 DEF Cancel, ClockTick, vars, local
  <2> QED
    BY <1>1, <2>1 DEF SortedInv, StoreOrdered, SortedNode, QueryFromPosition,
       BatchSorted
<1> QED
  BY <1>2, <1>3, <1>4, <1>5, <1>6, <1>7, <1>8, <1>9 DEF Next, Step

-----------------------------------------------------------------------------
(* How often an event is printed.                                          *)

(* Run of node n may still print the event with id i: its position does not *)
(* cover it, and the batch at hand has not sent it yet.                    *)
MayStillPrint(n, i) ==
    \/ pc[n] = "load"
    \/ /\ pc[n] \notin {"idle", "load"}
       /\ mem[n].LastEventID < i
       /\ ~ (pc[n] = "send" /\ \E j \in 1..sent[n] : batch[n][j].id = i)

Candidates(i) == { n \in Nodes : MayStillPrint(n, i) }

(* The prints so far and those still possible are no more than the runs.   *)
OnceInv ==
    /\ SortedInv
    /\ \A i \in EventIDs : out[i] + Cardinality(Candidates(i)) <= runs

LEMMA CandidatesFinite ==
    ASSUME IsFiniteSet(Nodes), NEW i
    PROVE  IsFiniteSet(Candidates(i)) /\ Cardinality(Candidates(i)) \in Nat
<1>1. Candidates(i) \subseteq Nodes
  BY DEF Candidates
<1> QED
  BY <1>1, FS_Subset, FS_CardinalityType

(* A step that prints nothing and opens no new possibility.                *)
LEMMA NoNewCandidate ==
    ASSUME IsFiniteSet(Nodes), OnceInv, SortedInv', runs' = runs, out' = out,
           \A i \in EventIDs, n \in Nodes :
               MayStillPrint(n, i)' => MayStillPrint(n, i)
    PROVE  OnceInv'
<1>1. ASSUME NEW i \in EventIDs
      PROVE  out[i] + Cardinality(Candidates(i)') <= runs
  <2>1. Candidates(i)' \subseteq Candidates(i)
    BY DEF Candidates
  <2>2. /\ IsFiniteSet(Candidates(i))
        /\ Cardinality(Candidates(i)) \in Nat
    BY CandidatesFinite
  <2>3. /\ Cardinality(Candidates(i)') \in Nat
        /\ Cardinality(Candidates(i)') <= Cardinality(Candidates(i))
    BY <2>1, <2>2, FS_Subset, FS_CardinalityType
  <2>4. out[i] \in Nat /\ runs \in Nat
    BY ProcessorAssumption DEF OnceInv, SortedInv, TypeOK
  <2> QED
    BY <2>2, <2>3, <2>4 DEF OnceInv
<1> QED
  BY <1>1 DEF OnceInv

LEMMA OnceStep ==
    ASSUME IsFiniteSet(Nodes), OnceInv, SortedInv', runs' = runs, out' = out,
           NEW n \in Nodes, OthersSame(n),
           \A i \in EventIDs : MayStillPrint(n, i)' => MayStillPrint(n, i)
    PROVE  OnceInv'
<1>1. ASSUME NEW i \in EventIDs, NEW m \in Nodes \ {n}
      PROVE  MayStillPrint(m, i)' => MayStillPrint(m, i)
  BY DEF OthersSame, SameLocal, MayStillPrint
<1> QED
  BY <1>1, NoNewCandidate

LEMMA OnceLeave ==
    ASSUME IsFiniteSet(Nodes), OnceInv, SortedInv', runs' = runs, out' = out,
           NEW n \in Nodes, pc[n] \notin {"idle", "send"},
           LeaveRun(n) \/ LeavePoll(n)
    PROVE  OnceInv'
<1>1. TypeOK
  BY DEF OnceInv, SortedInv
<1>2. OthersSame(n)
  BY <1>1, LeaveEffect
<1>3. pc'[n] = "idle" \/ (pc'[n] = "wait" /\ mem'[n] = mem[n])
  BY <1>1 DEF LeavePoll, LeaveRun, TypeOK
<1>4. \A i \in EventIDs : MayStillPrint(n, i)' => MayStillPrint(n, i)
  BY <1>3 DEF MayStillPrint
<1> QED
  BY <1>2, <1>4, OnceStep

(* A line is printed: its event is one candidate of this node less.        *)
LEMMA OnceWrite ==
    ASSUME IsFiniteSet(Nodes), OnceInv, SortedInv', NEW n \in Nodes, WriteLine(n)
    PROVE  OnceInv'
<1> DEFINE k == batch[n][sent[n] + 1].id
<1>1. TypeOK /\ SortedNode(n)
  BY DEF OnceInv, SortedInv
<1>2. /\ pc[n] = "send"
      /\ sent[n] \in Nat /\ sent[n] + 1 \in 1..Len(batch[n])
      /\ UNCHANGED <<pc, mem, batch, runs>>
      /\ sent' = [sent EXCEPT ![n] = @ + 1]
      /\ out' = [out EXCEPT ![k] = @ + 1]
  BY <1>1, LenProperties DEF TypeOK, WriteLine, db
<1>3. k \in EventIDs /\ mem[n].LastEventID < k
  <2>1. batch[n][sent[n] + 1] \in Event /\ mem[n] \in Checkpoint
    BY <1>1, <1>2, ElementOfSeq DEF TypeOK
  <2>2. batch[n][sent[n] + 1].id > mem[n].LastEventID
    BY <1>1, <1>2 DEF SortedNode, BatchSorted
  <2> QED
    BY <2>1, <2>2 DEF Event, EventIDs, Checkpoint
<1>4. \A j \in 1..sent[n] : batch[n][j].id < k
  BY <1>1, <1>2 DEF SortedNode, BatchSorted
<1>5. MayStillPrint(n, k)
  BY <1>2, <1>3, <1>4 DEF MayStillPrint, EventIDs
<1>6. /\ sent'[n] = sent[n] + 1 /\ sent'[n] \in 1..sent'[n]
      /\ \A m \in Nodes \ {n} : sent'[m] = sent[m]
  BY <1>1, <1>2 DEF TypeOK
<1>7. \A i : i = k => ~MayStillPrint(n, i)'
  BY <1>2, <1>6 DEF MayStillPrint
<1>8. ASSUME NEW i \in EventIDs, NEW m \in Nodes
      PROVE  MayStillPrint(m, i)' => MayStillPrint(m, i)
  <2>1. CASE m = n
    BY <1>2, <1>6, <2>1 DEF MayStillPrint
  <2>2. CASE m # n
    BY <1>2, <1>6, <2>2 DEF MayStillPrint
  <2> QED
    BY <2>1, <2>2
<1>9. ASSUME NEW i \in EventIDs
      PROVE  out'[i] + Cardinality(Candidates(i)') <= runs
  <2> DEFINE A == Candidates(i)
             B == Candidates(i)'
  <2>1. IsFiniteSet(A) /\ Cardinality(A) \in Nat
    BY CandidatesFinite
  <2>2. B \subseteq A
    BY <1>8 DEF Candidates
  <2>3. Cardinality(B) \in Nat /\ Cardinality(B) <= Cardinality(A)
    BY <2>1, <2>2, FS_Subset, FS_CardinalityType
  <2>4. /\ out[i] \in Nat /\ runs \in Nat
        /\ out[i] + Cardinality(A) <= runs
    BY ProcessorAssumption DEF OnceInv, SortedInv, TypeOK
  <2> SUFFICES out'[i] + Cardinality(B) <= runs
    OBVIOUS
  <2>5. CASE i # k
    <3>1. out'[i] = out[i]
      BY <1>1, <1>2, <1>3, <2>5 DEF TypeOK
    <3> HIDE DEF A, B
    <3> QED
      BY <2>1, <2>3, <2>4, <3>1
  <2>6. CASE i = k
    <3>1. out'[i] = out[i] + 1
      BY <1>1, <1>2, <1>3, <2>6 DEF TypeOK
    <3>2. n \in A /\ n \notin B
      BY <1>5, <1>7, <2>6 DEF Candidates
    <3> HIDE DEF A, B
    <3>3. Cardinality(B) # Cardinality(A)
      BY <2>1, <2>2, <3>2, FS_Subset
    <3> QED
      BY <2>1, <2>3, <2>4, <3>1, <3>3
  <2> QED
    BY <2>5, <2>6
<1> QED
  BY <1>2, <1>9 DEF OnceInv

(* A run begins, and may print every event once.                           *)
LEMMA OnceCall ==
    ASSUME IsFiniteSet(Nodes), OnceInv, SortedInv', NEW n \in Nodes, CallRun(n)
    PROVE  OnceInv'
<1>1. TypeOK
  BY DEF OnceInv, SortedInv
<1>2. /\ out' = out /\ runs' = runs + 1
      /\ pc[n] = "idle" /\ OthersSame(n)
  BY <1>1 DEF TypeOK, CallRun, query, OthersSame, SameLocal
<1>3. ASSUME NEW i \in EventIDs
      PROVE  out'[i] + Cardinality(Candidates(i)') <= runs'
  <2> DEFINE A == Candidates(i)
             B == Candidates(i)'
  <2>1. IsFiniteSet(A) /\ Cardinality(A) \in Nat
    BY CandidatesFinite
  <2>2. B \subseteq A \cup {n}
    BY <1>2 DEF Candidates, MayStillPrint, OthersSame, SameLocal
  <2>3. /\ out[i] \in Nat /\ runs \in Nat
        /\ out[i] + Cardinality(A) <= runs
    BY ProcessorAssumption, <1>1 DEF OnceInv, TypeOK
  <2> SUFFICES out'[i] + Cardinality(B) <= runs'
    OBVIOUS
  <2> HIDE DEF A, B
  <2>4. /\ IsFiniteSet(A \cup {n})
        /\ Cardinality(A \cup {n}) \in {Cardinality(A), Cardinality(A) + 1}
    BY <2>1, FS_AddElement
  <2>5. /\ Cardinality(B) \in Nat
        /\ Cardinality(B) <= Cardinality(A \cup {n})
    BY <2>2, <2>4, FS_Subset, FS_CardinalityType
  <2> QED
    BY <1>2, <2>1, <2>3, <2>4, <2>5
<1> QED
  BY <1>3 DEF OnceInv

(* The batch is behind the position once it is sent.                       *)
LEMMA OnceAdvance ==
    ASSUME IsFiniteSet(Nodes), OnceInv, SortedInv', NEW n \in Nodes,
           AdvanceCheckpoint(n)
    PROVE  OnceInv'
<1> DEFINE last == batch[n][Len(batch[n])].id
<1>1. TypeOK /\ SortedNode(n)
  BY DEF OnceInv, SortedInv
<1>2. /\ OthersSame(n) /\ UNCHANGED <<out, runs>>
      /\ pc[n] = "send" /\ pc'[n] = "save" /\ sent[n] = Len(batch[n])
      /\ mem'[n].LastEventID = last
  BY <1>1 DEF TypeOK, AdvanceCheckpoint, Advanced, OthersSame, SameLocal, db, query
<1>3. Len(batch[n]) \in 1..Len(batch[n])
  BY <1>1, <1>2, EmptySeq DEF TypeOK
<1>4. ASSUME NEW j \in 1..Len(batch[n]) PROVE batch[n][j].id \in Int
  <2>1. batch[n] \in Seq(Event)
    BY <1>1 DEF TypeOK
  <2>2. batch[n][j] \in Event
    BY <2>1, ElementOfSeq
  <2> QED
    BY <2>2 DEF Event, EventIDs
<1>5. ASSUME NEW j \in 1..Len(batch[n]) PROVE batch[n][j].id <= last
  <2>1. CASE j = Len(batch[n])
    BY <1>4, <2>1
  <2>2. CASE j < Len(batch[n])
    BY <1>1, <1>2, <1>3, <1>4, <2>2 DEF SortedNode, BatchSorted
  <2> QED
    BY <1>3, <2>1, <2>2
<1>6. mem[n].LastEventID \in Int /\ mem[n].LastEventID < last
  BY <1>1, <1>2, <1>3, <1>4 DEF SortedNode, BatchSorted, TypeOK, Checkpoint
<1>7. ASSUME NEW i \in EventIDs, MayStillPrint(n, i)' PROVE MayStillPrint(n, i)
  <2>1. last < i /\ i \in Int
    BY <1>2, <1>7 DEF MayStillPrint, EventIDs
  <2>2. last \in Int
    BY <1>3, <1>4
  <2>3. \A j \in 1..sent[n] : batch[n][j].id # i
    BY <1>2, <1>4, <1>5, <2>1, <2>2
  <2>4. mem[n].LastEventID < i
    BY <1>6, <2>1, <2>2
  <2> QED
    BY <1>2, <2>3, <2>4 DEF MayStillPrint
<1> QED
  BY <1>2, <1>7, OnceStep

LEMMA OnceNext ==
    ASSUME IsFiniteSet(Nodes), IdsInOrder, TimesInOrder, ~SendMayFail
    PROVE  OnceInv /\ [Next]_vars => OnceInv'
<1> SUFFICES ASSUME OnceInv, [Next]_vars PROVE OnceInv'
  OBVIOUS
<1>1. SortedInv' /\ TypeOK /\ TypeOK'
  BY SortedNext, NextType DEF OnceInv, SortedInv
<1> USE DEF db, query
<1>2. ASSUME NEW n \in Nodes, CallRun(n) PROVE OnceInv'
  BY <1>1, <1>2, OnceCall
<1>3. ASSUME NEW n \in Nodes,
             LoadCheckpoint(n) \/ Tick(n) \/ BeginPoll(n) \/ Cancel(n)
      PROVE  OnceInv'
  <2>1. OthersSame(n) /\ UNCHANGED <<out, runs, batch, sent>>
    BY <1>1, <1>3 DEF TypeOK, LoadCheckpoint, Tick, BeginPoll, Cancel,
       OthersSame, SameLocal
  <2>2. \/ pc[n] = "load"
        \/ /\ pc[n] \in {"wait", "poll"} /\ pc'[n] \in {"poll", "fetch"}
           /\ mem'[n] = mem[n]
        \/ /\ pc'[n] = pc[n] /\ mem'[n] = mem[n]
    BY <1>1, <1>3 DEF TypeOK, LoadCheckpoint, Tick, BeginPoll, Cancel
  <2>3. \A i \in EventIDs : MayStillPrint(n, i)' => MayStillPrint(n, i)
    BY <2>1, <2>2 DEF MayStillPrint
  <2> QED
    BY <1>1, <2>1, <2>3, OnceStep
<1>4. ASSUME NEW n \in Nodes,
             \/ LoadFails(n) \/ Return(n) \/ FetchEmpty(n) \/ FetchFails(n)
             \/ SaveFails(n)
      PROVE  OnceInv'
  <2>1. /\ UNCHANGED <<out, runs>>
        /\ pc[n] \notin {"idle", "send"}
        /\ LeaveRun(n) \/ LeavePoll(n)
    BY <1>4 DEF LoadFails, Return, FetchEmpty, FetchFails, SaveFails
  <2> QED
    BY <1>1, <2>1, OnceLeave
<1>5. ASSUME NEW n \in Nodes, FetchBatch(n) PROVE OnceInv'
  <2>1. /\ OthersSame(n) /\ UNCHANGED <<out, runs, mem>>
        /\ pc[n] = "fetch" /\ pc'[n] = "send"
    BY <1>1, <1>5 DEF TypeOK, FetchBatch, OthersSame, SameLocal
  <2>2. \A i \in EventIDs : MayStillPrint(n, i)' => MayStillPrint(n, i)
    BY <2>1 DEF MayStillPrint
  <2> QED
    BY <1>1, <2>1, <2>2, OnceStep
<1>6. ASSUME NEW n \in Nodes, WriteLine(n) PROVE OnceInv'
  BY <1>1, <1>6, OnceWrite
<1>7. ASSUME NEW n \in Nodes, LineLost(n) PROVE OnceInv'
  <2>1. /\ OthersSame(n) /\ UNCHANGED <<out, runs, pc, mem, batch>>
        /\ sent'[n] = sent[n] + 1 /\ sent[n] \in Nat
    BY <1>1, <1>7 DEF TypeOK, LineLost, OthersSame, SameLocal
  <2>2. \A i \in EventIDs : MayStillPrint(n, i)' => MayStillPrint(n, i)
    BY <2>1 DEF MayStillPrint
  <2> QED
    BY <1>1, <2>1, <2>2, OnceStep
<1>8. ASSUME NEW n \in Nodes, SendFails(n) PROVE OnceInv'
  BY <1>8 DEF SendFails
<1>9. ASSUME NEW n \in Nodes, AdvanceCheckpoint(n) PROVE OnceInv'
  BY <1>1, <1>9, OnceAdvance
<1>10. ASSUME NEW n \in Nodes, SaveCheckpoint(n) PROVE OnceInv'
  <2>1. CASE ShortBatch(batch[n])
    BY <1>1, <1>10, <2>1, OnceLeave DEF SaveCheckpoint
  <2>2. CASE ~ShortBatch(batch[n])
    <3>1. /\ OthersSame(n) /\ UNCHANGED <<out, runs, mem>>
          /\ pc[n] = "save" /\ pc'[n] = "fetch"
      BY <1>1, <1>10, <2>2 DEF TypeOK, SaveCheckpoint, OthersSame, SameLocal
    <3>2. \A i \in EventIDs : MayStillPrint(n, i)' => MayStillPrint(n, i)
      BY <3>1 DEF MayStillPrint
    <3> QED
      BY <1>1, <3>1, <3>2, OnceStep
  <2> QED
    BY <2>1, <2>2
<1>11. ASSUME NEW n \in Nodes, Crash(n) PROVE OnceInv'
  <2>1. /\ OthersSame(n) /\ UNCHANGED <<out, runs>> /\ pc'[n] = "idle"
    BY <1>1, <1>11, LeaveEffect DEF TypeOK, Crash, LeaveRun
  <2>2. \A i \in EventIDs : MayStillPrint(n, i)' => MayStillPrint(n, i)
    BY <2>1 DEF MayStillPrint
  <2> QED
    BY <1>1, <2>1, <2>2, OnceStep
<1>12. ASSUME StoreEvent \/ ClockTick \/ UNCHANGED vars PROVE OnceInv'
  <2>1. UNCHANGED <<out, runs, pc, mem, batch, sent>>
    BY <1>12 DEF StoreEvent, ClockTick, vars, local
  <2> QED
    BY <1>1, <2>1, NoNewCandidate DEF MayStillPrint
<1> QED
  BY <1>2, <1>3, <1>4, <1>5, <1>6, <1>7, <1>8, <1>9, <1>10, <1>11, <1>12
  DEF Next, Step

LEMMA OnceInit == ASSUME IsFiniteSet(Nodes) PROVE Init => OnceInv
<1> SUFFICES ASSUME Init PROVE OnceInv
  OBVIOUS
<1>1. ASSUME NEW i \in EventIDs
      PROVE  out[i] + Cardinality(Candidates(i)) <= runs
  <2>1. Candidates(i) = {}
    BY DEF Init, Candidates, MayStillPrint
  <2> QED
    BY <2>1, FS_EmptySet DEF Init
<1> QED
  BY <1>1, SortedInit DEF OnceInv

LEMMA OnceInvBounds ==
    ASSUME IsFiniteSet(Nodes), OnceInv
    PROVE  OncePerRun
<1>1. SUFFICES ASSUME NEW i \in EventIDs PROVE out[i] <= runs
  BY DEF OncePerRun
<1>2. Cardinality(Candidates(i)) \in Nat
  BY CandidatesFinite
<1>3. out[i] \in Nat /\ runs \in Nat /\ out[i] + Cardinality(Candidates(i)) <= runs
  BY ProcessorAssumption DEF OnceInv, SortedInv, TypeOK
<1> QED
  BY <1>2, <1>3

(***************************************************************************)
(* Every run prints an event at most once, however many nodes run at the   *)
(* same time and whatever is cancelled, crashes or fails to be saved, for  *)
(* rows committed in the order of their ids and times - as long as no      *)
(* writer fails in the middle of a batch.                                  *)
(***************************************************************************)
THEOREM PrintsOncePerRun ==
    ASSUME IsFiniteSet(Nodes), IdsInOrder, TimesInOrder, ~SendMayFail
    PROVE  Spec => []OncePerRun
<1>1. Init => OnceInv
  BY OnceInit
<1>2. OnceInv /\ [Next]_vars => OnceInv'
  BY OnceNext
<1>3. OnceInv => OncePerRun
  BY OnceInvBounds
<1> QED
  BY <1>1, <1>2, <1>3, PTL DEF Spec

-----------------------------------------------------------------------------
(* What total_events_processed counts.                                     *)

Below(k) == { e \in events : e.id <= k }

Counts(c) ==
    /\ c.LastEventID = 0 \/ \E e \in events : e.id = c.LastEventID
    /\ c.TotalEventsProcessed = Cardinality(Below(c.LastEventID))

(* The batch holds everything between the position and its last event.     *)
BatchWhole(n) ==
    pc[n] = "send" =>
        \A e \in events :
            mem[n].LastEventID < e.id /\ e.id <= batch[n][Len(batch[n])].id =>
                InBatch(n, e)

TotalNode(n) == window[n] = {} /\ Counts(mem[n]) /\ BatchWhole(n)

TotalInv ==
    /\ SortedInv
    /\ \A c \in ckpt : Counts(c)
    /\ \A n \in Nodes : TotalNode(n)

(* A sequence without repetitions has as many elements as positions.       *)
LEMMA SeqCount ==
    ASSUME NEW S, NEW b \in Seq(S),
           \A i, j \in 1..Len(b) : i < j => b[i] # b[j]
    PROVE  LET T == { b[i] : i \in 1..Len(b) }
           IN  IsFiniteSet(T) /\ Cardinality(T) = Len(b)
<1> DEFINE T == { b[i] : i \in 1..Len(b) }
           f == [i \in 1..Len(b) |-> b[i]]
<1>1. Len(b) \in Nat
  BY LenProperties
<1>2. IsFiniteSet(1..Len(b)) /\ Cardinality(1..Len(b)) = Len(b)
  <2>1. ASSUME NEW k \in Nat PROVE IsFiniteSet(1..k) /\ Cardinality(1..k) = k
    BY FS_Interval
  <2> QED
    BY <1>1, <2>1
<1>3. \A i, j \in 1..Len(b) : f[i] = f[j] => i = j
  BY <1>1
<1>4. f \in Bijection(1..Len(b), T)
  BY <1>3 DEF Bijection, Injection, Surjection, IsInjective
<1> HIDE DEF T, f
<1>5. IsFiniteSet(T) /\ Cardinality(T) = Cardinality(1..Len(b))
  BY <1>2, <1>4, FS_Bijection DEF ExistsBijection
<1> QED
  BY <1>2, <1>5 DEF T

LEMMA FreshCounts == ASSUME TypeOK PROVE Counts(FreshCheckpoint)
<1>1. Below(0) = {}
  BY DEF Below, TypeOK, Event, EventIDs
<1> QED
  BY <1>1, FS_EmptySet DEF Counts, FreshCheckpoint

LEMMA TotalStep ==
    ASSUME TotalInv, SortedInv', NEW n \in Nodes, OthersSame(n),
           events' = events, \A c \in ckpt' : Counts(c), TotalNode(n)'
    PROVE  TotalInv'
<1>1. ASSUME NEW m \in Nodes \ {n} PROVE TotalNode(m)'
  <2>1. TotalNode(m) /\ SameLocal(m)
    BY DEF TotalInv, OthersSame
  <2>2. Counts(mem[m])'
    BY <2>1 DEF TotalNode, Counts, Below, SameLocal
  <2>3. BatchWhole(m)'
    BY <2>1 DEF TotalNode, BatchWhole, InBatch, SameLocal
  <2> QED
    BY <2>1, <2>2, <2>3 DEF TotalNode, SameLocal
<1>2. \A c \in ckpt' : Counts(c)'
  BY DEF Counts, Below
<1> QED
  BY <1>1, <1>2 DEF TotalInv

LEMMA TotalLeave ==
    ASSUME TotalInv, SortedInv', NEW n \in Nodes, LeaveRun(n) \/ LeavePoll(n),
           events' = events, ckpt' \in {ckpt, {mem[n]}}
    PROVE  TotalInv'
<1>1. TypeOK
  BY DEF TotalInv, SortedInv
<1>2. /\ pc'[n] \in {"idle", "wait"} /\ window'[n] = {} /\ OthersSame(n)
      /\ mem'[n] = mem[n] \/ mem'[n] = FreshCheckpoint
  BY <1>1, LeaveEffect
<1>3. Counts(mem'[n])
  BY <1>1, <1>2, FreshCounts DEF TotalInv, TotalNode
<1>4. TotalNode(n)'
  BY <1>2, <1>3 DEF TotalNode, BatchWhole, Counts, Below
<1>5. \A c \in ckpt' : Counts(c)
  BY DEF TotalInv, TotalNode
<1> QED
  BY <1>2, <1>4, <1>5, TotalStep

(* A page without a window holds everything up to its last event.          *)
LEMMA FetchWhole ==
    ASSUME SortedInv, NEW n \in Nodes, pc[n] = "fetch", window[n] = {},
           NEW b \in GetEvents(events, Query(n)), b # <<>>,
           NEW e \in events, mem[n].LastEventID < e.id, e.id <= b[Len(b)].id
    PROVE  \E i \in 1..Len(b) : b[i] = e
<1>1. TypeOK /\ StoreOrdered /\ SortedNode(n)
  BY DEF SortedInv
<1>2. /\ b \in Seq(Event)
      /\ \A i \in 1..Len(b) : b[i] \in events
  BY <1>1, FetchedType
<1>3. Len(b) \in 1..Len(b)
  BY <1>2, EmptySeq
<1>4. e \in Event /\ b[Len(b)] \in Event /\ mem[n] \in Checkpoint
  BY <1>1, <1>2, <1>3 DEF TypeOK
<1>5. e \in Matching(events, Query(n))
  BY <1>1, <1>4
  DEF Matching, Matches, Query, Event, EventIDs, Checkpoint
<1>6. \/ \E i \in 1..Len(b) : b[i] = e
      \/ \A i \in 1..Len(b) : b[i].timestamp <= e.timestamp
  <2>1. /\ Query(n).Offset = 0
        /\ Query(n).Limit \in Nat
        /\ Query(n).OrderAsc = TRUE
    BY ProcessorAssumption DEF Query, Offset
  <2> QED
    BY <1>1, <1>5, <2>1, FirstPage DEF TypeOK
<1>7. CASE b[Len(b)].timestamp <= e.timestamp
  <2>1. b[Len(b)] = e
    BY <1>1, <1>2, <1>3, <1>4, <1>7 DEF StoreOrdered, Event, EventIDs, Times
  <2> QED
    BY <1>3, <2>1
<1> QED
  BY <1>3, <1>6, <1>7

(* A batch that is sent adds as many events as lie between the positions.  *)
LEMMA TotalAdvance ==
    ASSUME TotalInv, SortedInv', NEW n \in Nodes, AdvanceCheckpoint(n)
    PROVE  TotalInv'
<1> DEFINE b == batch[n]
           k == mem[n].LastEventID
           last == b[Len(b)].id
           T == { b[i] : i \in 1..Len(b) }
<1>1. TypeOK /\ SortedNode(n) /\ TotalNode(n)
  BY DEF TotalInv, SortedInv
<1>2. /\ OthersSame(n) /\ UNCHANGED <<events, ckpt, window>>
      /\ pc[n] = "send" /\ pc'[n] = "save"
      /\ mem'[n] = Advanced(mem[n], b)
  BY <1>1 DEF TypeOK, AdvanceCheckpoint, OthersSame, SameLocal, db, query
<1>3. b \in Seq(Event) /\ Len(b) \in 1..Len(b) /\ Len(b) \in Nat
  BY <1>1, <1>2, EmptySeq, LenProperties DEF TypeOK
<1>4. ASSUME NEW i \in 1..Len(b)
      PROVE  b[i] \in events /\ k < b[i].id /\ b[i].id \in Int /\ b[i].id <= last
  <2>1. ASSUME NEW j \in 1..Len(b)
        PROVE  b[j] \in events /\ b[j].id > k /\ b[j].id \in Int
    BY <1>1, <1>2 DEF SortedNode, BatchSorted, TypeOK, Event, EventIDs
  <2>2. k \in Int
    BY <1>1 DEF TypeOK, Checkpoint
  <2>3. b[i].id <= last
    <3>1. CASE i = Len(b)
      BY <2>1, <3>1
    <3>2. CASE i < Len(b)
      <4>1. b[i].id < last
        BY <1>1, <1>2, <1>3, <3>2 DEF SortedNode, BatchSorted
      <4>2. last \in Int
        BY <1>3, <2>1
      <4> QED
        BY <2>1, <4>1, <4>2
    <3> QED
      BY <1>3, <3>1, <3>2
  <2> HIDE DEF k
  <2> QED
    BY <2>1, <2>2, <2>3
<1>5. k \in Int /\ last \in Int /\ k < last
  BY <1>1, <1>3, <1>4 DEF TypeOK, Checkpoint
<1>6. ASSUME NEW e \in events, k < e.id, e.id <= last PROVE e \in T
  BY <1>1, <1>2, <1>6 DEF TotalNode, BatchWhole, InBatch
<1>7. \A e \in events : e.id \in Int
  BY <1>1 DEF TypeOK, Event, EventIDs
<1>8. Below(last) = Below(k) \cup T /\ Below(k) \cap T = {}
  <2>1. ASSUME NEW e \in Below(last) PROVE e \in Below(k) \cup T
    BY <1>5, <1>6, <1>7 DEF Below
  <2>2. ASSUME NEW e \in Below(k) PROVE e \in Below(last)
    BY <1>5, <1>7 DEF Below
  <2>3. ASSUME NEW e \in T PROVE e \in Below(last) /\ e \notin Below(k)
    BY <1>4, <1>5 DEF Below
  <2> HIDE DEF T
  <2> QED
    BY <2>1, <2>2, <2>3
<1>9. Cardinality(Below(last)) = Cardinality(Below(k)) + Len(b)
  <2>1. IsFiniteSet(T) /\ Cardinality(T) = Len(b)
    <3>1. \A i, j \in 1..Len(b) : i < j => b[i] # b[j]
      BY <1>1, <1>2, <1>4 DEF SortedNode, BatchSorted
    <3> QED
      BY <1>3, <3>1, SeqCount
  <2>2. IsFiniteSet(Below(k))
    BY <1>1, FS_Subset DEF Below, TypeOK
  <2> HIDE DEF T, b, k, last
  <2>3. /\ Cardinality(Below(k)) \in Nat
        /\ Cardinality(Below(k) \cup T) =
              Cardinality(Below(k)) + Cardinality(T) - Cardinality({})
    BY <1>8, <2>1, <2>2, FS_Union, FS_CardinalityType
  <2> QED
    BY <1>3, <1>8, <2>1, <2>3, FS_EmptySet
<1>10. Counts(Advanced(mem[n], b))
  <2>1. b[Len(b)] \in events
    BY <1>3, <1>4
  <2>2. mem[n].TotalEventsProcessed = Cardinality(Below(k))
    BY <1>1 DEF TotalNode, Counts
  <2> QED
    BY <1>9, <2>1, <2>2 DEF Counts, Advanced
<1>11. TotalNode(n)'
  BY <1>1, <1>2, <1>10 DEF TotalNode, BatchWhole, Counts, Below
<1>12. \A c \in ckpt' : Counts(c)
  BY <1>2 DEF TotalInv
<1> QED
  BY <1>2, <1>11, <1>12, TotalStep

(* A new event is above every position.                                    *)
LEMMA TotalStore ==
    ASSUME IdsInOrder, TimesInOrder, TotalInv, SortedInv', StoreEvent
    PROVE  TotalInv'
<1>1. TypeOK
  BY DEF TotalInv, SortedInv
<1>2. PICK e \in Event :
          /\ \A f \in events : f.id < e.id
          /\ events' = events \cup {e}
  BY DEF StoreEvent
<1>3. UNCHANGED <<ckpt, pc, mem, window, batch>>
  BY DEF StoreEvent, local
<1>4. e.id \in Nat \ {0}
  BY DEF Event, EventIDs
<1>5. ASSUME NEW c \in Checkpoint, Counts(c)
      PROVE  Counts(c)' /\ c.LastEventID < e.id
  <2>1. c.LastEventID < e.id /\ c.LastEventID \in Nat
    BY <1>2, <1>4, <1>5 DEF Counts, Checkpoint
  <2>2. Below(c.LastEventID)' = Below(c.LastEventID)
    BY <1>2, <1>4, <2>1 DEF Below
  <2> QED
    BY <1>2, <1>5, <2>1, <2>2 DEF Counts
<1>6. \A c \in ckpt' : Counts(c)'
  BY <1>1, <1>3, <1>5 DEF TotalInv, TypeOK
<1>7. ASSUME NEW n \in Nodes PROVE TotalNode(n)'
  <2>1. TotalNode(n) /\ SortedNode(n)
    BY DEF TotalInv, SortedInv
  <2>2. Counts(mem[n])'
    BY <1>1, <1>3, <1>5, <2>1 DEF TotalNode, TypeOK, Counts, Below
  <2>3. BatchWhole(n)'
    <3>1. SUFFICES ASSUME pc[n] = "send" PROVE BatchWhole(n)'
      BY <1>3 DEF BatchWhole
    <3>2. Len(batch[n]) \in 1..Len(batch[n])
      BY <1>1, <3>1, EmptySeq DEF TypeOK
    <3>3. batch[n][Len(batch[n])] \in events
      BY <2>1, <3>1, <3>2 DEF SortedNode, BatchSorted
    <3>4. ~ (e.id <= batch[n][Len(batch[n])].id)
      BY <1>1, <1>2, <3>3 DEF TypeOK, Event, EventIDs
    <3> QED
      BY <1>2, <1>3, <2>1, <3>1, <3>4 DEF TotalNode, BatchWhole, InBatch
  <2> QED
    BY <1>3, <2>1, <2>2, <2>3 DEF TotalNode
<1> QED
  BY <1>6, <1>7 DEF TotalInv

LEMMA TotalInit == Init => TotalInv
<1> SUFFICES ASSUME Init PROVE TotalInv
  OBVIOUS
<1>1. Counts(FreshCheckpoint)
  BY InitType, FreshCounts
<1> QED
  BY <1>1, SortedInit DEF Init, TotalInv, TotalNode, BatchWhole

LEMMA TotalNext ==
    ASSUME LookbackHours = 0, IdsInOrder, TimesInOrder
    PROVE  TotalInv /\ [Next]_vars => TotalInv'
<1> SUFFICES ASSUME TotalInv, [Next]_vars PROVE TotalInv'
  OBVIOUS
<1>1. SortedInv' /\ TypeOK /\ TypeOK' /\ \A c \in ckpt : Counts(c)
  BY SortedNext, NextType DEF TotalInv, SortedInv
<1> USE DEF db, query
<1>2. ASSUME NEW n \in Nodes, CallRun(n) \/ LoadCheckpoint(n) \/ Tick(n)
      PROVE  TotalInv'
  <2>1. /\ OthersSame(n) /\ UNCHANGED <<events, ckpt, window>>
        /\ pc'[n] \in {"load", "poll"}
        /\ mem'[n] = mem[n] \/ mem'[n] = Loaded(ckpt)
    BY <1>1, <1>2 DEF TypeOK, CallRun, LoadCheckpoint, Tick, OthersSame, SameLocal
  <2>2. Counts(Loaded(ckpt))
    BY <1>1, FreshCounts DEF Loaded
  <2>3. TotalNode(n)'
    BY <2>1, <2>2 DEF TotalInv, TotalNode, BatchWhole, Counts, Below
  <2> QED
    BY <1>1, <2>1, <2>3, TotalStep
<1>3. ASSUME NEW n \in Nodes,
             \/ LoadFails(n) \/ Return(n) \/ FetchEmpty(n) \/ FetchFails(n)
             \/ SendFails(n) \/ SaveFails(n) \/ Crash(n)
      PROVE  TotalInv'
  <2>1. /\ events' = events
        /\ LeaveRun(n) \/ LeavePoll(n)
        /\ ckpt' \in {ckpt, {mem[n]}}
    BY <1>3 DEF LoadFails, Return, FetchEmpty, FetchFails, SendFails, SaveFails,
       Crash, AfterFailedSave, SavedRow
  <2> QED
    BY <1>1, <2>1, TotalLeave
<1>4. ASSUME NEW n \in Nodes, BeginPoll(n) PROVE TotalInv'
  <2>1. /\ OthersSame(n) /\ UNCHANGED <<events, ckpt, mem>>
        /\ pc'[n] = "fetch" /\ window'[n] = LookbackWindow(mem[n])
    BY <1>1, <1>4 DEF TypeOK, BeginPoll, OthersSame, SameLocal
  <2>2. TotalNode(n)'
    BY <2>1 DEF LookbackWindow, TotalInv, TotalNode, BatchWhole, Counts, Below
  <2> QED
    BY <1>1, <2>1, <2>2, TotalStep
<1>5. ASSUME NEW n \in Nodes, FetchBatch(n) PROVE TotalInv'
  <2>1. PICK b \in GetEvents(events, Query(n)) :
            b # <<>> /\ batch' = [batch EXCEPT ![n] = b]
    BY <1>5 DEF FetchBatch
  <2>2. /\ OthersSame(n) /\ UNCHANGED <<events, ckpt, mem, window>>
        /\ pc[n] = "fetch" /\ pc'[n] = "send" /\ batch'[n] = b
    BY <1>1, <1>5, <2>1 DEF TypeOK, FetchBatch, OthersSame, SameLocal
  <2>3. BatchWhole(n)'
    BY <1>1, <2>1, <2>2, FetchWhole DEF TotalInv, TotalNode, BatchWhole, InBatch
  <2>4. TotalNode(n)'
    BY <2>2, <2>3 DEF TotalInv, TotalNode, Counts, Below
  <2> QED
    BY <1>1, <2>2, <2>4, TotalStep
<1>6. ASSUME NEW n \in Nodes, WriteLine(n) \/ LineLost(n) PROVE TotalInv'
  <2>1. OthersSame(n) /\ UNCHANGED <<events, ckpt, pc, mem, window, batch>>
    BY <1>1, <1>6 DEF TypeOK, WriteLine, LineLost, OthersSame, SameLocal
  <2>2. TotalNode(n)'
    BY <2>1 DEF TotalInv, TotalNode, BatchWhole, InBatch, Counts, Below
  <2> QED
    BY <1>1, <2>1, <2>2, TotalStep
<1>7. ASSUME NEW n \in Nodes, AdvanceCheckpoint(n) PROVE TotalInv'
  BY <1>1, <1>7, TotalAdvance
<1>8. ASSUME NEW n \in Nodes, SaveCheckpoint(n) PROVE TotalInv'
  <2>1. CASE ShortBatch(batch[n])
    BY <1>1, <1>8, <2>1, TotalLeave DEF SaveCheckpoint, SavedRow
  <2>2. CASE ~ShortBatch(batch[n])
    <3>1. /\ OthersSame(n) /\ UNCHANGED <<events, mem, window>>
          /\ ckpt' = {mem[n]} /\ pc'[n] = "fetch"
      BY <1>1, <1>8, <2>2
      DEF TypeOK, SaveCheckpoint, SavedRow, OthersSame, SameLocal
    <3>2. TotalNode(n)'
      BY <3>1 DEF TotalInv, TotalNode, BatchWhole, Counts, Below
    <3>3. \A c \in ckpt' : Counts(c)
      BY <3>1 DEF TotalInv, TotalNode
    <3> QED
      BY <1>1, <3>1, <3>2, <3>3, TotalStep
  <2> QED
    BY <2>1, <2>2
<1>9. ASSUME StoreEvent PROVE TotalInv'
  BY <1>1, <1>9, TotalStore
<1>10. ASSUME (\E n \in Nodes : Cancel(n)) \/ ClockTick \/ UNCHANGED vars
       PROVE  TotalInv'
  <2>1. UNCHANGED <<events, ckpt, pc, mem, window, batch>>
    BY <1>10 DEF Cancel, ClockTick, vars, local
  <2> QED
    BY <1>1, <2>1 DEF TotalInv, TotalNode, BatchWhole, InBatch, Counts, Below
<1> QED
  BY <1>2, <1>3, <1>4, <1>5, <1>6, <1>7, <1>8, <1>9, <1>10 DEF Next, Step

(***************************************************************************)
(* total_events_processed is the number of events up to the position,      *)
(* however many nodes run at the same time and however often they print:   *)
(* no batch is counted twice, and none is left out.  Without lookback, for *)
(* rows committed in the order of their ids and times.                     *)
(***************************************************************************)
THEOREM TotalIsExact ==
    ASSUME LookbackHours = 0, IdsInOrder, TimesInOrder
    PROVE  Spec => []TotalMatchesPosition
<1>1. TotalInv /\ [Next]_vars => TotalInv'
  BY TotalNext
<1>2. TotalInv => TotalMatchesPosition
  BY DEF TotalInv, TotalMatchesPosition, Counts, Below
<1> QED
  BY TotalInit, <1>1, <1>2, PTL DEF Spec
-----------------------------------------------------------------------------
(***************************************************************************)
(* What a poll that ends without an error has achieved.                    *)
(***************************************************************************)

(* n has yet to make the query whose answer it will handle next.           *)
BeforeQuery(n) == pc[n] \notin {"send", "save"}

(* processEvents returns nil.                                              *)
PollSucceeds(n) ==
    (FetchEmpty(n) \/ SaveCheckpoint(n)) /\ pc'[n] \in {"idle", "wait"}

(* n need not look for e any more.                                         *)
Covered(n, e) == e.id <= mem[n].LastEventID \/ Expired(e)

(* The batch after which n will stop has e, unless e is covered.           *)
Catches(n, e) ==
    /\ e \in events
    /\ ShortBatch(batch[n]) =>
          /\ pc[n] = "send" => Covered(n, e) \/ InBatch(n, e)
          /\ pc[n] = "save" => Covered(n, e)

CatchInv == SortedInv /\ \A n \in Nodes : WindowExpired(n)

LEMMA WindowNext ==
    TypeOK /\ (\A n \in Nodes : WindowExpired(n)) /\ [Next]_vars =>
        \A n \in Nodes : WindowExpired(n)'
<1> SUFFICES ASSUME TypeOK, \A n \in Nodes : WindowExpired(n), [Next]_vars,
                    NEW m \in Nodes
             PROVE  WindowExpired(m)'
  OBVIOUS
<1>1. /\ now \in Int /\ LookbackHours \in Nat
      /\ window[m] \subseteq Int
  BY ProcessorAssumption DEF TypeOK, Times
<1>2. ASSUME window'[m] = window[m] \/ window'[m] = {}, now' \in {now, now + 1}
      PROVE  WindowExpired(m)'
  <2>1. \A w \in window'[m] : w \in Int /\ LookbackHours > 0 /\ w <= now - LookbackHours
    BY <1>1, <1>2 DEF WindowExpired
  <2> QED
    BY <1>1, <1>2, <2>1 DEF WindowExpired
<1>3. ASSUME NEW n \in Nodes, Step(n) \/ Cancel(n) \/ Crash(n)
      PROVE  WindowExpired(m)'
  <2>1. now' = now
    BY <1>3, NodeSteps
  <2>2. CASE m # n
    <3>1. window'[m] = window[m]
      BY <1>3, <2>2, StepsAlone DEF OthersSame, SameLocal
    <3> QED
      BY <1>2, <2>1, <3>1
  <2>3. CASE m = n /\ BeginPoll(n)
    <3>1. window'[n] = LookbackWindow(mem[n])
      BY <2>3 DEF BeginPoll, TypeOK
    <3> QED
      BY <1>1, <2>1, <2>3, <3>1 DEF WindowExpired, LookbackWindow
  <2>4. CASE m = n /\ (LeaveRun(n) \/ LeavePoll(n))
    BY <1>2, <2>1, <2>4, LeaveEffect
  <2>5. CASE ~BeginPoll(n) /\ ~(LeaveRun(n) \/ LeavePoll(n))
    <3>1. window' = window
      BY <1>3, <2>5 DEF Step, Cancel, Crash, CallRun, LoadCheckpoint, LoadFails, Tick,
         Return, FetchBatch, FetchEmpty, FetchFails, WriteLine, LineLost, SendFails,
         AdvanceCheckpoint, SaveCheckpoint, SaveFails, query
    <3> QED
      BY <1>2, <2>1, <3>1
  <2> QED
    BY <2>2, <2>3, <2>4, <2>5
<1>4. CASE StoreEvent \/ ClockTick \/ UNCHANGED vars
  <2>1. window' = window /\ now' \in {now, now + 1}
    BY <1>4 DEF StoreEvent, ClockTick, vars, local, db
  <2> QED
    BY <1>2, <2>1
<1> QED
  BY <1>3, <1>4 DEF Next

LEMMA CatchInvInit == Init => CatchInv
BY SortedInit DEF Init, CatchInv, WindowExpired

LEMMA CatchInvNext ==
    ASSUME IdsInOrder, TimesInOrder
    PROVE  CatchInv /\ [Next]_vars => CatchInv'
BY SortedNext, WindowNext DEF CatchInv, SortedInv

(* An event that a page with room for more leaves out is covered.          *)
LEMMA ShortPageCovers ==
    ASSUME CatchInv, NEW n \in Nodes, NEW e \in events,
           NEW b \in GetEvents(events, Query(n)),
           Len(b) < EffectiveLimit(Query(n)), pc[n] = "fetch"
    PROVE  Covered(n, e) \/ \E i \in 1..Len(b) : b[i] = e
<1>1. /\ Query(n).Offset = 0
      /\ Query(n).Limit \in Nat
      /\ Query(n).OrderAsc = TRUE
  BY ProcessorAssumption DEF Query, Offset
<1>2. TypeOK /\ WindowExpired(n)
  BY DEF CatchInv, SortedInv
<1>3. e \in Event /\ mem[n] \in Checkpoint /\ window[n] \subseteq Int /\ now \in Int
  BY <1>2 DEF TypeOK, Times
<1>4. b \in Seq(Event)
  BY <1>2, FetchedType
<1>5. EffectiveLimit(Query(n)) \in Nat /\ Len(b) \in Nat
  BY <1>1, <1>4, DefaultLimitAssumption DEF EffectiveLimit
<1>6. CASE e \in Matching(events, Query(n))
  <2>1. \/ \E i \in 1..Len(b) : b[i] = e
        \/ Len(b) = EffectiveLimit(Query(n))
    BY <1>1, <1>2, <1>6, FirstPage DEF TypeOK
  <2> QED
    BY <1>5, <2>1
<1>7. CASE e \notin Matching(events, Query(n))
  <2>1. \/ e.id <= mem[n].LastEventID
        \/ \E w \in window[n] : e.timestamp < w
    BY <1>3, <1>7 DEF Matching, Matches, Query, Event, EventIDs, Times, Checkpoint
  <2>2. ASSUME NEW w \in window[n], e.timestamp < w PROVE Expired(e)
    BY <1>2, <1>3, <2>2, ProcessorAssumption
    DEF WindowExpired, Expired, Event, Times
  <2> QED
    BY <2>1, <2>2 DEF Covered
<1> QED
  BY <1>6, <1>7

LEMMA CatchStarts ==
    ASSUME NEW n \in Nodes, NEW e
    PROVE  e \in events /\ BeforeQuery(n) => Catches(n, e)
BY DEF BeforeQuery, Catches

(* What has to be caught stays in the batch, and then behind the position. *)
LEMMA CatchNext ==
    ASSUME CatchInv, CatchInv', NEW n \in Nodes, NEW e, Catches(n, e), [Next]_vars
    PROVE  Catches(n, e)'
<1>1. /\ TypeOK /\ TypeOK'
      /\ StoreOrdered /\ SortedNode(n)
      /\ e \in Event /\ e \in events
  BY DEF CatchInv, SortedInv, Catches, TypeOK
<1>2. /\ now \in Int /\ LookbackHours \in Nat
      /\ e.timestamp \in Int /\ e.id \in Int
  BY <1>1, ProcessorAssumption DEF TypeOK, Event, EventIDs, Times
<1>3. ASSUME e \in events', pc'[n] = pc[n], mem'[n] = mem[n], batch'[n] = batch[n],
             now' \in {now, now + 1}
      PROVE  Catches(n, e)'
  <2>1. Expired(e) => Expired(e)'
    BY <1>2, <1>3 DEF Expired
  <2>2. Covered(n, e) => Covered(n, e)'
    BY <1>3, <2>1 DEF Covered
  <2> QED
    BY <1>3, <2>2 DEF Catches, InBatch
<1>4. ASSUME e \in events', BeforeQuery(n)' PROVE Catches(n, e)'
  BY <1>4 DEF BeforeQuery, Catches
<1>5. ASSUME NEW m \in Nodes, Step(m) \/ Cancel(m) \/ Crash(m)
      PROVE  Catches(n, e)'
  <2>1. e \in events' /\ now' = now
    BY <1>1, <1>5, NodeSteps
  <2>2. CASE m # n
    BY <1>1, <1>3, <1>5, <2>1, <2>2, StepsAlone DEF OthersSame, SameLocal
  <2>3. CASE m = n /\ FetchBatch(n)
    <3>1. PICK b \in GetEvents(events, Query(n)) : batch' = [batch EXCEPT ![n] = b]
      BY <2>3 DEF FetchBatch
    <3>2. /\ batch'[n] = b /\ mem' = mem /\ pc[n] = "fetch" /\ pc'[n] = "send"
      BY <1>1, <2>3, <3>1 DEF FetchBatch, TypeOK
    <3>3. ASSUME ShortBatch(b) PROVE Covered(n, e) \/ \E i \in 1..Len(b) : b[i] = e
      <4>1. Len(b) < EffectiveLimit(Query(n))
        <5>1. Len(b) \in Nat
          BY <1>1, FetchedType
        <5> QED
          BY <3>3, <5>1, ProcessorAssumption DEF ShortBatch, EffectiveLimit, Query
      <4> QED
        BY <1>1, <3>2, <4>1, ShortPageCovers
    <3>4. Covered(n, e) => Covered(n, e)'
      BY <2>1, <3>2 DEF Covered, Expired
    <3> QED
      BY <2>1, <3>2, <3>3, <3>4 DEF Catches, InBatch
  <2>4. CASE m = n /\ AdvanceCheckpoint(n)
    <3>1. /\ pc[n] = "send" /\ pc'[n] = "save" /\ batch' = batch
          /\ mem'[n].LastEventID = batch[n][Len(batch[n])].id
      BY <1>1, <2>4 DEF AdvanceCheckpoint, TypeOK, Advanced
    <3>2. /\ batch[n] \in Seq(Event) /\ batch[n] # <<>>
          /\ Len(batch[n]) \in 1..Len(batch[n])
      BY <1>1, <3>1, EmptySeq DEF TypeOK
    <3> DEFINE last == batch[n][Len(batch[n])]
    <3>3. last \in Event /\ last.id > mem[n].LastEventID /\ mem[n] \in Checkpoint
      BY <1>1, <3>1, <3>2, ElementOfSeq DEF SortedNode, BatchSorted, TypeOK
    <3>4. ASSUME InBatch(n, e) PROVE e.id <= last.id
      <4>1. PICK i \in 1..Len(batch[n]) : batch[n][i] = e
        BY <3>4 DEF InBatch
      <4>2. i < Len(batch[n]) => e.id < last.id
        BY <1>1, <3>1, <3>2, <4>1 DEF SortedNode, BatchSorted
      <4>3. i = Len(batch[n]) \/ i < Len(batch[n])
        BY <3>2, <4>1
      <4> QED
        BY <1>2, <3>3, <4>1, <4>2, <4>3 DEF Event, EventIDs
    <3>5. Covered(n, e) => Covered(n, e)'
      BY <1>2, <2>1, <3>1, <3>3 DEF Covered, Expired, Event, EventIDs, Checkpoint
    <3>6. InBatch(n, e) => Covered(n, e)'
      BY <3>1, <3>4 DEF Covered
    <3> QED
      BY <2>1, <3>1, <3>5, <3>6 DEF Catches
  <2>5. CASE m = n /\ (WriteLine(n) \/ LineLost(n) \/ Cancel(n))
    <3>1. pc' = pc /\ mem' = mem /\ batch' = batch
      BY <2>5 DEF WriteLine, LineLost, Cancel
    <3> QED
      BY <1>3, <2>1, <3>1
  <2>6. CASE m = n /\ (LeaveRun(n) \/ LeavePoll(n))
    <3>1. BeforeQuery(n)'
      BY <1>1, <2>6, LeaveEffect DEF BeforeQuery
    <3> QED
      BY <1>4, <2>1, <3>1
  <2>7. CASE /\ m = n /\ ~FetchBatch(n) /\ ~AdvanceCheckpoint(n)
             /\ ~(WriteLine(n) \/ LineLost(n) \/ Cancel(n))
             /\ ~(LeaveRun(n) \/ LeavePoll(n))
    <3>1. pc'[n] \in {"load", "poll", "fetch"}
      BY <1>1, <1>5, <2>7
      DEF Step, Crash, CallRun, LoadCheckpoint, LoadFails, Tick, Return, BeginPoll,
          FetchEmpty, FetchFails, SendFails, SaveCheckpoint, SaveFails, TypeOK
    <3> QED
      BY <1>4, <2>1, <3>1 DEF BeforeQuery
  <2> QED
    BY <2>2, <2>3, <2>4, <2>5, <2>6, <2>7
<1>6. CASE StoreEvent \/ ClockTick \/ UNCHANGED vars
  <2>1. /\ e \in events' /\ now' \in {now, now + 1}
        /\ pc' = pc /\ mem' = mem /\ batch' = batch
    BY <1>1, <1>6 DEF StoreEvent, ClockTick, vars, local, db
  <2> QED
    BY <1>3, <2>1
<1> QED
  BY <1>5, <1>6 DEF Next

(* A poll that ends without an error has covered what it had to catch.     *)
LEMMA SuccessCovers ==
    ASSUME CatchInv, NEW n \in Nodes, NEW e, Catches(n, e), PollSucceeds(n)
    PROVE  Covered(n, e)
<1>1. TypeOK
  BY DEF CatchInv, SortedInv
<1>2. CASE SaveCheckpoint(n)
  BY <1>1, <1>2 DEF PollSucceeds, SaveCheckpoint, TypeOK, Catches
<1>3. CASE FetchEmpty(n)
  <2>1. <<>> \in GetEvents(events, Query(n)) /\ pc[n] = "fetch"
    BY <1>3 DEF FetchEmpty
  <2>2. Len(<<>>) = 0 /\ 0 < EffectiveLimit(Query(n))
    BY ProcessorAssumption, DefaultLimitAssumption DEF EffectiveLimit, Query
  <2>3. Covered(n, e) \/ \E i \in 1..0 : <<>>[i] = e
    BY <2>1, <2>2, ShortPageCovers DEF Catches
  <2> QED
    BY <2>3
<1> QED
  BY <1>2, <1>3 DEF PollSucceeds

(***************************************************************************)
(* A poll that ends without an error has caught up: it has printed every   *)
(* event that was stored before its last query, the expired ones excepted, *)
(* however many batches that takes and whatever other nodes, failed polls  *)
(* or crashes came between (processor.go:152-250) - for rows committed in  *)
(* the order of their ids and times and a stdout that takes every line.    *)
(***************************************************************************)
THEOREM PollsCatchUp ==
    ASSUME IdsInOrder, TimesInOrder, ~StdoutMayFail, NEW n \in Nodes, NEW e \in Event
    PROVE  Spec => [](e \in events /\ BeforeQuery(n) =>
                        [][PollSucceeds(n) => Delivered(e) \/ Expired(e)]_vars)
<1>1. CatchInv /\ [Next]_vars => CatchInv'
  BY CatchInvNext
<1>2. IInv /\ [Next]_vars => IInv'
  BY NextInv
<1>3. e \in events /\ BeforeQuery(n) => Catches(n, e)
  BY CatchStarts
<1>4. CatchInv /\ CatchInv' /\ Catches(n, e) /\ [Next]_vars => Catches(n, e)'
  BY CatchNext
<1>5. IInv /\ CatchInv /\ Catches(n, e) =>
          [PollSucceeds(n) => Delivered(e) \/ Expired(e)]_vars
  BY SuccessCovers DEF Covered, Catches, IInv, NodeInv, SafePosition
<1> QED
  BY InitInv, CatchInvInit, <1>1, <1>2, <1>3, <1>4, <1>5, PTL DEF Spec
=============================================================================
