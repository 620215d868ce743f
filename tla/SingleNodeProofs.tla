-------------------------- MODULE SingleNodeProofs --------------------------
(***************************************************************************)
(* Proofs about Processor while at most one node is inside Run at a time:  *)
(* one process without an election, or a cluster whose leaders exclude     *)
(* each other (ClusterProofs shows that they do).                          *)
(***************************************************************************)
EXTENDS ProcessorProofs

Solo == \A n, m \in Nodes : pc[n] # "idle" /\ pc[m] # "idle" => n = m

(* A node that has loaded the row knows all that was saved ...             *)
AheadOfRow(n) ==
    pc[n] \notin {"idle", "load"} => Position <= mem[n].LastEventID

(* ... and sends only what comes after its own position.                   *)
BatchAbove(n) ==
    pc[n] = "send" =>
        \A i \in 1..Len(batch[n]) : batch[n][i].id > mem[n].LastEventID

SoloNode(n) == AheadOfRow(n) /\ QueryFromPosition(n) /\ BatchAbove(n)

SoloInv == TypeOK /\ \A n \in Nodes : SoloNode(n)

-----------------------------------------------------------------------------
LEMMA PositionAfterSave ==
    ASSUME TypeOK, TypeOK', NEW n \in Nodes, ckpt' \in {ckpt, {mem[n]}}
    PROVE  Position' \in {Position, mem[n].LastEventID}
<1>1. CASE ckpt' = ckpt
  BY <1>1 DEF Position
<1>2. CASE ckpt' = {mem[n]}
  BY <1>2 DEF Position
<1> QED
  BY <1>1, <1>2

(* The other nodes are idle while n is not: nothing is claimed of them.    *)
LEMMA SoloStep ==
    ASSUME Solo, TypeOK', NEW n \in Nodes, pc[n] # "idle", OthersSame(n),
           SoloNode(n)'
    PROVE  SoloInv'
<1>1. ASSUME NEW m \in Nodes \ {n} PROVE SoloNode(m)'
  <2>1. pc'[m] = "idle"
    BY DEF Solo, OthersSame, SameLocal
  <2> QED
    BY <2>1 DEF SoloNode, AheadOfRow, QueryFromPosition, BatchAbove
<1> QED
  BY <1>1 DEF SoloInv

LEMMA SoloLeave ==
    ASSUME SoloInv, Solo, TypeOK', NEW n \in Nodes,
           pc[n] \notin {"idle"},
           LeaveRun(n) \/ (LeavePoll(n) /\ pc[n] # "load"),
           ckpt' = ckpt \/ (pc[n] = "save" /\ ckpt' = {mem[n]})
    PROVE  SoloInv'
<1>1. TypeOK
  BY DEF SoloInv
<1>2. OthersSame(n)
  BY <1>1, LeaveEffect
<1>3. pc'[n] = "idle" \/ (LeavePoll(n) /\ pc'[n] = "wait" /\ mem'[n] = mem[n] /\ pc[n] # "load")
  BY <1>1 DEF LeavePoll, LeaveRun, TypeOK
<1>4. CASE pc'[n] = "idle"
  <2>1. SoloNode(n)'
    BY <1>4 DEF SoloNode, AheadOfRow, QueryFromPosition, BatchAbove
  <2> QED
    BY <1>2, <2>1, SoloStep
<1>5. CASE LeavePoll(n) /\ pc'[n] = "wait" /\ mem'[n] = mem[n] /\ pc[n] # "load"
  <2>1. Position <= mem[n].LastEventID
    BY <1>5 DEF SoloInv, SoloNode, AheadOfRow
  <2>2. mem[n].LastEventID \in Int
    BY <1>1 DEF TypeOK, Checkpoint
  <2>3. Position' <= mem[n].LastEventID
    BY <1>1, <2>1, <2>2, PositionAfterSave
  <2>4. SoloNode(n)'
    BY <1>5, <2>3 DEF SoloNode, AheadOfRow, QueryFromPosition, BatchAbove
  <2> QED
    BY <1>2, <2>4, SoloStep
<1> QED
  BY <1>3, <1>4, <1>5

(* A query from a position asks for larger ids, and without one every id   *)
(* is larger than 0.                                                       *)
LEMMA PageAbove ==
    ASSUME TypeOK, NEW n \in Nodes, pc[n] = "fetch", QueryFromPosition(n),
           NEW b \in GetEvents(events, Query(n)), NEW i \in 1..Len(b)
    PROVE  b[i].id > mem[n].LastEventID
<1>1. /\ Query(n).Offset = 0
      /\ Query(n).Limit \in Nat
      /\ Query(n).OrderAsc = TRUE
  BY ProcessorAssumption DEF Query, Offset
<1>2. b \in Seq(Matching(events, Query(n)))
  BY <1>1, FirstPage DEF TypeOK
<1>3. b[i] \in Matching(events, Query(n))
  BY <1>2, ElementOfSeq
<1>4. CASE resume[n]
  BY <1>3, <1>4 DEF Matching, Matches, Query
<1>5. CASE ~resume[n]
  <2>1. mem[n].LastEventID = 0
    BY <1>5 DEF QueryFromPosition
  <2>2. b[i].id \in EventIDs
    BY <1>3 DEF Matching, TypeOK, Event
  <2> QED
    BY <2>1, <2>2 DEF EventIDs
<1> QED
  BY <1>4, <1>5

LEMMA SoloInit == Init => SoloInv
BY InitType DEF Init, SoloInv, SoloNode, AheadOfRow, QueryFromPosition, BatchAbove

LEMMA SoloNext == SoloInv /\ Solo /\ [Next]_vars => SoloInv'
<1> SUFFICES ASSUME SoloInv, Solo, [Next]_vars PROVE SoloInv'
  OBVIOUS
<1>1. TypeOK /\ TypeOK'
  BY NextType DEF SoloInv
<1> USE DEF db, query
<1>2. ASSUME NEW n \in Nodes, CallRun(n) PROVE SoloInv'
  <2>1. OthersSame(n) /\ UNCHANGED ckpt /\ pc'[n] = "load"
    BY <1>1, <1>2 DEF TypeOK, CallRun, OthersSame, SameLocal
  <2>2. ASSUME NEW m \in Nodes PROVE SoloNode(m)'
    BY <2>1 DEF SoloInv, SoloNode, AheadOfRow, QueryFromPosition, BatchAbove,
       Position, OthersSame, SameLocal
  <2> QED
    BY <1>1, <2>2 DEF SoloInv
<1>3. ASSUME NEW n \in Nodes, LoadCheckpoint(n) PROVE SoloInv'
  <2>1. /\ OthersSame(n) /\ UNCHANGED ckpt
        /\ pc'[n] = "poll" /\ mem'[n] = Loaded(ckpt)
    BY <1>1, <1>3 DEF TypeOK, LoadCheckpoint, OthersSame, SameLocal
  <2>2. Position' = mem'[n].LastEventID /\ Position' \in Int
    BY <1>1, <2>1, PositionOfRow DEF Position
  <2>3. SoloNode(n)'
    BY <2>1, <2>2 DEF SoloNode, AheadOfRow, QueryFromPosition, BatchAbove
  <2> QED
    BY <1>1, <1>3, <2>1, <2>3, SoloStep DEF LoadCheckpoint
<1>4. ASSUME NEW n \in Nodes, LoadFails(n) PROVE SoloInv'
  BY <1>1, <1>4, SoloLeave DEF LoadFails
<1>5. ASSUME NEW n \in Nodes, Tick(n) PROVE SoloInv'
  <2>1. OthersSame(n) /\ UNCHANGED <<ckpt, mem>> /\ pc'[n] = "poll"
    BY <1>1, <1>5 DEF TypeOK, Tick, OthersSame, SameLocal
  <2>2. SoloNode(n)'
    BY <1>5, <2>1 DEF SoloInv, SoloNode, AheadOfRow, QueryFromPosition,
       BatchAbove, Position, Tick
  <2> QED
    BY <1>1, <1>5, <2>1, <2>2, SoloStep DEF Tick
<1>6. ASSUME NEW n \in Nodes, Return(n) PROVE SoloInv'
  BY <1>1, <1>6, SoloLeave DEF Return
<1>7. ASSUME NEW n \in Nodes, BeginPoll(n) PROVE SoloInv'
  <2>1. /\ OthersSame(n) /\ UNCHANGED <<ckpt, mem>>
        /\ pc'[n] = "fetch" /\ resume'[n] = HasPosition(mem[n])
    BY <1>1, <1>7 DEF TypeOK, BeginPoll, OthersSame, SameLocal
  <2>2. QueryFromPosition(n)'
    BY <1>1, <2>1 DEF QueryFromPosition, HasPosition, TypeOK, Checkpoint
  <2>3. SoloNode(n)'
    BY <1>7, <2>1, <2>2 DEF SoloInv, SoloNode, AheadOfRow, BatchAbove,
       Position, BeginPoll
  <2> QED
    BY <1>1, <1>7, <2>1, <2>3, SoloStep DEF BeginPoll
<1>8. ASSUME NEW n \in Nodes, FetchBatch(n) PROVE SoloInv'
  <2>1. PICK b \in GetEvents(events, Query(n)) :
            batch' = [batch EXCEPT ![n] = b]
    BY <1>8 DEF FetchBatch
  <2>2. /\ OthersSame(n) /\ UNCHANGED <<ckpt, mem, resume>>
        /\ pc'[n] = "send" /\ batch'[n] = b
    BY <1>1, <1>8, <2>1 DEF TypeOK, FetchBatch, OthersSame, SameLocal
  <2>3. QueryFromPosition(n)
    BY DEF SoloInv, SoloNode
  <2>4. BatchAbove(n)'
    BY <1>1, <1>8, <2>2, <2>3, PageAbove DEF BatchAbove, FetchBatch
  <2>5. SoloNode(n)'
    BY <1>8, <2>2, <2>4 DEF SoloInv, SoloNode, AheadOfRow, QueryFromPosition,
       Position, FetchBatch
  <2> QED
    BY <1>1, <1>8, <2>2, <2>5, SoloStep DEF FetchBatch
<1>9. ASSUME NEW n \in Nodes, FetchEmpty(n) PROVE SoloInv'
  BY <1>1, <1>9, SoloLeave DEF FetchEmpty
<1>10. ASSUME NEW n \in Nodes, FetchFails(n) PROVE SoloInv'
  BY <1>1, <1>10, SoloLeave DEF FetchFails
<1>11. ASSUME NEW n \in Nodes, WriteLine(n) \/ LineLost(n) PROVE SoloInv'
  <2>1. /\ OthersSame(n) /\ UNCHANGED <<ckpt, pc, mem, resume, batch>>
        /\ pc[n] = "send"
    BY <1>1, <1>11 DEF TypeOK, WriteLine, LineLost, OthersSame, SameLocal
  <2>2. SoloNode(n)'
    BY <2>1 DEF SoloInv, SoloNode, AheadOfRow, QueryFromPosition, BatchAbove,
       Position
  <2> QED
    BY <1>1, <2>1, <2>2, SoloStep
<1>12. ASSUME NEW n \in Nodes, SendFails(n) PROVE SoloInv'
  BY <1>1, <1>12, SoloLeave DEF SendFails
<1>13. ASSUME NEW n \in Nodes, AdvanceCheckpoint(n) PROVE SoloInv'
  <2>1. /\ OthersSame(n) /\ UNCHANGED ckpt
        /\ pc[n] = "send" /\ pc'[n] = "save"
        /\ mem'[n].LastEventID = batch[n][Len(batch[n])].id
    BY <1>1, <1>13 DEF TypeOK, AdvanceCheckpoint, Advanced, OthersSame, SameLocal
  <2>2. Len(batch[n]) \in 1..Len(batch[n])
    BY <1>1, <2>1, EmptySeq DEF TypeOK
  <2>3. /\ Position <= mem[n].LastEventID
        /\ mem[n].LastEventID < mem'[n].LastEventID
    <3>1. batch[n][Len(batch[n])] \in Event
      BY <1>1, <2>2, ElementOfSeq DEF TypeOK
    <3> QED
      BY <1>1, <2>1, <2>2, <3>1 DEF SoloInv, SoloNode, AheadOfRow, BatchAbove,
         TypeOK, Event, EventIDs, Checkpoint
  <2>4. SoloNode(n)'
    <3>1. Position' = Position
      BY <2>1 DEF Position
    <3>2. /\ Position \in Int
          /\ mem[n].LastEventID \in Int
          /\ mem'[n].LastEventID \in Int
      <4>1. mem[n] \in Checkpoint /\ mem'[n] \in Checkpoint
        BY <1>1 DEF TypeOK
      <4>2. Position \in 0..MaxEventID
        BY <1>1, PositionOfRow
      <4> QED
        BY <4>1, <4>2, ProcessorAssumption DEF Checkpoint
    <3> QED
      BY <2>1, <2>3, <3>1, <3>2 DEF SoloNode, AheadOfRow, QueryFromPosition, BatchAbove
  <2> QED
    BY <1>1, <2>1, <2>4, SoloStep
<1>14. ASSUME NEW n \in Nodes, SaveCheckpoint(n) PROVE SoloInv'
  <2>1. CASE ShortBatch(batch[n])
    BY <1>1, <1>14, <2>1, SoloLeave DEF SaveCheckpoint, SavedRow
  <2>2. CASE ~ShortBatch(batch[n])
    <3>1. /\ OthersSame(n) /\ UNCHANGED mem /\ ckpt' = {mem[n]}
          /\ pc[n] = "save" /\ pc'[n] = "fetch" /\ resume'[n] = TRUE
      BY <1>1, <1>14, <2>2
      DEF TypeOK, SaveCheckpoint, SavedRow, OthersSame, SameLocal
    <3>2. Position' = mem'[n].LastEventID /\ Position' \in Int
      BY <1>1, <3>1 DEF Position, TypeOK, Checkpoint
    <3>3. SoloNode(n)'
      BY <3>1, <3>2 DEF SoloNode, AheadOfRow, QueryFromPosition, BatchAbove
    <3> QED
      BY <1>1, <3>1, <3>3, SoloStep
  <2> QED
    BY <2>1, <2>2
<1>15. ASSUME NEW n \in Nodes, SaveFails(n) PROVE SoloInv'
  BY <1>1, <1>15, SoloLeave DEF SaveFails, AfterFailedSave, SavedRow
<1>16. ASSUME NEW n \in Nodes, Cancel(n) PROVE SoloInv'
  <2>1. UNCHANGED <<ckpt, pc, mem, resume, batch>>
    BY <1>16 DEF Cancel
  <2> QED
    BY <1>1, <2>1 DEF SoloInv, SoloNode, AheadOfRow, QueryFromPosition,
       BatchAbove, Position
<1>17. ASSUME NEW n \in Nodes, Crash(n) PROVE SoloInv'
  BY <1>1, <1>17, SoloLeave DEF Crash, AfterFailedSave, SavedRow
<1>18. ASSUME StoreEvent \/ ClockTick \/ UNCHANGED vars PROVE SoloInv'
  <2>1. UNCHANGED <<ckpt, pc, mem, resume, batch>>
    BY <1>18 DEF StoreEvent, ClockTick, vars, local
  <2> QED
    BY <1>1, <2>1 DEF SoloInv, SoloNode, AheadOfRow, QueryFromPosition,
       BatchAbove, Position
<1> QED
  BY <1>2, <1>3, <1>4, <1>5, <1>6, <1>7, <1>8, <1>9, <1>10, <1>11, <1>12,
     <1>13, <1>14, <1>15, <1>16, <1>17, <1>18
  DEF Next, Step

-----------------------------------------------------------------------------
LEMMA RegressStep ==
    SoloInv /\ [Next]_vars => [Position <= Position']_vars
<1> SUFFICES ASSUME SoloInv, Next PROVE Position <= Position'
  BY DEF vars
<1>1. TypeOK /\ TypeOK'
  BY NextType DEF SoloInv
<1>2. Position \in Int
  BY <1>1, PositionOfRow
<1>3. CASE ckpt' = ckpt
  BY <1>2, <1>3 DEF Position
<1>4. ASSUME NEW n \in Nodes, pc[n] = "save", ckpt' = {mem[n]}
      PROVE  Position <= Position'
  <2>1. Position' = mem[n].LastEventID
    BY <1>4 DEF Position
  <2> QED
    BY <1>4, <2>1 DEF SoloInv, SoloNode, AheadOfRow
<1> QED
  BY <1>3, <1>4, RowChanges

LEMMA ResendStep ==
    SoloInv /\ [Next]_vars =>
        [\A i \in EventIDs : i <= Position => out'[i] = out[i]]_vars
<1> SUFFICES ASSUME SoloInv, Next, NEW i \in EventIDs, i <= Position
             PROVE  out'[i] = out[i]
  BY DEF vars
<1>1. TypeOK
  BY DEF SoloInv
<1>2. ASSUME NEW n \in Nodes, WriteLine(n) PROVE out'[i] = out[i]
  <2> DEFINE j == batch[n][sent[n] + 1].id
  <2>1. /\ pc[n] = "send"
        /\ sent[n] + 1 \in 1..Len(batch[n])
        /\ out' = [out EXCEPT ![j] = @ + 1]
    BY <1>1, <1>2, LenProperties DEF TypeOK, WriteLine
  <2>2. Position <= mem[n].LastEventID /\ mem[n].LastEventID < j
    BY <2>1 DEF SoloInv, SoloNode, AheadOfRow, BatchAbove
  <2>3. batch[n][sent[n] + 1] \in Event
    BY <1>1, <2>1, ElementOfSeq DEF TypeOK
  <2>4. /\ Position \in Int
        /\ mem[n].LastEventID \in Int
        /\ j \in Int
    <3>1. Position \in Int
      BY <1>1, PositionOfRow
    <3>2. mem[n].LastEventID \in Int
      BY <1>1 DEF TypeOK, Checkpoint
    <3>3. j \in Int
      BY <2>3 DEF Event, EventIDs
    <3> QED
      BY <3>1, <3>2, <3>3
  <2>5. i # j
    BY <2>2, <2>4 DEF EventIDs
  <2> HIDE DEF j
  <2> QED
    BY <1>1, <2>1, <2>5 DEF TypeOK
<1> QED
  BY <1>2, OutputChanges

(***************************************************************************)
(* While one node runs at a time, the saved position never moves back,     *)
(* whatever order rows are committed in and whatever fails or crashes.     *)
(***************************************************************************)
THEOREM NeverRegresses == Spec /\ []Solo => PositionNeverRegresses
BY SoloInit, SoloNext, RegressStep, PTL DEF Spec, PositionNeverRegresses

(***************************************************************************)
(* While one node runs at a time, nothing at or below the saved position   *)
(* is printed, not after a crash or a failed save either.                  *)
(***************************************************************************)
THEOREM NeverResent == Spec /\ []Solo => CoveredNeverResent
BY SoloInit, SoloNext, ResendStep, PTL DEF Spec, CoveredNeverResent

-----------------------------------------------------------------------------
(* The refinement of AuditFeed.                                            *)

Running(n) == pc[n] \notin {"idle", "load"}

(* After the first save, whatever lies between the row and the memory of   *)
(* the node was printed: no lookback excuses it.                           *)
GapPrinted(n) ==
    Running(n) /\ Position > 0 =>
        \A e \in events :
            Position < e.id /\ e.id <= mem[n].LastEventID => Delivered(e)

(* Once the node has a position, its window leaves out nothing above it.   *)
WindowBehind(n) ==
    pc[n] \in {"fetch", "send", "save"} /\ mem[n].LastEventID > 0 =>
        \A w \in window[n], e \in events :
            e.id >= mem[n].LastEventID => e.timestamp >= w

BatchInWindow(n) ==
    pc[n] = "send" =>
        \A w \in window[n], i \in 1..Len(batch[n]) : batch[n][i].timestamp >= w

FeedNode(n) == GapPrinted(n) /\ WindowBehind(n) /\ BatchInWindow(n)

FeedInv == IInv /\ SoloInv /\ \A n \in Nodes : FeedNode(n)

-----------------------------------------------------------------------------
LEMMA FeedStep ==
    ASSUME Solo, IInv', SoloInv', NEW n \in Nodes, pc[n] # "idle", OthersSame(n),
           FeedNode(n)'
    PROVE  FeedInv'
<1>1. ASSUME NEW m \in Nodes \ {n} PROVE FeedNode(m)'
  <2>1. pc'[m] = "idle"
    BY DEF Solo, OthersSame, SameLocal
  <2> QED
    BY <2>1 DEF FeedNode, GapPrinted, WindowBehind, BatchInWindow, Running
<1> QED
  BY <1>1 DEF FeedInv

(* A node that saved its memory, or did not, and leaves.                   *)
LEMMA FeedLeave ==
    ASSUME FeedInv, Solo, IInv', SoloInv', NEW n \in Nodes,
           pc[n] # "idle", UNCHANGED <<events, out>>,
           LeaveRun(n) \/ (LeavePoll(n) /\ pc[n] # "load"),
           ckpt' = ckpt \/ (pc[n] = "save" /\ ckpt' = {mem[n]})
    PROVE  FeedInv'
<1>1. TypeOK /\ TypeOK'
  BY DEF FeedInv, SoloInv
<1>2. OthersSame(n) /\ window'[n] = {}
  BY <1>1, LeaveEffect
<1>3. pc'[n] = "idle" \/ (LeavePoll(n) /\ pc'[n] = "wait" /\ mem'[n] = mem[n] /\ pc[n] # "load")
  BY <1>1 DEF LeavePoll, LeaveRun, TypeOK
<1>4. CASE pc'[n] = "idle"
  <2>1. FeedNode(n)'
    BY <1>4 DEF FeedNode, GapPrinted, WindowBehind, BatchInWindow, Running
  <2> QED
    BY <1>2, <2>1, FeedStep
<1>5. CASE LeavePoll(n) /\ pc'[n] = "wait" /\ mem'[n] = mem[n] /\ pc[n] # "load"
  <2>1. Position' = Position \/ Position' = mem[n].LastEventID
    BY <1>1, PositionAfterSave
  <2>2. GapPrinted(n)
    BY DEF FeedInv, FeedNode
  <2>3. GapPrinted(n)'
    <3>1. CASE Position' = Position
      BY <1>5, <2>2, <3>1 DEF GapPrinted, Running, Delivered
    <3>2. CASE Position' = mem[n].LastEventID
      BY <1>1, <1>5, <3>2 DEF GapPrinted, TypeOK, Event, EventIDs, Checkpoint
    <3> QED
      BY <2>1, <3>1, <3>2
  <2>4. FeedNode(n)'
    BY <1>2, <1>5, <2>3 DEF FeedNode, WindowBehind, BatchInWindow
  <2> QED
    BY <1>2, <2>4, FeedStep
<1> QED
  BY <1>3, <1>4, <1>5

LEMMA PageInWindow ==
    ASSUME TypeOK, NEW n \in Nodes,
           NEW b \in GetEvents(events, Query(n)), NEW i \in 1..Len(b),
           NEW w \in window[n]
    PROVE  b[i].timestamp >= w
<1>1. /\ Query(n).Offset = 0
      /\ Query(n).Limit \in Nat
      /\ Query(n).OrderAsc = TRUE
  BY ProcessorAssumption DEF Query, Offset
<1>2. b \in Seq(Matching(events, Query(n)))
  BY <1>1, FirstPage DEF TypeOK
<1>3. b[i] \in Matching(events, Query(n))
  BY <1>2, ElementOfSeq
<1> QED
  BY <1>3 DEF Matching, Matches, Query

LEMMA FeedAdvance ==
    ASSUME FeedInv, Solo, IInv', SoloInv', NEW n \in Nodes, AdvanceCheckpoint(n)
    PROVE  FeedInv'
<1> DEFINE last == batch[n][Len(batch[n])]
<1>1. TypeOK /\ StoreOrdered /\ NodeInv(n) /\ SoloNode(n) /\ FeedNode(n)
  BY DEF FeedInv, IInv, SoloInv
<1>2. /\ OthersSame(n) /\ UNCHANGED <<events, ckpt, out, window>>
      /\ pc[n] = "send" /\ pc'[n] = "save" /\ sent[n] = Len(batch[n])
      /\ mem'[n].LastEventID = last.id
  BY <1>1 DEF TypeOK, AdvanceCheckpoint, Advanced, OthersSame, SameLocal, db, query
<1>3. Len(batch[n]) \in 1..Len(batch[n])
  BY <1>1, <1>2, EmptySeq DEF TypeOK
<1>4. last \in events /\ last \in Event
  BY <1>1, <1>2, <1>3 DEF NodeInv, BatchComplete, TypeOK
<1>5. Position' = Position /\ Position \in Int /\ mem[n].LastEventID \in Int
  BY <1>1, <1>2, PositionOfRow DEF Position, TypeOK, Checkpoint
<1>6. GapPrinted(n)'
  <2>1. SUFFICES ASSUME Position > 0, NEW e \in events,
                        Position < e.id, e.id <= last.id
                 PROVE  Delivered(e)
    BY <1>2, <1>5 DEF GapPrinted, Delivered
  <2>2. Position <= mem[n].LastEventID
    BY <1>1, <1>2 DEF SoloNode, AheadOfRow
  <2>3. e.id \in Int /\ e.timestamp \in Int /\ \A w \in window[n] : w \in Int
    BY <1>1 DEF TypeOK, Event, EventIDs, Times
  <2>4. CASE e.id <= mem[n].LastEventID
    BY <1>1, <1>2, <2>1, <2>4 DEF FeedNode, GapPrinted, Running
  <2>5. CASE \E w \in window[n] : e.timestamp < w
    <3>1. PICK w \in window[n] : e.timestamp < w
      BY <2>5
    <3>2. ~ (e.id >= mem[n].LastEventID)
      BY <1>1, <1>2, <1>5, <2>1, <2>2, <2>3, <3>1
      DEF FeedNode, WindowBehind, Running
    <3> QED
      BY <1>5, <2>3, <2>4, <3>2
  <2>6. CASE InBatch(n, e)
    BY <1>1, <1>2, <2>6 DEF InBatch, NodeInv, PrefixPrinted, Delivered
  <2> QED
    BY <1>1, <1>2, <2>1, <2>4, <2>5, <2>6 DEF NodeInv, BatchComplete
<1>7. WindowBehind(n)'
  <2>1. SUFFICES ASSUME NEW w \in window[n], NEW e \in events, e.id >= last.id
                 PROVE  e.timestamp >= w
    BY <1>2 DEF WindowBehind
  <2>2. last.timestamp >= w
    BY <1>1, <1>2, <1>3 DEF FeedNode, BatchInWindow
  <2>3. e \in Event /\ w \in Int
    BY <1>1 DEF TypeOK
  <2>4. CASE e.id = last.id
    <3>1. e = last
      BY <1>1, <1>4, <2>4 DEF StoreOrdered
    <3> QED
      BY <2>2, <3>1
  <2>5. CASE e.id > last.id
    <3>1. last.timestamp < e.timestamp
      BY <1>1, <1>4, <2>3, <2>5 DEF StoreOrdered, Event, EventIDs
    <3> QED
      BY <1>4, <2>2, <2>3, <3>1 DEF Event, Times
  <2> QED
    BY <1>4, <2>1, <2>3, <2>4, <2>5 DEF Event, EventIDs
<1>8. BatchInWindow(n)'
  BY <1>2 DEF BatchInWindow
<1> QED
  BY <1>2, <1>6, <1>7, <1>8, FeedStep DEF FeedNode

LEMMA FeedStore ==
    ASSUME IdsInOrder, TimesInOrder, FeedInv, IInv', SoloInv', StoreEvent
    PROVE  FeedInv'
<1>1. TypeOK
  BY DEF FeedInv, SoloInv
<1>2. PICK e \in Event :
          /\ \A f \in events : f.id < e.id /\ f.timestamp < e.timestamp
          /\ events' = events \cup {e}
  BY DEF StoreEvent
<1>3. UNCHANGED <<ckpt, out, pc, mem, window, batch>> /\ Position' = Position
  BY DEF StoreEvent, local, Position
<1>4. ASSUME NEW n \in Nodes PROVE FeedNode(n)'
  <2>1. FeedNode(n) /\ SafePosition(mem[n].LastEventID)
    BY DEF FeedInv, IInv, NodeInv
  <2>2. mem[n].LastEventID \in 0..MaxEventID
    BY <1>1 DEF TypeOK, Checkpoint
  <2>3. mem[n].LastEventID < e.id
    BY <1>2, <2>1, <2>2 DEF SafePosition, Event, EventIDs
  <2>4. GapPrinted(n)'
    BY <1>2, <1>3, <2>1, <2>2, <2>3
    DEF FeedNode, GapPrinted, Running, Delivered, Event, EventIDs
  <2>5. WindowBehind(n)'
    <3>1. SUFFICES ASSUME pc[n] \in {"fetch", "send", "save"},
                          mem[n].LastEventID > 0, NEW w \in window[n]
                   PROVE  e.timestamp >= w
      BY <1>2, <1>3, <2>1 DEF FeedNode, WindowBehind, Running
    <3>2. PICK f \in events : f.id = mem[n].LastEventID
      BY <2>1, <2>2, <3>1 DEF SafePosition
    <3>3. f.timestamp >= w
      BY <2>1, <2>2, <3>1, <3>2 DEF FeedNode, WindowBehind
    <3>4. f \in Event /\ w \in Int
      BY <1>1 DEF TypeOK
    <3> QED
      BY <1>2, <3>3, <3>4 DEF Event, Times
  <2>6. BatchInWindow(n)'
    BY <1>3, <2>1 DEF FeedNode, BatchInWindow
  <2> QED
    BY <2>4, <2>5, <2>6 DEF FeedNode
<1> QED
  BY <1>4 DEF FeedInv

LEMMA IncrementStays ==
    ASSUME TypeOK, NEW i, out' = [out EXCEPT ![i] = @ + 1]
    PROVE  PrintedStays
BY DEF TypeOK, PrintedStays

LEMMA FeedInit == Init => FeedInv
BY InitInv, SoloInit
DEF Init, FeedInv, FeedNode, GapPrinted, WindowBehind, BatchInWindow, Running

LEMMA FeedNext ==
    ASSUME IdsInOrder, TimesInOrder, ~StdoutMayFail
    PROVE  FeedInv /\ Solo /\ [Next]_vars => FeedInv'
<1> SUFFICES ASSUME FeedInv, Solo, [Next]_vars PROVE FeedInv'
  OBVIOUS
<1>1. IInv' /\ SoloInv'
  BY NextInv, SoloNext DEF FeedInv
<1>2. TypeOK /\ TypeOK'
  BY <1>1 DEF FeedInv, SoloInv
<1> USE DEF db, query
<1>3. ASSUME NEW n \in Nodes, CallRun(n) PROVE FeedInv'
  <2>1. OthersSame(n) /\ UNCHANGED <<events, ckpt, out>> /\ pc'[n] = "load"
    BY <1>2, <1>3 DEF TypeOK, CallRun, OthersSame, SameLocal
  <2>2. ASSUME NEW m \in Nodes PROVE FeedNode(m)'
    BY <2>1 DEF FeedInv, FeedNode, GapPrinted, WindowBehind, BatchInWindow,
       Running, Position, Delivered, OthersSame, SameLocal
  <2> QED
    BY <1>1, <2>2 DEF FeedInv
<1>4. ASSUME NEW n \in Nodes, LoadCheckpoint(n) PROVE FeedInv'
  <2>1. /\ OthersSame(n) /\ UNCHANGED <<events, ckpt, out, window>>
        /\ pc[n] = "load" /\ pc'[n] = "poll" /\ mem'[n] = Loaded(ckpt)
    BY <1>2, <1>4 DEF TypeOK, LoadCheckpoint, OthersSame, SameLocal
  <2>2. Position' = mem'[n].LastEventID /\ Position' \in Int
    BY <1>2, <2>1, PositionOfRow DEF Position
  <2>3. GapPrinted(n)'
    BY <1>2, <2>1, <2>2 DEF GapPrinted, TypeOK, Event, EventIDs
  <2>4. FeedNode(n)'
    BY <2>1, <2>3 DEF FeedNode, WindowBehind, BatchInWindow
  <2> QED
    BY <1>1, <2>1, <2>4, FeedStep
<1>5. ASSUME NEW n \in Nodes, LoadFails(n) PROVE FeedInv'
  BY <1>1, <1>5, FeedLeave DEF LoadFails
<1>6. ASSUME NEW n \in Nodes, Tick(n) PROVE FeedInv'
  <2>1. /\ OthersSame(n) /\ UNCHANGED <<events, ckpt, out, mem>>
        /\ pc[n] = "wait" /\ pc'[n] = "poll"
    BY <1>2, <1>6 DEF TypeOK, Tick, OthersSame, SameLocal
  <2>2. FeedNode(n)'
    BY <2>1 DEF FeedInv, FeedNode, GapPrinted, WindowBehind, BatchInWindow,
       Running, Position, Delivered
  <2> QED
    BY <1>1, <2>1, <2>2, FeedStep
<1>7. ASSUME NEW n \in Nodes, Return(n) PROVE FeedInv'
  BY <1>1, <1>7, FeedLeave DEF Return
<1>8. ASSUME NEW n \in Nodes, BeginPoll(n) PROVE FeedInv'
  <2>1. /\ OthersSame(n) /\ UNCHANGED <<events, ckpt, out, mem>>
        /\ pc[n] = "poll" /\ pc'[n] = "fetch"
        /\ window'[n] = LookbackWindow(mem[n])
    BY <1>2, <1>8 DEF TypeOK, BeginPoll, OthersSame, SameLocal
  <2>2. WindowBehind(n)'
    BY <2>1 DEF WindowBehind, LookbackWindow, HasPosition
  <2>3. FeedNode(n)'
    BY <2>1, <2>2 DEF FeedInv, FeedNode, GapPrinted, BatchInWindow, Running,
       Position, Delivered
  <2> QED
    BY <1>1, <2>1, <2>3, FeedStep
<1>9. ASSUME NEW n \in Nodes, FetchBatch(n) PROVE FeedInv'
  <2>1. PICK b \in GetEvents(events, Query(n)) :
            batch' = [batch EXCEPT ![n] = b]
    BY <1>9 DEF FetchBatch
  <2>2. /\ OthersSame(n) /\ UNCHANGED <<events, ckpt, out, mem, window>>
        /\ pc[n] = "fetch" /\ pc'[n] = "send" /\ batch'[n] = b
    BY <1>2, <1>9, <2>1 DEF TypeOK, FetchBatch, OthersSame, SameLocal
  <2>3. BatchInWindow(n)'
    BY <1>2, <2>2, PageInWindow DEF BatchInWindow
  <2>4. FeedNode(n)'
    BY <2>2, <2>3 DEF FeedInv, FeedNode, GapPrinted, WindowBehind, Running,
       Position, Delivered
  <2> QED
    BY <1>1, <2>2, <2>4, FeedStep
<1>10. ASSUME NEW n \in Nodes, FetchEmpty(n) PROVE FeedInv'
  BY <1>1, <1>10, FeedLeave DEF FetchEmpty
<1>11. ASSUME NEW n \in Nodes, FetchFails(n) PROVE FeedInv'
  BY <1>1, <1>11, FeedLeave DEF FetchFails
<1>12. ASSUME NEW n \in Nodes, WriteLine(n) PROVE FeedInv'
  <2>1. /\ OthersSame(n)
        /\ UNCHANGED <<events, ckpt, pc, mem, window, batch>>
        /\ pc[n] = "send"
    BY <1>2, <1>12 DEF TypeOK, WriteLine, OthersSame, SameLocal
  <2>2. PrintedStays
    BY <1>2, <1>12, IncrementStays DEF WriteLine
  <2>3. GapPrinted(n)'
    BY <1>2, <2>1, <2>2 DEF FeedInv, FeedNode, GapPrinted, Running, Position,
       Delivered, PrintedStays, TypeOK, Event
  <2>4. FeedNode(n)'
    BY <2>1, <2>3 DEF FeedInv, FeedNode, WindowBehind, BatchInWindow
  <2> QED
    BY <1>1, <2>1, <2>4, FeedStep
<1>13. ASSUME NEW n \in Nodes, LineLost(n) PROVE FeedInv'
  BY <1>13 DEF LineLost
<1>14. ASSUME NEW n \in Nodes, SendFails(n) PROVE FeedInv'
  BY <1>1, <1>14, FeedLeave DEF SendFails
<1>15. ASSUME NEW n \in Nodes, AdvanceCheckpoint(n) PROVE FeedInv'
  BY <1>1, <1>15, FeedAdvance
<1>16. ASSUME NEW n \in Nodes, SaveCheckpoint(n) PROVE FeedInv'
  <2>1. CASE ShortBatch(batch[n])
    BY <1>1, <1>16, <2>1, FeedLeave DEF SaveCheckpoint, SavedRow
  <2>2. CASE ~ShortBatch(batch[n])
    <3>1. /\ OthersSame(n) /\ UNCHANGED <<events, out, mem, window>>
          /\ ckpt' = {mem[n]} /\ pc[n] = "save" /\ pc'[n] = "fetch"
      BY <1>2, <1>16, <2>2
      DEF TypeOK, SaveCheckpoint, SavedRow, OthersSame, SameLocal
    <3>2. Position' = mem'[n].LastEventID /\ Position' \in Int
      BY <1>2, <3>1 DEF Position, TypeOK, Checkpoint
    <3>3. GapPrinted(n)'
      BY <1>2, <3>1, <3>2 DEF GapPrinted, TypeOK, Event, EventIDs
    <3>4. FeedNode(n)'
      BY <3>1, <3>3 DEF FeedInv, FeedNode, WindowBehind, BatchInWindow
    <3> QED
      BY <1>1, <3>1, <3>4, FeedStep
  <2> QED
    BY <2>1, <2>2
<1>17. ASSUME NEW n \in Nodes, SaveFails(n) PROVE FeedInv'
  BY <1>1, <1>17, FeedLeave DEF SaveFails, AfterFailedSave, SavedRow
<1>18. ASSUME NEW n \in Nodes, Crash(n) PROVE FeedInv'
  BY <1>1, <1>18, FeedLeave DEF Crash, AfterFailedSave, SavedRow
<1>19. ASSUME StoreEvent PROVE FeedInv'
  BY <1>1, <1>19, FeedStore
<1>20. ASSUME \/ \E n \in Nodes : Cancel(n)
              \/ ClockTick
              \/ UNCHANGED vars
       PROVE  FeedInv'
  <2>1. UNCHANGED <<events, ckpt, out, pc, mem, window, batch>>
    BY <1>20 DEF Cancel, ClockTick, vars, local
  <2> QED
    BY <1>1, <2>1 DEF FeedInv, FeedNode, GapPrinted, WindowBehind,
       BatchInWindow, Running, Position, Delivered
<1> QED
  BY <1>3, <1>4, <1>5, <1>6, <1>7, <1>8, <1>9, <1>10, <1>11, <1>12, <1>13,
     <1>14, <1>15, <1>16, <1>17, <1>18, <1>19, <1>20
  DEF Next, Step

-----------------------------------------------------------------------------
(* Every step is a step of the feed, or none.                              *)

LEMMA FeedIds == Feed!Ids = EventIDs
<1>1. 0 \in Times
  BY ProcessorAssumption DEF Times
<1>2. \A i \in EventIDs : [id |-> i, timestamp |-> 0] \in Event
  BY <1>1 DEF Event
<1>3. EventIDs \subseteq Feed!Ids
  <2> SUFFICES ASSUME NEW i \in EventIDs PROVE \E e \in Event : i = e.id
    BY DEF Feed!Ids
  <2>1. [id |-> i, timestamp |-> 0] \in Event
    BY <1>2
  <2> QED
    BY <2>1
<1>4. Feed!Ids \subseteq EventIDs
  BY DEF Feed!Ids, Event
<1> QED
  BY <1>3, <1>4

LEMMA FeedStarts == Init => Feed!Init
<1> SUFFICES ASSUME Init PROVE Feed!Init
  OBVIOUS
<1>1. Position = 0
  BY DEF Init, Position
<1> QED
  BY <1>1, FeedIds DEF Init, Feed!Init

(* A line that is printed belongs to a stored event above the row.         *)
LEMMA DeliverSteps ==
    ASSUME FeedInv, NEW n \in Nodes, WriteLine(n)
    PROVE  Feed!Deliver
<1> DEFINE e == batch[n][sent[n] + 1]
<1>1. TypeOK /\ NodeInv(n) /\ SoloNode(n)
  BY DEF FeedInv, IInv, SoloInv
<1>2. /\ pc[n] = "send"
      /\ sent[n] + 1 \in 1..Len(batch[n])
      /\ out' = [out EXCEPT ![e.id] = @ + 1]
      /\ UNCHANGED <<events, ckpt, now>> /\ Position' = Position
  BY <1>1, LenProperties DEF TypeOK, WriteLine, db, Position
<1>3. e \in events /\ e \in Event
  BY <1>1, <1>2 DEF NodeInv, BatchComplete, TypeOK
<1>4. Position <= mem[n].LastEventID /\ mem[n].LastEventID < e.id
  BY <1>1, <1>2 DEF SoloNode, AheadOfRow, BatchAbove
<1>5. /\ Position \in Int
      /\ mem[n].LastEventID \in Int
  BY <1>1, PositionOfRow DEF TypeOK, Checkpoint
<1>6. e.id \in Int
  BY <1>3 DEF Event, EventIDs
<1> HIDE DEF e
<1>7. e.id > Position
  BY <1>4, <1>5, <1>6
<1> QED
  BY <1>2, <1>3, <1>7 DEF Feed!Deliver

(* A row that is saved moves the position over printed events.             *)
LEMMA CommitSteps ==
    ASSUME FeedInv, TypeOK', NEW n \in Nodes, pc[n] = "save",
           ckpt' = {mem[n]}, UNCHANGED <<events, now, out>>, Position' # Position
    PROVE  Feed!Commit
<1>1. TypeOK /\ SafePosition(mem[n].LastEventID) /\ SoloNode(n) /\ FeedNode(n)
  BY DEF FeedInv, IInv, SoloInv, NodeInv
<1>2. Position' = mem[n].LastEventID
  BY DEF Position
<1>3. Position \in Nat /\ Position' \in Nat /\ Position < Position'
  BY <1>1, <1>2, PositionOfRow DEF SoloNode, AheadOfRow, TypeOK, Checkpoint
<1>4. PICK e \in events : e.id = Position'
  BY <1>1, <1>2, <1>3 DEF SafePosition
<1>5. ASSUME NEW f \in events, Position < f.id, f.id <= e.id
      PROVE  out[f.id] > 0 \/ (Position = 0 /\ Feed!Expired(f))
  <2>1. CASE Position = 0
    BY <1>1, <1>2, <1>4, <1>5, <2>1
    DEF SafePosition, Delivered, Expired, Feed!Expired
  <2>2. CASE Position > 0
    BY <1>1, <1>2, <1>4, <1>5, <2>2 DEF FeedNode, GapPrinted, Running, Delivered
  <2> QED
    BY <1>3, <2>1, <2>2
<1> QED
  BY <1>3, <1>4, <1>5 DEF Feed!Commit

LEMMA FeedSteps ==
    ASSUME IdsInOrder, TimesInOrder
    PROVE  FeedInv /\ TypeOK' /\ [Next]_vars => [Feed!Next]_(Feed!feed)
<1> SUFFICES ASSUME FeedInv, TypeOK', [Next]_vars
             PROVE  Feed!Next \/ UNCHANGED Feed!feed
  OBVIOUS
<1> USE DEF db, AfterFailedSave, SavedRow
<1>1. ASSUME NEW n \in Nodes, Step(n) \/ Cancel(n) \/ Crash(n), ~WriteLine(n)
      PROVE  UNCHANGED <<events, now, out>>
  BY <1>1
  DEF Step, CallRun, LoadCheckpoint, LoadFails, Tick, Return, BeginPoll,
      FetchBatch, FetchEmpty, FetchFails, LineLost, SendFails,
      AdvanceCheckpoint, SaveCheckpoint, SaveFails, Cancel, Crash
<1>2. ASSUME NEW n \in Nodes, Step(n) \/ Cancel(n) \/ Crash(n), ~WriteLine(n)
      PROVE  Feed!Next \/ UNCHANGED Feed!feed
  <2>1. UNCHANGED <<events, now, out>>
    BY <1>1, <1>2
  <2>2. CASE Position' = Position
    BY <2>1, <2>2 DEF Feed!feed
  <2>3. CASE Position' # Position
    <3>1. ckpt' # ckpt
      <4>1. ckpt' = ckpt => Position' = Position
        BY DEF Position
      <4> QED
        BY <2>3, <4>1
    <3>2. PICK m \in Nodes : pc[m] = "save" /\ ckpt' = {mem[m]}
      BY <3>1, RowChanges
    <3> QED
      BY <2>1, <2>3, <3>2, CommitSteps DEF Feed!Next
  <2> QED
    BY <2>2, <2>3
<1>3. ASSUME NEW n \in Nodes, WriteLine(n) PROVE Feed!Next
  BY <1>3, DeliverSteps DEF Feed!Next
<1>4. CASE StoreEvent
  BY <1>4 DEF StoreEvent, Feed!Next, Feed!Store, Position
<1>5. CASE ClockTick
  BY <1>5 DEF ClockTick, Feed!Next, Feed!Hour, Position
<1>6. CASE UNCHANGED vars
  BY <1>6 DEF vars, Feed!feed, Position
<1> QED
  BY <1>2, <1>3, <1>4, <1>5, <1>6 DEF Next

(***************************************************************************)
(* While one node runs at a time, the processors implement the audit feed: *)
(* what they print is stored and lies above the saved position, and the    *)
(* position moves only over printed events (those that expired before the  *)
(* first save excepted) - through every crash, failed save and restart,    *)
(* for rows committed in the order of their ids and times and a stdout     *)
(* that takes every line.                                                  *)
(***************************************************************************)
THEOREM KeepsTheFeed ==
    ASSUME IdsInOrder, TimesInOrder, ~StdoutMayFail
    PROVE  Spec /\ []Solo => ImplementsFeed
<1>1. FeedInv /\ Solo /\ [Next]_vars => FeedInv'
  BY FeedNext
<1>2. FeedInv => TypeOK
  BY DEF FeedInv, SoloInv
<1>3. FeedInv /\ TypeOK' /\ [Next]_vars => [Feed!Next]_(Feed!feed)
  BY FeedSteps
<1> QED
  BY FeedInit, FeedStarts, <1>1, <1>2, <1>3, PTL
  DEF Spec, ImplementsFeed, Feed!Spec

(* In a feed the position is 0 or the id of a stored event, which all that *)
(* is stored later comes after.                                            *)
FeedSound ==
    /\ events \subseteq Event
    /\ out \in [EventIDs -> Nat]
    /\ now \in Nat
    /\ Position = 0 \/ \E e \in events : e.id = Position
    /\ NoEventLost

LEMMA FeedSoundInit == Feed!Init => FeedSound
BY FeedIds DEF Feed!Init, FeedSound, NoEventLost

LEMMA FeedSoundNext ==
    FeedSound /\ [Feed!Next]_(Feed!feed) =>
        /\ FeedSound'
        /\ Position <= Position'
        /\ \A i \in EventIDs : i <= Position => out'[i] = out[i]
<1> SUFFICES ASSUME FeedSound, [Feed!Next]_(Feed!feed)
             PROVE  /\ FeedSound'
                    /\ Position <= Position'
                    /\ \A i \in EventIDs : i <= Position => out'[i] = out[i]
  OBVIOUS
<1>1. /\ \A e \in events : e.id \in Nat /\ e.id > 0 /\ e.timestamp \in Int
      /\ Position \in Nat
      /\ LookbackHours \in Nat
  BY ProcessorAssumption DEF FeedSound, Event, EventIDs, Times
<1> USE DEF NoEventLost, Delivered, Expired
<1>2. CASE Feed!Store
  <2>1. PICK e \in Event : /\ \A f \in events : f.id < e.id
                           /\ events' = events \cup {e}
    BY <1>2 DEF Feed!Store
  <2>2. out' = out /\ Position' = Position /\ now' = now
    BY <1>2 DEF Feed!Store
  <2>3. e.id \in Nat /\ e.id > Position
    BY <1>1, <2>1 DEF FeedSound, Event, EventIDs
  <2> QED
    BY <1>1, <2>1, <2>2, <2>3 DEF FeedSound
<1>3. CASE Feed!Deliver
  <2>1. PICK e \in events : /\ e.id > Position
                            /\ out' = [out EXCEPT ![e.id] = @ + 1]
    BY <1>3 DEF Feed!Deliver
  <2>2. events' = events /\ Position' = Position /\ now' = now
    BY <1>3 DEF Feed!Deliver
  <2>3. \A f \in events : f.id \in EventIDs
    BY DEF FeedSound, Event
  <2>4. /\ out' \in [EventIDs -> Nat]
        /\ \A i \in EventIDs : out[i] > 0 => out'[i] > 0
        /\ \A i \in EventIDs : i # e.id => out'[i] = out[i]
    BY <2>1, <2>3 DEF FeedSound
  <2> QED
    BY <1>1, <2>1, <2>2, <2>3, <2>4 DEF FeedSound, EventIDs
<1>4. CASE Feed!Commit
  <2>1. PICK e \in events :
            /\ e.id > Position
            /\ \A f \in events :
                  Position < f.id /\ f.id <= e.id =>
                      out[f.id] > 0 \/ (Position = 0 /\ Feed!Expired(f))
            /\ Position' = e.id
    BY <1>4 DEF Feed!Commit
  <2>2. events' = events /\ out' = out /\ now' = now
    BY <1>4 DEF Feed!Commit
  <2>3. \A f \in events : f.id <= e.id => Delivered(f) \/ Expired(f)
    BY <1>1, <2>1 DEF FeedSound, Feed!Expired
  <2> QED
    BY <1>1, <2>1, <2>2, <2>3 DEF FeedSound
<1>5. CASE Feed!Hour
  <2>1. /\ now' = now + 1
        /\ events' = events /\ out' = out /\ Position' = Position
    BY <1>5 DEF Feed!Hour
  <2>2. \A e \in events : Expired(e) => Expired(e)'
    BY <1>1, <2>1 DEF FeedSound
  <2> QED
    BY <1>1, <2>1, <2>2 DEF FeedSound
<1>6. CASE UNCHANGED Feed!feed
  BY <1>1, <1>6 DEF Feed!feed, FeedSound
<1> QED
  BY <1>2, <1>3, <1>4, <1>5, <1>6 DEF Feed!Next

(***************************************************************************)
(* What the feed promises, of anything that implements it: no event at or  *)
(* below the position is missing, the position never moves back, and what  *)
(* it covers is never printed again (processor.go:205-236).  The           *)
(* abstraction is thus no weaker than these three together.                *)
(***************************************************************************)
THEOREM FeedKeepsPromises ==
    ImplementsFeed => []NoEventLost /\ PositionNeverRegresses /\ CoveredNeverResent
<1>1. FeedSound => NoEventLost
  BY DEF FeedSound
<1>2. FeedSound /\ [Feed!Next]_(Feed!feed) => [Position <= Position']_vars
  BY FeedSoundNext
<1>3. FeedSound /\ [Feed!Next]_(Feed!feed) =>
          [\A i \in EventIDs : i <= Position => out'[i] = out[i]]_vars
  BY FeedSoundNext
<1>4. FeedSound /\ [Feed!Next]_(Feed!feed) => FeedSound'
  BY FeedSoundNext
<1> QED
  BY FeedSoundInit, <1>1, <1>2, <1>3, <1>4, PTL
  DEF ImplementsFeed, Feed!Spec, PositionNeverRegresses, CoveredNeverResent

-----------------------------------------------------------------------------
(* What a run-once Run has achieved when it returns.                       *)

(* A run-once node never waits for the ticker, and between its batches the *)
(* row is what it holds in memory.                                         *)
RowInMemory(n) ==
    /\ pc[n] # "wait"
    /\ pc[n] \in {"poll", "fetch", "send"} => mem[n].LastEventID = Position

LEMMA RowInMemoryNext ==
    ASSUME PollingInterval = 0
    PROVE  TypeOK /\ TypeOK' /\ Solo /\ [Next]_vars /\ (\A n \in Nodes : RowInMemory(n)) =>
               \A n \in Nodes : RowInMemory(n)'
<1> SUFFICES ASSUME TypeOK, TypeOK', Solo, [Next]_vars, NEW n \in Nodes, RowInMemory(n)
             PROVE  RowInMemory(n)'
  OBVIOUS
<1>1. ckpt' = ckpt => Position' = Position
  BY DEF Position
<1>2. ASSUME pc[n] \in {"poll", "fetch", "send"} PROVE Position' = Position
  <2>1. \A m \in Nodes : pc[m] # "save"
    BY <1>2 DEF Solo
  <2> QED
    BY <1>1, <2>1, RowChanges
<1>3. ASSUME pc'[n] = pc[n], mem'[n] = mem[n] PROVE RowInMemory(n)'
  BY <1>2, <1>3 DEF RowInMemory
<1>4. ASSUME NEW m \in Nodes, Step(m) \/ Cancel(m) \/ Crash(m)
      PROVE  RowInMemory(n)'
  <2>1. CASE m # n
    BY <1>3, <1>4, <2>1, StepsAlone DEF OthersSame, SameLocal
  <2>2. CASE m = n /\ (LeaveRun(n) \/ LeavePoll(n))
    BY <2>2 DEF LeavePoll, LeaveRun, RowInMemory, TypeOK
  <2>3. CASE m = n /\ LoadCheckpoint(n)
    <3>1. pc'[n] = "poll" /\ mem'[n] = Loaded(ckpt) /\ ckpt' = ckpt
      BY <2>3 DEF LoadCheckpoint, TypeOK, db
    <3> QED
      BY <1>1, <3>1, PositionOfRow DEF RowInMemory
  <2>4. CASE m = n /\ SaveCheckpoint(n) /\ ~LeavePoll(n)
    <3>1. pc'[n] = "fetch" /\ mem'[n] = mem[n] /\ ckpt' = {mem[n]}
      BY <2>4 DEF SaveCheckpoint, SavedRow, TypeOK
    <3>2. Position' = mem[n].LastEventID
      BY <3>1 DEF Position
    <3> QED
      BY <3>1, <3>2 DEF RowInMemory
  <2>5. CASE m = n /\ (BeginPoll(n) \/ FetchBatch(n))
    <3>1. /\ pc[n] \in {"poll", "fetch"} /\ pc'[n] \in {"fetch", "send"}
          /\ mem' = mem
      BY <2>5 DEF BeginPoll, FetchBatch, TypeOK
    <3> QED
      BY <1>2, <3>1 DEF RowInMemory
  <2>6. CASE m = n /\ (WriteLine(n) \/ LineLost(n) \/ Cancel(n))
    <3>1. pc' = pc /\ mem' = mem
      BY <2>6 DEF WriteLine, LineLost, Cancel
    <3> QED
      BY <1>3, <3>1
  <2>7. CASE m = n /\ (CallRun(n) \/ AdvanceCheckpoint(n))
    BY <2>7 DEF CallRun, AdvanceCheckpoint, RowInMemory, TypeOK
  <2>8. ~Tick(n)
    BY DEF Tick, RowInMemory
  <2> QED
    BY <1>4, <2>1, <2>2, <2>3, <2>4, <2>5, <2>6, <2>7, <2>8
    DEF Step, LoadFails, Return, FetchEmpty, FetchFails, SendFails, SaveFails, Crash
<1>5. CASE StoreEvent \/ ClockTick \/ UNCHANGED vars
  BY <1>3, <1>5 DEF StoreEvent, ClockTick, vars, local
<1> QED
  BY <1>4, <1>5 DEF Next

(***************************************************************************)
(* A run-once Run that ends without an error leaves a position that covers *)
(* every event stored before its last query, the expired ones excepted:    *)
(* the next one starts behind all of them (processor.go:110-127, 243-246), *)
(* for rows committed in the order of their ids and times, also when       *)
(* stdout loses lines.                                                     *)
(***************************************************************************)
THEOREM RunOnceCovers ==
    ASSUME PollingInterval = 0, IdsInOrder, TimesInOrder,
           NEW n \in Nodes, NEW e \in Event
    PROVE  Spec /\ []Solo =>
               [](e \in events /\ BeforeQuery(n) =>
                    [][PollSucceeds(n) => e.id <= Position' \/ Expired(e)]_vars)
<1> DEFINE Rows == \A m \in Nodes : RowInMemory(m)
<1>1. CatchInv /\ [Next]_vars => CatchInv'
  BY CatchInvNext
<1>2. CatchInv => TypeOK
  BY DEF CatchInv, SortedInv
<1>3. Init => Rows
  BY DEF Init, RowInMemory
<1>4. TypeOK /\ TypeOK' /\ Solo /\ [Next]_vars /\ Rows => Rows'
  BY RowInMemoryNext
<1>5. e \in events /\ BeforeQuery(n) => Catches(n, e)
  BY CatchStarts
<1>6. CatchInv /\ CatchInv' /\ Catches(n, e) /\ [Next]_vars => Catches(n, e)'
  BY CatchNext
<1>7. CatchInv /\ Rows /\ Catches(n, e) =>
          [PollSucceeds(n) => e.id <= Position' \/ Expired(e)]_vars
  <2> SUFFICES ASSUME CatchInv, RowInMemory(n), Catches(n, e), PollSucceeds(n)
               PROVE  e.id <= Position' \/ Expired(e)
    OBVIOUS
  <2>1. Covered(n, e)
    BY SuccessCovers
  <2>2. Position' = mem[n].LastEventID
    <3>1. CASE SaveCheckpoint(n)
      BY <3>1 DEF SaveCheckpoint, SavedRow, Position
    <3>2. CASE FetchEmpty(n)
      BY <3>2 DEF FetchEmpty, RowInMemory, Position, db
    <3> QED
      BY <3>1, <3>2 DEF PollSucceeds
  <2> QED
    BY <2>1, <2>2 DEF Covered
<1> HIDE DEF Rows
<1> QED
  BY CatchInvInit, <1>1, <1>2, <1>3, <1>4, <1>5, <1>6, <1>7, PTL DEF Spec

-----------------------------------------------------------------------------
(* How much is printed again.                                              *)

BatchLimit == EffectiveLimit([Limit |-> BatchSize])

(* The timestamps from which the queries of this position look: all, or    *)
(* those of the lookback window, as of now and as of a poll under way.     *)
Cutoffs ==
    IF Position > 0 \/ LookbackHours = 0
    THEN {0}
    ELSE {now - LookbackHours} \cup UNION { window[n] : n \in Nodes }

(* What lies between the position and k.                                   *)
UpTo(k, c) ==
    { e \in events : Position < e.id /\ e.id <= k /\ c <= e.timestamp }

(* The lines above the position are no more than the next batch.           *)
GapBounded ==
    \A c \in Cutoffs : \E k \in {0} \cup { e.id : e \in events } :
        /\ \A e \in events :
              Delivered(e) /\ e.id > Position /\ c <= e.timestamp => e.id <= k
        /\ Cardinality(UpTo(k, c)) <= BatchLimit

(* Without an error a node that can still fetch knows the position, and    *)
(* the batch at hand covers everything that was ever printed.              *)
OneBatchNode(n) ==
    /\ pc[n] \notin {"fetch", "send", "save"} => window[n] = {}
    /\ \A v, w \in window[n] : v = w
    /\ pc[n] \in {"fetch", "send", "save"}
          => mem[n].LastEventID > 0 \/ LookbackHours = 0 \/ window[n] # {}
    /\ pc[n] \in {"poll", "fetch", "wait"} /\ ~cancelled[n]
          => mem[n].LastEventID = Position
    /\ pc[n] = "send" =>
          /\ mem[n].LastEventID = Position
          /\ Len(batch[n]) <= BatchLimit
          /\ \A e \in events : Delivered(e) => e.id <= batch[n][Len(batch[n])].id
    /\ pc[n] = "save" =>
          \A e \in events : Delivered(e) => e.id <= mem[n].LastEventID

(* Only events of the table were printed.                                  *)
PrintedStored ==
    \A i \in EventIDs : out[i] > 0 => \E e \in events : e.id = i

OneBatch == GapBounded /\ \A n \in Nodes : OneBatchNode(n)

OneBatchInv ==
    /\ FeedInv
    /\ SortedInv
    /\ PrintedStored
    /\ faults = 0 => OneBatch

-----------------------------------------------------------------------------
(* The nodes that are idle have nothing at hand.                           *)
LEMMA OneBatchOthers ==
    ASSUME Solo, NEW n \in Nodes, pc[n] # "idle", OthersSame(n),
           NEW m \in Nodes \ {n}, OneBatchNode(m)
    PROVE  OneBatchNode(m)'
<1>1. pc[m] = "idle" /\ pc'[m] = "idle" /\ window'[m] = window[m]
  BY DEF Solo, OthersSame, SameLocal
<1>2. window[m] = {}
  BY <1>1 DEF OneBatchNode
<1> QED
  BY <1>1, <1>2 DEF OneBatchNode

(* The gap stays when the position does and no poll looks further back.    *)
LEMMA GapKept ==
    ASSUME UNCHANGED <<events, out, now>>, Position' = Position, GapBounded,
           \A m \in Nodes : window'[m] \subseteq window[m] \cup {now - LookbackHours}
    PROVE  GapBounded'
<1>1. Cutoffs' \subseteq Cutoffs
  BY DEF Cutoffs
<1>2. \A k, c : UpTo(k, c)' = UpTo(k, c)
  BY DEF UpTo
<1>3. \A e \in events : Delivered(e)' <=> Delivered(e)
  BY DEF Delivered
<1> QED
  BY <1>1, <1>2, <1>3 DEF GapBounded, BatchLimit

(* A saved position that covers all that was printed leaves no gap.        *)
LEMMA GapClosed ==
    ASSUME TypeOK', UNCHANGED <<events, out>>,
           \A e \in events : Delivered(e) => e.id <= Position'
    PROVE  GapBounded'
<1>1. ASSUME NEW c PROVE UpTo(0, c)' = {}
  <2>1. Position' \in Nat
    BY ProcessorAssumption DEF Position, TypeOK, Checkpoint
  <2>2. \A e \in events' : e.id \in Int
    BY DEF TypeOK, Event, EventIDs
  <2> QED
    BY <2>1, <2>2 DEF UpTo
<1>2. Cardinality({}) = 0 /\ BatchLimit \in Nat
  BY FS_EmptySet, ProcessorAssumption, DefaultLimitAssumption
  DEF BatchLimit, EffectiveLimit
<1>3. \A e \in events' : ~ (Delivered(e)' /\ e.id > Position')
  <2>1. Position' \in Int
    BY ProcessorAssumption DEF Position, TypeOK, Checkpoint
  <2>2. \A e \in events' : e.id \in Int
    BY DEF TypeOK, Event, EventIDs
  <2> QED
    BY <2>1, <2>2 DEF Delivered
<1>4. \A c : Cardinality(UpTo(0, c)') <= BatchLimit
  BY <1>1, <1>2
<1> QED
  BY <1>3, <1>4 DEF GapBounded, BatchLimit

(* A node whose memory is the position, or that is cancelled, leaves.      *)
LEMMA OneBatchLeave ==
    ASSUME OneBatchInv, OneBatch, Solo, TypeOK', NEW n \in Nodes,
           pc[n] # "idle", UNCHANGED <<events, out, now>>,
           \/ LeaveRun(n)
           \/ /\ LeavePoll(n)
              /\ cancelled[n] \/ mem[n].LastEventID = Position',
           \/ ckpt' = ckpt
           \/ pc[n] = "save" /\ ckpt' = {mem[n]}
    PROVE  OneBatch'
<1>1. TypeOK /\ OneBatchNode(n)
  BY DEF OneBatchInv, SortedInv, OneBatch
<1>2. OthersSame(n) /\ window'[n] = {}
  BY <1>1, LeaveEffect
<1>3. GapBounded'
  <2>1. CASE ckpt' = ckpt
    <3>1. Position' = Position
      BY <2>1 DEF Position
    <3>2. \A m \in Nodes : window'[m] \subseteq window[m] \cup {now - LookbackHours}
      BY <1>2 DEF OthersSame, SameLocal
    <3> QED
      BY <3>1, <3>2, GapKept DEF OneBatch
  <2>2. CASE pc[n] = "save" /\ ckpt' = {mem[n]}
    <3>1. Position' = mem[n].LastEventID
      BY <2>2 DEF Position
    <3> QED
      BY <1>1, <2>2, <3>1, GapClosed DEF OneBatchNode
  <2> QED
    BY <2>1, <2>2
<1>4. \/ pc'[n] = "idle"
      \/ /\ pc'[n] = "wait"
         /\ UNCHANGED <<mem, cancelled>>
         /\ cancelled[n] \/ mem[n].LastEventID = Position'
  BY <1>1 DEF LeavePoll, LeaveRun, TypeOK
<1>5. OneBatchNode(n)'
  BY <1>2, <1>4 DEF OneBatchNode
<1> QED
  BY <1>2, <1>3, <1>5, OneBatchOthers DEF OneBatch

(* The page that is fetched covers all that was printed: an event printed  *)
(* above it would make the gap larger than the page, which is full then.   *)
LEMMA FetchCovers ==
    ASSUME OneBatchInv, OneBatch, NEW n \in Nodes,
           pc[n] = "fetch", ~cancelled[n],
           NEW b \in GetEvents(events, Query(n)), b # <<>>
    PROVE  /\ Len(b) <= BatchLimit
           /\ \A e \in events : Delivered(e) => e.id <= b[Len(b)].id
<1>1. /\ TypeOK /\ StoreOrdered /\ QueryFromPosition(n)
      /\ WindowExpired(n) /\ OneBatchNode(n) /\ GapBounded
  BY DEF OneBatchInv, FeedInv, IInv, NodeInv, SortedInv, OneBatch
<1>2. /\ b \in Seq(Event)
      /\ \A i \in 1..Len(b) : b[i] \in events /\ b[i].id > mem[n].LastEventID
      /\ \A i, j \in 1..Len(b) : i < j => b[i].id < b[j].id
  BY <1>1, FetchSorted
<1>3. Len(b) \in 1..Len(b)
  BY <1>2, EmptySeq
<1>4. /\ Query(n).Offset = 0
      /\ Query(n).Limit \in Nat
      /\ Query(n).OrderAsc = TRUE
      /\ EffectiveLimit(Query(n)) = BatchLimit
  BY ProcessorAssumption DEF Query, Offset, EffectiveLimit, BatchLimit
<1>5. Len(b) <= BatchLimit
  BY <1>1, <1>4, FirstPage DEF TypeOK
<1>6. mem[n].LastEventID = Position /\ Position \in Nat
  BY <1>1, PositionOfRow, ProcessorAssumption DEF OneBatchNode
<1>7. ASSUME NEW e \in events, Delivered(e), ~ (e.id <= b[Len(b)].id)
      PROVE  FALSE
  <2> DEFINE T == { b[i] : i \in 1..Len(b) }
  <2>1. /\ e \in Event
        /\ \A i \in 1..Len(b) : b[i] \in Event
    BY <1>1, <1>2 DEF TypeOK
  <2>2. \A i \in 1..Len(b) : b[i].id < e.id
    BY <1>2, <1>3, <1>7, <2>1 DEF Event, EventIDs
  <2>3. \A i \in 1..Len(b), w \in window[n] : b[i].timestamp >= w
    BY <1>1, PageInWindow
  <2>4. \A w \in window[n] : e.timestamp >= w
    <3>1. b[Len(b)].timestamp < e.timestamp
      BY <1>1, <1>2, <1>3, <2>2 DEF StoreOrdered
    <3>2. \A w \in window[n] : w \in Int /\ b[Len(b)].timestamp >= w
      BY <1>1, <1>3, <2>3 DEF TypeOK
    <3>3. b[Len(b)].timestamp \in Int /\ e.timestamp \in Int
      BY <1>3, <2>1 DEF Event, Times
    <3> QED
      BY <3>1, <3>2, <3>3
  <2>5. e \in Matching(events, Query(n))
    <3>1. mem[n].LastEventID < e.id
      BY <1>2, <1>3, <1>6, <2>1, <2>2 DEF Event, EventIDs
    <3> QED
      BY <1>6, <2>1, <2>4, <3>1 DEF Matching, Matches, Query, Event, EventIDs
  <2>6. Len(b) = BatchLimit
    <3>1. ~ \E i \in 1..Len(b) : b[i] = e
      BY <2>1, <2>2 DEF Event, EventIDs
    <3> QED
      BY <1>1, <1>4, <2>5, <3>1, FirstPage DEF TypeOK
  <2>7. PICK c \in Cutoffs : c = 0 \/ c \in window[n]
    BY <1>1, <1>6 DEF Cutoffs, OneBatchNode
  <2>8. /\ c <= e.timestamp
        /\ \A i \in 1..Len(b) : c <= b[i].timestamp
    BY <1>1, <2>1, <2>3, <2>4, <2>7 DEF TypeOK, Event, Times
  <2>9. PICK k \in {0} \cup { f.id : f \in events } :
            /\ \A f \in events :
                  Delivered(f) /\ f.id > Position /\ c <= f.timestamp => f.id <= k
            /\ Cardinality(UpTo(k, c)) <= BatchLimit
    BY <1>1 DEF GapBounded
  <2>10. e.id > Position /\ e.id <= k /\ k \in Int
    <3>1. e.id > Position
      BY <1>2, <1>3, <1>6, <2>1, <2>2 DEF Event, EventIDs
    <3>2. k \in Int
      BY <1>1 DEF TypeOK, Event, EventIDs
    <3> QED
      BY <1>7, <2>8, <2>9, <3>1, <3>2
  <2>11. T \cup {e} \subseteq UpTo(k, c)
    <3>1. ASSUME NEW i \in 1..Len(b) PROVE b[i] \in UpTo(k, c)
      BY <1>2, <1>6, <2>1, <2>2, <2>8, <2>10 DEF UpTo, Event, EventIDs
    <3>2. e \in UpTo(k, c)
      BY <2>8, <2>10, <1>6, <2>1 DEF UpTo, Event, EventIDs
    <3> QED
      BY <3>1, <3>2
  <2>12. IsFiniteSet(T) /\ Cardinality(T) = Len(b)
    <3>1. \A i, j \in 1..Len(b) : i < j => b[i] # b[j]
      BY <1>2, <2>1 DEF Event, EventIDs
    <3> QED
      BY <1>2, <3>1, SeqCount
  <2>13. e \notin T
    BY <2>1, <2>2 DEF Event, EventIDs
  <2>14. IsFiniteSet(UpTo(k, c))
    <3>1. UpTo(k, c) \subseteq events
      BY DEF UpTo
    <3> QED
      BY <1>1, <3>1, FS_Subset DEF TypeOK
  <2> HIDE DEF T
  <2>15. Cardinality(T \cup {e}) = Len(b) + 1
    BY <2>12, <2>13, FS_AddElement
  <2>16. Cardinality(T \cup {e}) <= Cardinality(UpTo(k, c))
    BY <2>11, <2>14, FS_Subset
  <2>17. Cardinality(UpTo(k, c)) \in Nat /\ Len(b) \in Nat
    BY <1>3, <2>14, FS_CardinalityType
  <2> QED
    BY <2>6, <2>9, <2>15, <2>16, <2>17
<1> QED
  BY <1>5, <1>7

(* What is printed belongs to the batch, which is the next one above the   *)
(* position: it is all that lies between the position and its last event.  *)
LEMMA OneBatchWrite ==
    ASSUME OneBatchInv, OneBatch, Solo, TypeOK', NEW n \in Nodes, WriteLine(n)
    PROVE  OneBatch'
<1> DEFINE last == batch[n][Len(batch[n])]
           T == { batch[n][i] : i \in 1..Len(batch[n]) }
<1>1. /\ TypeOK /\ StoreOrdered /\ SortedNode(n) /\ WindowExpired(n)
      /\ BatchComplete(n) /\ WindowBehind(n) /\ OneBatchNode(n)
  BY DEF OneBatchInv, FeedInv, IInv, FeedNode, NodeInv, SortedInv, OneBatch
<1>2. /\ OthersSame(n)
      /\ UNCHANGED <<events, now, ckpt, pc, mem, window, batch, cancelled>>
      /\ pc[n] = "send"
      /\ sent[n] + 1 \in 1..Len(batch[n])
      /\ out' = [out EXCEPT ![batch[n][sent[n] + 1].id] = @ + 1]
  BY <1>1, LenProperties DEF TypeOK, WriteLine, OthersSame, SameLocal, db, query
<1>3. /\ Len(batch[n]) \in 1..Len(batch[n])
      /\ \A i \in 1..Len(batch[n]) : batch[n][i] \in Event /\ batch[n][i] \in events
      /\ \A i \in 1..Len(batch[n]) : batch[n][i].id <= last.id
      /\ \A i, j \in 1..Len(batch[n]) : i < j => batch[n][i].id < batch[n][j].id
  <2>1. Len(batch[n]) \in 1..Len(batch[n])
    BY <1>1, <1>2, EmptySeq DEF TypeOK
  <2>2. /\ \A i \in 1..Len(batch[n]) : batch[n][i] \in Event /\ batch[n][i] \in events
        /\ \A i, j \in 1..Len(batch[n]) : i < j => batch[n][i].id < batch[n][j].id
    BY <1>1, <1>2 DEF SortedNode, BatchSorted, TypeOK
  <2> QED
    BY <2>1, <2>2 DEF Event, EventIDs
<1>4. \A e \in events : Delivered(e)' => e.id <= last.id
  <2>1. ASSUME NEW e \in events, Delivered(e)' PROVE e.id <= last.id
    <3>1. CASE e.id = batch[n][sent[n] + 1].id
      BY <1>2, <1>3, <3>1
    <3>2. CASE e.id # batch[n][sent[n] + 1].id
      <4>1. Delivered(e)
        BY <1>1, <1>2, <2>1, <3>2 DEF Delivered, TypeOK, Event
      <4> QED
        BY <1>1, <1>2, <4>1 DEF OneBatchNode
    <3> QED
      BY <3>1, <3>2
  <2> QED
    BY <2>1
<1>5. mem[n].LastEventID = Position /\ Position' = Position /\ Position \in Nat
  BY <1>1, <1>2, PositionOfRow, ProcessorAssumption DEF OneBatchNode, Position
<1>6. Cutoffs' = Cutoffs
  BY <1>2, <1>5 DEF Cutoffs
<1>7. ASSUME NEW c \in Cutoffs PROVE UpTo(last.id, c)' \subseteq T
  <2>1. SUFFICES ASSUME NEW e \in events,
                        Position < e.id, e.id <= last.id, c <= e.timestamp
                 PROVE  e \in T
    BY <1>2, <1>5 DEF UpTo
  <2>2. e \in Event /\ mem[n].LastEventID \in Int
    BY <1>1 DEF TypeOK, Checkpoint
  <2>3. ASSUME NEW w \in window[n] PROVE w <= e.timestamp
    <3>1. w \in Int /\ now \in Int /\ LookbackHours \in Nat
          /\ LookbackHours > 0 /\ w <= now - LookbackHours
      BY <1>1, ProcessorAssumption DEF TypeOK, WindowExpired, Times
    <3>2. CASE Position > 0
      BY <1>1, <1>2, <1>5, <2>1, <2>2, <3>2 DEF WindowBehind, Event, EventIDs
    <3>3. CASE Position = 0
      <4>1. c = now - LookbackHours \/ \E m \in Nodes : c \in window[m]
        BY <3>1, <3>3 DEF Cutoffs
      <4>2. \A m \in Nodes \ {n} : window[m] = {}
        BY <1>2 DEF OneBatch, OneBatchNode, Solo
      <4>3. \A v \in window[n] : v = w
        BY <1>1 DEF OneBatchNode
      <4>4. w <= c /\ c \in Int
        BY <3>1, <4>1, <4>2, <4>3
      <4> QED
        BY <2>1, <2>2, <3>1, <4>4 DEF Event, Times
    <3> QED
      BY <1>5, <3>2, <3>3
  <2>4. InBatch(n, e)
    <3>1. ~ (e.id <= mem[n].LastEventID)
      BY <1>5, <2>1, <2>2 DEF Event, EventIDs
    <3>2. ~ \E w \in window[n] : e.timestamp < w
      BY <1>1, <2>2, <2>3 DEF TypeOK, Event, Times
    <3> QED
      BY <1>1, <1>2, <2>1, <3>1, <3>2 DEF BatchComplete
  <2> QED
    BY <2>4 DEF InBatch
<1>8. IsFiniteSet(T) /\ Cardinality(T) <= BatchLimit
  <2>1. \A i, j \in 1..Len(batch[n]) : i < j => batch[n][i] # batch[n][j]
    BY <1>3 DEF Event, EventIDs
  <2>2. batch[n] \in Seq(Event)
    BY <1>1 DEF TypeOK
  <2> QED
    BY <1>1, <1>2, <2>1, <2>2, SeqCount DEF OneBatchNode
<1>9. GapBounded'
  <2>1. ASSUME NEW c \in Cutoffs'
        PROVE  \E k \in {0} \cup { e.id : e \in events' } :
                  /\ \A e \in events' :
                        Delivered(e)' /\ e.id > Position' /\ c <= e.timestamp
                           => e.id <= k
                  /\ Cardinality(UpTo(k, c)') <= BatchLimit
    <3>1. IsFiniteSet(UpTo(last.id, c)') /\ Cardinality(UpTo(last.id, c)') <= Cardinality(T)
      <4> HIDE DEF T
      <4> QED
        BY <1>6, <1>7, <1>8, <2>1, FS_Subset
    <3>2. /\ Cardinality(UpTo(last.id, c)') \in Int
          /\ Cardinality(T) \in Int /\ BatchLimit \in Int
      <4> HIDE DEF T
      <4> QED
        BY <1>8, <3>1, FS_CardinalityType, ProcessorAssumption, DefaultLimitAssumption
        DEF BatchLimit, EffectiveLimit
    <3>3. Cardinality(UpTo(last.id, c)') <= BatchLimit
      BY <1>8, <3>1, <3>2
    <3>4. last.id \in {0} \cup { e.id : e \in events' }
      BY <1>2, <1>3
    <3> QED
      BY <1>2, <1>4, <3>3, <3>4
  <2> QED
    BY <2>1 DEF GapBounded, BatchLimit
<1>10. OneBatchNode(n)'
  BY <1>1, <1>2, <1>4, <1>5 DEF OneBatchNode
<1> QED
  BY <1>2, <1>9, <1>10, OneBatchOthers DEF OneBatch

(* A row that is stored was not printed yet, and is above the gap.         *)
LEMMA OneBatchStore ==
    ASSUME IdsInOrder, OneBatchInv, OneBatch, TypeOK', StoreEvent
    PROVE  OneBatch'
<1>1. TypeOK /\ GapBounded
  BY DEF OneBatchInv, SortedInv, OneBatch
<1>2. PICK e \in Event : /\ \A f \in events : f.id < e.id
                         /\ events' = events \cup {e}
  BY DEF StoreEvent
<1>3. UNCHANGED <<now, ckpt, out, pc, mem, window, batch, cancelled>>
  BY DEF StoreEvent, local
<1>4. ~Delivered(e)' /\ \A f \in events : Delivered(f)' <=> Delivered(f)
  <2>1. ASSUME Delivered(e)' PROVE FALSE
    <3>1. out[e.id] > 0 /\ e.id \in EventIDs
      BY <1>3, <2>1 DEF Delivered, Event
    <3>2. PICK f \in events : f.id = e.id
      BY <3>1 DEF OneBatchInv, PrintedStored
    <3> QED
      BY <1>2, <3>2, <3>1 DEF EventIDs
  <2> QED
    BY <1>3, <2>1 DEF Delivered
<1>5. Position' = Position /\ Cutoffs' = Cutoffs
  BY <1>3 DEF Position, Cutoffs
<1>6. GapBounded'
  <2>1. ASSUME NEW c \in Cutoffs'
        PROVE  \E k \in {0} \cup { f.id : f \in events' } :
                  /\ \A f \in events' :
                        Delivered(f)' /\ f.id > Position' /\ c <= f.timestamp
                           => f.id <= k
                  /\ Cardinality(UpTo(k, c)') <= BatchLimit
    <3>1. PICK k \in {0} \cup { f.id : f \in events } :
              /\ \A f \in events :
                    Delivered(f) /\ f.id > Position /\ c <= f.timestamp => f.id <= k
              /\ Cardinality(UpTo(k, c)) <= BatchLimit
      BY <1>1, <1>5, <2>1 DEF GapBounded
    <3>2. ~ (e.id <= k)
      BY <1>1, <1>2, <3>1 DEF TypeOK, Event, EventIDs
    <3>3. UpTo(k, c)' = UpTo(k, c)
      BY <1>2, <1>5, <3>2 DEF UpTo
    <3> QED
      BY <1>2, <1>4, <1>5, <3>1, <3>3
  <2> QED
    BY <2>1 DEF GapBounded, BatchLimit
<1>7. ASSUME NEW n \in Nodes PROVE OneBatchNode(n)'
  BY <1>2, <1>3, <1>4, <1>5 DEF OneBatch, OneBatchNode, BatchLimit
<1> QED
  BY <1>6, <1>7 DEF OneBatch

(* The window moves on with the clock: it only lets events go.             *)
LEMMA OneBatchClock ==
    ASSUME OneBatchInv, OneBatch, TypeOK', ClockTick
    PROVE  OneBatch'
<1>1. TypeOK /\ GapBounded
  BY DEF OneBatchInv, SortedInv, OneBatch
<1>2. /\ UNCHANGED <<events, ckpt, out, pc, mem, window, batch, cancelled>>
      /\ now' = now + 1
  BY DEF ClockTick, local
<1>3. Position' = Position
  BY <1>2 DEF Position
<1>4. \A e \in events : Delivered(e)' <=> Delivered(e)
  BY <1>2 DEF Delivered
<1>5. ASSUME NEW c \in Cutoffs' PROVE \E d \in Cutoffs : d \in Int /\ c \in Int /\ d <= c
  <2>1. CASE Position > 0 \/ LookbackHours = 0
    BY <1>3, <2>1 DEF Cutoffs
  <2>2. CASE ~ (Position > 0 \/ LookbackHours = 0)
    <3>1. Cutoffs = {now - LookbackHours} \cup UNION { window[n] : n \in Nodes }
      BY <2>2 DEF Cutoffs
    <3>2. c = now + 1 - LookbackHours \/ \E n \in Nodes : c \in window[n]
      <4>1. Cutoffs' = {now' - LookbackHours} \cup UNION { window'[n] : n \in Nodes }
        BY <1>3, <2>2 DEF Cutoffs
      <4>2. c = now' - LookbackHours \/ \E n \in Nodes : c \in window'[n]
        BY <4>1
      <4>3. now' - LookbackHours = now + 1 - LookbackHours
        BY <1>1, <1>2, ProcessorAssumption DEF TypeOK, Times
      <4> QED
        BY <1>2, <4>2, <4>3
    <3>3. CASE c = now + 1 - LookbackHours
      <4>1. now \in Int /\ LookbackHours \in Int
        BY <1>1, ProcessorAssumption DEF TypeOK, Times
      <4>2. now - LookbackHours <= c /\ c \in Int /\ now - LookbackHours \in Int
        BY <3>3, <4>1
      <4>3. now - LookbackHours \in Cutoffs
        BY <3>1
      <4> QED
        BY <4>2, <4>3
    <3>4. CASE \E n \in Nodes : c \in window[n]
      <4>1. c \in Cutoffs
        BY <3>1, <3>4
      <4>2. c \in Int
        BY <1>1, <3>4 DEF TypeOK
      <4> QED
        BY <4>1, <4>2
    <3> QED
      BY <3>2, <3>3, <3>4
  <2> QED
    BY <2>1, <2>2
<1>6. GapBounded'
  <2>1. ASSUME NEW c \in Cutoffs'
        PROVE  \E k \in {0} \cup { e.id : e \in events' } :
                  /\ \A e \in events' :
                        Delivered(e)' /\ e.id > Position' /\ c <= e.timestamp
                           => e.id <= k
                  /\ Cardinality(UpTo(k, c)') <= BatchLimit
    <3>1. PICK d \in Cutoffs : d \in Int /\ c \in Int /\ d <= c
      BY <1>5, <2>1
    <3>2. PICK k \in {0} \cup { e.id : e \in events } :
              /\ \A e \in events :
                    Delivered(e) /\ e.id > Position /\ d <= e.timestamp => e.id <= k
              /\ Cardinality(UpTo(k, d)) <= BatchLimit
      BY <1>1, <3>1 DEF GapBounded
    <3>3. \A e \in events : c <= e.timestamp => d <= e.timestamp
      BY <1>1, <3>1 DEF TypeOK, Event, Times
    <3>4. UpTo(k, c)' \subseteq UpTo(k, d)
      BY <1>2, <1>3, <3>3 DEF UpTo
    <3>5. IsFiniteSet(UpTo(k, d))
      <4>1. UpTo(k, d) \subseteq events
        BY DEF UpTo
      <4> QED
        BY <1>1, <4>1, FS_Subset DEF TypeOK
    <3>6. Cardinality(UpTo(k, c)') <= Cardinality(UpTo(k, d))
          /\ Cardinality(UpTo(k, c)') \in Int /\ Cardinality(UpTo(k, d)) \in Int
      BY <3>4, <3>5, FS_Subset, FS_CardinalityType
    <3>7. BatchLimit \in Int
      BY ProcessorAssumption, DefaultLimitAssumption DEF BatchLimit, EffectiveLimit
    <3>8. Cardinality(UpTo(k, c)') <= BatchLimit
      BY <3>2, <3>6, <3>7
    <3> QED
      BY <1>2, <1>3, <1>4, <3>2, <3>3, <3>8
  <2> QED
    BY <2>1 DEF GapBounded, BatchLimit
<1>7. ASSUME NEW n \in Nodes PROVE OneBatchNode(n)'
  BY <1>2, <1>3, <1>4 DEF OneBatch, OneBatchNode, BatchLimit
<1> QED
  BY <1>6, <1>7 DEF OneBatch

(* A poll begins from the position, with the window of the hour.           *)
LEMMA OneBatchBegin ==
    ASSUME OneBatchInv, OneBatch, Solo, NEW n \in Nodes, BeginPoll(n)
    PROVE  OneBatch'
<1>1. TypeOK /\ OneBatchNode(n)
  BY DEF OneBatchInv, SortedInv, OneBatch
<1>2. /\ OthersSame(n)
      /\ UNCHANGED <<events, now, ckpt, out, mem, cancelled>>
      /\ pc[n] = "poll" /\ pc'[n] = "fetch"
      /\ window'[n] = LookbackWindow(mem[n])
  BY <1>1 DEF TypeOK, BeginPoll, OthersSame, SameLocal, db
<1>3. Position' = Position
  BY <1>2 DEF Position
<1>4. mem[n].LastEventID \in Nat
  BY <1>1, ProcessorAssumption DEF TypeOK, Checkpoint
<1>5. GapBounded'
  <2>1. \A m \in Nodes : window'[m] \subseteq window[m] \cup {now - LookbackHours}
    BY <1>2 DEF OthersSame, SameLocal, LookbackWindow
  <2> QED
    BY <1>2, <1>3, <2>1, GapKept DEF OneBatch
<1>6. OneBatchNode(n)'
  <2>1. \/ window'[n] # {}
        \/ mem[n].LastEventID > 0
        \/ LookbackHours = 0
    BY <1>2, <1>4, ProcessorAssumption DEF LookbackWindow, HasPosition
  <2>2. \A v, w \in window'[n] : v = w
    BY <1>2 DEF LookbackWindow
  <2> QED
    BY <1>1, <1>2, <1>3, <2>1, <2>2 DEF OneBatchNode
<1> QED
  BY <1>2, <1>5, <1>6, OneBatchOthers DEF OneBatch

LEMMA PrintedStoredNext ==
    ASSUME OneBatchInv, TypeOK', [Next]_vars
    PROVE  PrintedStored'
<1>1. TypeOK /\ PrintedStored /\ \A n \in Nodes : BatchComplete(n)
  BY DEF OneBatchInv, FeedInv, IInv, NodeInv, SortedInv
<1>2. events \subseteq events'
  <2>1. ASSUME NEW n \in Nodes, Step(n) \/ Cancel(n) \/ Crash(n)
        PROVE  events' = events
    BY <1>1, <2>1, NodeSteps
  <2>2. CASE StoreEvent \/ ClockTick \/ UNCHANGED vars
    BY <2>2 DEF StoreEvent, ClockTick, vars, db
  <2> QED
    BY <2>1, <2>2 DEF Next
<1>3. CASE out' = out
  BY <1>1, <1>2, <1>3 DEF PrintedStored
<1>4. ASSUME NEW n \in Nodes, WriteLine(n) PROVE PrintedStored'
  <2>1. /\ pc[n] = "send"
        /\ sent[n] + 1 \in 1..Len(batch[n])
        /\ out' = [out EXCEPT ![batch[n][sent[n] + 1].id] = @ + 1]
    BY <1>1, <1>4, LenProperties DEF TypeOK, WriteLine
  <2>2. batch[n][sent[n] + 1] \in events
    BY <1>1, <2>1 DEF BatchComplete
  <2> QED
    BY <1>1, <1>2, <2>1, <2>2 DEF PrintedStored, TypeOK
<1> QED
  BY <1>3, <1>4, OutputChanges

LEMMA OneBatchInit == Init => OneBatchInv
<1> SUFFICES ASSUME Init PROVE OneBatchInv
  OBVIOUS
<1>1. FeedInv /\ SortedInv
  BY FeedInit, SortedInit
<1>2. PrintedStored
  BY DEF Init, PrintedStored
<1>3. \A n \in Nodes : OneBatchNode(n)
  BY DEF Init, OneBatchNode
<1>4. GapBounded
  <2>1. Cardinality({}) = 0 /\ BatchLimit \in Nat
    BY FS_EmptySet, ProcessorAssumption, DefaultLimitAssumption
    DEF BatchLimit, EffectiveLimit
  <2>2. ASSUME NEW c PROVE Cardinality(UpTo(0, c)) <= BatchLimit
    <3>1. UpTo(0, c) = {}
      BY DEF Init, UpTo
    <3> QED
      BY <2>1, <3>1
  <2>3. events = {}
    BY DEF Init
  <2> QED
    BY <2>2, <2>3 DEF GapBounded
<1> QED
  BY <1>1, <1>2, <1>3, <1>4 DEF OneBatchInv, OneBatch

(* The steps, while no error has happened.                                 *)
LEMMA OneBatchSteps ==
    ASSUME IdsInOrder, ~StdoutMayFail,
           OneBatchInv, Solo, TypeOK', Next, faults = 0, faults' = 0
    PROVE  OneBatch'
<1>1. TypeOK /\ OneBatch
  BY DEF OneBatchInv, SortedInv
<1> USE DEF db, query
<1>2. ASSUME NEW n \in Nodes, CallRun(n) PROVE OneBatch'
  <2>1. /\ UNCHANGED <<events, now, ckpt, out, window>>
        /\ pc[n] = "idle" /\ pc'[n] = "load" /\ OthersSame(n)
        /\ UNCHANGED cancelled
    BY <1>1, <1>2 DEF TypeOK, CallRun, OthersSame, SameLocal
  <2>2. Position' = Position
    BY <2>1 DEF Position
  <2>3. GapBounded'
    BY <1>1, <2>1, <2>2, GapKept DEF OneBatch
  <2>4. ASSUME NEW m \in Nodes PROVE OneBatchNode(m)'
    <3>1. OneBatchNode(m)
      BY <1>1 DEF OneBatch
    <3> QED
      BY <2>1, <2>2, <3>1 DEF OneBatchNode, OthersSame, SameLocal, Delivered,
         BatchLimit
  <2> QED
    BY <2>3, <2>4 DEF OneBatch
<1>3. ASSUME NEW n \in Nodes, LoadCheckpoint(n) \/ Tick(n) PROVE OneBatch'
  <2>1. /\ UNCHANGED <<events, now, ckpt, out, window, cancelled>>
        /\ pc[n] \in {"load", "wait"} /\ pc'[n] = "poll" /\ OthersSame(n)
        /\ pc[n] = "load" => mem'[n] = Loaded(ckpt)
        /\ pc[n] = "wait" => mem'[n] = mem[n]
    BY <1>1, <1>3 DEF TypeOK, LoadCheckpoint, Tick, OthersSame, SameLocal
  <2>2. Position' = Position
    BY <2>1 DEF Position
  <2>3. GapBounded'
    BY <1>1, <2>1, <2>2, GapKept DEF OneBatch
  <2>4. OneBatchNode(n) /\ Position = Loaded(ckpt).LastEventID
    BY <1>1, PositionOfRow DEF OneBatch
  <2>5. OneBatchNode(n)'
    BY <2>1, <2>2, <2>4 DEF OneBatchNode
  <2> QED
    BY <1>1, <2>1, <2>3, <2>5, OneBatchOthers DEF OneBatch
<1>4. ASSUME NEW n \in Nodes, LoadFails(n) \/ Return(n) PROVE OneBatch'
  BY <1>1, <1>4, OneBatchLeave DEF LoadFails, Return
<1>5. ASSUME NEW n \in Nodes, BeginPoll(n) PROVE OneBatch'
  BY <1>1, <1>5, OneBatchBegin
<1>6. ASSUME NEW n \in Nodes, FetchBatch(n) PROVE OneBatch'
  <2>1. PICK b \in GetEvents(events, Query(n)) :
            b # <<>> /\ batch' = [batch EXCEPT ![n] = b]
    BY <1>6 DEF FetchBatch
  <2>2. /\ UNCHANGED <<events, now, ckpt, out, mem, window, cancelled>>
        /\ pc[n] = "fetch" /\ pc'[n] = "send" /\ batch'[n] = b
        /\ ~cancelled[n] /\ OthersSame(n)
    BY <1>1, <1>6, <2>1 DEF TypeOK, FetchBatch, OthersSame, SameLocal
  <2>3. Position' = Position
    BY <2>2 DEF Position
  <2>4. GapBounded'
    BY <1>1, <2>2, <2>3, GapKept DEF OneBatch
  <2>5. OneBatchNode(n)
    BY <1>1 DEF OneBatch
  <2>6. /\ Len(b) <= BatchLimit
        /\ \A e \in events : Delivered(e) => e.id <= b[Len(b)].id
    BY <1>1, <2>1, <2>2, FetchCovers
  <2>7. OneBatchNode(n)'
    BY <2>2, <2>3, <2>5, <2>6 DEF OneBatchNode, Delivered, BatchLimit
  <2> QED
    BY <1>1, <2>2, <2>4, <2>7, OneBatchOthers DEF OneBatch
<1>7. ASSUME NEW n \in Nodes, FetchEmpty(n) PROVE OneBatch'
  <2>1. Position' = Position
    BY <1>7 DEF FetchEmpty, Position
  <2>2. mem[n].LastEventID = Position
    BY <1>1, <1>7 DEF FetchEmpty, OneBatch, OneBatchNode
  <2> QED
    BY <1>1, <1>7, <2>1, <2>2, OneBatchLeave DEF FetchEmpty
<1>8. ASSUME NEW n \in Nodes, FetchFails(n) PROVE OneBatch'
  <2>1. cancelled[n]
    BY <1>8 DEF FetchFails, CallFails
  <2> QED
    BY <1>1, <1>8, <2>1, OneBatchLeave DEF FetchFails
<1>9. ASSUME NEW n \in Nodes, WriteLine(n) PROVE OneBatch'
  BY <1>1, <1>9, OneBatchWrite
<1>10. ASSUME NEW n \in Nodes, LineLost(n) PROVE OneBatch'
  BY <1>10 DEF LineLost
<1>11. ASSUME NEW n \in Nodes, SendFails(n) PROVE OneBatch'
  BY <1>11 DEF SendFails
<1>12. ASSUME NEW n \in Nodes, AdvanceCheckpoint(n) PROVE OneBatch'
  <2>1. /\ UNCHANGED <<events, now, ckpt, out, window, cancelled>>
        /\ pc[n] = "send" /\ pc'[n] = "save" /\ OthersSame(n)
        /\ mem'[n].LastEventID = batch[n][Len(batch[n])].id
    BY <1>1, <1>12
    DEF TypeOK, AdvanceCheckpoint, Advanced, OthersSame, SameLocal
  <2>2. Position' = Position
    BY <2>1 DEF Position
  <2>3. GapBounded'
    BY <1>1, <2>1, <2>2, GapKept DEF OneBatch
  <2>4. OneBatchNode(n)
    BY <1>1 DEF OneBatch
  <2>5. mem'[n].LastEventID > 0
    <3>1. Len(batch[n]) \in 1..Len(batch[n])
      BY <1>1, <2>1, EmptySeq DEF TypeOK
    <3>2. batch[n][Len(batch[n])] \in Event
      BY <1>1, <3>1, ElementOfSeq DEF TypeOK
    <3> QED
      BY <2>1, <3>2 DEF Event, EventIDs
  <2>6. OneBatchNode(n)'
    BY <2>1, <2>2, <2>4, <2>5 DEF OneBatchNode, Delivered
  <2> QED
    BY <1>1, <2>1, <2>3, <2>6, OneBatchOthers DEF OneBatch
<1>13. ASSUME NEW n \in Nodes, SaveCheckpoint(n) PROVE OneBatch'
  <2>1. Position' = mem[n].LastEventID
    BY <1>13 DEF SaveCheckpoint, SavedRow, Position
  <2>2. CASE ShortBatch(batch[n])
    BY <1>1, <1>13, <2>1, <2>2, OneBatchLeave DEF SaveCheckpoint, SavedRow
  <2>3. CASE ~ShortBatch(batch[n])
    <3>1. /\ UNCHANGED <<events, now, out, mem, window, cancelled>>
          /\ pc[n] = "save" /\ pc'[n] = "fetch" /\ OthersSame(n)
      BY <1>1, <1>13, <2>3 DEF TypeOK, SaveCheckpoint, OthersSame, SameLocal
    <3>2. OneBatchNode(n)
      BY <1>1 DEF OneBatch
    <3>3. GapBounded'
      BY <2>1, <3>1, <3>2, GapClosed DEF OneBatchNode
    <3>4. OneBatchNode(n)'
      BY <2>1, <3>1, <3>2 DEF OneBatchNode
    <3> QED
      BY <1>1, <3>1, <3>3, <3>4, OneBatchOthers DEF OneBatch
  <2> QED
    BY <2>2, <2>3
<1>14. ASSUME NEW n \in Nodes, SaveFails(n) PROVE OneBatch'
  <2>1. cancelled[n]
    BY <1>14 DEF SaveFails, CallFails
  <2> QED
    BY <1>1, <1>14, <2>1, OneBatchLeave DEF SaveFails, AfterFailedSave, SavedRow
<1>15. ASSUME NEW n \in Nodes, Crash(n) PROVE OneBatch'
  BY <1>1, <1>15, OneBatchLeave DEF Crash, AfterFailedSave, SavedRow
<1>16. ASSUME NEW n \in Nodes, Cancel(n) PROVE OneBatch'
  <2>1. /\ UNCHANGED <<events, now, ckpt, out, pc, mem, window, batch>>
        /\ \A m \in Nodes : cancelled[m] => cancelled'[m]
    BY <1>1, <1>16 DEF Cancel, TypeOK
  <2>2. Position' = Position
    BY <2>1 DEF Position
  <2>3. GapBounded'
    BY <1>1, <2>1, <2>2, GapKept DEF OneBatch
  <2>4. ASSUME NEW m \in Nodes PROVE OneBatchNode(m)'
    BY <1>1, <2>1, <2>2 DEF OneBatch, OneBatchNode, Delivered, BatchLimit
  <2> QED
    BY <2>3, <2>4 DEF OneBatch
<1>17. CASE StoreEvent
  BY <1>1, <1>17, OneBatchStore
<1>18. CASE ClockTick
  BY <1>1, <1>18, OneBatchClock
<1> QED
  BY <1>2, <1>3, <1>4, <1>5, <1>6, <1>7, <1>8, <1>9, <1>10, <1>11, <1>12,
     <1>13, <1>14, <1>15, <1>16, <1>17, <1>18
  DEF Next, Step

LEMMA OneBatchNext ==
    ASSUME IdsInOrder, TimesInOrder, ~StdoutMayFail
    PROVE  OneBatchInv /\ Solo /\ [Next]_vars => OneBatchInv'
<1> SUFFICES ASSUME OneBatchInv, Solo, [Next]_vars PROVE OneBatchInv'
  OBVIOUS
<1>1. FeedInv' /\ SortedInv'
  BY FeedNext, SortedNext DEF OneBatchInv
<1>2. TypeOK /\ TypeOK'
  BY <1>1 DEF OneBatchInv, SortedInv
<1>3. PrintedStored'
  BY <1>2, PrintedStoredNext
<1>4. ASSUME faults' = 0 PROVE OneBatch'
  <2>1. CASE Next
    <3>1. faults' \in {faults, faults + 1}
      BY <2>1 DEF Next, Step, CallRun, LoadCheckpoint, LoadFails, Tick, Return,
         BeginPoll, FetchBatch, FetchEmpty, FetchFails, WriteLine, LineLost,
         SendFails, AdvanceCheckpoint, SaveCheckpoint, SaveFails, Cancel, Crash,
         CallFails, StoreEvent, ClockTick
    <3>2. faults = 0
      BY <1>2, <1>4, <3>1 DEF TypeOK
    <3> QED
      BY <1>2, <1>4, <2>1, <3>2, OneBatchSteps
  <2>2. CASE UNCHANGED vars
    <3>1. /\ UNCHANGED <<events, now, ckpt, out, pc, mem, window, batch, cancelled>>
          /\ faults = 0
      BY <1>4, <2>2 DEF vars, db, local
    <3>2. Position' = Position /\ OneBatch
      BY <3>1 DEF Position, OneBatchInv
    <3>3. GapBounded'
      BY <3>1, <3>2, GapKept DEF OneBatch
    <3>4. ASSUME NEW n \in Nodes PROVE OneBatchNode(n)'
      BY <3>1, <3>2 DEF OneBatch, OneBatchNode, Delivered, BatchLimit
    <3> QED
      BY <3>3, <3>4 DEF OneBatch
  <2> QED
    BY <2>1, <2>2
<1> QED
  BY <1>1, <1>3, <1>4 DEF OneBatchInv

(* The printed events above the position are among what the next batch     *)
(* would hold.                                                             *)
LEMMA OneBatchGap == OneBatchInv => GapAtMostOneBatch
<1> SUFFICES ASSUME OneBatchInv, faults = 0
             PROVE  Cardinality(PrintedAgain) <= BatchLimit
  BY DEF GapAtMostOneBatch, BatchLimit
<1>1. TypeOK /\ GapBounded
  BY DEF OneBatchInv, SortedInv, OneBatch
<1>2. /\ Position \in Nat /\ now \in Nat /\ LookbackHours \in Nat
      /\ \A e \in events : e \in Event
  BY <1>1, PositionOfRow, ProcessorAssumption DEF TypeOK, Times
<1>3. PICK c \in Cutoffs : c = IF Position > 0 \/ LookbackHours = 0
                               THEN 0 ELSE now - LookbackHours
  BY DEF Cutoffs
<1>4. PICK k \in {0} \cup { e.id : e \in events } :
          /\ \A e \in events :
                Delivered(e) /\ e.id > Position /\ c <= e.timestamp => e.id <= k
          /\ Cardinality(UpTo(k, c)) <= BatchLimit
  BY <1>1, <1>3 DEF GapBounded
<1>5. PrintedAgain \subseteq UpTo(k, c)
  <2>1. SUFFICES ASSUME NEW e \in events, e.id > Position, Delivered(e),
                        ~ (Position = 0 /\ Expired(e))
                 PROVE  e \in UpTo(k, c)
    BY DEF PrintedAgain
  <2>2. e.id \in Nat /\ e.timestamp \in Nat
    BY <1>2 DEF Event, EventIDs, Times
  <2>3. c <= e.timestamp
    <3>1. CASE Position > 0 \/ LookbackHours = 0
      BY <1>3, <2>2, <3>1
    <3>2. CASE ~ (Position > 0 \/ LookbackHours = 0)
      <4>1. ~ (e.timestamp < now - LookbackHours)
        BY <1>2, <2>1, <3>2 DEF Expired
      <4> QED
        BY <1>2, <1>3, <2>2, <3>2, <4>1
    <3> QED
      BY <3>1, <3>2
  <2> QED
    BY <1>2, <1>4, <2>1, <2>2, <2>3 DEF UpTo
<1>6. IsFiniteSet(UpTo(k, c))
  <2>1. UpTo(k, c) \subseteq events
    BY DEF UpTo
  <2> QED
    BY <1>1, <2>1, FS_Subset DEF TypeOK
<1>7. /\ Cardinality(PrintedAgain) <= Cardinality(UpTo(k, c))
      /\ Cardinality(PrintedAgain) \in Int /\ Cardinality(UpTo(k, c)) \in Int
  BY <1>5, <1>6, FS_Subset, FS_CardinalityType
<1>8. BatchLimit \in Int
  BY ProcessorAssumption, DefaultLimitAssumption DEF BatchLimit, EffectiveLimit
<1> QED
  BY <1>4, <1>7, <1>8

(***************************************************************************)
(* While one node runs at a time and no call fails, what a crash, a        *)
(* cancellation or a change of leaders prints again is at most one batch,  *)
(* for every batch size (0 is DefaultLimit) and every lookback.            *)
(***************************************************************************)
THEOREM GapIsOneBatch ==
    ASSUME IdsInOrder, TimesInOrder, ~StdoutMayFail
    PROVE  Spec /\ []Solo => []GapAtMostOneBatch
<1>1. OneBatchInv /\ Solo /\ [Next]_vars => OneBatchInv'
  BY OneBatchNext
<1> QED
  BY OneBatchInit, <1>1, OneBatchGap, PTL DEF Spec
=============================================================================
