--------------------------- MODULE OperatorProofs ----------------------------
(***************************************************************************)
(* Proofs about Operator: the processors while somebody edits the row, for *)
(* any number of nodes, running at the same time or not.                   *)
(***************************************************************************)
EXTENDS Operator, ProcessorProofs

(* A run that read the row after the edit knows no position above what is  *)
(* owed, and the batch it sends still holds what is owed.                  *)
OwedNode(n) ==
    /\ window[n] = {}
    /\ pc[n] \notin {"idle", "load"} => \A i \in owed : i > mem[n].LastEventID
    /\ pc[n] = "send" =>
          \A i \in owed :
              i <= batch[n][Len(batch[n])].id =>
                  \E j \in (sent[n] + 1)..Len(batch[n]) : batch[n][j].id = i

OwedInv ==
    /\ SortedInv
    /\ \A i \in owed : \E e \in events : e.id = i
    /\ ReprocessesEverything
    /\ \A n \in Nodes : OwedNode(n)

-----------------------------------------------------------------------------
(* What an edit leaves: the position asked for, everything above it owed,  *)
(* and all else as it was.                                                 *)
EditDone ==
    /\ TypeOK'
    /\ \A i \in owed' : i > Position' /\ \E e \in events : e.id = i
    /\ WhileStopped => \A n \in Nodes : pc[n] = "idle"
    /\ UNCHANGED <<events, now, out, local, runs, faults>>

LEMMA EditRow ==
    ASSUME TypeOK, NEW position, NEW row, Edit(row, position),
           row \subseteq Checkpoint, \A c, d \in row : c = d,
           row = {} => position = 0,
           \A c \in row : c.LastEventID = position
    PROVE  EditDone
<1>1. /\ ckpt' = row
      /\ owed' = { e.id : e \in { f \in events : f.id > position } }
      /\ UNCHANGED <<events, now, out, local, runs, faults>>
      /\ WhileStopped => \A n \in Nodes : pc[n] = "idle"
  BY DEF Edit
<1>2. Position' = position
  BY <1>1 DEF Position
<1>3. TypeOK'
  BY <1>1 DEF TypeOK, local
<1> QED
  BY <1>1, <1>2, <1>3 DEF EditDone

LEMMA EditEffect ==
    ASSUME TypeOK, ResetRow \/ DeleteRow \/ SkipTo
    PROVE  EditDone
<1>1. CASE ResetRow
  <2>1. /\ Edit({FreshCheckpoint}, 0)
        /\ FreshCheckpoint \in Checkpoint
        /\ FreshCheckpoint.LastEventID = 0
    BY <1>1, ProcessorAssumption DEF ResetRow, FreshCheckpoint, Checkpoint
  <2> QED
    BY <2>1, EditRow
<1>2. CASE DeleteRow
  BY <1>2, EditRow DEF DeleteRow
<1>3. CASE SkipTo
  <2>1. PICK position \in EventIDs :
            Edit({ [c EXCEPT !.LastEventID = position] : c \in ckpt }, position)
    BY <1>3 DEF SkipTo
  <2> DEFINE row == { [c EXCEPT !.LastEventID = position] : c \in ckpt }
  <2>2. ckpt # {}
    BY <2>1 DEF Edit
  <2>3. PICK c \in ckpt : ckpt = {c}
    <3>1. \A c, d \in ckpt : c = d
      BY DEF TypeOK
    <3> QED
      BY <2>2, <3>1
  <2> DEFINE d == [c EXCEPT !.LastEventID = position]
  <2>4. row = {d}
    BY <2>3
  <2>5. d \in Checkpoint /\ d.LastEventID = position
    <3>1. c \in Checkpoint
      BY DEF TypeOK
    <3> QED
      BY <3>1 DEF Checkpoint, EventIDs
  <2> HIDE DEF row
  <2>6. Edit(row, position)
    BY <2>1 DEF row
  <2> HIDE DEF d
  <2> QED
    BY <2>4, <2>5, <2>6, EditRow
<1> QED
  BY <1>1, <1>2, <1>3

(* The edits change nothing that SortedInv and OnceInv look at.            *)
LEMMA EditKeeps ==
    ASSUME ResetRow \/ DeleteRow \/ SkipTo
    PROVE  /\ SortedInv => SortedInv'
           /\ OnceInv => OnceInv'
<1>1. ASSUME SortedInv PROVE SortedInv'
  <2>1. TypeOK' /\ UNCHANGED <<events, pc, mem, resume, batch>>
    BY <1>1, EditEffect DEF EditDone, SortedInv, local
  <2> QED
    BY <1>1, <2>1 DEF SortedInv, StoreOrdered, SortedNode, QueryFromPosition,
       BatchSorted
<1>2. ASSUME OnceInv PROVE OnceInv'
  <2>1. UNCHANGED <<out, runs, pc, mem, batch, sent>>
    BY <1>2, EditEffect DEF EditDone, OnceInv, SortedInv, local
  <2>2. \A i : Candidates(i)' = Candidates(i)
    BY <2>1 DEF Candidates, MayStillPrint
  <2> QED
    BY <1>1, <1>2, <2>1, <2>2 DEF OnceInv
<1> QED
  BY <1>1, <1>2

(* Every other step is one of the processors and their environment.        *)
LEMMA OtherSteps ==
    ASSUME [OperatorNext]_allVars
    PROVE  (ResetRow \/ DeleteRow \/ SkipTo) \/ [Next]_vars
BY DEF OperatorNext, Work, Disturb, Store, allVars, Next

(***************************************************************************)
(* Every run prints an event at most once, also when the row is edited     *)
(* under a running processor: only another run reads the row again.        *)
(***************************************************************************)
THEOREM EditsPrintOncePerRun ==
    ASSUME IsFiniteSet(Nodes), IdsInOrder, TimesInOrder, ~SendMayFail
    PROVE  OperatorSpec => []OncePerRun
<1>1. OperatorInit => OnceInv
  BY OnceInit DEF OperatorInit
<1>2. OnceInv /\ [OperatorNext]_allVars => OnceInv'
  BY OtherSteps, EditKeeps, OnceNext
<1>3. OnceInv => OncePerRun
  BY OnceInvBounds
<1> QED
  BY <1>1, <1>2, <1>3, PTL DEF OperatorSpec

-----------------------------------------------------------------------------
(* What is owed stays above the saved position.                            *)

(* An edit finds every node idle, with nothing at hand.                    *)
LEMMA OwedEdit ==
    ASSUME WhileStopped, OwedInv, ResetRow \/ DeleteRow \/ SkipTo
    PROVE  OwedInv'
<1>1. SortedInv' /\ EditDone
  BY EditKeeps, EditEffect DEF OwedInv, SortedInv
<1>2. \A n \in Nodes : OwedNode(n)'
  BY <1>1 DEF OwedInv, OwedNode, EditDone, local
<1> QED
  BY <1>1, <1>2 DEF OwedInv, EditDone, ReprocessesEverything

(* The row is moved only to where a node has printed all that was owed.    *)
LEMMA OwedRow ==
    ASSUME OwedInv, SortedInv', [Next]_vars, owed' \subseteq owed,
           events \subseteq events', \A n \in Nodes : OwedNode(n)'
    PROVE  OwedInv'
<1>1. ASSUME NEW i \in owed' PROVE i > Position'
  <2>1. CASE ckpt' = ckpt
    BY <2>1 DEF OwedInv, ReprocessesEverything, Position
  <2>2. ASSUME NEW n \in Nodes, pc[n] = "save", ckpt' = {mem[n]}
        PROVE  i > Position'
    <3>1. Position' = mem[n].LastEventID
      BY <2>2 DEF Position
    <3> QED
      BY <2>2, <3>1 DEF OwedInv, OwedNode
  <2>3. ckpt' = ckpt \/ \E n \in Nodes : pc[n] = "save" /\ ckpt' = {mem[n]}
    BY RowChanges
  <2> QED
    BY <2>1, <2>2, <2>3
<1>2. \A i \in owed' : \E e \in events' : e.id = i
  BY DEF OwedInv
<1> QED
  BY <1>1, <1>2 DEF OwedInv, ReprocessesEverything

LEMMA OwedStep ==
    ASSUME OwedInv, owed' \subseteq owed, NEW n \in Nodes, OthersSame(n),
           OwedNode(n)'
    PROVE  \A m \in Nodes : OwedNode(m)'
<1>1. ASSUME NEW m \in Nodes \ {n} PROVE OwedNode(m)'
  <2>1. OwedNode(m) /\ SameLocal(m)
    BY DEF OwedInv, OthersSame
  <2> QED
    BY <2>1 DEF OwedNode, SameLocal
<1> QED
  BY <1>1

LEMMA OwedLeave ==
    ASSUME OwedInv, owed' \subseteq owed, NEW n \in Nodes,
           LeaveRun(n) \/ (LeavePoll(n) /\ pc[n] \notin {"idle", "load"})
    PROVE  \A m \in Nodes : OwedNode(m)'
<1>1. TypeOK /\ OwedNode(n)
  BY DEF OwedInv, SortedInv
<1>2. OthersSame(n) /\ window'[n] = {}
  BY <1>1, LeaveEffect
<1>3. \/ pc'[n] = "idle"
      \/ pc'[n] = "wait" /\ pc[n] \notin {"idle", "load"} /\ mem'[n] = mem[n]
  BY <1>1 DEF LeavePoll, LeaveRun, TypeOK
<1>4. OwedNode(n)'
  BY <1>1, <1>2, <1>3 DEF OwedNode
<1> QED
  BY <1>2, <1>4, OwedStep

(* The printed event is no longer owed.                                    *)
LEMMA OwedWrite ==
    ASSUME OwedInv, NEW n \in Nodes, WriteLine(n), owed' = Settled
    PROVE  \A m \in Nodes : OwedNode(m)'
<1> DEFINE k == batch[n][sent[n] + 1].id
<1>1. TypeOK /\ OwedNode(n)
  BY DEF OwedInv, SortedInv
<1>2. /\ UNCHANGED <<pc, mem, resume, window, batch>>
      /\ pc[n] = "send"
      /\ sent[n] + 1 \in 1..Len(batch[n])
      /\ sent' = [sent EXCEPT ![n] = @ + 1]
      /\ out' = [out EXCEPT ![k] = @ + 1]
      /\ OthersSame(n)
  BY <1>1, LenProperties DEF TypeOK, WriteLine, OthersSame, SameLocal, query
<1>3. sent'[n] = sent[n] + 1 /\ sent[n] \in Nat /\ Len(batch[n]) \in Nat
  BY <1>1, <1>2, LenProperties DEF TypeOK
<1>4. k \notin owed' /\ owed' \subseteq owed
  <2>1. batch[n][sent[n] + 1] \in Event
    BY <1>1, <1>2, ElementOfSeq DEF TypeOK
  <2>2. k \in EventIDs /\ out[k] \in Nat
    BY <1>1, <2>1 DEF TypeOK, Event
  <2>3. out'[k] # out[k]
    BY <1>1, <1>2, <2>2 DEF TypeOK
  <2> QED
    BY <2>3 DEF Settled
<1>5. ASSUME NEW i \in owed', i <= batch[n][Len(batch[n])].id
      PROVE  \E j \in (sent'[n] + 1)..Len(batch[n]) : batch[n][j].id = i
  <2>1. PICK j \in (sent[n] + 1)..Len(batch[n]) : batch[n][j].id = i
    BY <1>1, <1>2, <1>4, <1>5 DEF OwedNode
  <2>2. j # sent[n] + 1
    BY <1>4, <2>1
  <2>3. j \in (sent'[n] + 1)..Len(batch[n])
    BY <1>3, <2>1, <2>2
  <2> QED
    BY <2>1, <2>3
<1>6. OwedNode(n)'
  <2> HIDE DEF k
  <2> QED
    BY <1>1, <1>2, <1>4, <1>5 DEF OwedNode
<1> QED
  BY <1>2, <1>4, <1>6, OwedStep

(* The page that is fetched leaves out nothing below its last event.       *)
LEMMA OwedFetch ==
    ASSUME OwedInv, owed' \subseteq owed, NEW n \in Nodes, FetchBatch(n)
    PROVE  \A m \in Nodes : OwedNode(m)'
<1>1. TypeOK /\ SortedInv /\ OwedNode(n)
  BY DEF OwedInv, SortedInv
<1>2. PICK b \in GetEvents(events, Query(n)) :
          b # <<>> /\ batch' = [batch EXCEPT ![n] = b]
  BY DEF FetchBatch
<1>3. /\ OthersSame(n) /\ UNCHANGED <<mem, window>>
      /\ pc[n] = "fetch" /\ pc'[n] = "send"
      /\ batch'[n] = b /\ sent'[n] = 0
  BY <1>1, <1>2 DEF TypeOK, FetchBatch, OthersSame, SameLocal, query
<1>4. Len(b) \in Nat
  BY <1>2, FetchedType, LenProperties, <1>1
<1>5. ASSUME NEW i \in owed', i <= b[Len(b)].id
      PROVE  \E j \in 1..Len(b) : b[j].id = i
  <2>1. PICK e \in events : e.id = i
    BY DEF OwedInv
  <2>2. mem[n].LastEventID < e.id
    <3>1. e.id \in Int /\ mem[n].LastEventID \in Int
      BY <1>1 DEF TypeOK, Event, EventIDs, Checkpoint
    <3>2. i > mem[n].LastEventID
      BY <1>1, <1>3 DEF OwedNode
    <3> QED
      BY <2>1, <3>1, <3>2
  <2>3. window[n] = {}
    BY <1>1 DEF OwedNode
  <2> QED
    BY <1>1, <1>2, <1>3, <1>5, <2>1, <2>2, <2>3, FetchWhole
<1>6. OwedNode(n)'
  BY <1>1, <1>3, <1>4, <1>5 DEF OwedNode
<1> QED
  BY <1>3, <1>6, OwedStep

(* The checkpoint is advanced when all of the batch was printed.           *)
LEMMA OwedAdvance ==
    ASSUME OwedInv, owed' \subseteq owed, NEW n \in Nodes, AdvanceCheckpoint(n)
    PROVE  \A m \in Nodes : OwedNode(m)'
<1>1. TypeOK /\ OwedNode(n)
  BY DEF OwedInv, SortedInv
<1>2. /\ OthersSame(n) /\ UNCHANGED window
      /\ pc[n] = "send" /\ pc'[n] = "save" /\ sent[n] = Len(batch[n])
      /\ mem'[n].LastEventID = batch[n][Len(batch[n])].id
  BY <1>1
  DEF TypeOK, AdvanceCheckpoint, Advanced, OthersSame, SameLocal, query
<1>3. ASSUME NEW i \in owed' PROVE i > mem'[n].LastEventID
  <2>1. ~ (i <= batch[n][Len(batch[n])].id)
    <3>1. Len(batch[n]) \in Nat
      BY <1>1, LenProperties DEF TypeOK
    <3> QED
      BY <1>1, <1>2, <3>1 DEF OwedNode
  <2>2. i \in Int
    BY <1>1 DEF OwedInv, TypeOK, Event, EventIDs
  <2>3. Len(batch[n]) \in 1..Len(batch[n])
    BY <1>1, <1>2, EmptySeq DEF TypeOK
  <2>4. batch[n][Len(batch[n])].id \in Int
    <3>1. batch[n][Len(batch[n])] \in Event
      BY <1>1, <2>3, ElementOfSeq DEF TypeOK
    <3> QED
      BY <3>1 DEF Event, EventIDs
  <2> QED
    BY <1>2, <2>1, <2>2, <2>4
<1>4. OwedNode(n)'
  BY <1>1, <1>2, <1>3 DEF OwedNode
<1> QED
  BY <1>2, <1>4, OwedStep

LEMMA OwedWork ==
    ASSUME LookbackHours = 0, ~StdoutMayFail, OwedInv, NEW n \in Nodes, Work(n)
    PROVE  /\ \A m \in Nodes : OwedNode(m)'
           /\ owed' \subseteq owed
<1>1. TypeOK /\ OwedNode(n)
  BY DEF OwedInv, SortedInv
<1>2. owed' \subseteq owed /\ Step(n)
  BY DEF Work, Settled
<1> USE DEF db, query
<1>3. CASE CallRun(n) \/ LoadCheckpoint(n) \/ Tick(n) \/ BeginPoll(n)
  <2>1. OthersSame(n)
    BY <1>1, <1>3 DEF TypeOK, CallRun, LoadCheckpoint, Tick, BeginPoll,
       OthersSame, SameLocal
  <2>2. OwedNode(n)'
    <3>1. CASE CallRun(n)
      BY <1>1, <1>2, <3>1 DEF TypeOK, CallRun, OwedNode
    <3>2. CASE LoadCheckpoint(n)
      <4>1. /\ UNCHANGED window
            /\ pc'[n] = "poll" /\ mem'[n].LastEventID = Position
        BY <1>1, <3>2, PositionOfRow DEF TypeOK, LoadCheckpoint
      <4> QED
        BY <1>1, <1>2, <4>1 DEF OwedNode, OwedInv, ReprocessesEverything
    <3>3. CASE Tick(n)
      BY <1>1, <1>2, <3>3 DEF TypeOK, Tick, OwedNode
    <3>4. CASE BeginPoll(n)
      BY <1>1, <1>2, <3>4 DEF TypeOK, BeginPoll, OwedNode, LookbackWindow
    <3> QED
      BY <1>3, <3>1, <3>2, <3>3, <3>4
  <2> QED
    BY <1>2, <2>1, <2>2, OwedStep
<1>4. CASE \/ LoadFails(n) \/ Return(n) \/ FetchEmpty(n) \/ FetchFails(n)
           \/ SendFails(n) \/ SaveFails(n)
           \/ SaveCheckpoint(n) /\ ShortBatch(batch[n])
  BY <1>2, <1>4, OwedLeave DEF LoadFails, Return, FetchEmpty, FetchFails,
     SendFails, SaveFails, SaveCheckpoint
<1>5. CASE FetchBatch(n)
  BY <1>2, <1>5, OwedFetch
<1>6. CASE WriteLine(n)
  BY <1>2, <1>6, OwedWrite DEF Work
<1>7. CASE LineLost(n)
  BY <1>7 DEF LineLost
<1>8. CASE AdvanceCheckpoint(n)
  BY <1>2, <1>8, OwedAdvance
<1>9. CASE SaveCheckpoint(n) /\ ~ShortBatch(batch[n])
  <2>1. /\ OthersSame(n) /\ UNCHANGED <<mem, window>>
        /\ pc[n] = "save" /\ pc'[n] = "fetch"
    BY <1>1, <1>9 DEF TypeOK, SaveCheckpoint, OthersSame, SameLocal
  <2>2. OwedNode(n)'
    BY <1>1, <1>2, <2>1 DEF OwedNode
  <2> QED
    BY <1>2, <2>1, <2>2, OwedStep
<1>10. \A m \in Nodes : OwedNode(m)'
  BY <1>2, <1>3, <1>4, <1>5, <1>6, <1>7, <1>8, <1>9 DEF Step
<1> QED
  BY <1>2, <1>10

LEMMA OwedNext ==
    ASSUME WhileStopped, LookbackHours = 0,
           IdsInOrder, TimesInOrder, ~StdoutMayFail
    PROVE  OwedInv /\ [OperatorNext]_allVars => OwedInv'
<1> SUFFICES ASSUME OwedInv, [OperatorNext]_allVars PROVE OwedInv'
  OBVIOUS
<1>1. CASE ResetRow \/ DeleteRow \/ SkipTo
  BY <1>1, OwedEdit
<1>2. CASE ~ (ResetRow \/ DeleteRow \/ SkipTo)
  <2>1. [Next]_vars
    BY <1>2, OtherSteps
  <2>2. SortedInv'
    BY <2>1, SortedNext DEF OwedInv
  <2>3. TypeOK
    BY DEF OwedInv, SortedInv
  <2>4. ASSUME NEW n \in Nodes, Work(n) PROVE OwedInv'
    <3>1. events' = events
      BY <2>3, <2>4, NodeSteps DEF Work
    <3> QED
      BY <2>1, <2>2, <2>4, <3>1, OwedWork, OwedRow
  <2>5. ASSUME NEW n \in Nodes, Disturb(n) PROVE OwedInv'
    <3>1. events' = events /\ owed' = owed
      BY <2>3, <2>5, NodeSteps DEF Disturb
    <3>2. CASE Cancel(n)
      <4>1. UNCHANGED <<pc, mem, window, batch, sent>>
        BY <3>2 DEF Cancel, query
      <4>2. \A m \in Nodes : OwedNode(m)'
        BY <3>1, <4>1 DEF OwedInv, OwedNode
      <4> QED
        BY <2>1, <2>2, <3>1, <4>2, OwedRow
    <3>3. CASE Crash(n)
      <4>1. \A m \in Nodes : OwedNode(m)'
        BY <3>1, <3>3, OwedLeave DEF Crash
      <4> QED
        BY <2>1, <2>2, <3>1, <4>1, OwedRow
    <3> QED
      BY <2>5, <3>2, <3>3 DEF Disturb
  <2>6. CASE Store \/ UNCHANGED allVars
    <3>1. /\ UNCHANGED <<pc, mem, window, batch, sent, owed>>
          /\ events \subseteq events'
      BY <2>6 DEF Store, StoreEvent, ClockTick, allVars, vars, local, db
    <3>2. \A m \in Nodes : OwedNode(m)'
      BY <3>1 DEF OwedInv, OwedNode
    <3> QED
      BY <2>1, <2>2, <3>1, <3>2, OwedRow
  <2> QED
    BY <1>2, <2>4, <2>5, <2>6 DEF OperatorNext
<1> QED
  BY <1>1, <1>2

(***************************************************************************)
(* What an operator wants printed again stays above the saved position     *)
(* until it is printed, however many nodes run afterwards and whatever     *)
(* crashes, is cancelled or fails to be saved - if nothing runs while the  *)
(* row is edited, and no lookback window leaves events out.                *)
(***************************************************************************)
THEOREM OwedStaysAbove ==
    ASSUME WhileStopped, LookbackHours = 0,
           IdsInOrder, TimesInOrder, ~StdoutMayFail
    PROVE  OperatorSpec => []ReprocessesEverything
<1>1. OperatorInit => OwedInv
  <2>1. OperatorInit => SortedInv
    BY SortedInit DEF OperatorInit
  <2>2. OperatorInit => \A n \in Nodes : OwedNode(n)
    BY DEF OperatorInit, Init, OwedNode
  <2> QED
    BY <2>1, <2>2 DEF OperatorInit, OwedInv, ReprocessesEverything
<1>2. OwedInv /\ [OperatorNext]_allVars => OwedInv'
  BY OwedNext
<1>3. OwedInv => ReprocessesEverything
  BY DEF OwedInv
<1> QED
  BY <1>1, <1>2, <1>3, PTL DEF OperatorSpec
=============================================================================
