----------------------------- MODULE Processor ------------------------------
(***************************************************************************)
(* The event pump of pkg/processor: Processor.Run loads the durable        *)
(* checkpoint, then every poll (processEvents) reads the events table one  *)
(* batch at a time, prints each event through the EventWriter, advances    *)
(* the in-memory checkpoint and saves it.                                  *)
(*                                                                         *)
(* Nodes are processes sharing one events table and one checkpoint row     *)
(* (one consumer_id).  With several nodes nothing here keeps them apart:   *)
(* that is the election's job, and what still holds without it is checked  *)
(* with two nodes.  A cancelled context, a failed call to the database and *)
(* a crash may strike between any two steps.                               *)
(*                                                                         *)
(* The timestamps and the node name kept in the checkpoint row are left    *)
(* out: no step reads them back.                                           *)
(***************************************************************************)
EXTENDS EventQuery

CONSTANTS
    Nodes,            \* the processes that may call Run
    BatchSize,        \* cfg.BatchSize; 0 makes the reader use DefaultLimit
    LookbackHours,    \* cfg.LookbackHours; 0 is no lookback
    PollingInterval,  \* cfg.PollingInterval; 0 is "run once"
    IdsInOrder,       \* TRUE: rows are committed in the order of their ids
    TimesInOrder,     \* TRUE: a larger id has a strictly later timestamp
    StdoutMayFail,    \* TRUE: fmt.Println may fail (the code ignores it)
    SendMayFail,      \* TRUE: EventWriter.SendEvents may return an error
    MaxEventID,       \* bound: the largest id of the events table
    MaxTime,          \* bound: the last hour of the clock
    MaxRuns,          \* bound: the number of calls of Run
    MaxFaults         \* bound: the number of errors no cancellation explains

ASSUME ProcessorAssumption ==
    /\ BatchSize \in Nat
    /\ LookbackHours \in Nat
    /\ PollingInterval \in Nat
    /\ IdsInOrder \in BOOLEAN
    /\ TimesInOrder \in BOOLEAN
    /\ StdoutMayFail \in BOOLEAN
    /\ SendMayFail \in BOOLEAN
    /\ MaxEventID \in Nat
    /\ MaxTime \in Nat
    /\ MaxRuns \in Nat
    /\ MaxFaults \in Nat

VARIABLES
    events,     \* the committed rows of the events table
    now,        \* the clock, in hours
    ckpt,       \* the row of event_processing_checkpoint, {} before the first save
    out,        \* how many times each event id was printed
    pc,         \* where each node is in Run
    mem,        \* p.checkpoint of each node
    resume,     \* whether opts.MinEventID points at p.checkpoint.LastEventID
    window,     \* opts.StartTime
    batch,      \* eventBatch
    sent,       \* how many events of the batch SendEvents has handled
    cancelled,  \* ctx.Err() != nil
    runs,       \* how often Run was called (counts towards MaxRuns)
    faults      \* how many calls failed (counts towards MaxFaults)

db == <<events, now, ckpt>>
query == <<resume, window>>
local == <<pc, mem, resume, window, batch, sent, cancelled>>
vars == <<db, out, local, runs, faults>>

EventIDs == 1..MaxEventID
Times == 0..MaxTime
Event == [id : EventIDs, timestamp : Times]
Checkpoint == [LastEventID : 0..MaxEventID, TotalEventsProcessed : Nat]

FreshCheckpoint == [LastEventID |-> 0, TotalEventsProcessed |-> 0]

(* idle: not in Run.  load: before GetCheckpoint.  poll: processEvents is   *)
(* called.  fetch: at the top of its loop.  send: inside SendEvents.        *)
(* save: before SaveCheckpoint.  wait: in the select of the polling loop.   *)
PCs == {"idle", "load", "poll", "fetch", "send", "save", "wait"}

TypeOK ==
    /\ events \subseteq Event /\ IsFiniteSet(events)
    /\ now \in Times
    /\ ckpt \subseteq Checkpoint /\ \A c, d \in ckpt : c = d
    /\ out \in [EventIDs -> Nat]
    /\ pc \in [Nodes -> PCs]
    /\ mem \in [Nodes -> Checkpoint]
    /\ resume \in [Nodes -> BOOLEAN]
    /\ window \in [Nodes -> SUBSET Int]
    /\ batch \in [Nodes -> Seq(Event)]
    /\ sent \in [Nodes -> Nat]
    /\ \A n \in Nodes : sent[n] <= Len(batch[n])
    /\ \A n \in Nodes : pc[n] = "send" => batch[n] # <<>>
    /\ cancelled \in [Nodes -> BOOLEAN]
    /\ runs \in 0..MaxRuns
    /\ faults \in 0..MaxFaults

Init ==
    /\ events = {}
    /\ now = 0
    /\ ckpt = {}
    /\ out = [i \in EventIDs |-> 0]
    /\ pc = [n \in Nodes |-> "idle"]
    /\ mem = [n \in Nodes |-> FreshCheckpoint]
    /\ resume = [n \in Nodes |-> FALSE]
    /\ window = [n \in Nodes |-> {}]
    /\ batch = [n \in Nodes |-> <<>>]
    /\ sent = [n \in Nodes |-> 0]
    /\ cancelled = [n \in Nodes |-> FALSE]
    /\ runs = 0
    /\ faults = 0

-----------------------------------------------------------------------------
(* Helpers of the steps.  An operator whose name ends in an underscore and *)
(* a word is a plausible mistake in the operator that follows it: the      *)
(* properties are checked to notice the mistake.                           *)

(* opts.Offset: MinEventID moves instead.                                  *)
Offset_Paged(n) == IF resume[n] THEN BatchSize ELSE 0
Offset(n) == 0

(* The options processEvents passes to GetEvents.  MinEventID is a pointer *)
(* into the checkpoint, so it is read when the query is made.              *)
Query(n) ==
    [ Limit      |-> BatchSize,
      Offset     |-> Offset(n),
      AccountID  |-> {},
      StartTime  |-> window[n],
      EndTime    |-> {},
      Activity   |-> {},
      MinEventID |-> IF resume[n] THEN {mem[n].LastEventID} ELSE {},
      OrderAsc   |-> TRUE ]

HasPosition_OffByOne(c) == c.LastEventID > 1
HasPosition(c) == c.LastEventID > 0

(* The start of the lookback window, only asked for without a position.    *)
LookbackWindow(c) ==
    IF ~HasPosition(c) /\ LookbackHours > 0 THEN {now - LookbackHours} ELSE {}

(* The checkpoint after the batch b was sent from checkpoint c.            *)
Advanced_NextID(c, b) ==
    [ LastEventID          |-> b[Len(b)].id + 1,
      TotalEventsProcessed |-> c.TotalEventsProcessed + Len(b) ]
Advanced_FullBatch(c, b) ==
    [ LastEventID          |-> b[Len(b)].id,
      TotalEventsProcessed |-> c.TotalEventsProcessed + BatchSize ]
Advanced(c, b) ==
    [ LastEventID          |-> b[Len(b)].id,
      TotalEventsProcessed |-> c.TotalEventsProcessed + Len(b) ]

(* What GetCheckpoint makes of the row: no row starts afresh.              *)
Loaded_Fresh(row) == FreshCheckpoint
Loaded(row) == IF row = {} THEN FreshCheckpoint ELSE CHOOSE c \in row : TRUE

(* len(eventBatch) < BatchSize: the batch was the last of this poll.       *)
ShortBatch_Always(b) == TRUE
ShortBatch(b) == Len(b) < BatchSize

(* The row SaveCheckpoint leaves: an unconditional upsert.                 *)
SavedRow_LastBatchOnly(n) == IF ShortBatch(batch[n]) THEN {mem[n]} ELSE ckpt
SavedRow(n) == {mem[n]}

(* A row an INSERT ... ON CONFLICT DO UPDATE that failed may have left.    *)
AfterFailedSave(n) == {ckpt, SavedRow(n)}

ClearPoll(n) ==
    /\ resume' = [resume EXCEPT ![n] = FALSE]
    /\ window' = [window EXCEPT ![n] = {}]
    /\ batch' = [batch EXCEPT ![n] = <<>>]
    /\ sent' = [sent EXCEPT ![n] = 0]

(* Run returns.  p.checkpoint is forgotten here because the next Run       *)
(* replaces it before reading it, and the next Run gets its own context.   *)
LeaveRun(n) ==
    /\ pc' = [pc EXCEPT ![n] = "idle"]
    /\ mem' = [mem EXCEPT ![n] = FreshCheckpoint]
    /\ cancelled' = [cancelled EXCEPT ![n] = FALSE]
    /\ ClearPoll(n)

(* processEvents returns, with or without an error: Run returns too when   *)
(* it runs once, and only logs the error when it polls.                    *)
LeavePoll(n) ==
    IF PollingInterval = 0
    THEN LeaveRun(n)
    ELSE /\ pc' = [pc EXCEPT ![n] = "wait"]
         /\ ClearPoll(n)
         /\ UNCHANGED <<mem, cancelled>>

(* A call with ctx fails for sure once ctx is cancelled, and may fail      *)
(* otherwise.                                                              *)
CallFails(n) ==
    \/ cancelled[n] /\ UNCHANGED faults
    \/ ~cancelled[n] /\ faults < MaxFaults /\ faults' = faults + 1

-----------------------------------------------------------------------------
(* Processor.Run                                                           *)

CallRun(n) ==
    /\ pc[n] = "idle"
    /\ runs < MaxRuns
    /\ runs' = runs + 1
    /\ pc' = [pc EXCEPT ![n] = "load"]
    /\ UNCHANGED <<db, out, mem, query, batch, sent, cancelled, faults>>

LoadCheckpoint(n) ==
    /\ pc[n] = "load"
    /\ ~cancelled[n]
    /\ mem' = [mem EXCEPT ![n] = Loaded(ckpt)]
    /\ pc' = [pc EXCEPT ![n] = "poll"]
    /\ UNCHANGED <<db, out, query, batch, sent, cancelled, runs, faults>>

LoadFails(n) ==
    /\ pc[n] = "load"
    /\ cancelled[n] \/ runs < MaxRuns
    /\ CallFails(n)
    /\ LeaveRun(n)
    /\ UNCHANGED <<db, out, runs>>

(* ticker.C fires.  The select may still choose it after ctx is cancelled. *)
Tick(n) ==
    /\ pc[n] = "wait"
    /\ pc' = [pc EXCEPT ![n] = "poll"]
    /\ UNCHANGED <<db, out, mem, query, batch, sent, cancelled, runs, faults>>

(* The select sees ctx.Done(): Run returns ctx.Err().                      *)
Return(n) ==
    /\ pc[n] = "wait"
    /\ cancelled[n]
    /\ LeaveRun(n)
    /\ UNCHANGED <<db, out, runs, faults>>

-----------------------------------------------------------------------------
(* Processor.processEvents                                                 *)

BeginPoll(n) ==
    /\ pc[n] = "poll"
    /\ resume' = [resume EXCEPT ![n] = HasPosition(mem[n])]
    /\ window' = [window EXCEPT ![n] = LookbackWindow(mem[n])]
    /\ pc' = [pc EXCEPT ![n] = "fetch"]
    /\ UNCHANGED <<db, out, mem, batch, sent, cancelled, runs, faults>>

FetchBatch(n) ==
    /\ pc[n] = "fetch"
    /\ ~cancelled[n]
    /\ \E b \in GetEvents(events, Query(n)) :
          /\ b # <<>>
          /\ batch' = [batch EXCEPT ![n] = b]
    /\ sent' = [sent EXCEPT ![n] = 0]
    /\ pc' = [pc EXCEPT ![n] = "send"]
    /\ UNCHANGED <<db, out, mem, query, cancelled, runs, faults>>

FetchEmpty_Continue(n) ==
    /\ pc[n] = "fetch"
    /\ ~cancelled[n]
    /\ <<>> \in GetEvents(events, Query(n))
    /\ UNCHANGED vars

FetchEmpty(n) ==
    /\ pc[n] = "fetch"
    /\ ~cancelled[n]
    /\ <<>> \in GetEvents(events, Query(n))
    /\ LeavePoll(n)
    /\ UNCHANGED <<db, out, runs, faults>>

(* ctx.Err() at the top of the loop, or an error of GetEvents.             *)
FetchFails(n) ==
    /\ pc[n] = "fetch"
    /\ CallFails(n)
    /\ LeavePoll(n)
    /\ UNCHANGED <<db, out, runs>>

(* StdoutWriter.SendEvents does not look at ctx.                           *)
WriteLine(n) ==
    /\ pc[n] = "send"
    /\ sent[n] < Len(batch[n])
    /\ sent' = [sent EXCEPT ![n] = @ + 1]
    /\ out' = [out EXCEPT ![batch[n][sent[n] + 1].id] = @ + 1]
    /\ UNCHANGED <<db, pc, mem, query, batch, cancelled, runs, faults>>

(* The event cannot be marshalled, or Println fails: the loop goes on.     *)
LineLost(n) ==
    /\ StdoutMayFail
    /\ pc[n] = "send"
    /\ sent[n] < Len(batch[n])
    /\ sent' = [sent EXCEPT ![n] = @ + 1]
    /\ UNCHANGED <<db, out, pc, mem, query, batch, cancelled, runs, faults>>

(* An EventWriter that returns an error, some of the batch being written.  *)
SendFails(n) ==
    /\ SendMayFail
    /\ pc[n] = "send"
    /\ faults < MaxFaults
    /\ faults' = faults + 1
    /\ LeavePoll(n)
    /\ UNCHANGED <<db, out, runs>>

AdvanceCheckpoint(n) ==
    /\ pc[n] = "send"
    /\ sent[n] = Len(batch[n])
    /\ mem' = [mem EXCEPT ![n] = Advanced(mem[n], batch[n])]
    /\ pc' = [pc EXCEPT ![n] = "save"]
    /\ UNCHANGED <<db, out, query, batch, sent, cancelled, runs, faults>>

SaveCheckpoint(n) ==
    /\ pc[n] = "save"
    /\ ~cancelled[n]
    /\ ckpt' = SavedRow(n)
    /\ IF ShortBatch(batch[n])
       THEN LeavePoll(n)
       ELSE /\ pc' = [pc EXCEPT ![n] = "fetch"]
            /\ resume' = [resume EXCEPT ![n] = TRUE]
            /\ batch' = [batch EXCEPT ![n] = <<>>]
            /\ sent' = [sent EXCEPT ![n] = 0]
            /\ UNCHANGED <<mem, window, cancelled>>
    /\ UNCHANGED <<events, now, out, runs, faults>>

(* The memory stays ahead of the row it failed to write.                   *)
SaveFails(n) ==
    /\ pc[n] = "save"
    /\ CallFails(n)
    /\ ckpt' \in AfterFailedSave(n)
    /\ LeavePoll(n)
    /\ UNCHANGED <<events, now, out, runs>>

-----------------------------------------------------------------------------
(* The environment: signals and lost leadership, crashes, NetBird, time.   *)
(* The last run is neither cancelled nor crashed (nor does its first query *)
(* fail), so that a bounded behaviour does not end with every node down.   *)

Cancel(n) ==
    /\ pc[n] # "idle"
    /\ ~cancelled[n]
    /\ runs < MaxRuns
    /\ cancelled' = [cancelled EXCEPT ![n] = TRUE]
    /\ UNCHANGED <<db, out, pc, mem, query, batch, sent, runs, faults>>

(* A statement in flight may or may not have reached the database.         *)
Crash(n) ==
    /\ pc[n] # "idle"
    /\ runs < MaxRuns
    /\ ckpt' \in IF pc[n] = "save" THEN AfterFailedSave(n) ELSE {ckpt}
    /\ LeaveRun(n)
    /\ UNCHANGED <<events, now, out, runs, faults>>

(* NetBird commits a row: its timestamp was taken at or before the commit. *)
StoreEvent ==
    /\ \E e \in Event :
          /\ \A f \in events : f.id # e.id
          /\ e.timestamp <= now
          /\ IdsInOrder => \A f \in events : f.id < e.id
          /\ TimesInOrder =>
                \A f \in events : f.id < e.id <=> f.timestamp < e.timestamp
          /\ events' = events \cup {e}
    /\ UNCHANGED <<now, ckpt, out, local, runs, faults>>

ClockTick ==
    /\ now < MaxTime
    /\ now' = now + 1
    /\ UNCHANGED <<events, ckpt, out, local, runs, faults>>

-----------------------------------------------------------------------------
Step(n) ==
    \/ CallRun(n) \/ LoadCheckpoint(n) \/ LoadFails(n) \/ Tick(n) \/ Return(n)
    \/ BeginPoll(n) \/ FetchBatch(n) \/ FetchEmpty(n) \/ FetchFails(n)
    \/ WriteLine(n) \/ LineLost(n) \/ SendFails(n)
    \/ AdvanceCheckpoint(n) \/ SaveCheckpoint(n) \/ SaveFails(n)

Next ==
    \/ \E n \in Nodes : Step(n) \/ Cancel(n) \/ Crash(n)
    \/ StoreEvent
    \/ ClockTick

Spec == Init /\ [][Next]_vars

(***************************************************************************)
(* Every step of a run is taken eventually: goroutines are scheduled,      *)
(* calls return, the ticker fires, systemd or the election calls Run       *)
(* again.  The select of the polling loop picks at random among its ready  *)
(* cases, so ctx.Done() is seen although ticker.C may be ready too.        *)
(***************************************************************************)
Fairness == \A n \in Nodes : WF_vars(Step(n)) /\ SF_vars(Return(n))

FairSpec == Spec /\ Fairness

-----------------------------------------------------------------------------
(* Properties.                                                             *)

Position == IF ckpt = {} THEN 0 ELSE (CHOOSE c \in ckpt : TRUE).LastEventID

Delivered(e) == out[e.id] > 0

(* Older than the lookback window: a first run is not asked to send it.    *)
Expired(e) == LookbackHours > 0 /\ e.timestamp < now - LookbackHours

(***************************************************************************)
(* The saved checkpoint never passes an event that was not printed, the    *)
(* ones a first run may skip by lookback_hours excepted: whoever resumes   *)
(* from the checkpoint, after a crash, a cancellation, a failed save or    *)
(* while another node still runs, finds everything that is missing above   *)
(* it (processor.go:205-236).                                              *)
(***************************************************************************)
NoEventLost ==
    \A e \in events : e.id <= Position => Delivered(e) \/ Expired(e)

(***************************************************************************)
(* total_events_processed counts each stored event up to the checkpoint    *)
(* once, however often the events were printed and whichever nodes printed *)
(* them: a batch that is sent again adds to the total it was added to the  *)
(* first time (processor.go:222-228).  Without lookback.                   *)
(***************************************************************************)
TotalMatchesPosition ==
    \A c \in ckpt :
        c.TotalEventsProcessed =
            Cardinality({ e \in events : e.id <= c.LastEventID })

(***************************************************************************)
(* One call of Run prints an event at most once, even when saves fail and  *)
(* the poll is retried: the memory of p.checkpoint is ahead of the row.    *)
(* Only another run prints an event again.                                 *)
(***************************************************************************)
OncePerRun == \A i \in EventIDs : out[i] <= runs

(***************************************************************************)
(* What a crash or a failover prints again is at most one batch: the       *)
(* printed events above the saved checkpoint never exceed the batch size   *)
(* (TECH_DOC 7.7.2, "Maximum gap = one batch").  Only crashes and          *)
(* cancellations are covered: after a failed save the gap grows with every *)
(* further one.  A first run does not go back to events that expired.      *)
(***************************************************************************)
PrintedAgain ==
    { e \in events : /\ e.id > Position
                     /\ Delivered(e)
                     /\ ~ (Position = 0 /\ Expired(e)) }

GapAtMostOneBatch ==
    faults = 0 =>
        Cardinality(PrintedAgain) <= EffectiveLimit([Limit |-> BatchSize])

(***************************************************************************)
(* The saved position of a single node never moves back, whatever order    *)
(* the rows are committed in.                                              *)
(***************************************************************************)
PositionNeverRegresses == [][Position <= Position']_vars

(***************************************************************************)
(* A single node never prints an event at or below the saved position, not *)
(* even after a restart, whatever order the rows are committed in.         *)
(***************************************************************************)
CoveredNeverResent ==
    [][\A i \in EventIDs : i <= Position => out'[i] = out[i]]_vars

(***************************************************************************)
(* Every committed event is printed in the end, unless it leaves the       *)
(* lookback window first: through crashes, cancellations, failed calls and *)
(* partial batches, polling catches up (processor.go:129-149).             *)
(***************************************************************************)
EventuallyDelivered ==
    \A i \in EventIDs :
        (\E e \in events : e.id = i)
            ~> (\E e \in events : e.id = i /\ (Delivered(e) \/ Expired(e)))

(***************************************************************************)
(* A run-once Run goes on until nothing stored when it started is above    *)
(* the saved position, whatever order the rows were committed in, unless   *)
(* another run has to take over ...                                        *)
(***************************************************************************)
RunOnceDrains ==
    \A n \in Nodes, i \in EventIDs :
        (pc[n] = "load" /\ \E e \in events : e.id = i) ~> (i <= Position)

(* ... and returns, also when batch_size is 0 and no batch is ever short   *)
(* (processor.go:243-246 then never breaks the loop).                      *)
RunOnceReturns ==
    \A n \in Nodes : (pc[n] = "load") ~> (pc[n] = "idle")

(***************************************************************************)
(* The process keeps what an audit feed promises.  Only for one node.      *)
(***************************************************************************)
Feed == INSTANCE AuditFeed
            WITH Rows     <- Event,
                 Lookback <- LookbackHours,
                 stored   <- events,
                 printed  <- out,
                 position <- Position

ImplementsFeed == Feed!Spec
=============================================================================
