------------------------------- MODULE Metrics -------------------------------
(***************************************************************************)
(* What the /metrics endpoint of a process shows (pkg/metrics), as its     *)
(* processor updates it, with the writers of Writers.  The values live as  *)
(* long as the process; a call of Run that ends without a crash leaves     *)
(* them.  The histograms of sizes and durations are left out.  One node.   *)
(***************************************************************************)
EXTENDS Writers

VARIABLES
    EventsProcessed,   \* the counter: by its label "error", "true" or "false"
    LastEventID,
    CheckpointLag,     \* CheckpointLagSeconds, in hours
    LastPollTime,
    crashes            \* whether a process has died (its counts are gone)

gauges == <<EventsProcessed, LastEventID, CheckpointLag, LastPollTime, crashes>>
metricsVars == <<writersVars, gauges>>

Zero == [error \in {"true", "false"} |-> 0]

Never == -1

MetricsInit ==
    /\ WritersInit
    /\ EventsProcessed = Zero
    /\ LastEventID = 0
    /\ CheckpointLag = 0
    /\ LastPollTime = Never
    /\ crashes = FALSE

(* EventsProcessed.WithLabelValues(error).Add(len(eventBatch))             *)
Counted(n, error) == [EventsProcessed EXCEPT ![error] = @ + Len(batch[n])]

LastSent_First(n) == batch[n][1]
LastSent(n) == batch[n][Len(batch[n])]

(* time.Since(lastEvent.Timestamp)                                         *)
Lag(n) == now - LastSent(n).timestamp

Advance(n) ==
    /\ Acknowledge(n) /\ pc'[n] = "save"
    /\ EventsProcessed' = Counted(n, "false")
    /\ LastEventID' = LastSent(n).id
    /\ CheckpointLag' = Lag(n)
    /\ UNCHANGED <<LastPollTime, crashes>>

Refused(n) ==
    /\ Refuse(n)
    /\ EventsProcessed' = Counted(n, "true")
    /\ UNCHANGED <<LastEventID, CheckpointLag, LastPollTime, crashes>>

(* A poll that ends without an error.                                      *)
RecordPoll_WithEvents(n) == pc[n] = "save"
RecordPoll(n) == TRUE

EndOfPoll(n) == FetchEmpty(n) \/ (SaveCheckpoint(n) /\ ShortBatch(batch[n]))

PollEnds(n) ==
    /\ Elsewhere(n) /\ EndOfPoll(n)
    /\ LastPollTime' = IF RecordPoll(n) THEN now ELSE LastPollTime
    /\ UNCHANGED <<EventsProcessed, LastEventID, CheckpointLag, crashes>>

OtherStep(n) ==
    /\ \/ WriterTakes(n)
       \/ Acknowledge(n) /\ pc'[n] = "send"
       \/ Elsewhere(n) /\ ~EndOfPoll(n)
    /\ UNCHANGED gauges

Stop(n) == Cancel(n) /\ UNCHANGED <<fan, gauges>>

Die(n) ==
    /\ Crash(n) /\ UNCHANGED fan
    /\ EventsProcessed' = Zero
    /\ LastEventID' = 0
    /\ CheckpointLag' = 0
    /\ LastPollTime' = Never
    /\ crashes' = TRUE

Works(n) == Advance(n) \/ Refused(n) \/ PollEnds(n) \/ OtherStep(n)

MetricsNext ==
    \/ \E n \in Nodes : Works(n) \/ Stop(n) \/ Die(n)
    \/ (StoreEvent \/ ClockTick) /\ UNCHANGED <<fan, gauges>>

MetricsSpec == MetricsInit /\ [][MetricsNext]_metricsVars

(* As in Processor.                                                        *)
MetricsFairSpec ==
    /\ MetricsSpec
    /\ \A n \in Nodes : /\ WF_metricsVars(Works(n))
                        /\ SF_metricsVars(OtherStep(n) /\ Return(n))

-----------------------------------------------------------------------------
(* Properties.                                                             *)

(***************************************************************************)
(* LastEventID is "the last successfully processed event"                  *)
(* (metrics.go:33): it never shows an event while it or one before it was  *)
(* not printed, and never falls behind the saved checkpoint of the same    *)
(* process, although it is set before the save.                            *)
(***************************************************************************)
LastEventIDIsTrue ==
    /\ \A e \in events : e.id <= LastEventID => Delivered(e) \/ Expired(e)
    /\ LastEventID # 0 => LastEventID >= Position

(* Each line on stdout: the event and how many times it had been printed.  *)
Lines == UNION { {i} \X (1..out[i]) : i \in EventIDs }

(***************************************************************************)
(* As long as no process has died, the counter of processed events is the  *)
(* number of lines on stdout whenever no batch is under way, through       *)
(* cancellations, failed saves and new calls of Run.                       *)
(***************************************************************************)
CounterIsTheOutput ==
    ~crashes /\ (\A n \in Nodes : pc[n] # "send") =>
        EventsProcessed["false"] = Cardinality(Lines)

(***************************************************************************)
(* LastPollTime catches up with the clock again and again, with or without *)
(* events, whatever failed in between (metrics.go:64-66).                  *)
(***************************************************************************)
PollTimeKeepsUp == []<>(LastPollTime = now)

(***************************************************************************)
(* The lag never exaggerates: the last processed event is at least that    *)
(* old, whatever has happened since it was sent (metrics.go:44-46).        *)
(***************************************************************************)
LagIsALowerBound ==
    \A e \in events : e.id = LastEventID => CheckpointLag <= now - e.timestamp

(***************************************************************************)
(* CheckpointLagSeconds is the time between the last processed event and   *)
(* now, so that it grows when processing has stopped (metrics.go:46-50).   *)
(***************************************************************************)
LagIsCurrent ==
    \A e \in events : e.id = LastEventID => CheckpointLag = now - e.timestamp
(***************************************************************************)
(* What /metrics shows agrees with stdout, with the row and with the clock,*)
(* although its parts move at different steps (processor.go:218-234).      *)
(***************************************************************************)
MetricsAreTrue == LastEventIDIsTrue /\ CounterIsTheOutput /\ LagIsALowerBound
=============================================================================
