------------------------------ MODULE Operator ------------------------------
(***************************************************************************)
(* An operator edits the checkpoint row by hand, as TECH_DOC 8.2 and SETUP *)
(* describe.  The processor is the one of Processor; owed is what the edit *)
(* asked for: the stored events that are to be printed (again).            *)
(***************************************************************************)
EXTENDS Processor

CONSTANTS
    WhileStopped,  \* TRUE: the row is only edited while no processor runs
    MaxEdits       \* bound: the number of edits

ASSUME OperatorAssumption ==
    /\ WhileStopped \in BOOLEAN
    /\ MaxEdits \in Nat

VARIABLES
    owed,          \* ids of stored events above the position last asked for
    edits          \* how often the row was edited (counts towards MaxEdits)

allVars == <<vars, owed, edits>>

(* The statement, and what is owed after it.                               *)
Edit(row, position) ==
    /\ edits < MaxEdits
    /\ edits' = edits + 1
    /\ runs < MaxRuns
    /\ WhileStopped => \A n \in Nodes : pc[n] = "idle"
    /\ ckpt # {}
    /\ ckpt' = row
    /\ owed' = { e.id : e \in { f \in events : f.id > position } }
    /\ UNCHANGED <<events, now, out, local, runs, faults>>

(* UPDATE ... SET last_event_id = 0, total_events_processed = 0            *)
ResetRow == Edit({FreshCheckpoint}, 0)

(* DELETE                                                                  *)
DeleteRow == Edit({}, 0)

(* UPDATE ... SET last_event_id = position                                 *)
SkipTo ==
    \E position \in EventIDs :
        Edit({ [c EXCEPT !.LastEventID = position] : c \in ckpt }, position)

Settled == { i \in owed : out'[i] = out[i] }

Work(n) == Step(n) /\ owed' = Settled /\ UNCHANGED edits

Disturb(n) == (Cancel(n) \/ Crash(n)) /\ UNCHANGED <<owed, edits>>

Store == (StoreEvent \/ ClockTick) /\ UNCHANGED <<owed, edits>>

OperatorInit == Init /\ owed = {} /\ edits = 0

OperatorNext ==
    \/ ResetRow
    \/ DeleteRow
    \/ SkipTo
    \/ \E n \in Nodes : Work(n) \/ Disturb(n)
    \/ Store

OperatorSpec == OperatorInit /\ [][OperatorNext]_allVars

(* As in Processor.                                                        *)
OperatorFairSpec ==
    /\ OperatorSpec
    /\ \A n \in Nodes : /\ WF_allVars(Work(n))
                        /\ SF_allVars(Work(n) /\ Return(n))

-----------------------------------------------------------------------------
(* Properties.                                                             *)

(***************************************************************************)
(* An event that an operator wants printed again is not passed over: the   *)
(* saved position stays below it until it is printed ("reprocess           *)
(* everything", TECH_DOC.md:772).                                          *)
(***************************************************************************)
ReprocessesEverything == \A i \in owed : i > Position

(***************************************************************************)
(* It is printed in the end.                                               *)
(***************************************************************************)
OwedIsPrinted == \A i \in EventIDs : (i \in owed) ~> (i \notin owed)
=============================================================================
