------------------------------- MODULE Writers ------------------------------
(***************************************************************************)
(* The processor with a MultiWriter (pkg/writer) as its EventWriter: each  *)
(* batch goes to every writer in turn, a writer that fails does not stop   *)
(* the loop, and the first error is returned.                              *)
(*                                                                         *)
(* To Processor the MultiWriter is one EventWriter: out counts what it has *)
(* acknowledged, SendFails is its error.  What each writer has got is      *)
(* counted in taken.                                                       *)
(***************************************************************************)
EXTENDS Processor

CONSTANT Writers    \* how many writers NewMultiWriter was given

ASSUME WritersAssumption == Writers \in Nat

VARIABLES
    turn,      \* of each node, the writer whose SendEvents comes next
    firstErr,  \* firstErr # nil
    taken      \* how often each writer has got each event

fan == <<turn, firstErr, taken>>
writersVars == <<vars, fan>>

WritersInit ==
    /\ Init
    /\ turn = [n \in Nodes |-> 1]
    /\ firstErr = [n \in Nodes |-> FALSE]
    /\ taken = [w \in 1..Writers |-> [i \in EventIDs |-> 0]]

-----------------------------------------------------------------------------
LoopOver(n) == turn[n] > Writers

(* The counts of a writer that has taken these events once more.           *)
Plus(counts, b) ==
    [i \in EventIDs |-> counts[i] + Cardinality({ k \in DOMAIN b : b[k].id = i })]

(* The error kept after a writer's answer.                                 *)
FirstErr_Last(n, fails) == fails
FirstErr(n, fails) == firstErr[n] \/ fails

(* One writer gets the batch; one that fails has written some of it.       *)
WriterTakes(n) ==
    /\ pc[n] = "send"
    /\ ~LoopOver(n)
    /\ \E part \in 0..Len(batch[n]), fails \in BOOLEAN :
          /\ fails \/ part = Len(batch[n])
          /\ fails => SendMayFail /\ faults < MaxFaults
          /\ taken' = [taken EXCEPT ![turn[n]] =
                          Plus(@, SubSeq(batch[n], 1, part))]
          /\ firstErr' = [firstErr EXCEPT ![n] = FirstErr(n, fails)]
          /\ turn' = [turn EXCEPT ![n] = @ + 1]
    /\ UNCHANGED vars

(* The loop is over: nil acknowledges the batch, an error refuses it.      *)
Acknowledge(n) ==
    /\ LoopOver(n) /\ ~firstErr[n]
    /\ WriteLine(n) \/ AdvanceCheckpoint(n)
    /\ UNCHANGED fan

Refuse(n) ==
    /\ LoopOver(n) /\ firstErr[n]
    /\ SendFails(n)
    /\ UNCHANGED fan

(* The steps of Run outside SendEvents; a new batch starts a new loop.     *)
Elsewhere(n) ==
    /\ pc[n] # "send"
    /\ Step(n)
    /\ turn' = [turn EXCEPT ![n] = 1]
    /\ firstErr' = [firstErr EXCEPT ![n] = FALSE]
    /\ UNCHANGED taken

-----------------------------------------------------------------------------
(* Properties.                                                             *)

(***************************************************************************)
(* The saved position only passes an event that every writer has got: no   *)
(* writer's failure is forgotten because another one succeeded             *)
(* (writer.go:33-34, processor.go:205-211).                                *)
(***************************************************************************)
SavedReachedAll ==
    \A e \in events, w \in 1..Writers :
        e.id <= Position => taken[w][e.id] > 0 \/ Expired(e)

(***************************************************************************)
(* Each writer's copy grows without gaps, although others fail in other    *)
(* places: whatever it has got, it has got everything before it.           *)
(***************************************************************************)
CopiesHaveNoGap ==
    \A e, f \in events, w \in 1..Writers :
        e.id < f.id /\ taken[w][f.id] > 0 => taken[w][e.id] > 0 \/ Expired(e)

(***************************************************************************)
(* A writer gets an event again only for a new run or because a batch was  *)
(* refused.                                                                *)
(***************************************************************************)
CopiesBounded ==
    \A i \in EventIDs, w \in 1..Writers : taken[w][i] <= runs + faults

(***************************************************************************)
(* Every writer gets every event in the end, if each stops failing, unless *)
(* the event leaves the lookback window first.                             *)
(***************************************************************************)
AllWritersGetIt ==
    \A i \in EventIDs :
        (\E e \in events : e.id = i)
            ~> (\E e \in events :
                   /\ e.id = i
                   /\ Expired(e) \/ \A w \in 1..Writers : taken[w][i] > 0)
(***************************************************************************)
(* What each writer has got has no gap, and repeats no more than retries   *)
(* and restarts explain (writer.go:35-49).                                 *)
(***************************************************************************)
CopiesAreTrue == CopiesHaveNoGap /\ CopiesBounded
=============================================================================
