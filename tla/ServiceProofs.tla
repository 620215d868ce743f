--------------------------- MODULE ServiceProofs ----------------------------
(***************************************************************************)
(* Proofs about the process as a whole (Writers and Metrics): that it is a *)
(* processor, what each writer of the MultiWriter has got, and what        *)
(* /metrics shows.  For any number of writers and, where the metrics are   *)
(* not concerned, any number of processes that share the checkpoint row.   *)
(***************************************************************************)
EXTENDS Metrics, SingleNodeProofs

FanTypeOK ==
    /\ turn \in [Nodes -> Nat \ {0}]
    /\ firstErr \in [Nodes -> BOOLEAN]
    /\ taken \in [1..Writers -> [EventIDs -> Nat]]

(* What was acknowledged has reached every writer ...                      *)
TakenByAll ==
    \A i \in EventIDs, w \in 1..Writers : out[i] > 0 => taken[w][i] > 0

(* ... and the writers the loop is done with have all of the batch, unless *)
(* one of them failed.                                                     *)
BatchTaken(n) ==
    pc[n] = "send" /\ ~firstErr[n] =>
        \A w \in 1..Writers, j \in 1..Len(batch[n]) :
            w < turn[n] => taken[w][batch[n][j].id] > 0

TakenInv ==
    /\ TypeOK
    /\ FanTypeOK
    /\ TakenByAll
    /\ \A n \in Nodes : BatchTaken(n)

(* A writer only has events of the table.                                  *)
TakenStored ==
    \A i \in EventIDs, w \in 1..Writers :
        taken[w][i] > 0 => \E e \in events : e.id = i

GapInv == TakenStored /\ CopiesHaveNoGap

(* Node n may still give the event with id i to writer w without a new     *)
(* call of Run or a new error.                                             *)
MayStillGive(n, w, i) ==
    \/ pc[n] = "load"
    \/ /\ pc[n] \notin {"idle", "load"}
       /\ mem[n].LastEventID < i
       /\ ~ /\ pc[n] = "send" /\ w < turn[n]
            /\ \E j \in 1..Len(batch[n]) : batch[n][j].id = i

Givers(w, i) == { n \in Nodes : MayStillGive(n, w, i) }

BoundInv ==
    \A i \in EventIDs, w \in 1..Writers :
        taken[w][i] + Cardinality(Givers(w, i)) <= runs + faults

(* The gauge is a safe position, no older than the row, and between        *)
(* Advance and the save it is what will be saved.                          *)
GaugeInv ==
    /\ LastEventID \in 0..MaxEventID
    /\ SafePosition(LastEventID)
    /\ LastEventID # 0 => LastEventID >= Position
    /\ \A n \in Nodes : pc[n] = "save" => LastEventID = mem[n].LastEventID

LagInv == CheckpointLag \in Int /\ LagIsALowerBound

(* No line of a batch is printed before all writers have taken it.         *)
NothingSentYet(n) ==
    pc[n] = "send" /\ (~LoopOver(n) \/ firstErr[n]) => sent[n] = 0

(* Every line is counted, but for those of the batch under way.            *)
CountInv ==
    /\ EventsProcessed \in [{"true", "false"} -> Nat]
    /\ \A n \in Nodes : NothingSentYet(n)
    /\ IsFiniteSet(Lines)
    /\ ~crashes =>
          \A n \in Nodes :
              EventsProcessed["false"]
                  + (IF pc[n] = "send" THEN sent[n] ELSE 0) = Cardinality(Lines)

-----------------------------------------------------------------------------
(* The process is a processor.                                             *)

LEMMA ServiceInit == MetricsInit => Init
BY DEF MetricsInit, WritersInit

LEMMA ServiceStep == [MetricsNext]_metricsVars => [Next]_vars
<1> SUFFICES ASSUME [MetricsNext]_metricsVars PROVE [Next]_vars
  OBVIOUS
<1>1. ASSUME NEW n \in Nodes, Works(n) PROVE Step(n) \/ UNCHANGED vars
  BY <1>1 DEF Works, Advance, Refused, PollEnds, OtherStep, Acknowledge, Refuse,
     Elsewhere, WriterTakes, Step
<1>2. ASSUME NEW n \in Nodes, Stop(n) \/ Die(n) PROVE Cancel(n) \/ Crash(n)
  BY <1>2 DEF Stop, Die
<1>3. CASE UNCHANGED metricsVars
  BY <1>3 DEF metricsVars, writersVars
<1>4. CASE MetricsNext
  BY <1>1, <1>2, <1>4 DEF MetricsNext, Next
<1> QED
  BY <1>3, <1>4

(***************************************************************************)
(* Whatever holds of the processor holds of the process with its writers   *)
(* and metrics: the calls it makes of each writer, and the metrics it sets,*)
(* change nothing the processor reads.                                     *)
(***************************************************************************)
THEOREM ServiceIsAProcessor == MetricsSpec => Spec
BY ServiceInit, ServiceStep, PTL DEF MetricsSpec, Spec

(***************************************************************************)
(* A single process with its writers and metrics keeps what an audit feed  *)
(* promises.                                                               *)
(***************************************************************************)
THEOREM ServiceKeepsTheFeed ==
    ASSUME \A n, m \in Nodes : n = m,
           IdsInOrder, TimesInOrder, ~StdoutMayFail
    PROVE  MetricsSpec => ImplementsFeed
<1>1. Solo
  BY DEF Solo
<1>2. Spec /\ []Solo => ImplementsFeed
  BY KeepsTheFeed
<1> QED
  BY <1>1, <1>2, ServiceIsAProcessor, PTL

-----------------------------------------------------------------------------
(* What a writer's SendEvents does to its copy.                            *)

Places(b, i) == { k \in DOMAIN b : b[k].id = i }

LEMMA PlusAdds ==
    ASSUME NEW counts \in [EventIDs -> Nat], NEW b \in Seq(Event)
    PROVE  /\ Plus(counts, b) \in [EventIDs -> Nat]
           /\ \A i \in EventIDs : counts[i] <= Plus(counts, b)[i]
           /\ \A k \in 1..Len(b) : Plus(counts, b)[b[k].id] > 0
           /\ \A i \in EventIDs :
                 (\A k \in 1..Len(b) : b[k].id # i) =>
                     Plus(counts, b)[i] = counts[i]
           /\ (\A j, k \in 1..Len(b) : b[j].id = b[k].id => j = k) =>
                 \A i \in EventIDs : Plus(counts, b)[i] <= counts[i] + 1
<1>1. DOMAIN b = 1..Len(b) /\ Len(b) \in Nat
  BY LenProperties
<1>2. \A k \in 1..Len(b) : b[k].id \in EventIDs
  <2>1. \A k \in 1..Len(b) : b[k] \in Event
    BY ElementOfSeq
  <2> QED
    BY <2>1 DEF Event
<1>3. \A i : IsFiniteSet(Places(b, i)) /\ Cardinality(Places(b, i)) \in Nat
  <2> SUFFICES ASSUME NEW i
               PROVE  IsFiniteSet(Places(b, i)) /\ Cardinality(Places(b, i)) \in Nat
    OBVIOUS
  <2>1. IsFiniteSet(1..Len(b))
    BY <1>1, FS_Interval
  <2>2. Places(b, i) \subseteq 1..Len(b)
    BY <1>1 DEF Places
  <2> QED
    BY <2>1, <2>2, FS_Subset, FS_CardinalityType
<1>4. Plus(counts, b) = [i \in EventIDs |-> counts[i] + Cardinality(Places(b, i))]
  BY DEF Plus, Places
<1>5. Plus(counts, b) \in [EventIDs -> Nat]
  BY <1>3, <1>4
<1>6. ASSUME NEW i \in EventIDs, \A k \in 1..Len(b) : b[k].id # i
      PROVE  Places(b, i) = {}
  BY <1>1, <1>6 DEF Places
<1>7. ASSUME NEW k \in 1..Len(b) PROVE Cardinality(Places(b, b[k].id)) # 0
  <2>1. k \in Places(b, b[k].id)
    BY <1>1 DEF Places
  <2> QED
    BY <1>3, <2>1, FS_EmptySet
<1>8. Cardinality({}) = 0
  BY FS_EmptySet
<1>9. ASSUME \A j, k \in 1..Len(b) : b[j].id = b[k].id => j = k,
             NEW i \in EventIDs
      PROVE  Cardinality(Places(b, i)) \in {0, 1}
  <2>1. CASE Places(b, i) = {}
    BY <1>8, <2>1
  <2>2. CASE Places(b, i) # {}
    <3>1. PICK k \in Places(b, i) : TRUE
      BY <2>2
    <3>2. Places(b, i) = {k}
      BY <1>1, <1>9, <3>1 DEF Places
    <3>3. Cardinality({k}) = 1
      BY FS_Singleton
    <3> QED
      BY <3>2, <3>3
  <2> QED
    BY <2>1, <2>2
<1>10. \A i \in EventIDs : counts[i] \in Nat
  OBVIOUS
<1>11. \A i \in EventIDs : counts[i] <= Plus(counts, b)[i]
  BY <1>3, <1>4, <1>10
<1>12. \A k \in 1..Len(b) : Plus(counts, b)[b[k].id] > 0
  BY <1>2, <1>3, <1>4, <1>7, <1>10
<1>13. \A i \in EventIDs :
          (\A k \in 1..Len(b) : b[k].id # i) => Plus(counts, b)[i] = counts[i]
  <2> SUFFICES ASSUME NEW i \in EventIDs, \A k \in 1..Len(b) : b[k].id # i
               PROVE  Plus(counts, b)[i] = counts[i]
    OBVIOUS
  <2>1. Cardinality(Places(b, i)) = 0
    BY <1>6, <1>8
  <2> QED
    BY <1>4, <1>10, <2>1
<1>14. (\A j, k \in 1..Len(b) : b[j].id = b[k].id => j = k) =>
          \A i \in EventIDs : Plus(counts, b)[i] <= counts[i] + 1
  <2> SUFFICES ASSUME \A j, k \in 1..Len(b) : b[j].id = b[k].id => j = k,
                      NEW i \in EventIDs
               PROVE  Plus(counts, b)[i] <= counts[i] + 1
    OBVIOUS
  <2>1. Cardinality(Places(b, i)) \in {0, 1}
    BY <1>9
  <2> QED
    BY <1>4, <1>10, <2>1
<1> QED
  BY <1>5, <1>11, <1>12, <1>13, <1>14

(* The part of a batch that a writer has taken is a batch of its own.      *)
LEMMA PartOfBatch ==
    ASSUME NEW b \in Seq(Event), NEW part \in 0..Len(b)
    PROVE  /\ SubSeq(b, 1, part) \in Seq(Event)
           /\ Len(SubSeq(b, 1, part)) = part
           /\ \A k \in 1..part : SubSeq(b, 1, part)[k] = b[k]
<1>1. part \in Nat /\ \A k \in 1..part : b[k] \in Event
  BY LenProperties, ElementOfSeq
<1> QED
  BY <1>1, SubSeqProperties

(* One writer gets the batch: everything about the step that the proofs    *)
(* use.                                                                    *)
TakesPart(n, w, part) ==
    /\ w \in 1..Writers
    /\ turn[n] = w /\ turn' = [turn EXCEPT ![n] = w + 1]
    /\ firstErr' \in [Nodes -> BOOLEAN]
    /\ \A m \in Nodes \ {n} : firstErr'[m] = firstErr[m]
    /\ firstErr[n] => firstErr'[n]
    /\ part = Len(batch[n]) \/ firstErr'[n]
    /\ taken' = [taken EXCEPT ![w] = Plus(@, SubSeq(batch[n], 1, part))]
    /\ taken' \in [1..Writers -> [EventIDs -> Nat]]
    /\ \A i \in EventIDs, v \in 1..Writers : taken[v][i] <= taken'[v][i]
    /\ \A k \in 1..part : taken'[w][batch[n][k].id] > 0
    /\ \A i \in EventIDs :
          (\A k \in 1..part : batch[n][k].id # i) => taken'[w][i] = taken[w][i]

LEMMA TakesEffect ==
    ASSUME TypeOK, FanTypeOK, NEW n \in Nodes, WriterTakes(n)
    PROVE  \E w \in 1..Writers, part \in 0..Len(batch[n]) : TakesPart(n, w, part)
<1>1. turn[n] \in 1..Writers
  BY WritersAssumption DEF WriterTakes, LoopOver, FanTypeOK
<1>2. PICK part \in 0..Len(batch[n]), fails \in BOOLEAN :
          /\ fails \/ part = Len(batch[n])
          /\ taken' = [taken EXCEPT ![turn[n]] =
                          Plus(@, SubSeq(batch[n], 1, part))]
          /\ firstErr' = [firstErr EXCEPT ![n] = FirstErr(n, fails)]
          /\ turn' = [turn EXCEPT ![n] = @ + 1]
  BY DEF WriterTakes
<1> DEFINE w == turn[n]
           b == SubSeq(batch[n], 1, part)
<1>3. /\ b \in Seq(Event) /\ Len(b) = part
      /\ \A k \in 1..part : b[k] = batch[n][k]
  BY PartOfBatch DEF TypeOK
<1>4. taken[w] \in [EventIDs -> Nat]
  BY <1>1 DEF FanTypeOK
<1> HIDE DEF b
<1>5. /\ Plus(taken[w], b) \in [EventIDs -> Nat]
      /\ \A i \in EventIDs : taken[w][i] <= Plus(taken[w], b)[i]
      /\ \A k \in 1..part : Plus(taken[w], b)[batch[n][k].id] > 0
      /\ \A i \in EventIDs :
            (\A k \in 1..part : batch[n][k].id # i) =>
                Plus(taken[w], b)[i] = taken[w][i]
  <2>1. /\ Plus(taken[w], b) \in [EventIDs -> Nat]
        /\ \A i \in EventIDs : taken[w][i] <= Plus(taken[w], b)[i]
        /\ \A k \in 1..Len(b) : Plus(taken[w], b)[b[k].id] > 0
        /\ \A i \in EventIDs :
              (\A k \in 1..Len(b) : b[k].id # i) =>
                  Plus(taken[w], b)[i] = taken[w][i]
    BY <1>3, <1>4, PlusAdds
  <2> QED
    BY <1>3, <2>1
<1>6. /\ taken' = [taken EXCEPT ![w] = Plus(taken[w], b)]
      /\ taken'[w] = Plus(taken[w], b)
      /\ \A v \in 1..Writers : v # w => taken'[v] = taken[v]
  BY <1>1, <1>2 DEF FanTypeOK, b
<1>7. /\ firstErr' \in [Nodes -> BOOLEAN]
      /\ \A m \in Nodes \ {n} : firstErr'[m] = firstErr[m]
      /\ firstErr'[n] = FirstErr(n, fails)
  BY <1>2 DEF FanTypeOK, FirstErr
<1>8. \A i \in EventIDs, v \in 1..Writers : taken[v][i] <= taken'[v][i]
  BY <1>5, <1>6 DEF FanTypeOK
<1>9. taken' \in [1..Writers -> [EventIDs -> Nat]]
  BY <1>5, <1>6 DEF FanTypeOK
<1>10. turn' = [turn EXCEPT ![n] = w + 1]
  BY <1>2
<1>11. TakesPart(n, w, part)
  BY <1>1, <1>2, <1>5, <1>6, <1>7, <1>8, <1>9, <1>10 DEF TakesPart, FirstErr, b
<1> QED
  BY <1>1, <1>11

LEMMA FanType ==
    ASSUME TypeOK, FanTypeOK, [MetricsNext]_metricsVars
    PROVE  FanTypeOK'
<1>1. ASSUME NEW n \in Nodes, WriterTakes(n) PROVE FanTypeOK'
  <2>1. PICK w \in 1..Writers, part \in 0..Len(batch[n]) : TakesPart(n, w, part)
    BY <1>1, TakesEffect
  <2> QED
    BY <2>1 DEF TakesPart, FanTypeOK
<1>2. ASSUME NEW n \in Nodes, Elsewhere(n) PROVE FanTypeOK'
  BY <1>2 DEF Elsewhere, FanTypeOK
<1>3. ASSUME UNCHANGED fan PROVE FanTypeOK'
  BY <1>3 DEF fan, FanTypeOK
<1> QED
  BY <1>1, <1>2, <1>3
  DEF MetricsNext, metricsVars, writersVars, Works, Advance, Refused, PollEnds,
      OtherStep, Acknowledge, Refuse, Stop, Die

LEMMA FanInit == MetricsInit => FanTypeOK
BY DEF MetricsInit, WritersInit, FanTypeOK

(* The steps of the process by what they do to the copies and to stdout.   *)
LEMMA ServiceCases ==
    ASSUME TypeOK, [MetricsNext]_metricsVars
    PROVE  \/ \E n \in Nodes : WriterTakes(n) /\ UNCHANGED <<vars, gauges>>
           \/ \E n \in Nodes : Advance(n) /\ AdvanceCheckpoint(n)
           \/ \E n \in Nodes : Acknowledge(n) /\ WriteLine(n) /\ UNCHANGED gauges
           \/ \E n \in Nodes : Refused(n)
           \/ \E n \in Nodes :
                 /\ Elsewhere(n)
                 /\ UNCHANGED <<EventsProcessed, LastEventID, CheckpointLag, crashes>>
           \/ \E n \in Nodes : Stop(n) \/ Die(n)
           \/ (StoreEvent \/ ClockTick) /\ UNCHANGED <<fan, gauges>>
           \/ UNCHANGED metricsVars
<1>1. ASSUME NEW n \in Nodes, Advance(n) PROVE AdvanceCheckpoint(n)
  BY <1>1 DEF Advance, Acknowledge, WriteLine
<1>2. ASSUME NEW n \in Nodes, Acknowledge(n), pc'[n] = "send"
      PROVE  WriteLine(n)
  <2>1. ~AdvanceCheckpoint(n)
    BY <1>2 DEF AdvanceCheckpoint, TypeOK
  <2> QED
    BY <1>2, <2>1 DEF Acknowledge
<1>3. ASSUME NEW n \in Nodes, OtherStep(n)
      PROVE  \/ WriterTakes(n) /\ UNCHANGED <<vars, gauges>>
             \/ Acknowledge(n) /\ WriteLine(n) /\ UNCHANGED gauges
             \/ Elsewhere(n) /\ UNCHANGED gauges
  BY <1>2, <1>3 DEF OtherStep, WriterTakes
<1> QED
  BY <1>1, <1>3 DEF MetricsNext, Works, PollEnds, gauges

-----------------------------------------------------------------------------
(* What is acknowledged has reached every writer.                          *)

LEMMA TakenInit == MetricsInit => TakenInv
<1> SUFFICES ASSUME MetricsInit PROVE TakenInv
  OBVIOUS
<1>1. TypeOK /\ FanTypeOK
  BY ServiceInit, InitType, FanInit
<1>2. TakenByAll
  BY ServiceInit DEF Init, TakenByAll
<1>3. \A n \in Nodes : BatchTaken(n)
  BY ServiceInit DEF Init, BatchTaken
<1> QED
  BY <1>1, <1>2, <1>3 DEF TakenInv

(* A step that prints nothing, takes nothing back and is not about a batch *)
(* already in SendEvents.                                                  *)
LEMMA TakenStep ==
    ASSUME TakenInv, TypeOK', FanTypeOK', out' = out, taken' = taken,
           NEW n \in Nodes, OthersSame(n),
           \A m \in Nodes \ {n} : turn'[m] = turn[m] /\ firstErr'[m] = firstErr[m],
           pc'[n] # "send" \/ turn'[n] = 1
    PROVE  TakenInv'
<1>1. TakenByAll'
  BY DEF TakenInv, TakenByAll
<1>2. BatchTaken(n)'
  BY DEF BatchTaken
<1>3. ASSUME NEW m \in Nodes \ {n} PROVE BatchTaken(m)'
  BY DEF TakenInv, BatchTaken, OthersSame, SameLocal
<1> QED
  BY <1>1, <1>2, <1>3 DEF TakenInv

LEMMA TakenWriter ==
    ASSUME TakenInv, TypeOK', FanTypeOK', NEW n \in Nodes, WriterTakes(n)
    PROVE  TakenInv'
<1>1. TypeOK /\ FanTypeOK
  BY DEF TakenInv
<1>2. PICK w \in 1..Writers, part \in 0..Len(batch[n]) : TakesPart(n, w, part)
  BY <1>1, TakesEffect
<1>3. UNCHANGED <<out, pc, batch>>
  BY DEF WriterTakes, vars, local
<1>4. ASSUME NEW i \in EventIDs, NEW v \in 1..Writers, taken[v][i] > 0
      PROVE  taken'[v][i] > 0
  BY <1>1, <1>2, <1>4 DEF TakesPart, FanTypeOK
<1>5. TakenByAll'
  BY <1>3, <1>4 DEF TakenInv, TakenByAll
<1>6. ASSUME NEW m \in Nodes, NEW j \in 1..Len(batch[m])
      PROVE  batch[m][j].id \in EventIDs
  <2>1. batch[m] \in Seq(Event)
    BY <1>1 DEF TypeOK
  <2>2. batch[m][j] \in Event
    BY <2>1, ElementOfSeq
  <2> QED
    BY <2>2 DEF Event
<1>7. ASSUME NEW m \in Nodes \ {n} PROVE BatchTaken(m)'
  <2>1. turn'[m] = turn[m] /\ firstErr'[m] = firstErr[m]
    BY <1>1, <1>2 DEF TakesPart, FanTypeOK
  <2> QED
    BY <1>3, <1>4, <1>6, <2>1 DEF TakenInv, BatchTaken
<1>8. BatchTaken(n)'
  <2>1. SUFFICES ASSUME pc[n] = "send", ~firstErr'[n],
                        NEW v \in 1..Writers, NEW j \in 1..Len(batch[n]),
                        v < turn'[n]
                 PROVE  taken'[v][batch[n][j].id] > 0
    BY <1>3 DEF BatchTaken
  <2>2. part = Len(batch[n]) /\ ~firstErr[n] /\ turn[n] = w /\ turn'[n] = w + 1
    BY <1>1, <1>2, <2>1 DEF TakesPart, FanTypeOK
  <2>3. CASE v = w
    BY <1>2, <2>2, <2>3 DEF TakesPart
  <2>4. CASE v < w
    BY <1>4, <1>6, <2>1, <2>2, <2>4 DEF TakenInv, BatchTaken
  <2> QED
    BY <1>1, <2>1, <2>2, <2>3, <2>4 DEF FanTypeOK
<1> QED
  BY <1>5, <1>7, <1>8 DEF TakenInv

LEMMA TakenLine ==
    ASSUME TakenInv, TypeOK', FanTypeOK', NEW n \in Nodes, Acknowledge(n),
           WriteLine(n)
    PROVE  TakenInv'
<1>1. TypeOK /\ FanTypeOK /\ BatchTaken(n)
  BY DEF TakenInv
<1> DEFINE k == batch[n][sent[n] + 1].id
<1>2. /\ pc[n] = "send" /\ ~firstErr[n] /\ turn[n] > Writers
      /\ sent[n] + 1 \in 1..Len(batch[n])
      /\ out' = [out EXCEPT ![k] = @ + 1]
      /\ UNCHANGED <<pc, batch, turn, firstErr, taken>>
  BY <1>1, LenProperties DEF WriteLine, Acknowledge, LoopOver, fan, TypeOK
<1>3. \A w \in 1..Writers : taken[w][k] > 0
  BY <1>1, <1>2, WritersAssumption DEF BatchTaken, FanTypeOK
<1>4. TakenByAll'
  BY <1>1, <1>2, <1>3 DEF TakenInv, TakenByAll, TypeOK
<1>5. \A m \in Nodes : BatchTaken(m)'
  BY <1>2 DEF TakenInv, BatchTaken
<1> QED
  BY <1>4, <1>5 DEF TakenInv

LEMMA TakenNext == TakenInv /\ [MetricsNext]_metricsVars => TakenInv'
<1> SUFFICES ASSUME TakenInv, [MetricsNext]_metricsVars PROVE TakenInv'
  OBVIOUS
<1>1. TypeOK /\ TypeOK' /\ FanTypeOK /\ FanTypeOK'
  BY ServiceStep, NextType, FanType DEF TakenInv
<1>2. ASSUME NEW n \in Nodes, WriterTakes(n) PROVE TakenInv'
  BY <1>1, <1>2, TakenWriter
<1>3. ASSUME NEW n \in Nodes, Advance(n), AdvanceCheckpoint(n) PROVE TakenInv'
  <2>1. OthersSame(n)
    BY <1>1, <1>3, StepsAlone DEF Step
  <2>2. pc'[n] # "send" /\ UNCHANGED <<out, turn, firstErr, taken>>
    BY <1>1, <1>3 DEF Advance, AdvanceCheckpoint, Acknowledge, fan, TypeOK
  <2> QED
    BY <1>1, <2>1, <2>2, TakenStep
<1>4. ASSUME NEW n \in Nodes, Acknowledge(n), WriteLine(n) PROVE TakenInv'
  BY <1>1, <1>4, TakenLine
<1>5. ASSUME NEW n \in Nodes, Refused(n) PROVE TakenInv'
  <2>1. SendFails(n) /\ UNCHANGED <<turn, firstErr, taken>>
    BY <1>5 DEF Refused, Refuse, fan
  <2>2. OthersSame(n) /\ pc'[n] # "send" /\ out' = out
    BY <1>1, <2>1, LeaveEffect DEF SendFails
  <2> QED
    BY <1>1, <2>1, <2>2, TakenStep
<1>6. ASSUME NEW n \in Nodes, Elsewhere(n) PROVE TakenInv'
  <2>1. OthersSame(n)
    BY <1>1, <1>6, StepsAlone DEF Elsewhere
  <2>2. out' = out
    BY <1>6 DEF Elsewhere, Step, CallRun, LoadCheckpoint, LoadFails, Tick, Return,
       BeginPoll, FetchBatch, FetchEmpty, FetchFails, WriteLine, LineLost,
       SendFails, AdvanceCheckpoint, SaveCheckpoint, SaveFails
  <2>3. /\ turn'[n] = 1 /\ taken' = taken
        /\ \A m \in Nodes \ {n} : turn'[m] = turn[m] /\ firstErr'[m] = firstErr[m]
    BY <1>1, <1>6 DEF Elsewhere, FanTypeOK
  <2> QED
    BY <1>1, <2>1, <2>2, <2>3, TakenStep
<1>7. ASSUME NEW n \in Nodes, Stop(n) PROVE TakenInv'
  <2>1. UNCHANGED <<out, pc, batch, turn, firstErr, taken>>
    BY <1>7 DEF Stop, Cancel, fan
  <2> QED
    BY <1>1, <2>1 DEF TakenInv, TakenByAll, BatchTaken
<1>8. ASSUME NEW n \in Nodes, Die(n) PROVE TakenInv'
  <2>1. Crash(n) /\ UNCHANGED <<turn, firstErr, taken>>
    BY <1>8 DEF Die, fan
  <2>2. OthersSame(n) /\ pc'[n] # "send" /\ out' = out
    BY <1>1, <2>1, LeaveEffect DEF Crash
  <2> QED
    BY <1>1, <2>1, <2>2, TakenStep
<1>9. ASSUME \/ (StoreEvent \/ ClockTick) /\ UNCHANGED fan
             \/ UNCHANGED metricsVars
      PROVE  TakenInv'
  <2>1. UNCHANGED <<out, pc, batch, turn, firstErr, taken>>
    BY <1>9 DEF StoreEvent, ClockTick, local, fan, metricsVars, writersVars, vars
  <2> QED
    BY <1>1, <2>1 DEF TakenInv, TakenByAll, BatchTaken
<1> QED
  BY <1>1, <1>2, <1>3, <1>4, <1>5, <1>6, <1>7, <1>8, <1>9, ServiceCases

(***************************************************************************)
(* The saved position never passes an event that some writer has not got,  *)
(* for any number of writers that fail in any order, in the middle of any  *)
(* batch, and any number of processes.                                     *)
(***************************************************************************)
THEOREM SavedInEveryCopy ==
    ASSUME IdsInOrder, TimesInOrder, ~StdoutMayFail
    PROVE  MetricsSpec => []SavedReachedAll
<1>1. Spec => []NoEventLost
  BY NothingLost
<1>2. TakenInv /\ NoEventLost => SavedReachedAll
  <2>1. SUFFICES ASSUME TakenInv, NoEventLost, NEW e \in events,
                        NEW w \in 1..Writers, e.id <= Position, ~Expired(e)
                 PROVE  taken[w][e.id] > 0
    BY DEF SavedReachedAll
  <2>2. out[e.id] > 0 /\ e.id \in EventIDs
    BY <2>1 DEF NoEventLost, Delivered, TakenInv, TypeOK, Event
  <2> QED
    BY <2>1, <2>2 DEF TakenInv, TakenByAll
<1> QED
  BY <1>1, <1>2, ServiceIsAProcessor, TakenInit, TakenNext, PTL DEF MetricsSpec

-----------------------------------------------------------------------------
(* The copies have no gap.                                                 *)

LEMMA GapInit == MetricsInit => GapInv
BY DEF MetricsInit, WritersInit, Init, GapInv, TakenStored, CopiesHaveNoGap

(* A writer gets a part of the batch: what is below the part it already    *)
(* has, what is in the batch comes earlier in the part.                    *)
LEMMA GapWriter ==
    ASSUME IInv, SortedInv, TakenInv, GapInv, NEW n \in Nodes, WriterTakes(n)
    PROVE  GapInv'
<1>1. TypeOK /\ FanTypeOK /\ StoreOrdered /\ NodeInv(n) /\ SortedNode(n)
  BY DEF IInv, SortedInv, TakenInv
<1>2. PICK w \in 1..Writers, part \in 0..Len(batch[n]) : TakesPart(n, w, part)
  BY <1>1, TakesEffect
<1>3. pc[n] = "send" /\ UNCHANGED <<events, now>>
  BY DEF WriterTakes, vars, db
<1>4. Len(batch[n]) \in 1..Len(batch[n])
  BY <1>1, <1>3, EmptySeq DEF TypeOK
<1>5. \A j \in 1..Len(batch[n]) : batch[n][j] \in events /\ batch[n][j] \in Event
  BY <1>1, <1>3 DEF NodeInv, BatchComplete, TypeOK
<1>6. \A i \in EventIDs, v \in 1..Writers : taken[v][i] > 0 => taken'[v][i] > 0
  BY <1>1, <1>2 DEF TakesPart, FanTypeOK
<1>7. ASSUME NEW v \in 1..Writers, NEW i \in EventIDs,
             taken'[v][i] > 0, ~ (taken[v][i] > 0)
      PROVE  v = w /\ \E k \in 1..part : batch[n][k].id = i
  <2>1. v = w
    BY <1>1, <1>2, <1>7 DEF TakesPart, FanTypeOK
  <2> QED
    BY <1>1, <1>2, <1>7, <2>1 DEF TakesPart
<1>8. TakenStored'
  <2>1. SUFFICES ASSUME NEW v \in 1..Writers, NEW i \in EventIDs,
                        taken'[v][i] > 0
                 PROVE  \E e \in events : e.id = i
    BY <1>3 DEF TakenStored
  <2>2. CASE taken[v][i] > 0
    BY <2>2 DEF GapInv, TakenStored
  <2>3. CASE ~ (taken[v][i] > 0)
    BY <1>5, <1>7, <2>1, <2>3
  <2> QED
    BY <2>2, <2>3
<1>9. ASSUME NEW e \in events, NEW f \in events, NEW v \in 1..Writers,
             e.id < f.id, taken'[v][f.id] > 0, ~Expired(e)
      PROVE  taken'[v][e.id] > 0
  <2>1. e \in Event /\ f \in Event /\ e.id \in EventIDs /\ f.id \in EventIDs
    BY <1>1 DEF TypeOK, Event
  <2>2. CASE taken[v][f.id] > 0
    <3>1. taken[v][e.id] > 0
      BY <1>9, <2>2 DEF GapInv, CopiesHaveNoGap
    <3> QED
      BY <1>6, <2>1, <3>1
  <2>3. CASE ~ (taken[v][f.id] > 0)
    <3>1. PICK k \in 1..part : batch[n][k].id = f.id
      BY <1>7, <1>9, <2>1, <2>3
    <3>2. v = w /\ k \in 1..Len(batch[n])
      BY <1>4, <1>7, <1>9, <2>1, <2>3
    <3>3. e.id <= batch[n][Len(batch[n])].id
      <4>1. f.id <= batch[n][Len(batch[n])].id
        <5>1. CASE k = Len(batch[n])
          BY <2>1, <3>1, <5>1 DEF EventIDs
        <5>2. CASE k < Len(batch[n])
          <6>1. batch[n][k].id < batch[n][Len(batch[n])].id
            BY <1>1, <1>3, <1>4, <3>2, <5>2 DEF SortedNode, BatchSorted
          <6> QED
            BY <1>4, <1>5, <2>1, <3>1, <6>1 DEF Event, EventIDs
        <5> QED
          BY <1>4, <3>2, <5>1, <5>2
      <4> QED
        BY <1>4, <1>5, <1>9, <2>1, <4>1 DEF Event, EventIDs
    <3>4. \/ e.id <= mem[n].LastEventID
          \/ \E u \in window[n] : e.timestamp < u
          \/ InBatch(n, e)
      BY <1>1, <1>3, <3>3 DEF NodeInv, BatchComplete
    <3>5. CASE e.id <= mem[n].LastEventID
      <4>1. out[e.id] > 0
        BY <1>1, <1>9, <3>5 DEF NodeInv, SafePosition, Delivered
      <4> QED
        BY <1>6, <2>1, <4>1 DEF TakenInv, TakenByAll
    <3>6. CASE \E u \in window[n] : e.timestamp < u
      <4>1. PICK u \in window[n] : e.timestamp < u
        BY <3>6
      <4>2. LookbackHours > 0 /\ u <= now - LookbackHours
        BY <1>1 DEF NodeInv, WindowExpired
      <4>3. u \in Int /\ e.timestamp \in Int /\ now \in Int
        BY <1>1 DEF TypeOK, Event, Times
      <4> QED
        BY <1>9, <4>1, <4>2, <4>3, ProcessorAssumption DEF Expired
    <3>7. CASE InBatch(n, e)
      <4>1. PICK j \in 1..Len(batch[n]) : batch[n][j] = e
        BY <3>7 DEF InBatch
      <4>2. j < k
        <5>1. ASSUME k < j PROVE FALSE
          <6>1. batch[n][k].id < batch[n][j].id
            BY <1>1, <1>3, <3>2, <5>1 DEF SortedNode, BatchSorted
          <6> QED
            BY <1>9, <2>1, <3>1, <4>1, <6>1 DEF EventIDs
        <5>2. j # k
          BY <1>9, <2>1, <3>1, <4>1 DEF EventIDs
        <5> QED
          BY <1>4, <3>2, <5>1, <5>2
      <4>3. j \in 1..part
        BY <1>4, <3>1, <4>2
      <4>4. taken'[w][batch[n][j].id] > 0
        BY <1>2, <4>3 DEF TakesPart
      <4> QED
        BY <3>2, <4>1, <4>4
    <3> QED
      BY <3>4, <3>5, <3>6, <3>7
  <2> QED
    BY <2>2, <2>3
<1>10. CopiesHaveNoGap'
  BY <1>3, <1>9 DEF CopiesHaveNoGap, Expired
<1> QED
  BY <1>8, <1>10 DEF GapInv

LEMMA GapNext ==
    ASSUME IdsInOrder
    PROVE  IInv /\ SortedInv /\ TakenInv /\ GapInv /\ [MetricsNext]_metricsVars
              => GapInv'
<1> SUFFICES ASSUME IInv, SortedInv, TakenInv, GapInv, [MetricsNext]_metricsVars
             PROVE  GapInv'
  OBVIOUS
<1>1. TypeOK /\ TypeOK'
  BY ServiceStep, NextType DEF IInv
<1>2. ASSUME NEW n \in Nodes, WriterTakes(n) PROVE GapInv'
  BY <1>2, GapWriter
<1>3. ASSUME UNCHANGED <<events, now, taken>> PROVE GapInv'
  BY <1>3 DEF GapInv, TakenStored, CopiesHaveNoGap, Expired
<1>4. ASSUME NEW n \in Nodes,
             Acknowledge(n) \/ Refused(n) \/ Elsewhere(n) \/ Stop(n) \/ Die(n)
      PROVE  UNCHANGED <<events, now, taken>>
  <2>1. taken' = taken
    BY <1>4 DEF Acknowledge, Refused, Refuse, Elsewhere, Stop, Die, fan
  <2>2. Step(n) \/ Cancel(n) \/ Crash(n)
    BY <1>4 DEF Acknowledge, Refused, Refuse, Elsewhere, Stop, Die, Step
  <2>3. UNCHANGED <<events, now>>
    BY <2>2 DEF Step, CallRun, LoadCheckpoint, LoadFails, Tick, Return,
       BeginPoll, FetchBatch, FetchEmpty, FetchFails, WriteLine, LineLost,
       SendFails, AdvanceCheckpoint, SaveCheckpoint, SaveFails, Cancel, Crash, db
  <2> QED
    BY <2>1, <2>3
<1>5. ASSUME StoreEvent, UNCHANGED fan PROVE GapInv'
  <2>1. PICK e \in Event :
            (\A f \in events : f.id < e.id) /\ events' = events \cup {e}
    BY <1>5 DEF StoreEvent
  <2>2. now' = now /\ taken' = taken
    BY <1>5 DEF StoreEvent, fan
  <2>3. \A w \in 1..Writers : ~ (taken[w][e.id] > 0)
    <3>1. \A f \in events : f.id # e.id
      BY <1>1, <2>1 DEF TypeOK, Event, EventIDs
    <3> QED
      BY <3>1 DEF GapInv, TakenStored, Event
  <2>4. \A f \in events : ~ (e.id < f.id)
    BY <1>1, <2>1 DEF TypeOK, Event, EventIDs
  <2>5. TakenStored'
    BY <2>1, <2>2 DEF GapInv, TakenStored
  <2>6. CopiesHaveNoGap'
    BY <2>1, <2>2, <2>3, <2>4 DEF GapInv, CopiesHaveNoGap, Expired, EventIDs
  <2> QED
    BY <2>5, <2>6 DEF GapInv
<1>6. ASSUME ClockTick, UNCHANGED fan PROVE GapInv'
  <2>1. events' = events /\ now' = now + 1 /\ taken' = taken
    BY <1>6 DEF ClockTick, fan
  <2>2. \A e \in events : Expired(e) => Expired(e)'
    BY <1>1, <2>1, ProcessorAssumption DEF TypeOK, Expired, Event, Times
  <2> QED
    BY <2>1, <2>2 DEF GapInv, TakenStored, CopiesHaveNoGap
<1>7. ASSUME UNCHANGED metricsVars PROVE UNCHANGED <<events, now, taken>>
  BY <1>7 DEF metricsVars, writersVars, vars, db, fan
<1> QED
  BY <1>1, <1>2, <1>3, <1>4, <1>5, <1>6, <1>7, ServiceCases DEF Advance

-----------------------------------------------------------------------------
(* The copies repeat no more than calls of Run and errors explain.         *)

LEMMA GiversFinite ==
    ASSUME IsFiniteSet(Nodes), NEW w, NEW i
    PROVE  IsFiniteSet(Givers(w, i)) /\ Cardinality(Givers(w, i)) \in Nat
<1>1. Givers(w, i) \subseteq Nodes
  BY DEF Givers
<1> QED
  BY <1>1, FS_Subset, FS_CardinalityType

OthersFan(n) ==
    \A m \in Nodes \ {n} : SameLocal(m) /\ turn'[m] = turn[m]

LEMMA OthersGive ==
    ASSUME NEW n \in Nodes, OthersFan(n), NEW m \in Nodes \ {n}, NEW w, NEW i
    PROVE  MayStillGive(m, w, i)' => MayStillGive(m, w, i)
BY DEF OthersFan, SameLocal, MayStillGive

(* Nothing is given, and node n may give no more than before ...           *)
LEMMA NoNewGiver ==
    ASSUME IsFiniteSet(Nodes), TypeOK, TypeOK', FanTypeOK, BoundInv,
           taken' = taken, NEW n \in Nodes, OthersFan(n),
           runs <= runs', faults <= faults',
           \A w \in 1..Writers, i \in EventIDs :
               MayStillGive(n, w, i)' => MayStillGive(n, w, i)
    PROVE  BoundInv'
<1>1. SUFFICES ASSUME NEW i \in EventIDs, NEW w \in 1..Writers
               PROVE  taken[w][i] + Cardinality(Givers(w, i)') <= runs' + faults'
  BY DEF BoundInv
<1> DEFINE A == Givers(w, i)
           B == Givers(w, i)'
<1>2. B \subseteq A
  BY OthersGive DEF Givers
<1>3. IsFiniteSet(A) /\ Cardinality(A) \in Nat
  BY GiversFinite
<1>4. Cardinality(B) \in Nat /\ Cardinality(B) <= Cardinality(A)
  BY <1>2, <1>3, FS_Subset, FS_CardinalityType
<1>5. /\ taken[w][i] \in Nat
      /\ taken[w][i] + Cardinality(A) <= runs + faults
  BY DEF BoundInv, FanTypeOK
<1>6. runs \in Nat /\ faults \in Nat /\ runs' \in Nat /\ faults' \in Nat
  BY ProcessorAssumption DEF TypeOK
<1> HIDE DEF A, B
<1>7. taken[w][i] + Cardinality(B) <= runs' + faults'
  BY <1>3, <1>4, <1>5, <1>6
<1> QED
  BY <1>7 DEF B

(* ... or it may, because of a new call of Run or a new error.             *)
LEMMA OneNewGiver ==
    ASSUME IsFiniteSet(Nodes), TypeOK, TypeOK', FanTypeOK, BoundInv,
           taken' = taken, NEW n \in Nodes, OthersFan(n),
           runs' + faults' = runs + faults + 1
    PROVE  BoundInv'
<1>1. SUFFICES ASSUME NEW i \in EventIDs, NEW w \in 1..Writers
               PROVE  taken[w][i] + Cardinality(Givers(w, i)') <= runs' + faults'
  BY DEF BoundInv
<1> DEFINE A == Givers(w, i)
           B == Givers(w, i)'
<1>2. B \subseteq A \cup {n}
  BY OthersGive DEF Givers
<1>3. IsFiniteSet(A) /\ Cardinality(A) \in Nat
  BY GiversFinite
<1>4. /\ taken[w][i] \in Nat
      /\ taken[w][i] + Cardinality(A) <= runs + faults
  BY DEF BoundInv, FanTypeOK
<1>5. runs \in Nat /\ faults \in Nat
  BY ProcessorAssumption DEF TypeOK
<1> HIDE DEF A, B
<1>6. /\ IsFiniteSet(A \cup {n})
      /\ Cardinality(A \cup {n}) \in {Cardinality(A), Cardinality(A) + 1}
  BY <1>3, FS_AddElement
<1>7. Cardinality(B) \in Nat /\ Cardinality(B) <= Cardinality(A \cup {n})
  BY <1>2, <1>6, FS_Subset, FS_CardinalityType
<1>8. taken[w][i] + Cardinality(B) <= runs' + faults'
  BY <1>3, <1>4, <1>5, <1>6, <1>7
<1> QED
  BY <1>8 DEF B

(* A writer gets a part of the batch: each event of it at most once, and   *)
(* none of it again until the batch is refused.                            *)
LEMMA BoundWriter ==
    ASSUME IsFiniteSet(Nodes), SortedInv, FanTypeOK, BoundInv, NEW n \in Nodes,
           WriterTakes(n)
    PROVE  BoundInv'
<1>1. TypeOK /\ SortedNode(n)
  BY DEF SortedInv
<1>2. PICK w \in 1..Writers, part \in 0..Len(batch[n]) : TakesPart(n, w, part)
  BY <1>1, TakesEffect
<1>3. pc[n] = "send" /\ UNCHANGED <<pc, mem, batch, runs, faults>>
  BY DEF WriterTakes, vars, local
<1>4. /\ turn'[n] = w + 1 /\ turn[n] = w /\ w \in Nat
      /\ \A m \in Nodes \ {n} : turn'[m] = turn[m]
  BY <1>1, <1>2 DEF TakesPart, FanTypeOK
<1>5. \A j \in 1..Len(batch[n]) :
          batch[n][j].id \in EventIDs /\ mem[n].LastEventID < batch[n][j].id
  <2>1. SUFFICES ASSUME NEW j \in 1..Len(batch[n])
                 PROVE  /\ batch[n][j].id \in EventIDs
                        /\ mem[n].LastEventID < batch[n][j].id
    OBVIOUS
  <2>2. batch[n] \in Seq(Event) /\ mem[n] \in Checkpoint
    BY <1>1 DEF TypeOK
  <2>3. batch[n][j] \in Event
    BY <2>2, ElementOfSeq
  <2>4. batch[n][j].id > mem[n].LastEventID
    BY <1>1, <1>3 DEF SortedNode, BatchSorted
  <2> QED
    BY <2>2, <2>3, <2>4 DEF Event, EventIDs, Checkpoint
<1>6. \A v \in 1..Writers, i \in EventIDs, m \in Nodes :
          MayStillGive(m, v, i)' => MayStillGive(m, v, i)
  <2>1. SUFFICES ASSUME NEW v \in 1..Writers, NEW i \in EventIDs, NEW m \in Nodes,
                        MayStillGive(m, v, i)'
                 PROVE  MayStillGive(m, v, i)
    OBVIOUS
  <2>2. CASE m = n
    <3>1. v < turn[n] => v < turn'[n]
      BY <1>4
    <3> QED
      BY <1>3, <2>1, <2>2, <3>1 DEF MayStillGive
  <2>3. CASE m # n
    BY <1>3, <1>4, <2>1, <2>3 DEF MayStillGive
  <2> QED
    BY <2>2, <2>3
<1>7. ASSUME NEW i \in EventIDs, NEW j \in 1..Len(batch[n]), batch[n][j].id = i
      PROVE  MayStillGive(n, w, i) /\ ~MayStillGive(n, w, i)'
  <2>1. ~ (w < turn[n]) /\ w < turn'[n]
    BY <1>4
  <2> QED
    BY <1>3, <1>5, <1>7, <2>1 DEF MayStillGive
<1>8. \A i \in EventIDs, v \in 1..Writers : taken'[v][i] <= taken[v][i] + 1
  <2>1. batch[n] \in Seq(Event) /\ taken[w] \in [EventIDs -> Nat]
    BY <1>1 DEF TypeOK, FanTypeOK
  <2>2. /\ SubSeq(batch[n], 1, part) \in Seq(Event)
        /\ Len(SubSeq(batch[n], 1, part)) = part
        /\ \A k \in 1..part : SubSeq(batch[n], 1, part)[k] = batch[n][k]
    BY <2>1, PartOfBatch
  <2> DEFINE b == SubSeq(batch[n], 1, part)
  <2>3. \A j, k \in 1..Len(b) : b[j].id = b[k].id => j = k
    <3>1. \A j, k \in 1..part : j < k => b[j].id < b[k].id
      BY <1>1, <1>3, <2>1, <2>2, LenProperties DEF SortedNode, BatchSorted
    <3>2. \A j \in 1..part : b[j].id \in Int
      BY <1>5, <2>1, <2>2, LenProperties DEF EventIDs
    <3> QED
      BY <2>2, <3>1, <3>2
  <2> HIDE DEF b
  <2>4. \A i \in EventIDs : Plus(taken[w], b)[i] <= taken[w][i] + 1
    BY <2>1, <2>2, <2>3, PlusAdds DEF b
  <2>5. taken' = [taken EXCEPT ![w] = Plus(taken[w], b)]
    BY <1>2 DEF TakesPart, b
  <2> QED
    BY <2>4, <2>5 DEF FanTypeOK
<1>9. ASSUME NEW i \in EventIDs, NEW v \in 1..Writers
      PROVE  taken'[v][i] + Cardinality(Givers(v, i)') <= runs + faults
  <2> DEFINE A == Givers(v, i)
             B == Givers(v, i)'
  <2>1. IsFiniteSet(A) /\ Cardinality(A) \in Nat
    BY GiversFinite
  <2>2. B \subseteq A
    BY <1>6 DEF Givers
  <2>3. Cardinality(B) \in Nat /\ Cardinality(B) <= Cardinality(A)
    BY <2>1, <2>2, FS_Subset, FS_CardinalityType
  <2>4. /\ taken[v][i] \in Nat /\ taken'[v][i] \in Nat
        /\ taken[v][i] + Cardinality(A) <= runs + faults
    BY <1>2 DEF BoundInv, FanTypeOK, TakesPart
  <2>5. runs \in Nat /\ faults \in Nat
    BY <1>1, ProcessorAssumption DEF TypeOK
  <2> SUFFICES taken'[v][i] + Cardinality(B) <= runs + faults
    OBVIOUS
  <2>6. CASE taken'[v][i] = taken[v][i]
    <3> HIDE DEF A, B
    <3> QED
      BY <2>1, <2>3, <2>4, <2>5, <2>6
  <2>7. CASE taken'[v][i] # taken[v][i]
    <3>1. v = w /\ \E k \in 1..part : batch[n][k].id = i
      BY <1>2, <2>7 DEF TakesPart, FanTypeOK
    <3>2. part <= Len(batch[n]) /\ Len(batch[n]) \in Nat
      BY <1>1, LenProperties DEF TypeOK
    <3>3. PICK k \in 1..Len(batch[n]) : batch[n][k].id = i
      BY <3>1, <3>2
    <3>4. n \in A /\ n \notin B
      <4>1. MayStillGive(n, v, i) /\ ~MayStillGive(n, v, i)'
        BY <1>7, <3>1, <3>3
      <4> QED
        BY <4>1 DEF Givers
    <3> HIDE DEF A, B
    <3>5. Cardinality(B) # Cardinality(A)
      BY <2>1, <2>2, <3>4, FS_Subset
    <3>6. taken'[v][i] <= taken[v][i] + 1
      BY <1>8
    <3>7. Cardinality(B) + 1 <= Cardinality(A)
      BY <2>1, <2>3, <3>5
    <3> DEFINE old == taken[v][i]
               new == taken'[v][i]
    <3>8. /\ old \in Nat /\ new \in Nat /\ new <= old + 1
          /\ old + Cardinality(A) <= runs + faults
      BY <2>4, <3>6
    <3> HIDE DEF old, new
    <3>9. new + Cardinality(B) <= runs + faults
      BY <2>1, <2>3, <2>5, <3>7, <3>8
    <3> QED
      BY <3>9 DEF new
  <2> QED
    BY <2>6, <2>7
<1> QED
  BY <1>3, <1>9 DEF BoundInv

LEMMA BoundInit == ASSUME IsFiniteSet(Nodes) PROVE MetricsInit => BoundInv
<1> SUFFICES ASSUME MetricsInit, NEW i \in EventIDs, NEW w \in 1..Writers
             PROVE  taken[w][i] + Cardinality(Givers(w, i)) <= runs + faults
  BY DEF BoundInv
<1>1. Givers(w, i) = {}
  BY ServiceInit DEF Init, Givers, MayStillGive
<1>2. taken[w][i] = 0 /\ runs = 0 /\ faults = 0
  BY ServiceInit DEF Init, MetricsInit, WritersInit
<1> QED
  BY <1>1, <1>2, FS_EmptySet

(* A step of Run outside SendEvents.                                       *)
LEMMA BoundElsewhere ==
    ASSUME IsFiniteSet(Nodes), SortedInv, TypeOK', FanTypeOK, BoundInv,
           NEW n \in Nodes, Elsewhere(n)
    PROVE  BoundInv'
<1>1. TypeOK
  BY DEF SortedInv
<1>2. OthersFan(n)
  BY <1>1, StepsAlone DEF Elsewhere, FanTypeOK, OthersFan, OthersSame
<1>3. pc[n] # "send" /\ taken' = taken /\ Step(n)
  BY DEF Elsewhere
<1>4. runs \in Nat /\ faults \in Nat
  BY <1>1, ProcessorAssumption DEF TypeOK
<1> USE DEF db, query
<1>5. CASE CallRun(n)
  BY <1>1, <1>2, <1>3, <1>4, <1>5, OneNewGiver DEF CallRun
<1>6. CASE LoadCheckpoint(n) \/ Tick(n) \/ BeginPoll(n) \/ FetchBatch(n)
  <2>1. \/ pc[n] = "load"
        \/ /\ pc[n] \notin {"idle", "load", "send"} /\ mem'[n] = mem[n]
    BY <1>6 DEF LoadCheckpoint, Tick, BeginPoll, FetchBatch
  <2>2. runs' = runs /\ faults' = faults
    BY <1>6 DEF LoadCheckpoint, Tick, BeginPoll, FetchBatch
  <2>3. pc'[n] # "load"
    BY <1>1, <1>6 DEF LoadCheckpoint, Tick, BeginPoll, FetchBatch, TypeOK
  <2>4. \A w \in 1..Writers, i \in EventIDs :
            MayStillGive(n, w, i)' => MayStillGive(n, w, i)
    BY <2>1, <2>3 DEF MayStillGive
  <2> QED
    BY <1>1, <1>2, <1>3, <1>4, <2>2, <2>4, NoNewGiver
<1>7. ASSUME LeaveRun(n) \/ LeavePoll(n), pc[n] \notin {"idle", "send"},
             runs' = runs, faults' \in {faults, faults + 1}
      PROVE  BoundInv'
  <2>1. pc'[n] = "idle" \/ (pc'[n] = "wait" /\ mem'[n] = mem[n])
    BY <1>1, <1>7 DEF LeavePoll, LeaveRun, TypeOK
  <2>2. \A w \in 1..Writers, i \in EventIDs :
            MayStillGive(n, w, i)' => MayStillGive(n, w, i)
    BY <1>7, <2>1 DEF MayStillGive
  <2>3. runs <= runs' /\ faults <= faults'
    BY <1>4, <1>7
  <2> QED
    BY <1>1, <1>2, <1>3, <2>2, <2>3, NoNewGiver
<1>8. CASE LoadFails(n) \/ Return(n) \/ FetchEmpty(n) \/ FetchFails(n) \/ SaveFails(n)
  <2>1. /\ LeaveRun(n) \/ LeavePoll(n)
        /\ pc[n] \notin {"idle", "send"}
        /\ runs' = runs /\ faults' \in {faults, faults + 1}
    BY <1>8 DEF LoadFails, Return, FetchEmpty, FetchFails, SaveFails, CallFails
  <2> QED
    BY <1>7, <2>1
<1>9. CASE SaveCheckpoint(n)
  <2>1. pc[n] = "save" /\ runs' = runs /\ faults' = faults
    BY <1>9 DEF SaveCheckpoint
  <2>2. CASE ShortBatch(batch[n])
    BY <1>7, <1>9, <2>1, <2>2 DEF SaveCheckpoint
  <2>3. CASE ~ShortBatch(batch[n])
    <3>1. pc'[n] = "fetch" /\ mem' = mem
      BY <1>1, <1>9, <2>3 DEF SaveCheckpoint, TypeOK
    <3>2. \A w \in 1..Writers, i \in EventIDs :
              MayStillGive(n, w, i)' => MayStillGive(n, w, i)
      BY <2>1, <3>1 DEF MayStillGive
    <3> QED
      BY <1>1, <1>2, <1>3, <1>4, <2>1, <3>2, NoNewGiver
  <2> QED
    BY <2>2, <2>3
<1> QED
  BY <1>3, <1>5, <1>6, <1>8, <1>9
  DEF Step, WriteLine, LineLost, SendFails, AdvanceCheckpoint

LEMMA BoundNext ==
    ASSUME IsFiniteSet(Nodes)
    PROVE  SortedInv /\ FanTypeOK /\ BoundInv /\ [MetricsNext]_metricsVars
              => BoundInv'
<1> SUFFICES ASSUME SortedInv, FanTypeOK, BoundInv, [MetricsNext]_metricsVars
             PROVE  BoundInv'
  OBVIOUS
<1>1. TypeOK /\ TypeOK'
  BY ServiceStep, NextType DEF SortedInv
<1>2. runs \in Nat /\ faults \in Nat
  BY <1>1, ProcessorAssumption DEF TypeOK
<1>3. ASSUME NEW n \in Nodes, WriterTakes(n) PROVE BoundInv'
  BY <1>3, BoundWriter
<1>4. ASSUME NEW n \in Nodes, Advance(n), AdvanceCheckpoint(n) PROVE BoundInv'
  <2> DEFINE last == batch[n][Len(batch[n])].id
  <2>1. OthersFan(n) /\ taken' = taken
    BY <1>1, <1>4, StepsAlone
    DEF Step, Advance, Acknowledge, fan, OthersFan, OthersSame
  <2>2. /\ pc[n] = "send" /\ pc'[n] = "save"
        /\ mem'[n].LastEventID = last
        /\ runs' = runs /\ faults' = faults
    BY <1>1, <1>4 DEF AdvanceCheckpoint, Advanced, TypeOK
  <2>3. Len(batch[n]) \in 1..Len(batch[n])
    BY <1>1, <2>2, EmptySeq DEF TypeOK
  <2>4. \A j \in 1..Len(batch[n]) :
            batch[n][j].id \in Int /\ mem[n].LastEventID < batch[n][j].id
    <3>1. SUFFICES ASSUME NEW j \in 1..Len(batch[n])
                   PROVE  /\ batch[n][j].id \in Int
                          /\ mem[n].LastEventID < batch[n][j].id
      OBVIOUS
    <3>2. batch[n] \in Seq(Event) /\ mem[n] \in Checkpoint
      BY <1>1 DEF TypeOK
    <3>3. batch[n][j] \in Event
      BY <3>2, ElementOfSeq
    <3>4. batch[n][j].id > mem[n].LastEventID
      BY <2>2 DEF SortedInv, SortedNode, BatchSorted
    <3> QED
      BY <3>2, <3>3, <3>4 DEF Event, EventIDs, Checkpoint
  <2>5. \A j \in 1..Len(batch[n]) : batch[n][j].id <= last
    <3>1. SUFFICES ASSUME NEW j \in 1..Len(batch[n]), j # Len(batch[n])
                   PROVE  batch[n][j].id <= last
      BY <2>3, <2>4
    <3>2. batch[n][j].id < last
      BY <2>2, <2>3, <3>1 DEF SortedInv, SortedNode, BatchSorted
    <3> QED
      BY <2>3, <2>4, <3>2
  <2>6. ASSUME NEW w \in 1..Writers, NEW i \in EventIDs, MayStillGive(n, w, i)'
        PROVE  MayStillGive(n, w, i)
    <3>1. last < i /\ i \in Int /\ last \in Int
      BY <2>2, <2>3, <2>4, <2>6 DEF MayStillGive, EventIDs
    <3>2. \A j \in 1..Len(batch[n]) : batch[n][j].id # i
      BY <2>4, <2>5, <3>1
    <3>3. mem[n].LastEventID < i
      <4>1. mem[n] \in Checkpoint /\ mem[n].LastEventID < last
        BY <1>1, <2>3, <2>4 DEF TypeOK
      <4> QED
        BY <3>1, <4>1 DEF Checkpoint
    <3> QED
      BY <2>2, <3>2, <3>3 DEF MayStillGive
  <2> QED
    BY <1>1, <1>2, <2>1, <2>2, <2>6, NoNewGiver
<1>5. ASSUME NEW n \in Nodes, Acknowledge(n), WriteLine(n) PROVE BoundInv'
  <2>1. UNCHANGED <<pc, mem, batch, runs, faults, turn, taken>>
    BY <1>5 DEF Acknowledge, WriteLine, fan
  <2> QED
    BY <2>1 DEF BoundInv, Givers, MayStillGive
<1>6. ASSUME NEW n \in Nodes, Refused(n) PROVE BoundInv'
  <2>1. SendFails(n) /\ UNCHANGED <<turn, taken>>
    BY <1>6 DEF Refused, Refuse, fan
  <2>2. OthersFan(n)
    BY <1>1, <2>1, StepsAlone DEF Step, OthersFan, OthersSame
  <2>3. runs' + faults' = runs + faults + 1
    BY <1>2, <2>1 DEF SendFails
  <2> QED
    BY <1>1, <2>1, <2>2, <2>3, OneNewGiver
<1>7. ASSUME NEW n \in Nodes, Elsewhere(n) PROVE BoundInv'
  BY <1>1, <1>7, BoundElsewhere
<1>8. ASSUME NEW n \in Nodes, Die(n) PROVE BoundInv'
  <2>1. Crash(n) /\ UNCHANGED <<turn, taken>>
    BY <1>8 DEF Die, fan
  <2>2. OthersFan(n)
    BY <1>1, <2>1, StepsAlone DEF OthersFan, OthersSame
  <2>3. pc'[n] = "idle" /\ runs' = runs /\ faults' = faults
    BY <1>1, <2>1 DEF Crash, LeaveRun, TypeOK
  <2>4. \A w \in 1..Writers, i \in EventIDs :
            MayStillGive(n, w, i)' => MayStillGive(n, w, i)
    BY <2>3 DEF MayStillGive
  <2> QED
    BY <1>1, <1>2, <2>1, <2>2, <2>3, <2>4, NoNewGiver
<1>9. ASSUME \/ \E n \in Nodes : Stop(n)
             \/ (StoreEvent \/ ClockTick) /\ UNCHANGED fan
             \/ UNCHANGED metricsVars
      PROVE  BoundInv'
  <2>1. UNCHANGED <<pc, mem, batch, runs, faults, turn, taken>>
    BY <1>9 DEF Stop, Cancel, StoreEvent, ClockTick, local, fan, metricsVars,
       writersVars, vars
  <2> QED
    BY <2>1 DEF BoundInv, Givers, MayStillGive
<1> QED
  BY <1>1, <1>3, <1>4, <1>5, <1>6, <1>7, <1>8, <1>9, ServiceCases

(***************************************************************************)
(* What each writer has got has no gap, and it has got nothing more often  *)
(* than there were calls of Run and errors: for any number of writers that *)
(* fail in any order, in the middle of any batch, and any number of        *)
(* processes.                                                              *)
(***************************************************************************)
THEOREM CopiesAreFaithful ==
    ASSUME IsFiniteSet(Nodes), IdsInOrder, TimesInOrder, ~StdoutMayFail
    PROVE  MetricsSpec => []CopiesAreTrue
<1>1. Init => IInv /\ SortedInv
  BY InitInv, SortedInit
<1>2. IInv /\ [Next]_vars => IInv'
  BY NextInv
<1>3. SortedInv /\ [Next]_vars => SortedInv'
  BY SortedNext
<1>4. IInv /\ SortedInv /\ TakenInv /\ GapInv /\ [MetricsNext]_metricsVars => GapInv'
  BY GapNext
<1>5. SortedInv /\ TakenInv /\ BoundInv /\ [MetricsNext]_metricsVars => BoundInv'
  BY BoundNext DEF TakenInv
<1>6. MetricsInit => BoundInv
  BY BoundInit
<1>7. TakenInv /\ GapInv /\ BoundInv => CopiesAreTrue
  <2>1. SUFFICES ASSUME TakenInv, BoundInv, NEW i \in EventIDs, NEW w \in 1..Writers
                 PROVE  taken[w][i] <= runs + faults
    BY DEF GapInv, CopiesAreTrue, CopiesBounded
  <2>2. Cardinality(Givers(w, i)) \in Nat
    BY GiversFinite
  <2>3. runs \in Nat /\ faults \in Nat /\ taken[w][i] \in Nat
    <3>1. TypeOK /\ FanTypeOK
      BY <2>1 DEF TakenInv
    <3>2. taken[w][i] \in Nat
      BY <3>1 DEF FanTypeOK
    <3>3. runs \in Nat /\ faults \in Nat
      BY <3>1, ProcessorAssumption DEF TypeOK
    <3> QED
      BY <3>2, <3>3
  <2>4. taken[w][i] + Cardinality(Givers(w, i)) <= runs + faults
    BY <2>1 DEF BoundInv
  <2> QED
    BY <2>2, <2>3, <2>4
<1> QED
  BY <1>1, <1>2, <1>3, <1>4, <1>5, <1>6, <1>7, ServiceInit, ServiceStep,
     TakenInit, TakenNext, GapInit, PTL DEF MetricsSpec

-----------------------------------------------------------------------------
(* What /metrics shows.                                                    *)

(* A safe position stays safe.                                             *)
LEMMA SafeStays ==
    ASSUME IdsInOrder, TypeOK, [Next]_vars, NEW k \in 0..MaxEventID,
           SafePosition(k)
    PROVE  SafePosition(k)'
<1>1. ASSUME NEW n \in Nodes, Step(n) \/ Cancel(n) \/ Crash(n)
      PROVE  SafePosition(k)'
  BY <1>1, NodeSteps, SafePositionStable
<1>2. ASSUME StoreEvent PROVE SafePosition(k)'
  <2>1. PICK e \in Event :
            (\A f \in events : f.id < e.id) /\ events' = events \cup {e}
    BY <1>2 DEF StoreEvent
  <2>2. now' = now /\ out' = out
    BY <1>2 DEF StoreEvent
  <2>3. k < e.id
    BY <2>1 DEF SafePosition, Event, EventIDs
  <2>4. ~ (e.id <= k)
    BY <2>3 DEF Event, EventIDs
  <2> QED
    BY <2>1, <2>2, <2>4 DEF SafePosition, Delivered, Expired
<1>3. ASSUME ClockTick PROVE SafePosition(k)'
  <2>1. events' = events /\ out' = out /\ now' = now + 1
    BY <1>3 DEF ClockTick
  <2>2. \A e \in events : Expired(e) => Expired(e)'
    BY <2>1, ProcessorAssumption DEF TypeOK, Expired, Event, Times
  <2> QED
    BY <2>1, <2>2 DEF SafePosition, Delivered
<1>4. CASE UNCHANGED vars
  BY <1>4, SafePositionStable DEF vars, db, PrintedStays
<1> QED
  BY <1>1, <1>2, <1>3, <1>4 DEF Next

(* Only Advance brings a node before its save.                             *)
LEMMA ElsewhereNotSave ==
    ASSUME TypeOK, NEW n \in Nodes, Elsewhere(n)
    PROVE  pc'[n] # "save"
<1>1. CASE LeaveRun(n) \/ LeavePoll(n)
  BY <1>1, LeaveEffect
<1>2. CASE ~(LeaveRun(n) \/ LeavePoll(n))
  BY <1>2 DEF Elsewhere, Step, CallRun, LoadCheckpoint, LoadFails, Tick, Return,
     BeginPoll, FetchBatch, FetchEmpty, FetchFails, WriteLine, LineLost,
     SendFails, AdvanceCheckpoint, SaveCheckpoint, SaveFails, TypeOK
<1> QED
  BY <1>1, <1>2

LEMMA GaugeInit == MetricsInit => GaugeInv
<1> SUFFICES ASSUME MetricsInit PROVE GaugeInv
  OBVIOUS
<1>1. Init /\ TypeOK /\ LastEventID = 0
  BY ServiceInit, InitType DEF MetricsInit
<1> QED
  BY <1>1, ZeroSafe, ProcessorAssumption DEF Init, GaugeInv

LEMMA GaugeNext ==
    ASSUME \A n, m \in Nodes : n = m, IdsInOrder
    PROVE  /\ IInv /\ IInv' /\ SoloInv /\ SoloInv'
           /\ GaugeInv /\ [MetricsNext]_metricsVars
           => GaugeInv'
<1> SUFFICES ASSUME IInv, IInv', SoloInv, SoloInv', GaugeInv,
                    [MetricsNext]_metricsVars
             PROVE  GaugeInv'
  OBVIOUS
<1>1. TypeOK /\ TypeOK' /\ [Next]_vars
  BY ServiceStep DEF IInv
<1>2. SafePosition(LastEventID)' \/ LastEventID' # LastEventID
  <2>1. SUFFICES ASSUME LastEventID' = LastEventID
                 PROVE  SafePosition(LastEventID)'
    OBVIOUS
  <2>2. PICK k \in 0..MaxEventID : k = LastEventID /\ SafePosition(k)
    BY DEF GaugeInv, SafePosition
  <2>3. SafePosition(k)'
    BY <1>1, <2>2, SafeStays
  <2> QED
    BY <2>1, <2>2, <2>3 DEF SafePosition, Delivered, Expired
<1>3. ASSUME LastEventID' = LastEventID, ckpt' = ckpt, pc' = pc, mem' = mem
      PROVE  GaugeInv'
  BY <1>2, <1>3 DEF GaugeInv, Position
<1>4. ASSUME NEW n \in Nodes, Advance(n), AdvanceCheckpoint(n) PROVE GaugeInv'
  <2>1. /\ pc'[n] = "save" /\ ckpt' = ckpt
        /\ LastEventID' = mem'[n].LastEventID
    BY <1>1, <1>4 DEF Advance, AdvanceCheckpoint, Advanced, LastSent, TypeOK, db
  <2>2. SafePosition(mem[n].LastEventID)'
    BY DEF IInv, NodeInv
  <2>3. SafePosition(LastEventID)'
    BY <2>1, <2>2 DEF SafePosition, Delivered, Expired
  <2>4. (Position <= mem[n].LastEventID)'
    BY <2>1 DEF SoloInv, SoloNode, AheadOfRow
  <2>5. LastEventID' \in 0..MaxEventID
    BY <1>1, <2>1 DEF TypeOK, Checkpoint
  <2>6. Position' \in 0..MaxEventID
    BY <1>1, ProcessorAssumption DEF Position, TypeOK, Checkpoint
  <2>7. LastEventID' >= Position'
    BY <2>1, <2>4, <2>5, <2>6
  <2> QED
    BY <2>1, <2>3, <2>5, <2>7 DEF GaugeInv
<1>5. ASSUME NEW n \in Nodes, Refused(n) \/ Elsewhere(n),
             LastEventID' = LastEventID
      PROVE  GaugeInv'
  <2>1. pc'[n] # "save"
    <3>1. CASE Refused(n)
      BY <1>1, <3>1, LeaveEffect DEF Refused, Refuse, SendFails
    <3> QED
      BY <1>1, <1>5, <3>1, ElsewhereNotSave
  <2>2. ckpt' = ckpt \/ (pc[n] = "save" /\ ckpt' = {mem[n]})
    BY <1>1, RowChanges
  <2>3. Position' = Position \/ Position' = LastEventID
    <3>1. Position' \in {Position, mem[n].LastEventID}
      BY <1>1, <2>2, PositionAfterSave
    <3> QED
      BY <2>2, <3>1 DEF Position, GaugeInv
  <2> QED
    BY <1>2, <1>5, <2>1, <2>3 DEF GaugeInv
<1>6. ASSUME NEW n \in Nodes, Die(n) PROVE GaugeInv'
  <2>1. LastEventID' = 0 /\ pc'[n] # "save"
    BY <1>1, <1>6 DEF Die, Crash, LeaveRun, TypeOK
  <2>2. SafePosition(0)'
    <3>1. TypeOK'
      BY <1>1
    <3>2. \A e \in events' : ~ (e.id <= 0)
      BY <3>1 DEF TypeOK, Event, EventIDs
    <3> QED
      BY <3>2 DEF SafePosition
  <2>3. SafePosition(LastEventID)'
    BY <2>1, <2>2 DEF SafePosition, Delivered, Expired
  <2> QED
    BY <2>1, <2>3, ProcessorAssumption DEF GaugeInv
<1>7. ASSUME \/ \E n \in Nodes : WriterTakes(n) /\ UNCHANGED <<vars, gauges>>
             \/ \E n \in Nodes : Acknowledge(n) /\ WriteLine(n) /\ UNCHANGED gauges
             \/ \E n \in Nodes : Stop(n)
             \/ (StoreEvent \/ ClockTick) /\ UNCHANGED <<fan, gauges>>
             \/ UNCHANGED metricsVars
      PROVE  LastEventID' = LastEventID /\ ckpt' = ckpt /\ pc' = pc /\ mem' = mem
  BY <1>7 DEF WriteLine, Stop, Cancel, StoreEvent, ClockTick, metricsVars,
     writersVars, vars, gauges, db, local
<1> QED
  BY <1>1, <1>3, <1>4, <1>5, <1>6, <1>7, ServiceCases DEF Refused

LEMMA LagInit == MetricsInit => LagInv
<1> SUFFICES ASSUME MetricsInit PROVE LagInv
  OBVIOUS
<1>1. events = {} /\ CheckpointLag = 0
  BY ServiceInit DEF Init, MetricsInit
<1> QED
  BY <1>1 DEF LagInv, LagIsALowerBound

LEMMA LagNext ==
    ASSUME IdsInOrder
    PROVE  IInv /\ GaugeInv /\ LagInv /\ [MetricsNext]_metricsVars => LagInv'
<1> SUFFICES ASSUME IInv, GaugeInv, LagInv, [MetricsNext]_metricsVars
             PROVE  LagInv'
  OBVIOUS
<1>1. TypeOK /\ TypeOK' /\ StoreOrdered
  BY ServiceStep, NextType DEF IInv
<1>2. ASSUME NEW n \in Nodes, Advance(n), AdvanceCheckpoint(n) PROVE LagInv'
  <2> DEFINE last == batch[n][Len(batch[n])]
  <2>1. /\ pc[n] = "send" /\ UNCHANGED <<events, now>>
        /\ LastEventID' = last.id
        /\ CheckpointLag' = now - last.timestamp
    BY <1>2 DEF Advance, AdvanceCheckpoint, LastSent, Lag, db
  <2>2. Len(batch[n]) \in 1..Len(batch[n])
    BY <1>1, <2>1, EmptySeq DEF TypeOK
  <2>3. last \in events /\ last \in Event
    BY <1>1, <2>1, <2>2 DEF IInv, NodeInv, BatchComplete, TypeOK
  <2>4. \A e \in events : e.id = last.id => e = last
    BY <1>1, <2>3 DEF StoreOrdered
  <2>5. last.timestamp \in Int /\ now \in Int
    BY <1>1, <2>3 DEF TypeOK, Event, Times
  <2> HIDE DEF last
  <2>6. CheckpointLag' \in Int
    BY <2>1, <2>5
  <2>7. LagIsALowerBound'
    BY <2>1, <2>4, <2>5 DEF LagIsALowerBound
  <2> QED
    BY <2>6, <2>7 DEF LagInv
<1>3. ASSUME NEW n \in Nodes, Die(n) PROVE LagInv'
  <2>1. LastEventID' = 0 /\ CheckpointLag' = 0
    BY <1>3 DEF Die
  <2>2. \A e \in events' : e.id # 0
    BY <1>1 DEF TypeOK, Event, EventIDs
  <2> QED
    BY <2>1, <2>2 DEF LagInv, LagIsALowerBound
<1>4. ASSUME UNCHANGED <<events, now, LastEventID, CheckpointLag>> PROVE LagInv'
  BY <1>4 DEF LagInv, LagIsALowerBound
<1>5. ASSUME StoreEvent, UNCHANGED gauges PROVE LagInv'
  <2>1. PICK e \in Event :
            (\A f \in events : f.id < e.id) /\ events' = events \cup {e}
    BY <1>5 DEF StoreEvent
  <2>2. UNCHANGED <<now, LastEventID, CheckpointLag>>
    BY <1>5 DEF StoreEvent, gauges
  <2>3. e.id # LastEventID
    BY <1>1, <2>1 DEF GaugeInv, SafePosition, Event, EventIDs, TypeOK
  <2> QED
    BY <2>1, <2>2, <2>3 DEF LagInv, LagIsALowerBound
<1>6. ASSUME ClockTick, UNCHANGED gauges PROVE LagInv'
  <2>1. /\ now' = now + 1 /\ events' = events
        /\ UNCHANGED <<LastEventID, CheckpointLag>>
    BY <1>6 DEF ClockTick, gauges
  <2>2. now \in Int /\ \A e \in events : e.timestamp \in Int
    BY <1>1 DEF TypeOK, Event, Times
  <2> QED
    BY <2>1, <2>2 DEF LagInv, LagIsALowerBound
<1>7. ASSUME NEW n \in Nodes, Refused(n) \/ Acknowledge(n) \/ Elsewhere(n) \/ Stop(n)
      PROVE  UNCHANGED <<events, now>>
  BY <1>1, <1>7, NodeSteps DEF Refused, Refuse, Acknowledge, Elsewhere, Stop, Step
<1>8. ASSUME \/ \E n \in Nodes : WriterTakes(n) /\ UNCHANGED <<vars, gauges>>
             \/ UNCHANGED metricsVars
      PROVE  UNCHANGED <<events, now, LastEventID, CheckpointLag>>
  BY <1>8 DEF metricsVars, writersVars, vars, gauges, db
<1>9. ASSUME NEW n \in Nodes,
             \/ Acknowledge(n) /\ WriteLine(n) /\ UNCHANGED gauges
             \/ Refused(n) \/ Stop(n)
             \/ Elsewhere(n) /\ UNCHANGED <<LastEventID, CheckpointLag>>
      PROVE  UNCHANGED <<LastEventID, CheckpointLag>>
  BY <1>9 DEF gauges, Refused, Stop
<1> QED
  BY <1>1, <1>2, <1>3, <1>4, <1>5, <1>6, <1>7, <1>8, <1>9, ServiceCases

-----------------------------------------------------------------------------
LEMMA CountInit == MetricsInit => CountInv
<1> SUFFICES ASSUME MetricsInit PROVE CountInv
  OBVIOUS
<1>1. Init /\ EventsProcessed = Zero
  BY ServiceInit DEF MetricsInit
<1>2. Lines = {}
  BY <1>1 DEF Init, Lines
<1>3. IsFiniteSet({}) /\ Cardinality({}) = 0
  BY FS_EmptySet
<1> QED
  BY <1>1, <1>2, <1>3 DEF Init, CountInv, NothingSentYet, Zero

(* A step that neither prints nor counts, of no batch that has sent a line.*)
LEMMA CountStep ==
    ASSUME NEW process, Nodes = {process}, CountInv, UNCHANGED <<out, crashes>>,
           EventsProcessed' \in [{"true", "false"} -> Nat],
           EventsProcessed'["false"] = EventsProcessed["false"],
           pc[process] = "send" => sent[process] = 0,
           pc'[process] = "send" => sent'[process] = 0
    PROVE  CountInv'
<1>1. Lines' = Lines
  BY DEF Lines
<1>2. NothingSentYet(process)'
  BY DEF NothingSentYet
<1>3. ~crashes => EventsProcessed["false"] + 0 = Cardinality(Lines)
  BY DEF CountInv
<1>4. \A n \in Nodes : (IF pc'[n] = "send" THEN sent'[n] ELSE 0) = 0
  OBVIOUS
<1> QED
  BY <1>1, <1>2, <1>3, <1>4 DEF CountInv

(* A new line.                                                             *)
LEMMA LineAdded ==
    ASSUME TypeOK, NEW k \in EventIDs, out' = [out EXCEPT ![k] = @ + 1]
    PROVE  Lines' = Lines \cup {<<k, out[k] + 1>>} /\ <<k, out[k] + 1>> \notin Lines
<1>1. out \in [EventIDs -> Nat]
  BY DEF TypeOK
<1>2. \A i : i \in 1..(out[k] + 1) <=> i \in 1..out[k] \/ i = out[k] + 1
  BY <1>1
<1>3. out'[k] = out[k] + 1 /\ \A i \in EventIDs : i # k => out'[i] = out[i]
  BY <1>1
<1>4. ASSUME NEW l \in Lines' PROVE l \in Lines \cup {<<k, out[k] + 1>>}
  <2>1. PICK i \in EventIDs : l \in {i} \X (1..out'[i])
    BY DEF Lines
  <2>2. CASE i # k
    BY <1>3, <2>1, <2>2 DEF Lines
  <2>3. CASE i = k
    BY <1>2, <1>3, <2>1, <2>3 DEF Lines
  <2> QED
    BY <2>2, <2>3
<1>5. ASSUME NEW l \in Lines PROVE l \in Lines'
  <2>1. PICK i \in EventIDs : l \in {i} \X (1..out[i])
    BY DEF Lines
  <2>2. l \in {i} \X (1..out'[i])
    BY <1>2, <1>3, <2>1
  <2> QED
    BY <2>2 DEF Lines
<1>6. <<k, out[k] + 1>> \in Lines'
  <2>1. <<k, out[k] + 1>> \in {k} \X (1..out'[k])
    BY <1>1, <1>3
  <2> QED
    BY <2>1 DEF Lines
<1>7. <<k, out[k] + 1>> \notin Lines
  <2>1. ASSUME NEW i \in EventIDs, <<k, out[k] + 1>> \in {i} \X (1..out[i])
        PROVE  FALSE
    BY <1>1, <2>1
  <2> QED
    BY <2>1 DEF Lines
<1> QED
  BY <1>4, <1>5, <1>6, <1>7

LEMMA CountNext ==
    ASSUME NEW process, Nodes = {process}
    PROVE  TypeOK /\ CountInv /\ [MetricsNext]_metricsVars => CountInv'
<1> SUFFICES ASSUME TypeOK, CountInv, [MetricsNext]_metricsVars PROVE CountInv'
  OBVIOUS
<1>1. TypeOK'
  BY ServiceStep, NextType
<1>2. /\ EventsProcessed \in [{"true", "false"} -> Nat]
      /\ NothingSentYet(process)
      /\ IsFiniteSet(Lines) /\ Cardinality(Lines) \in Nat
  BY FS_CardinalityType DEF CountInv
<1>3. /\ sent[process] \in Nat
      /\ ~crashes /\ pc[process] = "send" =>
            EventsProcessed["false"] + sent[process] = Cardinality(Lines)
  BY DEF TypeOK, CountInv
<1>4. ASSUME WriterTakes(process), UNCHANGED <<vars, gauges>> PROVE CountInv'
  <2>1. /\ pc[process] = "send" /\ ~LoopOver(process)
        /\ UNCHANGED <<out, pc, sent, EventsProcessed, crashes>>
    BY <1>4 DEF WriterTakes, vars, local, gauges
  <2>2. sent[process] = 0
    BY <1>2, <2>1 DEF NothingSentYet
  <2> QED
    BY <1>2, <2>1, <2>2, CountStep
<1>5. ASSUME Advance(process), AdvanceCheckpoint(process) PROVE CountInv'
  <2>1. /\ pc[process] = "send" /\ pc'[process] = "save"
        /\ sent[process] = Len(batch[process])
        /\ UNCHANGED <<out, crashes>>
    BY <1>5 DEF Advance, AdvanceCheckpoint, TypeOK
  <2>2. EventsProcessed' =
            [EventsProcessed EXCEPT !["false"] = @ + sent[process]]
    BY <1>5, <2>1 DEF Advance, Counted
  <2>3. Lines' = Lines
    BY <2>1 DEF Lines
  <2>4. EventsProcessed' \in [{"true", "false"} -> Nat]
    BY <1>2, <1>3, <2>2
  <2>5. ~crashes => EventsProcessed'["false"] = Cardinality(Lines)
    BY <1>2, <1>3, <2>1, <2>2
  <2>6. ~crashes => EventsProcessed'["false"] + 0 = Cardinality(Lines)
    BY <2>4, <2>5
  <2> QED
    BY <1>2, <2>1, <2>3, <2>4, <2>6 DEF CountInv, NothingSentYet
<1>6. ASSUME Acknowledge(process), WriteLine(process), UNCHANGED gauges
      PROVE  CountInv'
  <2> DEFINE k == batch[process][sent[process] + 1].id
  <2>1. /\ pc[process] = "send" /\ LoopOver(process) /\ ~firstErr[process]
        /\ sent[process] < Len(batch[process])
        /\ sent' = [sent EXCEPT ![process] = @ + 1]
        /\ out' = [out EXCEPT ![k] = @ + 1]
        /\ UNCHANGED <<pc, turn, firstErr, EventsProcessed, crashes>>
    BY <1>6 DEF Acknowledge, WriteLine, fan, gauges
  <2>2. sent'[process] = sent[process] + 1
    BY <2>1 DEF TypeOK
  <2>3. k \in EventIDs
    <3>1. batch[process] \in Seq(Event) /\ Len(batch[process]) \in Nat
      BY LenProperties DEF TypeOK
    <3>2. batch[process][sent[process] + 1] \in Event
      BY <1>3, <2>1, <3>1, ElementOfSeq
    <3> QED
      BY <3>2 DEF Event
  <2> HIDE DEF k
  <2>4. Lines' = Lines \cup {<<k, out[k] + 1>>} /\ <<k, out[k] + 1>> \notin Lines
    BY <2>1, <2>3, LineAdded
  <2>5. IsFiniteSet(Lines') /\ Cardinality(Lines') = Cardinality(Lines) + 1
    BY <1>2, <2>4, FS_AddElement
  <2>6. ~crashes =>
            EventsProcessed["false"] + (sent[process] + 1) = Cardinality(Lines')
    <3>1. EventsProcessed["false"] \in Nat
      BY <1>2
    <3> QED
      BY <1>2, <1>3, <2>1, <2>5, <3>1
  <2>7. NothingSentYet(process)'
    BY <2>1 DEF NothingSentYet, LoopOver
  <2> QED
    BY <1>2, <2>1, <2>2, <2>5, <2>6, <2>7 DEF CountInv
<1>7. ASSUME Refused(process) PROVE CountInv'
  <2>1. /\ pc[process] = "send" /\ firstErr[process]
        /\ LeavePoll(process) /\ UNCHANGED <<out, crashes>>
        /\ EventsProcessed' = [EventsProcessed EXCEPT !["true"] = @ + Len(batch[process])]
    BY <1>7 DEF Refused, Refuse, SendFails, Counted
  <2>2. sent[process] = 0
    BY <1>2, <2>1 DEF NothingSentYet
  <2>3. pc'[process] # "send"
    BY <2>1, LeaveEffect
  <2>4. Len(batch[process]) \in Nat
    BY LenProperties DEF TypeOK
  <2>5. /\ EventsProcessed' \in [{"true", "false"} -> Nat]
        /\ EventsProcessed'["false"] = EventsProcessed["false"]
    BY <1>2, <2>1, <2>4
  <2> QED
    BY <2>1, <2>2, <2>3, <2>5, CountStep
<1>8. ASSUME Elsewhere(process), UNCHANGED <<EventsProcessed, crashes>>
      PROVE  CountInv'
  <2>1. pc[process] # "send" /\ Step(process)
    BY <1>8 DEF Elsewhere
  <2>2. out' = out
    BY <2>1 DEF Step, CallRun, LoadCheckpoint, LoadFails, Tick, Return, BeginPoll,
       FetchBatch, FetchEmpty, FetchFails, WriteLine, LineLost, SendFails,
       AdvanceCheckpoint, SaveCheckpoint, SaveFails
  <2>3. pc'[process] = "send" => sent'[process] = 0
    <3>1. CASE LeaveRun(process) \/ LeavePoll(process)
      BY <3>1, LeaveEffect
    <3>2. CASE ~(LeaveRun(process) \/ LeavePoll(process))
      BY <2>1, <3>2 DEF Step, CallRun, LoadCheckpoint, LoadFails, Tick, Return,
         BeginPoll, FetchBatch, FetchEmpty, FetchFails, WriteLine, LineLost,
         SendFails, AdvanceCheckpoint, SaveCheckpoint, SaveFails, TypeOK
    <3> QED
      BY <3>1, <3>2
  <2> QED
    BY <1>2, <1>8, <2>1, <2>2, <2>3, CountStep
<1>9. ASSUME Die(process) PROVE CountInv'
  <2>1. /\ crashes' /\ EventsProcessed' = Zero
        /\ pc'[process] = "idle" /\ out' = out
    BY <1>9 DEF Die, Crash, LeaveRun, TypeOK
  <2>2. Lines' = Lines
    BY <2>1 DEF Lines
  <2> QED
    BY <1>2, <2>1, <2>2 DEF CountInv, NothingSentYet, Zero
<1>10. ASSUME UNCHANGED <<out, pc, sent, fan, EventsProcessed, crashes>>
       PROVE  CountInv'
  BY <1>10 DEF CountInv, Lines, NothingSentYet, LoopOver, fan
<1>11. ASSUME \/ Stop(process)
              \/ (StoreEvent \/ ClockTick) /\ UNCHANGED <<fan, gauges>>
              \/ UNCHANGED metricsVars
       PROVE  UNCHANGED <<out, pc, sent, fan, EventsProcessed, crashes>>
  BY <1>11 DEF Stop, Cancel, StoreEvent, ClockTick, local, gauges, metricsVars,
     writersVars, vars
<1> QED
  BY <1>4, <1>5, <1>6, <1>7, <1>8, <1>9, <1>10, <1>11, ServiceCases

(***************************************************************************)
(* What /metrics shows of a single process is true, for every bound, any   *)
(* number of writers and whatever fails: last_event_id never runs ahead of *)
(* stdout nor behind the row, the lag never exaggerates, and without a     *)
(* crash the counter of processed events is the number of lines.           *)
(***************************************************************************)
THEOREM MetricsTellTheTruth ==
    ASSUME NEW process, Nodes = {process},
           IdsInOrder, TimesInOrder, ~StdoutMayFail
    PROVE  MetricsSpec => []MetricsAreTrue
<1>1. \A n, m \in Nodes : n = m
  OBVIOUS
<1>2. IInv /\ [Next]_vars => IInv'
  BY NextInv
<1>3. SoloInv /\ [Next]_vars => SoloInv'
  BY <1>1, SoloNext DEF Solo
<1>4. /\ IInv /\ IInv' /\ SoloInv /\ SoloInv'
      /\ GaugeInv /\ [MetricsNext]_metricsVars
      => GaugeInv'
  BY <1>1, GaugeNext
<1>5. IInv /\ GaugeInv /\ LagInv /\ [MetricsNext]_metricsVars => LagInv'
  BY LagNext
<1>6. IInv /\ CountInv /\ [MetricsNext]_metricsVars => CountInv'
  BY CountNext DEF IInv
<1>7. GaugeInv => LastEventIDIsTrue
  BY DEF GaugeInv, SafePosition, LastEventIDIsTrue
<1>8. CountInv => CounterIsTheOutput
  <2>1. SUFFICES ASSUME CountInv, ~crashes, pc[process] # "send"
                 PROVE  EventsProcessed["false"] = Cardinality(Lines)
    BY DEF CounterIsTheOutput
  <2>2. EventsProcessed["false"] + 0 = Cardinality(Lines)
    BY <2>1 DEF CountInv
  <2>3. EventsProcessed["false"] \in Nat
    BY <2>1 DEF CountInv
  <2> QED
    BY <2>2, <2>3
<1>9. GaugeInv /\ LagInv /\ CountInv => MetricsAreTrue
  BY <1>7, <1>8 DEF LagInv, MetricsAreTrue
<1> QED
  BY <1>2, <1>3, <1>4, <1>5, <1>6, <1>9, ServiceInit, ServiceStep, InitInv,
     SoloInit, GaugeInit, LagInit, CountInit, PTL DEF MetricsSpec
=============================================================================
