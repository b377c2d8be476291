------------------------ MODULE SilverTransformProofs ------------------------
(* Theorems about SilverTransform, for every value of its constants.       *)
EXTENDS SilverTransform, TLAPS

\* What the two records are made of, for the fields the proofs look at.
LEMMA ReadingFacts ==
    ASSUME NEW r \in Readings
    PROVE  /\ r.event_id \in EventIds \union {NoId}
           /\ r.event_time \in Nat
           /\ r.failed \subseteq CriticalRules \ {FutureRule}
BY ReadingsAssumption

LEMMA ConstantFacts ==
    /\ WatermarkDelay \in Nat /\ WatermarkDelay > 0
    /\ FutureRule \in CriticalRules /\ FirstHorizon \in Nat /\ LastHorizon \in Nat
    /\ MaxLateness \in Nat /\ MaxRuns \in Nat /\ MaxBackfills \in Nat /\ MaxReplays \in Nat
BY ConstantsAssumption

LEMMA RunTyped == ASSUME TypeOK, NEW w \in Writers PROVE RunOf(w) \in 0..run
BY ConstantFacts DEF TypeOK, RunOf, ReplayRun

\* The rows a batch adds to the two tables name rows of Bronze.
LEMMA UpdatesTyped ==
    ASSUME TypeOK, NEW w \in Writers
    PROVE  /\ Prepared(w) \subseteq
                [event_id : EventIds \union {NoId}, pos : 1..Len(bronze), run : 0..run]
           /\ QuarantineRows(w) \subseteq
                [pos : 1..Len(bronze), rule : CriticalRules, run : 0..run]
<1>1. rows[w] \subseteq 1..Len(bronze)
  BY DEF TypeOK
<1>2. \A p \in 1..Len(bronze) : EventId(p) \in EventIds \union {NoId}
  BY ReadingFacts DEF TypeOK, EventId
<1>3. Newest(Valid(w)) \subseteq rows[w] /\ Rejected(w) \subseteq rows[w]
  BY DEF Newest, Valid, Rejected
<1>4. RunOf(w) \in 0..run
  BY RunTyped
<1>5. Prepared(w) \subseteq
         [event_id : EventIds \union {NoId}, pos : 1..Len(bronze), run : 0..run]
  BY <1>1, <1>2, <1>3, <1>4 DEF Prepared
<1>6. QuarantineRows(w) \subseteq
         [pos : 1..Len(bronze), rule : CriticalRules, run : 0..run]
  BY <1>1, <1>3, <1>4 DEF QuarantineRows
<1> QED BY <1>5, <1>6

\* The watermark never goes back, and only ever reaches what a row read carries it to.
LEMMA WatermarkMoves ==
    ASSUME TypeOK, NEW w \in WatermarkAfter(Batch)
    PROVE  /\ w \in Nat /\ wm <= w
           /\ \/ w = wm
              \/ \E p \in Batch : Timed(bronze[p]) /\ w + WatermarkDelay = bronze[p].event_time
<1>1. Batch \subseteq 1..Len(bronze)
  BY DEF TypeOK, Batch
<1>2. \A p \in Batch : bronze[p].event_time \in Nat
  BY <1>1, ReadingFacts DEF TypeOK
<1>3. w = wm \/ \E p \in Batch : Timed(bronze[p]) /\ w = bronze[p].event_time - WatermarkDelay
  BY DEF WatermarkAfter, Highest
<1>4. w >= wm
  BY DEF WatermarkAfter, Highest
<1>5. wm \in Nat
  BY DEF TypeOK
<1>6. CASE w = wm
  BY <1>5, <1>6
<1>7. CASE \E p \in Batch : Timed(bronze[p]) /\ w = bronze[p].event_time - WatermarkDelay
  <2>1. PICK p \in Batch : Timed(bronze[p]) /\ w = bronze[p].event_time - WatermarkDelay
    BY <1>7
  <2>2. w \in Nat /\ w + WatermarkDelay = bronze[p].event_time
    BY <1>2, <1>4, <1>5, <2>1, ConstantFacts
  <2> QED BY <1>4, <1>5, <2>1, <2>2
<1> QED BY <1>3, <1>6, <1>7

LEMMA StateTyped ==
    ASSUME TypeOK
    PROVE  StateAfter(rows["stream"]) \subseteq
               [event_id : EventIds \union {NoId}, expires : Nat]
<1>1. \A p \in rows["stream"] :
        bronze[p].event_time \in Nat /\ EventId(p) \in EventIds \union {NoId}
  BY ReadingFacts DEF TypeOK, Writers, EventId
<1>2. \A p \in rows["stream"] : Entry(p) \in [event_id : EventIds \union {NoId}, expires : Nat]
  BY <1>1, ConstantFacts DEF Entry
<1> QED BY <1>2 DEF StateAfter, TypeOK
-----------------------------------------------------------------------------
LEMMA TypeInit == Init => TypeOK
<1> SUFFICES ASSUME Init PROVE TypeOK
  OBVIOUS
<1>1. bronze \in Seq(Readings) /\ Len(bronze) = 0
  BY DEF Init
<1>2. pc \in [Writers -> StreamPhases] /\ pc["replay"] \in ReplayPhases
  BY DEF Init, Writers, StreamPhases, ReplayPhases
<1>3. rows \in [Writers -> SUBSET (1..Len(bronze))]
  BY DEF Init
<1>4. run \in 0..MaxRuns /\ backfills \in 0..MaxBackfills /\ replays \in 0..MaxReplays
  BY ConstantFacts DEF Init
<1>5. planned \in BOOLEAN
  BY DEF Init
<1>6. /\ origin = startOff /\ startOff = endOff /\ endOff <= Len(bronze)
      /\ batchId \in Nat /\ startOff \in Nat /\ endOff \in Nat /\ lateWm \in Nat /\ wm \in Nat
      /\ expired \in 0..Len(bronze)
  BY <1>1 DEF Init
<1>7. seen = {} /\ silver = {} /\ quarantine = {}
  BY DEF Init
<1>8. horizon \in Nat /\ judged \in [Writers -> Nat]
  BY ConstantFacts DEF Init
<1> QED BY <1>1, <1>2, <1>3, <1>4, <1>5, <1>6, <1>7, <1>8 DEF TypeOK

LEMMA TypeStep == TypeOK /\ [Next]_vars => TypeOK'
<1> SUFFICES ASSUME TypeOK, [Next]_vars PROVE TypeOK'
  OBVIOUS
<1> USE DEF Writers, StreamPhases, ReplayPhases, log, clock, checkpoint, tables, bounds
<1>1. ASSUME NEW r \in Readings, Arrive(r) PROVE TypeOK'
  <2>1. bronze' \in Seq(Readings) /\ Len(bronze') = Len(bronze) + 1
    BY <1>1 DEF Arrive, TypeOK
  <2>2. Len(bronze) \in Nat
    BY DEF TypeOK
  <2>3. 1..Len(bronze) \subseteq 1..Len(bronze')
    BY <2>1, <2>2
  <2>4. /\ silver' \subseteq
             [event_id : EventIds \union {NoId}, pos : 1..Len(bronze'), run : 0..run']
        /\ quarantine' \subseteq [pos : 1..Len(bronze'), rule : CriticalRules, run : 0..run']
        /\ rows' \in [Writers -> SUBSET (1..Len(bronze'))]
    BY <1>1, <2>3 DEF Arrive, TypeOK
  <2> QED BY <1>1, <2>1, <2>2, <2>4 DEF Arrive, TypeOK, NoCheckpoint
<1>2. CASE Start
  BY <1>2, ConstantFacts DEF Start, TypeOK, NoCheckpoint
<1>3. CASE PlanBatch
  <2>1. /\ origin' \in Nat /\ startOff' \in Nat /\ origin' <= startOff'
        /\ startOff' <= Len(bronze)
    BY <1>3 DEF PlanBatch, Beginning, Position, TypeOK
  <2>2. endOff' \in Nat /\ startOff' <= endOff' /\ endOff' <= Len(bronze)
    BY <1>3, <2>1 DEF PlanBatch, Beginning, Position, TypeOK
  <2>3. planned' = TRUE /\ pc' = [pc EXCEPT !["stream"] = "planned"]
    BY <1>3 DEF PlanBatch
  <2> QED BY <1>3, <2>1, <2>2, <2>3 DEF PlanBatch, TypeOK, NoCheckpoint
<1>4. CASE ExecuteBatch
  <2>1. PICK kept \in Deduplicated(Batch) :
            /\ rows' = [rows EXCEPT !["stream"] = kept]
            /\ pc' = [pc EXCEPT !["stream"] = IF kept = {} THEN "commit" ELSE "split"]
    BY <1>4 DEF ExecuteBatch
  <2>2. kept \subseteq 1..Len(bronze)
    BY <2>1 DEF Deduplicated, Batch, TypeOK
  <2>3. rows' \in [Writers -> SUBSET (1..Len(bronze))]
    BY <2>1, <2>2 DEF TypeOK
  <2>4. pc' \in [Writers -> StreamPhases] /\ pc'["replay"] = pc["replay"]
    BY <2>1 DEF TypeOK
  <2>5. judged' \in [Writers -> Nat]
    BY <1>4 DEF ExecuteBatch, TypeOK
  <2> QED BY <1>4, <2>3, <2>4, <2>5 DEF ExecuteBatch, TypeOK, NoCheckpoint
<1>5. CASE StartReplay
  <2>1. PICK ids : rows' = [rows EXCEPT !["replay"] = ReplayRows(ids)]
    BY <1>5 DEF StartReplay
  <2>2. ReplayRows(ids) \subseteq 1..Len(bronze)
    BY DEF ReplayRows
  <2>3. rows' \in [Writers -> SUBSET (1..Len(bronze))]
    BY <2>1, <2>2 DEF TypeOK
  <2>4. pc' \in [Writers -> StreamPhases] /\ pc'["replay"] \in ReplayPhases
    BY <1>5 DEF StartReplay, TypeOK
  <2>5. replays' \in 0..MaxReplays
    BY <1>5, ConstantFacts DEF StartReplay, TypeOK
  <2>6. judged' \in [Writers -> Nat]
    BY <1>5 DEF StartReplay, TypeOK
  <2> QED BY <1>5, <2>3, <2>4, <2>5, <2>6 DEF StartReplay, TypeOK, NoCheckpoint
<1>6. ASSUME NEW w \in Writers, AppendQuarantine(w) PROVE TypeOK'
  BY <1>6, UpdatesTyped DEF AppendQuarantine, TypeOK, NoCheckpoint
<1>7. ASSUME NEW w \in Writers, MergeSilver(w) PROVE TypeOK'
  <2>1. silver' \subseteq silver \union Prepared(w)
    BY <1>7 DEF MergeSilver, MergeInto
  <2> QED BY <1>7, <2>1, UpdatesTyped DEF MergeSilver, TypeOK, NoCheckpoint
<1>8. ASSUME NEW w \in Writers, RecordCounters(w) PROVE TypeOK'
  BY <1>8 DEF RecordCounters, TypeOK, NoCheckpoint
<1>9. CASE CommitBatch
  <2>1. planned' \in BOOLEAN
    BY <1>9 DEF CommitBatch
  <2>2. /\ startOff' = endOff' /\ endOff' = endOff /\ bronze' = bronze /\ run' = run
        /\ batchId' \in Nat /\ batchId' # 0 /\ startOff' \in Nat /\ endOff' \in Nat
        /\ origin' = origin /\ origin' \in Nat /\ origin' <= startOff'
        /\ endOff' <= Len(bronze') /\ lateWm' \in Nat /\ wm' \in Nat
    BY <1>9, WatermarkMoves DEF CommitBatch, TypeOK
  <2>3. seen' \subseteq [event_id : EventIds \union {NoId}, expires : Nat]
    BY <1>9, StateTyped DEF CommitBatch
  <2>4. pc' \in [Writers -> StreamPhases] /\ pc'["replay"] = pc["replay"]
    BY <1>9 DEF CommitBatch, TypeOK
  <2>5. rows' \in [Writers -> SUBSET (1..Len(bronze))]
    BY <1>9 DEF CommitBatch, TypeOK
  <2>6. UNCHANGED <<log, clock, silver, quarantine, backfills, replays>>
    BY <1>9 DEF CommitBatch
  <2> QED BY <2>1, <2>2, <2>3, <2>4, <2>5, <2>6 DEF TypeOK, NoCheckpoint
<1>10. ASSUME NEW w \in Writers, Crash(w) PROVE TypeOK'
  BY <1>10 DEF Crash, TypeOK, NoCheckpoint
<1>11. CASE DeleteCheckpoint
  <2>1. planned' \in BOOLEAN
    BY <1>11 DEF DeleteCheckpoint
  <2>2. /\ origin' = startOff' /\ startOff' = endOff' /\ endOff' <= Len(bronze)
        /\ batchId' \in Nat
        /\ startOff' \in Nat /\ endOff' \in Nat /\ lateWm' \in Nat /\ wm' \in Nat
        /\ backfills' \in 0..MaxBackfills
    BY <1>11, ConstantFacts DEF DeleteCheckpoint, TypeOK
  <2>3. seen' = {} /\ UNCHANGED <<log, clock, silver, quarantine, pc, rows, run, replays>>
    BY <1>11 DEF DeleteCheckpoint
  <2> QED BY <2>1, <2>2, <2>3 DEF TypeOK
<1>12. CASE Expire
  BY <1>12 DEF Expire, TypeOK, NoCheckpoint
<1>13. CASE TimePasses
  BY <1>13 DEF TimePasses, TypeOK, NoCheckpoint
<1>14. CASE Stranded
  BY <1>14 DEF Stranded, TypeOK, NoCheckpoint
<1>15. CASE UNCHANGED vars
  BY <1>15 DEF vars, TypeOK, NoCheckpoint
<1> QED
  BY <1>1, <1>2, <1>3, <1>4, <1>5, <1>6, <1>7, <1>8, <1>9, <1>10, <1>11, <1>12,
     <1>13, <1>14, <1>15 DEF Next, WriteBatch

\* The variables keep their types and the checkpoint its offsets in order, in every
\* behaviour of the job and of the replay beside it.
THEOREM TypeCorrect == Spec => []TypeOK
BY TypeInit, TypeStep, PTL DEF Spec
-----------------------------------------------------------------------------
(* One row per event.                                                      *)

LEMMA OneRowStep == TypeOK /\ OneRowPerEvent /\ [Next]_vars => OneRowPerEvent'
<1> SUFFICES ASSUME TypeOK, OneRowPerEvent, [Next]_vars PROVE OneRowPerEvent'
  OBVIOUS
<1>1. ASSUME NEW w \in Writers, MergeSilver(w) PROVE OneRowPerEvent'
  <2> DEFINE updates == Prepared(w)
  <2>1. silver' = {t \in silver : \A u \in updates : u.event_id # t.event_id} \union updates
    BY <1>1 DEF MergeSilver, MergeInto
  <2>2. rows[w] \subseteq Int
    BY DEF TypeOK
  <2>3. \A p, q \in Newest(Valid(w)) : EventId(p) = EventId(q) => p = q
    BY <2>2 DEF Newest, Valid
  <2>4. \A s, t \in updates : s.event_id = t.event_id => s = t
    BY <2>3 DEF Prepared
  <2> QED BY <2>1, <2>4 DEF OneRowPerEvent
<1>2. CASE UNCHANGED silver
  BY <1>2 DEF OneRowPerEvent
<1>3. UNCHANGED silver \/ \E w \in Writers : MergeSilver(w)
  BY DEF Next, WriteBatch, Arrive, Start, Expire, TimePasses, Stranded, PlanBatch,
         ExecuteBatch, StartReplay, AppendQuarantine, RecordCounters, CommitBatch, Crash,
         DeleteCheckpoint, vars, tables
<1> QED BY <1>1, <1>2, <1>3

\* Silver never holds an event twice, whatever fails, is run again, is replayed or is
\* backfilled: the MERGE replaces what it matches, and its updates are deduplicated.
THEOREM OneRowPerEventHolds == Spec => []OneRowPerEvent
<1>1. Init => OneRowPerEvent
  BY DEF Init, OneRowPerEvent
<1> QED BY <1>1, OneRowStep, TypeCorrect, PTL DEF Spec
-----------------------------------------------------------------------------
(* The tables and the log only grow, in the events they hold.              *)

LEMMA MergeKeepsIds ==
    ASSUME NEW table, NEW updates
    PROVE  {t.event_id : t \in MergeInto(table, updates)}
             = {t.event_id : t \in table} \union {u.event_id : u \in updates}
BY DEF MergeInto

LEMMA LogGrows ==
    ASSUME TypeOK, [Next]_vars
    PROVE  /\ Len(bronze) \in Nat /\ Len(bronze') \in Nat /\ Len(bronze) <= Len(bronze')
           /\ \A p \in 1..Len(bronze) : bronze'[p] = bronze[p]
<1>1. CASE UNCHANGED bronze
  BY <1>1 DEF TypeOK
<1>2. ASSUME NEW r \in Readings, Arrive(r)
      PROVE  /\ Len(bronze) \in Nat /\ Len(bronze') \in Nat /\ Len(bronze) <= Len(bronze')
             /\ \A p \in 1..Len(bronze) : bronze'[p] = bronze[p]
  BY <1>2 DEF Arrive, TypeOK
<1>3. UNCHANGED bronze \/ \E r \in Readings : Arrive(r)
  BY DEF Next, WriteBatch, Start, Expire, TimePasses, Stranded, PlanBatch, ExecuteBatch,
         StartReplay, AppendQuarantine, MergeSilver, RecordCounters, CommitBatch, Crash,
         DeleteCheckpoint, vars, log, clock
<1> QED BY <1>1, <1>2, <1>3

LEMMA TablesGrow ==
    ASSUME TypeOK, [Next]_vars
    PROVE  /\ SilverIds \subseteq SilverIds'
           /\ QuarantineIds \subseteq QuarantineIds'
           /\ Decided \subseteq Decided'
<1>1. SilverIds \subseteq SilverIds'
  <2>1. CASE UNCHANGED silver
    BY <2>1 DEF SilverIds
  <2>2. ASSUME NEW w \in Writers, MergeSilver(w) PROVE SilverIds \subseteq SilverIds'
    BY <2>2, MergeKeepsIds DEF MergeSilver, SilverIds
  <2>3. UNCHANGED silver \/ \E w \in Writers : MergeSilver(w)
    BY DEF Next, WriteBatch, Arrive, Start, Expire, TimePasses, Stranded, PlanBatch,
           ExecuteBatch, StartReplay, AppendQuarantine, RecordCounters, CommitBatch,
           Crash, DeleteCheckpoint, vars, tables
  <2> QED BY <2>1, <2>2, <2>3
<1>2. QuarantineIds \subseteq QuarantineIds'
  <2>1. quarantine \subseteq quarantine'
    BY DEF Next, WriteBatch, Arrive, Start, Expire, TimePasses, Stranded, PlanBatch,
           ExecuteBatch, StartReplay, AppendQuarantine, MergeSilver, RecordCounters,
           CommitBatch, Crash, DeleteCheckpoint, vars, tables
  <2>2. \A q \in quarantine : q.pos \in 1..Len(bronze)
    BY DEF TypeOK
  <2> QED BY <2>1, <2>2, LogGrows DEF QuarantineIds, EventId
<1> QED BY <1>1, <1>2 DEF Decided

-----------------------------------------------------------------------------
(* The parts of the inductive invariant, one lemma each.                   *)

\* What the actions other than the stream's own leave alone.
StreamAlone ==
    UNCHANGED <<checkpoint, judged["stream"], pc["stream"], rows["stream"]>>

LEMMA OthersLeaveStreamAlone ==
    ASSUME TypeOK
    PROVE  /\ \A r \in Readings : Arrive(r) => StreamAlone
           /\ Expire \/ TimePasses => StreamAlone
           /\ StartReplay => StreamAlone
           /\ WriteBatch("replay") => StreamAlone
           /\ Crash("replay") => StreamAlone
           /\ UNCHANGED vars => StreamAlone
BY DEF TypeOK, StreamAlone, Arrive, Expire, TimePasses, StartReplay, WriteBatch,
       AppendQuarantine, MergeSilver, RecordCounters, Crash, vars, Writers, log, clock

LEMMA NextSplit ==
    ASSUME TypeOK, [Next]_vars
    PROVE  \/ StreamAlone
           \/ Start \/ PlanBatch \/ ExecuteBatch \/ Stranded \/ CommitBatch
           \/ DeleteCheckpoint
           \/ WriteBatch("stream") \/ Crash("stream")
BY OthersLeaveStreamAlone DEF Next, Writers

LEMMA BatchInLog ==
    ASSUME TypeOK
    PROVE  /\ Batch \subseteq 1..Len(bronze) /\ Consumed \subseteq 1..Len(bronze)
           /\ \A p \in 1..Len(bronze) : bronze[p] \in Readings /\ bronze[p].event_time \in Nat
           /\ rows["stream"] \subseteq 1..Len(bronze)
BY ReadingFacts DEF TypeOK, Batch, Consumed, Writers

LEMMA BatchRowsStep == TypeOK /\ BatchRows /\ [Next]_vars => BatchRows'
<1> SUFFICES ASSUME TypeOK, BatchRows, [Next]_vars PROVE BatchRows'
  OBVIOUS
<1>0. \A p \in 1..Len(bronze) : bronze'[p] = bronze[p]
  BY LogGrows
<1>1. CASE StreamAlone
  <2>1. InBatch' = InBatch /\ Batch' = Batch /\ rows'["stream"] = rows["stream"]
    BY <1>1 DEF StreamAlone, InBatch, Batch, checkpoint
  <2>2. \A p \in 1..Len(bronze) : EventId(p)' = EventId(p) /\ Fresh(p)' = Fresh(p)
    BY <1>0, <1>1 DEF StreamAlone, checkpoint, EventId, Fresh, Late, Timed
  <2> QED BY <2>1, <2>2, BatchInLog DEF BatchRows
<1>2. CASE \/ Start \/ PlanBatch \/ Stranded \/ CommitBatch \/ DeleteCheckpoint
          \/ Crash("stream")
  <2>1. ~InBatch'
    BY <1>2 DEF Start, PlanBatch, Stranded, CommitBatch, DeleteCheckpoint, Crash, InBatch,
                TypeOK, Writers
  <2> QED BY <2>1 DEF BatchRows
<1>3. CASE ExecuteBatch
  <2>1. PICK kept \in Deduplicated(Batch) : rows' = [rows EXCEPT !["stream"] = kept]
    BY <1>3 DEF ExecuteBatch
  <2>2. rows'["stream"] = kept /\ UNCHANGED <<bronze, checkpoint>>
    BY <1>3, <2>1 DEF ExecuteBatch, TypeOK, Writers, log, clock
  <2>3. /\ kept \subseteq Batch
        /\ \A p, q \in kept : EventId(p) = EventId(q) => p = q
        /\ \A p \in Batch : Fresh(p) => \E q \in kept : EventId(q) = EventId(p)
    BY <2>1 DEF Deduplicated
  <2>4. Batch' = Batch
    BY <2>2 DEF checkpoint, Batch
  <2>5. \A p \in Batch : EventId(p)' = EventId(p) /\ Fresh(p)' = Fresh(p)
    BY <2>2 DEF checkpoint, EventId, Fresh, Late, Timed
  <2> QED BY <2>2, <2>3, <2>4, <2>5 DEF BatchRows
<1>4. CASE WriteBatch("stream")
  <2>1. InBatch /\ UNCHANGED <<bronze, checkpoint>> /\ rows'["stream"] = rows["stream"]
    BY <1>4 DEF WriteBatch, AppendQuarantine, MergeSilver, RecordCounters, InBatch,
                TypeOK, Writers, log, clock
  <2>2. Batch' = Batch
    BY <2>1 DEF checkpoint, Batch
  <2>3. \A p \in Batch : EventId(p)' = EventId(p) /\ Fresh(p)' = Fresh(p)
    BY <2>1 DEF checkpoint, EventId, Fresh, Late, Timed
  <2> QED BY <2>1, <2>2, <2>3 DEF BatchRows
<1> QED BY <1>1, <1>2, <1>3, <1>4, NextSplit

LEMMA BatchDecidedStep ==
    TypeOK /\ BatchRows /\ BatchDecided /\ [Next]_vars => BatchDecided'
<1> SUFFICES ASSUME TypeOK, BatchRows, BatchDecided, [Next]_vars PROVE BatchDecided'
  OBVIOUS
<1> DEFINE ps == rows["stream"]
<1>0. /\ \A p \in ps : bronze'[p] = bronze[p]
      /\ SilverIds \subseteq SilverIds' /\ QuarantineIds \subseteq QuarantineIds'
  BY LogGrows, TablesGrow, BatchInLog
<1>1. CASE StreamAlone
  <2>1. pc'["stream"] = pc["stream"] /\ rows'["stream"] = ps
        /\ judged'["stream"] = judged["stream"]
    BY <1>1 DEF StreamAlone
  <2> QED BY <1>0, <2>1 DEF BatchDecided, Rejected, Valid, FailedRules, EventId
<1>2. CASE \/ Start \/ PlanBatch \/ Stranded \/ CommitBatch \/ DeleteCheckpoint
          \/ Crash("stream")
  BY <1>2 DEF BatchDecided, Start, PlanBatch, Stranded, DeleteCheckpoint, CommitBatch,
              Crash, TypeOK, Writers
<1>3. CASE ExecuteBatch
  <2>1. pc'["stream"] = "split" \/ rows'["stream"] = {}
    BY <1>3 DEF ExecuteBatch, TypeOK, Writers
  <2> QED BY <2>1 DEF BatchDecided, Rejected, Valid
<1>4. CASE AppendQuarantine("stream")
  <2>1. pc'["stream"] = "merge" /\ rows'["stream"] = ps
    BY <1>4 DEF AppendQuarantine, TypeOK, Writers
  <2>2. ASSUME NEW p \in Rejected("stream")' PROVE EventId(p)' \in QuarantineIds'
    <3>1. p \in Rejected("stream") /\ bronze' = bronze
      BY <1>4, <2>1 DEF AppendQuarantine, Rejected, FailedRules, log, clock
    <3>2. PICK rule \in FailedRules(bronze[p], judged["stream"]) : TRUE
      BY <3>1 DEF Rejected
    <3>4. bronze[p] \in Readings
      BY <3>1, BatchInLog DEF Rejected
    <3>5. rule \in CriticalRules
      BY <3>2, <3>4, ReadingFacts, ConstantFacts DEF FailedRules
    <3>3. [pos |-> p, rule |-> rule, run |-> RunOf("stream")] \in quarantine'
      BY <1>4, <3>1, <3>2, <3>5 DEF AppendQuarantine, QuarantineRows
    <3> QED BY <3>1, <3>3 DEF QuarantineIds, EventId
  <2> QED BY <2>1, <2>2 DEF BatchDecided
<1>5. CASE MergeSilver("stream")
  <2>1. pc'["stream"] = "record" /\ rows'["stream"] = ps /\ UNCHANGED <<bronze, judged>>
    BY <1>5 DEF MergeSilver, TypeOK, Writers, log, clock
  <2>2. \A p, q \in ps : EventId(p) = EventId(q) => p = q
    BY <1>5 DEF MergeSilver, BatchRows, InBatch
  <2>3. Newest(Valid("stream")) = Valid("stream")
    BY <2>2, BatchInLog DEF Newest, Valid
  <2>4. ASSUME NEW p \in Valid("stream")
        PROVE  EventId(p) \in {u.event_id : u \in Prepared("stream")}
    <3> DEFINE u == [event_id |-> EventId(p), pos |-> p, run |-> RunOf("stream")]
    <3>1. u \in Prepared("stream") /\ u.event_id = EventId(p)
      BY <2>3 DEF Prepared
    <3> HIDE DEF u
    <3> QED BY <3>1
  <2>5. \A p \in Valid("stream") : EventId(p) \in SilverIds'
    BY <1>5, <2>4, MergeKeepsIds DEF MergeSilver, SilverIds
  <2>6. \A p \in Rejected("stream") : EventId(p) \in QuarantineIds
    BY <1>5 DEF MergeSilver, BatchDecided
  <2> QED BY <1>0, <2>1, <2>5, <2>6 DEF BatchDecided, Rejected, Valid, FailedRules, EventId
<1>6. CASE RecordCounters("stream")
  <2>1. /\ pc["stream"] = "record" /\ pc'["stream"] = "commit" /\ rows'["stream"] = ps
        /\ judged' = judged
    BY <1>6 DEF RecordCounters, TypeOK, Writers, clock
  <2> QED BY <1>0, <2>1 DEF BatchDecided, Rejected, Valid, FailedRules, EventId
<1> QED BY <1>1, <1>2, <1>3, <1>4, <1>5, <1>6, NextSplit DEF WriteBatch


\* When a batch commits, all its surviving rows are decided.
LEMMA CommittedRowsDecided ==
    ASSUME BatchDecided, pc["stream"] = "commit"
    PROVE  \A p \in rows["stream"] : EventId(p) \in Decided
BY DEF BatchDecided, Valid, Rejected, Decided

LEMMA SeenChanges ==
    ASSUME TypeOK, [Next]_vars
    PROVE  \/ UNCHANGED <<seen, lateWm, wm>> /\ Consumed' = Consumed
           \/ DeleteCheckpoint
           \/ CommitBatch
<1>1. CASE PlanBatch
  <2>1. UNCHANGED <<seen, lateWm, wm>>
    BY <1>1 DEF PlanBatch
  <2>2. CASE NoCheckpoint
    <3>1. origin' = expired /\ startOff' = expired /\ origin = startOff
      BY <1>1, <2>2 DEF PlanBatch, Beginning, Position, TypeOK
    <3>2. expired \in Int /\ origin \in Int
      BY DEF TypeOK
    <3> QED BY <2>1, <3>1, <3>2 DEF Consumed
  <2>3. CASE ~NoCheckpoint
    BY <1>1, <2>1, <2>3 DEF PlanBatch, Beginning, Position, Consumed
  <2> QED BY <2>2, <2>3
<1>2. \/ UNCHANGED <<seen, lateWm, wm, origin, startOff>>
      \/ PlanBatch \/ DeleteCheckpoint \/ CommitBatch
  BY DEF Next, WriteBatch, Arrive, Start, Expire, TimePasses, Stranded, ExecuteBatch,
         StartReplay, AppendQuarantine, MergeSilver, RecordCounters, Crash, vars, checkpoint
<1> QED BY <1>1, <1>2 DEF Consumed

LEMMA MemoryStep ==
    TypeOK /\ BatchDecided /\ MemoryDecided /\ MemoryExpiry /\ [Next]_vars
        => MemoryDecided' /\ MemoryExpiry'
<1> SUFFICES ASSUME TypeOK, BatchDecided, MemoryDecided, MemoryExpiry, [Next]_vars
             PROVE  MemoryDecided' /\ MemoryExpiry'
  OBVIOUS
<1>1. CASE UNCHANGED <<seen, lateWm, wm>> /\ Consumed' = Consumed
  BY <1>1, TablesGrow DEF MemoryDecided, MemoryExpiry
<1>2. CASE DeleteCheckpoint
  BY <1>2 DEF DeleteCheckpoint, MemoryDecided, MemoryExpiry
<1>3. CASE CommitBatch
  <2>1. seen' \subseteq seen \union {Entry(p) : p \in rows["stream"]}
    BY <1>3 DEF CommitBatch, StateAfter
  <2>2. \A p \in rows["stream"] : EventId(p) \in Decided
    BY <1>3, CommittedRowsDecided DEF CommitBatch
  <2>3. \A p \in rows["stream"] :
          /\ bronze[p] \in Readings
          /\ Entry(p).event_id = EventId(p)
          /\ Entry(p).event_id = bronze[p].event_id
          /\ Entry(p).expires = bronze[p].event_time + WatermarkDelay
    BY BatchInLog DEF Entry, EventId
  <2>4. \A e \in seen' : e.event_id # NoId => e.event_id \in Decided
    BY <2>1, <2>2, <2>3 DEF MemoryDecided
  <2>5. MemoryDecided'
    BY <2>4, TablesGrow DEF MemoryDecided
  <2>6. MemoryExpiry'
    BY <2>1, <2>3 DEF MemoryExpiry
  <2> QED BY <2>5, <2>6
<1> QED BY <1>1, <1>2, <1>3, SeenChanges

LEMMA WatermarkStep == TypeOK /\ WatermarkBehind /\ [Next]_vars => WatermarkBehind'
<1> SUFFICES ASSUME TypeOK, WatermarkBehind, [Next]_vars PROVE WatermarkBehind'
  OBVIOUS
<1>0. \A p \in 1..Len(bronze) : bronze'[p] = bronze[p]
  BY LogGrows
<1>1. CASE UNCHANGED <<seen, lateWm, wm>> /\ Consumed' = Consumed
  <2>1. Consumed' = Consumed
    BY <1>1
  <2> QED BY <1>0, <1>1, <2>1, BatchInLog DEF WatermarkBehind, Timed
<1>2. CASE DeleteCheckpoint
  BY <1>2 DEF DeleteCheckpoint, WatermarkBehind
<1>3. CASE CommitBatch
  <2>1. lateWm' = wm /\ wm' \in WatermarkAfter(Batch) /\ bronze' = bronze
    BY <1>3 DEF CommitBatch, log, clock
  <2>2. Consumed' = Consumed \union Batch
    BY <1>3 DEF CommitBatch, Consumed, Batch, TypeOK
  <2>3. /\ wm' \in Nat /\ wm <= wm'
        /\ \/ wm' = wm
           \/ \E p \in Batch : Timed(bronze[p]) /\ wm' + WatermarkDelay = bronze[p].event_time
    BY <2>1, WatermarkMoves
  <2>4. lateWm' <= wm'
    BY <2>1, <2>3
  <2>5. CASE wm' = wm
    BY <2>1, <2>2, <2>4, <2>5 DEF WatermarkBehind, Timed
  <2>6. CASE \E p \in Batch : Timed(bronze[p]) /\ wm' + WatermarkDelay = bronze[p].event_time
    <3>1. PICK p \in Batch : Timed(bronze[p]) /\ wm' + WatermarkDelay = bronze[p].event_time
      BY <2>6
    <3>2. p \in Consumed' /\ Timed(bronze'[p]) /\ wm' + WatermarkDelay <= bronze'[p].event_time
      BY <2>1, <2>2, <3>1, BatchInLog DEF Timed
    <3> QED BY <2>4, <3>2 DEF WatermarkBehind, Timed
  <2> QED BY <2>3, <2>5, <2>6
<1> QED BY <1>1, <1>2, <1>3, SeenChanges

LEMMA ArrivalStep == TypeOK /\ ArrivalOrder /\ [Next]_vars => ArrivalOrder'
<1> SUFFICES ASSUME TypeOK, ArrivalOrder, [Next]_vars PROVE ArrivalOrder'
  OBVIOUS
<1>1. ASSUME NEW r \in Readings, Arrive(r) PROVE ArrivalOrder'
  <2>1. /\ Len(bronze) \in Nat /\ Len(bronze') = Len(bronze) + 1
        /\ bronze'[Len(bronze) + 1] = r
        /\ \A p \in 1..Len(bronze) : bronze'[p] = bronze[p]
    BY <1>1 DEF Arrive, TypeOK
  <2>2. Honest(r) => \A p \in 1..Len(bronze) :
            Honest(bronze[p]) => bronze[p].event_time <= r.event_time + MaxLateness
    BY <1>1 DEF Arrive
  <2>3. ASSUME NEW q \in 1..Len(bronze'), NEW p \in 1..(q - 1),
               Honest(bronze'[p]), Honest(bronze'[q])
        PROVE  bronze'[p].event_time <= bronze'[q].event_time + MaxLateness
    <3>1. p \in 1..Len(bronze)
      BY <2>1
    <3>2. CASE q \in 1..Len(bronze)
      BY <2>1, <2>3, <3>1, <3>2 DEF ArrivalOrder
    <3>3. CASE q = Len(bronze) + 1
      BY <2>1, <2>2, <2>3, <3>1, <3>3
    <3> QED BY <2>1, <3>2, <3>3
  <2> QED BY <2>3 DEF ArrivalOrder, Honest, Timed
<1>2. CASE UNCHANGED bronze
  BY <1>2 DEF ArrivalOrder, Honest, Timed
<1>3. UNCHANGED bronze \/ \E r \in Readings : Arrive(r)
  BY DEF Next, WriteBatch, Start, Expire, TimePasses, Stranded, PlanBatch, ExecuteBatch,
         StartReplay, AppendQuarantine, MergeSilver, RecordCounters, CommitBatch, Crash,
         DeleteCheckpoint, vars, log, clock
<1> QED BY <1>1, <1>2, <1>3

LEMMA JudgedStep == TypeOK /\ JudgedInTime /\ [Next]_vars => JudgedInTime'
<1> SUFFICES ASSUME TypeOK, JudgedInTime, [Next]_vars PROVE JudgedInTime'
  OBVIOUS
<1>0. /\ \A p \in 1..Len(bronze) : bronze[p] \in Readings /\ bronze[p].event_time \in Nat
      /\ horizon \in Nat /\ judged \in [Writers -> Nat]
      /\ rows \in [Writers -> SUBSET (1..Len(bronze))]
      /\ pc \in [Writers -> StreamPhases]
  BY BatchInLog DEF TypeOK
<1>1. ASSUME NEW r \in Readings, Arrive(r) PROVE JudgedInTime'
  <2>1. /\ Len(bronze) \in Nat /\ Len(bronze') = Len(bronze) + 1
        /\ bronze'[Len(bronze) + 1] = r
        /\ \A p \in 1..Len(bronze) : bronze'[p] = bronze[p]
        /\ r \notin Skewed => r.event_time <= horizon
        /\ UNCHANGED <<horizon, judged, rows>>
    BY <1>1 DEF Arrive, TypeOK, clock
  <2>2. ASSUME NEW p \in 1..Len(bronze'), bronze'[p] \notin Skewed
        PROVE  /\ bronze'[p].event_time <= horizon
               /\ \A w \in Writers : p \in rows[w] => bronze'[p].event_time <= judged[w]
    <3>1. CASE p \in 1..Len(bronze)
      BY <2>1, <2>2, <3>1 DEF JudgedInTime
    <3>2. CASE p = Len(bronze) + 1
      <4>1. \A w \in Writers : p \notin rows[w]
        BY <1>0, <2>1, <3>2
      <4> QED BY <2>1, <2>2, <3>2, <4>1
    <3> QED BY <2>1, <3>1, <3>2
  <2> QED BY <2>1, <2>2 DEF JudgedInTime
<1>2. CASE TimePasses
  <2>1. horizon' \in Nat /\ horizon < horizon' /\ UNCHANGED <<bronze, judged, rows>>
    BY <1>0, <1>2, ConstantFacts DEF TimePasses, log
  <2> QED BY <1>0, <2>1 DEF JudgedInTime
<1>3. ASSUME NEW w \in Writers, judged' = [judged EXCEPT ![w] = horizon],
             \A x \in Writers \ {w} : rows'[x] = rows[x], UNCHANGED <<bronze, horizon>>,
             rows'[w] \subseteq 1..Len(bronze)
      PROVE  JudgedInTime'
  <2>1. judged'[w] = horizon /\ \A x \in Writers \ {w} : judged'[x] = judged[x]
    BY <1>0, <1>3
  <2> QED BY <1>3, <2>1 DEF JudgedInTime
<1>4. CASE ExecuteBatch
  <2>1. PICK kept \in Deduplicated(Batch) : rows' = [rows EXCEPT !["stream"] = kept]
    BY <1>4 DEF ExecuteBatch
  <2>2. kept \subseteq 1..Len(bronze)
    BY <2>1, BatchInLog DEF Deduplicated
  <2>3. /\ judged' = [judged EXCEPT !["stream"] = horizon] /\ UNCHANGED <<bronze, horizon>>
        /\ rows'["stream"] \subseteq 1..Len(bronze)
        /\ \A x \in Writers \ {"stream"} : rows'[x] = rows[x]
    BY <1>0, <1>4, <2>1, <2>2 DEF ExecuteBatch, log, Writers
  <2> QED BY <1>3, <2>3 DEF Writers
<1>5. CASE StartReplay
  <2>1. PICK ids : rows' = [rows EXCEPT !["replay"] = ReplayRows(ids)]
    BY <1>5 DEF StartReplay
  <2>2. ReplayRows(ids) \subseteq 1..Len(bronze)
    BY DEF ReplayRows
  <2>3. /\ judged' = [judged EXCEPT !["replay"] = horizon] /\ UNCHANGED <<bronze, horizon>>
        /\ rows'["replay"] \subseteq 1..Len(bronze)
        /\ \A x \in Writers \ {"replay"} : rows'[x] = rows[x]
    BY <1>0, <1>5, <2>1, <2>2 DEF StartReplay, log, Writers
  <2> QED BY <1>3, <2>3 DEF Writers
<1>6. CASE /\ UNCHANGED <<bronze, horizon, judged>>
           /\ \A w \in Writers : rows'[w] \subseteq rows[w]
  BY <1>6 DEF JudgedInTime
<1>7. \/ UNCHANGED <<bronze, horizon, judged, rows>>
      \/ /\ UNCHANGED <<bronze, horizon, judged>>
         /\ \E w \in Writers : rows' = [rows EXCEPT ![w] = {}]
      \/ \E w \in Writers : RecordCounters(w)
      \/ \E r \in Readings : Arrive(r)
      \/ TimePasses \/ ExecuteBatch \/ StartReplay
  BY DEF Next, WriteBatch, Start, Expire, Stranded, PlanBatch, AppendQuarantine,
         MergeSilver, CommitBatch, Crash, DeleteCheckpoint, vars, log, clock, Writers
<1>8. ASSUME NEW w \in Writers, RecordCounters(w)
      PROVE  UNCHANGED <<bronze, horizon, judged>> /\ \A x \in Writers : rows'[x] \subseteq rows[x]
  BY <1>0, <1>8 DEF RecordCounters, log, clock
<1>9. ASSUME NEW w \in Writers, rows' = [rows EXCEPT ![w] = {}]
      PROVE  \A x \in Writers : rows'[x] \subseteq rows[x]
  BY <1>0, <1>9
<1> QED BY <1>1, <1>2, <1>4, <1>5, <1>6, <1>7, <1>8, <1>9

LEMMA InvInit == Init => IInv
<1> SUFFICES ASSUME Init PROVE IInv
  OBVIOUS
<1>1. BatchRows /\ BatchDecided
  BY DEF Init, BatchRows, BatchDecided, InBatch, Writers
<1>2. MemoryDecided /\ MemoryExpiry /\ WatermarkBehind
  BY DEF Init, MemoryDecided, MemoryExpiry, WatermarkBehind
<1>3. ArrivalOrder
  BY DEF Init, ArrivalOrder
<1>4. JudgedInTime
  BY DEF Init, JudgedInTime
<1> QED BY <1>1, <1>2, <1>3, <1>4, TypeInit DEF IInv

LEMMA InvStep == IInv /\ [Next]_vars => IInv'
BY TypeStep, BatchRowsStep, BatchDecidedStep, MemoryStep, WatermarkStep, ArrivalStep,
   JudgedStep DEF IInv

\* The inductive invariant: a running batch's rows stand for its fresh events, every
\* table commit passed has decided its share of them, only decided events are
\* remembered, the watermark trails what was consumed by the full delay, and no reading
\* of a sound clock is judged before its time.
THEOREM InductiveInvariant == Spec => []IInv
BY InvInit, InvStep, PTL DEF Spec

-----------------------------------------------------------------------------
(* No row is lost, when rows arrive within the watermark.                  *)

\* A row of the planned batch is not late: the watermark trails an earlier row by the
\* full delay, and the row trails that one by less.
LEMMA NothingLate ==
    ASSUME IInv, BoundedLateness, HonestClocks, NEW p \in Batch
    PROVE  ~Late(p)
<1> SUFFICES ASSUME Late(p) PROVE FALSE
  OBVIOUS
<1>1. p \in 1..Len(bronze) /\ Timed(bronze[p]) /\ bronze[p].event_time \in Nat
  BY BatchInLog DEF IInv, Late
<1>2. bronze[p].event_time <= wm /\ lateWm \in Nat /\ wm \in Nat
  BY <1>1 DEF Late, IInv, TypeOK, WatermarkBehind
<1>3. wm # 0
  BY <1>1, <1>2 DEF Timed, NoTime
<1>4. PICK c \in Consumed :
          Timed(bronze[c]) /\ wm + WatermarkDelay <= bronze[c].event_time
  BY <1>3 DEF IInv, WatermarkBehind
<1>5. c \in 1..(p - 1) /\ c \in 1..Len(bronze) /\ bronze[c].event_time \in Nat
  BY <1>4, BatchInLog DEF IInv, TypeOK, Consumed, Batch
<1>6. Honest(bronze[c]) /\ Honest(bronze[p])
  BY <1>1, <1>4, <1>5, BatchInLog DEF IInv, Honest, HonestClocks
<1>7. bronze[c].event_time <= bronze[p].event_time + MaxLateness
  BY <1>1, <1>5, <1>6 DEF IInv, ArrivalOrder
<1> QED BY <1>1, <1>2, <1>4, <1>5, <1>7, ConstantFacts DEF BoundedLateness

LEMMA ConservedStep ==
    ASSUME BoundedLateness, HonestClocks
    PROVE  IInv /\ RowsConserved /\ [Next]_vars => RowsConserved'
<1> SUFFICES ASSUME IInv, RowsConserved, [Next]_vars PROVE RowsConserved'
  OBVIOUS
<1>0. TypeOK
  BY DEF IInv
<1>1. CASE UNCHANGED <<seen, lateWm, wm>> /\ Consumed' = Consumed
  <2>1. Consumed' = Consumed
    BY <1>1
  <2>2. \A p \in Consumed : EventId(p)' = EventId(p)
    BY <1>0, LogGrows, BatchInLog DEF EventId
  <2> QED BY <1>0, <2>1, <2>2, TablesGrow DEF RowsConserved
<1>2. CASE DeleteCheckpoint
  <2>1. Consumed' = {}
    BY <1>2 DEF DeleteCheckpoint, Consumed
  <2> QED BY <2>1 DEF RowsConserved
<1>3. CASE CommitBatch
  <2>1. bronze' = bronze /\ Consumed' = Consumed \union Batch
    BY <1>0, <1>3 DEF CommitBatch, Consumed, Batch, TypeOK, log, clock
  <2>2. ASSUME NEW p \in Batch, EventId(p) # NoId PROVE EventId(p) \in Decided
    <3>1. CASE Fresh(p)
      <4>1. PICK q \in rows["stream"] : EventId(q) = EventId(p)
        BY <1>3, <3>1 DEF IInv, BatchRows, InBatch, CommitBatch
      <4>2. EventId(q) \in Decided
        BY <1>3, CommittedRowsDecided DEF IInv, CommitBatch
      <4> QED BY <4>1, <4>2
    <3>2. CASE ~Fresh(p)
      <4>1. PICK e \in seen : e.event_id = EventId(p)
        BY <3>2, NothingLate DEF Fresh
      <4> QED BY <2>2, <4>1 DEF IInv, MemoryDecided
    <3> QED BY <3>1, <3>2
  <2>3. \A p \in Consumed' : EventId(p) # NoId => EventId(p) \in Decided
    BY <2>1, <2>2 DEF RowsConserved
  <2> QED BY <1>0, <2>1, <2>3, TablesGrow DEF RowsConserved, EventId
<1> QED BY <1>0, <1>1, <1>2, <1>3, SeenChanges

\* When readings arrive less than the watermark delay late and no clock is ahead, every
\* event of a committed batch is in Silver or in quarantine, whatever fails on the way.
THEOREM RowsConservedHolds ==
    ASSUME BoundedLateness, HonestClocks
    PROVE  Spec => []RowsConserved
<1>1. Init => RowsConserved
  BY DEF Init, RowsConserved, Consumed
<1> QED BY <1>1, ConservedStep, InductiveInvariant, PTL DEF Spec
-----------------------------------------------------------------------------
(* No event passes the stream's deduplication twice under one checkpoint.  *)

LEMMA SuppressedStep ==
    ASSUME EventIdsUnique
    PROVE  IInv /\ RepeatsSuppressed /\ [Next]_vars => RepeatsSuppressed'
<1> SUFFICES ASSUME IInv, RepeatsSuppressed, [Next]_vars PROVE RepeatsSuppressed'
  OBVIOUS
<1>0. TypeOK
  BY DEF IInv
<1>1. CASE UNCHANGED <<seen, lateWm, wm>> /\ Consumed' = Consumed
  <2>1. Consumed' = Consumed
    BY <1>1
  <2>2. \A p \in Consumed : bronze'[p] = bronze[p]
    BY <1>0, LogGrows, BatchInLog
  <2> QED BY <1>1, <2>1, <2>2 DEF RepeatsSuppressed, Fresh, Late, EventId, Timed
<1>2. CASE DeleteCheckpoint
  <2>1. Consumed' = {}
    BY <1>2 DEF DeleteCheckpoint, Consumed
  <2> QED BY <2>1 DEF RepeatsSuppressed
<1>3. CASE CommitBatch
  <2>1. /\ bronze' = bronze /\ lateWm' = wm /\ seen' = StateAfter(rows["stream"])
        /\ Consumed' = Consumed \union Batch
    BY <1>0, <1>3 DEF CommitBatch, Consumed, Batch, TypeOK, log, clock
  <2>2. SUFFICES ASSUME NEW p \in Consumed \union Batch, Timed(bronze[p]), EventId(p) # NoId,
                        ~(bronze[p].event_time <= wm)
                 PROVE  \E e \in seen' : e.event_id = EventId(p)
    BY <2>1 DEF RepeatsSuppressed, Fresh, Late, EventId, Timed
  <2>3. /\ p \in 1..Len(bronze) /\ bronze[p] \in Readings /\ bronze[p].event_time \in Nat
        /\ wm \in Nat /\ lateWm \in Nat /\ lateWm <= wm
    BY <1>0, BatchInLog DEF IInv, WatermarkBehind, TypeOK
  <2>4. ~Late(p)
    BY <2>2, <2>3 DEF Late
  <2>5. CASE \E e \in seen : e.event_id = EventId(p)
    <3>1. PICK e \in seen : e.event_id = EventId(p)
      BY <2>5
    <3>2. PICK r \in Readings :
              r.event_id = e.event_id /\ e.expires = r.event_time + WatermarkDelay
      BY <2>2, <3>1 DEF IInv, MemoryExpiry
    <3>3. r = bronze[p]
      BY <2>2, <2>3, <3>1, <3>2 DEF EventIdsUnique, EventId
    <3>4. e.expires > wm
      BY <2>2, <2>3, <3>2, <3>3, ConstantFacts
    <3> QED BY <2>1, <3>1, <3>4 DEF StateAfter
  <2>6. CASE p \in Batch /\ ~\E e \in seen : e.event_id = EventId(p)
    <3>1. PICK q \in rows["stream"] : EventId(q) = EventId(p)
      BY <1>3, <2>4, <2>6 DEF IInv, BatchRows, InBatch, CommitBatch, Fresh
    <3>2. bronze[q] \in Readings
      BY <1>0, BatchInLog
    <3>3. bronze[q] = bronze[p]
      BY <2>2, <2>3, <3>1, <3>2 DEF EventIdsUnique, EventId
    <3>4. Entry(q).event_id = EventId(p) /\ Entry(q).expires > wm
      BY <2>2, <2>3, <3>1, <3>3, ConstantFacts DEF Entry
    <3>5. Entry(q) \in seen'
      BY <2>1, <3>1, <3>4 DEF StateAfter
    <3> QED BY <3>4, <3>5
  <2>7. p \in Consumed => \E e \in seen : e.event_id = EventId(p)
    BY <2>2, <2>4 DEF RepeatsSuppressed, Fresh
  <2> QED BY <2>5, <2>6, <2>7
<1> QED BY <1>0, <1>1, <1>2, <1>3, SeenChanges

\* While ids are issued once, an event consumed under the current checkpoint never
\* passes the deduplication again: it is remembered until it is late.
THEOREM RepeatsSuppressedHolds ==
    ASSUME EventIdsUnique
    PROVE  Spec => []RepeatsSuppressed
<1>1. Init => RepeatsSuppressed
  BY DEF Init, RepeatsSuppressed, Consumed
<1> QED BY <1>1, SuppressedStep, InductiveInvariant, PTL DEF Spec

=============================================================================
