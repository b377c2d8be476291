--------------------------- MODULE SilverTransform ---------------------------
(***************************************************************************)
(* The Bronze-to-Silver job: silver_transform.py, with the quality split   *)
(* (engine.py) and the reconciliation counters (reconciliation.py) it      *)
(* calls, and the second caller of write_batch, the replay of verify.py.   *)
(*                                                                         *)
(* The streaming query reads the append-only Bronze log in micro-batches.  *)
(* Spark writes the end of a batch to the checkpoint before running it     *)
(* (PlanBatch) and marks it committed after write_batch returned           *)
(* (CommitBatch); a batch found planned and not committed at a restart is  *)
(* run again, on the same rows, from the same deduplication state.         *)
(* Between the two, write_batch makes three separate table commits:        *)
(* quarantine append, Silver MERGE, reconciliation append.  The process    *)
(* may fail at any point between them.                                     *)
(*                                                                         *)
(* A Bronze row is named by its position in the log, its ingestion order,  *)
(* and is taken to have a snapshot of its own.  Time is counted in units   *)
(* of the watermark configuration.                                         *)
(***************************************************************************)
EXTENDS Integers, Sequences, FiniteSets

CONSTANTS
    EventIds,        \* the non-null values of event_id
    NoId,            \* event_id NULL: from_json nulled an unparseable payload
    CriticalRules,   \* names of the critical rules of rules.yml
    Readings,        \* the parsed payloads that may reach Bronze
    WatermarkDelay,  \* WATERMARK_DELAY
    Skewed,          \* the readings of vehicles whose clock is ahead
    MaxLateness,     \* how far behind the newest honest event_time a row may arrive
    FirstHorizon,    \* what the clock says at first, plus the day the rules allow
    LastHorizon,     \* bound: the same at the end
    MaxBronze,       \* bound: rows appended to Bronze
    MaxRuns,         \* bound: starts of the streaming process
    MaxBackfills,    \* bound: deletions of the checkpoint
    MaxExpired,      \* bound: rows of Bronze whose snapshot expires
    MaxReplays       \* bound: replays by the verification suite

\* event_time NULL.  Spark's deduplication reads a null timestamp as 0.
NoTime == 0

FutureRule == "event_time_not_in_future"

\* A reading carries what the job looks at: its identity, its event time and the
\* critical rules it fails whenever it is looked at.  The completeness rules fail on the
\* nulls themselves; the one rule that depends on the time is not among them.
ASSUME ReadingsAssumption ==
    /\ Skewed \subseteq Readings
    /\ \A r \in Readings :
        /\ r.event_id \in EventIds \union {NoId}
        /\ r.event_time \in Nat
        /\ r.failed \subseteq CriticalRules \ {FutureRule}
        /\ r.event_id = NoId => "event_id_not_null" \in r.failed
        /\ r.event_time = NoTime => "event_time_not_null" \in r.failed

ASSUME ConstantsAssumption ==
    /\ NoId \notin EventIds
    /\ IsFiniteSet(EventIds) /\ IsFiniteSet(CriticalRules)
    /\ FutureRule \in CriticalRules
    /\ WatermarkDelay \in Nat \ {0}
    /\ {MaxLateness, FirstHorizon, LastHorizon} \subseteq Nat
    /\ {MaxBronze, MaxRuns, MaxBackfills, MaxExpired, MaxReplays} \subseteq Nat

Writers == {"stream", "replay"}   \* the two callers of write_batch
ReplayRun == 0                    \* run_id "verify-replay"

VARIABLES
    bronze,      \* telemetry_raw: sequence of readings, in ingestion order
    expired,     \* rows of it whose snapshot has expired: read by no new query
    horizon,     \* current_timestamp() + INTERVAL 1 DAY
    judged,      \* the horizon at which each caller's rows were given to the rules
    batchId,     \* checkpoint: id of the current (or next) micro-batch
    origin,      \* checkpoint: the row behind which it began
    startOff,    \* checkpoint: the last row of a committed batch
    endOff,      \* checkpoint: end of the planned batch
    planned,     \* checkpoint: a batch is in the offset log and not in the commit log
    lateWm,      \* checkpoint: watermark of the previous batch, drops late rows
    wm,          \* checkpoint: watermark of this batch, evicts dedup state
    seen,        \* checkpoint: deduplication state after the last committed batch
    silver,      \* silver.telemetry: rows [event_id, pos, run]
    quarantine,  \* telemetry_quarantine: rows [pos, rule, run]
    recon,       \* platform.reconciliation
    pc,          \* where each caller of write_batch stands
    rows,        \* the rows of the batch each caller is writing
    run,         \* run_id of the streaming process, a fresh one for every start
    backfills, replays   \* counters for the bounds

log        == <<bronze, expired>>
clock      == <<horizon, judged>>
checkpoint == <<batchId, origin, startOff, endOff, planned, lateWm, wm, seen>>
tables     == <<silver, quarantine, recon>>
bounds     == <<backfills, replays>>
vars       == <<log, clock, checkpoint, tables, pc, rows, run, bounds>>

StreamPhases == {"down", "idle", "planned", "split", "merge", "record", "commit"}
ReplayPhases == {"idle", "split", "merge", "record"}

EventId(p) == bronze[p].event_id
Timed(r)   == r.event_time # NoTime
Honest(r)  == Timed(r) /\ r \notin Skewed

Consumed == (origin + 1)..startOff       \* rows of committed batches
Batch    == (startOff + 1)..endOff       \* rows of the planned batch

\* A query without checkpoint begins with the oldest snapshot of Bronze there is.
NoCheckpoint == batchId = 0 /\ ~planned
Beginning == IF NoCheckpoint THEN expired ELSE origin
Position  == IF NoCheckpoint THEN expired ELSE startOff

\* With one it needs the snapshot it stands at: that of the last row it has read, or of
\* its first row if it has read none.
Resumable ==
    \/ NoCheckpoint
    \/ startOff = origin /\ expired <= origin
    \/ startOff > origin /\ expired < startOff
-----------------------------------------------------------------------------
(* Tables.                                                                 *)

SilverIds     == {s.event_id : s \in silver}
QuarantineIds == {EventId(q.pos) : q \in quarantine}
ArrivedIds    == {EventId(p) : p \in 1..Len(bronze)}

RunOf(w) == IF w = "stream" THEN run ELSE ReplayRun

\* apply_rules: the critical rules a reading fails when h is the horizon.
FailedRules(r, h) == r.failed \union IF r.event_time > h THEN {FutureRule} ELSE {}

ValidUnchecked(w) == rows[w]   \* faulty variant: the split lets every row through
\* dq.split: a row failing any critical rule is rejected, once per failed rule.
Valid(w)    == {p \in rows[w] : FailedRules(bronze[p], judged[w]) = {}}
Rejected(w) == {p \in rows[w] : FailedRules(bronze[p], judged[w]) # {}}

QuarantineRows(w) ==
    {q \in [pos : Rejected(w), rule : CriticalRules, run : {RunOf(w)}] :
        q.rule \in FailedRules(bronze[q.pos], judged[w])}

NewestUnchecked(ps) == ps   \* faulty variant: trust the upstream deduplication
\* _dedupe_within_batch: the newest ingestion of each event_id.
Newest(ps) == {p \in ps : \A q \in ps : EventId(q) = EventId(p) => q <= p}

Prepared(w) ==
    {[event_id |-> EventId(p), pos |-> p, run |-> RunOf(w)] : p \in Newest(Valid(w))}

MergeByAppend(table, updates) == table \union updates   \* faulty variant: plain append
\* MERGE INTO ... ON event_id, for updates that match no target row twice.
MergeInto(table, updates) ==
    {t \in table : \A u \in updates : u.event_id # t.event_id} \union updates

\* Iceberg aborts a MERGE in which two source rows match the same target row.
Ambiguous(table, updates) ==
    \E t \in table, u, v \in updates :
        u # v /\ u.event_id = t.event_id /\ v.event_id = t.event_id
-----------------------------------------------------------------------------
(* The streaming engine: withWatermark, dropDuplicatesWithinWatermark.     *)

\* A row at or below the previous batch's watermark is dropped without a trace.
Late(p) == Timed(bronze[p]) /\ bronze[p].event_time <= lateWm

Fresh(p) == ~Late(p) /\ \A e \in seen : e.event_id # EventId(p)

\* One fresh row of each event_id.  Rows of a batch reach the operator in the order
\* the shuffle delivers them, so which of several equal keys survives is open.
\* All rows without event_id are one key.
Deduplicated(ps) ==
    {kept \in SUBSET {p \in ps : Fresh(p)} :
        /\ \A p, q \in kept : EventId(p) = EventId(q) => p = q
        /\ \A p \in ps : Fresh(p) => \E q \in kept : EventId(q) = EventId(p)}

\* A kept key is remembered until the watermark passes its event time plus the delay.
Entry(p) == [event_id |-> EventId(p), expires |-> bronze[p].event_time + WatermarkDelay]

Highest(S) == {x \in S : \A y \in S : x >= y}

\* The watermark after this batch: it follows every row read, and never goes back.
WatermarkWithoutDelay(ps) ==   \* faulty variant: no allowance for late rows
    Highest({wm} \union {bronze[p].event_time : p \in {q \in ps : Timed(bronze[q])}})
WatermarkNotMonotone(ps) ==    \* faulty variant: the newest batch alone decides
    Highest({bronze[p].event_time - WatermarkDelay : p \in ps})
WatermarkAfter(ps) ==
    Highest({wm} \union
        {bronze[p].event_time - WatermarkDelay : p \in {q \in ps : Timed(bronze[q])}})

StateAfter(kept) == {e \in seen \union {Entry(p) : p \in kept} : e.expires > wm}
-----------------------------------------------------------------------------
Init ==
    /\ bronze = << >> /\ expired = 0
    /\ horizon = FirstHorizon /\ judged = [w \in Writers |-> FirstHorizon]
    /\ batchId = 0 /\ origin = 0 /\ startOff = 0 /\ endOff = 0 /\ planned = FALSE
    /\ lateWm = 0 /\ wm = 0 /\ seen = {}
    /\ silver = {} /\ quarantine = {} /\ recon = {}
    /\ pc = [w \in Writers |-> IF w = "stream" THEN "down" ELSE "idle"]
    /\ rows = [w \in Writers |-> {}]
    /\ run = 0 /\ backfills = 0 /\ replays = 0

\* bronze_ingest appends a reading.  A reading with a sound clock is not from the
\* future, and at most MaxLateness older than the newest such reading before it.
Arrive(r) ==
    /\ Len(bronze) < MaxBronze
    /\ r \notin Skewed => r.event_time <= horizon
    /\ Honest(r) => \A p \in 1..Len(bronze) :
           Honest(bronze[p]) => bronze[p].event_time <= r.event_time + MaxLateness
    /\ bronze' = Append(bronze, r)
    /\ UNCHANGED <<expired, clock, checkpoint, tables, pc, rows, run, bounds>>

\* The daily maintenance: snapshots older than the retention expire, the oldest first.
\* Those it keeps may all be compaction's.
Expire ==
    /\ \E n \in (expired + 1)..Len(bronze) : n <= MaxExpired /\ expired' = n
    /\ UNCHANGED <<bronze, clock, checkpoint, tables, pc, rows, run, bounds>>

TimePasses ==
    /\ \E h \in (horizon + 1)..LastHorizon : horizon' = h
    /\ UNCHANGED <<log, judged, checkpoint, tables, pc, rows, run, bounds>>

StartForgetting ==             \* faulty variant: resumes after the planned batch
    /\ pc["stream"] = "down" /\ run < MaxRuns
    /\ run' = run + 1
    /\ startOff' = endOff /\ planned' = FALSE /\ batchId' = batchId + 1
    /\ pc' = [pc EXCEPT !["stream"] = "idle"]
    /\ UNCHANGED <<log, clock, origin, endOff, lateWm, wm, seen, tables, rows, bounds>>
StartWithoutMemory ==          \* faulty variant: the state is not in the checkpoint
    /\ pc["stream"] = "down" /\ run < MaxRuns
    /\ run' = run + 1 /\ seen' = {}
    /\ pc' = [pc EXCEPT !["stream"] = IF planned THEN "planned" ELSE "idle"]
    /\ UNCHANGED <<log, clock, batchId, origin, startOff, endOff, planned, lateWm, wm, tables,
                   rows, bounds>>
\* main: a new process with a new run_id.  A planned batch is run again.
Start ==
    /\ pc["stream"] = "down" /\ run < MaxRuns
    /\ run' = run + 1
    /\ pc' = [pc EXCEPT !["stream"] = IF planned THEN "planned" ELSE "idle"]
    /\ UNCHANGED <<log, clock, checkpoint, tables, rows, bounds>>

\* The trigger: new rows, or none but a watermark that moved and has state to evict.
PlanBatch ==
    /\ pc["stream"] = "idle" /\ Resumable
    /\ origin' = Beginning /\ startOff' = Position
    /\ \/ \E end \in (Position + 1)..Len(bronze) : endOff' = end
       \/ Position = Len(bronze) /\ wm > lateWm /\ endOff' = Position
    /\ planned' = TRUE
    /\ pc' = [pc EXCEPT !["stream"] = "planned"]
    /\ UNCHANGED <<log, clock, batchId, lateWm, wm, seen, tables, rows, run, bounds>>

\* "Cannot load current offset at snapshot": the query fails, and every restart with it.
Stranded ==
    /\ pc["stream"] \in {"idle", "planned"} /\ ~Resumable
    /\ pc' = [pc EXCEPT !["stream"] = "down"]
    /\ UNCHANGED <<log, clock, checkpoint, tables, rows, run, bounds>>

\* The batch is computed, and its rows are annotated with the rules they fail now.
\* write_batch returns at once when nothing is left of it.
ExecuteBatch ==
    /\ pc["stream"] = "planned" /\ Resumable
    /\ \E kept \in Deduplicated(Batch) :
        /\ rows' = [rows EXCEPT !["stream"] = kept]
        /\ pc' = [pc EXCEPT !["stream"] = IF kept = {} THEN "commit" ELSE "split"]
    /\ judged' = [judged EXCEPT !["stream"] = horizon]
    /\ UNCHANGED <<log, horizon, checkpoint, tables, run, bounds>>

ReplayEverything(ids) == 1..Len(bronze)   \* faulty variant: the filter is missing
\* check_idempotency: every Bronze row of a sample of the events in Silver.
ReplayRows(ids) == {p \in 1..Len(bronze) : EventId(p) \in ids}

StartReplay ==
    /\ pc["replay"] = "idle" /\ replays < MaxReplays
    /\ \E ids \in (SUBSET SilverIds) \ {{}} :
        rows' = [rows EXCEPT !["replay"] = ReplayRows(ids)]
    /\ pc' = [pc EXCEPT !["replay"] = "split"]
    /\ judged' = [judged EXCEPT !["replay"] = horizon]
    /\ replays' = replays + 1
    /\ UNCHANGED <<log, horizon, checkpoint, tables, run, backfills>>

QuarantineNothing(w) ==   \* faulty variant: the append is lost
    /\ pc[w] = "split"
    /\ pc' = [pc EXCEPT ![w] = "merge"]
    /\ UNCHANGED <<log, clock, checkpoint, tables, rows, run, bounds>>
\* write_batch, first table commit: one append, of every rejected row.
AppendQuarantine(w) ==
    /\ pc[w] = "split"
    /\ quarantine' = quarantine \union QuarantineRows(w)
    /\ pc' = [pc EXCEPT ![w] = "merge"]
    /\ UNCHANGED <<log, clock, checkpoint, silver, recon, rows, run, bounds>>

\* Second table commit: the MERGE, which an ambiguous update set does not survive.
MergeSilver(w) ==
    /\ pc[w] = "merge"
    /\ ~Ambiguous(silver, Prepared(w))
    /\ silver' = MergeInto(silver, Prepared(w))
    /\ pc' = [pc EXCEPT ![w] = "record"]
    /\ UNCHANGED <<log, clock, checkpoint, quarantine, recon, rows, run, bounds>>

\* The counters of one batch, taken after the streaming deduplication; duplicates are
\* what is left of the source after the rejected and the output rows.
Counters(w) ==
    LET source   == Cardinality(rows[w])
        rejected == Cardinality({EventId(p) : p \in Rejected(w)})
        output   == Cardinality(Newest(Valid(w)))
    IN [run |-> RunOf(w),
        batch |-> IF w = "stream" THEN batchId ELSE -1,
        source |-> source,
        duplicate |-> source - rejected - output,
        rejected |-> rejected,
        output |-> output]

\* Third table commit; record swallows its own failure.
RecordCounters(w) ==
    /\ pc[w] = "record"
    /\ recon' \in {recon, recon \union {Counters(w)}}
    /\ pc' = [pc EXCEPT ![w] = IF w = "stream" THEN "commit" ELSE "idle"]
    /\ rows' = [rows EXCEPT ![w] = IF w = "stream" THEN @ ELSE {}]
    /\ UNCHANGED <<log, clock, checkpoint, silver, quarantine, run, bounds>>

\* The batch goes to the commit log, with its state and the next watermark.
CommitBatch ==
    /\ pc["stream"] = "commit"
    /\ startOff' = endOff /\ planned' = FALSE /\ batchId' = batchId + 1
    /\ seen' = StateAfter(rows["stream"])
    /\ lateWm' = wm /\ wm' \in WatermarkAfter(Batch)
    /\ rows' = [rows EXCEPT !["stream"] = {}]
    /\ pc' = [pc EXCEPT !["stream"] = "idle"]
    /\ UNCHANGED <<log, clock, origin, endOff, tables, run, bounds>>

\* Any failure: of the process, of a table commit, of a MERGE that conflicts with
\* the other writer.  It ends the query (or the suite); nothing restarts it by itself.
Crash(w) ==
    LET stopped == IF w = "stream" THEN "down" ELSE "idle" IN
    /\ pc[w] # stopped
    /\ pc' = [pc EXCEPT ![w] = stopped]
    /\ rows' = [rows EXCEPT ![w] = {}]
    /\ UNCHANGED <<log, clock, checkpoint, tables, run, bounds>>

\* The runbook's backfill: the checkpoint of a stopped query is deleted.
DeleteCheckpoint ==
    /\ pc["stream"] = "down" /\ backfills < MaxBackfills
    /\ batchId' = 0 /\ origin' = 0 /\ startOff' = 0 /\ endOff' = 0 /\ planned' = FALSE
    /\ lateWm' = 0 /\ wm' = 0 /\ seen' = {}
    /\ backfills' = backfills + 1
    /\ UNCHANGED <<log, clock, tables, pc, rows, run, replays>>

WriteBatch(w) == AppendQuarantine(w) \/ MergeSilver(w) \/ RecordCounters(w)

Next ==
    \/ \E r \in Readings : Arrive(r)
    \/ Expire
    \/ TimePasses
    \/ Start
    \/ PlanBatch
    \/ ExecuteBatch
    \/ Stranded
    \/ StartReplay
    \/ \E w \in Writers : WriteBatch(w)
    \/ CommitBatch
    \/ \E w \in Writers : Crash(w)
    \/ DeleteCheckpoint

Spec == Init /\ [][Next]_vars

\* A running query keeps triggering and finishes the batch it works on.  Nobody
\* promises a restart, an arrival or a failure.
LiveSpec ==
    /\ Spec
    /\ WF_vars(PlanBatch) /\ WF_vars(ExecuteBatch) /\ WF_vars(CommitBatch)
    /\ WF_vars(WriteBatch("stream")) /\ WF_vars(Stranded)
-----------------------------------------------------------------------------
(* Properties.                                                             *)

\* Types, and what holds of the control state alone.
TypeOK ==
    /\ bronze \in Seq(Readings) /\ expired \in 0..Len(bronze)
    /\ horizon \in Nat /\ judged \in [Writers -> Nat]
    /\ batchId \in Nat /\ planned \in BOOLEAN
    /\ origin \in Nat /\ startOff \in Nat /\ endOff \in Nat
    /\ origin <= startOff /\ startOff <= endOff /\ endOff <= Len(bronze)
    /\ planned \/ endOff = startOff
    /\ NoCheckpoint => origin = startOff
    /\ lateWm \in Nat /\ wm \in Nat
    /\ seen \subseteq [event_id : EventIds \union {NoId}, expires : Nat]
    /\ silver \subseteq
           [event_id : EventIds \union {NoId}, pos : 1..Len(bronze), run : 0..run]
    /\ quarantine \subseteq [pos : 1..Len(bronze), rule : CriticalRules, run : 0..run]
    /\ pc \in [Writers -> StreamPhases] /\ pc["replay"] \in ReplayPhases
    /\ rows \in [Writers -> SUBSET (1..Len(bronze))]
    /\ run \in 0..MaxRuns /\ backfills \in 0..MaxBackfills /\ replays \in 0..MaxReplays

\* Silver holds one row per event_id, through crashes between the MERGE and the
\* checkpoint commit, backfills and replays (the claim of verify.py and the runbook).
OneRowPerEvent == \A s, t \in silver : s.event_id = t.event_id => s = t

\* The MERGE never meets two updates for one target row: the stream by its
\* deduplication, a replay of duplicated Bronze rows by _dedupe_within_batch.
MergeNeverAborts ==
    \A w \in Writers :
        pc[w] = "merge" => ~Ambiguous(silver, Prepared(w))

ReplayMergesInPlace ==
    pc["replay"] = "merge" /\ pc'["replay"] = "record" =>
        SilverIds' = SilverIds /\ Cardinality(silver') = Cardinality(silver)

\* Replaying events already in Silver adds no row, whatever the stream writes
\* between the sample and the MERGE (check_idempotency of verify.py).
ReplayAddsNothing == [][ReplayMergesInPlace]_vars

\* An event already consumed under the current checkpoint never passes the stream's
\* deduplication again: as long as it is not late it is remembered, and it is late
\* as soon as it is forgotten.  The watermarks of two successive batches and the
\* expiry of the state must fit together for that.  Of a repeat that comes after its
\* event was forgotten the docs say otherwise; see LateRepeatsMerged.
RepeatsSuppressed ==
    \A p \in Consumed : Timed(bronze[p]) /\ EventId(p) # NoId => ~Fresh(p)

\* A repeat of an event consumed under this checkpoint and no longer remembered.
Forgotten(p) ==
    /\ EventId(p) # NoId /\ Timed(bronze[p])
    /\ \E q \in Consumed : EventId(q) = EventId(p)
    /\ \A e \in seen : e.event_id # EventId(p)

\* "Repeats arriving later than that are caught by the MERGE in the sink instead"
\* (silver_transform.py): they are among the rows write_batch is given.
LateRepeatsMerged ==
    pc["stream"] \in {"split", "merge", "record", "commit"} =>
        \A p \in Batch : Forgotten(p) => \E q \in rows["stream"] : EventId(q) = EventId(p)

\* No record disappears (verify.py, "rows conserved"): every event of a committed
\* batch is in Silver or in quarantine.
Decided == SilverIds \union QuarantineIds
RowsConserved == \A p \in Consumed : EventId(p) # NoId => EventId(p) \in Decided

\* As long as the query then stays up, every event that arrives is decided, unless all
\* its rows had expired before the query began: a backfill begins with the oldest
\* snapshot left, and no query reads what lies before it.
EveryEventDecided ==
    <>[](pc["stream"] # "down") =>
        \A id \in EventIds : id \in ArrivedIds ~>
            \/ id \in Decided
            \/ \A p \in 1..Len(bronze) : EventId(p) = id => p <= Beginning

\* Each event no vehicle with its clock ahead reports gets one verdict, the right one,
\* and keeps it, whatever the other vehicles' clocks do.
HonestIds == EventIds \ {r.event_id : r \in Skewed}
Ledger == INSTANCE EventLedger WITH
    Events   <- HonestIds,
    Sound    <- {r.event_id : r \in {x \in Readings : x.failed = {}}},
    arrived  <- ArrivedIds \intersect HonestIds,
    curated  <- SilverIds \intersect HonestIds,
    rejected <- QuarantineIds \intersect HonestIds
OneVerdict == Ledger!Spec

\* An event is in Silver and in quarantine in one way only: its vehicle's clock is ahead,
\* the rule on the future rejected its reading, and a re-execution, a replay or a backfill
\* judged it again when time had caught up.  Of every other record it is true that one
\* "failing a critical rule never reaches Silver" (verify.py).
BothOnlyAhead ==
    \A s \in silver, q \in quarantine :
        s.event_id = EventId(q.pos) => bronze[q.pos] \in Skewed /\ q.rule = FutureRule

\* The grain of the quarantine: one row per rejected event and broken rule.
QuarantineGrain ==
    \A q, s \in quarantine :
        EventId(q.pos) = EventId(s.pos) /\ EventId(q.pos) # NoId /\ q.rule = s.rule => q = s

\* Every rejected record is diverted with its payload, identified or not.
RejectedDiverted ==
    \A p \in Consumed :
        bronze[p].failed # {} =>
            \E q \in quarantine : bronze[q.pos].raw_payload = bronze[p].raw_payload
-----------------------------------------------------------------------------
(* Conditions on the constants under which some properties hold.           *)

\* One reading per event_id: ids are not issued twice for different readings.
EventIdsUnique ==
    \A r, s \in Readings : r.event_id = s.event_id /\ r.event_id # NoId => r = s

\* Readings arrive within the watermark, and no clock is ahead.
BoundedLateness == MaxLateness < WatermarkDelay
HonestClocks    == Skewed = {}
-----------------------------------------------------------------------------
(* The inductive invariant behind RowsConserved and RepeatsSuppressed.     *)

InBatch == pc["stream"] \in {"split", "merge", "record", "commit"}

\* While write_batch runs, its rows are one of each fresh event of the planned batch.
BatchRows ==
    InBatch =>
        /\ rows["stream"] \subseteq Batch
        /\ \A p, q \in rows["stream"] : EventId(p) = EventId(q) => p = q
        /\ \A p \in Batch : Fresh(p) => \E q \in rows["stream"] : EventId(q) = EventId(p)

\* Each table commit that was passed has decided its part of the batch.
BatchDecided ==
    /\ pc["stream"] \in {"merge", "record", "commit"} =>
        \A p \in Rejected("stream") : EventId(p) \in QuarantineIds
    /\ pc["stream"] \in {"record", "commit"} =>
        \A p \in Valid("stream") : EventId(p) \in SilverIds

\* Only decided events are remembered, each until its own expiry.
MemoryDecided == \A e \in seen : e.event_id # NoId => e.event_id \in Decided
MemoryExpiry ==
    \A e \in seen : e.event_id # NoId =>
        \E r \in Readings :
            r.event_id = e.event_id /\ e.expires = r.event_time + WatermarkDelay

\* The watermark trails an event time already consumed by the full delay.
WatermarkBehind ==
    /\ lateWm <= wm
    /\ \/ wm = 0
       \/ \E p \in Consumed : Timed(bronze[p]) /\ wm + WatermarkDelay <= bronze[p].event_time

ArrivalOrder ==
    \A q \in 1..Len(bronze) : \A p \in 1..(q - 1) :
        Honest(bronze[p]) /\ Honest(bronze[q]) =>
            bronze[p].event_time <= bronze[q].event_time + MaxLateness

\* A sound clock is not ahead when its reading arrives, and so never when it is judged.
JudgedInTime ==
    \A p \in 1..Len(bronze) : bronze[p] \notin Skewed =>
        /\ bronze[p].event_time <= horizon
        /\ \A w \in Writers : p \in rows[w] => bronze[p].event_time <= judged[w]

IInv ==
    /\ TypeOK /\ BatchRows /\ BatchDecided /\ MemoryDecided /\ MemoryExpiry
    /\ WatermarkBehind /\ ArrivalOrder /\ JudgedInTime
-----------------------------------------------------------------------------
(* What else the proofs about the ledger, the replay and the suite need.   *)

\* Every Silver row is an event that fails no rule but the one on the future, every
\* quarantine row one that fails its rule, or was ahead.
TablesSound ==
    /\ \A s \in silver : s.event_id = EventId(s.pos) /\ bronze[s.pos].failed = {}
    /\ \A q \in quarantine :
        \/ q.rule \in bronze[q.pos].failed
        \/ q.rule = FutureRule /\ bronze[q.pos] \in Skewed

\* Until its MERGE, a replay holds rows of events that are in Silver: the sample was
\* taken from Silver, and Silver loses no event.
ReplaySampled ==
    pc["replay"] \in {"split", "merge"} =>
        \A p \in rows["replay"] : EventId(p) \in SilverIds
=============================================================================
