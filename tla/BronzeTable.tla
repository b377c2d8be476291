------------------------------ MODULE BronzeTable ------------------------------
(***************************************************************************)
(* The Bronze table between its writer, its reader and its maintenance:    *)
(*  - bronze_ingest.py copies the telemetry topic into the table, one      *)
(*    append snapshot per micro-batch;                                     *)
(*  - the Silver query reads the table as a stream of append snapshots;    *)
(*  - the maintenance DAG rewrites files and expires old snapshots,        *)
(*    table_maintenance.py and fleetstream_maintenance.py.                 *)
(*                                                                         *)
(* A record is named by its Kafka offset, a snapshot by its place in the   *)
(* table's history.  Expiring a snapshot forgets it, not its rows.  Time   *)
(* is counted in days, the interval of the maintenance DAG.                *)
(***************************************************************************)
EXTENDS Integers, Sequences, FiniteSets

CONSTANTS
    Retention,     \* DEFAULT_SNAPSHOT_RETENTION_HOURS
    RetainLast,    \* retain_last of expire_snapshots
    MaxRewrites,   \* commits of one compaction with partial progress
    MaxOutage,     \* how long an appended row waits for a query that is attended to
    MaxQuiet,      \* the longest time between two appends while the fleet reports
    MaxRecords, MaxSnapshots, MaxClock,   \* bounds: records, snapshots with rewrites, days
    MaxFailures, MaxResets                \* bounds: stops of a query, deleted checkpoints

ASSUME BronzeAssumption ==
    /\ RetainLast \in Nat \ {0}
    /\ {Retention, MaxRewrites, MaxOutage, MaxQuiet} \subseteq Nat
    /\ {MaxRecords, MaxSnapshots, MaxClock, MaxFailures, MaxResets} \subseteq Nat

VARIABLES
    clock,
    produced,    \* the topic: its records are 1..produced
    logStart,    \* records below it have passed Kafka's retention
    snapshots,   \* the table: records [kind, rows, query, epoch, at]
    oldest,      \* the oldest snapshot not expired
    ingest,      \* the ingest process: "down", "idle", "append", "commit"
    offsets,     \* its checkpoint: [query, epoch, start, end]
    reader,      \* the Silver query: "down" or "up"
    position,    \* its checkpoint: the last append it has read, or None
    read,        \* the appends it has read under this checkpoint
    dag,         \* the maintenance DAG: which task runs, and its attempt
    due,         \* its run of this day has not begun
    attended,    \* so far no query was left alone and the fleet never fell silent
    failures, resets   \* counters for the bounds

kafkaVars  == <<produced, logStart>>
tableVars  == <<snapshots, oldest>>
ingestVars == <<ingest, offsets>>
readerVars == <<reader, position, read>>
dagVars    == <<dag, due>>
counters   == <<failures, resets>>
vars == <<clock, kafkaVars, tableVars, ingestVars, readerVars, dagVars, attended, counters>>

None   == 0    \* no position, no starting offset
IdleDag == [task |-> "idle", attempt |-> 0, rewrites |-> 0]

Appends  == {i \in 1..Len(snapshots) : snapshots[i].kind = "append"}
Retained == oldest..Len(snapshots)
UnreadAny == {i \in 1..Len(snapshots) : i > position}   \* faulty variant: rewrites too
Unread   == {i \in Appends : i > position}
Planned  == offsets.end # offsets.start
-----------------------------------------------------------------------------
Init ==
    /\ clock = 0
    /\ produced = 0 /\ logStart = 1
    /\ snapshots = << >> /\ oldest = 1
    /\ ingest = "down" /\ offsets = [query |-> 1, epoch |-> 0, start |-> None, end |-> None]
    /\ reader = "down" /\ position = None /\ read = {}
    /\ dag = IdleDag /\ due = FALSE
    /\ attended = TRUE /\ failures = 0 /\ resets = 0

\* The simulator's records reach the topic.
Send ==
    /\ produced < MaxRecords
    /\ produced' = produced + 1
    /\ UNCHANGED <<clock, logStart, tableVars, ingestVars, readerVars, dagVars, attended, counters>>

\* Kafka deletes its oldest record.
ExpireRecord ==
    /\ logStart <= produced
    /\ logStart' = logStart + 1
    /\ UNCHANGED <<clock, produced, tableVars, ingestVars, readerVars, dagVars, attended, counters>>
-----------------------------------------------------------------------------
(* bronze_ingest.                                                          *)

\* faulty variant: the batch in the offset log is not run again.
StartIngestBeyond ==
    /\ ingest = "down" /\ ingest' = "idle"
    /\ offsets' = IF offsets.start = None
                  THEN [offsets EXCEPT !.start = logStart, !.end = logStart]
                  ELSE [offsets EXCEPT !.start = offsets.end]
    /\ UNCHANGED <<clock, kafkaVars, tableVars, readerVars, dagVars, attended, counters>>
\* main: a batch in the offset log and not in the commit log is run again.  A query
\* without checkpoint starts at the earliest offset.
StartIngest ==
    /\ ingest = "down"
    /\ offsets' = IF offsets.start = None
                  THEN [offsets EXCEPT !.start = logStart, !.end = logStart] ELSE offsets
    /\ ingest' = IF Planned THEN "append" ELSE "idle"
    /\ UNCHANGED <<clock, kafkaVars, tableVars, readerVars, dagVars, attended, counters>>

\* failOnDataLoss: the query stops when a record it has still to read is gone.
DataLost == logStart > offsets.start

PlanIngest ==
    /\ ingest = "idle" /\ ~DataLost
    /\ \E end \in (offsets.start + 1)..(produced + 1) : offsets' = [offsets EXCEPT !.end = end]
    /\ ingest' = "append"
    /\ UNCHANGED <<clock, kafkaVars, tableVars, readerVars, dagVars, attended, counters>>

AppendAlways == FALSE   \* faulty variant: the sink does not look for the epoch
\* faulty variant: the sink takes another checkpoint's epochs for this one's.
CommittedByAny == \E i \in Retained :
    snapshots[i].kind = "append" /\ snapshots[i].epoch >= offsets.epoch
\* The Iceberg sink finds the epoch in the snapshots it can still see: the batch is
\* already in the table.
AlreadyCommitted ==
    \E i \in Retained :
        snapshots[i].query = offsets.query /\ snapshots[i].epoch >= offsets.epoch

Commit(kind, rows, query, epoch) ==
    snapshots' = Append(snapshots,
        [kind |-> kind, rows |-> rows, query |-> query, epoch |-> epoch, at |-> clock])

\* The batch's rows, in one table commit.
AppendBatch ==
    /\ ingest = "append" /\ ~DataLost
    /\ IF AlreadyCommitted THEN UNCHANGED snapshots
       ELSE Commit("append", offsets.start..(offsets.end - 1), offsets.query, offsets.epoch)
    /\ ingest' = "commit"
    /\ UNCHANGED <<clock, kafkaVars, oldest, offsets, readerVars, dagVars, attended, counters>>

\* Spark's commit log.
CommitEpoch ==
    /\ ingest = "commit"
    /\ offsets' = [offsets EXCEPT !.start = offsets.end, !.epoch = @ + 1]
    /\ ingest' = "idle"
    /\ UNCHANGED <<clock, kafkaVars, tableVars, readerVars, dagVars, attended, counters>>

\* Any failure, loss of data included; nothing restarts the query by itself.
StopIngest ==
    /\ ingest # "down" /\ failures < MaxFailures
    /\ ingest' = "down" /\ failures' = failures + 1
    /\ UNCHANGED <<clock, kafkaVars, tableVars, offsets, readerVars, dagVars, attended, resets>>

IngestDataLoss ==
    /\ ingest \in {"idle", "append"} /\ DataLost
    /\ ingest' = "down"
    /\ UNCHANGED <<clock, kafkaVars, tableVars, offsets, readerVars, dagVars, attended, counters>>

\* faulty variant: the offsets are deleted, the query and its epoch are not.
DeleteIngestOffsets ==
    /\ ingest = "down" /\ resets < MaxResets
    /\ offsets' = [offsets EXCEPT !.start = None, !.end = None]
    /\ resets' = resets + 1
    /\ UNCHANGED <<clock, kafkaVars, tableVars, ingest, readerVars, dagVars, attended, failures>>
\* The runbook's way out of a lost offset: a new checkpoint, the whole topic again.
DeleteIngestCheckpoint ==
    /\ ingest = "down" /\ resets < MaxResets
    /\ offsets' = [query |-> offsets.query + 1, epoch |-> 0, start |-> None, end |-> None]
    /\ resets' = resets + 1
    /\ UNCHANGED <<clock, kafkaVars, tableVars, ingest, readerVars, dagVars, attended, failures>>
-----------------------------------------------------------------------------
(* The Silver query's source.                                              *)

StartReader ==
    /\ reader = "down"
    /\ reader' = "up"
    /\ UNCHANGED <<clock, kafkaVars, tableVars, ingestVars, position, read, dagVars, attended, counters>>

Stranded == position # None /\ position < oldest

NextAppendAny == {i \in Unread : i >= oldest}   \* faulty variant: jumps to any append
\* The next append after the position; rewrites are skipped.  Without a position the
\* reader begins with the oldest snapshot there is.
NextAppend == {i \in Unread : i >= oldest /\ \A j \in Unread : j >= oldest => i <= j}

ReadAppend ==
    /\ reader = "up" /\ ~Stranded
    /\ \E i \in NextAppend : position' = i /\ read' = read \union {i}
    /\ UNCHANGED <<clock, kafkaVars, tableVars, ingestVars, reader, dagVars, attended, counters>>

\* "Cannot load current offset at snapshot", or any other failure.
ReaderStranded ==
    /\ reader = "up" /\ Stranded
    /\ reader' = "down"
    /\ UNCHANGED <<clock, kafkaVars, tableVars, ingestVars, position, read, dagVars, attended, counters>>

StopReader ==
    /\ reader = "up" /\ failures < MaxFailures
    /\ reader' = "down" /\ failures' = failures + 1
    /\ UNCHANGED <<clock, kafkaVars, tableVars, ingestVars, position, read, dagVars, attended, resets>>

\* The runbook's backfill.  All of the table waits for the reader again, and what has
\* waited too long may expire under it while it catches up.
DeleteReaderCheckpoint ==
    /\ reader = "down" /\ resets < MaxResets
    /\ position' = None /\ read' = {}
    /\ attended' = (attended /\ \A i \in Appends : clock <= snapshots[i].at + MaxOutage)
    /\ resets' = resets + 1
    /\ UNCHANGED <<clock, kafkaVars, tableVars, ingestVars, reader, dagVars, failures>>
-----------------------------------------------------------------------------
(* The maintenance DAG and job.                                            *)

Unmaintained == <<clock, kafkaVars, ingestVars, readerVars, attended, counters>>

\* One run a day, never two at a time (schedule, max_active_runs).
StartDag ==
    /\ dag.task = "idle" /\ due
    /\ dag' = [IdleDag EXCEPT !.task = "compact"] /\ due' = FALSE
    /\ UNCHANGED <<Unmaintained, tableVars>>

\* The job's other tables and the report after it; like the report before it, which
\* reads only, they leave this table alone.
Pass ==
    /\ dag.task = "others"
    /\ dag' = IdleDag
    /\ UNCHANGED <<Unmaintained, tableVars, due>>

\* compact: each file group rewritten is a commit of its own.
Rewrite ==
    /\ dag.task = "compact" /\ dag.rewrites < MaxRewrites
    /\ Appends # {} /\ Len(snapshots) < MaxSnapshots
    /\ Commit("replace", {}, 0, 0)
    /\ dag' = [dag EXCEPT !.rewrites = @ + 1]
    /\ UNCHANGED <<Unmaintained, oldest, due>>

KeptByCount == {i \in Retained : i > Len(snapshots) - RetainLast}   \* faulty variant: no cutoff
\* expire_snapshots(older_than, retain_last)
Kept == {i \in Retained :
            i > Len(snapshots) - RetainLast \/ snapshots[i].at >= clock - Retention}

\* Compaction is over: expire, then the other tables; with --skip-orphans nothing else
\* touches the table.
Expire ==
    /\ dag.task = "compact"
    /\ oldest' \in IF Kept = {} THEN {oldest} ELSE {i \in Kept : \A j \in Kept : i <= j}
    /\ dag' = [dag EXCEPT !.task = "others"]
    /\ UNCHANGED <<Unmaintained, snapshots, due>>

\* A task fails: the job because of any of its tables, before or after the expiry of
\* this one.  It is retried once, from its beginning; then the run is over.
FailTask ==
    /\ dag.task # "idle" /\ failures < MaxFailures
    /\ dag' = IF dag.attempt = 1 THEN IdleDag
              ELSE [task |-> "compact", attempt |-> 1, rewrites |-> 0]
    /\ failures' = failures + 1
    /\ UNCHANGED <<clock, kafkaVars, tableVars, ingestVars, readerVars, due, attended, resets>>
-----------------------------------------------------------------------------
(* Time, and what being attended to means: no append has waited longer     *)
(* than MaxOutage for the reader or for the ingest's own commit, and the   *)
(* last append is no older than MaxQuiet.                                  *)

Pending == {i \in Appends : snapshots[i].query = offsets.query
                                /\ snapshots[i].epoch = offsets.epoch /\ Planned}

AttendedAt(now) ==
    /\ \A i \in Unread \union Pending : now <= snapshots[i].at + MaxOutage
    /\ Appends # {} => \E i \in Appends : now <= snapshots[i].at + MaxQuiet

Tick ==
    /\ clock < MaxClock
    /\ clock' = clock + 1
    /\ attended' = (attended /\ AttendedAt(clock + 1))
    /\ due' = TRUE
    /\ UNCHANGED <<kafkaVars, tableVars, ingestVars, readerVars, dag, counters>>

IngestStep == PlanIngest \/ AppendBatch \/ CommitEpoch \/ IngestDataLoss
ReaderStep == ReadAppend \/ ReaderStranded
Maintenance == StartDag \/ Pass \/ Rewrite \/ Expire \/ FailTask

Next ==
    \/ Send \/ ExpireRecord \/ Tick
    \/ StartIngest \/ IngestStep \/ StopIngest \/ DeleteIngestCheckpoint
    \/ StartReader \/ ReaderStep \/ StopReader \/ DeleteReaderCheckpoint
    \/ Maintenance

Spec == Init /\ [][Next]_vars

\* Each running query is a thread that keeps triggering.
LiveSpec == Spec /\ WF_vars(IngestStep) /\ WF_vars(ReaderStep)
-----------------------------------------------------------------------------
(* Properties.                                                             *)

Snapshot == [kind : {"append", "replace"}, rows : SUBSET (1..produced),
             query : Nat, epoch : Nat, at : 0..clock]

TableTypes ==
    /\ clock \in Nat /\ produced \in Nat /\ logStart \in 1..(produced + 1)
    /\ snapshots \in Seq(Snapshot) /\ oldest \in 1..(Len(snapshots) + 1)
IngestTypes ==
    /\ ingest \in {"down", "idle", "append", "commit"}
    /\ offsets \in [query : Nat \ {0}, epoch : Nat, start : Nat, end : Nat]
    /\ offsets.start <= offsets.end /\ offsets.end <= produced + 1
ReaderTypes ==
    reader \in {"down", "up"} /\ position \in {None} \union Appends /\ read \subseteq Appends
DagTypes ==
    /\ dag \in [task : {"idle", "compact", "others"}, attempt : 0..1, rewrites : 0..MaxRewrites]
    /\ due \in BOOLEAN

\* Types, and what the checkpoints may say of the table.
TypeOK ==
    /\ TableTypes /\ IngestTypes /\ ReaderTypes /\ DagTypes
    /\ attended \in BOOLEAN /\ failures \in Nat /\ resets \in Nat

\* The conditions under which a snapshot a query still needs is never expired: the
\* outage alone is not enough, as table_maintenance.py has it ("Must exceed the longest
\* expected streaming outage"); the time the fleet may be silent counts too.
RetentionSuffices == MaxQuiet + MaxOutage <= Retention

\* The Silver query always finds the snapshot it resumes from.
PositionRetained == RetentionSuffices /\ attended => ~Stranded

\* Under one checkpoint the ingest copies the topic exactly once and in order, although
\* a batch whose commit was lost is run again: the sink finds it among the snapshots
\* that are left.
CopiedOnce ==
    RetentionSuffices /\ attended =>
        \A i, j \in Appends :
            i < j /\ snapshots[i].query = snapshots[j].query =>
                \A k \in snapshots[i].rows, m \in snapshots[j].rows : k < m

\* Nothing is left out: a record the ingest's checkpoint has passed is in the table, so
\* that it outlives Kafka's copy, whichever checkpoint copied it.
NoGaps ==
    \A k \in 1..(offsets.start - 1) :
        k >= logStart => \E i \in Appends : k \in snapshots[i].rows

\* The inductive invariant of the table, in parts.  The clock does not run backwards
\* over the snapshots, and the reader's position is the last append it has read.
InOrder ==
    /\ \A i, j \in 1..Len(snapshots) : i <= j => snapshots[i].at <= snapshots[j].at
    /\ position = None => read = {}
    /\ position # None => position \in read /\ \A m \in read : m <= position

\* The ingest's epochs: what the checkpoint says of a batch and what the table has.
Epochs ==
    /\ ingest = "idle" => ~Planned
    /\ ingest \in {"append", "commit"} => Planned
    /\ offsets.start = None => offsets.end = None
    /\ \A i \in 1..Len(snapshots) :
           /\ snapshots[i].query <= offsets.query
           /\ snapshots[i].kind = "replace" => snapshots[i].query = 0
    /\ \A i \in Appends : snapshots[i].query = offsets.query =>
           \/ /\ snapshots[i].epoch < offsets.epoch
              /\ \A k \in snapshots[i].rows : k < offsets.start
           \/ /\ snapshots[i].epoch = offsets.epoch /\ Planned
              /\ snapshots[i].rows = offsets.start..(offsets.end - 1)
    /\ ingest = "commit" => \E i \in Appends :
           snapshots[i].query = offsets.query /\ snapshots[i].epoch = offsets.epoch

\* While the queries are attended to, appends follow each other closely, nothing waits
\* too long, and what a query has still to find has not expired.
InReach ==
    attended =>
        /\ AttendedAt(clock)
        /\ \A i, j \in Appends : i < j =>
              \E k \in Appends : i < k /\ snapshots[k].at <= snapshots[i].at + MaxQuiet
        /\ RetentionSuffices =>
              /\ ~Stranded
              /\ \A i \in Pending : oldest <= i

BInv == TypeOK /\ InOrder /\ Epochs /\ InReach /\ CopiedOnce /\ NoGaps

\* What the Silver query gets is a feed of appends, whatever maintenance does to the
\* table meanwhile (silver_transform.py: "lets maintenance run without killing this
\* query"): in order, none skipped, none repeated under one checkpoint.
Feed == INSTANCE AppendFeed WITH entries <- Appends, delivered <- read
ReadsAsFeed == Feed!Spec

\* While both queries stay up, every record sent gets into the table and is read,
\* unless Kafka or the expiry had already removed it.
Taken(k) ==
    \/ k < logStart
    \/ \E i \in Appends : k \in snapshots[i].rows /\ (i <= position \/ i < oldest)
FlowsOn ==
    <>[](ingest # "down" /\ reader = "up") =>
        \A k \in 1..MaxRecords : k <= produced ~> Taken(k)

\* A backfill reads all of Bronze: when a reader has caught up, it has read every append
\* under its checkpoint (docs/runbook.md: "It reprocesses from the beginning of Bronze").
BackfillComplete ==
    reader = "up" /\ NextAppend = {} /\ ~Stranded => read = Appends
=============================================================================
