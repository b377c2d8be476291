# FleetStream: a TLA+ verification project

FleetStream carries vehicle telemetry from Kafka into an Iceberg lakehouse and
from there into dbt models. This directory holds TLA+ modules that model its
code, TLC configurations that check them on small instances, and TLAPS proofs
that extend the most important results to every size. Paths are relative to
the repository root.

Contents: [inventory](#inventory), [hard behaviours](#what-is-hard-here),
[modules](#modules), how the models correspond to the code
([Silver](#silvertransform-and-the-code), [simulator](#the-simulator-and-the-quality-rules),
[Bronze](#bronzetable-and-the-code), [daily pipeline](#dailypipeline-and-the-code),
[verification suite](#verificationsuite-and-the-code)), [properties](#properties), [runs](#runs), [proofs](#proofs), [disagreements found](#where-code-and-documentation-disagree),
[limits](#what-is-not-modelled), [plan](#plan).

## Inventory

    simulator --> Kafka --> bronze_ingest --> Bronze (telemetry_raw)
                    |                            |
                    v                            v
            incident_detector            silver_transform <-- verify (replay)
                    |                       |    |     |
                    v                 Silver  quarantine  reconciliation
            Kafka incidents                 |    |     |
                                        dbt facts and Gold  <-- Airflow daily DAG
                                   (maintenance DAG compacts and expires the tables)

| Component | State it keeps | Operations | What makes it correct |
|---|---|---|---|
| Telemetry generator (`simulator/generator.py`) | heap of held-back readings, counters | emit, inject a duplicate, a late or an invalid reading, drain | counters agree with what was emitted, whenever it is stopped |
| Producer (`simulator/producer.py`) | Kafka client queue, stop flag, manifest | send, deliver, flush, write manifest | the manifest states what Kafka has |
| Vehicle simulator (`simulator/vehicle.py`) | trip phase and counters of a vehicle | tick | trip phases in order; event ids never issued twice |
| Bronze ingest (`streaming/bronze_ingest.py`) | checkpoint: Kafka offsets, sink epochs | batch, restart | every Kafka record is in Bronze once per checkpoint lifetime |
| Silver transform (`streaming/silver_transform.py`) | checkpoint: offset log, commit log, watermark, deduplication state; three tables | micro-batch with three table commits, restart, backfill | one Silver row per event; each event one verdict; none lost; every event eventually decided |
| Quality engine (`quality/engine.py`, `rules.yml`) | none | `split` | a row is valid or rejected, never both, a null never rejects by accident |
| Reconciliation (`quality/reconciliation.py`) | `platform.reconciliation` | `record` | the counters explain the rows of the batch |
| Verification suite (`jobs/verify.py`) | none; writes Silver through `write_batch` | checks, replay | replay adds nothing; a check fails only when its claim is false |
| Incident detector (`streaming/incident_detector.py`) | checkpoint of Kafka offsets | classify, publish | at least once per incident |
| Table maintenance (`maintenance/table_maintenance.py`) | Iceberg snapshots | compact, expire, remove orphans | never removes what a query still needs; its rewrites are invisible to readers |
| dbt facts (`dbt/.../marts`, `macros/incremental_window.sql`) | the incremental tables | incremental or full build | an incremental build gives what a full refresh gives |
| dbt Gold (`dbt/.../gold`) | none, rebuilt in full | build | plain aggregation |
| Airflow DAGs (`airflow/dags`) | task states, retries | schedule, retry, clear | every run ends; a run that reports has built everything, from input that was fresh |
| Catalog bootstrap, seeding (`common/iceberg.py`, `jobs/`) | tables, dimensions | create if absent, overwrite | repeatable |
| Configuration, schemas, Spark session, infrastructure | none | | |

Interactions: Kafka and the Iceberg tables are the only channels. The Silver
query reads Bronze as a stream of append snapshots. Two processes write Silver:
the streaming query and the verification suite, which calls the same
`write_batch` with `run_id` `verify-replay` and batch id -1. Airflow starts
dbt, the checks and maintenance beside the running streams. Dashboards read only.

### What is hard here

- One micro-batch makes **three separate table commits** and a checkpoint
  commit, with no transaction around them (`silver_transform.py:225`, `:282`,
  `:294`). A failure may fall between any two.
- A batch that was planned and not committed is **run again**. The second
  execution may choose another of several equal keys.
- Two watermarks are at work in a batch: rows are late by the previous batch's
  watermark, memory is evicted by the current one.
- The replay of `verify.py` **runs beside** the stream and writes the same table.
- A backfill deletes the checkpoint, and with it every memory of earlier rows. What it
  can read begins with the oldest snapshot that has not expired.
- Readings arrive **late** (the simulator holds some back 5 to 20 minutes),
  repeated, without an id, or with a clock that is ahead.
- One rule compares with the **current time** whenever a batch is executed, so that a
  row run again, replayed or read again may be judged differently.
- Nobody restarts a failed query: `compose/compose.spark.yml` gives the two
  streaming services no restart policy.
- Maintenance **rewrites and expires** the snapshots that one query's position and
  another's exactly-once bookkeeping are kept in.
- The simulator counts a late reading long before it is sent, and may be
  interrupted, lose records, or fill its queue in between.
- The daily build merges **a window of days** into tables that are to hold all of
  them, fails half-way, and is retried or cleared on a later day.
- The verification suite compares counts that are **taken at different times**.

`PROJECT.json` lists each hazard at its line, with the properties that would
catch it going wrong, or the reason why none does yet.

## Modules

| Module | What it is |
|---|---|
| `SilverTransform` | the Silver job, its engine, its crashes, the replay, the time at which rows are judged; properties; the inductive invariant |
| `EventLedger` | abstract specification: arrived events get a verdict, the right one, for good |
| `MCSilverTransform` | readings and rules of the small instances, and a view |
| `SilverTransformProofs` | TLAPS: types, Silver's key, the inductive invariant, conservation, suppression of repeats |
| `SilverReplayProofs` | TLAPS: the MERGE and the replay of the verification suite |
| `SilverLedgerProofs` | TLAPS: `SilverTransform` implements `EventLedger`; the one way an event gets into both tables |
| `QualityRules` | the rules of `rules.yml` on a parsed record, in three-valued logic; the corruptions of the generator |
| `VehicleSimulator` | one vehicle: trips, rests, fuel, the counters of its event ids |
| `TelemetryGenerator` | extends it: the fleet's event stream with its injections and late heap |
| `TelemetryProducer` | extends both: a run of the simulator against a Kafka client, up to the manifest |
| `MCTelemetryProducer` | the fleet of the small instance |
| `TelemetryProducerProofs` | TLAPS: the inductive invariant of a run of the simulator, and its safety properties |
| `TelemetryRulesProofs` | TLAPS: the rules on every payload of the simulator and on every corruption of it |
| `BronzeTable` | Bronze between its writer, its reader and its maintenance |
| `AppendFeed` | abstract specification: entries delivered in order, none skipped, none twice |
| `MCBronzeTable` | for TLC |
| `BronzeTableProofs` | TLAPS: all safety properties of `BronzeTable`, and that it implements `AppendFeed` |
| `DailyPipeline` | the daily DAG and the incremental facts it builds |
| `FullRefresh` | abstract specification: a build leaves a fact as a full refresh would |
| `MCDailyPipeline` | for TLC |
| `DailyPipelineProofs` | TLAPS: types, the reports of a run, and that `DailyPipeline` implements `FullRefresh` |
| `VerificationSuite` | extends `SilverTransform`: the suite's counts beside the running stream |
| `MCVerificationSuite` | readings and view of the small instance |
| `VerificationSuiteProofs` | TLAPS: what each answer of the suite is worth |

The components meet at the tables and the topic, and so do the modules.
`TelemetryProducer` makes the topic that `BronzeTable` copies. `BronzeTable` makes
the log whose appends `SilverTransform` takes as given (`Arrive`, and `PlanBatch`
through `AppendFeed`: in order, none skipped, none twice); its expiry is `Expire` there,
at any time and without the retention's bound. `OneReadingPerId` of the
simulator is `EventIdsUnique`, on which results about Silver are conditional.
`QualityRules` gives the sets of failed rules that readings carry, all but the rule on
the future, which `SilverTransform` applies itself.
`VerificationSuite` and `SilverTransform` are one specification, for they write the
same table. `DailyPipeline` begins with rows of Silver that arrive with a lag.

### SilverTransform and the code

A Bronze row is a position in the log `bronze`; the order of the positions is
the order of ingestion (`ingestion_time`, then `kafka_offset`). A *reading* is
what the job looks at in a row: `event_id`, `event_time`, the set of critical
rules it fails at any time, its raw payload. `Skewed` are the readings of vehicles
whose clock is ahead.

| Variable | In the code |
|---|---|
| `bronze`, `expired` | `bronze.telemetry_raw`; its rows whose snapshot has expired, each row with a snapshot of its own |
| `horizon` | `current_timestamp() + INTERVAL 1 DAY` (`rules.yml:145`) |
| `judged` | the horizon at which each caller's rows were given to the rules |
| `batchId`, `endOff`, `planned` | the checkpoint's offset log: the last batch planned, and whether the commit log has it |
| `origin` | where the checkpoint began: the oldest snapshot there was |
| `startOff`, `seen`, `wm`, `lateWm` | what the last committed batch left: offset, deduplication state, this and the previous batch's watermark |
| `silver`, `quarantine`, `recon` | the three tables `write_batch` commits to |
| `pc`, `rows` | where each caller of `write_batch` stands, and its `batch_df` |
| `run` | `run_id`, fresh for each start of the process |
| `backfills`, `replays` | counters for the bounds only |

| Action | In the code |
|---|---|
| `Arrive` | `bronze_ingest` appends a parsed record; a sound clock is not more than a day ahead |
| `Expire` | the daily `expire_snapshots` on Bronze |
| `TimePasses` | the clock of the rules |
| `Start` | `main`: new `run_id`; a batch planned and not committed is picked up again |
| `PlanBatch` | the trigger of `build_stream`'s source: new rows up to any file boundary, or no rows and a watermark that moved; without checkpoint, from the oldest snapshot left |
| `Stranded` | the snapshot the query stands at has expired (`Resumable`): it fails, and every restart with it |
| `ExecuteBatch` | late filter and deduplication, then the count and early return of `write_batch`; from here on the rules' time is fixed for this batch, which is cached |
| `AppendQuarantine`, `MergeSilver`, `RecordCounters` | the three table commits of `write_batch`, for either caller; `RecordCounters` may fail silently, as `record` does |
| `CommitBatch` | `foreachBatch` returned: commit log, state, next watermark |
| `StartReplay` | `check_idempotency` samples Silver and selects the Bronze rows of the sample |
| `Crash` | any exception or process end: of the driver, a commit, a MERGE conflicting with the other writer |
| `DeleteCheckpoint` | the operator's backfill on a stopped query |

Engine behaviour that is not in the repository is modelled from how the code
relies on it, and marked external in the map: the Spark commit log,
the late filter, `dropDuplicatesWithinWatermark` (a key expires at event time
plus the delay; all null keys are one key; a null timestamp is never late and
expires at the delay), and Iceberg's refusal of an ambiguous MERGE.

Decisions of abstraction:

- What a reading fails of the rules that do not depend on the time is part of the
  reading. One rule does, `event_time_not_in_future`, and is applied when the batch is
  executed (`FailedRules`); the rule on age compares with a fixed date.
- Silver reads Bronze row by row where `BronzeTable.ReadAppend` reads whole snapshots.
  With `streaming-max-files-per-micro-batch` (`silver_transform.py:111`) a position may
  lie inside a snapshot; it needs the same snapshots, and the order is the same.
- Tables are sets of rows identified by position, rule and run. A
  duplicated quarantine row is visible because a new start has a new `run_id`. The other columns are left out.
- Enrichment adds columns by left joins on unique keys and is left out.
- A commit conflict between two writers of a table is one of the failures
  `Crash` stands for, since `write_batch` does not catch it.
- `CommitBatch` moves the watermark. In Spark the watermark is computed from the
  batch's statistics and written with the next plan; nothing can observe the
  difference, for a batch that is not committed is run again from the same state.

The modules also hold short **faulty variants** of their operators
(`MergeByAppend`, `StartWithoutMemory`, `KeptByCount`, ...), each marked so.
No action uses them. Putting one in the place of its neighbour shows that the
property aimed at it fails, so the property does depend on that line of code.

### The simulator and the quality rules

`VehicleSimulator` gives the set of outcomes of one `tick` of a vehicle; the random
draws of the code are its members. `TelemetryGenerator` keeps the generator's
laziness: `out` holds the records yielded and not yet taken, and nothing else moves
until it is empty, as a Python generator stands still between two `next`.

| Action | In the code |
|---|---|
| `BeginTick`, `Generate`, `FinishTick` | a round of `run`'s loop: `tick` of the generator, vehicle by vehicle and sub-tick by sub-tick (`TickVehicle`), then `_drain_late` (`DrainLate`) and the step of simulated time (`EndTick`) |
| `Produce`, `BufferError` | `produce`, `sent += 1`, `poll(0)`; the exception on a full queue that nothing catches |
| `Signal`, `LeaveLoop` | `_handle_signal` at any time; the loop looks at the flag between two ticks only |
| `Flush` | `flush_late`, whatever the reason the loop was left for |
| `FlushTimeout`, `Finish` | `flush(timeout=60)` and what follows: exit 1, or the recount and the manifest |
| `Deliver`, `DeliveryFailed` | the Kafka client and broker; a failed delivery is a log line |

`QualityRules` holds the rules as expressions over a parsed row, NULL included: a
rule fails unless it is TRUE (`coalesce(expr, false)`), and a field of the wrong type
was nulled by `from_json`, which is why the type rules look at the raw payload.
Numbers are in tenths of a unit. `RulesTellThem` applies them to every record that a
run of the simulator yields, and to every corruption of each clean one.

### BronzeTable and the code

A record is its Kafka offset, a snapshot its place in the table's history. Time is
counted in days, the interval of the maintenance DAG.

| Variable | In the code |
|---|---|
| `produced`, `logStart` | the topic and what its retention has left |
| `snapshots`, `oldest` | the table's history; what has not expired |
| `ingest`, `offsets` | `bronze_ingest` and its checkpoint: query id, epoch, offsets of the batch |
| `reader`, `position`, `read` | the Silver query's source and its checkpoint |
| `dag`, `due` | the run of `fleetstream_maintenance` |
| `attended` | history: whether operators have kept within `MaxOutage` and the fleet within `MaxQuiet` |

`AppendBatch` commits unless the sink finds its query id and epoch in a snapshot
that is left (`AlreadyCommitted`); this is how Iceberg makes a batch that is run
again harmless, and what expiry may take away. `Rewrite` is one file group of a
compaction with partial progress. `Expire` is `expire_snapshots` with its cutoff and
`retain_last`. `FailTask` is any failure of the job: it starts again with the compaction,
and the expiry may be skipped or done twice. Deleting a checkpoint is the
runbook's answer to lost offsets, and its way to backfill. What these queries do when data
is gone follows `failOnDataLoss` and Iceberg's refusal to load an expired snapshot:
they stop.

`PositionRetained` and `CopiedOnce` suppose `RetentionSuffices`:
`MaxQuiet + MaxOutage <= Retention`. `table_maintenance.py:56` asks that the
retention exceed the longest outage. That is not enough. A query that is
up and has nothing to read keeps the position it last read, and the silence counts as
well; it suffices that the fleet was quiet, then the query down for a while.
A backfill is not covered: it begins with everything unread, and old snapshots may
expire while it catches up (`DeleteReaderCheckpoint` ends `attended` unless the
table is young).

### DailyPipeline and the code

A row of Silver is its trip and the day of its event; a fact is the set of rows its
contents account for, in a table of one row per day or per trip. `Recomputed` is
`incremental_window` over the intermediate views, `BuildModel` the merge of one model
(`kept` are the keys that were not computed again). `ValidateSourceFreshness` may
raise, `CheckReconciliation` may not (see the disagreements and limits). `Raise` is Airflow's
retry: the task from its start, `Retries` times, then the run has failed. `ClearRun`
is the operator's, for the failed task and what follows or for all of the run.
`Arrive` and `Tick` hold the assumptions on the data: a row lags `MaxLag` days at
most, a trip spans `MaxSpan`, and two builds of a fact are `MaxGap` apart at most.
`Remerge` is a backfill or a replay: the rows of Silver stay and get a new `processed_at`,
which is what the freshness check reads, so a source may look fresh to which nothing was added.

### VerificationSuite and the code

Each check is a sequence of queries, one action each except for counts that only
word the answer; between any two the stream, its failures, expiry and ingestion take
steps (`Meanwhile`). `suite.at` is the query that
comes next, `suite.read` what the check has counted. The replay is the second writer
of `SilverTransform`, here started by `check_idempotency` only. A query that fails ends
the suite without a report (`AbortSuite`). `QuarantinedEvents` counts
`count(DISTINCT coalesce(event_id, quarantine_id))` as the code does, where all rows
of one rule without `event_id` are one.

### Properties

Each module has one type invariant (`TypeOK`, `SuiteTypeOK`), which also holds the
order of its phases or offsets. The others:

| Property | States |
|---|---|
| `OneRowPerEvent` | Silver has one row per `event_id`, whatever fails or is replayed |
| `MergeNeverAborts` | a MERGE never finds two updates for one target row |
| `ReplayAddsNothing` | the MERGE of a replay leaves Silver's ids and row count as they were, whatever the stream wrote since the sample was taken |
| `RepeatsSuppressed` | an event consumed under a checkpoint never passes its deduplication again, forgotten or not |
| `OneVerdict` | refinement of `EventLedger` for the events of sound clocks: verdicts are right, exclusive and permanent |
| `BothOnlyAhead` | an event is in Silver and in quarantine only if its vehicle's clock was ahead and the quarantine has it for that |
| `RowsConserved` | every event of a committed batch is in Silver or in quarantine |
| `EveryEventDecided` | if the query eventually stays up, every arrived event is eventually decided, unless all of its rows had expired before the query began |
| `ManifestTrue` | a manifest counts exactly what was delivered or given up, by kind |
| `NeverMiscounted` | records sent and records counted agree at the end of every run, interrupted or not |
| `OneReadingPerId` | an event id is issued for one reading, and its copies are identical |
| `TripCoherent` | within a trip odometer and fuel fit together and time goes forward |
| `NothingOverdue` | no reading is held back longer than its delay, and none is left at a good end |
| `RulesTellThem` | a clean reading breaks no rule, each corruption the one rule meant for it |
| `Terminates` | a run of the simulator ends, whatever the broker does |
| `PositionRetained` | the Silver query finds the snapshot it resumes from |
| `CopiedOnce` | under one checkpoint the topic is copied once and in order |
| `NoGaps` | a record that the ingest's checkpoint has passed is in the table |
| `ReadsAsFeed` | refinement of `AppendFeed`: maintenance is invisible to the reader |
| `FlowsOn` | while both queries stay up, every record is copied and read, unless it had expired |
| `BuildsAsFullRefresh` | refinement of `FullRefresh`: an incremental build gives what a full one would |
| `ReportsWholeRun` | a run that gets to its report has merged every fact since it began, from a source that was fresh then |
| `RunEnds` | every run of the DAG ends |
| `QuietSuitePasses` | on a sound platform at rest, no clock ahead, no check fails |
| `ExclusiveAnswer` | with no clock ahead the exclusivity check never fails, whenever it looks |
| `ConservationAlarm` | the conservation check fails only if more than its tolerance was undecided when it began, lost or still in flight; what moves while it counts does not matter |
| `ConservationAnswer` | what a PASS says: how many of the events undecided at its beginning may be undecided still |
| `ReplayAlarm` | if the replay check fails, the stream has added an event meanwhile |
| `IInv`, `BInv`, `DInv`, `RunInv`, `SuiteInv` | the inductive invariants (see proofs) |
| `LateRepeatsMerged`, `QuarantineGrain`, `RejectedDiverted`, `BackfillComplete` | what documents and comments say; they do not hold |

## Runs

The Silver runs use three Bronze rows out of three or four possible readings (valid,
invalid, valid, and mostly an unparseable one). The delay is 2 units of five minutes, as
`WATERMARK_DELAY` is ten. No clock is ahead but in `silver_faults` and
`future_clock_poisons_watermark`.

| Run | Bounds | Shows |
|---|---|---|
| `silver_faults` | 3 starts, 1 backfill, 1 replay, lateness unbounded in effect (5); a reading dated 7 that may be ahead, horizon 6, then 7 | the seven safety properties under crashes, re-execution, late rows, a rule whose answer changes, backfill and a concurrent replay |
| `silver_on_time` | 2 starts, 1 backfill, 1 expired row, lateness 1 < delay 2 | conservation, the inductive invariant, and liveness, with expiry |
| `late_repeat_dropped` | 2 starts, lateness 5 | `LateRepeatsMerged` fails: a repeat of a forgotten event is dropped as late |
| `late_rows_lost` | lateness 4 (20 minutes) | `RowsConserved` fails: late rows vanish |
| `future_clock_poisons_watermark` | one clock far ahead | `RowsConserved` fails for the readings of other vehicles |
| `quarantine_repeated` | 2 starts | `QuarantineGrain` fails after one crash |
| `unparseable_collapse` | two different unparseable payloads | `RejectedDiverted` fails |
| `simulator` | 2 vehicles, one hot; 2 ticks of 2 units; 1 lost record; a queue of 2 | the simulator's eight properties and `RunInv` |
| `bronze` | 2 records, 3 snapshots, 3 days, 1 failure, 1 deleted checkpoint; retention 2, outage 1, quiet 1 | the table's properties, through rewrites, expiry and restarts |
| `backfill_incomplete` | as `bronze` | `BackfillComplete` fails: what has expired is not read again |
| `daily` | 2 facts, 3 rows, 4 days, 2 failures, 1 retry; lookback 3 = lag 1 + span 1 + gap 1 | builds, reports and ends of runs |
| `suite` | 3 Bronze rows, 2 starts, 1 replay, tolerance 0 | what the suite's answers say, and `SuiteInv` |

**Why the bounds are enough.** *Silver.* Three rows are the least with which a repeat of
an event can follow both the row that made it remembered and one that moved the
watermark; they give up to three data batches and the empty batches between.
Event times 2, 4 and 7 with delay 2 are chosen so that state expires, rows fall
late and two watermarks differ. Three starts allow a crash in an execution, one
in its re-execution, and a third process that completes. One replay, started at any point, meets
every phase of the stream. One expired row lets a running query be stranded, and a backfill
begin behind an event that is decided or not. In `silver_faults` the horizon may pass the
date of the newest reading between two executions of its batch, or before it arrives. What
the size might hide is what the proofs are for.
*Simulator.* Two ticks let a late reading fall due in the next tick, stay to
the final flush (delays 1 and 3), or be overtaken; two units of fuel make a tank run
empty in the middle of a trip; the queue of 2 fills when the broker is slow.
*Bronze.* Retention equals quiet plus outage, the tightest value that
`RetentionSuffices` allows, and three days let a snapshot expire on the last of
them. Two records are one batch or two, one of them run again. Proofs cover larger tables.
*Daily.* The lookback is the tightest that `WindowSuffices` allows; three
rows of two trips give a trip that straddles the window's edge and a row that
is late for it; two failures with one retry let a build succeed at the last attempt, or fail for
good and be cleared (the DAG retries twice, `fleetstream_daily.py:52`, which would take a third
failure), and four days let a cleared run meet a later one. **`dbt_project.yml:33` ships a
lookback of 2**, chosen from the lateness of rows alone. With lag, span and gap of one day each
that does not satisfy `WindowSuffices`; the results on the facts say what holds if the
window is long enough, not that two days are. Two days do for lag and gap of one and trips
within a day.
*Suite.* Tolerance 0 is the strictest; with three rows one can be decided, one in
flight and one arrive while the check counts. No clock is ahead: with one the exclusivity
check may fail, as disagreement 7 says.

**Views.** `WithoutCounters` leaves `recon` out of the state: no action of
`SilverTransform` reads it and no property of those runs mentions it. The suite does
read it, so `WithBalances` keeps the balance of each counter row. `SilverOnTime.cfg`
checks liveness and has no view.

**Deadlock** is not checked: arrivals, starts and days are bounded, a query with
nothing to do waits, and a run of the simulator or of the suite is over when it is over.

**Fairness** (`LiveSpec`): weak fairness of `PlanBatch`, `ExecuteBatch`, the
table commits and `CommitBatch` of the stream, and of `Stranded`. A running query is one
thread that is triggered every 60 seconds for ever, and a trigger that does not find its
snapshot fails. No fairness for `Start` (no restart policy), `Arrive`, `Expire`,
`TimePasses`, `Crash`, `StartReplay` or `DeleteCheckpoint`. So
`EveryEventDecided` supposes that the query eventually stays up, and allows any
number of failures before that. `FlowsOn` is of the same kind, for both queries, with
weak fairness of a step of the ingest and of the reader. `Terminates` rests on weak
fairness of the producer's one thread (`Main`) and on nothing of the broker: what
ends a run against a dead broker is the flush's timeout. `RunEnds` rests on weak
fairness of the DAG's tasks: one that has started ends, and `FailTask`, which it may
end by, is bounded by `Retries`.

## Proofs

`tlapm` checks the proof modules completely. **Every safety property of every run
that passes is a theorem**, for every value of the constants: any ids, rules,
readings, fleets, routes, queues, facts, delays, retentions and bounds, some under a
hypothesis on the data that the table names. The assumptions are the `ASSUME`s of the
modules, which TLC evaluates in every run:

- types of the constants (`ConstantsAssumption`, with finitely many rules;
  `VehicleAssumption`, `ToleranceAssumption` and their like);
- `ReadingsAssumption`: the completeness rules fail on null id and null time, as
  `rules.yml` says, and the rule on the future is not among those a reading fails at any
  time;
- `GeneratorAssumption`: `simulators` is a dictionary, so no vehicle is in the fleet
  twice, and a hot vehicle's sub-tick is a whole number of units of time;
- `ProducerAssumption`: `None`, for no manifest and no outcome yet, is neither a manifest
  nor an outcome;
- `WireAssumption`: names and ids are strings other than NULL, the blank and the
  unparseable text; no vehicle is faster than 200 km/h; the run begins after 2020-01-01; the
  corruptions drawn are among `CORRUPTIONS`;
- `SqlValuesAssumption`: NULL and text are no numbers.

| Theorem | Further hypothesis | Argument |
|---|---|---|
| `TypeCorrect` | none | inductive |
| `OneRowPerEventHolds` | none | inductive: updates have distinct ids, and matched rows leave the table before they enter |
| `InductiveInvariant` | none | each part by the actions that disturb it |
| `RowsConservedHolds` | `BoundedLateness`, `HonestClocks` | from `IInv` |
| `RepeatsSuppressedHolds` | `EventIdsUnique` | from `IInv` |
| `MergeNeverAbortsHolds` | none | from `TypeOK` and `_dedupe_within_batch`: updates have distinct ids |
| `ReplayAddsNothingHolds` | none | invariant `ReplaySampled`: until its MERGE a replay holds rows of events in Silver; with one row per event, as many rows as ids |
| `BothOnlyAheadHolds` | `EventIdsUnique` | from `TablesSound`: a Silver row fails no rule but the one on the future, a quarantine row fails its rule or was ahead |
| `ImplementsLedger` | `EventIdsUnique`; of events no skewed reading reports | each step of the job is one step of the ledger or a stutter; a sound reading is judged alike at any time (`HonestVerdict`) |
| `SuiteInvariant`, `SuiteTypes` | none | a step of the suite is a step of `SilverTransform` or leaves it alone; then by query |
| `ConservationAlarmHolds`, `ReplayAlarmHolds` | none | from `SuiteInv`, at the step that answers |
| `ConservationAnswerHolds`, `ExclusiveAnswerHolds`, `QuietSuitePassesHolds` | `EventIdsUnique`, `HonestClocks` | from `SuiteInv`; an event that is valid is not quarantined (`NeverBoth`) |
| `BronzeTypes`, `BronzeInvariant` | none | inductive, each part by the actions that disturb it |
| `PositionRetainedHolds`, `CopiedOnceHolds` | `RetentionSuffices`, `attended` (in the properties) | from `BInv` |
| `NoGapsHolds` | none | from `BInv` |
| `ImplementsFeed` | none | each step of the table is an append, a delivery, a new beginning or a stutter |
| `RunCorrect` | none | inductive: vehicle by vehicle for ids and trips, record by record for the counts |
| `RunTypeCorrect`, `ManifestIsTrue`, `CountsAgree`, `OneReading`, `TripsAreCoherent`, `NoneOverdue` | none | from `RunInv` |
| `RulesTell` | none | a rule that is not TRUE is one that its field breaks (`Breaks`); then field by field of a payload |
| `RunsAreSound`, `PipelineTypes`, `ReportsWholeRunHolds` | none | inductive (`RunSound`), whatever the window |
| `PipelineInvariant` | `WindowSuffices` | inductive |
| `BuildsAsFullRefreshHolds` | `WindowSuffices` | from `DInv`: a build either leaves a fact or makes it all of Silver |

*`IInv` and why it is needed.* `RowsConserved` is not inductive: it says
nothing of the batch in flight, of the remembered events, or of the watermark,
and each can break it at the next commit. `IInv` adds exactly that.
`BatchRows`: the rows in flight are one of each fresh event of the planned
batch. `BatchDecided`: each table commit that was passed has decided its part.
`MemoryDecided`: only decided events are remembered, so dropping a repeat
loses nothing. `MemoryExpiry`: each stays remembered up to its time plus the
delay. `WatermarkBehind`: the watermark trails some consumed row by the full
delay. `ArrivalOrder`: the bound on lateness, carried through the log. `JudgedInTime`:
a reading of a sound clock is not from the future when it is judged, first or later, since
it was not when it arrived and time goes forward; this is what makes its verdict the same
at every execution. Then a
row that is not fresh is either remembered, hence decided, or late; and a row is
never late when lateness stays below the delay and clocks are honest.

*`RepeatsSuppressed`* rests on the two watermarks fitting together: state is
evicted when its expiry is reached by the current watermark, which is the one
that will make the same event late in the next batch. The same fact refutes
`LateRepeatsMerged`.

The hypotheses are not decoration. `late_rows_lost` and
`future_clock_poisons_watermark` show that conservation fails without either of
its two. Exclusivity needs sound clocks (disagreement 7): without them the
verdict of an event depends on when it is looked at, and `OneVerdict` therefore speaks of
`HonestIds`. `EventIdsUnique` is what `common/schemas.py` claims of ids derived
from vehicle, trip and event counters.

*`BInv`.* That nothing a query needs expires is a race of three processes with the
clock, and `PositionRetained` alone says nothing of it. `InReach` adds: while
attended to, consecutive appends are `MaxQuiet` apart at most and nothing unread
has waited longer than `MaxOutage`. So the append after the position is younger than
the outage and the position at most the quiet older (lemma `YoungEnough`), and expiry
keeps it; the ingest's own unacknowledged append is kept likewise, so a batch
run again is found. `Epochs` ties checkpoint and table: an append under the current
checkpoint lies before the batch, or is the batch. `NoGaps` and the refinement need no
assumption on outages: a stranded query stops, it does not skip.

*`DInv`.* `BuildsAsFullRefresh` compares a fact with all of Silver, which no window
sees. `MissingIsRecent` is the bridge: a row that a fact misses is at most `MaxLag`
older than the fact's last build. With `Gaps` it lies inside the window; with `Spans`
so does every row of its trip, which a fact by trip computes again as a whole or not at all.
`Progress` holds how far a run has got, and keeps it in a failed run until that is
cleared.

`RunSound`, the part of `DInv` that is about runs, needs no window, and
`ReportsWholeRun` rests on it alone: a run reports on all it has merged even when what
it merged is not enough.

*`RunInv`.* The wire holds only the records that were sent, and a property of these is
lost when a record that the generator still has turns up. So `RunInv` speaks of `Issued`:
every record wherever it is, in the heap, yielded, queued, delivered or given up.
`IdsOfThePast` ties ids to the vehicles' counters, which makes the next id new
(`OneRecordPerId`). `Dated` bounds the time of a reading by the moment its vehicle is
asked next, which depends on how far the tick has got (`NextMoment`). `Underway`
compares readings of a trip with the vehicle itself as long as the trip lasts; without
it nothing would relate the next reading to the ones before, for the fuel of a record says
nothing of the fuel in the tank. `Booked` are the books: a late reading is counted when
it is scheduled and sent later, so `clean + duplicates` is what was yielded plus what is in
the heap, and the counts agree at the end because `InPhase` has the heap empty before
the flush. Interrupts, lost records and a full queue move records within `Issued`
or end the run; hence no assumption on the broker.

*`RulesTell`.* In three-valued logic a rule may be neither TRUE nor FALSE. The lemmas on
the connectives reduce each rule to a condition on one field (`Breaks`), NULL
and text included. A sound payload then satisfies every condition, from `RunInv` and
the vehicle's types, and a corruption changes one field, which one critical rule reads for
that value. The time enters through `Launch`: simulated time never passes the wall
clock at which the run began.

*`SuiteInv`.* The suite remembers numbers while the tables change. For each query
that is still to come it must be known what the number in hand says of the tables *now*.
`ConservationKept`: the events the check is about had arrived, and with the decided ones
they are all it counted; what it has taken off is bounded by the quarantine and then
by Silver, whose ids are never taken away. `SampleKept`: Silver has the events it had, one row each,
so a larger count after the replay shows a new event, not a repeated one. `QuietKept`: if
nothing else has happened, a kept count is the one a new query would give. The last
theorems need `EventIdsUnique`, since with one id for a valid and an invalid
reading the exclusivity check may rightly fail, and `HonestClocks`, since with a clock
ahead it may fail as well. `ConservationAlarm` is no statement about losses: what is in
flight when the check begins counts as undecided, and the tolerance is there for it. `OneReading` is what establishes it for the
output of a run of the simulator: valid records with one id are identical.

**Model-checked only:** `EveryEventDecided`, `FlowsOn`, `Terminates` and `RunEnds`. They
are liveness properties under fairness, whose meaning is ENABLED, and that is out of the
prover's reach.

## Where code and documentation disagree

1. **Late rows are lost without a trace.** Rows older than the watermark never
   reach `write_batch`, so no table and no counter has them. The delay is 10
   minutes and the simulator is late by up to 20; `verify.py:169` claims that no
   record disappears, within its tolerance.
2. **A future clock does push the watermark.** `rules.yml:147-149` says the rule
   on future times prevents it, but rules run after the watermark has moved.
3. **Quarantine rows repeat** after a crash between the append and the batch
   commit; `docs/data_model.md:79` states the grain. Counts of rule violations
   are too high; the `quarantine_id` is the same, so a reader may deduplicate.
4. **Unidentified records collapse.** Records without `event_id` share one
   deduplication key: one of a batch is quarantined, the others vanish.
5. **A backfill is not complete.** `docs/runbook.md:226` says that after the checkpoint
   is deleted the query reprocesses "from the beginning of Bronze". It begins with the
   oldest snapshot left, 72 hours back; rows appended before are never read again.
6. **The MERGE does not catch late repeats; the watermark drops them.**
   `silver_transform.py:117-118` says that repeats which come after their event was
   forgotten "are caught by the MERGE in the sink instead", and `silver_transform.py:12-14`,
   `docs/adr/0003-idempotent-sink.md:26-27`, `docs/architecture.md:112-114` and
   `README.md:67-69` explain by it why the MERGE is needed. An event is forgotten when
   the watermark has passed it by the delay, and by then the same operator drops it as
   late, before `write_batch`. `RepeatsSuppressed` is the positive side, and proved:
   under one checkpoint no repeat passes. The MERGE is needed all the same, for batches
   run again, backfills and replays (`OneRowPerEvent`, `ReplayAddsNothing`).

Two more were read off the code while modelling and have no run of their own:

7. **A rejected reading may reach Silver.** `verify.py:228` claims "a record failing a
   critical rule never reaches Silver". `rules.yml:145` compares with the time of
   execution: a reading more than a day ahead is quarantined, and when its batch is run
   again, replayed or read again after that day, merged; the quarantine keeps its row and
   the suite's check fails. States of `silver_faults` are of this kind: arrival, plan,
   execution, quarantine append, crash, time passes, and the batch is run again.
   `BothOnlyAhead`, checked there and proved, says that this is the only way.
8. **Duplicates are "proven" by records without id.** `verify.py:104` subtracts
   `count(DISTINCT event_id)`, which skips nulls, from `count(*)`: one unparseable
   record is a duplicate, and the check passes where `verify.py:13` promises SKIP.

Three observations that contradict no document:

- `source_count` is taken after deduplication and the duplicates are what is left, so
  the balance that the suite and the daily DAG check cannot fail.
- "silver deduplicated" and "replay is idempotent" compare two counts taken at
  different times, so a running stream can make them fail on a sound table.
  `ReplayAlarm` says that this is the only way for the second.
- The conservation check may pass although events are lost: an event that arrived
  while it counted, or a rule broken by a record without id, may stand in for
  each (`ConservationAnswer` bounds how many).

## What is not modelled

- The **incident detector**: a stateless filter from topic to topic, at least once.
- **Enrichment**, schema evolution, formatting, Gold aggregates (stateless SQL).
- **Corrections** of rows in Silver, and with them the key of `fact_driver_incident`.
- Two runs of the simulator with **one seed**, which issue the same ids, and the
  manifest of an earlier run that a failed one leaves in place.
- Whether a record counted in the manifest **was delivered**: the code counts a lost one
  as settled, and so does `ManifestTrue`.
- A position of the Silver query **inside a snapshot** (see the abstractions above).
- `remove_orphans`, which the DAG skips; maintenance of tables nobody streams from.
- A run **cleared days later** reports from a freshness check of the day it began;
  `ReportsWholeRun` states that day, not the day of the report.
- Reading and checking the **rule file**; temperature, battery, position and the
  reference fleet of the simulator, which no decision depends on.
- Spark's scheduling inside a batch, partition layout, file sizes, catalog bootstrap
  and seeding (create if absent, overwrite), configuration, Terraform, dashboards.

## Plan

Done: `SilverTransform` and `EventLedger`; the simulator with the quality rules;
`BronzeTable` with `AppendFeed`; `DailyPipeline` with `FullRefresh`; the verification
suite; the proofs of all their safety properties and refinements. What is left, in this order:

1. What holds of the disagreements below their claims: the grain of quarantine for
   starts that do not crash, and how many unidentified records a batch may lose.
2. Corrections in the facts, with the key of `fact_driver_incident`.
3. The incident detector.
