----------------------------- MODULE DailyPipeline -----------------------------
(***************************************************************************)
(* The daily batch pipeline, fleetstream_daily.py, and the incremental     *)
(* facts its dbt build merges (dbt/fleetstream/models/marts).              *)
(*                                                                         *)
(* A Silver row is the trip it belongs to and the day of its event; it may *)
(* reach Silver days after.  A fact is the set of Silver rows its contents *)
(* account for.  Time is counted in days.                                  *)
(***************************************************************************)
EXTENDS Integers, FiniteSets

CONSTANTS
    Facts,       \* the incremental models
    TripFacts,   \* those with one row per trip: fact_trip
    Trips,
    Lookback,    \* vars.lookback_days
    Staleness,   \* MAX_SOURCE_STALENESS
    Retries,     \* DEFAULT_ARGS["retries"]
    MaxLag,      \* a row reaches Silver at most so long after its event
    MaxSpan,     \* the days between two readings of one trip
    MaxGap,      \* the days between two builds of a fact
    MaxRows, MaxClock, MaxFailures   \* bounds: Silver rows, days, failed tasks

ASSUME PipelineAssumption ==
    /\ TripFacts \subseteq Facts
    /\ {Lookback, Staleness, Retries, MaxLag, MaxSpan, MaxGap} \subseteq Nat
    /\ {MaxRows, MaxClock, MaxFailures} \subseteq Nat

VARIABLES
    clock,
    silver,      \* the rows of silver.telemetry
    written,     \* the day of its latest processed_at
    facts,       \* for each fact the rows it accounts for
    lastBuilt,   \* for each fact the day it was last merged, or Never
    run,         \* the DAG run: its task, that task's attempt, the day it began
    pending,     \* the models this dbt build has still to build
    failed,      \* the last failed run, not cleared yet, or NoRun
    due,         \* the run of this day has not begun
    failures     \* counter for the bound

dataVars == <<clock, silver, written>>
factVars == <<facts, lastBuilt>>
dagVars  == <<run, pending, failed, due>>
vars == <<dataVars, factVars, dagVars, failures>>

Never == -1
Row   == [trip : Trips, day : Nat]
NoRun == [task |-> "idle", attempt |-> 0, day |-> 0]

\* freshness >> reconciliation >> build >> test >> quality, then publish_summary
After == [freshness |-> "reconciliation", reconciliation |-> "build", build |-> "test",
          test |-> "quality", quality |-> "publish"]
-----------------------------------------------------------------------------
Init ==
    /\ clock = 0
    /\ silver = {} /\ written = Never
    /\ facts = [f \in Facts |-> {}] /\ lastBuilt = [f \in Facts |-> Never]
    /\ run = NoRun /\ pending = {} /\ failed = NoRun
    /\ due = FALSE /\ failures = 0

\* The streaming layer writes a row.
Arrive ==
    /\ Cardinality(silver) < MaxRows
    /\ \E t \in Trips, d \in 0..clock :
        /\ clock <= d + MaxLag
        /\ \A r \in silver : r.trip = t => d <= r.day + MaxSpan /\ r.day <= d + MaxSpan
        /\ silver' = silver \union {[trip |-> t, day |-> d]}
    /\ written' = clock
    /\ UNCHANGED <<clock, factVars, dagVars, failures>>

\* A backfill or a replay merges rows Silver has, and stamps them anew.
Remerge ==
    /\ silver # {} /\ written # clock
    /\ written' = clock
    /\ UNCHANGED <<clock, silver, factVars, dagVars, failures>>

\* Days pass, and so do MaxGap of them at most between two builds of a fact.
Tick ==
    /\ clock < MaxClock
    /\ \A f \in Facts : lastBuilt[f] # Never => clock + 1 <= lastBuilt[f] + MaxGap
    /\ clock' = clock + 1 /\ due' = TRUE
    /\ UNCHANGED <<silver, written, factVars, run, pending, failed, failures>>

\* schedule, catchup, max_active_runs: the latest day only, and one run at a time.
StartRun ==
    /\ run.task = "idle" /\ due
    /\ run' = [task |-> "freshness", attempt |-> 0, day |-> clock] /\ due' = FALSE
    /\ UNCHANGED <<dataVars, factVars, pending, failed, failures>>

Succeed ==
    /\ run' = [run EXCEPT !.task = After[@], !.attempt = 0]
    /\ pending' = IF run'.task = "build" THEN Facts ELSE {}
    /\ UNCHANGED <<failed, due>>

\* faulty variant: attempts are not counted.
RetryForEver ==
    /\ run' = run /\ failed' = failed
    /\ pending' = IF run.task = "build" THEN Facts ELSE {}
    /\ UNCHANGED due
\* faulty variant: one attempt more.
RetryOnceMore ==
    /\ IF run.attempt <= Retries
       THEN run' = [run EXCEPT !.attempt = @ + 1] /\ failed' = failed
       ELSE run' = NoRun /\ failed' = [run EXCEPT !.attempt = 0]
    /\ pending' = IF run'.task = "build" THEN Facts ELSE {}
    /\ UNCHANGED due
\* The task raises: it is tried again from its start, at most Retries times, then the
\* run is over.
Raise ==
    /\ IF run.attempt < Retries
       THEN run' = [run EXCEPT !.attempt = @ + 1] /\ failed' = failed
       ELSE run' = NoRun /\ failed' = [run EXCEPT !.attempt = 0]
    /\ pending' = IF run'.task = "build" THEN Facts ELSE {}
    /\ UNCHANGED due

NeverStale == silver # {}   \* faulty variant: an old source will do
Fresh == silver # {} /\ clock - written <= Staleness

ValidateSourceFreshness ==
    /\ run.task = "freshness"
    /\ IF Fresh THEN Succeed ELSE Raise
    /\ UNCHANGED <<dataVars, factVars, failures>>

\* check_reconciliation: every recorded batch balances, its duplicates being what is
\* left of the source after the rejected and the output rows (SilverTransform,
\* Counters), so the check never raises.
CheckReconciliation ==
    /\ run.task = "reconciliation"
    /\ Succeed
    /\ UNCHANGED <<dataVars, factVars, failures>>

InWindow(day) == day >= clock - Lookback

\* faulty variant: a trip's row is selected, and computed, from its readings in the
\* window.
WindowRows(f) == {r \in silver : InWindow(r.day) \/ lastBuilt[f] = Never}
\* incremental_window: everything in the first build; later the rows of the last
\* Lookback days, and of a trip all of them if it began in these days.  The
\* intermediate models are views and filter nothing.
Recomputed(f) ==
    {r \in silver :
        \/ lastBuilt[f] = Never
        \/ f \notin TripFacts /\ InWindow(r.day)
        \/ f \in TripFacts /\ \A q \in silver : q.trip = r.trip => InWindow(q.day)}

Key(f, r) == IF f \in TripFacts THEN r.trip ELSE r.day

\* One model of dbt build, a merge of its own: what was computed again replaces what
\* the fact has under the same key.
BuildModel(f) ==
    /\ run.task = "build" /\ f \in pending
    /\ LET new == Recomputed(f)
            kept == {r \in facts[f] : \A q \in new : Key(f, q) # Key(f, r)}
       IN  facts' = [facts EXCEPT ![f] = kept \union new]
    /\ lastBuilt' = [lastBuilt EXCEPT ![f] = clock]
    /\ pending' = pending \ {f}
    /\ UNCHANGED <<dataVars, run, failed, due, failures>>

BuiltSome == run.task = "build" /\ pending # Facts   \* faulty variant: one model suffices
Built == run.task = "build" /\ pending = {}

\* dbt build ends with every model built; dbt test and quality_report only read.
FinishTask ==
    /\ Built \/ run.task \in {"test", "quality"}
    /\ Succeed
    /\ UNCHANGED <<dataVars, factVars, failures>>

PublishSummary ==
    /\ run.task = "publish"
    /\ run' = NoRun
    /\ UNCHANGED <<dataVars, factVars, pending, failed, due, failures>>

\* Anything else that makes a task raise: Trino, Docker, a dbt test that fails.
FailTask ==
    /\ run.task # "idle" /\ failures < MaxFailures
    /\ Raise
    /\ failures' = failures + 1
    /\ UNCHANGED <<dataVars, factVars>>

\* "a failed run can simply be cleared and re-run": its failed task and what follows,
\* or all of it.
ClearRun ==
    /\ run.task = "idle" /\ failed # NoRun
    /\ \E task \in {failed.task, "freshness"} :
        /\ run' = [failed EXCEPT !.task = task]
        /\ pending' = IF task = "build" THEN Facts ELSE {}
    /\ failed' = NoRun
    /\ UNCHANGED <<dataVars, factVars, due, failures>>

Task ==
    \/ ValidateSourceFreshness \/ CheckReconciliation
    \/ \E f \in Facts : BuildModel(f)
    \/ FinishTask \/ PublishSummary

Next == Arrive \/ Remerge \/ Tick \/ StartRun \/ Task \/ FailTask \/ ClearRun

Spec == Init /\ [][Next]_vars

\* A task that has started comes to an end.
LiveSpec == Spec /\ WF_vars(Task)
-----------------------------------------------------------------------------
(* Properties.                                                             *)

Tasks == DOMAIN After \union {"idle", "publish"}

\* Types, and that a fact holds nothing Silver does not.
TypeOK ==
    /\ clock \in Nat /\ silver \subseteq Row /\ written \in Nat \union {Never}
    /\ facts \in [Facts -> SUBSET silver]
    /\ lastBuilt \in [Facts -> Nat \union {Never}]
    /\ run \in [task : Tasks, attempt : 0..Retries, day : Nat]
    /\ pending \subseteq Facts /\ (pending # {} => run.task = "build")
    /\ failed \in [task : Tasks, attempt : {0}, day : Nat]
    /\ due \in BOOLEAN /\ failures \in Nat

\* The window is long enough when a row's lag, what a trip has lasted by then, and the
\* time since the last build fit into it together; a lookback set from the lag alone, as
\* dbt_project.yml has it, is not.
WindowSuffices == MaxLag + MaxSpan + MaxGap <= Lookback

\* Every build leaves a fact as a full refresh would, although it computes the last
\* days only and builds fail half-way, are retried, and run while Silver is written
\* (incremental_window.sql; fleetstream_daily.py: the models "finish with exactly the
\* state a single run produces").
Refresh == INSTANCE FullRefresh WITH source <- silver
BuildsAsFullRefresh == Refresh!Spec

\* A run that gets as far as its report has merged every fact since it began, however
\* often its build failed half-way, and from a source that was being written when it
\* began, cleared or not.
ReportsWholeRun ==
    run.task \in {"test", "quality", "publish"} =>
        \A f \in Facts : lastBuilt[f] >= run.day /\ written >= run.day - Staleness

\* The inductive invariant behind the two properties above; the report needs the part that
\* holds whatever the window.
Times ==
    /\ written <= clock /\ run.day <= clock /\ failed.day <= clock
    /\ \A f \in Facts : lastBuilt[f] <= clock
Gaps  == \A f \in Facts : lastBuilt[f] # Never => clock <= lastBuilt[f] + MaxGap
Spans == \A r, q \in silver : r.trip = q.trip => r.day <= q.day + MaxSpan
\* What a fact does not have yet has arrived since it was built.
MissingIsRecent ==
    \A f \in Facts : lastBuilt[f] # Never =>
        \A r \in silver \ facts[f] : lastBuilt[f] <= r.day + MaxLag
\* How far a run got, which a failed run keeps until it is cleared.
Merged(r, fs) == \A f \in fs : lastBuilt[f] >= r.day
Checked(r)    == r.task \notin {"idle", "freshness"} => written >= r.day - Staleness
Progress ==
    /\ Checked(run) /\ Checked(failed)
    /\ run.task = "build" => Merged(run, Facts \ pending)
    /\ run.task \in {"test", "quality", "publish"} => Merged(run, Facts)
    /\ failed.task \in {"test", "quality", "publish"} => Merged(failed, Facts)
RunSound == TypeOK /\ Times /\ Gaps /\ Spans /\ Progress
DInv == RunSound /\ MissingIsRecent

\* Every run ends, so the next one can begin: retries are counted.
RunEnds == run.task # "idle" ~> run.task = "idle"
=============================================================================
