-------------------------- MODULE DailyPipelineProofs --------------------------
(***************************************************************************)
(* Proofs about DailyPipeline: its types, that a run which gets to its     *)
(* report has merged every fact, and that the incremental builds leave the *)
(* facts as full refreshes would.  The first two follow from RunSound,     *)
(* which needs nothing of the window; the last from DInv.                  *)
(***************************************************************************)
EXTENDS DailyPipeline, TLAPS

\* The constants the lookback is about are numbers.
LEMMA Numbers ==
    /\ Lookback \in Nat /\ Staleness \in Nat /\ Retries \in Nat
    /\ MaxLag \in Nat /\ MaxSpan \in Nat /\ MaxGap \in Nat
BY PipelineAssumption DEF PipelineAssumption

\* The task after a task is a task, and none begins the run again.
LEMMA Order ==
    \A t \in DOMAIN After :
        /\ After[t] \in Tasks \ {"idle", "freshness"}
        /\ After[t] = "build" <=> t = "reconciliation"
        /\ After[t] \in {"test", "quality", "publish"} <=> t \in {"build", "test", "quality"}
BY DEF After, Tasks

LEMMA TaskNames == Tasks =
    {"idle", "freshness", "reconciliation", "build", "test", "quality", "publish"}
BY DEF Tasks, After

LEMMA NoRunIsARun == NoRun \in [task : Tasks, attempt : {0}, day : Nat]
BY TaskNames DEF NoRun

LEMMA Initially == Init => RunSound
<1> SUFFICES ASSUME Init PROVE RunSound
    OBVIOUS
<1>1. /\ clock = 0 /\ silver = {} /\ written = -1
      /\ facts = [f \in Facts |-> {}] /\ lastBuilt = [f \in Facts |-> -1]
      /\ run = NoRun /\ pending = {} /\ failed = NoRun /\ due = FALSE /\ failures = 0
    BY DEF Init, Never
<1>2. TypeOK
  <2>1. run \in [task : Tasks, attempt : 0..Retries, day : Nat]
      BY <1>1, TaskNames, Numbers DEF NoRun
  <2>2. facts \in [Facts -> SUBSET silver] /\ lastBuilt \in [Facts -> Nat \union {Never}]
      BY <1>1 DEF Never
  <2> QED BY <1>1, <2>1, <2>2, NoRunIsARun DEF TypeOK, Never, NoRun
<1>3. Times /\ Gaps /\ Spans
    BY <1>1 DEF Times, Gaps, Spans, Never, NoRun
<1>4. Progress
    BY <1>1 DEF Progress, Checked, NoRun
<1> QED BY <1>2, <1>3, <1>4 DEF RunSound

\* A row of Silver: it is no older than MaxLag, and within MaxSpan of its trip's others.
LEMMA ArriveKeeps == RunSound /\ Arrive => RunSound'
<1> SUFFICES ASSUME RunSound, Arrive PROVE RunSound'
    OBVIOUS
<1> USE Numbers
<1>1. PICK t \in Trips, d \in 0..clock :
        /\ clock <= d + MaxLag
        /\ \A r \in silver : r.trip = t => d <= r.day + MaxSpan /\ r.day <= d + MaxSpan
        /\ silver' = silver \union {[trip |-> t, day |-> d]}
    BY DEF Arrive
<1> DEFINE new == [trip |-> t, day |-> d]
<1>2. /\ new \in Row /\ new.trip = t /\ new.day = d /\ d \in Nat /\ clock \in Nat
      /\ written' = clock
      /\ UNCHANGED <<clock, facts, lastBuilt, run, pending, failed, due, failures>>
    BY DEF RunSound, TypeOK, Row, Arrive, factVars, dagVars
<1>3. TypeOK'
    BY <1>1, <1>2 DEF RunSound, TypeOK
<1>4. Times' /\ Gaps'
    BY <1>2 DEF RunSound, TypeOK, Times, Gaps
<1>5. Spans'
  <2> SUFFICES ASSUME NEW r \in silver', NEW q \in silver', r.trip = q.trip
               PROVE  r.day <= q.day + MaxSpan
      BY <1>2 DEF Spans
  <2>1. silver \subseteq Row
      BY DEF RunSound, TypeOK
  <2>2. CASE r \in silver /\ q \in silver
      BY <2>2 DEF RunSound, Spans
  <2>3. CASE r = new \/ q = new
      BY <1>1, <1>2, <2>1, <2>3 DEF Row
  <2> QED BY <1>1, <2>2, <2>3
<1>6. Progress'
    BY <1>2 DEF RunSound, Progress, Checked, Merged, TypeOK, Times, Tasks, Never
<1> QED BY <1>3, <1>4, <1>5, <1>6 DEF RunSound

\* A newer stamp on what Silver has: what a run has checked holds all the more.
LEMMA RemergeKeeps == RunSound /\ Remerge => RunSound'
<1> SUFFICES ASSUME RunSound, Remerge PROVE RunSound'
    OBVIOUS
<1> USE Numbers
<1>1. /\ written' = clock /\ clock \in Nat
      /\ UNCHANGED <<clock, silver, facts, lastBuilt, run, pending, failed, due, failures>>
    BY DEF RunSound, TypeOK, Remerge, factVars, dagVars
<1>2. TypeOK' /\ Times' /\ Gaps' /\ Spans'
    BY <1>1 DEF RunSound, TypeOK, Times, Gaps, Spans
<1>3. Progress'
    BY <1>1 DEF RunSound, Progress, Checked, Merged, TypeOK, Times, Tasks, Never
<1> QED BY <1>2, <1>3 DEF RunSound

LEMMA TickKeeps == RunSound /\ Tick => RunSound'
<1> SUFFICES ASSUME RunSound, Tick PROVE RunSound'
    OBVIOUS
<1> USE Numbers
<1>1. /\ clock \in Nat /\ clock' = clock + 1 /\ due' = TRUE
      /\ UNCHANGED <<silver, written, facts, lastBuilt, run, pending, failed, failures>>
    BY DEF RunSound, TypeOK, Tick, factVars
<1>2. TypeOK'
    BY <1>1 DEF RunSound, TypeOK
<1>3. Times'
    BY <1>1 DEF RunSound, Times, TypeOK, Never
<1>4. Gaps'
    BY <1>1 DEF Tick, Gaps
<1>5. Spans'
    BY <1>1 DEF RunSound, Spans
<1>6. Progress'
    BY <1>1 DEF RunSound, Progress, Checked, Merged
<1> QED BY <1>2, <1>3, <1>4, <1>5, <1>6 DEF RunSound

\* Silver and the facts are left alone by every other step but BuildModel.
DataKept == UNCHANGED <<clock, silver, written, facts, lastBuilt>>

LEMMA DataKeptKeeps == RunSound /\ DataKept => Gaps' /\ Spans'
BY DEF RunSound, DataKept, Gaps, Spans

LEMMA StartRunKeeps == RunSound /\ StartRun => RunSound'
<1> SUFFICES ASSUME RunSound, StartRun PROVE RunSound'
    OBVIOUS
<1> USE Numbers
<1>1. DataKept /\ UNCHANGED <<pending, failed, failures>>
    BY DEF StartRun, DataKept, dataVars, factVars
<1>2. run' = [task |-> "freshness", attempt |-> 0, day |-> clock] /\ due' = FALSE
    BY DEF StartRun
<1>3. TypeOK'
  <2>1. run' \in [task : Tasks, attempt : 0..Retries, day : Nat]
      BY <1>2, TaskNames DEF RunSound, TypeOK
  <2>2. pending = {}
      BY DEF StartRun, RunSound, TypeOK
  <2> QED BY <1>1, <1>2, <2>1, <2>2 DEF RunSound, TypeOK, DataKept
<1>4. Times'
    BY <1>1, <1>2 DEF RunSound, Times, TypeOK, DataKept
<1>5. Progress'
    BY <1>1, <1>2 DEF RunSound, Progress, Checked, Merged, DataKept
<1> QED BY <1>1, <1>3, <1>4, <1>5, DataKeptKeeps DEF RunSound

\* A task that succeeds hands over to the next; what that one may rely on is given.
LEMMA SucceedKeeps ==
    ASSUME RunSound, DataKept, Succeed, UNCHANGED failures, run.task \in DOMAIN After,
           run.task = "freshness" => written >= run.day - Staleness,
           run.task = "build" => pending = {}
    PROVE  RunSound'
<1> USE Numbers
<1>1. /\ run' = [run EXCEPT !.task = After[run.task], !.attempt = 0]
      /\ pending' = IF run'.task = "build" THEN Facts ELSE {}
      /\ UNCHANGED <<failed, due>>
    BY DEF Succeed
<1>2. /\ run'.task = After[run.task] /\ run'.day = run.day
      /\ run' \in [task : Tasks, attempt : 0..Retries, day : Nat]
  <2>1. run \in [task : Tasks, attempt : 0..Retries, day : Nat]
      BY DEF RunSound, TypeOK
  <2>2. After[run.task] \in Tasks
      BY Order
  <2>3. run' = [task |-> After[run.task], attempt |-> 0, day |-> run.day]
      BY <1>1, <2>1
  <2>4. run.day \in Nat /\ 0 \in 0..Retries
      BY <2>1
  <2>5. run' \in [task : Tasks, attempt : 0..Retries, day : Nat]
      BY <2>2, <2>3, <2>4, Zenon
  <2> QED BY <2>3, <2>5, Zenon
<1>3. TypeOK'
    BY <1>1, <1>2 DEF RunSound, TypeOK, DataKept
<1>4. Times'
    BY <1>1, <1>2 DEF RunSound, Times, DataKept
<1>5. Checked(run)'
    BY <1>1, <1>2 DEF RunSound, Progress, Checked, DataKept, After
<1>6. run'.task = "build" => Merged(run, Facts \ pending)'
    BY <1>1 DEF Merged
<1>7. ASSUME run'.task \in {"test", "quality", "publish"} PROVE Merged(run, Facts)'
  <2>1. run.task \in {"build", "test", "quality"}
      BY <1>2, <1>7, Order
  <2>2. Merged(run, Facts)
      BY <2>1 DEF RunSound, Progress, Merged
  <2> QED BY <1>2, <2>2 DEF Merged, DataKept
<1>8. Checked(failed)' /\ (failed'.task \in {"test", "quality", "publish"} => Merged(failed, Facts)')
    BY <1>1 DEF RunSound, Progress, Checked, Merged, DataKept
<1> QED BY <1>3, <1>4, <1>5, <1>6, <1>7, <1>8, DataKeptKeeps DEF RunSound, Progress

\* A task that raises is tried again, or ends its run.
LEMMA RaiseKeeps ==
    ASSUME RunSound, DataKept, Raise, failures' \in Nat, run.task # "idle"
    PROVE  RunSound'
<1> USE Numbers
<1>1. /\ pending' = (IF run'.task = "build" THEN Facts ELSE {})
      /\ UNCHANGED due
    BY DEF Raise
<1>2. CASE run.attempt < Retries
  <2>1. run' = [run EXCEPT !.attempt = @ + 1] /\ failed' = failed
      BY <1>2 DEF Raise
  <2>2. /\ run'.task = run.task /\ run'.day = run.day
        /\ run' \in [task : Tasks, attempt : 0..Retries, day : Nat]
      BY <1>2, <2>1 DEF RunSound, TypeOK
  <2>3. TypeOK'
      BY <1>1, <2>1, <2>2 DEF RunSound, TypeOK, DataKept
  <2>4. Times'
      BY <2>1, <2>2 DEF RunSound, Times, DataKept
  <2>5. Progress'
      BY <1>1, <2>1, <2>2 DEF RunSound, Progress, Checked, Merged, DataKept
  <2> QED BY <2>3, <2>4, <2>5, DataKeptKeeps DEF RunSound
<1>3. CASE ~(run.attempt < Retries)
  <2>1. run' = NoRun /\ failed' = [run EXCEPT !.attempt = 0]
      BY <1>3 DEF Raise
  <2>2. /\ failed'.task = run.task /\ failed'.day = run.day
        /\ failed' \in [task : Tasks, attempt : {0}, day : Nat]
      BY <2>1 DEF RunSound, TypeOK
  <2>3. TypeOK'
      BY <1>1, <2>1, <2>2 DEF RunSound, TypeOK, DataKept, NoRun, Tasks
  <2>4. Times'
      BY <2>1, <2>2 DEF RunSound, Times, DataKept, NoRun, TypeOK
  <2>5. Progress'
      BY <2>1, <2>2 DEF RunSound, Progress, Checked, Merged, DataKept, NoRun
  <2> QED BY <2>3, <2>4, <2>5, DataKeptKeeps DEF RunSound
<1> QED BY <1>2, <1>3

LEMMA FreshnessKeeps == RunSound /\ ValidateSourceFreshness => RunSound'
<1> SUFFICES ASSUME RunSound, ValidateSourceFreshness PROVE RunSound'
    OBVIOUS
<1>1. DataKept /\ UNCHANGED failures /\ run.task = "freshness"
    BY DEF ValidateSourceFreshness, DataKept, dataVars, factVars
<1>2. CASE Fresh
  <2>1. Succeed
      BY <1>2 DEF ValidateSourceFreshness
  <2>2. written \in Int /\ clock \in Nat /\ run.day \in Nat /\ run.day <= clock
      BY DEF RunSound, TypeOK, Times, Never
  <2>3. written >= run.day - Staleness
      BY <1>2, <2>2, Numbers DEF Fresh
  <2> QED BY <1>1, <2>1, <2>3, SucceedKeeps DEF After
<1>3. CASE ~Fresh
  <2>1. Raise /\ failures' \in Nat
      BY <1>1, <1>3 DEF ValidateSourceFreshness, RunSound, TypeOK
  <2> QED BY <1>1, <2>1, RaiseKeeps
<1> QED BY <1>2, <1>3

LEMMA CheckKeeps == RunSound /\ (CheckReconciliation \/ FinishTask) => RunSound'
<1> SUFFICES ASSUME RunSound, CheckReconciliation \/ FinishTask PROVE RunSound'
    OBVIOUS
<1>1. DataKept /\ UNCHANGED failures /\ Succeed
    BY DEF CheckReconciliation, FinishTask, DataKept, dataVars, factVars
<1>2. /\ run.task \in {"reconciliation", "build", "test", "quality"}
      /\ run.task = "build" => pending = {}
    BY DEF CheckReconciliation, FinishTask, Built
<1> QED BY <1>1, <1>2, SucceedKeeps DEF After

LEMMA FailKeeps == RunSound /\ FailTask => RunSound'
<1> SUFFICES ASSUME RunSound, FailTask PROVE RunSound'
    OBVIOUS
<1>1. DataKept /\ Raise /\ run.task # "idle" /\ failures' \in Nat
    BY DEF FailTask, DataKept, dataVars, factVars, RunSound, TypeOK
<1> QED BY <1>1, RaiseKeeps

LEMMA PublishKeeps == RunSound /\ PublishSummary => RunSound'
<1> SUFFICES ASSUME RunSound, PublishSummary PROVE RunSound'
    OBVIOUS
<1> USE Numbers
<1>1. DataKept /\ run' = NoRun /\ UNCHANGED <<pending, failed, due, failures>>
    BY DEF PublishSummary, DataKept, dataVars, factVars
<1>2. pending = {}
    BY DEF PublishSummary, RunSound, TypeOK
<1>3. TypeOK'
    BY <1>1, <1>2 DEF RunSound, TypeOK, DataKept, NoRun, Tasks
<1>4. Times'
    BY <1>1 DEF RunSound, Times, DataKept, NoRun, TypeOK
<1>5. Progress'
    BY <1>1 DEF RunSound, Progress, Checked, Merged, DataKept, NoRun
<1> QED BY <1>1, <1>3, <1>4, <1>5, DataKeptKeeps DEF RunSound

LEMMA ClearKeeps == RunSound /\ ClearRun => RunSound'
<1> SUFFICES ASSUME RunSound, ClearRun PROVE RunSound'
    OBVIOUS
<1> USE Numbers
<1>1. PICK task \in {failed.task, "freshness"} :
        /\ run' = [failed EXCEPT !.task = task]
        /\ pending' = IF task = "build" THEN Facts ELSE {}
    BY DEF ClearRun
<1>2. DataKept /\ failed' = NoRun /\ UNCHANGED <<due, failures>>
    BY DEF ClearRun, DataKept, dataVars, factVars
<1>3. /\ run'.task = task /\ run'.day = failed.day
      /\ run' \in [task : Tasks, attempt : 0..Retries, day : Nat]
    BY <1>1 DEF RunSound, TypeOK, Tasks, After
<1>4. TypeOK'
    BY <1>1, <1>2, <1>3 DEF RunSound, TypeOK, DataKept, NoRun, Tasks
<1>5. Times'
    BY <1>2, <1>3 DEF RunSound, Times, DataKept, NoRun, TypeOK
<1>6. Progress'
    BY <1>1, <1>2, <1>3 DEF RunSound, Progress, Checked, Merged, DataKept, NoRun
<1> QED BY <1>2, <1>4, <1>5, <1>6, DataKeptKeeps DEF RunSound

\* One model built: the fact now accounts for all of Silver.  The rows it had not yet
\* are recent enough to be in the window, with their trips; of the others none is
\* replaced without being computed again.
LEMMA BuildRefreshes ==
    ASSUME DInv, WindowSuffices, NEW f \in Facts, BuildModel(f)
    PROVE  facts' = [facts EXCEPT ![f] = silver]
<1> USE Numbers
<1> DEFINE new  == Recomputed(f)
           kept == {r \in facts[f] : \A q \in new : Key(f, q) # Key(f, r)}
<1>1. facts' = [facts EXCEPT ![f] = kept \union new]
    BY DEF BuildModel
<1>2. /\ clock \in Nat /\ silver \subseteq Row /\ facts[f] \subseteq silver
      /\ lastBuilt[f] \in Nat \union {Never}
    BY DEF DInv, RunSound, TypeOK
<1>3. kept \union new \subseteq silver
    BY <1>2 DEF Recomputed
<1>4. ASSUME NEW r \in silver PROVE r \in kept \union new
  <2>1. CASE lastBuilt[f] = Never
      BY <2>1 DEF Recomputed
  <2>2. CASE lastBuilt[f] # Never /\ r \notin facts[f]
    <3>1. lastBuilt[f] <= r.day + MaxLag /\ clock <= lastBuilt[f] + MaxGap
        BY <2>2 DEF DInv, RunSound, MissingIsRecent, Gaps
    <3>2. ASSUME NEW q \in silver, q.trip = r.trip PROVE InWindow(q.day)
      <4>1. r.day <= q.day + MaxSpan
          BY <3>2 DEF DInv, RunSound, Spans
      <4>2. r.day \in Nat /\ q.day \in Nat /\ lastBuilt[f] \in Nat
          BY <1>2, <2>2 DEF Row
      <4> QED BY <1>2, <3>1, <4>1, <4>2 DEF WindowSuffices, InWindow
    <3>3. InWindow(r.day)
        BY <3>2
    <3> QED BY <3>2, <3>3 DEF Recomputed
  <2>3. CASE lastBuilt[f] # Never /\ r \in facts[f]
    <3>1. SUFFICES ASSUME r \notin kept PROVE r \in new
        OBVIOUS
    <3>2. PICK q \in new : Key(f, q) = Key(f, r)
        BY <2>3, <3>1
    <3>3. CASE f \in TripFacts
        BY <2>3, <3>2, <3>3 DEF Recomputed, Key
    <3>4. CASE f \notin TripFacts
        BY <2>3, <3>2, <3>4 DEF Recomputed, Key
    <3> QED BY <3>3, <3>4
  <2> QED BY <2>1, <2>2, <2>3
<1>5. kept \union new = silver
    BY <1>3, <1>4
<1> QED BY <1>1, <1>5

\* A build takes nothing but what Silver has, and its fact is then built at the run's day
\* or later.
LEMMA BuildKeeps == RunSound /\ (\E f \in Facts : BuildModel(f)) => RunSound'
<1> SUFFICES ASSUME RunSound, NEW f \in Facts, BuildModel(f) PROVE RunSound'
    OBVIOUS
<1> USE Numbers
<1> DEFINE new   == Recomputed(f)
           built == {r \in facts[f] : \A q \in new : Key(f, q) # Key(f, r)} \union new
<1>1. /\ facts' = [facts EXCEPT ![f] = built]
      /\ lastBuilt' = [lastBuilt EXCEPT ![f] = clock] /\ pending' = pending \ {f}
      /\ UNCHANGED <<clock, silver, written, run, failed, due, failures>>
      /\ run.task = "build"
    BY DEF BuildModel, dataVars
<1>2. clock \in Nat /\ lastBuilt[f] <= clock
    BY DEF RunSound, TypeOK, Times
<1>3. built \subseteq silver
    BY DEF RunSound, TypeOK, Recomputed
<1> HIDE DEF new, built
<1>4. TypeOK'
    BY <1>1, <1>2, <1>3 DEF RunSound, TypeOK
<1>5. Times' /\ Gaps' /\ Spans'
    BY <1>1, <1>2 DEF RunSound, TypeOK, Times, Gaps, Spans
<1>6. \A g \in Facts : lastBuilt'[g] >= lastBuilt[g]
    BY <1>1, <1>2 DEF RunSound, TypeOK, Never
<1>7. lastBuilt'[f] >= run.day
    BY <1>1, <1>2 DEF RunSound, TypeOK, Times
<1>8. Progress'
    BY <1>1, <1>6, <1>7 DEF RunSound, Progress, Checked, Merged, TypeOK, Times, Never
<1> QED BY <1>4, <1>5, <1>8 DEF RunSound

LEMMA RunStep == RunSound /\ [Next]_vars => RunSound'
<1> SUFFICES ASSUME RunSound, [Next]_vars PROVE RunSound'
    OBVIOUS
<1>1. CASE Next
    BY <1>1, ArriveKeeps, RemergeKeeps, TickKeeps, StartRunKeeps, FreshnessKeeps, CheckKeeps, BuildKeeps,
       PublishKeeps, FailKeeps, ClearKeeps DEF Next, Task
<1>2. CASE UNCHANGED vars
    BY <1>2 DEF vars, dataVars, factVars, dagVars, RunSound, TypeOK, Times, Gaps, Spans,
       Progress, Checked, Merged
<1> QED BY <1>1, <1>2

\* A row a fact misses has arrived since it was built: a new row is no older than MaxLag,
\* and a build of a window that suffices leaves none missing.
LEMMA MissingStep == DInv /\ WindowSuffices /\ [Next]_vars => MissingIsRecent'
<1> SUFFICES ASSUME DInv, WindowSuffices, [Next]_vars PROVE MissingIsRecent'
    OBVIOUS
<1> USE Numbers
<1>1. CASE Arrive
  <2>1. PICK t \in Trips, d \in 0..clock :
          clock <= d + MaxLag /\ silver' = silver \union {[trip |-> t, day |-> d]}
      BY <1>1 DEF Arrive
  <2>2. UNCHANGED <<facts, lastBuilt>>
      BY <1>1 DEF Arrive, factVars
  <2> SUFFICES ASSUME NEW f \in Facts, lastBuilt[f] # Never, NEW r \in silver' \ facts[f]
               PROVE  lastBuilt[f] <= r.day + MaxLag
      BY <2>2 DEF MissingIsRecent
  <2>3. CASE r \in silver
      BY <2>3 DEF DInv, MissingIsRecent
  <2>4. CASE r = [trip |-> t, day |-> d]
      BY <2>1, <2>4 DEF DInv, RunSound, Times, TypeOK, Never
  <2> QED BY <2>1, <2>3, <2>4
<1>2. ASSUME NEW f \in Facts, BuildModel(f) PROVE MissingIsRecent'
  <2>1. /\ facts' = [facts EXCEPT ![f] = silver] /\ silver' = silver
        /\ lastBuilt' = [lastBuilt EXCEPT ![f] = clock]
      BY <1>2, BuildRefreshes DEF BuildModel, dataVars
  <2> QED BY <2>1 DEF DInv, RunSound, TypeOK, MissingIsRecent
<1>3. CASE UNCHANGED <<silver, facts, lastBuilt>>
    BY <1>3 DEF DInv, MissingIsRecent
<1> QED BY <1>1, <1>2, <1>3
        DEF Next, Task, Remerge, Tick, StartRun, ValidateSourceFreshness, CheckReconciliation,
            FinishTask, PublishSummary, FailTask, ClearRun, vars, dataVars, factVars

\* Whatever the window, the lag and the retries: the types, what a run has checked and
\* merged by the task it is at, and what a failed run keeps until it is cleared.
THEOREM RunsAreSound == Spec => []RunSound
<1>1. Init => RunSound
    BY Initially
<1> QED BY <1>1, RunStep, PTL DEF Spec

\* The DAG's record keeps its types, and no fact holds a row that Silver does not.
THEOREM PipelineTypes == Spec => []TypeOK
<1>1. RunSound => TypeOK
    BY DEF RunSound
<1> QED BY <1>1, RunsAreSound, PTL

\* A run that gets to its report has merged every fact since it began, from a source
\* that was being written then, whatever the window of the incremental models.
THEOREM ReportsWholeRunHolds == Spec => []ReportsWholeRun
<1>1. RunSound => ReportsWholeRun
    BY DEF RunSound, Progress, Checked, Merged, ReportsWholeRun
<1> QED BY <1>1, RunsAreSound, PTL

\* Whatever the facts, the trips, the retries and the lag, span and gap a sufficient window
\* covers: no fact misses a row that was more than MaxLag days old when it was last built.
THEOREM PipelineInvariant == WindowSuffices => (Spec => []DInv)
<1> SUFFICES ASSUME WindowSuffices PROVE Spec => []DInv
    OBVIOUS
<1>1. Init => DInv
    BY Initially DEF DInv, Init, MissingIsRecent, Never
<1>2. DInv /\ [Next]_vars => DInv'
    BY RunStep, MissingStep DEF DInv
<1> QED BY <1>1, <1>2, PTL DEF Spec

\* The incremental builds of fleetstream_daily implement full refreshes.
THEOREM BuildsAsFullRefreshHolds == WindowSuffices => (Spec => BuildsAsFullRefresh)
<1> SUFFICES ASSUME WindowSuffices PROVE Spec => BuildsAsFullRefresh
    OBVIOUS
<1>1. Init => Refresh!Init
    BY DEF Init, Refresh!Init
<1>2. DInv /\ [Next]_vars => [Refresh!Next]_<<silver, facts>>
  <2> SUFFICES ASSUME DInv, [Next]_vars PROVE [Refresh!Next]_<<silver, facts>>
      OBVIOUS
  <2>1. CASE Arrive
      BY <2>1 DEF Arrive, factVars, Refresh!Next, Refresh!Arrive
  <2>2. CASE \E f \in Facts : BuildModel(f)
    <3>1. PICK f \in Facts : BuildModel(f)
        BY <2>2
    <3>2. facts' = [facts EXCEPT ![f] = silver] /\ UNCHANGED silver
        BY <3>1, BuildRefreshes DEF BuildModel, dataVars
    <3> QED BY <3>2 DEF Refresh!Next, Refresh!Refresh
  <2>3. CASE \/ Remerge \/ Tick \/ StartRun \/ ValidateSourceFreshness \/ CheckReconciliation
             \/ FinishTask \/ PublishSummary \/ FailTask \/ ClearRun \/ UNCHANGED vars
      BY <2>3 DEF Remerge, Tick, StartRun, ValidateSourceFreshness, CheckReconciliation, FinishTask,
         PublishSummary, FailTask, ClearRun, vars, dataVars, factVars
  <2> QED BY <2>1, <2>2, <2>3 DEF Next, Task
<1> QED BY <1>1, <1>2, PipelineInvariant, PTL DEF Spec, BuildsAsFullRefresh, Refresh!Spec
================================================================================
