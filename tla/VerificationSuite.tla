--------------------------- MODULE VerificationSuite ---------------------------
(***************************************************************************)
(* The verification suite, verify.py, run against a live platform: its     *)
(* checks are sequences of counts, each a query of its own, and ingestion, *)
(* the Silver stream and its failures go on between any two of them.  The  *)
(* last check replays a sample through write_batch, as the second writer   *)
(* of SilverTransform.                                                     *)
(***************************************************************************)
EXTENDS SilverTransform

CONSTANT Tolerance   \* events the conservation check lets be in flight

ASSUME ToleranceAssumption == Tolerance \in Nat

VARIABLE suite
\* at     - the query that comes next: "off" before, "over" after the run
\* read   - what the current check has counted so far
\* last   - the latest answer of the report, failed - the checks that have failed
\* base   - events the current check is about (history, no part of the code)
\* quiet  - nothing else has happened since the suite started (history)

suiteVars == <<vars, suite>>

NothingRead == [total |-> 0, missing |-> 0]
NoAnswer    == [check |-> "none", status |-> "SKIP"]
Ids(S)      == S \ {NoId}                        \* count(DISTINCT event_id) skips null
Undecided   == Ids(ArrivedIds) \ Decided
-----------------------------------------------------------------------------
SuiteInit ==
    /\ Init
    /\ suite = [at |-> "off", read |-> NothingRead, last |-> NoAnswer, failed |-> {},
                base |-> {}, quiet |-> TRUE]

\* report.add, and on to the next check.
Answer(check, status, next) ==
    suite' = [suite EXCEPT !.at = next, !.read = NothingRead, !.base = {},
                           !.last = [check |-> check, status |-> status],
                           !.failed = IF status = "FAIL" THEN @ \union {check} ELSE @]

\* A query whose count is kept for a later one of the same check.
Count(total, missing, base, next) ==
    suite' = [suite EXCEPT !.at = next, !.base = base, !.last = NoAnswer,
                           !.read = [total |-> total, missing |-> missing]]

StartSuite ==
    /\ suite.at = "off"
    /\ suite' = [suite EXCEPT !.at = "bronze"]

\* check_bronze_has_data; without data there is no other check.
CheckBronzeHasData ==
    /\ suite.at = "bronze"
    /\ IF bronze = << >> THEN Answer("bronze ingested", "FAIL", "over")
       ELSE Answer("bronze ingested", "PASS", "duplicates")

\* check_duplicates_were_present_and_removed: two counts of Bronze, two of Silver.
CheckDuplicatesPresent ==
    \/ /\ suite.at = "duplicates"
       /\ Count(Len(bronze), 0, {}, "distinct bronze")
    \/ /\ suite.at = "distinct bronze"
       /\ Answer("duplicates injected",
                 IF suite.read.total = Cardinality(Ids(ArrivedIds)) THEN "SKIP" ELSE "PASS",
                 "silver")

CheckDuplicatesRemoved ==
    \/ /\ suite.at = "silver"
       /\ Count(Cardinality(silver), 0, SilverIds, "distinct silver")
    \/ /\ suite.at = "distinct silver"
       /\ Answer("silver deduplicated",
                 IF suite.read.total = 0 THEN "SKIP"
                 ELSE IF suite.read.total # Cardinality(Ids(SilverIds)) THEN "FAIL" ELSE "PASS",
                 "conserved")

QuarantinedNothing == 0                        \* faulty variant: Silver alone is counted
QuarantinedRows == Cardinality(quarantine)     \* faulty variant: rows, not events
\* Records without event_id, as the quarantine is counted: one for each of their rules.
Masked == Cardinality({q.rule : q \in {x \in quarantine : EventId(x.pos) = NoId}})
\* count(DISTINCT coalesce(event_id, quarantine_id)): the quarantine_id of a row without
\* event_id is a hash of its rule alone.
QuarantinedEvents == Cardinality(Ids(QuarantineIds)) + Masked

\* faulty variant: Bronze is counted last.
CheckConservationLate ==
    \/ /\ suite.at = "conserved"
       /\ Count(0, -Cardinality(silver), Undecided, "accounted")
    \/ /\ suite.at = "accounted"
       /\ Count(0, suite.read.missing - QuarantinedEvents, suite.base, "quarantined")
    \/ /\ suite.at = "quarantined"
       /\ Answer("rows conserved",
                 IF suite.read.missing + Cardinality(Ids(ArrivedIds)) > Tolerance
                 THEN "FAIL" ELSE "PASS", "quarantine")
\* check_row_conservation: Bronze first, then Silver, then the quarantine.
CheckRowConservation ==
    \/ /\ suite.at = "conserved"
       /\ LET distinct == Cardinality(Ids(ArrivedIds))
          IN  Count(distinct, distinct, Undecided, "accounted")
    \/ /\ suite.at = "accounted"
       /\ Count(suite.read.total, suite.read.missing - Cardinality(silver), suite.base,
                "quarantined")
    \/ /\ suite.at = "quarantined"
       /\ Answer("rows conserved",
                 IF suite.read.total = 0 THEN "SKIP"
                 ELSE IF suite.read.missing - QuarantinedEvents > Tolerance THEN "FAIL" ELSE "PASS",
                 "quarantine")

\* check_quarantine_is_populated_and_attributed: every row of the quarantine is written
\* with its rule, reason and run, so that only the second answer can be a failure.
CheckQuarantine ==
    \/ /\ suite.at = "quarantine"
       /\ IF quarantine = {} THEN Answer("quarantine populated", "SKIP", "reconciliation")
          ELSE Answer("quarantine populated", "PASS", "exclusive")
    \/ /\ suite.at = "exclusive"
       /\ Answer("quarantine is exclusive",
                 IF Ids(SilverIds \intersect QuarantineIds) = {} THEN "PASS" ELSE "FAIL",
                 "reconciliation")

Balanced(c) == c.source - c.duplicate - c.rejected = c.output

\* check_reconciliation_balances: whether there are counters, then those that do not balance.
CheckReconciliationBalances ==
    \/ /\ suite.at = "reconciliation"
       /\ IF recon = {} THEN Answer("reconciliation balances", "SKIP", "event_time")
          ELSE Count(0, 0, {}, "unbalanced")
    \/ /\ suite.at = "unbalanced"
       /\ Answer("reconciliation balances",
                 IF \A c \in recon : Balanced(c) THEN "PASS" ELSE "FAIL", "event_time")

\* Silver's event_time against the earliest Bronze has for the event; min and <> pass
\* over nulls.
Altered(s) ==
    \E p \in 1..Len(bronze) :
        /\ EventId(p) = s.event_id
        /\ Timed(bronze[p]) /\ Timed(bronze[s.pos])
        /\ bronze[p].event_time < bronze[s.pos].event_time

\* check_late_events_use_event_date: skipped when no row has lagged, which depends on
\* clocks not modelled.  check_business_questions, next, never fails.
CheckEventTimePreserved ==
    \/ /\ suite.at = "event_time"
       /\ \/ Answer("event_time preserved", "SKIP", "manifest")
          \/ Count(0, 0, {}, "altered")
    \/ /\ suite.at = "altered"
       /\ Answer("event_time preserved",
                 IF \E s \in silver : Altered(s) THEN "FAIL" ELSE "PASS", "manifest")

Invalid == {bronze[p] : p \in {q \in 1..Len(bronze) : bronze[q].failed # {}}}

\* check_manifest_rates, for a manifest of the run whose readings are in Bronze.
CheckManifestRates ==
    /\ suite.at = "manifest"
    /\ \E exists \in BOOLEAN :
        Answer("manifest reconciliation",
               IF ~exists \/ Invalid = {} THEN "SKIP"
               ELSE IF 2 * Cardinality(Ids(QuarantineIds)) < Cardinality(Invalid) THEN "FAIL"
               ELSE "PASS", "before")

\* check_idempotency: a count of Silver, a replay of events in Silver, a count again.
CheckIdempotency ==
    \/ /\ suite.at = "before"
       /\ IF silver = {} THEN Answer("replay is idempotent", "SKIP", "over")
          ELSE Count(Cardinality(silver), 0, SilverIds, "sample")
    \/ /\ suite.at = "after" /\ pc["replay"] = "idle"
       /\ Answer("replay is idempotent",
                 IF Cardinality(silver) # suite.read.total THEN "FAIL" ELSE "PASS", "over")

Abort ==
    suite' = [suite EXCEPT !.at = "over", !.read = NothingRead, !.last = NoAnswer,
                           !.failed = {}, !.base = {}]

\* A query fails: the suite ends without a report.
AbortSuite ==
    /\ suite.at \notin {"off", "over"} /\ pc["replay"] = "idle"
    /\ Abort

Query ==
    \/ StartSuite
    \/ CheckBronzeHasData \/ CheckDuplicatesPresent \/ CheckDuplicatesRemoved
    \/ CheckRowConservation \/ CheckQuarantine \/ CheckReconciliationBalances
    \/ CheckEventTimePreserved \/ CheckManifestRates \/ CheckIdempotency
    \/ AbortSuite

\* faulty variant: the check that writes does not wait for the others.
ReplayFirst ==
    \/ StartReplay /\ suite.at \notin {"off", "over"} /\ UNCHANGED suite
    \/ WriteBatch("replay") /\ UNCHANGED suite
    \/ Crash("replay") /\ Abort
\* The replay's call of write_batch; a failure in it ends the suite.
Replay ==
    \/ StartReplay /\ suite.at = "sample" /\ suite' = [suite EXCEPT !.at = "after"]
    \/ WriteBatch("replay") /\ UNCHANGED suite
    \/ Crash("replay") /\ Abort

\* Ingestion and the stream go on meanwhile.
Meanwhile ==
    /\ \/ \E r \in Readings : Arrive(r)
       \/ Expire \/ TimePasses
       \/ Start \/ PlanBatch \/ ExecuteBatch \/ WriteBatch("stream") \/ CommitBatch
       \/ Stranded \/ Crash("stream") \/ DeleteCheckpoint
    /\ suite' = [suite EXCEPT !.quiet = @ /\ suite.at = "off"]

SuiteNext == (Query /\ UNCHANGED vars) \/ Replay \/ Meanwhile

SuiteSpec == SuiteInit /\ [][SuiteNext]_suiteVars
-----------------------------------------------------------------------------
(* Properties.                                                             *)

Places ==
    {"off", "bronze", "duplicates", "distinct bronze", "silver", "distinct silver",
     "conserved", "accounted", "quarantined", "quarantine", "exclusive", "reconciliation",
     "unbalanced", "event_time", "altered", "manifest", "before", "sample", "after", "over"}

Answered(check, status) == suite'.last # suite.last /\ suite'.last = [check |-> check, status |-> status]

Checks ==
    {"bronze ingested", "duplicates injected", "silver deduplicated", "rows conserved",
     "quarantine populated", "quarantine is exclusive", "reconciliation balances",
     "event_time preserved", "manifest reconciliation", "replay is idempotent"}

\* Types, and the one time the suite writes.
SuiteTypeOK ==
    /\ suite \in [at : Places,
                  read : [total : 0..MaxBronze, missing : -MaxBronze..MaxBronze],
                  last : [check : Checks \union {"none"}, status : {"PASS", "FAIL", "SKIP"}],
                  failed : SUBSET Checks, base : SUBSET EventIds, quiet : BOOLEAN]
    /\ pc["replay"] # "idle" => suite.at = "after"

\* On a platform at rest, every event decided and most invalid ones identified, the suite
\* finds nothing to fail: no check is broken by late rows, repeats, replays or the
\* suite's own writes (verify.py: each check "fails when the claim is false").
AtRest ==
    /\ suite.quiet /\ bronze # << >> /\ Undecided = {}
    /\ 2 * Cardinality(Ids({r.event_id : r \in Invalid})) >= Cardinality(Invalid)
QuietSuitePasses == AtRest => suite.failed = {}

\* Whatever goes on meanwhile, the conservation check fails only if, when it began, more
\* events than it tolerates were undecided: lost, or in flight still.  Rows that arrive or
\* are decided while it counts never make it fail.
ConservationAlarm ==
    [][Answered("rows conserved", "FAIL")
        => Cardinality(suite.base) > Tolerance]_suiteVars

\* And events undecided from its beginning to its end make it fail, but for the tolerance,
\* for events that arrived while it counted, and for the rules broken by unidentified
\* records: each of the latter two may stand in for an event that was lost.
ConservationAnswer ==
    [][Answered("rows conserved", "PASS")
        => Cardinality(suite.base \ Decided)
               <= Tolerance + Masked + (Cardinality(Ids(ArrivedIds)) - suite.read.total)]_suiteVars

\* When the replay check fails, the stream has added an event in between: the replay
\* itself has changed nothing.
ReplayAlarm ==
    [][Answered("replay is idempotent", "FAIL")
        => SilverIds \ suite.base # {}]_suiteVars

\* As long as no clock is ahead, no event makes the exclusivity check fail, whenever it
\* looks.
ExclusiveAnswer == "quarantine is exclusive" \notin suite.failed
-----------------------------------------------------------------------------
(* The inductive invariant: what the counts a check keeps still say of the *)
(* tables while the checks, the stream and the replay go on.               *)

\* The conservation check.  Its events had arrived; with the decided ones they are all it
\* counted; and it has taken off no more than Silver holds.
ConservationKept ==
    /\ suite.at \in {"accounted", "quarantined"} => suite.base \subseteq Ids(ArrivedIds)
    /\ suite.at = "accounted" =>
           /\ suite.read.missing = suite.read.total
           /\ suite.read.total <= Cardinality(suite.base \union Ids(Decided))
    /\ suite.at = "quarantined" =>
           /\ suite.read.missing <= Cardinality(suite.base) + Cardinality(Ids(QuarantineIds))
           /\ suite.read.total <= suite.read.missing + Cardinality(silver)

\* The replay check: it counted one row for each event Silver had, and Silver has them still.
SampleKept ==
    suite.at \in {"sample", "after"} =>
        suite.base \subseteq SilverIds /\ suite.read.total = Cardinality(suite.base)

\* As long as nothing else happens, every count kept is the one a new query would give.
QuietKept ==
    suite.quiet =>
        /\ suite.at = "off" => suite.failed = {}
        /\ suite.at = "distinct silver" => suite.read.total = Cardinality(silver)
        /\ suite.at \in {"accounted", "quarantined"} => suite.base = Undecided
        /\ suite.at \in {"sample", "after"} => suite.base = SilverIds

SuiteInv ==
    /\ TypeOK /\ JudgedInTime /\ OneRowPerEvent /\ TablesSound /\ ReplaySampled
    /\ Len(bronze) <= MaxBronze /\ \A c \in recon : Balanced(c)
    /\ SuiteTypeOK /\ ConservationKept /\ SampleKept /\ QuietKept
=============================================================================
