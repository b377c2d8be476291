------------------------ MODULE VerificationSuiteProofs ------------------------
(***************************************************************************)
(* What the answers of the verification suite are worth, whatever          *)
(* ingestion, the stream and the replay do between two of its queries.     *)
(* Every step of the suite's specification is a step of SilverTransform or *)
(* leaves it alone, so what is proved of its steps is used here as it is.  *)
(***************************************************************************)
EXTENDS VerificationSuite, SilverLedgerProofs, SilverReplayProofs

-----------------------------------------------------------------------------
(* Steps.                                                                  *)

LEMMA PlatformStep == [SuiteNext]_suiteVars => [Next]_vars
<1> SUFFICES ASSUME SuiteNext PROVE [Next]_vars
  BY DEF suiteVars
<1>1. CASE Query /\ UNCHANGED vars
  BY <1>1
<1>2. CASE Replay
  BY <1>2 DEF Replay, Next, Writers
<1>3. CASE Meanwhile
  BY <1>3 DEF Meanwhile, Next, Writers
<1> QED BY <1>1, <1>2, <1>3 DEF SuiteNext

\* What holds of every behaviour of the platform holds beside the suite.
LEMMA PlatformInvariant ==
    SuiteSpec => [](TypeOK /\ JudgedInTime /\ OneRowPerEvent /\ TablesSound /\ ReplaySampled)
<1> DEFINE P == TypeOK /\ JudgedInTime /\ OneRowPerEvent /\ TablesSound /\ ReplaySampled
<1>1. SuiteInit => P
  <2>1. Init => TypeOK
    BY TypeInit
  <2>2. Init => JudgedInTime /\ OneRowPerEvent /\ TablesSound /\ ReplaySampled
    BY DEF Init, JudgedInTime, OneRowPerEvent, TablesSound, ReplaySampled, Writers
  <2> QED BY <2>1, <2>2 DEF SuiteInit
<1>2. P /\ [SuiteNext]_suiteVars => P'
  BY PlatformStep, TypeStep, JudgedStep, OneRowStep, SoundStep, SampledStep
<1> QED BY <1>1, <1>2, PTL DEF SuiteSpec

-----------------------------------------------------------------------------
(* What the tables hold, counted.                                          *)

\* The ids of the tables have arrived, Silver has a row for each of its own, and every
\* count of the suite is a number no greater than the rows of Bronze.
LEMMA TablesCounted ==
    ASSUME TypeOK, OneRowPerEvent, TablesSound
    PROVE  /\ SilverIds \subseteq Ids(ArrivedIds) /\ Ids(SilverIds) = SilverIds
           /\ Ids(QuarantineIds) \subseteq Ids(ArrivedIds) /\ Ids(ArrivedIds) \subseteq EventIds
           /\ Ids(Decided) = SilverIds \union Ids(QuarantineIds)
           /\ Cardinality(silver) = Cardinality(SilverIds)
           /\ Cardinality(Ids(ArrivedIds)) <= Len(bronze)
           /\ Masked \in Nat
<1>1. \A p \in 1..Len(bronze) :
          /\ bronze[p] \in Readings
          /\ EventId(p) \in EventIds \union {NoId}
          /\ EventId(p) = NoId => bronze[p].failed # {}
  BY ReadingsAssumption DEF TypeOK, EventId
<1>2. SilverIds \subseteq Ids(ArrivedIds)
  <2> SUFFICES ASSUME NEW s \in silver PROVE s.event_id \in Ids(ArrivedIds)
    BY DEF SilverIds
  <2>1. s.pos \in 1..Len(bronze)
    BY DEF TypeOK
  <2>2. s.event_id = EventId(s.pos) /\ bronze[s.pos].failed = {}
    BY DEF TablesSound
  <2> QED BY <1>1, <2>1, <2>2 DEF Ids, ArrivedIds
<1>3. Ids(QuarantineIds) \subseteq Ids(ArrivedIds)
  <2>1. \A q \in quarantine : q.pos \in 1..Len(bronze)
    BY DEF TypeOK
  <2> QED BY <2>1 DEF Ids, QuarantineIds, ArrivedIds
<1>4. Ids(ArrivedIds) \subseteq EventIds
  BY <1>1 DEF Ids, ArrivedIds
<1>5. Cardinality(silver) = Cardinality(SilverIds)
  BY SilverFinite, AsManyRowsAsIds DEF OneRowPerEvent, SilverIds
<1>6. Cardinality(Ids(ArrivedIds)) <= Len(bronze)
  <2>1. Len(bronze) \in Nat
    BY DEF TypeOK
  <2> DEFINE places == 1..Len(bronze)
             f == [p \in places |-> EventId(p)]
  <2>2. IsFiniteSet(places) /\ Cardinality(places) = Len(bronze)
    BY <2>1, FS_Interval
  <2>3. f \in Surjection(places, ArrivedIds)
    <3>1. f \in [places -> ArrivedIds]
      BY DEF ArrivedIds
    <3>2. \A id \in ArrivedIds : \E p \in places : f[p] = id
      BY DEF ArrivedIds
    <3> HIDE DEF places, f
    <3> QED BY <3>1, <3>2 DEF Surjection
  <2>4. IsFiniteSet(ArrivedIds) /\ Cardinality(ArrivedIds) <= Len(bronze)
    <3> HIDE DEF places, f
    <3> QED BY <2>2, <2>3, FS_Surjection
  <2>5. Cardinality(Ids(ArrivedIds)) <= Cardinality(ArrivedIds)
    BY <2>4, FS_Subset DEF Ids
  <2>6. Cardinality(Ids(ArrivedIds)) \in Nat /\ Cardinality(ArrivedIds) \in Nat
    BY <2>4, FS_Subset, FS_CardinalityType DEF Ids
  <2> QED BY <2>1, <2>4, <2>5, <2>6
<1>7. Masked \in Nat
  <2> DEFINE rules == {q.rule : q \in {x \in quarantine : EventId(x.pos) = NoId}}
  <2>1. rules \subseteq CriticalRules
    BY DEF TypeOK
  <2>2. IsFiniteSet(rules)
    BY <2>1, FS_Subset, ConstantsAssumption
  <2>3. Cardinality(rules) \in Nat
    BY <2>2, FS_CardinalityType
  <2> QED BY <2>3 DEF Masked
<1>8. Ids(SilverIds) = SilverIds
  BY <1>2 DEF Ids
<1>9. Ids(Decided) = SilverIds \union Ids(QuarantineIds)
  BY <1>8 DEF Ids, Decided
<1> QED BY <1>2, <1>3, <1>4, <1>5, <1>6, <1>7, <1>8, <1>9

\* Events are finitely many: their numbers add up and grow with the sets.
LEMMA Events ==
    ASSUME NEW S \in SUBSET EventIds
    PROVE  IsFiniteSet(S) /\ Cardinality(S) \in Nat
BY FS_Subset, FS_CardinalityType, ConstantsAssumption

LEMMA EventsWithin ==
    ASSUME NEW T \in SUBSET EventIds, NEW S \in SUBSET T
    PROVE  Cardinality(S) <= Cardinality(T) /\ (Cardinality(S) = Cardinality(T) => S = T)
BY Events, FS_Subset

LEMMA EventsUnited ==
    ASSUME NEW S \in SUBSET EventIds, NEW T \in SUBSET EventIds
    PROVE  /\ Cardinality(S \union T) <= Cardinality(S) + Cardinality(T)
           /\ S \intersect T = {} =>
                  Cardinality(S \union T) = Cardinality(S) + Cardinality(T)
<1>1. Cardinality(S \union T)
        = Cardinality(S) + Cardinality(T) - Cardinality(S \intersect T)
  BY Events, FS_Union
<1>2. Cardinality(S) \in Nat /\ Cardinality(T) \in Nat /\ Cardinality(S \intersect T) \in Nat
  BY Events
<1> QED BY <1>1, <1>2, FS_EmptySet
-----------------------------------------------------------------------------
(* What the suite's own steps do to its record.                            *)

SuiteRecords ==
    [at : Places,
     read : [total : 0..MaxBronze, missing : -MaxBronze..MaxBronze],
     last : [check : Checks \union {"none"}, status : {"PASS", "FAIL", "SKIP"}],
     failed : SUBSET Checks, base : SUBSET EventIds, quiet : BOOLEAN]

LEMMA AnswerResult ==
    ASSUME suite \in SuiteRecords, NEW check \in Checks,
           NEW status \in {"PASS", "FAIL", "SKIP"}, NEW next \in Places,
           Answer(check, status, next)
    PROVE  /\ suite' \in SuiteRecords
           /\ suite'.at = next /\ suite'.quiet = suite.quiet
           /\ suite'.last = [check |-> check, status |-> status]
           /\ suite'.failed \subseteq suite.failed \union {check}
           /\ status # "FAIL" => suite'.failed = suite.failed
<1>1. NothingRead \in [total : 0..MaxBronze, missing : -MaxBronze..MaxBronze]
  BY ConstantsAssumption DEF NothingRead
<1>2. [check |-> check, status |-> status] \in
          [check : Checks \union {"none"}, status : {"PASS", "FAIL", "SKIP"}]
  OBVIOUS
<1>3. DOMAIN suite = {"at", "read", "last", "failed", "base", "quiet"}
  BY DEF SuiteRecords
<1> DEFINE failures == IF status = "FAIL" THEN suite.failed \union {check} ELSE suite.failed
<1>4. failures \in SUBSET Checks
  BY DEF SuiteRecords
<1> HIDE DEF failures
<1>5. suite' = [at |-> next, read |-> NothingRead,
                last |-> [check |-> check, status |-> status],
                failed |-> failures, base |-> {}, quiet |-> suite.quiet]
  BY <1>3 DEF Answer, failures, SuiteRecords
<1>6. suite.quiet \in BOOLEAN
  BY DEF SuiteRecords
<1>7. suite' \in SuiteRecords
  BY <1>1, <1>2, <1>4, <1>5, <1>6 DEF SuiteRecords
<1> QED BY <1>5, <1>7 DEF failures

LEMMA CountResult ==
    ASSUME suite \in SuiteRecords, NEW total \in 0..MaxBronze,
           NEW missing \in -MaxBronze..MaxBronze, NEW base \in SUBSET EventIds,
           NEW next \in Places, Count(total, missing, base, next)
    PROVE  /\ suite' \in SuiteRecords
           /\ suite'.at = next /\ suite'.quiet = suite.quiet
           /\ suite'.read.total = total /\ suite'.read.missing = missing
           /\ suite'.base = base /\ suite'.last = NoAnswer /\ suite'.failed = suite.failed
<1>1. [total |-> total, missing |-> missing] \in
          [total : 0..MaxBronze, missing : -MaxBronze..MaxBronze]
  OBVIOUS
<1>2. NoAnswer \in [check : Checks \union {"none"}, status : {"PASS", "FAIL", "SKIP"}]
  BY DEF NoAnswer
<1>3. suite' = [at |-> next, read |-> [total |-> total, missing |-> missing],
                last |-> NoAnswer, failed |-> suite.failed, base |-> base,
                quiet |-> suite.quiet]
  BY DEF Count, SuiteRecords
<1>4. suite.failed \in SUBSET Checks /\ suite.quiet \in BOOLEAN
  BY DEF SuiteRecords
<1>5. suite' \in SuiteRecords
  BY <1>1, <1>2, <1>3, <1>4 DEF SuiteRecords
<1> QED BY <1>3, <1>5

LEMMA AbortResult ==
    ASSUME suite \in SuiteRecords, Abort
    PROVE  /\ suite' \in SuiteRecords
           /\ suite'.at = "over" /\ suite'.last = NoAnswer /\ suite'.failed = {}
<1>1. NothingRead \in [total : 0..MaxBronze, missing : -MaxBronze..MaxBronze]
  BY ConstantsAssumption DEF NothingRead
<1>2. NoAnswer \in [check : Checks \union {"none"}, status : {"PASS", "FAIL", "SKIP"}]
  BY DEF NoAnswer
<1>3. suite' = [at |-> "over", read |-> NothingRead, last |-> NoAnswer, failed |-> {},
                base |-> {}, quiet |-> suite.quiet]
  BY DEF Abort, SuiteRecords
<1>4. suite.quiet \in BOOLEAN
  BY DEF SuiteRecords
<1>5. suite' \in SuiteRecords
  BY <1>1, <1>2, <1>3, <1>4 DEF SuiteRecords, Places
<1> QED BY <1>3, <1>5

-----------------------------------------------------------------------------
(* The queries, by what they answer or keep.                               *)

\* The places at which a count is kept for a later query, or nothing has begun.
KeptPlaces == {"off", "distinct silver", "accounted", "quarantined", "sample", "after"}

\* The check ends, with a failure if the condition holds and a success only if it does not.
Replied(check, wrong) ==
    \E status \in {"PASS", "FAIL", "SKIP"}, next \in Places \ KeptPlaces :
        /\ Answer(check, status, next)
        /\ status = "FAIL" => wrong
        /\ status = "PASS" => ~wrong

NoRows       == bronze = << >>
NotDistinct  == suite.read.total # Cardinality(Ids(SilverIds))
Unaccounted  == suite.read.missing - QuarantinedEvents > Tolerance
NotExclusive == Ids(SilverIds \intersect QuarantineIds) # {}
Unbalanced   == \E c \in recon : ~Balanced(c)
SomeAltered  == \E s \in silver : Altered(s)
Fewer        == Invalid # {} /\ 2 * Cardinality(Ids(QuarantineIds)) < Cardinality(Invalid)
NotAsMany    == Cardinality(silver) # suite.read.total

Replies ==
    \/ Replied("bronze ingested", NoRows)
    \/ Replied("duplicates injected", FALSE)
    \/ suite.at = "distinct silver" /\ Replied("silver deduplicated", NotDistinct)
    \/ suite.at = "quarantined" /\ Replied("rows conserved", Unaccounted)
    \/ Replied("quarantine populated", FALSE)
    \/ Replied("quarantine is exclusive", NotExclusive)
    \/ Replied("reconciliation balances", Unbalanced)
    \/ Replied("event_time preserved", SomeAltered)
    \/ Replied("manifest reconciliation", Fewer)
    \/ suite.at = "before" /\ Answer("replay is idempotent", "SKIP", "over")
    \/ suite.at = "after" /\ Replied("replay is idempotent", NotAsMany)

Counts ==
    \/ Count(Len(bronze), 0, {}, "distinct bronze")
    \/ Count(Cardinality(silver), 0, SilverIds, "distinct silver")
    \/ Count(Cardinality(Ids(ArrivedIds)), Cardinality(Ids(ArrivedIds)), Undecided, "accounted")
    \/ /\ suite.at = "accounted"
       /\ Count(suite.read.total, suite.read.missing - Cardinality(silver), suite.base,
                "quarantined")
    \/ Count(0, 0, {}, "unbalanced")
    \/ Count(0, 0, {}, "altered")
    \/ Count(Cardinality(silver), 0, SilverIds, "sample")

LEMMA QueryForms ==
    ASSUME Query
    PROVE  StartSuite \/ Replies \/ Counts \/ (Abort /\ suite.at # "off")
<1> USE DEF Replied, KeptPlaces, Places
<1>1. ASSUME CheckBronzeHasData PROVE Replies
  <2>1. \/ Answer("bronze ingested", "FAIL", "over") /\ NoRows
        \/ Answer("bronze ingested", "PASS", "duplicates") /\ ~NoRows
    BY ONLY <1>1, Zenon DEF CheckBronzeHasData, NoRows
  <2>2. Replied("bronze ingested", NoRows)
    BY <2>1
  <2> QED BY <2>2 DEF Replies
<1>2. ASSUME CheckDuplicatesPresent PROVE Replies \/ Counts
  <2>1. Count(Len(bronze), 0, {}, "distinct bronze")
          \/ (\E status \in {"PASS", "SKIP"} : Answer("duplicates injected", status, "silver"))
    BY <1>2 DEF CheckDuplicatesPresent
  <2> QED BY <2>1 DEF Replies, Counts
<1>3. ASSUME CheckDuplicatesRemoved PROVE Replies \/ Counts
  <2>1. \/ Count(Cardinality(silver), 0, SilverIds, "distinct silver")
        \/ /\ suite.at = "distinct silver"
           /\ \/ Answer("silver deduplicated", "SKIP", "conserved")
              \/ Answer("silver deduplicated", "FAIL", "conserved") /\ NotDistinct
              \/ Answer("silver deduplicated", "PASS", "conserved") /\ ~NotDistinct
    BY <1>3 DEF CheckDuplicatesRemoved, NotDistinct
  <2> QED BY <2>1 DEF Replies, Counts
<1>4. ASSUME CheckRowConservation PROVE Replies \/ Counts
  <2>1. \/ Counts
        \/ /\ suite.at = "quarantined"
           /\ \/ Answer("rows conserved", "SKIP", "quarantine")
              \/ Answer("rows conserved", "FAIL", "quarantine") /\ Unaccounted
              \/ Answer("rows conserved", "PASS", "quarantine") /\ ~Unaccounted
    BY <1>4 DEF CheckRowConservation, Unaccounted, Counts
  <2> QED BY <2>1 DEF Replies
<1>5. ASSUME CheckQuarantine PROVE Replies
  <2>1. \/ Answer("quarantine populated", "SKIP", "reconciliation")
        \/ Answer("quarantine populated", "PASS", "exclusive")
        \/ Answer("quarantine is exclusive", "FAIL", "reconciliation") /\ NotExclusive
        \/ Answer("quarantine is exclusive", "PASS", "reconciliation") /\ ~NotExclusive
    BY <1>5 DEF CheckQuarantine, NotExclusive
  <2> QED BY <2>1 DEF Replies
<1>6. ASSUME CheckReconciliationBalances PROVE Replies \/ Counts
  <2>1. \/ Count(0, 0, {}, "unbalanced")
        \/ Answer("reconciliation balances", "SKIP", "event_time")
        \/ Answer("reconciliation balances", "FAIL", "event_time") /\ Unbalanced
        \/ Answer("reconciliation balances", "PASS", "event_time") /\ ~Unbalanced
    BY <1>6 DEF CheckReconciliationBalances, Unbalanced
  <2> QED BY <2>1 DEF Replies, Counts
<1>7. ASSUME CheckEventTimePreserved PROVE Replies \/ Counts
  <2>1. \/ Count(0, 0, {}, "altered")
        \/ Answer("event_time preserved", "SKIP", "manifest")
        \/ Answer("event_time preserved", "FAIL", "manifest") /\ SomeAltered
        \/ Answer("event_time preserved", "PASS", "manifest") /\ ~SomeAltered
    BY <1>7 DEF CheckEventTimePreserved, SomeAltered
  <2> QED BY <2>1 DEF Replies, Counts
<1>8. ASSUME CheckManifestRates PROVE Replies
  <2>1. \/ Answer("manifest reconciliation", "SKIP", "before")
        \/ Answer("manifest reconciliation", "FAIL", "before") /\ Fewer
        \/ Answer("manifest reconciliation", "PASS", "before") /\ ~Fewer
    BY <1>8 DEF CheckManifestRates, Fewer
  <2> QED BY <2>1 DEF Replies
<1>9. ASSUME CheckIdempotency PROVE Replies \/ Counts
  <2>1. \/ Answer("replay is idempotent", "SKIP", "over") /\ suite.at = "before"
        \/ Count(Cardinality(silver), 0, SilverIds, "sample")
        \/ /\ suite.at = "after"
           /\ \/ Answer("replay is idempotent", "FAIL", "over") /\ NotAsMany
              \/ Answer("replay is idempotent", "PASS", "over") /\ ~NotAsMany
    BY <1>9 DEF CheckIdempotency, NotAsMany
  <2> QED BY <2>1 DEF Replies, Counts
<1>10. AbortSuite => Abort /\ suite.at # "off"
  BY DEF AbortSuite
<1> QED BY <1>1, <1>2, <1>3, <1>4, <1>5, <1>6, <1>7, <1>8, <1>9, <1>10 DEF Query

\* No query while the replay writes.
LEMMA QueryAlone == ASSUME Query, suite.at = "after" PROVE pc["replay"] = "idle"
BY DEF Query, StartSuite, CheckBronzeHasData, CheckDuplicatesPresent, CheckDuplicatesRemoved,
       CheckRowConservation, CheckQuarantine, CheckReconciliationBalances,
       CheckEventTimePreserved, CheckManifestRates, CheckIdempotency, AbortSuite

LEMMA AnswerStatus ==
    ASSUME suite \in SuiteRecords, NEW check \in Checks,
           NEW status \in {"PASS", "FAIL", "SKIP"}, NEW next \in Places,
           Answer(check, status, next)
    PROVE  suite'.last.check = check /\ suite'.last.status = status
<1>1. suite'.last = [check |-> check, status |-> status]
  BY AnswerResult
<1> QED BY <1>1

LEMMA ReplyResult ==
    ASSUME suite \in SuiteRecords, NEW check \in Checks, NEW wrong, Replied(check, wrong)
    PROVE  /\ suite' \in SuiteRecords /\ suite'.at \notin KeptPlaces
           /\ suite'.quiet = suite.quiet /\ suite'.last.check = check
           /\ suite'.failed \subseteq suite.failed \union {check}
           /\ suite'.last.status = "FAIL" => wrong
           /\ suite'.last.status = "PASS" => ~wrong
           /\ suite'.failed = suite.failed \/ wrong
<1>1. PICK status \in {"PASS", "FAIL", "SKIP"}, next \in Places \ KeptPlaces :
          /\ Answer(check, status, next)
          /\ status = "FAIL" => wrong
          /\ status = "PASS" => ~wrong
  BY Zenon DEF Replied
<1>2. /\ suite' \in SuiteRecords
      /\ suite'.at = next /\ suite'.quiet = suite.quiet
      /\ suite'.last = [check |-> check, status |-> status]
      /\ suite'.failed \subseteq suite.failed \union {check}
      /\ status # "FAIL" => suite'.failed = suite.failed
  BY <1>1, AnswerResult
<1>3. suite'.last.check = check /\ suite'.last.status = status
  BY <1>1, AnswerStatus
<1>4. suite'.at \notin KeptPlaces
  BY <1>2
<1> QED BY <1>1, <1>2, <1>3, <1>4, Zenon

LEMMA RepliesResult ==
    ASSUME suite \in SuiteRecords, Replies
    PROVE  suite' \in SuiteRecords /\ suite'.at \notin KeptPlaces /\ suite'.quiet = suite.quiet
<1>1. ASSUME suite.at = "before", Answer("replay is idempotent", "SKIP", "over")
      PROVE  /\ suite' \in SuiteRecords /\ suite'.at = "over"
             /\ suite'.quiet = suite.quiet
  <2>1. /\ "replay is idempotent" \in Checks /\ "SKIP" \in {"PASS", "FAIL", "SKIP"}
        /\ "over" \in Places
    BY DEF Checks, Places
  <2> QED BY <1>1, <2>1, AnswerResult
<1>2. "over" \notin KeptPlaces
  BY DEF KeptPlaces
<1>3. \A check \in {"bronze ingested", "duplicates injected", "silver deduplicated",
           "rows conserved", "quarantine populated", "quarantine is exclusive",
           "reconciliation balances", "event_time preserved", "manifest reconciliation",
           "replay is idempotent"} : check \in Checks
  BY DEF Checks
<1>4. ASSUME NEW check \in Checks, NEW wrong, Replied(check, wrong)
      PROVE  suite' \in SuiteRecords /\ suite'.at \notin KeptPlaces
                 /\ suite'.quiet = suite.quiet
  BY <1>4, ReplyResult
<1> QED BY <1>1, <1>2, <1>3, <1>4 DEF Replies

\* What the suite keeps is true when it is counted, and a check that ends keeps nothing.
Keeping == SuiteTypeOK /\ ConservationKept /\ SampleKept /\ QuietKept

LEMMA QueryKeeps ==
    ASSUME SuiteInv, Query, UNCHANGED vars
    PROVE  Keeping'
<1>0. /\ suite \in SuiteRecords
      /\ pc' = pc /\ bronze' = bronze /\ silver' = silver /\ quarantine' = quarantine
      /\ pc["replay"] # "idle" => suite.at = "after"
  BY DEF SuiteInv, SuiteTypeOK, SuiteRecords, vars, tables, log, clock
<1>1. pc'["replay"] = "idle"
  BY <1>0, QueryAlone
<1>2. /\ ArrivedIds' = ArrivedIds /\ SilverIds' = SilverIds /\ QuarantineIds' = QuarantineIds
  BY <1>0 DEF ArrivedIds, SilverIds, QuarantineIds, EventId
<1>3. Decided' = Decided /\ Undecided' = Undecided /\ Ids(ArrivedIds') = Ids(ArrivedIds)
        /\ Ids(Decided)' = Ids(Decided) /\ Ids(QuarantineIds)' = Ids(QuarantineIds)
        /\ Ids(ArrivedIds)' = Ids(ArrivedIds)
  BY <1>2 DEF Decided, Undecided, Ids
<1>4. ASSUME suite' \in SuiteRecords, suite'.at \notin KeptPlaces PROVE Keeping'
  BY <1>1, <1>4 DEF Keeping, SuiteTypeOK, SuiteRecords, ConservationKept, SampleKept, QuietKept,
                    KeptPlaces
<1>5. CASE StartSuite
  <2>1. suite' = [suite EXCEPT !.at = "bronze"]
    BY <1>5 DEF StartSuite
  <2>2. suite' \in SuiteRecords /\ suite'.at = "bronze"
    BY <1>0, <2>1 DEF SuiteRecords, Places
  <2> QED BY <1>4, <2>2 DEF KeptPlaces
<1>6. CASE Replies
  BY <1>0, <1>4, <1>6, RepliesResult
<1>7. CASE Abort
  BY <1>0, <1>4, <1>7, AbortResult DEF KeptPlaces
<1>8. CASE Counts
  <2>1. /\ SilverIds \subseteq Ids(ArrivedIds) /\ Ids(SilverIds) = SilverIds
        /\ Ids(QuarantineIds) \subseteq Ids(ArrivedIds) /\ Ids(ArrivedIds) \subseteq EventIds
        /\ Ids(Decided) = SilverIds \union Ids(QuarantineIds)
        /\ Cardinality(silver) = Cardinality(SilverIds)
        /\ Cardinality(Ids(ArrivedIds)) <= Len(bronze)
    BY TablesCounted DEF SuiteInv
  <2>2. Len(bronze) \in Nat /\ Len(bronze) <= MaxBronze /\ MaxBronze \in Nat
    BY ConstantsAssumption DEF SuiteInv, TypeOK
  <2>3. Cardinality(Ids(ArrivedIds)) \in Nat /\ Cardinality(SilverIds) \in Nat
          /\ Cardinality(SilverIds) <= Cardinality(Ids(ArrivedIds))
    BY <2>1, Events, EventsWithin
  <2>4. /\ 0 \in 0..MaxBronze /\ Len(bronze) \in 0..MaxBronze /\ Cardinality(silver) \in 0..MaxBronze
        /\ Cardinality(Ids(ArrivedIds)) \in 0..MaxBronze
        /\ Cardinality(Ids(ArrivedIds)) \in -MaxBronze..MaxBronze
        /\ 0 \in -MaxBronze..MaxBronze
    BY <2>1, <2>2, <2>3
  <2>5. {"distinct bronze", "distinct silver", "accounted", "quarantined", "unbalanced",
         "altered", "sample"} \subseteq Places
    BY DEF Places
  <2>6. Undecided \in SUBSET EventIds /\ SilverIds \in SUBSET EventIds
    BY <2>1 DEF Undecided
  <2> HIDE DEF SuiteRecords
  <2>7. CASE Count(Len(bronze), 0, {}, "distinct bronze")
    <3>1. suite' \in SuiteRecords /\ suite'.at = "distinct bronze"
      BY <1>0, <2>4, <2>5, <2>7, CountResult
    <3> QED BY <1>4, <3>1 DEF KeptPlaces
  <2>12. CASE Count(0, 0, {}, "unbalanced") \/ Count(0, 0, {}, "altered")
    <3>1. suite' \in SuiteRecords /\ suite'.at \in {"unbalanced", "altered"}
      BY <1>0, <2>4, <2>5, <2>12, CountResult
    <3> QED BY <1>4, <3>1 DEF KeptPlaces
  <2>8. CASE Count(Cardinality(silver), 0, SilverIds, "distinct silver")
    <3>1. /\ suite' \in SuiteRecords /\ suite'.at = "distinct silver"
          /\ suite'.read.total = Cardinality(silver)
      BY <1>0, <2>4, <2>5, <2>6, <2>8, CountResult
    <3> QED BY <1>0, <1>1, <3>1 DEF Keeping, SuiteTypeOK, SuiteRecords, ConservationKept,
                                    SampleKept, QuietKept
  <2>9. CASE Count(Cardinality(silver), 0, SilverIds, "sample")
    <3>1. /\ suite' \in SuiteRecords /\ suite'.at = "sample"
          /\ suite'.read.total = Cardinality(silver) /\ suite'.base = SilverIds
      BY <1>0, <2>4, <2>5, <2>6, <2>9, CountResult
    <3> QED BY <1>0, <1>1, <1>2, <2>1, <3>1 DEF Keeping, SuiteTypeOK, SuiteRecords, ConservationKept,
                                    SampleKept, QuietKept
  <2>10. CASE Count(Cardinality(Ids(ArrivedIds)), Cardinality(Ids(ArrivedIds)), Undecided,
                    "accounted")
    <3>1. /\ suite' \in SuiteRecords /\ suite'.at = "accounted"
          /\ suite'.read.total = Cardinality(Ids(ArrivedIds))
          /\ suite'.read.missing = Cardinality(Ids(ArrivedIds))
          /\ suite'.base = Undecided
      BY <1>0, <2>4, <2>5, <2>6, <2>10, CountResult
    <3>2. Undecided \union Ids(Decided) = Ids(ArrivedIds)
      BY <2>1 DEF Undecided, Ids
    <3>3. suite'.base \union Ids(Decided)' = Ids(ArrivedIds)
      BY <1>3, <3>1, <3>2
    <3>4. Cardinality(Ids(ArrivedIds)) <= Cardinality(Ids(ArrivedIds))
      BY <2>3
    <3>5. suite'.read.total <= Cardinality(suite'.base \union Ids(Decided)')
      BY ONLY <3>1, <3>3, <3>4
    <3>6. suite'.base \subseteq Ids(ArrivedIds)'
      BY <1>3, <3>1 DEF Undecided
    <3> QED BY <1>0, <1>1, <1>3, <3>1, <3>5, <3>6 DEF Keeping, SuiteTypeOK, SuiteRecords,
                                    ConservationKept, SampleKept, QuietKept
  <2>11. CASE /\ suite.at = "accounted"
              /\ Count(suite.read.total, suite.read.missing - Cardinality(silver), suite.base,
                       "quarantined")
    <3>1. /\ suite.read.total \in 0..MaxBronze /\ suite.base \in SUBSET EventIds
          /\ suite.read.missing = suite.read.total
          /\ suite.base \subseteq Ids(ArrivedIds)
          /\ suite.read.total <= Cardinality(suite.base \union Ids(Decided))
          /\ suite.quiet => suite.base = Undecided
      <4>1. ConservationKept /\ QuietKept
        BY DEF SuiteInv
      <4>2. suite.read.total \in 0..MaxBronze /\ suite.base \in SUBSET EventIds
        BY <1>0 DEF SuiteRecords
      <4> QED BY <2>11, <4>1, <4>2 DEF ConservationKept, QuietKept
    <3>2. suite.read.missing - Cardinality(silver) \in -MaxBronze..MaxBronze
      BY <2>2, <2>4, <3>1
    <3>3. /\ suite' \in SuiteRecords /\ suite'.at = "quarantined"
          /\ suite'.quiet = suite.quiet
          /\ suite'.read.total = suite.read.total
          /\ suite'.read.missing = suite.read.missing - Cardinality(silver)
          /\ suite'.base = suite.base
      BY <1>0, <2>5, <2>11, <3>1, <3>2, CountResult
    <3>4. Cardinality(suite.base \union Ids(Decided))
            <= Cardinality(suite.base) + Cardinality(SilverIds)
                 + Cardinality(Ids(QuarantineIds))
      <4>1. Cardinality(suite.base \union Ids(Decided))
              <= Cardinality(suite.base) + Cardinality(Ids(Decided))
        BY <2>1, <3>1, EventsUnited
      <4>2. Cardinality(Ids(Decided)) <= Cardinality(SilverIds) + Cardinality(Ids(QuarantineIds))
        BY <2>1, EventsUnited
      <4>3. /\ Cardinality(suite.base) \in Nat /\ Cardinality(Ids(Decided)) \in Nat
            /\ Cardinality(Ids(QuarantineIds)) \in Nat
            /\ Cardinality(suite.base \union Ids(Decided)) \in Nat
        BY <2>1, <3>1, Events
      <4> QED BY <2>3, <4>1, <4>2, <4>3
    <3>5. /\ Cardinality(suite.base) \in Nat /\ Cardinality(Ids(QuarantineIds)) \in Nat
          /\ Cardinality(suite.base \union Ids(Decided)) \in Nat
      BY <2>1, <3>1, Events
    <3>6. suite'.read.missing <= Cardinality(suite.base) + Cardinality(Ids(QuarantineIds))
      BY <2>1, <2>3, <3>1, <3>3, <3>4, <3>5
    <3>7. suite'.read.total <= suite'.read.missing + Cardinality(silver)
      BY <2>1, <2>3, <3>1, <3>3
    <3> QED BY <1>0, <1>1, <1>3, <3>1, <3>3, <3>6, <3>7
            DEF Keeping, SuiteTypeOK, SuiteRecords, ConservationKept, SampleKept, QuietKept
  <2> QED BY <1>8, <2>7, <2>8, <2>9, <2>10, <2>11, <2>12 DEF Counts
<1> QED BY <1>5, <1>6, <1>7, <1>8, QueryForms

-----------------------------------------------------------------------------
(* The replay and the stream, beside the queries.                          *)

\* The suite's own writes: no new event in Silver, and no event decided anew.
LEMMA ReplayInPlace ==
    ASSUME TypeOK, TablesSound, ReplaySampled,
           StartReplay \/ WriteBatch("replay") \/ Crash("replay")
    PROVE  bronze' = bronze /\ SilverIds' = SilverIds /\ Decided' = Decided
<1>1. bronze' = bronze
  BY DEF StartReplay, WriteBatch, AppendQuarantine, MergeSilver, RecordCounters, Crash,
         log, clock
<1>2. CASE UNCHANGED <<silver, quarantine>>
  BY <1>1, <1>2 DEF SilverIds, QuarantineIds, Decided, EventId
<1>3. CASE AppendQuarantine("replay")
  <2>1. silver' = silver
          /\ quarantine' = quarantine \union QuarantineRows("replay")
    BY <1>3 DEF AppendQuarantine
  <2>2. \A q \in QuarantineRows("replay") : EventId(q.pos) \in SilverIds
    BY <1>3 DEF AppendQuarantine, QuarantineRows, Rejected, ReplaySampled
  <2>3. SilverIds' = SilverIds
    BY <2>1 DEF SilverIds
  <2>4. QuarantineIds' = QuarantineIds
          \union {EventId(q.pos) : q \in QuarantineRows("replay")}
    BY <1>1, <2>1 DEF QuarantineIds, EventId
  <2> QED BY <1>1, <2>2, <2>3, <2>4 DEF Decided
<1>4. CASE MergeSilver("replay")
  <2> DEFINE updates == Prepared("replay")
  <2>1. silver' = MergeInto(silver, updates) /\ quarantine' = quarantine
    BY <1>4 DEF MergeSilver
  <2>2. \A u \in updates : u.event_id \in SilverIds
    BY <1>4 DEF MergeSilver, Prepared, Newest, Valid, ReplaySampled
  <2>3. SilverIds' = SilverIds
    <3> HIDE DEF updates
    <3>1. {t.event_id : t \in MergeInto(silver, updates)}
            = {t.event_id : t \in silver} \union {u.event_id : u \in updates}
      BY MergeKeepsIds
    <3> QED BY <2>1, <2>2, <3>1 DEF SilverIds
  <2>4. QuarantineIds' = QuarantineIds
    BY <1>1, <2>1 DEF QuarantineIds, EventId
  <2> QED BY <1>1, <2>3, <2>4 DEF Decided
<1> QED BY <1>1, <1>2, <1>3, <1>4
        DEF StartReplay, WriteBatch, RecordCounters, Crash, tables

LEMMA ReplayKeeps ==
    ASSUME SuiteInv, Replay
    PROVE  Keeping'
<1>0. /\ suite \in SuiteRecords
      /\ pc["replay"] # "idle" => suite.at = "after"
      /\ SampleKept /\ QuietKept
  BY DEF SuiteInv, SuiteTypeOK, SuiteRecords
<1>1. SilverIds' = SilverIds
  BY ReplayInPlace DEF SuiteInv, Replay
<1>2. CASE StartReplay /\ suite.at = "sample" /\ suite' = [suite EXCEPT !.at = "after"]
  <2>1. /\ suite' \in SuiteRecords /\ suite'.at = "after"
        /\ suite'.base = suite.base /\ suite'.quiet = suite.quiet
        /\ suite'.read.total = suite.read.total
    BY <1>0, <1>2 DEF SuiteRecords, Places
  <2> QED BY <1>0, <1>1, <1>2, <2>1 DEF Keeping, SuiteTypeOK, SuiteRecords, ConservationKept,
                                        SampleKept, QuietKept
<1>3. CASE WriteBatch("replay") /\ UNCHANGED suite
  <2>1. pc["replay"] # "idle"
    BY <1>3 DEF WriteBatch, AppendQuarantine, MergeSilver, RecordCounters
  <2>2. suite' = suite /\ suite.at = "after"
    BY <1>0, <1>3, <2>1
  <2> QED BY <1>0, <1>1, <2>2 DEF Keeping, SuiteTypeOK, SuiteRecords, ConservationKept,
                                  SampleKept, QuietKept
<1>4. CASE Crash("replay") /\ Abort
  <2>1. pc'["replay"] = "idle"
    BY <1>4 DEF Crash, SuiteInv, TypeOK, Writers
  <2>2. suite' \in SuiteRecords /\ suite'.at = "over"
    BY <1>0, <1>4, AbortResult
  <2> QED BY <2>1, <2>2 DEF Keeping, SuiteTypeOK, SuiteRecords, ConservationKept, SampleKept,
                            QuietKept
<1> QED BY <1>2, <1>3, <1>4 DEF Replay

SetsOfEvents ==
    /\ SilverIds \subseteq EventIds /\ Ids(QuarantineIds) \subseteq EventIds
    /\ Ids(Decided) \subseteq EventIds /\ Cardinality(silver) = Cardinality(SilverIds)

LEMMA TablesCountedNext == TypeOK' /\ OneRowPerEvent' /\ TablesSound' => SetsOfEvents'
<1>1. TypeOK /\ OneRowPerEvent /\ TablesSound => SetsOfEvents
  <2> SUFFICES ASSUME TypeOK, OneRowPerEvent, TablesSound PROVE SetsOfEvents
    OBVIOUS
  <2>1. /\ SilverIds \subseteq Ids(ArrivedIds) /\ Ids(QuarantineIds) \subseteq Ids(ArrivedIds)
        /\ Ids(ArrivedIds) \subseteq EventIds
        /\ Ids(Decided) = SilverIds \union Ids(QuarantineIds)
        /\ Cardinality(silver) = Cardinality(SilverIds)
    BY TablesCounted
  <2> QED BY <2>1 DEF SetsOfEvents
<1> QED BY <1>1, PTL

LEMMA MeanwhileKeeps ==
    ASSUME SuiteInv, Meanwhile, TypeOK', OneRowPerEvent', TablesSound'
    PROVE  Keeping'
<1>0. /\ suite \in SuiteRecords
      /\ pc["replay"] # "idle" => suite.at = "after"
      /\ TypeOK /\ OneRowPerEvent /\ TablesSound /\ ConservationKept /\ SampleKept /\ QuietKept
  BY DEF SuiteInv, SuiteTypeOK, SuiteRecords
<1>1. [Next]_vars
  BY DEF Meanwhile, Next, Writers
<1>2. pc'["replay"] = pc["replay"]
  BY <1>0 DEF Meanwhile, Arrive, Start, Expire, TimePasses, Stranded, PlanBatch, ExecuteBatch, WriteBatch,
              AppendQuarantine, MergeSilver, RecordCounters, CommitBatch, Crash,
              DeleteCheckpoint, TypeOK, Writers
<1>3. /\ suite' \in SuiteRecords
      /\ suite'.at = suite.at /\ suite'.read = suite.read /\ suite'.base = suite.base
      /\ suite'.failed = suite.failed
      /\ suite'.quiet => suite.quiet /\ suite.at = "off"
  <2>1. suite' = [suite EXCEPT !.quiet = suite.quiet /\ suite.at = "off"]
    BY DEF Meanwhile
  <2>2. suite.quiet \in BOOLEAN
    BY <1>0 DEF SuiteRecords
  <2> DEFINE still == suite.quiet /\ suite.at = "off"
  <2>3. still \in BOOLEAN
    OBVIOUS
  <2>4. suite' = [suite EXCEPT !.quiet = still]
    BY <2>1
  <2>5. still => suite.quiet /\ suite.at = "off"
    OBVIOUS
  <2> HIDE DEF still
  <2> QED BY <1>0, <2>3, <2>4, <2>5 DEF SuiteRecords
<1>4. /\ SilverIds \subseteq SilverIds' /\ QuarantineIds \subseteq QuarantineIds'
      /\ Decided \subseteq Decided'
  BY <1>0, <1>1, TablesGrow
<1>5. ArrivedIds \subseteq ArrivedIds'
  BY <1>0, <1>1, LogGrows DEF ArrivedIds, EventId
<1>6. SuiteTypeOK'
  BY <1>0, <1>2, <1>3 DEF SuiteTypeOK, SuiteRecords
<1>7. QuietKept'
  BY <1>0, <1>3 DEF QuietKept
<1>8. SampleKept'
  BY <1>0, <1>3, <1>4 DEF SampleKept
<1>9. ConservationKept'
  <2>1. /\ SilverIds' \subseteq EventIds /\ Ids(QuarantineIds)' \subseteq EventIds
        /\ Ids(Decided)' \subseteq EventIds /\ Cardinality(silver)' = Cardinality(SilverIds)'
    BY TablesCountedNext DEF SetsOfEvents
  <2>2. /\ Ids(ArrivedIds) \subseteq Ids(ArrivedIds)'
        /\ Ids(QuarantineIds) \subseteq Ids(QuarantineIds)'
        /\ Ids(Decided) \subseteq Ids(Decided)'
    BY <1>4, <1>5 DEF Ids
  <2>3. suite.base \in SUBSET EventIds /\ suite.read.total \in Int /\ suite.read.missing \in Int
    BY <1>0, ConstantsAssumption DEF SuiteRecords
  <2>4. CASE suite.at = "accounted"
    <3>1. Cardinality(suite.base \union Ids(Decided))
            <= Cardinality(suite.base \union Ids(Decided)')
      BY <2>1, <2>2, <2>3, EventsWithin
    <3>2. /\ Cardinality(suite.base \union Ids(Decided)) \in Nat
          /\ Cardinality(suite.base \union Ids(Decided)') \in Nat
      BY <2>1, <2>2, <2>3, Events
    <3>3. /\ suite.base \subseteq Ids(ArrivedIds) /\ suite.read.missing = suite.read.total
          /\ suite.read.total <= Cardinality(suite.base \union Ids(Decided))
      BY <1>0, <2>4 DEF ConservationKept
    <3>4. suite.read.total <= Cardinality(suite.base \union Ids(Decided)')
      BY <2>3, <3>1, <3>2, <3>3
    <3> QED BY <1>3, <2>2, <2>4, <3>3, <3>4 DEF ConservationKept
  <2>5. CASE suite.at = "quarantined"
    <3>1. /\ Cardinality(Ids(QuarantineIds)) <= Cardinality(Ids(QuarantineIds)')
          /\ Cardinality(SilverIds) <= Cardinality(SilverIds)'
      BY <1>4, <2>1, <2>2, EventsWithin
    <3>2. Cardinality(silver) = Cardinality(SilverIds)
      BY <1>0, TablesCounted
    <3>3. /\ Cardinality(Ids(QuarantineIds)) \in Nat /\ Cardinality(Ids(QuarantineIds)') \in Nat
          /\ Cardinality(SilverIds) \in Nat /\ Cardinality(SilverIds)' \in Nat
          /\ Cardinality(suite.base) \in Nat
      BY <1>4, <2>1, <2>2, <2>3, Events
    <3>4. /\ suite.base \subseteq Ids(ArrivedIds)
          /\ suite.read.missing <= Cardinality(suite.base) + Cardinality(Ids(QuarantineIds))
          /\ suite.read.total <= suite.read.missing + Cardinality(silver)
      BY <1>0, <2>5 DEF ConservationKept
    <3>5. suite.read.missing <= Cardinality(suite.base) + Cardinality(Ids(QuarantineIds)')
      BY <2>3, <3>1, <3>3, <3>4
    <3>6. suite.read.total <= suite.read.missing + Cardinality(silver)'
      BY <2>1, <2>3, <3>1, <3>2, <3>3, <3>4
    <3> QED BY <1>3, <2>2, <2>5, <3>4, <3>5, <3>6 DEF ConservationKept
  <2> QED BY <1>3, <2>4, <2>5 DEF ConservationKept
<1> QED BY <1>6, <1>7, <1>8, <1>9 DEF Keeping

-----------------------------------------------------------------------------
(* The invariant.                                                          *)

\* The counters of a batch balance: what is neither rejected nor output is duplicate.
LEMMA CountersBalance ==
    ASSUME TypeOK, NEW w \in Writers
    PROVE  Balanced(Counters(w))
<1> DEFINE ids == {EventId(p) : p \in Rejected(w)}
           source == Cardinality(rows[w])
           rejected == Cardinality(ids)
           output == Cardinality(Newest(Valid(w)))
<1>1. rows[w] \in SUBSET (1..Len(bronze)) /\ Len(bronze) \in Nat
  BY DEF TypeOK
<1>2. IsFiniteSet(rows[w])
  <2>1. IsFiniteSet(1..Len(bronze))
    BY <1>1, FS_Interval
  <2> QED BY <1>1, <2>1, FS_Subset
<1>3. source \in Nat
  BY <1>2, FS_CardinalityType
<1>4. output \in Nat
  <2>1. Newest(Valid(w)) \in SUBSET rows[w]
    BY DEF Newest, Valid
  <2> QED BY <1>2, <2>1, FS_Subset, FS_CardinalityType
<1>5. rejected \in Nat
  <2>1. \A p \in Rejected(w) : EventId(p) \in EventIds \union {NoId}
    BY <1>1, ReadingFacts DEF Rejected, EventId, TypeOK
  <2>2. ids \in SUBSET (EventIds \union {NoId})
    BY <2>1
  <2>3. IsFiniteSet(EventIds \union {NoId})
    BY FS_AddElement, ConstantsAssumption
  <2> QED BY <2>2, <2>3, FS_Subset, FS_CardinalityType
<1>6. /\ Counters(w).source = source /\ Counters(w).rejected = rejected
      /\ Counters(w).output = output
      /\ Counters(w).duplicate = source - rejected - output
  BY DEF Counters
<1> HIDE DEF source, rejected, output
<1> QED BY <1>3, <1>4, <1>5, <1>6 DEF Balanced

LEMMA BalancesStep ==
    ASSUME TypeOK, \A c \in recon : Balanced(c), [Next]_vars
    PROVE  \A c \in recon' : Balanced(c)
<1>1. UNCHANGED recon \/ \E w \in Writers : RecordCounters(w)
  BY DEF Next, WriteBatch, Arrive, Start, Expire, TimePasses, Stranded, PlanBatch,
         ExecuteBatch, StartReplay, AppendQuarantine, MergeSilver, CommitBatch, Crash,
         DeleteCheckpoint, vars, tables
<1>2. ASSUME NEW w \in Writers, RecordCounters(w) PROVE recon' \subseteq recon \union {Counters(w)}
  BY <1>2 DEF RecordCounters
<1> QED BY <1>1, <1>2, CountersBalance

LEMMA BronzeBounded ==
    ASSUME TypeOK, Len(bronze) <= MaxBronze, [Next]_vars
    PROVE  Len(bronze') <= MaxBronze
<1>1. UNCHANGED bronze \/ \E r \in Readings : Arrive(r)
  BY DEF Next, WriteBatch, Start, Expire, TimePasses, Stranded, PlanBatch, ExecuteBatch,
         StartReplay, AppendQuarantine, MergeSilver, RecordCounters, CommitBatch, Crash,
         DeleteCheckpoint, vars, log, clock
<1>2. ASSUME NEW r \in Readings, Arrive(r) PROVE Len(bronze') <= MaxBronze
  <2>1. Len(bronze') = Len(bronze) + 1 /\ Len(bronze) < MaxBronze /\ Len(bronze) \in Nat
    BY <1>2 DEF Arrive, TypeOK
  <2> QED BY <2>1, ConstantsAssumption
<1> QED BY <1>1, <1>2

LEMMA SuiteInitially == SuiteInit => SuiteInv
<1> SUFFICES ASSUME SuiteInit PROVE SuiteInv
  OBVIOUS
<1>1. TypeOK
  BY TypeInit DEF SuiteInit
<1>2. JudgedInTime /\ OneRowPerEvent /\ TablesSound /\ ReplaySampled /\ pc["replay"] = "idle"
  BY DEF SuiteInit, Init, JudgedInTime, OneRowPerEvent, TablesSound, ReplaySampled, Writers
<1>3. Len(bronze) <= MaxBronze /\ \A c \in recon : Balanced(c)
  BY ConstantsAssumption DEF SuiteInit, Init
<1>4. suite \in SuiteRecords /\ suite.at = "off" /\ suite.failed = {}
  BY ConstantsAssumption
     DEF SuiteInit, SuiteRecords, Places, NothingRead, NoAnswer
<1> QED BY <1>1, <1>2, <1>3, <1>4
        DEF SuiteInv, SuiteTypeOK, SuiteRecords, ConservationKept, SampleKept, QuietKept

LEMMA SuiteStep == SuiteInv /\ [SuiteNext]_suiteVars => SuiteInv'
<1> SUFFICES ASSUME SuiteInv, [SuiteNext]_suiteVars PROVE SuiteInv'
  OBVIOUS
<1>1. [Next]_vars
  BY PlatformStep
<1>2. TypeOK' /\ JudgedInTime' /\ OneRowPerEvent' /\ TablesSound' /\ ReplaySampled'
  BY <1>1, TypeStep, JudgedStep, OneRowStep, SoundStep, SampledStep DEF SuiteInv
<1>3. Len(bronze') <= MaxBronze /\ \A c \in recon' : Balanced(c)
  BY <1>1, BronzeBounded, BalancesStep DEF SuiteInv
<1>4. Keeping'
  <2>1. CASE Query /\ UNCHANGED vars
    BY <2>1, QueryKeeps
  <2>2. CASE Replay
    BY <2>2, ReplayKeeps
  <2>3. CASE Meanwhile
    BY <1>2, <2>3, MeanwhileKeeps
  <2>4. CASE UNCHANGED suiteVars
    <3>1. Keeping
      BY DEF SuiteInv, Keeping
    <3>2. UNCHANGED <<suite, pc, bronze, silver, quarantine>>
      BY <2>4 DEF suiteVars, vars, tables, log, clock
    <3>3. ArrivedIds' = ArrivedIds /\ SilverIds' = SilverIds /\ QuarantineIds' = QuarantineIds
      BY <3>2 DEF ArrivedIds, SilverIds, QuarantineIds, EventId
    <3>4. Undecided' = Undecided /\ Ids(Decided)' = Ids(Decided)
            /\ Ids(ArrivedIds)' = Ids(ArrivedIds) /\ Ids(QuarantineIds)' = Ids(QuarantineIds)
      BY <3>3 DEF Undecided, Decided, Ids
    <3>5. SuiteTypeOK'
      BY <3>1, <3>2 DEF Keeping, SuiteTypeOK
    <3>6. SampleKept' /\ QuietKept'
      BY <3>1, <3>2, <3>3, <3>4 DEF Keeping, SampleKept, QuietKept
    <3>7. ConservationKept'
      BY <3>1, <3>2, <3>4 DEF Keeping, ConservationKept
    <3> QED BY <3>5, <3>6, <3>7 DEF Keeping
  <2> QED BY <2>1, <2>2, <2>3, <2>4 DEF SuiteNext
<1> QED BY <1>2, <1>3, <1>4 DEF SuiteInv, Keeping

\* Beside any ingestion, streaming, failures and replays, the counts a check has kept for a
\* later query still bound what the tables hold.
THEOREM SuiteInvariant == SuiteSpec => []SuiteInv
BY SuiteInitially, SuiteStep, PTL DEF SuiteSpec

\* The suite's record keeps its types, and the suite writes in its last check alone.
THEOREM SuiteTypes == SuiteSpec => []SuiteTypeOK
<1>1. SuiteInv => SuiteTypeOK
  BY DEF SuiteInv
<1> QED BY <1>1, SuiteInvariant, PTL

-----------------------------------------------------------------------------
(* What a failure, and a success, tell.                                    *)

\* Only a query answers, and the answer is one of the replies.
LEMMA AnswerIsReply ==
    ASSUME SuiteInv, [SuiteNext]_suiteVars, NEW check \in Checks, NEW status,
           Answered(check, status)
    PROVE  /\ Replies /\ UNCHANGED vars
           /\ suite'.last.check = check /\ suite'.last.status = status
<1>1. /\ suite'.last # suite.last /\ suite'.last = [check |-> check, status |-> status]
      /\ suite \in SuiteRecords
  <2>1. suite'.last # suite.last /\ suite'.last = [check |-> check, status |-> status]
    BY ONLY Answered(check, status) DEF Answered
  <2>2. suite \in SuiteRecords
    BY DEF SuiteInv, SuiteTypeOK, SuiteRecords
  <2> QED BY <2>1, <2>2
<1>2. suite'.last # NoAnswer
  <2>1. suite'.last.check = check
    BY <1>1
  <2>2. NoAnswer.check = "none" /\ "none" \notin Checks
    BY DEF NoAnswer, Checks
  <2> QED BY <2>1, <2>2
<1>3. ~Abort
  BY <1>1, <1>2, AbortResult
<1>4. ~Replay
  <2>1. StartReplay /\ suite' = [suite EXCEPT !.at = "after"] => suite'.last = suite.last
    BY <1>1 DEF SuiteRecords
  <2> QED BY <1>1, <1>3, <2>1 DEF Replay
<1>5. ~Meanwhile
  BY <1>1 DEF Meanwhile, SuiteRecords
<1>6. ~UNCHANGED suiteVars
  BY <1>1 DEF suiteVars
<1>7. Query /\ UNCHANGED vars
  BY <1>4, <1>5, <1>6 DEF SuiteNext
<1>8. ~StartSuite
  BY <1>1 DEF StartSuite, SuiteRecords
<1>9. ~Counts
  BY <1>1, <1>2 DEF Counts, Count, SuiteRecords
<1> QED BY <1>1, <1>3, <1>7, <1>8, <1>9, QueryForms

\* The check that was answered is the one that replied.
LEMMA OtherReplies ==
    ASSUME suite \in SuiteRecords, NEW check \in Checks, suite'.last.check # check
    PROVE  \A wrong : ~Replied(check, wrong)
BY ReplyResult

LEMMA ConservationReply ==
    ASSUME suite \in SuiteRecords, Replies, suite'.last.check = "rows conserved"
    PROVE  suite.at = "quarantined" /\ Replied("rows conserved", Unaccounted)
<1>1. \A check \in Checks : check # "rows conserved" => \A wrong : ~Replied(check, wrong)
  BY OtherReplies
<1>2. /\ ~Replied("bronze ingested", NoRows)
      /\ ~Replied("duplicates injected", FALSE)
      /\ ~Replied("silver deduplicated", NotDistinct)
      /\ ~Replied("quarantine populated", FALSE)
      /\ ~Replied("quarantine is exclusive", NotExclusive)
      /\ ~Replied("reconciliation balances", Unbalanced)
      /\ ~Replied("event_time preserved", SomeAltered)
      /\ ~Replied("manifest reconciliation", Fewer)
      /\ ~Replied("replay is idempotent", NotAsMany)
  BY <1>1 DEF Checks
<1>3. ~Answer("replay is idempotent", "SKIP", "over")
  <2>1. /\ "replay is idempotent" \in Checks /\ "SKIP" \in {"PASS", "FAIL", "SKIP"}
        /\ "over" \in Places
    BY DEF Checks, Places
  <2>2. Answer("replay is idempotent", "SKIP", "over") =>
            suite'.last.check = "replay is idempotent" /\ suite'.last.status = "SKIP"
    BY <2>1, AnswerStatus
  <2> QED BY <2>2
<1> QED BY <1>2, <1>3 DEF Replies

LEMMA ReplayReply ==
    ASSUME suite \in SuiteRecords, Replies, suite'.last.check = "replay is idempotent",
           suite'.last.status = "FAIL"
    PROVE  suite.at = "after" /\ Replied("replay is idempotent", NotAsMany)
<1>1. \A check \in Checks : check # "replay is idempotent" => \A wrong : ~Replied(check, wrong)
  BY OtherReplies
<1>2. /\ ~Replied("bronze ingested", NoRows)
      /\ ~Replied("duplicates injected", FALSE)
      /\ ~Replied("silver deduplicated", NotDistinct)
      /\ ~Replied("rows conserved", Unaccounted)
      /\ ~Replied("quarantine populated", FALSE)
      /\ ~Replied("quarantine is exclusive", NotExclusive)
      /\ ~Replied("reconciliation balances", Unbalanced)
      /\ ~Replied("event_time preserved", SomeAltered)
      /\ ~Replied("manifest reconciliation", Fewer)
  BY <1>1 DEF Checks
<1>3. ~Answer("replay is idempotent", "SKIP", "over")
  <2>1. /\ "replay is idempotent" \in Checks /\ "SKIP" \in {"PASS", "FAIL", "SKIP"}
        /\ "over" \in Places
    BY DEF Checks, Places
  <2>2. Answer("replay is idempotent", "SKIP", "over") =>
            suite'.last.check = "replay is idempotent" /\ suite'.last.status = "SKIP"
    BY <2>1, AnswerStatus
  <2> QED BY <2>2
<1> QED BY <1>2, <1>3 DEF Replies

LEMMA RecordNumbers ==
    ASSUME suite \in SuiteRecords
    PROVE  /\ suite.read.total \in Int /\ suite.read.missing \in Int
           /\ suite.base \in SUBSET EventIds
<1>1. /\ suite.read.total \in 0..MaxBronze /\ suite.read.missing \in -MaxBronze..MaxBronze
      /\ suite.base \in SUBSET EventIds
  BY DEF SuiteRecords
<1> QED BY <1>1, ConstantsAssumption

\* The arithmetic of the conservation check: its events, those in quarantine, the masked ones.
LEMMA LossShows ==
    ASSUME NEW missing \in Int, NEW base \in Nat, NEW q \in Nat, NEW masked \in Nat,
           NEW tolerance \in Nat, missing - (q + masked) > tolerance, missing <= base + q
    PROVE  base > tolerance
OBVIOUS

LEMMA LossBounded ==
    ASSUME NEW missing \in Int, NEW total \in Int, NEW lost \in Nat, NEW s \in Nat,
           NEW q \in Nat, NEW arrived \in Nat, NEW masked \in Nat, NEW tolerance \in Nat,
           ~(missing - (q + masked) > tolerance), total <= missing + s, lost + (s + q) <= arrived
    PROVE  lost <= tolerance + masked + (arrived - total)
OBVIOUS

LEMMA AlarmStep == SuiteInv /\ [SuiteNext]_suiteVars =>
    [Answered("rows conserved", "FAIL") => Cardinality(suite.base) > Tolerance]_suiteVars
<1> SUFFICES ASSUME SuiteInv, [SuiteNext]_suiteVars, Answered("rows conserved", "FAIL")
             PROVE  Cardinality(suite.base) > Tolerance
  OBVIOUS
<1>0. suite \in SuiteRecords /\ "rows conserved" \in Checks
  BY DEF SuiteInv, SuiteTypeOK, SuiteRecords, Checks
<1>1. Replies /\ suite'.last.check = "rows conserved" /\ suite'.last.status = "FAIL"
  BY <1>0, AnswerIsReply
<1>2. suite.at = "quarantined" /\ Replied("rows conserved", Unaccounted)
  BY <1>0, <1>1, ConservationReply
<1>3. suite.read.missing - (Cardinality(Ids(QuarantineIds)) + Masked) > Tolerance
  <2>1. PICK status \in {"PASS", "FAIL", "SKIP"}, next \in Places \ KeptPlaces :
            Answer("rows conserved", status, next) /\ (status = "FAIL" => Unaccounted)
    BY <1>2, Zenon DEF Replied
  <2>2. suite'.last.status = status
    BY <1>0, <2>1, AnswerStatus
  <2>3. status = "FAIL"
    BY <1>1, <2>2
  <2> QED BY <2>1, <2>3 DEF Unaccounted, QuarantinedEvents
<1>4. suite.read.missing <= Cardinality(suite.base) + Cardinality(Ids(QuarantineIds))
  BY <1>2 DEF SuiteInv, ConservationKept
<1>5. /\ suite.read.missing \in Int /\ Cardinality(suite.base) \in Nat
      /\ Cardinality(Ids(QuarantineIds)) \in Nat /\ Masked \in Nat /\ Tolerance \in Nat
  <2>1. /\ Ids(QuarantineIds) \subseteq Ids(ArrivedIds) /\ Ids(ArrivedIds) \subseteq EventIds
        /\ Masked \in Nat
    BY TablesCounted DEF SuiteInv
  <2>2. suite.base \in SUBSET EventIds /\ suite.read.missing \in Int
    BY <1>0, RecordNumbers
  <2> QED BY <2>1, <2>2, Events, ToleranceAssumption
<1> QED BY <1>3, <1>4, <1>5, LossShows

\* A conservation check fails only if, when it began, more events than it tolerates had
\* arrived and were neither in Silver nor in quarantine, lost or in flight still; what was
\* written between its three queries does not make it fail (check_row_conservation).
THEOREM ConservationAlarmHolds == SuiteSpec => ConservationAlarm
BY AlarmStep, SuiteInvariant, PTL DEF SuiteSpec, ConservationAlarm

LEMMA ReplayAlarmStep == SuiteInv /\ [SuiteNext]_suiteVars =>
    [Answered("replay is idempotent", "FAIL") => SilverIds \ suite.base # {}]_suiteVars
<1> SUFFICES ASSUME SuiteInv, [SuiteNext]_suiteVars, Answered("replay is idempotent", "FAIL"),
                    SilverIds \subseteq suite.base
             PROVE  FALSE
  OBVIOUS
<1>0. suite \in SuiteRecords /\ "replay is idempotent" \in Checks
  BY DEF SuiteInv, SuiteTypeOK, SuiteRecords, Checks
<1>1. Replies /\ suite'.last.check = "replay is idempotent" /\ suite'.last.status = "FAIL"
  BY <1>0, AnswerIsReply
<1>2. suite.at = "after" /\ Replied("replay is idempotent", NotAsMany)
  BY <1>0, <1>1, ReplayReply
<1>3. Cardinality(silver) # suite.read.total
  BY <1>0, <1>1, <1>2, ReplyResult DEF NotAsMany
<1>4. suite.base = SilverIds /\ suite.read.total = Cardinality(suite.base)
  BY <1>2 DEF SuiteInv, SampleKept
<1>5. Cardinality(silver) = Cardinality(SilverIds)
  BY TablesCounted DEF SuiteInv
<1> QED BY <1>3, <1>4, <1>5

\* A failing replay check has met an event the stream added meanwhile: the replay itself
\* adds no row (check_idempotency).
THEOREM ReplayAlarmHolds == SuiteSpec => ReplayAlarm
BY ReplayAlarmStep, SuiteInvariant, PTL DEF SuiteSpec, ReplayAlarm
-----------------------------------------------------------------------------
(* While ids are issued once and no clock is ahead.                        *)

\* No event is both in Silver and in quarantine.
LEMMA NeverBoth ==
    ASSUME EventIdsUnique, HonestClocks, TypeOK, TablesSound
    PROVE  SilverIds \intersect Ids(QuarantineIds) = {}
<1> SUFFICES ASSUME NEW s \in silver, NEW q \in quarantine, s.event_id = EventId(q.pos),
                    s.event_id # NoId
             PROVE  FALSE
  BY DEF SilverIds, QuarantineIds, Ids
<1>1. s.pos \in 1..Len(bronze) /\ q.pos \in 1..Len(bronze)
  BY DEF TypeOK
<1>2. /\ bronze[s.pos] \in Readings /\ bronze[q.pos] \in Readings
  BY <1>1 DEF TypeOK
<1>3. /\ bronze[s.pos].event_id = bronze[q.pos].event_id /\ bronze[q.pos].event_id # NoId
      /\ bronze[s.pos].failed = {} /\ bronze[q.pos].failed # {}
  BY DEF TablesSound, EventId, HonestClocks
<1>4. bronze[s.pos] = bronze[q.pos]
  BY <1>2, <1>3 DEF EventIdsUnique
<1> QED BY <1>3, <1>4

LEMMA ConservationAnswerStep ==
    ASSUME EventIdsUnique, HonestClocks
    PROVE  SuiteInv /\ [SuiteNext]_suiteVars =>
             [Answered("rows conserved", "PASS")
                => Cardinality(suite.base \ Decided)
                     <= Tolerance + Masked
                          + (Cardinality(Ids(ArrivedIds)) - suite.read.total)]_suiteVars
<1> SUFFICES ASSUME SuiteInv, [SuiteNext]_suiteVars, Answered("rows conserved", "PASS")
             PROVE  Cardinality(suite.base \ Decided)
                      <= Tolerance + Masked
                           + (Cardinality(Ids(ArrivedIds)) - suite.read.total)
  OBVIOUS
<1>0. suite \in SuiteRecords /\ "rows conserved" \in Checks
  BY DEF SuiteInv, SuiteTypeOK, SuiteRecords, Checks
<1>1. Replies /\ suite'.last.check = "rows conserved" /\ suite'.last.status = "PASS"
  BY <1>0, AnswerIsReply
<1>2. suite.at = "quarantined" /\ Replied("rows conserved", Unaccounted)
  BY <1>0, <1>1, ConservationReply
<1>3. ~(suite.read.missing - (Cardinality(Ids(QuarantineIds)) + Masked) > Tolerance)
  <2>1. ~Unaccounted
    BY <1>0, <1>1, <1>2, ReplyResult
  <2> QED BY <2>1 DEF Unaccounted, QuarantinedEvents
<1>4. /\ suite.base \subseteq Ids(ArrivedIds)
      /\ suite.read.total <= suite.read.missing + Cardinality(silver)
  BY <1>2 DEF SuiteInv, ConservationKept
<1>5. /\ SilverIds \subseteq Ids(ArrivedIds)
      /\ Ids(QuarantineIds) \subseteq Ids(ArrivedIds) /\ Ids(ArrivedIds) \subseteq EventIds
      /\ Ids(Decided) = SilverIds \union Ids(QuarantineIds)
      /\ Cardinality(silver) = Cardinality(SilverIds)
      /\ Masked \in Nat
  BY TablesCounted DEF SuiteInv
<1> DEFINE missed == suite.base \ Decided
<1>6. /\ missed \subseteq Ids(ArrivedIds) /\ missed \intersect Ids(Decided) = {}
  BY <1>4 DEF Ids
<1> HIDE DEF missed
<1>7. Cardinality(SilverIds \union Ids(QuarantineIds))
        = Cardinality(SilverIds) + Cardinality(Ids(QuarantineIds))
  <2>1. SilverIds \intersect Ids(QuarantineIds) = {}
    BY NeverBoth DEF SuiteInv
  <2>2. SilverIds \in SUBSET EventIds /\ Ids(QuarantineIds) \in SUBSET EventIds
    BY <1>5
  <2> QED BY <2>1, <2>2, EventsUnited
<1>8. Cardinality(missed) + Cardinality(Ids(Decided)) <= Cardinality(Ids(ArrivedIds))
  <2>1. missed \in SUBSET EventIds /\ Ids(Decided) \in SUBSET EventIds
    BY <1>5, <1>6
  <2>2. Cardinality(missed \union Ids(Decided)) = Cardinality(missed) + Cardinality(Ids(Decided))
    BY <1>6, <2>1, EventsUnited
  <2>3. missed \union Ids(Decided) \subseteq Ids(ArrivedIds)
    BY <1>5, <1>6
  <2>4. Cardinality(missed \union Ids(Decided)) <= Cardinality(Ids(ArrivedIds))
    BY <1>5, <2>3, EventsWithin
  <2> QED BY <2>2, <2>4
<1>9. /\ Cardinality(missed) \in Nat /\ Cardinality(SilverIds) \in Nat
      /\ Cardinality(Ids(QuarantineIds)) \in Nat /\ Cardinality(Ids(ArrivedIds)) \in Nat
      /\ Tolerance \in Nat /\ suite.read.total \in Int /\ suite.read.missing \in Int
  <2>1. suite.read.total \in Int /\ suite.read.missing \in Int
    BY <1>0, RecordNumbers
  <2> QED BY <1>5, <1>6, <2>1, Events, ToleranceAssumption
<1>10. suite.read.total <= suite.read.missing + Cardinality(SilverIds)
  BY <1>4, <1>5
<1>11. Cardinality(missed) + (Cardinality(SilverIds) + Cardinality(Ids(QuarantineIds)))
         <= Cardinality(Ids(ArrivedIds))
  BY <1>5, <1>7, <1>8
<1>12. Cardinality(missed) <= Tolerance + Masked
                                + (Cardinality(Ids(ArrivedIds)) - suite.read.total)
  BY <1>3, <1>5, <1>9, <1>10, <1>11, LossBounded
<1> QED BY <1>12 DEF missed

\* While ids are issued once and no clock is ahead, so that no event is counted in both
\* tables, a passing conservation check leaves at most so many of the events it was about undecided:
\* those it tolerates, and one for each rule of an unidentified record and for each event
\* that arrived while it counted.
THEOREM ConservationAnswerHolds ==
    EventIdsUnique /\ HonestClocks => (SuiteSpec => ConservationAnswer)
<1> SUFFICES ASSUME EventIdsUnique, HonestClocks PROVE SuiteSpec => ConservationAnswer
  OBVIOUS
<1> QED BY ConservationAnswerStep, SuiteInvariant, PTL DEF SuiteSpec, ConservationAnswer

\* The check ends without a failure.
RepliedWell(check) ==
    \E status \in {"PASS", "SKIP"}, next \in Places : Answer(check, status, next)

LEMMA NoFailure ==
    ASSUME suite \in SuiteRecords, NEW check \in Checks, RepliedWell(check)
    PROVE  suite'.failed = suite.failed
<1>1. PICK status \in {"PASS", "SKIP"}, next \in Places : Answer(check, status, next)
  BY DEF RepliedWell
<1>2. status \in {"PASS", "FAIL", "SKIP"} /\ status # "FAIL"
  OBVIOUS
<1> QED BY <1>1, <1>2, AnswerResult

\* What no other action touches: only replies add failures.
LEMMA FailuresByReplies ==
    ASSUME suite \in SuiteRecords, [SuiteNext]_suiteVars
    PROVE  \/ suite'.failed \subseteq suite.failed
           \/ Replies /\ UNCHANGED vars
<1>1. CASE Query /\ UNCHANGED vars
  <2>1. StartSuite => suite'.failed = suite.failed
    BY DEF StartSuite, SuiteRecords
  <2>2. Counts => suite'.failed = suite.failed
    BY DEF Counts, Count, SuiteRecords
  <2>3. Abort => suite'.failed = {}
    BY AbortResult
  <2> QED BY <1>1, <2>1, <2>2, <2>3, QueryForms
<1>2. CASE Replay
  <2>1. suite' = [suite EXCEPT !.at = "after"] => suite'.failed = suite.failed
    BY DEF SuiteRecords
  <2>2. Abort => suite'.failed = {}
    BY AbortResult
  <2> QED BY <1>2, <2>1, <2>2 DEF Replay
<1>3. CASE Meanwhile
  BY <1>3 DEF Meanwhile, SuiteRecords
<1>4. CASE UNCHANGED suiteVars
  BY <1>4 DEF suiteVars
<1> QED BY <1>1, <1>2, <1>3, <1>4 DEF SuiteNext

LEMMA ExclusiveStep ==
    ASSUME EventIdsUnique, HonestClocks
    PROVE  SuiteInv /\ ExclusiveAnswer /\ [SuiteNext]_suiteVars => ExclusiveAnswer'
<1> SUFFICES ASSUME SuiteInv, ExclusiveAnswer, [SuiteNext]_suiteVars PROVE ExclusiveAnswer'
  OBVIOUS
<1>1. suite \in SuiteRecords
  BY DEF SuiteInv, SuiteTypeOK, SuiteRecords
<1>2. CASE suite'.failed \subseteq suite.failed
  BY <1>2 DEF ExclusiveAnswer
<1>3. CASE Replies
  <2>1. ASSUME NEW check \in Checks \ {"quarantine is exclusive"}, NEW wrong,
               Replied(check, wrong)
        PROVE  ExclusiveAnswer'
    <3>1. suite'.failed \subseteq suite.failed \union {check}
      BY <1>1, <2>1, ReplyResult
    <3> QED BY <3>1 DEF ExclusiveAnswer
  <2>2. ASSUME Replied("quarantine is exclusive", NotExclusive) PROVE ExclusiveAnswer'
    <3>1. ~NotExclusive
      BY NeverBoth DEF NotExclusive, Ids, SuiteInv
    <3>2. "quarantine is exclusive" \in Checks
      BY DEF Checks
    <3>3. RepliedWell("quarantine is exclusive")
      BY <2>2, <3>1 DEF Replied, RepliedWell
    <3>4. suite'.failed = suite.failed
      BY <1>1, <3>2, <3>3, NoFailure
    <3> QED BY <3>4 DEF ExclusiveAnswer
  <2>3. ASSUME Answer("replay is idempotent", "SKIP", "over") PROVE ExclusiveAnswer'
    <3>1. "replay is idempotent" \in Checks /\ RepliedWell("replay is idempotent")
      BY <2>3 DEF Checks, Places, RepliedWell
    <3>2. suite'.failed = suite.failed
      BY <1>1, <3>1, NoFailure
    <3> QED BY <3>2 DEF ExclusiveAnswer
  <2>4. Checks \ {"quarantine is exclusive"} =
            {"bronze ingested", "duplicates injected", "silver deduplicated",
             "rows conserved", "quarantine populated", "reconciliation balances",
             "event_time preserved", "manifest reconciliation", "replay is idempotent"}
    BY DEF Checks
  <2>5. \A check \in Checks \ {"quarantine is exclusive"} :
            \A wrong : Replied(check, wrong) => ExclusiveAnswer'
    BY <2>1
  <2> QED BY <1>3, <2>2, <2>3, <2>4, <2>5 DEF Replies
<1> QED BY <1>1, <1>2, <1>3, FailuresByReplies

\* While ids are issued once and no clock is ahead, the exclusivity check never fails,
\* whenever it looks at the two tables (check_quarantine_is_populated_and_attributed).  A
\* clock ahead can make it fail; see BothOnlyAheadHolds.
THEOREM ExclusiveAnswerHolds ==
    EventIdsUnique /\ HonestClocks => (SuiteSpec => []ExclusiveAnswer)
<1> SUFFICES ASSUME EventIdsUnique, HonestClocks PROVE SuiteSpec => []ExclusiveAnswer
  OBVIOUS
<1>1. SuiteInit => ExclusiveAnswer
  BY DEF SuiteInit, ExclusiveAnswer
<1> QED BY <1>1, ExclusiveStep, SuiteInvariant, PTL DEF SuiteSpec

\* At rest, no check finds anything wrong.
LEMMA NothingWrong ==
    ASSUME EventIdsUnique, HonestClocks, SuiteInv, AtRest
    PROVE  /\ ~NoRows /\ ~NotExclusive /\ ~Unbalanced /\ ~SomeAltered /\ ~Fewer
           /\ suite.at = "distinct silver" => ~NotDistinct
           /\ suite.at = "quarantined" => ~Unaccounted
           /\ suite.at = "after" => ~NotAsMany
<1>0. /\ TypeOK /\ TablesSound /\ suite \in SuiteRecords
      /\ suite.quiet /\ bronze # << >> /\ Undecided = {}
  BY DEF SuiteInv, SuiteTypeOK, SuiteRecords, AtRest
<1>1. /\ SilverIds \subseteq Ids(ArrivedIds) /\ Ids(SilverIds) = SilverIds
      /\ Ids(QuarantineIds) \subseteq Ids(ArrivedIds) /\ Ids(ArrivedIds) \subseteq EventIds
      /\ Cardinality(silver) = Cardinality(SilverIds) /\ Masked \in Nat
  BY TablesCounted DEF SuiteInv
<1>2. SilverIds \intersect Ids(QuarantineIds) = {}
  BY <1>0, NeverBoth
<1>3. ~NoRows
  BY <1>0, Zenon DEF NoRows
<1>4. ~NotExclusive
  BY <1>2 DEF NotExclusive, Ids
<1>5. ~Unbalanced
  BY DEF Unbalanced, SuiteInv
<1>6. ~SomeAltered
  <2> SUFFICES ASSUME NEW s \in silver, NEW p \in 1..Len(bronze),
                      EventId(p) = s.event_id, bronze[p].event_time < bronze[s.pos].event_time
               PROVE  FALSE
    BY DEF SomeAltered, Altered
  <2>1. s.pos \in 1..Len(bronze) /\ s.event_id = EventId(s.pos) /\ bronze[s.pos].failed = {}
    BY <1>0 DEF TypeOK, TablesSound
  <2>2. bronze[p] \in Readings /\ bronze[s.pos] \in Readings
    BY <1>0, <2>1 DEF TypeOK
  <2>3. bronze[p].event_id = bronze[s.pos].event_id
    BY <2>1 DEF EventId
  <2>4. bronze[s.pos].event_id # NoId
    BY <2>1, <2>2, ReadingsAssumption
  <2>5. bronze[p] = bronze[s.pos]
    BY <2>2, <2>3, <2>4 DEF EventIdsUnique
  <2>6. bronze[p].event_time \in Nat
    BY <2>2, ReadingFacts
  <2> QED BY <2>5, <2>6
<1>7. ~Fewer
  <2> DEFINE marked == Ids({r.event_id : r \in Invalid})
  <2>1. marked \subseteq Ids(QuarantineIds)
    <3> SUFFICES ASSUME NEW p \in 1..Len(bronze), bronze[p].failed # {}, EventId(p) # NoId
                 PROVE  EventId(p) \in QuarantineIds
      BY DEF Invalid, Ids, EventId
    <3>1. EventId(p) \in SilverIds \union QuarantineIds
      BY <1>0 DEF Undecided, Decided, Ids, ArrivedIds
    <3>2. EventId(p) \notin SilverIds
      <4> SUFFICES ASSUME NEW s \in silver, s.event_id = EventId(p) PROVE FALSE
        BY DEF SilverIds
      <4>1. s.pos \in 1..Len(bronze) /\ s.event_id = EventId(s.pos) /\ bronze[s.pos].failed = {}
        BY <1>0 DEF TypeOK, TablesSound
      <4>2. bronze[p] \in Readings /\ bronze[s.pos] \in Readings
        BY <1>0, <4>1 DEF TypeOK
      <4>3. bronze[p] = bronze[s.pos]
        BY <4>1, <4>2 DEF EventIdsUnique, EventId
      <4> QED BY <4>1, <4>3
    <3> QED BY <3>1, <3>2
  <2>2. 2 * Cardinality(marked) >= Cardinality(Invalid)
    BY DEF AtRest
  <2> HIDE DEF marked
  <2>3. Cardinality(marked) <= Cardinality(Ids(QuarantineIds))
    BY <1>1, <2>1, EventsWithin
  <2>4. Cardinality(marked) \in Nat /\ Cardinality(Ids(QuarantineIds)) \in Nat
    BY <1>1, <2>1, Events
  <2>5. Cardinality(Invalid) \in Nat
    <3>1. Len(bronze) \in Nat
      BY <1>0 DEF TypeOK
    <3> DEFINE bad == {p \in 1..Len(bronze) : bronze[p].failed # {}}
               f == [p \in bad |-> bronze[p]]
    <3>2. IsFiniteSet(bad)
      <4>1. IsFiniteSet(1..Len(bronze))
        BY <3>1, FS_Interval
      <4>2. bad \in SUBSET (1..Len(bronze))
        OBVIOUS
      <4> QED BY <4>1, <4>2, FS_Subset
    <3>3. f \in Surjection(bad, Invalid)
      BY DEF Surjection, Invalid
    <3> HIDE DEF bad, f
    <3>4. IsFiniteSet(Invalid)
      BY <3>2, <3>3, FS_Surjection
    <3> QED BY <3>4, FS_CardinalityType
  <2> QED BY <2>2, <2>3, <2>4, <2>5 DEF Fewer
<1>8. suite.at = "distinct silver" => ~NotDistinct
  BY <1>0, <1>1 DEF SuiteInv, QuietKept, NotDistinct
<1>9. suite.at = "quarantined" => ~Unaccounted
  <2> SUFFICES ASSUME suite.at = "quarantined", Unaccounted PROVE FALSE
    OBVIOUS
  <2>1. suite.read.missing - (Cardinality(Ids(QuarantineIds)) + Masked) > Tolerance
    BY DEF Unaccounted, QuarantinedEvents
  <2>2. suite.read.missing <= Cardinality(suite.base) + Cardinality(Ids(QuarantineIds))
    BY DEF SuiteInv, ConservationKept
  <2>3. suite.base = {}
    BY <1>0 DEF SuiteInv, QuietKept
  <2>4. Cardinality(suite.base) = 0
    BY <2>3, FS_EmptySet
  <2>5. suite.read.missing \in Int /\ Cardinality(Ids(QuarantineIds)) \in Nat
    BY <1>0, <1>1, RecordNumbers, Events
  <2>6. Cardinality(suite.base) > Tolerance
    BY <1>1, <2>1, <2>2, <2>4, <2>5, LossShows, ToleranceAssumption
  <2> QED BY <2>4, <2>6, ToleranceAssumption
<1>10. suite.at = "after" => ~NotAsMany
  BY <1>0, <1>1 DEF SuiteInv, QuietKept, SampleKept, NotAsMany
<1> QED BY <1>3, <1>4, <1>5, <1>6, <1>7, <1>8, <1>9, <1>10

LEMMA RestedReplies ==
    ASSUME EventIdsUnique, HonestClocks, SuiteInv, AtRest, Replies
    PROVE  suite'.failed = suite.failed
<1>0. suite \in SuiteRecords
  BY DEF SuiteInv, SuiteTypeOK, SuiteRecords
<1>1. /\ ~NoRows /\ ~NotExclusive /\ ~Unbalanced /\ ~SomeAltered /\ ~Fewer
      /\ suite.at = "distinct silver" => ~NotDistinct
      /\ suite.at = "quarantined" => ~Unaccounted
      /\ suite.at = "after" => ~NotAsMany
  BY NothingWrong
<1>2. Replied("bronze ingested", NoRows) => RepliedWell("bronze ingested")
  BY <1>1 DEF Replied, RepliedWell
<1>3. Replied("duplicates injected", FALSE) => RepliedWell("duplicates injected")
  BY <1>1 DEF Replied, RepliedWell
<1>4. suite.at = "distinct silver" /\ Replied("silver deduplicated", NotDistinct)
        => RepliedWell("silver deduplicated")
  BY <1>1 DEF Replied, RepliedWell
<1>5. suite.at = "quarantined" /\ Replied("rows conserved", Unaccounted)
        => RepliedWell("rows conserved")
  BY <1>1 DEF Replied, RepliedWell
<1>6. Replied("quarantine populated", FALSE) => RepliedWell("quarantine populated")
  BY <1>1 DEF Replied, RepliedWell
<1>7. Replied("quarantine is exclusive", NotExclusive) => RepliedWell("quarantine is exclusive")
  BY <1>1 DEF Replied, RepliedWell
<1>8. Replied("reconciliation balances", Unbalanced) => RepliedWell("reconciliation balances")
  BY <1>1 DEF Replied, RepliedWell
<1>9. Replied("event_time preserved", SomeAltered) => RepliedWell("event_time preserved")
  BY <1>1 DEF Replied, RepliedWell
<1>10. Replied("manifest reconciliation", Fewer) => RepliedWell("manifest reconciliation")
  BY <1>1 DEF Replied, RepliedWell
<1>11. suite.at = "after" /\ Replied("replay is idempotent", NotAsMany)
        => RepliedWell("replay is idempotent")
  BY <1>1 DEF Replied, RepliedWell
<1>12. Answer("replay is idempotent", "SKIP", "over") => RepliedWell("replay is idempotent")
  BY DEF RepliedWell, Places
<1>13. \E check \in Checks : RepliedWell(check)
  BY <1>2, <1>3, <1>4, <1>5, <1>6, <1>7, <1>8, <1>9, <1>10, <1>11, <1>12 DEF Replies, Checks
<1> QED BY <1>0, <1>13, NoFailure

LEMMA QuietStep ==
    ASSUME EventIdsUnique, HonestClocks
    PROVE  SuiteInv /\ QuietSuitePasses /\ [SuiteNext]_suiteVars => QuietSuitePasses'
<1> SUFFICES ASSUME SuiteInv, QuietSuitePasses, [SuiteNext]_suiteVars, AtRest'
             PROVE  suite'.failed = {}
  BY DEF QuietSuitePasses
<1>0. suite \in SuiteRecords /\ TypeOK /\ TablesSound /\ ReplaySampled
  BY DEF SuiteInv, SuiteTypeOK, SuiteRecords
<1>1. ASSUME UNCHANGED bronze, Decided' = Decided, suite'.quiet => suite.quiet
      PROVE  AtRest
  <2>1. ArrivedIds' = ArrivedIds /\ Invalid' = Invalid
    BY <1>1 DEF ArrivedIds, EventId, Invalid
  <2>2. Undecided' = Undecided
    BY <1>1, <2>1 DEF Undecided, Ids
  <2> QED BY <1>1, <2>1, <2>2 DEF AtRest, Ids
<1>2. CASE Meanwhile
  <2>1. suite'.failed = suite.failed /\ (suite'.quiet => suite.quiet /\ suite.at = "off")
    BY <1>0, <1>2 DEF Meanwhile, SuiteRecords
  <2> QED BY <2>1 DEF SuiteInv, QuietKept, AtRest
<1>3. CASE Replay
  <2>1. UNCHANGED bronze /\ Decided' = Decided
    BY <1>0, <1>3, ReplayInPlace DEF Replay
  <2>2. suite' = [suite EXCEPT !.at = "after"] =>
            suite'.failed = suite.failed /\ suite'.quiet = suite.quiet
    BY <1>0 DEF SuiteRecords
  <2>3. Abort => suite'.failed = {}
    BY <1>0, AbortResult
  <2> QED BY <1>1, <1>3, <2>1, <2>2, <2>3 DEF Replay, QuietSuitePasses
<1>4. CASE UNCHANGED vars /\ (Query \/ UNCHANGED suite)
  <2>1. UNCHANGED bronze /\ Decided' = Decided
    BY <1>4 DEF vars, tables, Decided, SilverIds, QuarantineIds, EventId, log, clock
  <2>2. CASE Abort
    BY <1>0, <2>2, AbortResult
  <2>3. CASE Replies
    <3>1. suite'.quiet = suite.quiet
      BY <1>0, <2>3, RepliesResult
    <3>2. AtRest
      BY <1>1, <2>1, <3>1
    <3> QED BY <2>3, <3>2, RestedReplies DEF QuietSuitePasses
  <2>4. CASE StartSuite \/ Counts \/ UNCHANGED suite
    <3>1. suite'.failed = suite.failed /\ suite'.quiet = suite.quiet
      BY <1>0, <2>4 DEF StartSuite, Counts, Count, SuiteRecords
    <3> QED BY <1>1, <2>1, <3>1 DEF QuietSuitePasses
  <2> QED BY <1>4, <2>2, <2>3, <2>4, QueryForms
<1> QED BY <1>2, <1>3, <1>4 DEF SuiteNext, suiteVars

\* With unique ids and sound clocks, on a platform at rest, every event decided and most invalid ones identified, no check has
\* failed: late rows, repeats, unidentified records and the suite's own replay break none.
THEOREM QuietSuitePassesHolds ==
    EventIdsUnique /\ HonestClocks => (SuiteSpec => []QuietSuitePasses)
<1> SUFFICES ASSUME EventIdsUnique, HonestClocks PROVE SuiteSpec => []QuietSuitePasses
  OBVIOUS
<1>1. SuiteInit => QuietSuitePasses
  BY DEF SuiteInit, QuietSuitePasses
<1> QED BY <1>1, QuietStep, SuiteInvariant, PTL DEF SuiteSpec
=============================================================================
