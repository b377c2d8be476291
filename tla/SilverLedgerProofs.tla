-------------------------- MODULE SilverLedgerProofs --------------------------
(* SilverTransform implements EventLedger: every event no skewed vehicle    *)
(* reports gets one verdict, and an event is in both tables only when the   *)
(* rule on the future rejected it first.                                    *)
EXTENDS SilverTransformProofs

\* A reading whose clock is sound fails the same rules whenever it is judged.
LEMMA HonestVerdict ==
    ASSUME TypeOK, JudgedInTime, NEW w \in Writers, NEW p \in rows[w], bronze[p] \notin Skewed
    PROVE  FailedRules(bronze[p], judged[w]) = bronze[p].failed
<1>1. p \in 1..Len(bronze) /\ judged[w] \in Nat
  BY DEF TypeOK
<1>2. bronze[p].event_time \in Nat /\ bronze[p].event_time <= judged[w]
  BY <1>1, BatchInLog DEF JudgedInTime
<1>3. ~(bronze[p].event_time > judged[w])
  BY <1>1, <1>2
<1> QED BY <1>3 DEF FailedRules

LEMMA SoundStep == TypeOK /\ JudgedInTime /\ TablesSound /\ [Next]_vars => TablesSound'
<1> SUFFICES ASSUME TypeOK, JudgedInTime, TablesSound, [Next]_vars PROVE TablesSound'
  OBVIOUS
<1>0. /\ \A s \in silver : s.pos \in 1..Len(bronze)
      /\ \A q \in quarantine : q.pos \in 1..Len(bronze)
  BY DEF TypeOK
<1>1. CASE UNCHANGED <<silver, quarantine>>
  BY <1>0, <1>1, LogGrows DEF TablesSound, EventId
<1>2. ASSUME NEW w \in Writers, AppendQuarantine(w) PROVE TablesSound'
  <2>1. ASSUME NEW q \in QuarantineRows(w)
        PROVE  \/ q.rule \in bronze[q.pos].failed
               \/ q.rule = FutureRule /\ bronze[q.pos] \in Skewed
    <3>1. q.pos \in rows[w] /\ q.rule \in FailedRules(bronze[q.pos], judged[w])
      BY DEF QuarantineRows, Rejected
    <3>2. CASE bronze[q.pos] \in Skewed
      BY <3>1, <3>2 DEF FailedRules
    <3>3. CASE bronze[q.pos] \notin Skewed
      BY <3>1, <3>3, HonestVerdict
    <3> QED BY <3>2, <3>3
  <2>2. UNCHANGED <<bronze, silver>> /\ quarantine' = quarantine \union QuarantineRows(w)
    BY <1>2 DEF AppendQuarantine, log
  <2> QED BY <2>1, <2>2 DEF TablesSound, EventId
<1>3. ASSUME NEW w \in Writers, MergeSilver(w) PROVE TablesSound'
  <2>1. \A u \in Prepared(w) : u.event_id = EventId(u.pos) /\ bronze[u.pos].failed = {}
    BY DEF Prepared, Newest, Valid, FailedRules
  <2>2. /\ silver' \subseteq silver \union Prepared(w)
        /\ UNCHANGED <<bronze, quarantine>>
    BY <1>3 DEF MergeSilver, MergeInto, log
  <2> QED BY <2>1, <2>2 DEF TablesSound, EventId
<1>4. \/ UNCHANGED <<silver, quarantine>>
      \/ \E w \in Writers : AppendQuarantine(w) \/ MergeSilver(w)
  BY DEF Next, WriteBatch, Arrive, Expire, TimePasses, Start, PlanBatch, ExecuteBatch,
         Stranded, StartReplay, RecordCounters, CommitBatch, Crash, DeleteCheckpoint, vars,
         tables
<1> QED BY <1>1, <1>2, <1>3, <1>4

LEMMA TablesSoundHolds == Spec => []TablesSound
<1>1. Init => TablesSound
  BY DEF Init, TablesSound
<1>2. IInv => TypeOK /\ JudgedInTime
  BY DEF IInv
<1> QED BY <1>1, <1>2, SoundStep, InductiveInvariant, PTL DEF Spec

\* While ids are issued once, an event is in Silver and in quarantine only when its
\* vehicle's clock is ahead and the rule on the future, the one rule that depends on the
\* time, rejected it before a re-execution, a replay or a backfill judged it again.
THEOREM BothOnlyAheadHolds ==
    ASSUME EventIdsUnique
    PROVE  Spec => []BothOnlyAhead
<1>1. TypeOK /\ TablesSound => BothOnlyAhead
  <2> SUFFICES ASSUME TypeOK, TablesSound, NEW s \in silver, NEW q \in quarantine,
                      s.event_id = EventId(q.pos)
               PROVE  bronze[q.pos] \in Skewed /\ q.rule = FutureRule
    BY DEF BothOnlyAhead
  <2>1. s.pos \in 1..Len(bronze) /\ q.pos \in 1..Len(bronze)
    BY DEF TypeOK
  <2>2. /\ bronze[s.pos] \in Readings /\ bronze[q.pos] \in Readings
        /\ bronze[s.pos].failed = {}
        /\ bronze[s.pos].event_id = bronze[q.pos].event_id
    BY <2>1, BatchInLog DEF TablesSound, EventId
  <2>3. bronze[s.pos].event_id # NoId
    BY <2>2, ReadingsAssumption
  <2>4. bronze[q.pos].failed = {}
    BY <2>2, <2>3 DEF EventIdsUnique
  <2> QED BY <2>4 DEF TablesSound
<1> QED BY <1>1, TypeCorrect, TablesSoundHolds, PTL
-----------------------------------------------------------------------------
SoundIds == {r.event_id : r \in {x \in Readings : x.failed = {}}}

\* The verdict of an event follows from its reading, when it has only one.
LEMMA VerdictOfReading ==
    ASSUME EventIdsUnique, NEW r \in Readings
    PROVE  /\ r.failed = {} => r.event_id \in SoundIds
           /\ r.failed # {} /\ r.event_id # NoId => r.event_id \notin SoundIds
<1>1. r.failed = {} => r.event_id \in SoundIds
  BY DEF SoundIds
<1>2. ASSUME r.failed # {}, r.event_id # NoId, r.event_id \in SoundIds PROVE FALSE
  <2>1. PICK x \in Readings : x.failed = {} /\ x.event_id = r.event_id
    BY <1>2 DEF SoundIds
  <2> QED BY <1>2, <2>1 DEF EventIdsUnique
<1> QED BY <1>1, <1>2

LEMMA IdsArrived ==
    ASSUME TypeOK, NEW p \in 1..Len(bronze)
    PROVE  /\ bronze[p] \in Readings
           /\ EventId(p) = bronze[p].event_id
           /\ EventId(p) \in ArrivedIds
           /\ EventId(p) \in HonestIds => bronze[p] \notin Skewed /\ EventId(p) # NoId
BY BatchInLog, ConstantsAssumption DEF EventId, ArrivedIds, HonestIds

\* Each step of the job is a step of the ledger, or changes no verdict.
LEMMA LedgerStep ==
    ASSUME EventIdsUnique
    PROVE  TypeOK /\ JudgedInTime /\ [Next]_vars => [Ledger!Next]_(Ledger!ledger)
<1> SUFFICES ASSUME TypeOK, JudgedInTime, [Next]_vars
             PROVE  [Ledger!Next]_(Ledger!ledger)
  OBVIOUS
<1> USE DEF Ledger!Next, Ledger!ledger
<1>1. ASSUME NEW r \in Readings, Arrive(r) PROVE [Ledger!Next]_(Ledger!ledger)
  <2>1. /\ Len(bronze) \in Nat /\ Len(bronze') = Len(bronze) + 1
        /\ bronze'[Len(bronze) + 1] = r
        /\ \A p \in 1..Len(bronze) : bronze'[p] = bronze[p]
    BY <1>1 DEF Arrive, TypeOK
  <2>2. ArrivedIds' = ArrivedIds \union {r.event_id}
    BY <2>1 DEF ArrivedIds, EventId
  <2>3. SilverIds' = SilverIds
    BY <1>1 DEF Arrive, tables, SilverIds
  <2>4. QuarantineIds' = QuarantineIds
    BY <1>1, <2>1 DEF Arrive, tables, QuarantineIds, EventId, TypeOK
  <2>5. CASE r.event_id \in ArrivedIds \/ r.event_id \notin HonestIds
    <3>1. ArrivedIds' \intersect HonestIds = ArrivedIds \intersect HonestIds
      BY <2>2, <2>5
    <3> QED BY <2>3, <2>4, <3>1 DEF HonestIds
  <2>6. CASE r.event_id \notin ArrivedIds /\ r.event_id \in HonestIds
    <3>1. ArrivedIds' \intersect HonestIds
            = (ArrivedIds \intersect HonestIds) \union {r.event_id}
      BY <2>2, <2>6
    <3>2. r.event_id \in HonestIds \ (ArrivedIds \intersect HonestIds)
      BY <2>6
    <3>3. Ledger!Arrive
      BY <2>3, <2>4, <3>1, <3>2 DEF Ledger!Arrive, HonestIds
    <3> QED BY <3>3
  <2> QED BY <2>5, <2>6
<1>2. ASSUME NEW w \in Writers, AppendQuarantine(w) PROVE [Ledger!Next]_(Ledger!ledger)
  <2> DEFINE added == {EventId(q.pos) : q \in QuarantineRows(w)} \intersect HonestIds
  <2>1. UNCHANGED <<bronze, silver>> /\ quarantine' = quarantine \union QuarantineRows(w)
    BY <1>2 DEF AppendQuarantine, log
  <2>2. ArrivedIds' = ArrivedIds /\ SilverIds' = SilverIds
    BY <2>1 DEF ArrivedIds, SilverIds, EventId
  <2>3. QuarantineIds' \intersect HonestIds = (QuarantineIds \intersect HonestIds) \union added
    BY <2>1 DEF QuarantineIds, EventId
  <2>4. ASSUME NEW q \in QuarantineRows(w), EventId(q.pos) \in HonestIds
        PROVE  EventId(q.pos) \in (ArrivedIds \intersect HonestIds) \ SoundIds
    <3>1. /\ q.pos \in rows[w] /\ q.pos \in 1..Len(bronze)
          /\ FailedRules(bronze[q.pos], judged[w]) # {}
      BY DEF QuarantineRows, Rejected, TypeOK
    <3>2. bronze[q.pos].failed # {}
      BY <2>4, <3>1, IdsArrived, HonestVerdict
    <3> QED BY <2>4, <3>1, <3>2, IdsArrived, VerdictOfReading
  <2>5. added \subseteq (ArrivedIds \intersect HonestIds) \ SoundIds
    BY <2>4
  <2>6. Ledger!Reject
    BY <2>2, <2>3, <2>5 DEF Ledger!Reject, SoundIds, HonestIds
  <2> QED BY <2>6
<1>3. ASSUME NEW w \in Writers, MergeSilver(w) PROVE [Ledger!Next]_(Ledger!ledger)
  <2> DEFINE added == {u.event_id : u \in Prepared(w)} \intersect HonestIds
  <2>1. UNCHANGED <<bronze, quarantine>>
    BY <1>3 DEF MergeSilver, log
  <2>2. ArrivedIds' = ArrivedIds /\ QuarantineIds' = QuarantineIds
    BY <2>1 DEF ArrivedIds, QuarantineIds, EventId
  <2>3. SilverIds' \intersect HonestIds = (SilverIds \intersect HonestIds) \union added
    <3>1. SilverIds' = SilverIds \union {u.event_id : u \in Prepared(w)}
      BY <1>3, MergeKeepsIds DEF MergeSilver, SilverIds
    <3> QED BY <3>1
  <2>4. \A u \in Prepared(w) :
            /\ u.pos \in 1..Len(bronze)
            /\ u.event_id = EventId(u.pos) /\ bronze[u.pos].failed = {}
    BY DEF Prepared, Newest, Valid, FailedRules, TypeOK
  <2>5. added \subseteq (ArrivedIds \intersect HonestIds) \intersect SoundIds
    BY <2>4, IdsArrived, VerdictOfReading
  <2>6. Ledger!Curate
    BY <2>2, <2>3, <2>5 DEF Ledger!Curate, SoundIds, HonestIds
  <2> QED BY <2>6
<1>4. CASE UNCHANGED <<bronze, silver, quarantine>>
  BY <1>4 DEF ArrivedIds, SilverIds, QuarantineIds, EventId, HonestIds
<1>5. \/ UNCHANGED <<bronze, silver, quarantine>>
      \/ \E r \in Readings : Arrive(r)
      \/ \E w \in Writers : AppendQuarantine(w) \/ MergeSilver(w)
  BY DEF Next, WriteBatch, Expire, TimePasses, Start, PlanBatch, ExecuteBatch, Stranded,
         StartReplay, RecordCounters, CommitBatch, Crash, DeleteCheckpoint, vars, log, tables
<1> QED BY <1>1, <1>2, <1>3, <1>4, <1>5

\* While ids are issued once, the job implements the ledger for the events of sound
\* clocks: each is curated or rejected by what its reading deserves, never both, and no
\* step takes it back, however often and however much later it is judged again.
THEOREM ImplementsLedger ==
    ASSUME EventIdsUnique
    PROVE  Spec => OneVerdict
<1>1. Init => Ledger!Init
  BY DEF Init, Ledger!Init, ArrivedIds, SilverIds, QuarantineIds, HonestIds
<1>2. IInv => TypeOK /\ JudgedInTime
  BY DEF IInv
<1> QED BY <1>1, <1>2, LedgerStep, InductiveInvariant, PTL DEF Spec, OneVerdict, Ledger!Spec
=============================================================================
