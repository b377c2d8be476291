-------------------------- MODULE SilverReplayProofs --------------------------
(* The replay of the verification suite, beside the running stream: its     *)
(* MERGE is never ambiguous and changes neither the ids nor the number of   *)
(* rows of Silver.                                                          *)
EXTENDS SilverTransformProofs, FiniteSetTheorems

LEMMA UpdatesDistinct ==
    ASSUME TypeOK, NEW w \in Writers
    PROVE  \A u, v \in Prepared(w) : u.event_id = v.event_id => u = v
<1>1. rows[w] \subseteq Int
  BY DEF TypeOK
<1>2. \A p, q \in Newest(Valid(w)) : EventId(p) = EventId(q) => p = q
  BY <1>1 DEF Newest, Valid
<1> QED BY <1>2 DEF Prepared

\* No MERGE of either writer meets two updates for one target row, whatever batch the
\* stream hands over and however often Bronze holds the replayed events.
THEOREM MergeNeverAbortsHolds == Spec => []MergeNeverAborts
<1>1. TypeOK => MergeNeverAborts
  BY UpdatesDistinct DEF MergeNeverAborts, Ambiguous
<1> QED BY <1>1, TypeCorrect, PTL
-----------------------------------------------------------------------------
(* One row per event ties the number of rows to the set of ids.            *)

LEMMA AsManyRowsAsIds ==
    ASSUME NEW table,
           IsFiniteSet({t.event_id : t \in table}),
           \A s, t \in table : s.event_id = t.event_id => s = t
    PROVE  Cardinality(table) = Cardinality({t.event_id : t \in table})
<1> DEFINE ids == {t.event_id : t \in table}
           f == [s \in table |-> s.event_id]
<1>1. f \in Injection(table, ids)
  BY DEF Injection, IsInjective
<1>2. f \in Surjection(table, ids)
  BY DEF Surjection
<1> QED BY <1>1, <1>2, FS_Injection

LEMMA SilverFinite == ASSUME TypeOK PROVE IsFiniteSet(SilverIds)
<1>1. IsFiniteSet(EventIds \union {NoId})
  BY FS_AddElement, ConstantsAssumption
<1>2. SilverIds \subseteq EventIds \union {NoId}
  BY DEF TypeOK, SilverIds
<1> QED BY <1>1, <1>2, FS_Subset

LEMMA SampledStep == TypeOK /\ ReplaySampled /\ [Next]_vars => ReplaySampled'
<1> SUFFICES ASSUME TypeOK, ReplaySampled, [Next]_vars PROVE ReplaySampled'
  OBVIOUS
<1>0. /\ rows["replay"] \subseteq 1..Len(bronze)
      /\ \A p \in 1..Len(bronze) : EventId(p)' = EventId(p)
      /\ SilverIds \subseteq SilverIds'
  BY LogGrows, TablesGrow DEF TypeOK, Writers, EventId
<1>1. CASE StartReplay
  <2>1. PICK ids \in SUBSET SilverIds :
            rows' = [rows EXCEPT !["replay"] = ReplayRows(ids)]
    BY <1>1 DEF StartReplay
  <2>2. \A p \in rows'["replay"] : p \in 1..Len(bronze) /\ EventId(p) \in ids
    BY <2>1 DEF ReplayRows, TypeOK, Writers
  <2> QED BY <1>0, <2>2 DEF ReplaySampled
<1>2. CASE rows'["replay"] = rows["replay"]
           /\ (pc'["replay"] \in {"split", "merge"} => pc["replay"] \in {"split", "merge"})
  BY <1>0, <1>2 DEF ReplaySampled
<1>3. CASE pc'["replay"] \notin {"split", "merge"}
  BY <1>3 DEF ReplaySampled
<1>4. ASSUME NEW w \in Writers, WriteBatch(w) \/ Crash(w)
      PROVE  \/ pc'["replay"] \notin {"split", "merge"}
             \/ rows'["replay"] = rows["replay"]
                /\ (pc'["replay"] \in {"split", "merge"} => pc["replay"] \in {"split", "merge"})
  <2>1. CASE w = "stream"
    BY <1>4, <2>1 DEF WriteBatch, AppendQuarantine, MergeSilver, RecordCounters, Crash,
                      TypeOK, Writers
  <2>2. CASE w = "replay"
    BY <1>4, <2>2 DEF WriteBatch, AppendQuarantine, MergeSilver, RecordCounters, Crash,
                      TypeOK, Writers
  <2> QED BY <2>1, <2>2 DEF Writers
<1>5. ASSUME \/ Start \/ Expire \/ TimePasses \/ PlanBatch \/ ExecuteBatch \/ Stranded
             \/ CommitBatch \/ DeleteCheckpoint \/ UNCHANGED vars \/ \E r \in Readings : Arrive(r)
      PROVE  rows'["replay"] = rows["replay"] /\ pc'["replay"] = pc["replay"]
  BY <1>5 DEF Start, Expire, TimePasses, Stranded, PlanBatch, ExecuteBatch, CommitBatch, DeleteCheckpoint, Arrive,
              vars, TypeOK, Writers
<1> QED BY <1>1, <1>2, <1>3, <1>4, <1>5 DEF Next

LEMMA SampledHolds == Spec => []ReplaySampled
<1>1. Init => ReplaySampled
  BY DEF Init, ReplaySampled, Writers
<1> QED BY <1>1, SampledStep, TypeCorrect, PTL DEF Spec

LEMMA MergesInPlaceStep ==
    TypeOK /\ OneRowPerEvent /\ ReplaySampled /\ [Next]_vars
        => [ReplayMergesInPlace]_vars
<1> SUFFICES ASSUME TypeOK, OneRowPerEvent, ReplaySampled, [Next]_vars,
                    pc["replay"] = "merge", pc'["replay"] = "record"
             PROVE  SilverIds' = SilverIds /\ Cardinality(silver') = Cardinality(silver)
  BY DEF ReplayMergesInPlace
<1>1. MergeSilver("replay")
  <2>1. ASSUME NEW w \in Writers, WriteBatch(w) \/ Crash(w) PROVE MergeSilver("replay")
    <3>1. CASE w = "stream"
      BY <2>1, <3>1 DEF WriteBatch, AppendQuarantine, MergeSilver, RecordCounters, Crash,
                        TypeOK, Writers
    <3>2. CASE w = "replay"
      BY <2>1, <3>2 DEF WriteBatch, AppendQuarantine, RecordCounters, Crash, TypeOK,
                        Writers
    <3> QED BY <3>1, <3>2 DEF Writers
  <2> QED BY <2>1 DEF Next, Start, Expire, TimePasses, Stranded, PlanBatch, ExecuteBatch,
                      CommitBatch, DeleteCheckpoint, Arrive, StartReplay, vars, TypeOK,
                      Writers
<1> DEFINE updates == Prepared("replay")
<1>2. silver' = MergeInto(silver, updates)
  BY <1>1 DEF MergeSilver
<1>3. \A u \in updates : u.event_id \in SilverIds
  BY DEF Prepared, Newest, Valid, ReplaySampled
<1>4. SilverIds' = SilverIds \union {u.event_id : u \in updates}
  <2>1. {t.event_id : t \in MergeInto(silver, updates)}
          = {t.event_id : t \in silver} \union {u.event_id : u \in updates}
    BY MergeKeepsIds
  <2> QED BY <1>2, <2>1 DEF SilverIds
<1>5. SilverIds' = SilverIds
  BY <1>3, <1>4
<1>6. \A s, t \in silver' : s.event_id = t.event_id => s = t
  BY OneRowStep DEF OneRowPerEvent
<1>7. IsFiniteSet(SilverIds)
  BY SilverFinite
<1>8. Cardinality(silver) = Cardinality(SilverIds)
  BY <1>7, AsManyRowsAsIds DEF OneRowPerEvent, SilverIds
<1>9. Cardinality(silver') = Cardinality(SilverIds')
  BY <1>5, <1>6, <1>7, AsManyRowsAsIds DEF SilverIds
<1> QED BY <1>5, <1>8, <1>9

\* A replay of events already in Silver changes neither Silver's set of events nor its
\* number of rows, whatever the stream commits between the sample and the MERGE.
THEOREM ReplayAddsNothingHolds == Spec => ReplayAddsNothing
BY MergesInPlaceStep, TypeCorrect, OneRowPerEventHolds, SampledHolds, PTL
   DEF Spec, ReplayAddsNothing
=============================================================================
