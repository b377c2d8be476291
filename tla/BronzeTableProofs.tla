-------------------------- MODULE BronzeTableProofs --------------------------
(***************************************************************************)
(* Proofs about BronzeTable, for any number of records, snapshots, days,   *)
(* failures and deleted checkpoints.                                       *)
(***************************************************************************)
EXTENDS BronzeTable, TLAPS

-----------------------------------------------------------------------------
(* Types.                                                                  *)

\* A commit of the table adds one snapshot at its end and changes no other.
LEMMA CommitAppends ==
    ASSUME TableTypes,
           NEW kind \in {"append", "replace"}, NEW rows \in SUBSET (1..produced),
           NEW query \in Nat, NEW epoch \in Nat,
           Commit(kind, rows, query, epoch)
    PROVE  /\ Len(snapshots) \in Nat
           /\ snapshots' \in Seq(Snapshot)
           /\ Len(snapshots') = Len(snapshots) + 1
           /\ \A i \in 1..Len(snapshots) : snapshots'[i] = snapshots[i]
           /\ snapshots'[Len(snapshots) + 1] =
                 [kind |-> kind, rows |-> rows, query |-> query, epoch |-> epoch, at |-> clock]
           /\ Appends' = IF kind = "append" THEN Appends \union {Len(snapshots) + 1} ELSE Appends
  <1> DEFINE new == [kind |-> kind, rows |-> rows, query |-> query, epoch |-> epoch, at |-> clock]
  <1>1. new \in Snapshot /\ new.kind = kind
    BY DEF TableTypes, Snapshot
  <1>2. snapshots \in Seq(Snapshot)
    BY DEF TableTypes
  <1>3. snapshots' = Append(snapshots, new)
    BY DEF Commit
  <1> HIDE DEF new
  <1>4. /\ Len(snapshots) \in Nat
        /\ snapshots' \in Seq(Snapshot)
        /\ Len(snapshots') = Len(snapshots) + 1
        /\ \A i \in 1..Len(snapshots) : snapshots'[i] = snapshots[i]
        /\ snapshots'[Len(snapshots) + 1] = new
    BY <1>1, <1>2, <1>3
  <1>5. 1..Len(snapshots') = 1..Len(snapshots) \union {Len(snapshots) + 1}
    BY <1>4
  <1>6. kind = "append" \/ (kind = "replace" /\ kind # "append")
    OBVIOUS
  <1>7. Appends' = IF kind = "append" THEN Appends \union {Len(snapshots) + 1} ELSE Appends
    BY <1>1, <1>4, <1>5, <1>6 DEF Appends
  <1> QED
    BY <1>4, <1>7 DEF new

\* With the snapshots unchanged, the appends are.
LEMMA AppendsKept == ASSUME UNCHANGED snapshots PROVE Appends' = Appends
  BY DEF Appends

\* A longer topic or a later clock leaves a well-typed table well-typed.
LEMMA TableAges ==
    ASSUME TableTypes, UNCHANGED <<snapshots, oldest>>,
           produced' \in Nat, produced <= produced', clock' \in Nat, clock <= clock',
           logStart' \in 1..(produced' + 1)
    PROVE  TableTypes'
  <1>1. Snapshot \subseteq Snapshot'
    BY DEF Snapshot, TableTypes
  <1>2. snapshots \in Seq(Snapshot)
    BY DEF TableTypes
  <1>3. \A i \in 1..Len(snapshots) : snapshots[i] \in Snapshot'
    BY <1>1, <1>2
  <1>4. snapshots' \in Seq(Snapshot')
    BY <1>2, <1>3
  <1> QED
    BY <1>4 DEF TableTypes

\* A commit keeps the table well-typed.
LEMMA CommitTyped ==
    ASSUME TableTypes, UNCHANGED <<clock, produced, logStart, oldest>>,
           NEW kind \in {"append", "replace"}, NEW rows \in SUBSET (1..produced),
           NEW query \in Nat, NEW epoch \in Nat,
           Commit(kind, rows, query, epoch)
    PROVE  TableTypes'
  <1>1. snapshots' \in Seq(Snapshot) /\ Len(snapshots') = Len(snapshots) + 1 /\ Len(snapshots) \in Nat
    BY CommitAppends
  <1>2. Snapshot' = Snapshot
    BY DEF Snapshot
  <1> QED
    BY <1>1, <1>2 DEF TableTypes

\* The ingest appends records of the topic only.
LEMMA BatchTyped ==
    ASSUME TypeOK, ~DataLost
    PROVE  /\ offsets.start..(offsets.end - 1) \in SUBSET (1..produced)
           /\ offsets.query \in Nat /\ offsets.epoch \in Nat
  BY DEF TypeOK, IngestTypes, TableTypes, DataLost

\* An action that appends grows the appends or leaves them.
LEMMA AppendBatchGrows ==
    ASSUME TypeOK, AppendBatch
    PROVE  Appends \subseteq Appends'
  <1>1. CASE AlreadyCommitted
    BY <1>1, AppendsKept DEF AppendBatch
  <1>2. CASE ~AlreadyCommitted
    BY <1>2, CommitAppends, BatchTyped DEF AppendBatch, TypeOK
  <1> QED
    BY <1>1, <1>2

\* Every step keeps the types of the table.
LEMMA TableStep ==
    ASSUME TypeOK, [Next]_vars
    PROVE  TableTypes'
  <1> USE DEF kafkaVars, tableVars, ingestVars, readerVars, dagVars, counters
  <1>1. CASE Send \/ Tick \/ ExpireRecord
    BY <1>1, TableAges DEF Send, Tick, ExpireRecord, TypeOK, TableTypes
  <1>2. CASE AppendBatch
    <2>1. CASE AlreadyCommitted
      BY <1>2, <2>1, TableAges DEF AppendBatch, TypeOK, TableTypes
    <2>2. CASE ~AlreadyCommitted
      BY <1>2, <2>2, CommitTyped, BatchTyped DEF AppendBatch, TypeOK
    <2> QED
      BY <2>1, <2>2
  <1>3. CASE Rewrite
    BY <1>3, CommitTyped DEF Rewrite, Unmaintained, TypeOK
  <1>4. CASE Expire
    <2>1. oldest' \in 1..(Len(snapshots) + 1)
      BY <1>4 DEF Expire, Kept, Retained, TypeOK, TableTypes
    <2> QED
      BY <1>4, <2>1 DEF Expire, Unmaintained, TypeOK, TableTypes, Snapshot
  <1>5. ASSUME UNCHANGED <<clock, kafkaVars, tableVars>> PROVE TableTypes'
    BY <1>5 DEF TypeOK, TableTypes, Snapshot
  <1> QED
    BY <1>1, <1>2, <1>3, <1>4, <1>5
    DEF Next, IngestStep, ReaderStep, Maintenance, StartIngest, PlanIngest, CommitEpoch,
        IngestDataLoss, StopIngest, DeleteIngestCheckpoint, StartReader, ReadAppend,
        ReaderStranded, StopReader, DeleteReaderCheckpoint, StartDag, Pass, FailTask,
        Unmaintained, vars

\* Every step keeps the types of the ingest's checkpoint.
LEMMA IngestTypeStep ==
    ASSUME TypeOK, [Next]_vars
    PROVE  IngestTypes'
  <1> USE DEF kafkaVars, tableVars, ingestVars, readerVars, dagVars, counters, None
  <1>0. IngestTypes /\ produced \in Nat /\ logStart \in 1..(produced + 1)
    BY DEF TypeOK, TableTypes
  <1>1. CASE Send
    BY <1>0, <1>1 DEF Send, IngestTypes
  <1>2. CASE StartIngest
    <2>1. CASE offsets.start = None
      <3>1. offsets' = [query |-> offsets.query, epoch |-> offsets.epoch,
                        start |-> logStart, end |-> logStart]
        BY <1>0, <1>2, <2>1 DEF StartIngest, IngestTypes
      <3>2. ingest' \in {"append", "idle"} /\ produced' = produced
        BY <1>2 DEF StartIngest
      <3> QED
        BY <1>0, <3>1, <3>2 DEF IngestTypes
    <2>2. CASE offsets.start # None
      BY <1>0, <1>2, <2>2 DEF StartIngest, IngestTypes
    <2> QED
      BY <2>1, <2>2
  <1>3. CASE PlanIngest
    BY <1>0, <1>3 DEF PlanIngest, IngestTypes
  <1>4. CASE CommitEpoch
    <2>1. offsets' = [query |-> offsets.query, epoch |-> offsets.epoch + 1,
                      start |-> offsets.end, end |-> offsets.end]
      BY <1>0, <1>4 DEF CommitEpoch, IngestTypes
    <2>2. ingest' = "idle" /\ produced' = produced
      BY <1>4 DEF CommitEpoch
    <2> QED
      BY <1>0, <2>1, <2>2 DEF IngestTypes
  <1>5. CASE DeleteIngestCheckpoint
    BY <1>0, <1>5 DEF DeleteIngestCheckpoint, IngestTypes
  <1>6. CASE AppendBatch \/ IngestDataLoss \/ StopIngest
    BY <1>0, <1>6 DEF AppendBatch, IngestDataLoss, StopIngest, IngestTypes
  <1>7. ASSUME UNCHANGED <<produced, ingestVars>> PROVE IngestTypes'
    BY <1>0, <1>7 DEF IngestTypes
  <1> QED
    BY <1>1, <1>2, <1>3, <1>4, <1>5, <1>6, <1>7
    DEF Next, IngestStep, ReaderStep, Maintenance, ExpireRecord, Tick, StartReader, ReadAppend,
        ReaderStranded, StopReader, DeleteReaderCheckpoint, StartDag, Pass, Rewrite, Expire,
        FailTask, Unmaintained, vars

\* Every step keeps the types of the reader's checkpoint.
LEMMA ReaderTypeStep ==
    ASSUME TypeOK, [Next]_vars
    PROVE  ReaderTypes'
  <1> USE DEF kafkaVars, tableVars, ingestVars, readerVars, dagVars, counters, None
  <1>0. ReaderTypes
    BY DEF TypeOK
  <1>1. CASE AppendBatch
    BY <1>0, <1>1, AppendBatchGrows DEF AppendBatch, ReaderTypes
  <1>2. CASE Rewrite
    <2>1. Appends' = Appends
      BY <1>2, CommitAppends DEF Rewrite, TypeOK
    <2> QED
      BY <1>0, <1>2, <2>1 DEF Rewrite, Unmaintained, ReaderTypes
  <1>3. CASE ReadAppend
    BY <1>0, <1>3, AppendsKept DEF ReadAppend, NextAppend, Unread, ReaderTypes
  <1>4. CASE StartReader \/ ReaderStranded \/ StopReader \/ DeleteReaderCheckpoint
    BY <1>0, <1>4, AppendsKept
    DEF StartReader, ReaderStranded, StopReader, DeleteReaderCheckpoint, ReaderTypes
  <1>5. ASSUME UNCHANGED <<snapshots, readerVars>> PROVE ReaderTypes'
    BY <1>0, <1>5, AppendsKept DEF ReaderTypes
  <1> QED
    BY <1>1, <1>2, <1>3, <1>4, <1>5
    DEF Next, IngestStep, ReaderStep, Maintenance, Send, ExpireRecord, Tick, StartIngest,
        PlanIngest, CommitEpoch, IngestDataLoss, StopIngest, DeleteIngestCheckpoint,
        StartDag, Pass, Expire, FailTask, Unmaintained, vars

\* Every step keeps the types of the maintenance DAG's state.
LEMMA DagTypeStep ==
    ASSUME BronzeAssumption, TypeOK, [Next]_vars
    PROVE  DagTypes'
  <1> USE DEF kafkaVars, tableVars, ingestVars, readerVars, dagVars, counters
  <1>0. DagTypes /\ MaxRewrites \in Nat
    BY DEF TypeOK, BronzeAssumption
  <1>1. CASE StartDag \/ Pass \/ FailTask
    <2> DEFINE Dags == [task : {"idle", "compact", "others"}, attempt : 0..1,
                        rewrites : 0..MaxRewrites]
    <2>1. /\ IdleDag \in Dags
          /\ [IdleDag EXCEPT !.task = "compact"] \in Dags
          /\ [task |-> "compact", attempt |-> 1, rewrites |-> 0] \in Dags
      BY <1>0 DEF IdleDag
    <2>2. due' \in BOOLEAN
      <3>1. due' = FALSE \/ due' = due
        BY <1>1 DEF StartDag, Pass, FailTask
      <3> QED
        BY <1>0, <3>1 DEF DagTypes
    <2>3. dag' \in Dags
      BY <1>1, <2>1 DEF StartDag, Pass, FailTask
    <2> QED
      BY <2>2, <2>3 DEF DagTypes
  <1>2. CASE Rewrite \/ Expire
    BY <1>0, <1>2 DEF Rewrite, Expire, DagTypes
  <1>3. CASE Tick
    BY <1>0, <1>3 DEF Tick, DagTypes
  <1>4. ASSUME UNCHANGED dagVars PROVE DagTypes'
    BY <1>0, <1>4 DEF DagTypes
  <1> QED
    BY <1>1, <1>2, <1>3, <1>4
    DEF Next, IngestStep, ReaderStep, Maintenance, Send, ExpireRecord, StartIngest,
        PlanIngest, AppendBatch, CommitEpoch, IngestDataLoss, StopIngest,
        DeleteIngestCheckpoint, StartReader, ReadAppend, ReaderStranded, StopReader,
        DeleteReaderCheckpoint, vars

\* Every step keeps the types.
LEMMA TypeStep ==
    ASSUME BronzeAssumption, TypeOK, [Next]_vars
    PROVE  TypeOK'
  <1> USE DEF kafkaVars, tableVars, ingestVars, readerVars, dagVars, counters
  <1>0. attended \in BOOLEAN /\ failures \in Nat /\ resets \in Nat
    BY DEF TypeOK
  <1>1. failures' \in Nat /\ resets' \in Nat
    <2>1. failures' \in {failures, failures + 1} /\ resets' \in {resets, resets + 1}
      BY DEF Next, IngestStep, ReaderStep, Maintenance, Send, ExpireRecord, Tick, StartIngest,
        PlanIngest, AppendBatch, CommitEpoch, IngestDataLoss, StopIngest,
        DeleteIngestCheckpoint, StartReader, ReadAppend, ReaderStranded, StopReader,
        DeleteReaderCheckpoint, StartDag, Pass, Rewrite, Expire, FailTask, Unmaintained, vars
    <2> QED
      BY <1>0, <2>1
  <1>2. attended' \in BOOLEAN
    <2>1. CASE Tick \/ DeleteReaderCheckpoint
      BY <2>1 DEF Tick, DeleteReaderCheckpoint
    <2>2. CASE UNCHANGED attended
      BY <1>0, <2>2
    <2> QED
      BY <2>1, <2>2 DEF Next, IngestStep, ReaderStep, Maintenance, Send, ExpireRecord,
        StartIngest, PlanIngest, AppendBatch, CommitEpoch, IngestDataLoss, StopIngest,
        DeleteIngestCheckpoint, StartReader, ReadAppend, ReaderStranded, StopReader,
        StartDag, Pass, Rewrite, Expire, FailTask, Unmaintained, vars
  <1> QED
    BY <1>1, <1>2, TableStep, IngestTypeStep, ReaderTypeStep, DagTypeStep DEF TypeOK

\* The table begins well-typed.
LEMMA InitTypes ==
    ASSUME Init
    PROVE  TypeOK
  <1>1. TableTypes
    BY DEF Init, TableTypes
  <1>2. IngestTypes
    BY DEF Init, IngestTypes, None
  <1>3. ReaderTypes
    BY DEF Init, ReaderTypes
  <1>4. DagTypes
    <2>1. MaxRewrites \in Nat
      BY BronzeAssumption DEF BronzeAssumption
    <2>2. IdleDag \in [task : {"idle", "compact", "others"}, attempt : 0..1,
                       rewrites : 0..MaxRewrites]
      BY <2>1 DEF IdleDag
    <2>3. dag = IdleDag /\ due \in BOOLEAN
      BY DEF Init
    <2> QED
      BY <2>2, <2>3 DEF DagTypes
  <1> QED
    BY <1>1, <1>2, <1>3, <1>4 DEF Init, TypeOK

\* The table and both checkpoints keep their types, and the position is always an append
\* of the table.
THEOREM BronzeTypes == Spec => []TypeOK
  <1>1. Init => TypeOK
    BY InitTypes
  <1>2. TypeOK /\ [Next]_vars => TypeOK'
    BY TypeStep, BronzeAssumption
  <1> QED
    BY <1>1, <1>2, PTL DEF Spec

-----------------------------------------------------------------------------
(* The parts of the invariant.                                             *)

\* The fields of a snapshot.
LEMMA SnapshotFields ==
    ASSUME TableTypes
    PROVE  /\ Len(snapshots) \in Nat
           /\ \A i \in 1..Len(snapshots) :
                 /\ snapshots[i].kind \in {"append", "replace"}
                 /\ snapshots[i].rows \subseteq 1..produced
                 /\ snapshots[i].query \in Nat /\ snapshots[i].epoch \in Nat
                 /\ snapshots[i].at \in 0..clock
  <1>1. snapshots \in Seq(Snapshot)
    BY DEF TableTypes
  <1>2. \A i \in 1..Len(snapshots) : snapshots[i] \in Snapshot
    BY <1>1
  <1> QED
    BY <1>1, <1>2 DEF Snapshot

\* The commit of AppendBatch, when the sink does not find the epoch.
LEMMA BatchAppended ==
    ASSUME TypeOK, AppendBatch, ~AlreadyCommitted
    PROVE  LET new == Len(snapshots) + 1 IN
           /\ Len(snapshots') = new /\ Appends' = Appends \union {new}
           /\ \A i \in 1..Len(snapshots) : snapshots'[i] = snapshots[i]
           /\ snapshots'[new].rows = offsets.start..(offsets.end - 1)
           /\ snapshots'[new].query = offsets.query
           /\ snapshots'[new].epoch = offsets.epoch
           /\ snapshots'[new].at = clock /\ snapshots'[new].kind = "append"
  <1>1. Commit("append", offsets.start..(offsets.end - 1), offsets.query, offsets.epoch)
    BY DEF AppendBatch
  <1>2. TableTypes /\ ~DataLost
    BY DEF TypeOK, AppendBatch
  <1>3. /\ offsets.start..(offsets.end - 1) \in SUBSET (1..produced)
        /\ offsets.query \in Nat /\ offsets.epoch \in Nat
    BY <1>2, BatchTyped
  <1>4. /\ Len(snapshots') = Len(snapshots) + 1
        /\ \A i \in 1..Len(snapshots) : snapshots'[i] = snapshots[i]
        /\ snapshots'[Len(snapshots) + 1] =
              [kind |-> "append", rows |-> offsets.start..(offsets.end - 1),
               query |-> offsets.query, epoch |-> offsets.epoch, at |-> clock]
        /\ Appends' = Appends \union {Len(snapshots) + 1}
    BY <1>1, <1>2, <1>3, CommitAppends
  <1> QED
    BY <1>4

\* The commit of a rewrite.
LEMMA RewriteCommitted ==
    ASSUME TypeOK, Rewrite
    PROVE  LET new == Len(snapshots) + 1 IN
           /\ Len(snapshots') = new /\ Appends' = Appends
           /\ \A i \in 1..Len(snapshots) : snapshots'[i] = snapshots[i]
           /\ snapshots'[new].query = 0 /\ snapshots'[new].kind = "replace"
           /\ snapshots'[new].at = clock
  <1>1. Commit("replace", {}, 0, 0) /\ TableTypes
    BY DEF Rewrite, TypeOK
  <1>2. /\ Len(snapshots') = Len(snapshots) + 1
        /\ \A i \in 1..Len(snapshots) : snapshots'[i] = snapshots[i]
        /\ snapshots'[Len(snapshots) + 1] =
              [kind |-> "replace", rows |-> {}, query |-> 0, epoch |-> 0, at |-> clock]
        /\ Appends' = Appends
    BY <1>1, CommitAppends
  <1> QED
    BY <1>2

\* Snapshots come in the order of time, and reads in the order of appends.
LEMMA InOrderStep ==
    ASSUME TypeOK, InOrder, [Next]_vars
    PROVE  InOrder'
  <1> USE DEF kafkaVars, tableVars, ingestVars, readerVars, dagVars, counters, None
  <1>0. /\ Len(snapshots) \in Nat
        /\ \A i \in 1..Len(snapshots) : snapshots[i].at \in 0..clock
        /\ clock \in Nat /\ oldest \in Nat \ {0}
    BY SnapshotFields DEF TypeOK, TableTypes
  <1>1. ASSUME Len(snapshots') = Len(snapshots) + 1,
               \A i \in 1..Len(snapshots) : snapshots'[i] = snapshots[i],
               snapshots'[Len(snapshots) + 1].at = clock,
               UNCHANGED <<position, read>>
        PROVE  InOrder'
    <2>1. \A i, j \in 1..Len(snapshots') : i <= j => snapshots'[i].at <= snapshots'[j].at
      BY <1>0, <1>1 DEF InOrder
    <2> QED
      BY <1>1, <2>1 DEF InOrder
  <1>2. CASE AppendBatch
    <2>1. CASE AlreadyCommitted
      BY <1>2, <2>1 DEF AppendBatch, InOrder
    <2>2. CASE ~AlreadyCommitted
      BY <1>1, <1>2, <2>2, BatchAppended DEF AppendBatch
    <2> QED
      BY <2>1, <2>2
  <1>3. CASE Rewrite
    BY <1>1, <1>3, RewriteCommitted DEF Rewrite, Unmaintained
  <1>4. CASE ReadAppend
    <2>1. PICK i \in NextAppend : position' = i /\ read' = read \union {i}
      BY <1>4 DEF ReadAppend
    <2>2. i \in Appends /\ i > position /\ i >= oldest /\ i \in 1..Len(snapshots)
      BY <2>1 DEF NextAppend, Unread, Appends
    <2>3. position \in Nat /\ read \subseteq Nat
      BY <1>0 DEF TypeOK, ReaderTypes, Appends
    <2> QED
      BY <1>0, <1>4, <2>1, <2>2, <2>3 DEF ReadAppend, InOrder
  <1>5. CASE DeleteReaderCheckpoint
    BY <1>5 DEF DeleteReaderCheckpoint, InOrder
  <1>6. ASSUME UNCHANGED <<snapshots, position, read>> PROVE InOrder'
    BY <1>6 DEF InOrder
  <1> QED
    BY <1>2, <1>3, <1>4, <1>5, <1>6
    DEF Next, IngestStep, ReaderStep, Maintenance, Send, ExpireRecord, Tick, StartIngest,
        PlanIngest, CommitEpoch, IngestDataLoss, StopIngest, DeleteIngestCheckpoint,
        StartReader, ReaderStranded, StopReader, StartDag, Pass, Expire, FailTask,
        Unmaintained, vars

\* What the checkpoint says of its epochs stays true of the table.
LEMMA EpochsStep ==
    ASSUME TypeOK, Epochs, [Next]_vars
    PROVE  Epochs'
  <1> USE DEF kafkaVars, tableVars, ingestVars, readerVars, dagVars, counters, None
  <1>0. /\ Len(snapshots) \in Nat
        /\ \A i \in 1..Len(snapshots) :
              /\ snapshots[i].kind \in {"append", "replace"}
              /\ snapshots[i].rows \subseteq 1..produced
              /\ snapshots[i].query \in Nat /\ snapshots[i].epoch \in Nat
        /\ offsets \in [query : Nat \ {0}, epoch : Nat, start : Nat, end : Nat]
        /\ offsets.start <= offsets.end
        /\ logStart \in Nat \ {0} /\ produced \in Nat /\ oldest \in Nat \ {0}
    BY SnapshotFields DEF TypeOK, TableTypes, IngestTypes
  <1>1. \A i \in Appends : i \in 1..Len(snapshots) /\ snapshots[i].kind = "append"
    BY DEF Appends
  <1>2. CASE StartIngest
    <2>1. CASE offsets.start = None
      <3>1. /\ ~Planned /\ ingest' = "idle" /\ snapshots' = snapshots /\ Appends' = Appends
            /\ offsets'.query = offsets.query /\ offsets'.epoch = offsets.epoch
            /\ offsets'.start = logStart /\ offsets'.end = logStart
        BY <1>0, <1>2, <2>1, AppendsKept DEF StartIngest, Epochs, Planned
      <3>2. ~Planned'
        BY <3>1 DEF Planned
      <3>3. \A i \in Appends : snapshots[i].query = offsets.query =>
               /\ snapshots[i].epoch < offsets.epoch
               /\ \A k \in snapshots[i].rows : k < offsets.start
        BY <3>1 DEF Epochs
      <3>4. \A i \in Appends : \A k \in snapshots[i].rows : k \in 1..produced
        BY <1>0, <1>1
      <3>5. \A i \in Appends : snapshots[i].query = offsets.query =>
               /\ snapshots[i].epoch < offsets.epoch
               /\ \A k \in snapshots[i].rows : k < logStart
        BY <1>0, <2>1, <3>3, <3>4
      <3> QED
        BY <1>0, <3>1, <3>2, <3>5 DEF Epochs
    <2>2. CASE offsets.start # None
      <3>1. /\ offsets' = offsets /\ snapshots' = snapshots /\ Appends' = Appends
            /\ ingest' = IF Planned THEN "append" ELSE "idle"
        BY <1>2, <2>2, AppendsKept DEF StartIngest
      <3>2. Planned' = Planned
        BY <3>1 DEF Planned
      <3> QED
        BY <3>1, <3>2 DEF Epochs
    <2> QED
      BY <2>1, <2>2
  <1>3. CASE PlanIngest
    <2>1. /\ ~Planned /\ ingest' = "append" /\ snapshots' = snapshots /\ Appends' = Appends
          /\ offsets'.query = offsets.query /\ offsets'.epoch = offsets.epoch
          /\ offsets'.start = offsets.start /\ offsets'.end > offsets.start
          /\ offsets.start # None
      BY <1>0, <1>3, AppendsKept DEF PlanIngest, DataLost, Epochs
    <2>2. Planned'
      BY <1>0, <2>1 DEF Planned
    <2> QED
      BY <2>1, <2>2 DEF Epochs
  <1>4. CASE AppendBatch
    <2>1. /\ ingest = "append" /\ ingest' = "commit" /\ offsets' = offsets
          /\ Planned /\ Planned'
      BY <1>4 DEF AppendBatch, Epochs, Planned
    <2>2. CASE AlreadyCommitted
      <3>1. snapshots' = snapshots /\ Appends' = Appends
        BY <1>4, <2>2, AppendsKept DEF AppendBatch
      <3>2. PICK i \in Retained :
               snapshots[i].query = offsets.query /\ snapshots[i].epoch >= offsets.epoch
        BY <2>2 DEF AlreadyCommitted
      <3>3. i \in 1..Len(snapshots)
        BY <1>0, <3>2 DEF Retained
      <3>4. i \in Appends
        BY <1>0, <3>2, <3>3 DEF Epochs, Appends
      <3>5. snapshots[i].epoch = offsets.epoch
        BY <1>0, <3>2, <3>3, <3>4 DEF Epochs
      <3> QED
        BY <2>1, <3>1, <3>2, <3>4, <3>5 DEF Epochs
    <2>3. CASE ~AlreadyCommitted
      <3> DEFINE new == Len(snapshots) + 1
      <3>1. /\ Len(snapshots') = new /\ Appends' = Appends \union {new}
            /\ \A i \in 1..Len(snapshots) : snapshots'[i] = snapshots[i]
            /\ snapshots'[new].rows = offsets.start..(offsets.end - 1)
            /\ snapshots'[new].query = offsets.query
            /\ snapshots'[new].epoch = offsets.epoch
            /\ snapshots'[new].kind = "append"
        BY <1>4, <2>3, BatchAppended
      <3>2. \A i \in 1..Len(snapshots') : i \in 1..Len(snapshots) \/ i = new
        BY <1>0, <3>1
      <3>3. \A i \in Appends : snapshots'[i] = snapshots[i]
        BY <1>1, <3>1
      <3>4. \A i \in 1..Len(snapshots') :
               /\ snapshots'[i].query <= offsets.query
               /\ snapshots'[i].kind = "replace" => snapshots'[i].query = 0
        BY <1>0, <3>1, <3>2 DEF Epochs
      <3> HIDE DEF new
      <3> QED
        BY <2>1, <3>1, <3>3, <3>4 DEF Epochs
    <2> QED
      BY <2>2, <2>3
  <1>5. CASE CommitEpoch
    <2>1. /\ ingest' = "idle" /\ snapshots' = snapshots /\ Appends' = Appends
          /\ offsets'.query = offsets.query /\ offsets'.epoch = offsets.epoch + 1
          /\ offsets'.start = offsets.end /\ offsets'.end = offsets.end
      BY <1>0, <1>5, AppendsKept DEF CommitEpoch
    <2>2. ~Planned'
      BY <2>1 DEF Planned
    <2>3. \A i \in Appends : snapshots[i].query = offsets.query =>
             /\ snapshots[i].epoch < offsets.epoch + 1
             /\ \A k \in snapshots[i].rows : k < offsets.end
      <3> TAKE i \in Appends
      <3> HAVE snapshots[i].query = offsets.query
      <3>1. snapshots[i].epoch \in Nat /\ \A k \in snapshots[i].rows : k \in Int
        BY <1>0, <1>1
      <3>2. CASE snapshots[i].epoch < offsets.epoch /\ \A k \in snapshots[i].rows : k < offsets.start
        BY <1>0, <3>1, <3>2
      <3>3. CASE snapshots[i].epoch = offsets.epoch
                 /\ snapshots[i].rows = offsets.start..(offsets.end - 1)
        BY <1>0, <3>3
      <3> QED
        BY <3>2, <3>3 DEF Epochs
    <2> QED
      BY <2>1, <2>2, <2>3 DEF Epochs
  <1>6. CASE DeleteIngestCheckpoint
    <2>1. /\ ingest' = "down" /\ snapshots' = snapshots /\ Appends' = Appends
          /\ offsets'.query = offsets.query + 1
          /\ offsets'.start = None /\ offsets'.end = None
      BY <1>6, AppendsKept DEF DeleteIngestCheckpoint
    <2>2. \A i \in 1..Len(snapshots) :
             /\ snapshots[i].query <= offsets.query + 1
             /\ snapshots[i].query # offsets.query + 1
      BY <1>0 DEF Epochs
    <2> QED
      BY <1>1, <2>1, <2>2 DEF Epochs
  <1>7. CASE IngestDataLoss \/ StopIngest
    <2>1. /\ ingest' = "down" /\ UNCHANGED <<snapshots, offsets>> /\ Appends' = Appends
          /\ Planned' = Planned
      BY <1>7, AppendsKept DEF IngestDataLoss, StopIngest, Planned
    <2> QED
      BY <2>1 DEF Epochs
  <1>8. CASE Rewrite
    <2> DEFINE new == Len(snapshots) + 1
    <2>1. /\ Len(snapshots') = new /\ Appends' = Appends
          /\ \A i \in 1..Len(snapshots) : snapshots'[i] = snapshots[i]
          /\ snapshots'[new].query = 0 /\ snapshots'[new].kind = "replace"
      BY <1>8, RewriteCommitted
    <2>2. /\ UNCHANGED <<ingest, offsets>> /\ Planned' = Planned
      BY <1>8 DEF Rewrite, Unmaintained, Planned
    <2>3. \A i \in 1..Len(snapshots') : i \in 1..Len(snapshots) \/ i = new
      BY <1>0, <2>1
    <2>4. \A i \in Appends : snapshots'[i] = snapshots[i]
      BY <1>1, <2>1
    <2>5. \A i \in 1..Len(snapshots') :
             /\ snapshots'[i].query <= offsets.query
             /\ snapshots'[i].kind = "replace" => snapshots'[i].query = 0
      BY <1>0, <2>1, <2>3 DEF Epochs
    <2> HIDE DEF new
    <2> QED
      BY <2>1, <2>2, <2>4, <2>5 DEF Epochs
  <1>9. ASSUME UNCHANGED <<snapshots, ingest, offsets>> PROVE Epochs'
    <2>1. Appends' = Appends /\ Planned' = Planned
      BY <1>9, AppendsKept DEF Planned
    <2> QED
      BY <1>9, <2>1 DEF Epochs
  <1> QED
    BY <1>2, <1>3, <1>4, <1>5, <1>6, <1>7, <1>8, <1>9
    DEF Next, IngestStep, ReaderStep, Maintenance, Send, ExpireRecord, Tick, StartReader,
        ReadAppend, ReaderStranded, StopReader, DeleteReaderCheckpoint, StartDag, Pass, Expire,
        FailTask, Unmaintained, vars

\* Appends and their rows survive every step.
LEMMA AppendsSurvive ==
    ASSUME TypeOK, [Next]_vars
    PROVE  \A i \in Appends : i \in Appends' /\ snapshots'[i] = snapshots[i]
  <1> USE DEF kafkaVars, tableVars, ingestVars, readerVars, dagVars, counters
  <1>1. \A i \in Appends : i \in 1..Len(snapshots)
    BY DEF Appends
  <1>2. CASE AppendBatch
    <2>1. CASE AlreadyCommitted
      BY <1>2, <2>1, AppendsKept DEF AppendBatch
    <2>2. CASE ~AlreadyCommitted
      BY <1>1, <1>2, <2>2, BatchAppended
    <2> QED
      BY <2>1, <2>2
  <1>3. CASE Rewrite
    BY <1>1, <1>3, RewriteCommitted
  <1>4. ASSUME UNCHANGED snapshots PROVE \A i \in Appends : i \in Appends' /\ snapshots'[i] = snapshots[i]
    BY <1>4, AppendsKept
  <1> QED
    BY <1>2, <1>3, <1>4
    DEF Next, IngestStep, ReaderStep, Maintenance, Send, ExpireRecord, Tick, StartIngest,
        PlanIngest, CommitEpoch, IngestDataLoss, StopIngest, DeleteIngestCheckpoint,
        StartReader, ReadAppend, ReaderStranded, StopReader, DeleteReaderCheckpoint, StartDag,
        Pass, Expire, FailTask, Unmaintained, vars

\* A record the ingest's checkpoint has passed is in the table.
LEMMA NoGapsStep ==
    ASSUME TypeOK, Epochs, NoGaps, [Next]_vars
    PROVE  NoGaps'
  <1> USE DEF kafkaVars, tableVars, ingestVars, readerVars, dagVars, counters, None
  <1>0. /\ offsets \in [query : Nat \ {0}, epoch : Nat, start : Nat, end : Nat]
        /\ logStart \in Nat
    BY DEF TypeOK, TableTypes, IngestTypes
  <1>1. CASE CommitEpoch
    <2>1. offsets'.start = offsets.end /\ snapshots' = snapshots /\ Appends' = Appends
          /\ logStart' = logStart
      BY <1>0, <1>1, AppendsKept DEF CommitEpoch
    <2>2. PICK i \in Appends :
             snapshots[i].query = offsets.query /\ snapshots[i].epoch = offsets.epoch
      BY <1>1 DEF CommitEpoch, Epochs
    <2>3. snapshots[i].rows = offsets.start..(offsets.end - 1)
      BY <1>0, <2>2 DEF Epochs
    <2>4. \A k \in 1..(offsets.end - 1) :
             k >= logStart => \E j \in Appends : k \in snapshots[j].rows
      <3> TAKE k \in 1..(offsets.end - 1)
      <3> HAVE k >= logStart
      <3>1. CASE k < offsets.start
        BY <1>0, <3>1 DEF NoGaps
      <3>2. CASE k >= offsets.start
        BY <1>0, <2>3, <3>2
      <3> QED
        BY <1>0, <3>1, <3>2
    <2> QED
      BY <2>1, <2>4 DEF NoGaps
  <1>2. CASE StartIngest
    <2>1. CASE offsets.start = None
      <3>1. offsets'.start = logStart /\ logStart' = logStart
        BY <1>0, <1>2, <2>1 DEF StartIngest
      <3> QED
        BY <1>0, <3>1 DEF NoGaps
    <2>2. CASE offsets.start # None
      BY <1>2, <2>2, AppendsKept DEF StartIngest, NoGaps
    <2> QED
      BY <2>1, <2>2
  <1>3. CASE DeleteIngestCheckpoint
    BY <1>3 DEF DeleteIngestCheckpoint, NoGaps
  <1>4. ASSUME offsets'.start = offsets.start, logStart' >= logStart, logStart' \in Nat
        PROVE  NoGaps'
    BY <1>0, <1>4, AppendsSurvive DEF NoGaps
  <1>5. CASE PlanIngest
    BY <1>0, <1>4, <1>5 DEF PlanIngest
  <1>6. CASE ExpireRecord
    BY <1>0, <1>4, <1>6 DEF ExpireRecord
  <1>7. CASE UNCHANGED <<offsets, logStart>>
    BY <1>0, <1>4, <1>7
  <1> QED
    BY <1>1, <1>2, <1>3, <1>5, <1>6, <1>7
    DEF Next, IngestStep, ReaderStep, Maintenance, Send, Tick, AppendBatch, IngestDataLoss,
        StopIngest, StartReader, ReadAppend, ReaderStranded, StopReader,
        DeleteReaderCheckpoint, StartDag, Pass, Rewrite, Expire, FailTask, Unmaintained, vars

\* Why the retention has to cover both times: whatever a query that is attended to may
\* still need, its position included, is younger than their sum.
LEMMA YoungEnough ==
    ASSUME BronzeAssumption, TypeOK, InOrder, InReach, attended, RetentionSuffices,
           NEW i \in Appends, i = position \/ i \in Pending
    PROVE  clock - Retention <= snapshots[i].at
  <1>0. /\ Len(snapshots) \in Nat /\ clock \in Nat
        /\ \A j \in Appends : j \in 1..Len(snapshots) /\ snapshots[j].at \in Nat
        /\ MaxQuiet \in Nat /\ MaxOutage \in Nat /\ Retention \in Nat
        /\ MaxQuiet + MaxOutage <= Retention
    BY SnapshotFields DEF TypeOK, TableTypes, Appends, BronzeAssumption, RetentionSuffices
  <1>a. /\ clock \in Nat /\ MaxQuiet \in Nat /\ MaxOutage \in Nat /\ Retention \in Nat
        /\ MaxQuiet + MaxOutage <= Retention
    BY <1>0
  <1>b. \A j \in Appends : snapshots[j].at \in Nat
    BY <1>0
  <1>1. AttendedAt(clock)
    BY DEF InReach
  <1>2. CASE i \in Pending
    <2>1. clock <= snapshots[i].at + MaxOutage
      BY <1>1, <1>2 DEF AttendedAt
    <2>2. snapshots[i].at \in Nat
      BY <1>b
    <2> QED
      BY <1>a, <2>1, <2>2
  <1>3. CASE i = position
    <2>1. CASE \E j \in Appends : i < j
      <3>1. PICK k \in Appends : i < k /\ snapshots[k].at <= snapshots[i].at + MaxQuiet
        BY <2>1 DEF InReach
      <3>2. k \in Unread
        BY <1>0, <1>3, <3>1 DEF Unread
      <3>3. clock <= snapshots[k].at + MaxOutage
        BY <1>1, <3>2 DEF AttendedAt
      <3>4. snapshots[i].at \in Nat /\ snapshots[k].at \in Nat
        BY <1>b, <3>1
      <3> QED
        BY <1>a, <3>1, <3>3, <3>4
    <2>2. CASE \A j \in Appends : ~(i < j)
      <3>1. PICK k \in Appends : clock <= snapshots[k].at + MaxQuiet
        BY <1>1 DEF AttendedAt
      <3>2. k <= i
        BY <1>0, <2>2
      <3>3. snapshots[k].at <= snapshots[i].at
        BY <1>0, <3>2 DEF InOrder
      <3>4. snapshots[i].at \in Nat /\ snapshots[k].at \in Nat
        BY <1>b, <3>1
      <3> QED
        BY <1>a, <3>1, <3>3, <3>4
    <2> QED
      BY <2>1, <2>2
  <1> QED
    BY <1>2, <1>3

\* While the queries are attended to, nothing they need expires.
LEMMA InReachStep ==
    ASSUME BronzeAssumption, TypeOK, InOrder, Epochs, InReach, [Next]_vars
    PROVE  InReach'
  <1> USE DEF kafkaVars, tableVars, ingestVars, readerVars, dagVars, counters, None
  <1>0. /\ Len(snapshots) \in Nat /\ clock \in Nat
        /\ \A j \in Appends : j \in 1..Len(snapshots) /\ snapshots[j].at \in 0..clock
        /\ MaxQuiet \in Nat /\ MaxOutage \in Nat /\ Retention \in Nat
        /\ oldest \in 1..(Len(snapshots) + 1) /\ position \in Nat
        /\ offsets \in [query : Nat \ {0}, epoch : Nat, start : Nat, end : Nat]
    BY SnapshotFields
    DEF TypeOK, TableTypes, IngestTypes, ReaderTypes, Appends, BronzeAssumption
  <1>a. clock \in Nat /\ MaxQuiet \in Nat /\ \A j \in Appends : snapshots[j].at \in Nat
    BY <1>0
  <1>1. CASE UNCHANGED <<snapshots, oldest, offsets, position, attended, clock>>
    BY <1>1 DEF InReach, AttendedAt, Appends, Unread, Pending, Planned, Stranded
  \* Only the ingest's checkpoint changes: nothing new waits for it.
  <1>2. ASSUME UNCHANGED <<snapshots, oldest, position, attended, clock>>, Pending' \subseteq Pending
        PROVE  InReach'
    <2>1. Appends' = Appends /\ Unread' = Unread /\ Stranded' = Stranded
      BY <1>2 DEF Appends, Unread, Stranded
    <2>2. AttendedAt(clock) => AttendedAt(clock)'
      BY <1>2, <2>1 DEF AttendedAt
    <2> QED
      BY <1>2, <2>1, <2>2 DEF InReach
  <1>3. CASE StartIngest
    <2>1. CASE offsets.start = None
      <3>1. offsets'.start = logStart /\ offsets'.end = logStart
        BY <1>0, <1>3, <2>1 DEF StartIngest
      <3>2. Pending' = {}
        BY <3>1 DEF Pending, Planned
      <3> QED
        BY <1>2, <1>3, <3>2 DEF StartIngest
    <2>2. CASE offsets.start # None
      BY <1>1, <1>3, <2>2 DEF StartIngest
    <2> QED
      BY <2>1, <2>2
  <1>4. CASE PlanIngest
    <2>1. /\ ~Planned /\ Appends' = Appends /\ snapshots' = snapshots
          /\ offsets'.query = offsets.query /\ offsets'.epoch = offsets.epoch
      BY <1>0, <1>4, AppendsKept DEF PlanIngest, Epochs
    <2>2. \A i \in Appends : snapshots[i].query = offsets.query => snapshots[i].epoch < offsets.epoch
      BY <2>1 DEF Epochs
    <2>3. Pending' = {}
      BY <1>0, <2>1, <2>2 DEF Pending
    <2> QED
      BY <1>2, <1>4, <2>3 DEF PlanIngest
  <1>5. CASE CommitEpoch
    <2>1. offsets'.start = offsets'.end
      BY <1>0, <1>5 DEF CommitEpoch
    <2>2. Pending' = {}
      BY <2>1 DEF Pending, Planned
    <2> QED
      BY <1>2, <1>5, <2>2 DEF CommitEpoch
  <1>6. CASE DeleteIngestCheckpoint
    <2>1. Pending' = {}
      BY <1>6 DEF DeleteIngestCheckpoint, Pending, Planned
    <2> QED
      BY <1>2, <1>6, <2>1 DEF DeleteIngestCheckpoint
  <1>7. CASE AppendBatch
    <2>1. CASE AlreadyCommitted
      BY <1>1, <1>7, <2>1 DEF AppendBatch
    <2>2. CASE ~AlreadyCommitted
      <3> DEFINE new == Len(snapshots) + 1
      <3>1. /\ Appends' = Appends \union {new}
            /\ \A i \in Appends : snapshots'[i] = snapshots[i]
            /\ snapshots'[new].at = clock
        BY <1>0, <1>7, <2>2, BatchAppended
      <3>2. UNCHANGED <<clock, oldest, offsets, position, attended>>
        BY <1>7 DEF AppendBatch
      <3>3. Unread' \subseteq Unread \union {new} /\ Pending' \subseteq Pending \union {new}
        BY <3>1, <3>2 DEF Unread, Pending, Planned
      <3>4. SUFFICES ASSUME attended PROVE InReach'
        BY <3>2 DEF InReach
      <3>5. \A i \in Unread \union Pending : i \in Appends /\ clock <= snapshots[i].at + MaxOutage
        BY <3>4 DEF InReach, AttendedAt, Unread, Pending
      <3>6. \A i \in Unread' \union Pending' : clock' <= snapshots'[i].at + MaxOutage
        BY <1>0, <3>1, <3>2, <3>3, <3>5
      <3>7. new \in Appends' /\ clock' <= snapshots'[new].at + MaxQuiet
        BY <1>0, <3>1, <3>2
      <3>8. AttendedAt(clock)'
        BY <3>6, <3>7 DEF AttendedAt
      <3>9. ASSUME NEW i \in Appends', NEW j \in Appends', i < j
            PROVE  \E k \in Appends' : i < k /\ snapshots'[k].at <= snapshots'[i].at + MaxQuiet
        <4>1. i \in Appends
          BY <1>0, <3>1, <3>9
        <4>2. CASE \E m \in Appends : i < m
          BY <3>1, <3>4, <4>1, <4>2 DEF InReach
        <4>3. CASE \A m \in Appends : ~(i < m)
          <5>1. PICK w \in Appends : clock <= snapshots[w].at + MaxQuiet
            BY <3>4, <4>1 DEF InReach, AttendedAt
          <5>2. w <= i
            BY <1>0, <4>1, <4>3
          <5>3. snapshots[w].at <= snapshots[i].at
            BY <1>0, <4>1, <5>2 DEF InOrder
          <5>4. snapshots[w].at \in Nat /\ snapshots[i].at \in Nat
            BY <1>a, <4>1, <5>1
          <5>5. clock <= snapshots[i].at + MaxQuiet
            BY <1>a, <5>1, <5>3, <5>4
          <5>6. snapshots'[new].at <= snapshots'[i].at + MaxQuiet
            BY <3>1, <4>1, <5>5
          <5>7. i < new /\ new \in Appends'
            BY <1>0, <3>1, <4>1
          <5> QED
            BY <5>6, <5>7
        <4> QED
          BY <4>2, <4>3
      <3>10. RetentionSuffices => ~Stranded' /\ \A i \in Pending' : oldest' <= i
        BY <1>0, <3>2, <3>3, <3>4 DEF InReach, Stranded
      <3> QED
        BY <3>8, <3>9, <3>10 DEF InReach, RetentionSuffices
    <2> QED
      BY <2>1, <2>2
  <1>8. CASE Rewrite
    <2>1. /\ Appends' = Appends
          /\ \A i \in Appends : snapshots'[i] = snapshots[i]
      BY <1>0, <1>8, RewriteCommitted
    <2>2. UNCHANGED <<clock, oldest, offsets, position, attended>>
      BY <1>8 DEF Rewrite, Unmaintained
    <2>3. Unread' = Unread /\ Pending' = Pending /\ Stranded' = Stranded
      BY <2>1, <2>2 DEF Unread, Pending, Planned, Stranded
    <2>4. \A i \in Unread \union Pending : snapshots'[i] = snapshots[i]
      BY <2>1 DEF Unread, Pending
    <2>5. AttendedAt(clock) => AttendedAt(clock)'
      BY <2>1, <2>2, <2>3, <2>4 DEF AttendedAt
    <2> QED
      BY <2>1, <2>2, <2>3, <2>5 DEF InReach
  <1>9. CASE Expire
    <2>1. UNCHANGED <<clock, snapshots, offsets, position, attended>>
      BY <1>9 DEF Expire, Unmaintained
    <2>2. Appends' = Appends /\ Unread' = Unread /\ Pending' = Pending
      BY <2>1 DEF Appends, Unread, Pending, Planned
    <2>3. \A i \in Kept : oldest' <= i
      BY <1>0, <1>9 DEF Expire, Kept, Retained
    <2>4. SUFFICES ASSUME attended, RetentionSuffices
                   PROVE  ~Stranded' /\ \A i \in Pending : oldest' <= i
      BY <2>1, <2>2, <2>4 DEF InReach, AttendedAt
    <2>5. ASSUME NEW i \in Appends, i = position \/ i \in Pending PROVE oldest' <= i
      <3>1. oldest <= i
        BY <1>0, <2>4, <2>5 DEF InReach, Stranded
      <3>2. clock - Retention <= snapshots[i].at
        BY <2>4, <2>5, YoungEnough
      <3>3. i \in Kept
        BY <1>0, <3>1, <3>2 DEF Kept, Retained
      <3> QED
        BY <2>3, <3>3
    <2>6. position # None => position \in Appends
      BY DEF TypeOK, ReaderTypes
    <2>7. oldest' \in Nat
      BY <1>0, <1>9, TableStep DEF Next, Maintenance, TableTypes
    <2> QED
      BY <1>0, <2>1, <2>5, <2>6, <2>7 DEF Stranded, Pending
  <1>10. CASE ReadAppend
    <2>1. PICK i \in NextAppend : position' = i
      BY <1>10 DEF ReadAppend
    <2>2. i \in Appends /\ i > position /\ i >= oldest
      BY <2>1 DEF NextAppend, Unread
    <2>3. UNCHANGED <<clock, snapshots, oldest, offsets, attended>>
      BY <1>10 DEF ReadAppend
    <2>4. Appends' = Appends /\ Pending' = Pending
      BY <2>3 DEF Appends, Pending, Planned
    <2>5. Unread' \subseteq Unread
      BY <1>0, <2>1, <2>2, <2>4 DEF Unread
    <2>6. ~Stranded'
      BY <1>0, <2>1, <2>2, <2>3 DEF Stranded
    <2>7. AttendedAt(clock) => AttendedAt(clock)'
      BY <2>3, <2>4, <2>5 DEF AttendedAt
    <2> QED
      BY <2>3, <2>4, <2>6, <2>7 DEF InReach
  <1>11. CASE DeleteReaderCheckpoint
    <2>1. UNCHANGED <<clock, snapshots, oldest, offsets>> /\ position' = None
      BY <1>11 DEF DeleteReaderCheckpoint
    <2>2. attended' => attended /\ \A i \in Appends : clock <= snapshots[i].at + MaxOutage
      BY <1>11 DEF DeleteReaderCheckpoint
    <2>3. Appends' = Appends /\ Pending' = Pending /\ ~Stranded'
      BY <2>1 DEF Appends, Pending, Planned, Stranded
    <2>4. Unread' \subseteq Appends /\ Pending \subseteq Appends
      BY <2>3 DEF Unread, Pending
    <2>5. attended' /\ AttendedAt(clock) => AttendedAt(clock)'
      BY <2>1, <2>2, <2>3, <2>4 DEF AttendedAt
    <2> QED
      BY <2>1, <2>2, <2>3, <2>5 DEF InReach
  <1>12. CASE Tick
    <2>1. UNCHANGED <<snapshots, oldest, offsets, position>> /\ clock' = clock + 1
      BY <1>12 DEF Tick
    <2>0. attended' => attended /\ AttendedAt(clock + 1)
      BY <1>12 DEF Tick
    <2>2. Appends' = Appends /\ Pending' = Pending /\ Unread' = Unread /\ Stranded' = Stranded
      BY <2>1 DEF Appends, Pending, Planned, Unread, Stranded
    <2>3. AttendedAt(clock + 1) => AttendedAt(clock)'
      BY <2>1, <2>2 DEF AttendedAt
    <2> QED
      BY <2>0, <2>1, <2>2, <2>3 DEF InReach
  <1> QED
    BY <1>1, <1>3, <1>4, <1>5, <1>6, <1>7, <1>8, <1>9, <1>10, <1>11, <1>12
    DEF Next, IngestStep, ReaderStep, Maintenance, Send, ExpireRecord, IngestDataLoss,
        StopIngest, StartReader, ReaderStranded, StopReader, StartDag, Pass, FailTask,
        Unmaintained, vars

\* A batch run again is found among the snapshots that are left.
LEMMA CopiedOnceStep ==
    ASSUME BronzeAssumption, TypeOK, Epochs, InReach, CopiedOnce, [Next]_vars
    PROVE  CopiedOnce'
  <1> USE DEF kafkaVars, tableVars, ingestVars, readerVars, dagVars, counters
  <1>0. /\ Len(snapshots) \in Nat
        /\ \A j \in Appends : /\ j \in 1..Len(snapshots)
                              /\ snapshots[j].epoch \in Nat
                              /\ snapshots[j].rows \subseteq 1..produced
        /\ offsets \in [query : Nat \ {0}, epoch : Nat, start : Nat, end : Nat]
    BY SnapshotFields DEF TypeOK, IngestTypes, Appends
  <1>1. attended' => attended
    BY DEF Next, IngestStep, ReaderStep, Maintenance, Send, ExpireRecord, Tick, StartIngest,
        PlanIngest, AppendBatch, CommitEpoch, IngestDataLoss, StopIngest,
        DeleteIngestCheckpoint, StartReader, ReadAppend, ReaderStranded, StopReader,
        DeleteReaderCheckpoint, StartDag, Pass, Rewrite, Expire, FailTask, Unmaintained, vars
  <1>2. ASSUME Appends' = Appends, \A i \in Appends : snapshots'[i] = snapshots[i]
        PROVE  CopiedOnce'
    BY <1>1, <1>2 DEF CopiedOnce, RetentionSuffices
  <1>3. CASE AppendBatch
    <2>1. CASE AlreadyCommitted
      BY <1>2, <1>3, <2>1, AppendsKept DEF AppendBatch
    <2>2. CASE ~AlreadyCommitted
      <3> DEFINE new == Len(snapshots) + 1
      <3>1. /\ Appends' = Appends \union {new}
            /\ \A i \in Appends : snapshots'[i] = snapshots[i]
            /\ snapshots'[new].query = offsets.query
            /\ snapshots'[new].rows = offsets.start..(offsets.end - 1)
        BY <1>0, <1>3, <2>2, BatchAppended
      <3>2. SUFFICES ASSUME attended, RetentionSuffices,
                            NEW i \in Appends', NEW j \in Appends', i < j,
                            snapshots'[i].query = snapshots'[j].query,
                            NEW k \in snapshots'[i].rows, NEW m \in snapshots'[j].rows
                     PROVE  k < m
        BY <1>1 DEF CopiedOnce, RetentionSuffices
      <3>3. i \in Appends
        BY <1>0, <3>1, <3>2
      <3>4. CASE j \in Appends
        BY <3>1, <3>2, <3>3, <3>4 DEF CopiedOnce
      <3>5. CASE j = new
        <4>1. snapshots[i].query = offsets.query /\ k \in snapshots[i].rows
          BY <3>1, <3>2, <3>3, <3>5
        <4>2. CASE snapshots[i].epoch < offsets.epoch /\ \A l \in snapshots[i].rows : l < offsets.start
          <5>1. k \in 1..produced /\ k < offsets.start
            BY <1>0, <3>3, <4>1, <4>2
          <5>2. m \in offsets.start..(offsets.end - 1)
            BY <3>1, <3>2, <3>5
          <5> QED
            BY <1>0, <5>1, <5>2
        <4>3. CASE snapshots[i].epoch = offsets.epoch /\ Planned
          <5>1. i \in Pending
            BY <3>3, <4>1, <4>3 DEF Pending
          <5>2. oldest <= i
            BY <3>2, <5>1 DEF InReach
          <5>3. i \in Retained
            BY <1>0, <3>3, <5>2 DEF Retained, TypeOK, TableTypes
          <5>4. AlreadyCommitted
            BY <1>0, <4>1, <4>3, <5>3 DEF AlreadyCommitted
          <5> QED
            BY <2>2, <5>4
        <4> QED
          BY <3>3, <4>1, <4>2, <4>3 DEF Epochs
      <3> QED
        BY <3>1, <3>2, <3>4, <3>5
    <2> QED
      BY <2>1, <2>2
  <1>4. CASE Rewrite
    BY <1>0, <1>2, <1>4, RewriteCommitted
  <1>5. CASE UNCHANGED snapshots
    BY <1>2, <1>5, AppendsKept
  <1> QED
    BY <1>3, <1>4, <1>5
    DEF Next, IngestStep, ReaderStep, Maintenance, Send, ExpireRecord, Tick, StartIngest,
        PlanIngest, CommitEpoch, IngestDataLoss, StopIngest, DeleteIngestCheckpoint,
        StartReader, ReadAppend, ReaderStranded, StopReader, DeleteReaderCheckpoint, StartDag,
        Pass, Expire, FailTask, Unmaintained, vars

-----------------------------------------------------------------------------
(* The theorems.                                                           *)

\* The table's inductive invariant: types, order of time and of reading, the ingest's
\* epochs, what stays in reach of the queries, the topic copied once and without gaps.
THEOREM BronzeInvariant == Spec => []BInv
  <1>1. Init => BInv
    <2> SUFFICES ASSUME Init PROVE BInv
      OBVIOUS
    <2>1. Len(snapshots) = 0 /\ Appends = {} /\ position = None /\ read = {}
      BY DEF Init, Appends
    <2>2. InOrder
      BY <2>1 DEF InOrder
    <2>3. ~Planned /\ ingest = "down" /\ offsets.start = None /\ offsets.end = None
      BY DEF Init, Planned, None
    <2>4. Epochs
      BY <2>1, <2>3 DEF Epochs
    <2>5. InReach
      BY <2>1 DEF InReach, AttendedAt, Unread, Pending, Stranded
    <2>6. CopiedOnce
      BY <2>1 DEF CopiedOnce
    <2>7. NoGaps
      BY <2>3 DEF NoGaps, None
    <2> QED
      BY <2>2, <2>4, <2>5, <2>6, <2>7, InitTypes DEF BInv
  <1>2. BInv /\ [Next]_vars => BInv'
    BY BronzeAssumption, TypeStep, InOrderStep, EpochsStep, InReachStep, CopiedOnceStep,
       NoGapsStep
    DEF BInv
  <1> QED
    BY <1>1, <1>2, PTL DEF Spec

\* The Silver query always finds the snapshot it resumes from, if the retention covers an
\* outage and a silence of the fleet together.
THEOREM PositionRetainedHolds == Spec => []PositionRetained
  <1>1. BInv => PositionRetained
    BY DEF BInv, InReach, PositionRetained
  <1> QED
    BY <1>1, BronzeInvariant, PTL

\* Under one checkpoint the topic is copied once and in order.
THEOREM CopiedOnceHolds == Spec => []CopiedOnce
  <1>1. BInv => CopiedOnce
    BY DEF BInv
  <1> QED
    BY <1>1, BronzeInvariant, PTL

\* A record the ingest's checkpoint has passed is in the table, whatever fails and
\* whatever expires, without any assumption on outages.
THEOREM NoGapsHolds == Spec => []NoGaps
  <1>1. BInv => NoGaps
    BY DEF BInv
  <1> QED
    BY <1>1, BronzeInvariant, PTL

\* A step of the table is an append, a delivery or a new beginning of the feed, or none.
LEMMA FeedStep ==
    ASSUME BInv, [Next]_vars
    PROVE  [Feed!Append \/ Feed!Deliver \/ Feed!Forget]_(Feed!feed)
  <1> USE DEF kafkaVars, tableVars, ingestVars, readerVars, dagVars, counters, None
  <1>0. /\ TypeOK /\ InOrder /\ Len(snapshots) \in Nat /\ oldest \in Nat
        /\ \A i \in Appends : i \in 1..Len(snapshots)
        /\ read \subseteq Appends
    BY SnapshotFields DEF BInv, TypeOK, TableTypes, ReaderTypes, Appends
  <1>1. CASE AppendBatch
    <2>1. CASE AlreadyCommitted
      BY <1>1, <2>1, AppendsKept DEF AppendBatch, Feed!feed
    <2>2. CASE ~AlreadyCommitted
      <3>1. Appends' = Appends \union {Len(snapshots) + 1}
        BY <1>0, <1>1, <2>2, BatchAppended
      <3>2. \A m \in Appends : m < Len(snapshots) + 1
        BY <1>0
      <3>3. read' = read
        BY <1>1 DEF AppendBatch
      <3>4. Feed!Append
        BY <3>1, <3>2, <3>3 DEF Feed!Append
      <3> QED
        BY <3>4
    <2> QED
      BY <2>1, <2>2
  <1>2. CASE Rewrite
    BY <1>0, <1>2, RewriteCommitted DEF Rewrite, Unmaintained, Feed!feed
  <1>3. CASE ReadAppend
    <2>1. PICK n \in NextAppend : position' = n /\ read' = read \union {n}
      BY <1>3 DEF ReadAppend
    <2>2. /\ n \in Appends /\ n > position /\ n >= oldest
          /\ \A j \in Appends : j > position /\ j >= oldest => n <= j
      BY <2>1 DEF NextAppend, Unread
    <2>3. Appends' = Appends /\ ~Stranded
      BY <1>3, AppendsKept DEF ReadAppend
    <2>4. position \in Nat
      BY <1>0 DEF TypeOK, ReaderTypes
    <2>5. \A m \in read : m < n
      BY <1>0, <2>2, <2>4 DEF InOrder
    <2>6. read # {} => \A k \in Appends : k < n => \E m \in read : k <= m
      <3> SUFFICES ASSUME read # {}, NEW k \in Appends, k < n PROVE k <= position /\ position \in read
        OBVIOUS
      <3>1. position # None /\ position \in read
        BY <1>0 DEF InOrder
      <3>2. position >= oldest
        BY <1>0, <2>3, <2>4, <3>1 DEF Stranded
      <3> QED
        BY <1>0, <2>2, <2>4, <3>1, <3>2
    <2>7. Feed!Deliver
      BY <2>1, <2>2, <2>3, <2>5, <2>6 DEF Feed!Deliver
    <2> QED
      BY <2>7
  <1>4. CASE DeleteReaderCheckpoint
    BY <1>4, AppendsKept DEF DeleteReaderCheckpoint, Feed!Forget
  <1>5. CASE UNCHANGED <<snapshots, read>>
    BY <1>5, AppendsKept DEF Feed!feed
  <1> QED
    BY <1>1, <1>2, <1>3, <1>4, <1>5
    DEF Next, IngestStep, ReaderStep, Maintenance, Send, ExpireRecord, Tick, StartIngest,
        PlanIngest, CommitEpoch, IngestDataLoss, StopIngest, DeleteIngestCheckpoint,
        StartReader, ReaderStranded, StopReader, StartDag, Pass, Expire, FailTask,
        Unmaintained, vars

\* What the Silver query reads is a feed of appends, whatever maintenance does to the
\* table: the detailed table implements AppendFeed.
THEOREM ImplementsFeed == Spec => ReadsAsFeed
  <1>1. Init => Feed!Init
    BY DEF Init, Feed!Init, Appends
  <1>2. BInv /\ [Next]_vars => [Feed!Append \/ Feed!Deliver \/ Feed!Forget]_(Feed!feed)
    BY FeedStep
  <1> QED
    BY <1>1, <1>2, BronzeInvariant, PTL DEF Spec, ReadsAsFeed, Feed!Spec

=============================================================================
