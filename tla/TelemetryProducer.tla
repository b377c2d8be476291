--------------------------- MODULE TelemetryProducer ---------------------------
(***************************************************************************)
(* One run of the simulator, producer.py: the loop that takes records from *)
(* the generator and hands them to the Kafka client, the signal that stops *)
(* it, the final flush and the manifest.                                   *)
(*                                                                         *)
(* The Kafka client keeps a bounded queue and delivers it in order; a      *)
(* record it gives up on is only logged.                                   *)
(***************************************************************************)
EXTENDS TelemetryGenerator, QualityRules

CONSTANTS
    Ticks,          \* the requested number of ticks
    QueueCapacity,  \* records the Kafka client buffers
    MaxFailures,    \* bound: deliveries given up
    None            \* no manifest; the process has not ended

Manifests == [records_sent : Nat, sim_end : Nat, stats : InjectionStats]
Failures  == {"undelivered", "miscounted", "exception"}

ASSUME ProducerAssumption ==
    /\ {Ticks, QueueCapacity, MaxFailures} \subseteq Nat
    /\ None \notin Manifests \union Failures \union {"ok"}

\* A vehicle's name and the hash that is an event id are strings of their own, no vehicle
\* is faster than 200 km/h, and the run starts after 2020-01-01.
ASSUME WireAssumption ==
    /\ \A x \in {Null, Text, Blank} :
           x \notin VehicleNames /\ x \notin VehicleNames \X Nat \X Nat
    /\ Speeds \subseteq 0..200 /\ Ancient <= 0 /\ Kinds \subseteq Corruptions

VARIABLES
    shutdown,    \* _shutdown
    phase,       \* where run stands
    tick_index,
    sent,
    queue,       \* the client's buffer
    topic,       \* the records Kafka has, in order of arrival
    lost,        \* the records whose delivery failed
    manifest,    \* the manifest file
    outcome      \* how the process ended

runVars == <<shutdown, phase, tick_index, sent, queue, topic, lost, manifest, outcome>>
vars    == <<generatorVars, runVars>>

Launch == Ticks * TICK   \* the wall clock at the start; simulated time starts in the past

Init ==
    /\ GeneratorInit
    /\ shutdown = FALSE /\ phase = "loop" /\ tick_index = 0 /\ sent = 0
    /\ queue = << >> /\ topic = << >> /\ lost = << >>
    /\ manifest = None /\ outcome = None

Running == phase # "exited"
-----------------------------------------------------------------------------
\* _handle_signal: at any time; it only sets a flag.
Signal ==
    /\ Running /\ ~shutdown
    /\ shutdown' = TRUE
    /\ UNCHANGED <<generatorVars, phase, tick_index, sent, queue, topic, lost, manifest, outcome>>

\* The head of the loop, which alone looks at the flag.
BeginTick ==
    /\ phase = "loop" /\ tick_index < Ticks /\ ~shutdown
    /\ StartTick
    /\ phase' = "tick"
    /\ UNCHANGED <<shutdown, tick_index, sent, queue, topic, lost, manifest, outcome>>

LeaveLoopAtOnce ==   \* faulty variant: an interrupted run skips the late buffer
    /\ phase = "loop" /\ (tick_index = Ticks \/ shutdown)
    /\ phase' = IF shutdown THEN "flush" ELSE "late"
    /\ UNCHANGED <<generatorVars, shutdown, tick_index, sent, queue, topic, lost, manifest, outcome>>
\* break, or the last tick is done.
LeaveLoop ==
    /\ phase = "loop" /\ (tick_index = Ticks \/ shutdown)
    /\ phase' = "late"
    /\ UNCHANGED <<generatorVars, shutdown, tick_index, sent, queue, topic, lost, manifest, outcome>>

\* generator.tick() is asked for the next record.
Generate ==
    /\ phase = "tick"
    /\ TickVehicle \/ DrainLate
    /\ UNCHANGED runVars

FinishTick ==
    /\ phase = "tick"
    /\ EndTick
    /\ tick_index' = tick_index + 1 /\ phase' = "loop"
    /\ UNCHANGED <<shutdown, sent, queue, topic, lost, manifest, outcome>>

Flush ==
    /\ phase = "late"
    /\ IF late_heap = {} /\ out = << >>
       THEN phase' = "flush" /\ UNCHANGED generatorVars
       ELSE FlushLate /\ UNCHANGED phase
    /\ UNCHANGED <<shutdown, tick_index, sent, queue, topic, lost, manifest, outcome>>

\* producer.produce, sent += 1, producer.poll(0).
Produce ==
    /\ Running /\ out # << >>
    /\ Len(queue) < QueueCapacity
    /\ queue' = Append(queue, Head(out))
    /\ out' = Tail(out)
    /\ sent' = sent + 1
    /\ UNCHANGED <<vehicles, sim_time, stats, late_heap, counter, cursor>>
    /\ UNCHANGED <<shutdown, phase, tick_index, topic, lost, manifest, outcome>>

Exit(how) == phase' = "exited" /\ outcome' = how

\* produce on a full buffer raises BufferError, which nothing catches.
BufferError ==
    /\ Running /\ out # << >>
    /\ Len(queue) = QueueCapacity
    /\ Exit("exception")
    /\ UNCHANGED <<generatorVars, shutdown, tick_index, sent, queue, topic, lost, manifest>>
-----------------------------------------------------------------------------
(* The Kafka client and broker.                                            *)

Deliver ==
    /\ Running /\ queue # << >>
    /\ topic' = Append(topic, Head(queue))
    /\ queue' = Tail(queue)
    /\ UNCHANGED <<generatorVars, shutdown, phase, tick_index, sent, lost, manifest, outcome>>

\* _delivery_report with an error: a log line.
DeliveryFailed ==
    /\ Running /\ queue # << >> /\ Len(lost) < MaxFailures
    /\ lost' = Append(lost, Head(queue))
    /\ queue' = Tail(queue)
    /\ UNCHANGED <<generatorVars, shutdown, phase, tick_index, sent, topic, manifest, outcome>>
-----------------------------------------------------------------------------
(* producer.flush and what follows.                                        *)

FlushForEver == FALSE /\ UNCHANGED vars  \* faulty variant: flush() without a timeout
\* outstanding > 0 after the 60 seconds: exit 1, no manifest.
FlushTimeout ==
    /\ phase = "flush" /\ queue # << >>
    /\ Exit("undelivered")
    /\ UNCHANGED <<generatorVars, shutdown, tick_index, sent, queue, topic, lost, manifest>>

\* The count that must agree, then the manifest.
WriteManifest ==
    /\ IF sent # TotalProduced(stats)
       THEN Exit("miscounted") /\ UNCHANGED manifest
       ELSE /\ Exit("ok")
            /\ manifest' = [records_sent |-> sent, sim_end |-> sim_time, stats |-> stats]
    /\ UNCHANGED <<generatorVars, shutdown, tick_index, sent, queue, topic, lost>>

FinishWithoutFlush ==   \* faulty variant: the client is not flushed
    phase = "flush" /\ WriteManifest
Finish ==
    /\ phase = "flush" /\ queue = << >>
    /\ WriteManifest

Main ==
    \/ BeginTick \/ LeaveLoop \/ Generate \/ FinishTick \/ Flush
    \/ Produce \/ BufferError \/ FlushTimeout \/ Finish

Next == Main \/ Signal \/ Deliver \/ DeliveryFailed

Spec == Init /\ [][Next]_vars

\* The process is one thread that always has a next statement.  Nothing is assumed
\* of the broker: a flush that waits for it ends by its timeout.
LiveSpec == Spec /\ WF_vars(Main)
-----------------------------------------------------------------------------
(* Properties.                                                             *)

\* What was sent and is settled, and the records whatever became of them.
Settled == topic \o lost
Handed  == Settled \o queue
Wire    == {Handed[k] : k \in 1..Len(Handed)}

CountOf(Test(_)) == Cardinality({k \in 1..Len(Settled) : Test(Settled[k])})
IsValid(r) == r.kind = NoKind
ValidIds   == {r.reading.event_id : r \in {x \in Wire : IsValid(x)}}

\* Types, the simulated clock, and the order of the phases.
TypeOK ==
    /\ GeneratorTypes /\ sim_time = TICK * tick_index
    /\ {topic, lost, queue} \subseteq Seq(Records)
    /\ phase \in {"loop", "tick", "late", "flush", "exited"} /\ shutdown \in BOOLEAN
    /\ tick_index \in 0..Ticks /\ sent = Len(Handed)
    /\ Cardinality(late_heap) <= counter /\ counter = stats.late
    /\ Len(queue) <= QueueCapacity /\ Len(lost) <= MaxFailures
    /\ outcome \in Failures \union {"ok", None} /\ (outcome # None <=> phase = "exited")
    /\ manifest \in Manifests \union {None} /\ (manifest # None <=> outcome = "ok")

\* The manifest tells the truth: when it is written, every record has been delivered
\* or given up, and its counts are the counts of those records (README: the manifest
\* is what the verification suite reconciles against).
ManifestTrue ==
    manifest # None =>
        /\ queue = << >> /\ manifest.records_sent = Len(Settled)
        /\ manifest.stats.clean = Cardinality(ValidIds)
        /\ manifest.stats.duplicates = CountOf(IsValid) - Cardinality(ValidIds)
        /\ manifest.stats.invalid = CountOf(LAMBDA r : ~IsValid(r))
        /\ manifest.stats.late = CountOf(LAMBDA r : r.late)

\* "reconciliation would fail" cannot happen: records sent and records counted agree
\* at the end of every run, interrupted or not, although a late reading is counted
\* long before it is sent.
NeverMiscounted == outcome # "miscounted"

\* One event id, one reading: an id is never issued twice within a run, and the
\* copies sent under it are identical (what EventIdsUnique of SilverTransform asks).
OneReadingPerId ==
    \A r, s \in Wire :
        r.reading.event_id = s.reading.event_id => r = s

\* Trip arithmetic holds: within a trip the odometer and the distance agree with the
\* fuel burnt, and fuel never rises (vehicle.py: "fuel never rises mid-trip - a
\* property the trip-level fuel calculations rely on").
SameTripBefore(r, s) ==
    /\ r.event_id[1] = s.event_id[1] /\ r.event_id[2] = s.event_id[2]
    /\ r.event_id[3] < s.event_id[3]
BurntBetween(r, s) ==
    LET distance == s.odometer_km - r.odometer_km IN
    /\ distance >= 0
    /\ \/ r.fuel_level - s.fuel_level = Consumption * distance
       \/ s.fuel_level = 0 /\ r.fuel_level <= Consumption * distance
Coherent(r, s) == SameTripBefore(r, s) => r.event_time < s.event_time /\ BurntBetween(r, s)
TripCoherent   == \A x, y \in Wire : Coherent(x.reading, y.reading)

\* Nothing is held back longer than its delay: between two ticks no reading is overdue,
\* and none is left when the process has ended well.
NothingOverdue ==
    /\ cursor = Between => \A p \in late_heap : p.release_at > sim_time - TICK
    /\ outcome = "ok" => late_heap = {}

\* The record as JSON.  The fields no decision depends on have the value of a sound
\* sensor.
Payload(r) ==
    LET e == r.reading
        sound == [event_id |-> e.event_id, vehicle_id |-> e.event_id[1],
            trip_id |-> e.event_id[2], event_time |-> e.event_time,
            speed |-> 10 * e.speed, fuel_level |-> (1000 * e.fuel_level) \div Capacity,
            odometer_km |-> 10 * e.odometer_km, engine_temperature |-> 880,
            battery_level |-> 950, latitude |-> 185, longitude |-> 738,
            schema_version |-> "1.0"]
    IN IF r.kind = NoKind THEN sound ELSE Corrupt(sound, r.kind)

\* A reading sent clean passes every rule from the launch of the run on, so no reading
\* is dated in the future; each corruption of it breaks the one rule that is there
\* to catch it, and no other (generator.py: "Each targets a specific rule").
RulesTellThem ==
    \A r \in {out[k] : k \in 1..Len(out)} :
        /\ FailedRuleNames(CriticalRuleNames, Payload(r), Launch - Day) =
               IF r.kind = NoKind THEN {} ELSE {TargetRule[r.kind]}
        /\ r.kind = NoKind =>
               \A kind \in Corruptions :
                   FailedRuleNames(CriticalRuleNames, Corrupt(Payload(r), kind), Launch) =
                       {TargetRule[kind]}

-----------------------------------------------------------------------------
(* The inductive invariant: of every record there is, wherever it is.      *)

Elements(s) == {s[k] : k \in 1..Len(s)}
Tally(s, S) == Cardinality({k \in 1..Len(s) : s[k] \in S})

\* The records of the run, those held back included, and how many of those yielded are in S.
Issued ==
    Elements(topic) \union Elements(lost) \union Elements(queue) \union Elements(out)
        \union {p.record : p \in late_heap}
Yielded(S) == Tally(topic, S) + Tally(lost, S) + Tally(queue, S) + Tally(out, S)

ValidRecords == {r \in Records : IsValid(r)}
LateRecords  == {r \in Records : r.late}

\* Where the generator stands in each phase, and what is left at the end of one.
InPhase ==
    /\ phase \in {"loop", "late", "flush"} => cursor = Between
    /\ phase \in {"loop", "flush"} => out = << >>
    /\ phase = "flush" \/ outcome = "ok" => late_heap = {}
    /\ outcome = "ok" => queue = << >> /\ out = << >>
    /\ outcome # "miscounted"
    /\ cursor[1] \in 1..Len(Fleet) => cursor[2] < Multiplier(Fleet[cursor[1]])
    /\ cursor[1] = 0 => cursor = Between
    /\ cursor # Between => tick_index < Ticks

\* When the i-th vehicle is next asked for a reading, at the earliest.
NextMoment(i) ==
    IF i < cursor[1] THEN sim_time + TICK
    ELSE IF i = cursor[1] THEN sim_time + SubTick(Fleet[i]) * cursor[2]
    ELSE sim_time

\* Every id is of the past: of a trip before the vehicle's last, or of a reading before its next.
IdsOfThePast ==
    \A r \in Issued :
        LET id == r.reading.event_id  s == vehicles[id[1]] IN
        id[2] < s.trip_seq \/ (id[2] = s.trip_seq /\ id[3] < s.event_seq)

OneRecordPerId ==
    \A r, s \in Issued : r.reading.event_id = s.reading.event_id => r = s

\* Every reading was taken before the next moment of its vehicle.
Dated ==
    \A r \in Issued, i \in 1..Len(Fleet) :
        r.reading.event_id[1] = Fleet[i] => r.reading.event_time < NextMoment(i)

\* What TripCoherent says of any two readings of a trip; and of a reading and the vehicle
\* itself as long as the trip lasts.
TripsCoherent == \A x, y \in Issued : Coherent(x.reading, y.reading)
Underway ==
    \A v \in VehicleNames : vehicles[v].status = "driving" =>
        /\ vehicles[v].fuel > 0
        /\ \A r \in Issued :
            LET distance == vehicles[v].odometer - r.reading.odometer_km IN
            r.reading.event_id[1] = v /\ r.reading.event_id[2] = vehicles[v].trip_seq =>
                distance >= 0 /\ r.reading.fuel_level - vehicles[v].fuel = Consumption * distance

\* The statistics against the records.
CleanIds == {r.reading.event_id : r \in Issued \intersect ValidRecords}
Booked ==
    /\ IsFiniteSet(CleanIds) /\ stats.clean = Cardinality(CleanIds)
    /\ stats.clean + stats.duplicates = Yielded(ValidRecords) + Cardinality(late_heap)
    /\ stats.invalid = Yielded(Records \ ValidRecords)
    /\ stats.late = Yielded(LateRecords) + Cardinality(late_heap)
    /\ \A p \in late_heap :
        p.sequence < counter /\ p.record.kind = NoKind /\ p.record.late
        /\ p.release_at > sim_time - TICK

RecordsInv ==
    IdsOfThePast /\ OneRecordPerId /\ Dated /\ TripsCoherent /\ Underway /\ Booked
RunInv == TypeOK /\ InPhase /\ RecordsInv /\ ManifestTrue
-----------------------------------------------------------------------------
\* Every run ends, whether the broker answers or not.
Terminates == <>(outcome # None)
=============================================================================
