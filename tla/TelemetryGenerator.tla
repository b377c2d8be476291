-------------------------- MODULE TelemetryGenerator --------------------------
(***************************************************************************)
(* The event stream of one simulator run, generator.py: every vehicle      *)
(* ticks in turn, each reading is sent clean, twice, corrupted, or held    *)
(* back in a heap until its release time.                                  *)
(*                                                                         *)
(* The generator is lazy: its consumer asks for the next record.  Records  *)
(* yielded and not yet taken are in "out"; the generator runs on only when *)
(* out is empty.  Simulated time starts at 0.                              *)
(***************************************************************************)
EXTENDS VehicleSimulator, Sequences, FiniteSets

CONSTANTS
    Fleet,          \* the vehicles, in the order of build_simulators
    HotVehicle,
    HotMultiplier,  \* readings of the hot vehicle per tick
    TICK,           \* units of time per tick, TICK_SECONDS
    Delays,         \* how long a late reading is held back
    Kinds,          \* the corruptions that are drawn, of CORRUPTIONS
    NoKind          \* not corrupted

VehicleNames == {Fleet[k] : k \in 1..Len(Fleet)}

\* simulators is a dictionary: no vehicle is in it twice.
ASSUME GeneratorAssumption ==
    /\ Fleet \in Seq(VehicleNames)
    /\ \A i, j \in 1..Len(Fleet) : Fleet[i] = Fleet[j] => i = j
    /\ HotMultiplier \in Nat /\ TICK \in Nat \ {0}
    /\ HotMultiplier > 0 => TICK % HotMultiplier = 0
    /\ Delays \subseteq Nat \ {0}
    /\ NoKind \notin Kinds

VARIABLES
    vehicles,   \* simulators: state of each vehicle
    sim_time,
    stats,      \* InjectionStats
    late_heap,  \* _late_heap: records [release_at, sequence, record]
    counter,    \* _counter
    cursor,     \* where tick stands: <<vehicle, sub-tick>>, or Between two ticks
    out         \* yielded, not yet taken by the consumer

generatorVars == <<vehicles, sim_time, stats, late_heap, counter, cursor, out>>

Between == <<0, 0>>

\* _emit_multiplier: max(1, ...) for the hot vehicle.
Multiplier(v) == IF v = HotVehicle /\ HotMultiplier > 1 THEN HotMultiplier ELSE 1
SubTick(v) == TICK \div Multiplier(v)

\* A record on the wire: the reading, the corruption, and how it came to be sent.
Record(reading, kind, late) == [reading |-> reading, kind |-> kind, late |-> late]

Records ==
    [reading : Readings(VehicleNames), kind : Kinds \union {NoKind}, late : BOOLEAN]
PendingLate == [release_at : Nat, sequence : Nat, record : Records]
InjectionStats == [clean : Nat, duplicates : Nat, late : Nat, invalid : Nat, hot_vehicle : Nat]

GeneratorTypes ==
    /\ vehicles \in [VehicleNames -> VehicleStates]
    /\ sim_time \in Nat /\ stats \in InjectionStats /\ counter \in Nat
    /\ late_heap \subseteq PendingLate /\ IsFiniteSet(late_heap)
    /\ cursor \in (0..Len(Fleet) + 1) \X Nat
    /\ out \in Seq(Records)

GeneratorInit ==
    /\ vehicles \in [VehicleNames -> NewVehicles]
    /\ sim_time = 0
    /\ stats = [clean |-> 0, duplicates |-> 0, late |-> 0, invalid |-> 0, hot_vehicle |-> 0]
    /\ late_heap = {} /\ counter = 0
    /\ cursor = Between /\ out = << >>

TotalProduced(s) == s.clean + s.duplicates + s.invalid
-----------------------------------------------------------------------------
(* The injections, _process and _schedule_late: each takes the reading's   *)
(* statistics as already counted for the hot vehicle.                      *)

Invalid(reading, counted) ==
    /\ \E kind \in Kinds : out' = <<Record(reading, kind, FALSE)>>
    /\ stats' = [counted EXCEPT !.invalid = @ + 1]
    /\ UNCHANGED <<late_heap, counter>>

ScheduleLateUncounted(reading, counted) ==   \* faulty variant: counted on release
    /\ \E delay \in Delays :
        late_heap' = late_heap \union
            {[release_at |-> sim_time + delay, sequence |-> counter,
              record |-> Record(reading, NoKind, TRUE)]}
    /\ counter' = counter + 1
    /\ stats' = counted
    /\ UNCHANGED out
\* A late reading is counted as clean now, and will be sent.
ScheduleLate(reading, counted) ==
    /\ \E delay \in Delays :
        late_heap' = late_heap \union
            {[release_at |-> sim_time + delay, sequence |-> counter,
              record |-> Record(reading, NoKind, TRUE)]}
    /\ counter' = counter + 1
    /\ stats' = [counted EXCEPT !.clean = @ + 1, !.late = @ + 1]
    /\ UNCHANGED out

SendClean(reading, counted) ==
    LET record == Record(reading, NoKind, FALSE) IN
    /\ \/ /\ out' = <<record>>
          /\ stats' = [counted EXCEPT !.clean = @ + 1]
       \/ /\ out' = <<record, record>>
          /\ stats' = [counted EXCEPT !.clean = @ + 1, !.duplicates = @ + 1]
    /\ UNCHANGED <<late_heap, counter>>

Process(reading) ==
    LET hot     == reading.event_id[1] = HotVehicle
        counted == IF hot THEN [stats EXCEPT !.hot_vehicle = @ + 1] ELSE stats
    IN Invalid(reading, counted) \/ ScheduleLate(reading, counted) \/ SendClean(reading, counted)
-----------------------------------------------------------------------------
(* tick, in the order it runs.                                             *)

InVehicles == out = << >> /\ cursor[1] \in 1..Len(Fleet)
InDrain    == out = << >> /\ cursor[1] > Len(Fleet)

StartTick ==
    /\ cursor = Between /\ out = << >>
    /\ cursor' = <<1, 0>>
    /\ UNCHANGED <<vehicles, sim_time, stats, late_heap, counter, out>>

\* One sub-tick of the vehicle at the cursor.
TickVehicle ==
    /\ InVehicles
    /\ LET v == Fleet[cursor[1]] IN
        /\ \E next \in Tick(v, vehicles[v], sim_time + SubTick(v) * cursor[2], SubTick(v)) :
            /\ vehicles' = [vehicles EXCEPT ![v] = next.state]
            /\ IF next.event = NoEvent
               THEN UNCHANGED <<stats, late_heap, counter, out>>
               ELSE Process(next.event)
        /\ cursor' = IF cursor[2] + 1 < Multiplier(v)
                     THEN <<cursor[1], cursor[2] + 1>> ELSE <<cursor[1] + 1, 0>>
    /\ UNCHANGED sim_time

OldestScheduled == \* faulty variant: the buffer is a queue
    {p \in late_heap : \A q \in late_heap : p.sequence <= q.sequence}
\* The top of the heap: _PendingLate is ordered by release time, then sequence.
NextLate ==
    {p \in late_heap : \A q \in late_heap :
        \/ p.release_at < q.release_at
        \/ p.release_at = q.release_at /\ p.sequence <= q.sequence}

PopLate(p) == late_heap' = late_heap \ {p} /\ out' = <<p.record>>

\* _drain_late, one record at a time.
DrainLate ==
    /\ InDrain
    /\ \E p \in NextLate : p.release_at <= sim_time /\ PopLate(p)
    /\ UNCHANGED <<vehicles, sim_time, stats, counter, cursor>>

\* The end of tick: nothing is due, and simulated time moves on.
EndTick ==
    /\ InDrain
    /\ \A p \in NextLate : p.release_at > sim_time
    /\ sim_time' = sim_time + TICK
    /\ cursor' = Between
    /\ UNCHANGED <<vehicles, stats, late_heap, counter, out>>

\* flush_late: whatever is still held back, due or not.
FlushLate ==
    /\ cursor = Between /\ out = << >>
    /\ \E p \in NextLate : PopLate(p)
    /\ UNCHANGED <<vehicles, sim_time, stats, counter, cursor>>
=============================================================================
