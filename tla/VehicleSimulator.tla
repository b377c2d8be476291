--------------------------- MODULE VehicleSimulator ---------------------------
(***************************************************************************)
(* One simulated vehicle, vehicle.py: its trips, the counters its event    *)
(* ids are made of, fuel and odometer.  A vehicle's state is a record; the *)
(* random choices of a tick are the members of the sets below.             *)
(*                                                                         *)
(* Distances, fuel and time are whole units.  Temperature, battery and     *)
(* position follow no decision of the program and are left out.            *)
(***************************************************************************)
EXTENDS Integers

CONSTANTS
    Speeds,       \* distance covered per unit of time
    Routes,       \* lengths of the routes
    Rests,        \* rest between two trips, in units of time
    Capacity,     \* fuel_capacity_l
    Consumption,  \* fuel burnt per unit of distance
    NoEvent       \* tick returned None

ASSUME VehicleAssumption ==
    /\ Speeds \subseteq Nat /\ Rests \subseteq Nat /\ Routes \subseteq Nat \ {0}
    /\ Capacity \in Nat \ {0} /\ Consumption \in Nat \ {0}

Never == -1   \* resume_at None

VehicleStates ==
    [status : {"parked", "driving"}, trip_seq : Nat, event_seq : Nat, route : Nat,
     progress : Nat, odometer : Nat, fuel : 0..Capacity, resume_at : Nat \union {Never}]

\* __post_init__ draws the first filling, _end_trip a new one.
FirstFilling == {f \in 0..Capacity : 100 * f >= 55 * Capacity}
Refilling    == {f \in 0..Capacity : 10 * f >= 9 * Capacity}
NeedsFuel(fuel) == 100 * fuel < 15 * Capacity

NewVehicles ==
    {[status |-> "parked", trip_seq |-> 0, event_seq |-> 0, route |-> 0, progress |-> 0,
      odometer |-> 0, fuel |-> f, resume_at |-> Never] : f \in FirstFilling}
-----------------------------------------------------------------------------
StartSameTrip(s, route) ==   \* faulty variant: trip_seq does not advance
    [s EXCEPT !.event_seq = 0, !.route = route, !.progress = 0,
              !.status = "driving", !.resume_at = Never]
\* _start_trip
StartTrip(s, route) ==
    [s EXCEPT !.trip_seq = @ + 1, !.event_seq = 0, !.route = route, !.progress = 0,
              !.status = "driving", !.resume_at = Never]

\* _end_trip: refuelling happens only here.
EndTrip(s, now) ==
    UNION {{[s EXCEPT !.status = "parked", !.resume_at = now + rest, !.fuel = f] :
               f \in IF NeedsFuel(s.fuel) THEN Refilling ELSE {s.fuel}} : rest \in Rests}

Burnt(s, distance) ==
    IF s.fuel > distance * Consumption THEN s.fuel - distance * Consumption ELSE 0

DriveRefuelling(s, distance) ==   \* faulty variant: a stop for fuel during the trip
    LET low == NeedsFuel(Burnt(s, distance)) IN
    [s EXCEPT !.progress = @ + distance, !.odometer = @ + distance,
              !.fuel = IF low THEN Capacity ELSE Burnt(s, distance)]
\* tick, the physics: the vehicle moves and burns fuel.
Drive(s, distance) ==
    [s EXCEPT !.progress = @ + distance, !.odometer = @ + distance,
              !.fuel = Burnt(s, distance)]

\* deterministic_event_id: a hash of the three, taken to be injective.
EventIdOf(vehicle, trip, sequence) == <<vehicle, trip, sequence>>

\* TelemetryEvent, of a fleet with these names.
Readings(names) ==
    [event_id : names \X Nat \X Nat, event_time : Nat, speed : Speeds,
     fuel_level : 0..Capacity, odometer_km : Nat]

\* The reading of a moved vehicle.
Reading(vehicle, s, now, speed) ==
    [event_id |-> EventIdOf(vehicle, s.trip_seq, s.event_seq), event_time |-> now,
     speed |-> speed, fuel_level |-> s.fuel, odometer_km |-> s.odometer]

TripOver(s) == s.progress >= s.route \/ s.fuel <= 0

Resting(s, now) == s.status = "parked" /\ s.resume_at # Never /\ now < s.resume_at

\* tick: what a driving vehicle may become, and the reading it emits.
Driven(vehicle, s, now, dt) ==
    UNION {LET moved == Drive(s, speed * dt)
               next  == [moved EXCEPT !.event_seq = @ + 1]
           IN {[state |-> t, event |-> Reading(vehicle, moved, now, speed)] :
                   t \in IF TripOver(next) THEN EndTrip(next, now) ELSE {next}} :
           speed \in Speeds}

Tick(vehicle, s, now, dt) ==
    IF Resting(s, now) THEN {[state |-> s, event |-> NoEvent]}
    ELSE IF s.status = "parked"
         THEN UNION {Driven(vehicle, StartTrip(s, route), now, dt) : route \in Routes}
         ELSE Driven(vehicle, s, now, dt)
=============================================================================
