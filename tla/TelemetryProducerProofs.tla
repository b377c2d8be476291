------------------------ MODULE TelemetryProducerProofs ------------------------
(***************************************************************************)
(* Proofs about TelemetryProducer, for any fleet, route, delay, number of  *)
(* ticks, queue and number of failed deliveries.                           *)
(***************************************************************************)
EXTENDS TelemetryProducer, FunctionTheorems, FiniteSetTheorems, WellFoundedInduction, TLAPS

-----------------------------------------------------------------------------
(* Counting the elements of a sequence.                                    *)

\* A count of positions is a number, and none of an empty sequence.
LEMMA TallyType ==
    ASSUME NEW T, NEW s \in Seq(T), NEW S
    PROVE  /\ Tally(s, S) \in Nat
           /\ IsFiniteSet({k \in 1..Len(s) : s[k] \in S})
<1>1. Len(s) \in Nat
    OBVIOUS
<1>2. IsFiniteSet(1..Len(s))
    BY <1>1, FS_Interval
<1>3. {k \in 1..Len(s) : s[k] \in S} \in SUBSET (1..Len(s))
    OBVIOUS
<1>4. IsFiniteSet({k \in 1..Len(s) : s[k] \in S})
    BY <1>2, <1>3, FS_Subset
<1> QED
    BY <1>4, FS_CardinalityType DEF Tally

LEMMA TallyEmpty == ASSUME NEW S PROVE Tally(<< >>, S) = 0
<1>1. {k \in 1..Len(<< >>) : << >>[k] \in S} = {}
    OBVIOUS
<1> QED
    BY <1>1, FS_EmptySet DEF Tally

\* The count of a concatenation is the sum of the counts.
LEMMA TallyConcat ==
    ASSUME NEW T, NEW s \in Seq(T), NEW t \in Seq(T), NEW S
    PROVE  Tally(s \o t, S) = Tally(s, S) + Tally(t, S)
<1> DEFINE A == {k \in 1..Len(s) : s[k] \in S}
           B == {k \in 1..Len(t) : t[k] \in S}
           C == {k \in 1..Len(s \o t) : (s \o t)[k] \in S}
           D == {k \in 1..Len(s \o t) : k > Len(s) /\ (s \o t)[k] \in S}
           f == [k \in B |-> k + Len(s)]
<1>1. /\ Len(s) \in Nat /\ Len(t) \in Nat /\ Len(s \o t) = Len(s) + Len(t)
      /\ \A k \in 1..Len(s) : (s \o t)[k] = s[k]
      /\ \A k \in 1..Len(t) : (s \o t)[k + Len(s)] = t[k]
    OBVIOUS
<1>2. C = A \union D /\ A \intersect D = {}
    BY <1>1
<1>3. IsFiniteSet(A) /\ IsFiniteSet(B)
    BY TallyType
<1>4. f \in [B -> D]
    BY <1>1
<1>5. \A a, b \in B : f[a] = f[b] => a = b
    BY <1>1
<1>6. \A d \in D : \E b \in B : f[b] = d
  <2> TAKE d \in D
  <2>1. d - Len(s) \in 1..Len(t) /\ (d - Len(s)) + Len(s) = d
      BY <1>1
  <2>2. d - Len(s) \in B
      BY <2>1, <1>1
  <2>3. f[d - Len(s)] = d
      BY <2>1, <2>2
  <2> QED
      BY <2>2, <2>3
<1>7. f \in Bijection(B, D)
    BY <1>4, <1>5, <1>6, Fun_IsBij
<1>8. IsFiniteSet(D) /\ Cardinality(D) = Cardinality(B)
    BY <1>3, <1>7, FS_Bijection, Fun_ExistsBij
<1>9. Cardinality(A \union D) = Cardinality(A) + Cardinality(D) - Cardinality(A \intersect D)
    BY <1>3, <1>8, FS_Union
<1>10. /\ Cardinality(A) \in Nat /\ Cardinality(D) \in Nat /\ Cardinality(A \intersect D) = 0
    BY <1>2, <1>3, <1>8, FS_CardinalityType, FS_EmptySet
<1>11. Tally(s, S) = Cardinality(A) /\ Tally(t, S) = Cardinality(B) /\ Tally(s \o t, S) = Cardinality(C)
    BY DEF Tally
<1> HIDE DEF A, B, C, D, f
<1> QED
    BY <1>2, <1>8, <1>9, <1>10, <1>11

Worth(e, S) == IF e \in S THEN 1 ELSE 0

LEMMA TallyOne ==
    ASSUME NEW e, NEW S PROVE Tally(<<e>>, S) = Worth(e, S)
<1>1. CASE e \in S
  <2>1. {k \in 1..Len(<<e>>) : <<e>>[k] \in S} = {1}
      BY <1>1
  <2> QED
      BY <1>1, <2>1, FS_Singleton DEF Tally, Worth
<1>2. CASE e \notin S
  <2>1. {k \in 1..Len(<<e>>) : <<e>>[k] \in S} = {}
      BY <1>2
  <2> QED
      BY <1>2, <2>1, FS_EmptySet DEF Tally, Worth
<1> QED
    BY <1>1, <1>2

LEMMA TallyTwo ==
    ASSUME NEW T, NEW e \in T, NEW S PROVE Tally(<<e, e>>, S) = 2 * Worth(e, S)
<1> DEFINE one == <<e>>
<1>1. <<e, e>> = one \o one
    OBVIOUS
<1>2. one \in Seq(T)
    OBVIOUS
<1>3. Tally(one, S) = Worth(e, S)
    BY TallyOne
<1> HIDE DEF one
<1>4. Tally(one \o one, S) = Worth(e, S) + Worth(e, S)
    BY <1>2, <1>3, TallyConcat
<1>5. Tally(<<e, e>>, S) = Tally(one \o one, S)
    BY <1>1
<1>6. Worth(e, S) \in Nat
    BY DEF Worth
<1> QED
    BY <1>4, <1>5, <1>6

\* Appending an element, and taking the first one off.
LEMMA TallyAppend ==
    ASSUME NEW T, NEW s \in Seq(T), NEW e \in T, NEW S
    PROVE  /\ Tally(Append(s, e), S) = Tally(s, S) + Worth(e, S)
           /\ Elements(Append(s, e)) = Elements(s) \union {e}
<1> DEFINE one == <<e>>
<1>1. Append(s, e) = s \o one /\ one \in Seq(T) /\ Tally(one, S) = Worth(e, S)
    BY TallyOne
<1> HIDE DEF one
<1>2. Tally(Append(s, e), S) = Tally(s, S) + Worth(e, S)
    BY <1>1, TallyConcat
<1>3. /\ Len(s) \in Nat /\ Len(Append(s, e)) = Len(s) + 1
      /\ \A k \in 1..Len(s) : Append(s, e)[k] = s[k]
      /\ Append(s, e)[Len(s) + 1] = e
    OBVIOUS
<1>4. 1..(Len(s) + 1) = 1..Len(s) \union {Len(s) + 1}
    BY <1>3
<1>5. Elements(Append(s, e)) = Elements(s) \union {e}
    BY <1>3, <1>4 DEF Elements
<1> QED
    BY <1>2, <1>5

LEMMA TallyHead ==
    ASSUME NEW T, NEW s \in Seq(T), s # << >>, NEW S
    PROVE  /\ Head(s) \in T /\ Tail(s) \in Seq(T)
           /\ Tally(s, S) = Worth(Head(s), S) + Tally(Tail(s), S)
           /\ Elements(s) = {Head(s)} \union Elements(Tail(s))
<1> DEFINE one == <<Head(s)>>
<1>1. /\ Head(s) \in T /\ Tail(s) \in Seq(T) /\ one \in Seq(T)
      /\ s = one \o Tail(s)
    OBVIOUS
<1>2. Tally(one, S) = Worth(Head(s), S)
    BY TallyOne
<1> HIDE DEF one
<1>9. Tally(s, S) = Worth(Head(s), S) + Tally(Tail(s), S)
  <2>1. one \in Seq(T) /\ Tail(s) \in Seq(T)
      BY <1>1
  <2>2. Tally(one \o Tail(s), S) = Tally(one, S) + Tally(Tail(s), S)
      BY <2>1, TallyConcat
  <2>3. s = one \o Tail(s)
      BY <1>1
  <2> QED
      BY <2>2, <2>3, <1>2
<1>3. /\ Len(s) \in Nat \ {0} /\ Len(Tail(s)) = Len(s) - 1 /\ Head(s) = s[1]
      /\ \A k \in 1..Len(Tail(s)) : Tail(s)[k] = s[k + 1]
    OBVIOUS
<1>4. ASSUME NEW k \in 2..Len(s)
      PROVE  k - 1 \in 1..Len(Tail(s)) /\ Tail(s)[k - 1] = s[k]
    BY <1>3
<1>5. \A k \in 1..Len(Tail(s)) : k + 1 \in 2..Len(s)
    BY <1>3
<1>6. 1 \in 1..Len(s) /\ 1..Len(s) = {1} \union 2..Len(s)
    BY <1>3
<1>7. Elements(Tail(s)) = {s[k] : k \in 2..Len(s)}
    BY <1>3, <1>4, <1>5 DEF Elements
<1>8. Elements(s) = {Head(s)} \union Elements(Tail(s))
    BY <1>3, <1>6, <1>7 DEF Elements
<1> QED
    BY <1>1, <1>8, <1>9

LEMMA ElementsConcat ==
    ASSUME NEW T, NEW s \in Seq(T), NEW t \in Seq(T)
    PROVE  Elements(s \o t) = Elements(s) \union Elements(t)
<1>1. /\ Len(s) \in Nat /\ Len(t) \in Nat /\ Len(s \o t) = Len(s) + Len(t)
      /\ \A k \in 1..Len(s) : k \in 1..Len(s \o t) /\ (s \o t)[k] = s[k]
      /\ \A k \in 1..Len(t) : k + Len(s) \in 1..Len(s \o t) /\ (s \o t)[k + Len(s)] = t[k]
    OBVIOUS
<1>2. ASSUME NEW k \in 1..Len(s \o t), k > Len(s)
      PROVE  k - Len(s) \in 1..Len(t) /\ (s \o t)[k] = t[k - Len(s)]
    BY <1>1, <1>2
<1>3. Elements(s \o t) \subseteq Elements(s) \union Elements(t)
    BY <1>1, <1>2 DEF Elements
<1>4. Elements(s) \subseteq Elements(s \o t) /\ Elements(t) \subseteq Elements(s \o t)
    BY <1>1 DEF Elements
<1> QED
    BY <1>3, <1>4
-----------------------------------------------------------------------------
(* One vehicle.                                                            *)

LEMMA VehicleNumbers ==
    /\ Speeds \subseteq Nat /\ Rests \subseteq Nat /\ Routes \subseteq Nat \ {0}
    /\ Capacity \in Nat \ {0} /\ Consumption \in Nat \ {0}
BY VehicleAssumption DEF VehicleAssumption

\* A vehicle that drives burns what the distance takes, as far as it has it.
LEMMA DriveBurns ==
    ASSUME NEW s \in VehicleStates, NEW d \in Nat
    PROVE  /\ Drive(s, d) \in VehicleStates
           /\ Drive(s, d).status = s.status /\ Drive(s, d).trip_seq = s.trip_seq
           /\ Drive(s, d).event_seq = s.event_seq /\ Drive(s, d).odometer = s.odometer + d
           /\ Drive(s, d).fuel = Burnt(s, d)
<1>1. Capacity \in Nat /\ d * Consumption \in Nat
    BY VehicleNumbers
<1>2. s.fuel \in 0..Capacity /\ s.progress \in Nat /\ s.odometer \in Nat
    BY DEF VehicleStates
<1>3. Burnt(s, d) \in 0..Capacity
    BY <1>1, <1>2 DEF Burnt
<1>4. s.progress + d \in Nat /\ s.odometer + d \in Nat
    BY <1>2
<1> QED
    BY <1>3, <1>4 DEF Drive, VehicleStates

\* A trip that ends leaves the vehicle parked.
LEMMA EndTripParks ==
    ASSUME NEW s \in VehicleStates, NEW now \in Nat, NEW t \in EndTrip(s, now)
    PROVE  /\ t \in VehicleStates /\ t.status = "parked"
           /\ t.trip_seq = s.trip_seq /\ t.event_seq = s.event_seq
<1>1. PICK rest \in Rests, f \in IF NeedsFuel(s.fuel) THEN Refilling ELSE {s.fuel} :
            t = [s EXCEPT !.status = "parked", !.resume_at = now + rest, !.fuel = f]
    BY DEF EndTrip
<1>2. f \in 0..Capacity
    BY <1>1 DEF Refilling, VehicleStates
<1>3. now + rest \in Nat
    BY VehicleNumbers
<1> QED
    BY <1>1, <1>2, <1>3 DEF VehicleStates

\* What a driving vehicle becomes within a tick, and the reading it emits.
LEMMA DrivenResult ==
    ASSUME NEW v \in VehicleNames, NEW s \in VehicleStates, s.status = "driving",
           NEW now \in Nat, NEW dt \in Nat, NEW next \in Driven(v, s, now, dt)
    PROVE  /\ next.state \in VehicleStates /\ next.event \in Readings(VehicleNames)
           /\ next.event.event_id = <<v, s.trip_seq, s.event_seq>>
           /\ next.event.event_time = now
           /\ next.state.trip_seq = s.trip_seq /\ next.state.event_seq = s.event_seq + 1
           /\ \E d \in Nat : /\ next.event.odometer_km = s.odometer + d
                             /\ next.event.fuel_level = Burnt(s, d)
           /\ next.state.status = "driving" =>
                  /\ next.state.fuel = next.event.fuel_level /\ next.state.fuel > 0
                  /\ next.state.odometer = next.event.odometer_km
<1>1. PICK speed \in Speeds :
        LET moved == Drive(s, speed * dt)
            after == [moved EXCEPT !.event_seq = @ + 1]
        IN \E t \in IF TripOver(after) THEN EndTrip(after, now) ELSE {after} :
               next = [state |-> t, event |-> Reading(v, moved, now, speed)]
    BY DEF Driven
<1> DEFINE d == speed * dt
           moved == Drive(s, d)
           after == [moved EXCEPT !.event_seq = @ + 1]
<1>2. PICK t \in IF TripOver(after) THEN EndTrip(after, now) ELSE {after} :
        next = [state |-> t, event |-> Reading(v, moved, now, speed)]
    BY <1>1
<1>3. d \in Nat
    BY VehicleNumbers
<1> HIDE DEF d
<1>4. /\ moved \in VehicleStates /\ moved.status = "driving"
      /\ moved.trip_seq = s.trip_seq /\ moved.event_seq = s.event_seq
      /\ moved.odometer = s.odometer + d /\ moved.fuel = Burnt(s, d)
    BY <1>3, DriveBurns
<1> HIDE DEF moved
<1>5. /\ after \in VehicleStates /\ after.status = "driving"
      /\ after.trip_seq = s.trip_seq /\ after.event_seq = s.event_seq + 1
      /\ after.odometer = s.odometer + d /\ after.fuel = Burnt(s, d)
    BY <1>4 DEF VehicleStates
<1> HIDE DEF after
<1>6. /\ t \in VehicleStates /\ t.trip_seq = s.trip_seq /\ t.event_seq = s.event_seq + 1
      /\ t.status = "driving" =>
             t.fuel = Burnt(s, d) /\ t.fuel > 0 /\ t.odometer = s.odometer + d
  <2>1. CASE TripOver(after)
      BY <1>2, <1>5, <2>1, EndTripParks
  <2>2. CASE ~TripOver(after)
      BY <1>2, <1>5, <2>2, VehicleNumbers DEF TripOver, VehicleStates
  <2> QED
      BY <2>1, <2>2
<1>7. /\ next.state = t /\ next.event.event_id = <<v, s.trip_seq, s.event_seq>>
      /\ next.event.event_time = now /\ next.event.odometer_km = s.odometer + d
      /\ next.event.fuel_level = Burnt(s, d)
    BY <1>2, <1>4 DEF Reading, EventIdOf
<1>8. next.event \in Readings(VehicleNames)
  <2>1. moved.trip_seq \in Nat /\ moved.event_seq \in Nat /\ moved.odometer \in Nat
        /\ moved.fuel \in 0..Capacity
      BY <1>4 DEF VehicleStates
  <2>2. EventIdOf(v, moved.trip_seq, moved.event_seq) \in VehicleNames \X Nat \X Nat
      BY <2>1 DEF EventIdOf
  <2>3. Reading(v, moved, now, speed) \in Readings(VehicleNames)
      BY <2>1, <2>2 DEF Reading, Readings
  <2> QED
      BY <1>2, <2>3
<1> QED
    BY <1>3, <1>6, <1>7, <1>8

\* A tick of a vehicle: it rests, or it moves on, on a new trip if it was parked.
Moved(v, s, now, next) ==
    LET t == next.state  e == next.event IN
    /\ t \in VehicleStates /\ e \in Readings(VehicleNames)
    /\ \E k \in Nat : e.event_id = <<v, t.trip_seq, k>> /\ t.event_seq = k + 1
    /\ e.event_time = now
    /\ \/ s.status = "parked" /\ t.trip_seq = s.trip_seq + 1
       \/ /\ s.status = "driving"
          /\ e.event_id = <<v, s.trip_seq, s.event_seq>>
          /\ t.trip_seq = s.trip_seq /\ t.event_seq = s.event_seq + 1
          /\ \E d \in Nat : e.odometer_km = s.odometer + d /\ e.fuel_level = Burnt(s, d)
    /\ t.status = "driving" =>
           t.fuel = e.fuel_level /\ t.fuel > 0 /\ t.odometer = e.odometer_km

LEMMA TickResult ==
    ASSUME NEW v \in VehicleNames, NEW s \in VehicleStates,
           NEW now \in Nat, NEW dt \in Nat, NEW next \in Tick(v, s, now, dt)
    PROVE  \/ next.state = s /\ next.event = NoEvent
           \/ Moved(v, s, now, next)
<1>1. CASE Resting(s, now)
    BY <1>1 DEF Tick
<1>2. CASE ~Resting(s, now) /\ s.status = "parked"
  <2>1. PICK route \in Routes : next \in Driven(v, StartTrip(s, route), now, dt)
      BY <1>2 DEF Tick
  <2> DEFINE trip == StartTrip(s, route)
  <2>5. route \in Nat /\ s.trip_seq \in Nat /\ s.trip_seq + 1 \in Nat
      BY VehicleNumbers DEF VehicleStates
  <2> DEFINE begun == [s EXCEPT !.trip_seq = s.trip_seq + 1, !.event_seq = 0, !.route = route]
  <2>8. /\ begun \in VehicleStates
        /\ begun.trip_seq = s.trip_seq + 1 /\ begun.event_seq = 0
    <3>1. begun \in VehicleStates
        BY <2>5 DEF VehicleStates
    <3>2. begun.trip_seq = s.trip_seq + 1 /\ begun.event_seq = 0
        BY DEF VehicleStates
    <3> QED
        BY <3>1, <3>2
  <2>9. trip = [begun EXCEPT !.progress = 0, !.status = "driving", !.resume_at = Never]
      BY DEF StartTrip
  <2> HIDE DEF begun, trip
  <2>2. /\ trip \in VehicleStates /\ trip.status = "driving"
        /\ trip.trip_seq = s.trip_seq + 1 /\ trip.event_seq = 0
      BY <2>8, <2>9 DEF VehicleStates
  <2>3. next \in Driven(v, trip, now, dt)
      BY <2>1 DEF trip
  <2>4. /\ next.state \in VehicleStates /\ next.event \in Readings(VehicleNames)
        /\ next.event.event_id = <<v, trip.trip_seq, trip.event_seq>>
        /\ next.event.event_time = now
        /\ next.state.trip_seq = trip.trip_seq /\ next.state.event_seq = trip.event_seq + 1
        /\ next.state.status = "driving" =>
               /\ next.state.fuel = next.event.fuel_level /\ next.state.fuel > 0
               /\ next.state.odometer = next.event.odometer_km
      BY <2>2, <2>3, DrivenResult
  <2>7. next.event.event_id = <<v, next.state.trip_seq, 0>> /\ next.state.event_seq = 0 + 1
      BY <2>2, <2>4
  <2>6. next.state.trip_seq = s.trip_seq + 1
      BY <2>2, <2>4
  <2> QED
      BY <1>2, <2>4, <2>6, <2>7 DEF Moved
<1>3. CASE ~Resting(s, now) /\ s.status # "parked"
  <2>1. s.status = "driving" /\ s.event_seq \in Nat
      BY <1>3 DEF VehicleStates
  <2>2. next \in Driven(v, s, now, dt)
      BY <1>3 DEF Tick
  <2> QED
      BY <2>1, <2>2, DrivenResult DEF Moved
<1> QED
    BY <1>1, <1>2, <1>3
-----------------------------------------------------------------------------
(* The records of the run, wherever they are.                              *)

LEMMA GeneratorNumbers ==
    /\ TICK \in Nat \ {0} /\ Delays \subseteq Nat \ {0} /\ NoKind \notin Kinds
    /\ Len(Fleet) \in Nat /\ \A i \in 1..Len(Fleet) : Fleet[i] \in VehicleNames
    /\ \A i, j \in 1..Len(Fleet) : Fleet[i] = Fleet[j] => i = j
    /\ Ticks \in Nat /\ QueueCapacity \in Nat /\ MaxFailures \in Nat
BY GeneratorAssumption, ProducerAssumption
   DEF GeneratorAssumption, ProducerAssumption, VehicleNames

\* The sub-ticks of a vehicle fill the tick.
LEMMA SubTicksFill ==
    ASSUME NEW v
    PROVE  /\ Multiplier(v) \in Nat \ {0} /\ SubTick(v) \in Nat \ {0}
           /\ SubTick(v) * Multiplier(v) = TICK
<1>1. TICK \in Nat \ {0} /\ HotMultiplier \in Nat
    BY GeneratorAssumption DEF GeneratorAssumption
<1>2. CASE v = HotVehicle /\ HotMultiplier > 1
  <2>1. Multiplier(v) = HotMultiplier /\ SubTick(v) = TICK \div HotMultiplier
      BY <1>2 DEF Multiplier, SubTick
  <2>2. TICK % HotMultiplier = 0
      BY <1>2, GeneratorAssumption DEF GeneratorAssumption
  <2>3. /\ TICK \div HotMultiplier \in Int
        /\ TICK = HotMultiplier * (TICK \div HotMultiplier)
      BY <1>1, <1>2, <2>2
  <2> DEFINE q == TICK \div HotMultiplier
  <2>4. q \in Int /\ TICK = HotMultiplier * q
      BY <2>3
  <2> HIDE DEF q
  <2>5. q > 0 /\ q * HotMultiplier = TICK
      BY <1>1, <1>2, <2>4
  <2> QED
      BY <1>1, <1>2, <2>1, <2>4, <2>5 DEF q
<1>3. CASE ~(v = HotVehicle /\ HotMultiplier > 1)
  <2>1. Multiplier(v) = 1 /\ SubTick(v) = TICK
      BY <1>1, <1>3 DEF Multiplier, SubTick
  <2> QED
      BY <1>1, <2>1
<1> QED
    BY <1>2, <1>3

\* Where records are is all that the handling of a record changes.
LEMMA Queues ==
    ASSUME TypeOK
    PROVE  /\ topic \in Seq(Records) /\ lost \in Seq(Records)
           /\ queue \in Seq(Records) /\ out \in Seq(Records)
BY DEF TypeOK, GeneratorTypes

LEMMA IssuedAreRecords == ASSUME TypeOK PROVE Issued \subseteq Records
<1>1. ASSUME NEW s \in Seq(Records) PROVE Elements(s) \subseteq Records
    BY DEF Elements
<1>2. {p.record : p \in late_heap} \subseteq Records
    BY DEF TypeOK, GeneratorTypes, PendingLate
<1> QED
    BY <1>1, <1>2, Queues DEF Issued

LEMMA YieldedType == ASSUME TypeOK, NEW S PROVE Yielded(S) \in Nat
<1>1. Tally(topic, S) \in Nat /\ Tally(lost, S) \in Nat /\ Tally(queue, S) \in Nat /\ Tally(out, S) \in Nat
    BY Queues, TallyType
<1> QED
    BY <1>1 DEF Yielded

\* The first element of one sequence moved to the end of another.
LEMMA MoveKeeps ==
    ASSUME NEW a \in Seq(Records), a # << >>, NEW b \in Seq(Records), NEW S
    PROVE  /\ Head(a) \in Records /\ Tail(a) \in Seq(Records) /\ Append(b, Head(a)) \in Seq(Records)
           /\ Tally(a, S) \in Nat /\ Tally(b, S) \in Nat
           /\ Tally(Append(b, Head(a)), S) \in Nat /\ Tally(Tail(a), S) \in Nat
           /\ Tally(Append(b, Head(a)), S) + Tally(Tail(a), S) = Tally(a, S) + Tally(b, S)
           /\ Elements(Append(b, Head(a))) \union Elements(Tail(a)) = Elements(a) \union Elements(b)
<1>1. /\ Head(a) \in Records /\ Tail(a) \in Seq(Records)
      /\ Tally(a, S) = Worth(Head(a), S) + Tally(Tail(a), S)
      /\ Elements(a) = {Head(a)} \union Elements(Tail(a))
    BY TallyHead
<1>2. /\ Tally(Append(b, Head(a)), S) = Tally(b, S) + Worth(Head(a), S)
      /\ Elements(Append(b, Head(a))) = Elements(b) \union {Head(a)}
    BY <1>1, TallyAppend
<1>3. Append(b, Head(a)) \in Seq(Records)
    BY <1>1
<1>4. /\ Tally(a, S) \in Nat /\ Tally(b, S) \in Nat /\ Tally(Tail(a), S) \in Nat
      /\ Tally(Append(b, Head(a)), S) \in Nat /\ Worth(Head(a), S) \in Nat
    BY <1>1, <1>3, TallyType DEF Worth
<1> QED
    BY <1>1, <1>2, <1>3, <1>4

\* The client and the broker move records about, and neither add nor drop one.
LEMMA HandlingKeeps ==
    ASSUME TypeOK, Produce \/ Deliver \/ DeliveryFailed, NEW S
    PROVE  Issued' = Issued /\ Yielded(S)' = Yielded(S)
<1>1. Tally(topic, S) \in Nat /\ Tally(lost, S) \in Nat /\ Tally(queue, S) \in Nat /\ Tally(out, S) \in Nat
    BY Queues, TallyType
<1>2. CASE Produce
  <2>1. /\ out # << >> /\ queue' = Append(queue, Head(out)) /\ out' = Tail(out)
        /\ UNCHANGED <<topic, lost, late_heap>>
      BY <1>2 DEF Produce
  <2>2. /\ Tally(queue', S) \in Nat /\ Tally(out', S) \in Nat
        /\ Tally(queue', S) + Tally(out', S) = Tally(out, S) + Tally(queue, S)
        /\ Elements(queue') \union Elements(out') = Elements(out) \union Elements(queue)
      BY <2>1, Queues, MoveKeeps
  <2>5. Yielded(S)' = Tally(topic', S) + Tally(lost', S) + Tally(queue', S) + Tally(out', S)
      BY DEF Yielded
  <2>3. Yielded(S)' = Yielded(S)
    <3>1. Tally(topic', S) = Tally(topic, S) /\ Tally(lost', S) = Tally(lost, S)
        BY <2>1
    <3> QED
        BY ONLY <1>1, <2>2, <2>5, <3>1 DEF Yielded
  <2>4. Issued' = Issued
      BY <2>1, <2>2 DEF Issued
  <2> QED
      BY <2>3, <2>4
<1>3. CASE Deliver
  <2>1. /\ queue # << >> /\ topic' = Append(topic, Head(queue)) /\ queue' = Tail(queue)
        /\ UNCHANGED <<out, lost, late_heap>>
      BY <1>3 DEF Deliver, generatorVars
  <2>2. /\ Tally(topic', S) \in Nat /\ Tally(queue', S) \in Nat
        /\ Tally(topic', S) + Tally(queue', S) = Tally(queue, S) + Tally(topic, S)
        /\ Elements(topic') \union Elements(queue') = Elements(queue) \union Elements(topic)
      BY <2>1, Queues, MoveKeeps
  <2>5. Yielded(S)' = Tally(topic', S) + Tally(lost', S) + Tally(queue', S) + Tally(out', S)
      BY DEF Yielded
  <2>3. Yielded(S)' = Yielded(S)
    <3>1. Tally(out', S) = Tally(out, S) /\ Tally(lost', S) = Tally(lost, S)
        BY <2>1
    <3> QED
        BY ONLY <1>1, <2>2, <2>5, <3>1 DEF Yielded
  <2>4. Issued' = Issued
      BY <2>1, <2>2 DEF Issued
  <2> QED
      BY <2>3, <2>4
<1>4. CASE DeliveryFailed
  <2>1. /\ queue # << >> /\ lost' = Append(lost, Head(queue)) /\ queue' = Tail(queue)
        /\ UNCHANGED <<out, topic, late_heap>>
      BY <1>4 DEF DeliveryFailed, generatorVars
  <2>2. /\ Tally(lost', S) \in Nat /\ Tally(queue', S) \in Nat
        /\ Tally(lost', S) + Tally(queue', S) = Tally(queue, S) + Tally(lost, S)
        /\ Elements(lost') \union Elements(queue') = Elements(queue) \union Elements(lost)
      BY <2>1, Queues, MoveKeeps
  <2>5. Yielded(S)' = Tally(topic', S) + Tally(lost', S) + Tally(queue', S) + Tally(out', S)
      BY DEF Yielded
  <2>3. Yielded(S)' = Yielded(S)
    <3>1. Tally(out', S) = Tally(out, S) /\ Tally(topic', S) = Tally(topic, S)
        BY <2>1
    <3> QED
        BY ONLY <1>1, <2>2, <2>5, <3>1 DEF Yielded
  <2>4. Issued' = Issued
      BY <2>1, <2>2 DEF Issued
  <2> QED
      BY <2>3, <2>4
<1> QED
    BY <1>2, <1>3, <1>4
-----------------------------------------------------------------------------
(* A sub-tick of a vehicle: what its reading adds to the trips and the ids. *)

\* The arithmetic of a trip that goes on by a distance d.
LEMMA BurntOn ==
    ASSUME NEW s \in VehicleStates, NEW d \in Nat, NEW f \in Nat, NEW o \in Nat,
           s.odometer - o >= 0, f - s.fuel = Consumption * (s.odometer - o)
    PROVE  /\ s.odometer + d - o >= 0
           /\ Burnt(s, d) > 0 => f - Burnt(s, d) = Consumption * (s.odometer + d - o)
           /\ Burnt(s, d) = 0 => f <= Consumption * (s.odometer + d - o)
<1> DEFINE p == s.odometer - o
           more == d * Consumption
<1>1. s.odometer \in Nat /\ s.fuel \in Nat /\ Consumption \in Nat /\ Capacity \in Nat
    BY VehicleNumbers DEF VehicleStates
<1>2. p \in Nat /\ f - s.fuel = Consumption * p
    BY <1>1
<1>3. s.odometer + d - o = p + d
    BY <1>1
<1> HIDE DEF p
<1>4. Consumption * (p + d) = Consumption * p + more /\ more \in Nat /\ Consumption * p \in Nat
    BY <1>1, <1>2
<1>5. Burnt(s, d) = IF s.fuel > more THEN s.fuel - more ELSE 0
    BY DEF Burnt
<1> HIDE DEF more
<1>6. f = s.fuel + Consumption * p
    BY <1>1, <1>2, <1>4
<1>7. /\ Burnt(s, d) > 0 => f - Burnt(s, d) = Consumption * p + more
      /\ Burnt(s, d) = 0 => f <= Consumption * p + more
    BY <1>1, <1>4, <1>5, <1>6
<1>8. p + d >= 0
    BY <1>2
<1> QED
    BY <1>3, <1>4, <1>7, <1>8

LEMMA NextMomentType ==
    ASSUME TypeOK, NEW i \in 1..Len(Fleet)
    PROVE  NextMoment(i) \in Nat
<1>1. sim_time \in Nat /\ cursor[1] \in Nat /\ cursor[2] \in Nat
    BY GeneratorNumbers DEF TypeOK, GeneratorTypes
<1>2. SubTick(Fleet[i]) * cursor[2] \in Nat
    BY <1>1, SubTicksFill
<1> QED
    BY <1>1, <1>2, GeneratorNumbers DEF NextMoment

\* The cursor goes on by a sub-tick: the vehicle's next moment is later, the others' stay.
CursorGoesOn ==
    cursor' = IF cursor[2] + 1 < Multiplier(Fleet[cursor[1]])
              THEN <<cursor[1], cursor[2] + 1>> ELSE <<cursor[1] + 1, 0>>

LEMMA CursorMoves ==
    ASSUME TypeOK, InPhase, InVehicles, CursorGoesOn, UNCHANGED sim_time,
           NEW i, i = cursor[1]
    PROVE  /\ cursor' \in (0..Len(Fleet) + 1) \X Nat /\ cursor'[1] # 0
           /\ cursor'[1] \in 1..Len(Fleet) => cursor'[2] < Multiplier(Fleet[cursor'[1]])
           /\ i \in 1..Len(Fleet)
           /\ NextMoment(i) = sim_time + SubTick(Fleet[i]) * cursor[2]
           /\ NextMoment(i)' > NextMoment(i) /\ NextMoment(i)' \in Nat
           /\ \A j \in 1..Len(Fleet) : j # i => NextMoment(j)' = NextMoment(j)
<1> DEFINE c == cursor[2]
           m == Multiplier(Fleet[i])
           sub == SubTick(Fleet[i])
<1>1. /\ i \in 1..Len(Fleet) /\ c \in Nat /\ c < m /\ sim_time \in Nat /\ Len(Fleet) \in Nat
    BY GeneratorNumbers DEF TypeOK, GeneratorTypes, InPhase, InVehicles
<1>2. /\ m \in Nat \ {0} /\ sub \in Nat \ {0} /\ sub * m = TICK
    BY SubTicksFill
<1>3. NextMoment(i) = sim_time + sub * c
    BY <1>1 DEF NextMoment
<1>4. sub * (c + 1) = sub * c + sub /\ sub * c \in Nat
    BY <1>1, <1>2
<1>5. CASE c + 1 < m
  <2>1. cursor' = <<i, c + 1>> /\ cursor'[1] = i /\ cursor'[2] = c + 1
      BY <1>5 DEF CursorGoesOn
  <2>2. NextMoment(i)' = sim_time + sub * (c + 1)
      BY <1>1, <2>1 DEF NextMoment
  <2>3. NextMoment(i)' > NextMoment(i) /\ NextMoment(i)' \in Nat
      BY <1>1, <1>2, <1>3, <1>4, <2>2
  <2>4. \A j \in 1..Len(Fleet) : j # i => NextMoment(j)' = NextMoment(j)
      BY <1>1, <2>1 DEF NextMoment
  <2> QED
      BY <1>1, <1>3, <1>5, <2>1, <2>3, <2>4
<1>6. CASE ~(c + 1 < m)
  <2>1. cursor' = <<i + 1, 0>> /\ cursor'[1] = i + 1 /\ cursor'[2] = 0 /\ c + 1 = m
      BY <1>1, <1>2, <1>6 DEF CursorGoesOn
  <2>2. NextMoment(i)' = sim_time + TICK
      BY <1>1, <2>1 DEF NextMoment
  <2> DEFINE spent == sub * c
  <2>3. NextMoment(i)' > NextMoment(i) /\ NextMoment(i)' \in Nat
    <3>1. TICK = spent + sub /\ spent \in Nat /\ sub \in Nat \ {0} /\ sim_time \in Nat
        BY <1>1, <1>2, <1>4, <2>1
    <3>2. NextMoment(i) = sim_time + spent
        BY <1>3
    <3> HIDE DEF spent, sub
    <3> QED
        BY ONLY <2>2, <3>1, <3>2
  <2>4. ASSUME NEW j \in 1..Len(Fleet), j # i
        PROVE  NextMoment(j)' = NextMoment(j)
    <3>1. CASE j < i
        BY <1>1, <2>1, <3>1 DEF NextMoment
    <3>2. CASE j = i + 1
      <4>1. SubTick(Fleet[j]) \in Nat /\ SubTick(Fleet[j]) * 0 = 0
          BY SubTicksFill
      <4>2. NextMoment(j)' = sim_time + SubTick(Fleet[j]) * 0
          BY <1>1, <2>1, <3>2 DEF NextMoment
      <4>3. NextMoment(j) = sim_time
          BY <1>1, <3>2 DEF NextMoment
      <4> QED
          BY <1>1, <4>1, <4>2, <4>3
    <3>3. CASE j > i + 1
        BY <1>1, <2>1, <3>3 DEF NextMoment
    <3> QED
        BY <1>1, <2>4, <3>1, <3>2, <3>3
  <2>5. 0 < Multiplier(Fleet[cursor'[1]])
      BY SubTicksFill
  <2>6. cursor' \in (0..Len(Fleet) + 1) \X Nat /\ cursor'[1] # 0
      BY <1>1, <2>1
  <2> QED
      BY <1>1, <1>3, <2>1, <2>3, <2>4, <2>5, <2>6
<1> QED
    BY <1>5, <1>6
LEMMA RecordFields ==
    ASSUME NEW r \in Records
    PROVE  /\ r.reading \in Readings(VehicleNames)
           /\ r.reading.event_id[1] \in VehicleNames
           /\ r.reading.event_id[2] \in Nat /\ r.reading.event_id[3] \in Nat
           /\ r.reading.event_time \in Nat /\ r.reading.odometer_km \in Nat
           /\ r.reading.fuel_level \in Nat /\ r.reading.fuel_level \in 0..Capacity
           /\ r.reading.speed \in Nat
<1>1. r.reading \in Readings(VehicleNames)
    BY DEF Records
<1>2. /\ r.reading.event_id \in VehicleNames \X Nat \X Nat
      /\ r.reading.event_time \in Nat /\ r.reading.odometer_km \in Nat
      /\ r.reading.fuel_level \in 0..Capacity /\ r.reading.speed \in Speeds
    BY <1>1 DEF Readings
<1>3. r.reading.speed \in Nat
    BY <1>2, VehicleNumbers, Zenon
<1>5. r.reading.fuel_level \in Nat
    BY <1>2, VehicleNumbers
<1>4. /\ r.reading.event_id[1] \in VehicleNames
      /\ r.reading.event_id[2] \in Nat /\ r.reading.event_id[3] \in Nat
    BY <1>2
<1> QED
    BY <1>1, <1>2, <1>3, <1>4, <1>5

LEMMA VehicleFields ==
    ASSUME TypeOK, NEW v \in VehicleNames
    PROVE  /\ vehicles[v] \in VehicleStates
           /\ vehicles[v].trip_seq \in Nat /\ vehicles[v].event_seq \in Nat
           /\ vehicles[v].odometer \in Nat /\ vehicles[v].fuel \in Nat
<1>1. vehicles[v] \in VehicleStates
    BY DEF TypeOK, GeneratorTypes
<1>2. /\ vehicles[v].trip_seq \in Nat /\ vehicles[v].event_seq \in Nat
      /\ vehicles[v].odometer \in Nat /\ vehicles[v].fuel \in 0..Capacity
    BY <1>1 DEF VehicleStates
<1> QED
    BY <1>1, <1>2, VehicleNumbers

\* A vehicle has moved, and the records of the run are those of before, and at most one
\* more: of the reading it has emitted.
OneMore(v, next, rec) ==
    /\ vehicles' = [vehicles EXCEPT ![v] = next.state]
    /\ rec.reading = next.event
    /\ Issued' \subseteq Issued \union {rec}

\* The id of its reading is new.
LEMMA FreshId ==
    ASSUME TypeOK, IdsOfThePast, NEW v \in VehicleNames, NEW now, NEW next,
           Moved(v, vehicles[v], now, next), NEW r \in Issued
    PROVE  /\ r.reading.event_id # next.event.event_id
           /\ r.reading.event_id[1] = v /\ r.reading.event_id[2] = next.state.trip_seq =>
                  /\ vehicles[v].status = "driving"
                  /\ r.reading.event_id[2] = vehicles[v].trip_seq
                  /\ r.reading.event_id[3] < next.event.event_id[3]
<1> DEFINE id == r.reading.event_id
           s == vehicles[v]
           t == next.state
           e == next.event
<1>1. id[2] \in Nat /\ id[3] \in Nat
    BY IssuedAreRecords, RecordFields
<1>2. s.trip_seq \in Nat /\ s.event_seq \in Nat
    BY VehicleFields
<1>3. PICK k \in Nat : e.event_id = <<v, t.trip_seq, k>> /\ t.event_seq = k + 1
    BY DEF Moved
<1>4. \/ s.status = "parked" /\ t.trip_seq = s.trip_seq + 1
      \/ /\ s.status = "driving" /\ e.event_id = <<v, s.trip_seq, s.event_seq>>
         /\ t.trip_seq = s.trip_seq
    BY DEF Moved
<1>5. id[1] = v => id[2] < s.trip_seq \/ (id[2] = s.trip_seq /\ id[3] < s.event_seq)
    BY DEF IdsOfThePast
<1>6. id[1] = v /\ id[2] = t.trip_seq =>
          s.status = "driving" /\ id[2] = s.trip_seq /\ id[3] < s.event_seq
    BY <1>1, <1>2, <1>4, <1>5
<1>7. s.status = "driving" => e.event_id[3] = s.event_seq
    BY <1>4
<1>8. e.event_id[1] = v /\ e.event_id[2] = t.trip_seq
    BY <1>3
<1>9. id = e.event_id => FALSE
    BY <1>1, <1>2, <1>6, <1>7, <1>8
<1> QED
    BY <1>6, <1>7, <1>9

LEMMA MovedIds ==
    ASSUME TypeOK, IdsOfThePast, OneRecordPerId,
           NEW v \in VehicleNames, NEW now, NEW next, Moved(v, vehicles[v], now, next),
           NEW rec \in Records, OneMore(v, next, rec)
    PROVE  IdsOfThePast' /\ OneRecordPerId'
<1> DEFINE s == vehicles[v]
           t == next.state
<1>1. PICK k \in Nat : next.event.event_id = <<v, t.trip_seq, k>> /\ t.event_seq = k + 1
    BY DEF Moved
<1>2. /\ s.trip_seq \in Nat /\ s.event_seq \in Nat
      /\ \/ t.trip_seq = s.trip_seq + 1
         \/ t.trip_seq = s.trip_seq /\ t.event_seq = s.event_seq + 1
    BY VehicleFields DEF Moved
<1>3. vehicles'[v] = t /\ \A w \in VehicleNames : w # v => vehicles'[w] = vehicles[w]
    BY DEF OneMore, TypeOK, GeneratorTypes
<1>4. ASSUME NEW r \in Issued'
      PROVE  LET id == r.reading.event_id IN
             \/ id[2] < vehicles'[id[1]].trip_seq
             \/ id[2] = vehicles'[id[1]].trip_seq /\ id[3] < vehicles'[id[1]].event_seq
  <2> DEFINE id == r.reading.event_id
  <2>1. r \in Issued \/ r = rec
      BY <1>4 DEF OneMore
  <2>2. CASE r = rec
    <3>1. id = <<v, t.trip_seq, k>>
        BY <1>1, <2>2 DEF OneMore
    <3> QED
        BY <1>1, <1>3, <3>1
  <2>3. CASE r \in Issued
    <3>1. id[1] \in VehicleNames /\ id[2] \in Nat /\ id[3] \in Nat
        BY <2>3, IssuedAreRecords, RecordFields
    <3>2. \/ id[2] < vehicles[id[1]].trip_seq
          \/ id[2] = vehicles[id[1]].trip_seq /\ id[3] < vehicles[id[1]].event_seq
        BY <2>3 DEF IdsOfThePast
    <3>3. CASE id[1] = v
        BY <1>2, <1>3, <3>1, <3>2, <3>3
    <3>4. CASE id[1] # v
        BY <1>3, <3>1, <3>2, <3>4
    <3> QED
        BY <3>3, <3>4
  <2> QED
      BY <2>1, <2>2, <2>3
<1>5. IdsOfThePast'
    BY <1>4 DEF IdsOfThePast
<1>6. \A r \in Issued : r.reading.event_id # rec.reading.event_id
    BY FreshId DEF OneMore
<1>7. OneRecordPerId'
    BY <1>6 DEF OneRecordPerId, OneMore
<1> QED
    BY <1>5, <1>7

\* Its trip goes on as the vehicle itself does.
LEMMA MovedTrips ==
    ASSUME TypeOK, InPhase, InVehicles, IdsOfThePast, Dated, TripsCoherent, Underway,
           NEW i, i = cursor[1], NEW v \in VehicleNames, v = Fleet[i],
           CursorGoesOn, UNCHANGED sim_time,
           NEW now, now = sim_time + SubTick(v) * cursor[2],
           NEW next, Moved(v, vehicles[v], now, next),
           NEW rec \in Records, OneMore(v, next, rec)
    PROVE  Dated' /\ TripsCoherent' /\ Underway'
<1> DEFINE s == vehicles[v]
           t == next.state
           e == next.event
<1>1. /\ s \in VehicleStates /\ s.odometer \in Nat /\ s.fuel \in Nat
      /\ vehicles'[v] = t /\ \A w \in VehicleNames : w # v => vehicles'[w] = vehicles[w]
      /\ rec.reading = e /\ e.event_time = now
    BY VehicleFields DEF OneMore, TypeOK, GeneratorTypes, Moved
<1>2. PICK k \in Nat : e.event_id = <<v, t.trip_seq, k>>
    BY DEF Moved
<1>3. /\ i \in 1..Len(Fleet) /\ NextMoment(i) = now
      /\ NextMoment(i)' > NextMoment(i) /\ NextMoment(i)' \in Nat
      /\ \A j \in 1..Len(Fleet) : j # i => NextMoment(j)' = NextMoment(j)
    BY CursorMoves
<1>4. \A j \in 1..Len(Fleet) : NextMoment(j) \in Nat
    BY NextMomentType
\* A reading of the trip that goes on, and the vehicle before it moves.
<1>5. ASSUME NEW r \in Issued, r.reading.event_id[1] = v, r.reading.event_id[2] = t.trip_seq
      PROVE  /\ r.reading.event_time < now /\ r.reading.event_id[3] < k
             /\ BurntBetween(r.reading, e)
             /\ e.fuel_level > 0 =>
                    /\ e.odometer_km - r.reading.odometer_km >= 0
                    /\ r.reading.fuel_level - e.fuel_level
                           = Consumption * (e.odometer_km - r.reading.odometer_km)
  <2>1. /\ s.status = "driving" /\ r.reading.event_id[2] = s.trip_seq
        /\ r.reading.event_id[3] < e.event_id[3]
      BY <1>5, FreshId
  <2>2. PICK d \in Nat : e.odometer_km = s.odometer + d /\ e.fuel_level = Burnt(s, d)
      BY <2>1 DEF Moved
  <2>3. /\ s.odometer - r.reading.odometer_km >= 0
        /\ r.reading.fuel_level - s.fuel = Consumption * (s.odometer - r.reading.odometer_km)
      BY <1>5, <2>1 DEF Underway
  <2>4. r.reading.fuel_level \in Nat /\ r.reading.odometer_km \in Nat
      BY IssuedAreRecords, RecordFields
  <2>5. Burnt(s, d) \in Nat
      BY <1>1, VehicleNumbers DEF Burnt
  <2> DEFINE o == r.reading.odometer_km
             f == r.reading.fuel_level
  <2>6. /\ s.odometer + d - o >= 0
        /\ Burnt(s, d) > 0 => f - Burnt(s, d) = Consumption * (s.odometer + d - o)
        /\ Burnt(s, d) = 0 => f <= Consumption * (s.odometer + d - o)
      BY <1>1, <2>3, <2>4, BurntOn
  <2>7. r.reading.event_time < now
      BY <1>3, <1>5 DEF Dated
  <2>8. r.reading.event_id[3] < k
      BY <1>2, <2>1
  <2>9. Burnt(s, d) = 0 \/ Burnt(s, d) > 0
      BY <2>5
  <2>10. e.odometer_km - o = s.odometer + d - o
      BY <1>1, <2>2, <2>4
  <2>11. BurntBetween(r.reading, e)
      BY <2>2, <2>6, <2>9, <2>10 DEF BurntBetween
  <2>12. e.fuel_level > 0 =>
             /\ e.odometer_km - o >= 0
             /\ f - e.fuel_level = Consumption * (e.odometer_km - o)
      BY <2>2, <2>6, <2>10
  <2> QED
      BY <2>7, <2>8, <2>11, <2>12
<1>6. Issued \subseteq Records /\ Issued' \subseteq Issued \union {rec}
    BY IssuedAreRecords DEF OneMore
<1>7. Dated'
  <2> SUFFICES ASSUME NEW r \in Issued', NEW j \in 1..Len(Fleet),
                      r.reading.event_id[1] = Fleet[j]
               PROVE  r.reading.event_time < NextMoment(j)'
      BY DEF Dated
  <2>1. CASE r = rec
    <3>1. Fleet[j] = Fleet[i]
        BY <1>1, <1>2, <2>1
    <3>2. j = i
        BY <1>3, <3>1, GeneratorNumbers
    <3> QED
        BY <1>1, <1>3, <2>1, <3>2
  <2>2. CASE r \in Issued
    <3>1. r.reading.event_time < NextMoment(j) /\ r.reading.event_time \in Nat
        BY <1>6, <2>2, RecordFields DEF Dated
    <3>2. CASE j = i
      <4>1. /\ r.reading.event_time < NextMoment(i) /\ NextMoment(i)' > NextMoment(i)
            /\ NextMoment(i) \in Nat /\ NextMoment(i)' \in Nat
          BY <1>3, <1>4, <3>1, <3>2
      <4> QED
          BY <3>1, <3>2, <4>1
    <3> QED
        BY <1>3, <3>1, <3>2
  <2> QED
      BY <1>6, <2>1, <2>2
<1>8. TripsCoherent'
  <2> SUFFICES ASSUME NEW x \in Issued', NEW y \in Issued',
                      SameTripBefore(x.reading, y.reading)
               PROVE  /\ x.reading.event_time < y.reading.event_time
                      /\ BurntBetween(x.reading, y.reading)
      BY DEF TripsCoherent, Coherent
  <2>1. CASE x \in Issued /\ y \in Issued
      BY <2>1 DEF TripsCoherent, Coherent
  <2>2. CASE x \in Issued /\ y = rec
    <3>1. x.reading.event_id[1] = v /\ x.reading.event_id[2] = t.trip_seq
        BY <1>1, <1>2, <2>2 DEF SameTripBefore
    <3> QED
        BY <1>1, <1>5, <2>2, <3>1
  <2>3. CASE x = rec /\ y \in Issued
    <3>1. /\ y.reading.event_id[1] = v /\ y.reading.event_id[2] = t.trip_seq
          /\ k < y.reading.event_id[3] /\ y.reading.event_id[3] \in Nat
        BY <1>1, <1>2, <1>6, <2>3, RecordFields DEF SameTripBefore
    <3> QED
        BY <1>5, <2>3, <3>1
  <2>4. CASE x = rec /\ y = rec
      BY <1>1, <1>2, <2>4 DEF SameTripBefore
  <2> QED
      BY <1>6, <2>1, <2>2, <2>3, <2>4
<1>9. Underway'
  <2> SUFFICES ASSUME NEW w \in VehicleNames, vehicles'[w].status = "driving"
               PROVE  /\ vehicles'[w].fuel > 0
                      /\ \A r \in Issued' :
                          LET distance == vehicles'[w].odometer - r.reading.odometer_km IN
                          r.reading.event_id[1] = w
                              /\ r.reading.event_id[2] = vehicles'[w].trip_seq =>
                              /\ distance >= 0
                              /\ r.reading.fuel_level - vehicles'[w].fuel
                                     = Consumption * distance
      BY DEF Underway
  <2>1. CASE w # v
    <3>1. \A r \in Issued' : r.reading.event_id[1] = w => r \in Issued
        BY <1>1, <1>2, <1>6, <2>1
    <3>2. vehicles'[w] = vehicles[w]
        BY <1>1, <2>1
    <3> QED
        BY <3>1, <3>2 DEF Underway
  <2>2. CASE w = v
    <3>1. /\ t.fuel = e.fuel_level /\ t.fuel > 0 /\ t.odometer = e.odometer_km
          /\ e.fuel_level \in Nat /\ e.odometer_km \in Nat
        BY <1>1, <2>2, RecordFields DEF Moved
    <3>2. ASSUME NEW r \in Issued', r.reading.event_id[1] = v, r.reading.event_id[2] = t.trip_seq
          PROVE  /\ t.odometer - r.reading.odometer_km >= 0
                 /\ r.reading.fuel_level - t.fuel
                        = Consumption * (t.odometer - r.reading.odometer_km)
      <4>1. CASE r \in Issued
          BY <1>5, <3>1, <3>2, <4>1
      <4>2. CASE r = rec
        <5>1. Consumption * 0 = 0
            BY VehicleNumbers
        <5>2. t.odometer - r.reading.odometer_km = 0 /\ r.reading.fuel_level - t.fuel = 0
            BY <1>1, <3>1, <4>2
        <5> QED
            BY <5>1, <5>2
      <4> QED
          BY <1>6, <4>1, <4>2
    <3> QED
        BY <1>1, <2>2, <3>1, <3>2
  <2> QED
      BY <2>1, <2>2
<1> QED
    BY <1>7, <1>8, <1>9
-----------------------------------------------------------------------------
(* The statistics.                                                         *)

\* The generator yields when its consumer has taken everything.
LEMMA Yields ==
    ASSUME TypeOK, out = << >>, UNCHANGED <<topic, lost, queue>>, NEW S
    PROVE  /\ Yielded(S) \in Nat
           /\ Yielded(S)' = Yielded(S) + Tally(out', S)
           /\ Issued = Elements(topic) \union Elements(lost) \union Elements(queue)
                           \union {p.record : p \in late_heap}
           /\ Issued' = Elements(topic) \union Elements(lost) \union Elements(queue)
                            \union Elements(out') \union {p.record : p \in late_heap'}
<1>1. Tally(topic, S) \in Nat /\ Tally(lost, S) \in Nat /\ Tally(queue, S) \in Nat
    BY Queues, TallyType
<1>2. Tally(out, S) = 0
    BY TallyEmpty
<1>3. Yielded(S) \in Nat
    BY YieldedType
<1>4. Yielded(S)' = Tally(topic, S) + Tally(lost, S) + Tally(queue, S) + Tally(out', S)
    BY DEF Yielded
<1>5. Yielded(S) = Tally(topic, S) + Tally(lost, S) + Tally(queue, S) + Tally(out, S)
    BY DEF Yielded
<1>6. Yielded(S)' = Yielded(S) + Tally(out', S)
    BY ONLY <1>1, <1>2, <1>4, <1>5
<1>7. Elements(<< >>) = {}
    BY DEF Elements
<1>8. Issued = Elements(topic) \union Elements(lost) \union Elements(queue)
                   \union {p.record : p \in late_heap}
    BY <1>7 DEF Issued
<1>9. Issued' = Elements(topic) \union Elements(lost) \union Elements(queue)
                    \union Elements(out') \union {p.record : p \in late_heap'}
    BY DEF Issued
<1> QED
    BY <1>3, <1>6, <1>8, <1>9

LEMMA OutOne ==
    ASSUME NEW rec \in Records, NEW S
    PROVE  /\ <<rec>> \in Seq(Records) /\ <<rec, rec>> \in Seq(Records)
           /\ Elements(<<rec>>) = {rec} /\ Elements(<<rec, rec>>) = {rec}
           /\ Tally(<<rec>>, S) = Worth(rec, S) /\ Tally(<<rec, rec>>, S) = 2 * Worth(rec, S)
<1>1. Elements(<<rec>>) = {rec}
    BY DEF Elements
<1>2. Elements(<<rec, rec>>) = {rec}
    BY DEF Elements
<1>3. Tally(<<rec>>, S) = Worth(rec, S)
    BY TallyOne
<1>4. Tally(<<rec, rec>>, S) = 2 * Worth(rec, S)
    BY TallyTwo
<1> QED
    BY <1>1, <1>2, <1>3, <1>4

\* What a record counts for.
LEMMA WorthOf ==
    ASSUME NEW rec \in Records
    PROVE  /\ Worth(rec, ValidRecords) = IF rec.kind = NoKind THEN 1 ELSE 0
           /\ Worth(rec, Records \ ValidRecords) = IF rec.kind = NoKind THEN 0 ELSE 1
           /\ Worth(rec, LateRecords) = IF rec.late THEN 1 ELSE 0
BY DEF Worth, ValidRecords, LateRecords, IsValid

\* A record with a new id is one more clean id if it is valid, and none otherwise.
LEMMA CleanIdsGrow ==
    ASSUME Booked, NEW rec \in Records, Issued' = Issued \union {rec},
           \A r \in Issued : r.reading.event_id # rec.reading.event_id
    PROVE  /\ IsFiniteSet(CleanIds')
           /\ Cardinality(CleanIds) \in Nat
           /\ Cardinality(CleanIds') =
                  Cardinality(CleanIds) + (IF rec.kind = NoKind THEN 1 ELSE 0)
<1>1. IsFiniteSet(CleanIds)
    BY DEF Booked
<1>2. CleanIds' = {r.reading.event_id : r \in (Issued \union {rec}) \intersect ValidRecords}
    BY DEF CleanIds
<1>3. CASE rec.kind = NoKind
  <2>1. CleanIds' = CleanIds \union {rec.reading.event_id}
      BY <1>2, <1>3 DEF CleanIds, ValidRecords, IsValid
  <2>2. rec.reading.event_id \notin CleanIds
      BY DEF CleanIds
  <2> QED
      BY <1>1, <1>3, <2>1, <2>2, FS_AddElement, FS_CardinalityType
<1>4. CASE rec.kind # NoKind
  <2>1. CleanIds' = CleanIds
      BY <1>2, <1>4 DEF CleanIds, ValidRecords, IsValid
  <2> QED
      BY <1>1, <1>4, <2>1, FS_CardinalityType
<1> QED
    BY <1>3, <1>4

\* The statistics as Process passes them on.
Counted(counted) ==
    /\ counted \in InjectionStats
    /\ counted.clean = stats.clean /\ counted.duplicates = stats.duplicates
    /\ counted.late = stats.late /\ counted.invalid = stats.invalid

\* The state of the generator after an injection, the vehicles apart.
Injected(reading) ==
    /\ stats' \in InjectionStats /\ counter' \in Nat /\ out' \in Seq(Records)
    /\ late_heap' \subseteq PendingLate /\ IsFiniteSet(late_heap')
    /\ Cardinality(late_heap') <= counter' /\ counter' = stats'.late
    /\ Booked'
    /\ \E rec \in Records : rec.reading = reading /\ Issued' \subseteq Issued \union {rec}

LEMMA StatsFields ==
    ASSUME TypeOK
    PROVE  /\ stats \in InjectionStats /\ stats.clean \in Nat /\ stats.duplicates \in Nat
           /\ stats.late \in Nat /\ stats.invalid \in Nat /\ stats.hot_vehicle \in Nat
           /\ counter = stats.late /\ counter \in Nat
           /\ late_heap \subseteq PendingLate /\ IsFiniteSet(late_heap)
           /\ Cardinality(late_heap) \in Nat /\ Cardinality(late_heap) <= counter
<1>1. stats \in InjectionStats /\ counter \in Nat /\ late_heap \subseteq PendingLate
      /\ IsFiniteSet(late_heap)
    BY DEF TypeOK, GeneratorTypes
<1>2. /\ stats.clean \in Nat /\ stats.duplicates \in Nat
      /\ stats.late \in Nat /\ stats.invalid \in Nat /\ stats.hot_vehicle \in Nat
    BY <1>1 DEF InjectionStats
<1>3. Cardinality(late_heap) \in Nat
    BY <1>1, FS_CardinalityType
<1>4. counter = stats.late /\ Cardinality(late_heap) <= counter
    BY DEF TypeOK
<1> QED
    BY <1>1, <1>2, <1>3, <1>4

\* Two of the counts each one more.
LEMMA TwoCounts ==
    ASSUME NEW c \in InjectionStats,
           NEW both, both = [c EXCEPT !.clean = @ + 1, !.duplicates = @ + 1],
           NEW late, late = [c EXCEPT !.clean = @ + 1, !.late = @ + 1]
    PROVE  /\ both \in InjectionStats /\ both.clean = c.clean + 1
           /\ both.duplicates = c.duplicates + 1 /\ both.late = c.late
           /\ both.invalid = c.invalid
           /\ late \in InjectionStats /\ late.clean = c.clean + 1
           /\ late.duplicates = c.duplicates /\ late.late = c.late + 1
           /\ late.invalid = c.invalid
<1> DEFINE m == [c EXCEPT !.clean = c.clean + 1]
<1>1. /\ c.clean \in Nat /\ c.duplicates \in Nat /\ c.late \in Nat
      /\ c.invalid \in Nat /\ c.hot_vehicle \in Nat
    BY DEF InjectionStats
<1>2. /\ m \in InjectionStats /\ m.clean = c.clean + 1 /\ m.duplicates = c.duplicates
      /\ m.late = c.late /\ m.invalid = c.invalid
    BY <1>1 DEF InjectionStats
<1>3. /\ both = [m EXCEPT !.duplicates = c.duplicates + 1]
      /\ late = [m EXCEPT !.late = c.late + 1]
    OBVIOUS
<1> HIDE DEF m
<1>4. /\ both \in InjectionStats /\ both.clean = m.clean
      /\ both.duplicates = c.duplicates + 1 /\ both.late = m.late
      /\ both.invalid = m.invalid
    BY <1>1, <1>2, <1>3 DEF InjectionStats
<1>5. /\ late \in InjectionStats /\ late.clean = m.clean
      /\ late.duplicates = m.duplicates /\ late.late = c.late + 1
      /\ late.invalid = m.invalid
    BY <1>1, <1>2, <1>3 DEF InjectionStats
<1> QED
    BY <1>2, <1>4, <1>5

\* What the three injections have in common: a new reading, and nothing left to take.
NewReading(reading) ==
    /\ reading \in Readings(VehicleNames) /\ out = << >>
    /\ UNCHANGED <<topic, lost, queue, sim_time>>
    /\ \A r \in Issued : r.reading.event_id # reading.event_id

LEMMA InvalidBooks ==
    ASSUME TypeOK, Booked, NEW reading, NewReading(reading),
           NEW counted, Counted(counted), Invalid(reading, counted)
    PROVE  Injected(reading)
<1>1. PICK kind \in Kinds : out' = <<Record(reading, kind, FALSE)>>
    BY DEF Invalid
<1> DEFINE rec == Record(reading, kind, FALSE)
<1>2. /\ rec \in Records /\ rec.kind # NoKind /\ ~rec.late /\ rec.reading = reading
    BY GeneratorNumbers DEF NewReading, Record, Records
<1>3. out' = <<rec>> /\ UNCHANGED <<late_heap, counter>>
    BY <1>1 DEF Invalid
<1> HIDE DEF rec
<1>4. /\ stats' \in InjectionStats /\ stats'.clean = stats.clean
      /\ stats'.duplicates = stats.duplicates /\ stats'.late = stats.late
      /\ stats'.invalid = stats.invalid + 1
    BY StatsFields DEF Invalid, Counted, InjectionStats
<1>5. out = << >> /\ UNCHANGED <<topic, lost, queue>>
    BY DEF NewReading
<1>6. /\ out' \in Seq(Records) /\ Elements(out') = {rec}
      /\ \A S : Tally(out', S) = Worth(rec, S)
    BY <1>2, <1>3, OutOne
<1>7. Issued' = Issued \union {rec}
    BY <1>3, <1>5, <1>6, Yields
<1>8. /\ Yielded(ValidRecords)' = Yielded(ValidRecords)
      /\ Yielded(Records \ ValidRecords)' = Yielded(Records \ ValidRecords) + 1
      /\ Yielded(LateRecords)' = Yielded(LateRecords)
  <2>1. /\ Tally(out', ValidRecords) = 0 /\ Tally(out', Records \ ValidRecords) = 1
        /\ Tally(out', LateRecords) = 0
      BY <1>2, <1>6, WorthOf
  <2> QED
      BY <1>5, <2>1, Yields
<1>9. /\ IsFiniteSet(CleanIds') /\ Cardinality(CleanIds') = Cardinality(CleanIds)
    BY <1>2, <1>7, CleanIdsGrow DEF NewReading
<1>10. Booked'
    BY <1>3, <1>4, <1>8, <1>9, StatsFields DEF Booked, NewReading
<1> QED
    BY <1>2, <1>3, <1>4, <1>6, <1>7, <1>10, StatsFields DEF Injected

LEMMA SendCleanBooks ==
    ASSUME TypeOK, Booked, NEW reading, NewReading(reading),
           NEW counted, Counted(counted), SendClean(reading, counted)
    PROVE  Injected(reading)
<1> DEFINE rec == Record(reading, NoKind, FALSE)
<1>1. /\ rec \in Records /\ rec.kind = NoKind /\ ~rec.late /\ rec.reading = reading
    BY DEF NewReading, Record, Records
<1>2. /\ UNCHANGED <<late_heap, counter>>
      /\ \/ /\ out' = <<rec>>
            /\ stats' = [counted EXCEPT !.clean = @ + 1]
         \/ /\ out' = <<rec, rec>>
            /\ stats' = [counted EXCEPT !.clean = @ + 1, !.duplicates = @ + 1]
    BY DEF SendClean
<1> HIDE DEF rec
<1>3. PICK extra \in {0, 1} :
        /\ out' = IF extra = 0 THEN <<rec>> ELSE <<rec, rec>>
        /\ stats' = IF extra = 0 THEN [counted EXCEPT !.clean = @ + 1]
                    ELSE [counted EXCEPT !.clean = @ + 1, !.duplicates = @ + 1]
    BY <1>2
<1>4. /\ stats' \in InjectionStats /\ stats'.clean = stats.clean + 1
      /\ stats'.duplicates = stats.duplicates + extra /\ stats'.late = stats.late
      /\ stats'.invalid = stats.invalid
  <2>1. CASE extra = 0
      BY <1>3, <2>1, StatsFields DEF Counted, InjectionStats
  <2>2. CASE extra = 1
    <3>1. stats' = [counted EXCEPT !.clean = @ + 1, !.duplicates = @ + 1]
        BY <1>3, <2>2
    <3>2. /\ stats' \in InjectionStats /\ stats'.clean = counted.clean + 1
          /\ stats'.duplicates = counted.duplicates + 1 /\ stats'.late = counted.late
          /\ stats'.invalid = counted.invalid
        BY <3>1, TwoCounts DEF Counted
    <3> QED
        BY <2>2, <3>2 DEF Counted
  <2> QED
      BY <2>1, <2>2
<1>5. out = << >> /\ UNCHANGED <<topic, lost, queue>>
    BY DEF NewReading
<1>6. /\ out' \in Seq(Records) /\ Elements(out') = {rec}
      /\ \A S : Tally(out', S) = (1 + extra) * Worth(rec, S)
  <2>1. CASE extra = 0
    <3>1. out' = <<rec>>
        BY <1>3, <2>1
    <3>2. ASSUME NEW S PROVE Tally(out', S) = (1 + extra) * Worth(rec, S)
      <4>1. Tally(out', S) = Worth(rec, S)
          BY <1>1, <3>1, OutOne
      <4>2. (1 + extra) * Worth(rec, S) = Worth(rec, S)
          BY <2>1 DEF Worth
      <4> QED
          BY <4>1, <4>2
    <3>3. out' \in Seq(Records) /\ Elements(out') = {rec}
        BY <1>1, <3>1, OutOne
    <3> QED
        BY <3>2, <3>3
  <2>2. CASE extra = 1
    <3>1. out' = <<rec, rec>>
        BY <1>3, <2>2
    <3>2. ASSUME NEW S PROVE Tally(out', S) = (1 + extra) * Worth(rec, S)
      <4>1. Tally(out', S) = 2 * Worth(rec, S)
          BY <1>1, <3>1, OutOne
      <4>2. 1 + extra = 2
          BY <2>2
      <4> QED
          BY <4>1, <4>2
    <3>3. out' \in Seq(Records) /\ Elements(out') = {rec}
        BY <1>1, <3>1, OutOne
    <3> QED
        BY <3>2, <3>3
  <2> QED
      BY <2>1, <2>2
<1>7. Issued' = Issued \union {rec}
    BY <1>2, <1>5, <1>6, Yields
<1>8. /\ Yielded(ValidRecords)' = Yielded(ValidRecords) + 1 + extra
      /\ Yielded(Records \ ValidRecords)' = Yielded(Records \ ValidRecords)
      /\ Yielded(LateRecords)' = Yielded(LateRecords)
  <2>1. /\ Worth(rec, ValidRecords) = 1 /\ Worth(rec, Records \ ValidRecords) = 0
        /\ Worth(rec, LateRecords) = 0
      BY <1>1, WorthOf
  <2>2. /\ Tally(out', ValidRecords) = 1 + extra /\ Tally(out', Records \ ValidRecords) = 0
        /\ Tally(out', LateRecords) = 0
      BY <1>6, <2>1
  <2> QED
      BY <1>5, <2>2, Yields
<1>9. /\ IsFiniteSet(CleanIds') /\ Cardinality(CleanIds) \in Nat
      /\ Cardinality(CleanIds') = Cardinality(CleanIds) + 1
    BY <1>1, <1>7, CleanIdsGrow DEF NewReading
<1>10. Booked'
  <2>1. stats'.clean = Cardinality(CleanIds')
      BY <1>4, <1>9 DEF Booked
  <2>2. stats'.clean + stats'.duplicates = Yielded(ValidRecords)' + Cardinality(late_heap')
    <3>1. stats.clean + stats.duplicates = Yielded(ValidRecords) + Cardinality(late_heap)
        BY DEF Booked
    <3>2. Yielded(ValidRecords) \in Nat
        BY YieldedType
    <3> QED
        BY <1>2, <1>4, <1>8, <3>1, <3>2, StatsFields
  <2> QED
      BY <1>2, <1>4, <1>8, <1>9, <2>1, <2>2 DEF Booked, NewReading
<1> QED
    BY <1>1, <1>2, <1>4, <1>6, <1>7, <1>10, StatsFields DEF Injected

LEMMA ScheduleLateBooks ==
    ASSUME TypeOK, Booked, NEW reading, NewReading(reading),
           NEW counted, Counted(counted), ScheduleLate(reading, counted)
    PROVE  Injected(reading)
<1> DEFINE rec == Record(reading, NoKind, TRUE)
<1>1. /\ rec \in Records /\ rec.kind = NoKind /\ rec.late /\ rec.reading = reading
    BY DEF NewReading, Record, Records
<1>2. PICK delay \in Delays :
        late_heap' = late_heap \union
            {[release_at |-> sim_time + delay, sequence |-> counter, record |-> rec]}
    BY DEF ScheduleLate
<1> HIDE DEF rec
<1> DEFINE p == [release_at |-> sim_time + delay, sequence |-> counter, record |-> rec]
<1>3. /\ counter' = counter + 1 /\ out' = out
      /\ stats' = [counted EXCEPT !.clean = @ + 1, !.late = @ + 1]
    BY DEF ScheduleLate
<1>4. /\ stats' \in InjectionStats /\ stats'.clean = stats.clean + 1
      /\ stats'.duplicates = stats.duplicates /\ stats'.late = stats.late + 1
      /\ stats'.invalid = stats.invalid
  <2>1. /\ stats' \in InjectionStats /\ stats'.clean = counted.clean + 1
        /\ stats'.duplicates = counted.duplicates /\ stats'.late = counted.late + 1
        /\ stats'.invalid = counted.invalid
      BY <1>3, TwoCounts DEF Counted
  <2> QED
      BY <2>1 DEF Counted
<1>5. /\ out = << >> /\ UNCHANGED <<topic, lost, queue, sim_time>>
      /\ sim_time \in Nat /\ delay \in Nat \ {0} /\ TICK \in Nat \ {0}
    BY GeneratorNumbers DEF NewReading, TypeOK, GeneratorTypes
<1>6. /\ p \in PendingLate /\ p.release_at > sim_time - TICK /\ p.sequence = counter
      /\ p.record = rec
    BY <1>1, <1>5, StatsFields DEF PendingLate
<1>7. late_heap' = late_heap \union {p}
    BY <1>2
<1> HIDE DEF p
<1>8. p \notin late_heap
    BY <1>6, StatsFields DEF Booked
<1>9. /\ IsFiniteSet(late_heap') /\ Cardinality(late_heap') = Cardinality(late_heap) + 1
    BY <1>7, <1>8, StatsFields, FS_AddElement
<1>10. {q.record : q \in late_heap'} = {q.record : q \in late_heap} \union {rec}
    BY <1>6, <1>7
<1>11. Elements(out') = {}
    BY <1>3, <1>5 DEF Elements
<1>12. Issued' = Issued \union {rec}
    BY <1>5, <1>10, <1>11, Yields
<1>13. \A S : Tally(out', S) = 0
    BY <1>3, <1>5, TallyEmpty
<1>14. /\ Yielded(ValidRecords)' = Yielded(ValidRecords)
       /\ Yielded(Records \ ValidRecords)' = Yielded(Records \ ValidRecords)
       /\ Yielded(LateRecords)' = Yielded(LateRecords)
    BY <1>5, <1>13, Yields
<1>15. /\ IsFiniteSet(CleanIds') /\ Cardinality(CleanIds) \in Nat
       /\ Cardinality(CleanIds') = Cardinality(CleanIds) + 1
    BY <1>1, <1>12, CleanIdsGrow DEF NewReading
<1>16. Booked'
  <2>1. stats'.clean = Cardinality(CleanIds')
      BY <1>4, <1>15 DEF Booked
  <2>2. /\ stats'.clean + stats'.duplicates = Yielded(ValidRecords)' + Cardinality(late_heap')
        /\ stats'.late = Yielded(LateRecords)' + Cardinality(late_heap')
    <3>1. /\ stats.clean + stats.duplicates = Yielded(ValidRecords) + Cardinality(late_heap)
          /\ stats.late = Yielded(LateRecords) + Cardinality(late_heap)
        BY DEF Booked
    <3>2. Yielded(ValidRecords) \in Nat /\ Yielded(LateRecords) \in Nat
        BY YieldedType
    <3> QED
        BY <1>4, <1>9, <1>14, <3>1, <3>2, StatsFields
  <2>3. ASSUME NEW q \in late_heap'
        PROVE  /\ q.sequence < counter' /\ q.record.kind = NoKind /\ q.record.late
               /\ q.release_at > sim_time' - TICK
    <3>1. CASE q \in late_heap
      <4>1. /\ q.sequence < counter /\ q.record.kind = NoKind /\ q.record.late
            /\ q.release_at > sim_time - TICK /\ q.sequence \in Nat
          BY <3>1, StatsFields DEF Booked, PendingLate
      <4> QED
          BY <1>3, <1>5, <4>1, StatsFields
    <3>2. CASE q = p
        BY <1>1, <1>3, <1>5, <1>6, <3>2, StatsFields
    <3> QED
        BY <1>7, <2>3, <3>1, <3>2
  <2> QED
      BY <1>4, <1>14, <1>15, <2>1, <2>2, <2>3 DEF Booked
<1>17. /\ late_heap' \subseteq PendingLate /\ out' \in Seq(Records) /\ counter' \in Nat
       /\ counter' = stats'.late /\ Cardinality(late_heap') <= counter'
    BY <1>3, <1>4, <1>5, <1>6, <1>7, <1>9, StatsFields
<1> QED
    BY <1>1, <1>4, <1>9, <1>12, <1>16, <1>17 DEF Injected

LEMMA ProcessBooks ==
    ASSUME TypeOK, Booked, NEW reading, NewReading(reading), Process(reading)
    PROVE  Injected(reading)
<1> DEFINE counted == IF reading.event_id[1] = HotVehicle
                      THEN [stats EXCEPT !.hot_vehicle = @ + 1] ELSE stats
<1>1. Counted(counted)
    BY StatsFields DEF Counted, InjectionStats
<1>2. Invalid(reading, counted) \/ ScheduleLate(reading, counted) \/ SendClean(reading, counted)
    BY DEF Process
<1> HIDE DEF counted
<1> QED
    BY <1>1, <1>2, InvalidBooks, ScheduleLateBooks, SendCleanBooks
-----------------------------------------------------------------------------
(* The late buffer.                                                        *)

LEMMA SmallestOf ==
    ASSUME NEW S, S \subseteq Nat, S # {}
    PROVE  \E m \in S : \A x \in S : m <= x
<1> DEFINE R == OpToRel(<, Nat)
<1>1. IsWellFoundedOn(R, Nat)
    BY NatLessThanWellFounded
<1>2. \A x, y \in Nat : x < y => <<x, y>> \in R
    BY DEF OpToRel
<1> HIDE DEF R
<1>3. PICK m \in S : \A y \in S : ~(<<y, m>> \in R)
    BY <1>1, WFMin
<1>4. ASSUME NEW x \in S PROVE m <= x
  <2>1. m \in Nat /\ x \in Nat
      OBVIOUS
  <2>2. ~(x < m)
      BY <1>2, <1>3, <2>1
  <2> QED
      BY <2>1, <2>2
<1> QED
    BY <1>4

\* A heap that is not empty has a top, and nothing in it is due before the top.
LEMMA TopOfHeap ==
    ASSUME TypeOK, late_heap # {}
    PROVE  \E p \in NextLate : \A q \in late_heap : p.release_at <= q.release_at
<1>1. \A p \in late_heap : p.release_at \in Nat /\ p.sequence \in Nat
    BY StatsFields DEF PendingLate
<1> DEFINE A == {p.release_at : p \in late_heap}
<1>2. PICK m \in A : \A x \in A : m <= x
    BY <1>1, SmallestOf
<1> DEFINE due == {p \in late_heap : p.release_at = m}
           B == {p.sequence : p \in due}
<1>3. due # {}
    BY <1>2
<1>4. PICK n \in B : \A x \in B : n <= x
  <2>1. B \subseteq Nat /\ B # {}
      BY <1>1, <1>3
  <2> HIDE DEF B
  <2> QED
      BY <2>1, SmallestOf
<1>5. PICK p \in due : p.sequence = n
    BY <1>4
<1>6. ASSUME NEW q \in late_heap
      PROVE  /\ p.release_at <= q.release_at
             /\ \/ p.release_at < q.release_at
                \/ p.release_at = q.release_at /\ p.sequence <= q.sequence
  <2>1. p.release_at = m /\ m <= q.release_at
      BY <1>2, <1>5
  <2>2. CASE q.release_at = m
      BY <1>4, <1>5, <2>1, <2>2
  <2>3. CASE q.release_at # m
      BY <1>1, <1>5, <2>1, <2>3
  <2> QED
      BY <2>2, <2>3
<1> QED
    BY <1>5, <1>6 DEF NextLate

\* A record taken off the heap is yielded, and was booked when it was put there.
LEMMA PopLateBooks ==
    ASSUME TypeOK, Booked, NEW p \in late_heap, PopLate(p), out = << >>,
           UNCHANGED <<topic, lost, queue, sim_time, stats, counter>>
    PROVE  /\ Issued' = Issued /\ Booked'
           /\ out' \in Seq(Records) /\ late_heap' \subseteq PendingLate
           /\ IsFiniteSet(late_heap') /\ Cardinality(late_heap') <= counter
<1> DEFINE rec == p.record
<1>1. rec \in Records /\ rec.kind = NoKind /\ rec.late
    BY StatsFields DEF PendingLate, Booked
<1>2. out' = <<rec>> /\ late_heap' = late_heap \ {p}
    BY DEF PopLate
<1>3. {q.record : q \in late_heap} = {q.record : q \in late_heap'} \union {rec}
    BY <1>2
<1> HIDE DEF rec
<1>4. /\ out' \in Seq(Records) /\ Elements(out') = {rec}
      /\ \A S : Tally(out', S) = Worth(rec, S)
    BY <1>1, <1>2, OutOne
<1>5. Issued' = Issued
    BY <1>3, <1>4, Yields
<1>6. /\ Tally(out', ValidRecords) = 1 /\ Tally(out', Records \ ValidRecords) = 0
      /\ Tally(out', LateRecords) = 1
    BY <1>1, <1>4, WorthOf
<1>7. /\ Yielded(ValidRecords)' = Yielded(ValidRecords) + 1
      /\ Yielded(Records \ ValidRecords)' = Yielded(Records \ ValidRecords)
      /\ Yielded(LateRecords)' = Yielded(LateRecords) + 1
    BY <1>6, Yields
<1>8. /\ IsFiniteSet(late_heap') /\ Cardinality(late_heap') = Cardinality(late_heap) - 1
      /\ Cardinality(late_heap) \in Nat /\ Cardinality(late_heap) <= counter /\ counter \in Nat
    BY <1>2, StatsFields, FS_RemoveElement
<1>9. CleanIds' = CleanIds
    BY <1>5 DEF CleanIds
<1>10. /\ stats.clean + stats.duplicates = Yielded(ValidRecords)' + Cardinality(late_heap')
       /\ stats.late = Yielded(LateRecords)' + Cardinality(late_heap')
       /\ stats.invalid = Yielded(Records \ ValidRecords)'
  <2>1. /\ stats.clean + stats.duplicates = Yielded(ValidRecords) + Cardinality(late_heap)
        /\ stats.late = Yielded(LateRecords) + Cardinality(late_heap)
        /\ stats.invalid = Yielded(Records \ ValidRecords)
      BY DEF Booked
  <2>2. Yielded(ValidRecords) \in Nat /\ Yielded(LateRecords) \in Nat
      BY YieldedType
  <2> QED
      BY <1>7, <1>8, <2>1, <2>2
<1>11. Booked'
    BY <1>2, <1>9, <1>10 DEF Booked
<1>12. late_heap' \subseteq PendingLate /\ Cardinality(late_heap') <= counter
    BY <1>2, <1>8, StatsFields
<1> QED
    BY <1>4, <1>5, <1>8, <1>11, <1>12
-----------------------------------------------------------------------------
(* Steps that add no reading.                                              *)

\* As long as no vehicle moves, no record is added and time does not go back, the readings
\* are what they were.
LEMMA SameTrips ==
    ASSUME TypeOK, RecordsInv, UNCHANGED vehicles, Issued' \subseteq Issued,
           \A i \in 1..Len(Fleet) : NextMoment(i)' \in Nat /\ NextMoment(i)' >= NextMoment(i)
    PROVE  IdsOfThePast' /\ OneRecordPerId' /\ Dated' /\ TripsCoherent' /\ Underway'
<1>1. IdsOfThePast'
    BY DEF RecordsInv, IdsOfThePast
<1>2. OneRecordPerId'
    BY DEF RecordsInv, OneRecordPerId
<1>3. Dated'
  <2> SUFFICES ASSUME NEW r \in Issued', NEW i \in 1..Len(Fleet),
                      r.reading.event_id[1] = Fleet[i]
               PROVE  r.reading.event_time < NextMoment(i)'
      BY DEF Dated
  <2>1. r.reading.event_time < NextMoment(i)
      BY DEF RecordsInv, Dated
  <2>2. r.reading.event_time \in Nat
      BY IssuedAreRecords, RecordFields
  <2>3. NextMoment(i) \in Nat /\ NextMoment(i)' \in Nat /\ NextMoment(i)' >= NextMoment(i)
      BY NextMomentType
  <2> QED
      BY <2>1, <2>2, <2>3
<1>4. TripsCoherent'
    BY DEF RecordsInv, TripsCoherent
<1>5. Underway'
    BY DEF RecordsInv, Underway
<1> QED
    BY <1>1, <1>2, <1>3, <1>4, <1>5

\* A step that leaves the generator as it is, its output apart, and keeps every record.
LEMMA SameRecords ==
    ASSUME TypeOK, RecordsInv, Issued' = Issued,
           UNCHANGED <<vehicles, sim_time, stats, late_heap, counter, cursor>>,
           \A S : Yielded(S)' = Yielded(S)
    PROVE  RecordsInv'
<1>1. \A i \in 1..Len(Fleet) : NextMoment(i)' = NextMoment(i)
    BY DEF NextMoment
<1>2. \A i \in 1..Len(Fleet) : NextMoment(i)' \in Nat /\ NextMoment(i)' >= NextMoment(i)
    BY <1>1, NextMomentType
<1>3. IdsOfThePast' /\ OneRecordPerId' /\ Dated' /\ TripsCoherent' /\ Underway'
    BY <1>2, SameTrips
<1>4. CleanIds' = CleanIds
    BY DEF CleanIds
<1>5. /\ Yielded(ValidRecords)' = Yielded(ValidRecords)
      /\ Yielded(Records \ ValidRecords)' = Yielded(Records \ ValidRecords)
      /\ Yielded(LateRecords)' = Yielded(LateRecords)
    OBVIOUS
<1>6. Booked'
    BY <1>4, <1>5 DEF RecordsInv, Booked
<1> QED
    BY <1>3, <1>6 DEF RecordsInv

\* A step of the client, the broker, the signal or the end: the generator stands still.
LEMMA StandsStill ==
    ASSUME TypeOK, RecordsInv, UNCHANGED <<generatorVars, topic, lost, queue>>
    PROVE  RecordsInv' /\ GeneratorTypes' /\ UNCHANGED <<late_heap, counter, stats, cursor, sim_time, out>>
<1>1. UNCHANGED <<vehicles, sim_time, stats, late_heap, counter, cursor, out>>
    BY DEF generatorVars
<1>2. Issued' = Issued
    BY <1>1 DEF Issued
<1>3. \A S : Yielded(S)' = Yielded(S)
    BY <1>1 DEF Yielded
<1>4. GeneratorTypes'
    BY <1>1 DEF TypeOK, GeneratorTypes
<1> QED
    BY <1>1, <1>2, <1>3, <1>4, SameRecords

\* The start of a tick: every vehicle's next moment is still now.
LEMMA StartTickKeeps ==
    ASSUME TypeOK, RecordsInv, StartTick, UNCHANGED <<topic, lost, queue>>
    PROVE  RecordsInv' /\ GeneratorTypes'
<1>1. /\ cursor = Between /\ cursor' = <<1, 0>> /\ sim_time \in Nat
      /\ UNCHANGED <<vehicles, sim_time, stats, late_heap, counter, out>>
    BY DEF StartTick, TypeOK, GeneratorTypes
<1>2. Issued' = Issued
    BY <1>1 DEF Issued
<1>3. \A S : Yielded(S)' = Yielded(S)
    BY <1>1 DEF Yielded
<1>4. ASSUME NEW i \in 1..Len(Fleet)
      PROVE  NextMoment(i)' \in Nat /\ NextMoment(i)' >= NextMoment(i)
  <2>1. SubTick(Fleet[i]) * 0 = 0
      BY SubTicksFill
  <2>2. NextMoment(i) = sim_time
      BY <1>1 DEF NextMoment, Between
  <2>3. NextMoment(i)' = sim_time
      BY <1>1, <2>1 DEF NextMoment
  <2> QED
      BY <1>1, <2>2, <2>3
<1>5. IdsOfThePast' /\ OneRecordPerId' /\ Dated' /\ TripsCoherent' /\ Underway'
    BY <1>1, <1>2, <1>4, SameTrips
<1>6. CleanIds' = CleanIds
    BY <1>2 DEF CleanIds
<1>7. Booked'
    BY <1>1, <1>3, <1>6 DEF RecordsInv, Booked
<1>8. cursor' \in (0..Len(Fleet) + 1) \X Nat
    BY <1>1, GeneratorNumbers
<1> QED
    BY <1>1, <1>5, <1>7, <1>8 DEF RecordsInv, TypeOK, GeneratorTypes

\* The end of a tick: every vehicle has had all its sub-ticks, and nothing held back is due.
LEMMA EndTickKeeps ==
    ASSUME TypeOK, RecordsInv, EndTick, UNCHANGED <<topic, lost, queue>>
    PROVE  RecordsInv' /\ GeneratorTypes'
<1>1. /\ cursor[1] > Len(Fleet) /\ cursor[1] \in Nat /\ cursor' = Between
      /\ sim_time \in Nat /\ sim_time' = sim_time + TICK
      /\ UNCHANGED <<vehicles, stats, late_heap, counter, out>>
    BY GeneratorNumbers DEF EndTick, InDrain, TypeOK, GeneratorTypes
<1>2. Issued' = Issued
    BY <1>1 DEF Issued
<1>3. \A S : Yielded(S)' = Yielded(S)
    BY <1>1 DEF Yielded
<1>4. ASSUME NEW i \in 1..Len(Fleet)
      PROVE  NextMoment(i)' \in Nat /\ NextMoment(i)' >= NextMoment(i)
  <2>1. NextMoment(i) = sim_time + TICK
      BY <1>1, GeneratorNumbers DEF NextMoment
  <2>2. NextMoment(i)' = sim_time + TICK
      BY <1>1 DEF NextMoment, Between
  <2> QED
      BY <1>1, <2>1, <2>2, GeneratorNumbers
<1>5. IdsOfThePast' /\ OneRecordPerId' /\ Dated' /\ TripsCoherent' /\ Underway'
    BY <1>1, <1>2, <1>4, SameTrips
<1>6. CleanIds' = CleanIds
    BY <1>2 DEF CleanIds
<1>7. ASSUME NEW q \in late_heap PROVE q.release_at > sim_time' - TICK
  <2>1. PICK p \in NextLate : p.release_at <= q.release_at
      BY TopOfHeap
  <2>2. p.release_at > sim_time
      BY DEF EndTick
  <2>3. p.release_at \in Nat /\ q.release_at \in Nat
      BY StatsFields DEF PendingLate, NextLate
  <2> QED
      BY <1>1, <2>1, <2>2, <2>3, GeneratorNumbers
<1>8. Booked'
  <2>1. /\ Yielded(ValidRecords)' = Yielded(ValidRecords)
        /\ Yielded(Records \ ValidRecords)' = Yielded(Records \ ValidRecords)
        /\ Yielded(LateRecords)' = Yielded(LateRecords)
      BY <1>3
  <2> QED
      BY <1>1, <1>6, <1>7, <2>1 DEF RecordsInv, Booked
<1>9. cursor' \in (0..Len(Fleet) + 1) \X Nat /\ sim_time' \in Nat
    BY <1>1, GeneratorNumbers DEF Between
<1> QED
    BY <1>1, <1>5, <1>8, <1>9 DEF RecordsInv, TypeOK, GeneratorTypes

\* A late record is yielded, in a tick or after the last one.
LEMMA LateKeeps ==
    ASSUME TypeOK, RecordsInv, DrainLate \/ FlushLate, UNCHANGED <<topic, lost, queue>>
    PROVE  /\ RecordsInv' /\ GeneratorTypes' /\ UNCHANGED <<vehicles, sim_time, stats, counter, cursor>>
           /\ Cardinality(late_heap') <= counter /\ late_heap # {}
<1>1. UNCHANGED <<vehicles, sim_time, stats, counter, cursor>> /\ out = << >>
    BY DEF DrainLate, FlushLate, InDrain
<1>2. PICK p \in late_heap : PopLate(p)
    BY DEF DrainLate, FlushLate, NextLate
<1>3. /\ Issued' = Issued /\ Booked'
      /\ out' \in Seq(Records) /\ late_heap' \subseteq PendingLate
      /\ IsFiniteSet(late_heap') /\ Cardinality(late_heap') <= counter
    BY <1>1, <1>2, PopLateBooks DEF RecordsInv
<1>4. \A i \in 1..Len(Fleet) : NextMoment(i)' = NextMoment(i)
    BY <1>1 DEF NextMoment
<1>5. \A i \in 1..Len(Fleet) : NextMoment(i)' \in Nat /\ NextMoment(i)' >= NextMoment(i)
    BY <1>4, NextMomentType
<1>6. IdsOfThePast' /\ OneRecordPerId' /\ Dated' /\ TripsCoherent' /\ Underway'
    BY <1>1, <1>3, <1>5, SameTrips
<1> QED
    BY <1>1, <1>2, <1>3, <1>6 DEF RecordsInv, TypeOK, GeneratorTypes
-----------------------------------------------------------------------------
(* A sub-tick of a vehicle.                                                *)

\* What a sub-tick keeps: what is true of the records, and the generator's types.
SubTickKeeps ==
    /\ RecordsInv' /\ GeneratorTypes' /\ UNCHANGED sim_time
    /\ Cardinality(late_heap') <= counter' /\ counter' = stats'.late
    /\ cursor'[1] # 0
    /\ cursor'[1] \in 1..Len(Fleet) => cursor'[2] < Multiplier(Fleet[cursor'[1]])

\* A vehicle that moves, and emits its reading.
LEMMA EmittedKeeps ==
    ASSUME TypeOK, InPhase, RecordsInv, InVehicles, UNCHANGED <<topic, lost, queue, sim_time>>,
           NEW i, i = cursor[1], NEW v \in VehicleNames, v = Fleet[i], CursorGoesOn,
           NEW now, now = sim_time + SubTick(v) * cursor[2],
           NEW next, Moved(v, vehicles[v], now, next),
           vehicles' = [vehicles EXCEPT ![v] = next.state], Process(next.event)
    PROVE  SubTickKeeps
<1>1. NewReading(next.event)
    BY FreshId DEF NewReading, InVehicles, Moved, RecordsInv
<1>2. Injected(next.event)
    BY <1>1, ProcessBooks DEF RecordsInv
<1>3. PICK rec \in Records : rec.reading = next.event /\ Issued' \subseteq Issued \union {rec}
    BY <1>2 DEF Injected
<1>4. OneMore(v, next, rec)
    BY <1>3 DEF OneMore
<1>5. IdsOfThePast' /\ OneRecordPerId'
    BY <1>4, MovedIds DEF RecordsInv
<1>6. Dated' /\ TripsCoherent' /\ Underway'
    BY <1>4, MovedTrips DEF RecordsInv
<1>7. RecordsInv'
    BY <1>2, <1>5, <1>6 DEF RecordsInv, Injected
<1>8. /\ cursor' \in (0..Len(Fleet) + 1) \X Nat /\ cursor'[1] # 0
      /\ cursor'[1] \in 1..Len(Fleet) => cursor'[2] < Multiplier(Fleet[cursor'[1]])
    BY CursorMoves
<1>9. vehicles' \in [VehicleNames -> VehicleStates]
    BY DEF TypeOK, GeneratorTypes, Moved
<1>10. GeneratorTypes'
    BY <1>2, <1>8, <1>9 DEF Injected, TypeOK, GeneratorTypes
<1> QED
    BY <1>2, <1>7, <1>8, <1>10 DEF SubTickKeeps, Injected

\* A vehicle that does not emit a reading.
LEMMA SilentKeeps ==
    ASSUME TypeOK, InPhase, RecordsInv, InVehicles, UNCHANGED <<topic, lost, queue, sim_time>>,
           NEW i, i = cursor[1], NEW v \in VehicleNames, v = Fleet[i], CursorGoesOn,
           NEW now, now = sim_time + SubTick(v) * cursor[2],
           NEW next, next.state = vehicles[v] \/ Moved(v, vehicles[v], now, next),
           vehicles' = [vehicles EXCEPT ![v] = next.state],
           UNCHANGED <<stats, late_heap, counter, out>>
    PROVE  SubTickKeeps
<1>1. /\ cursor' \in (0..Len(Fleet) + 1) \X Nat /\ cursor'[1] # 0
      /\ cursor'[1] \in 1..Len(Fleet) => cursor'[2] < Multiplier(Fleet[cursor'[1]])
      /\ NextMoment(i)' > NextMoment(i) /\ NextMoment(i)' \in Nat
      /\ \A j \in 1..Len(Fleet) : j # i => NextMoment(j)' = NextMoment(j)
    BY CursorMoves
<1>2. Issued' = Issued
    BY DEF Issued
<1>3. \A S : Yielded(S)' = Yielded(S)
    BY DEF Yielded
<1>4. CleanIds' = CleanIds
    BY <1>2 DEF CleanIds
<1>5. Booked'
  <2>1. /\ Yielded(ValidRecords)' = Yielded(ValidRecords)
        /\ Yielded(Records \ ValidRecords)' = Yielded(Records \ ValidRecords)
        /\ Yielded(LateRecords)' = Yielded(LateRecords)
      BY <1>3
  <2> QED
      BY <1>4, <2>1 DEF RecordsInv, Booked
<1>6. /\ IdsOfThePast' /\ OneRecordPerId' /\ Dated' /\ TripsCoherent' /\ Underway'
      /\ vehicles' \in [VehicleNames -> VehicleStates]
  <2>1. CASE next.state = vehicles[v]
    <3>1. vehicles' = vehicles /\ vehicles \in [VehicleNames -> VehicleStates]
        BY <2>1 DEF TypeOK, GeneratorTypes
    <3>2. ASSUME NEW j \in 1..Len(Fleet)
          PROVE  NextMoment(j)' \in Nat /\ NextMoment(j)' >= NextMoment(j)
      <4>1. NextMoment(j) \in Nat
          BY NextMomentType
      <4>2. CASE j = i
          BY <1>1, <4>1, <4>2
      <4>3. CASE j # i
          BY <1>1, <4>1, <4>3
      <4> QED
          BY <4>2, <4>3
    <3> QED
        BY <1>2, <3>1, <3>2, SameTrips
  <2>2. CASE Moved(v, vehicles[v], now, next)
    <3> DEFINE rec == Record(next.event, NoKind, FALSE)
    <3>1. rec \in Records /\ rec.reading = next.event
        BY <2>2 DEF Moved, Record, Records
    <3> HIDE DEF rec
    <3>2. OneMore(v, next, rec)
        BY <1>2, <3>1 DEF OneMore
    <3>3. IdsOfThePast' /\ OneRecordPerId'
        BY <2>2, <3>1, <3>2, MovedIds DEF RecordsInv
    <3>4. Dated' /\ TripsCoherent' /\ Underway'
        BY <2>2, <3>1, <3>2, MovedTrips DEF RecordsInv
    <3>5. vehicles' \in [VehicleNames -> VehicleStates]
        BY <2>2 DEF TypeOK, GeneratorTypes, Moved
    <3> QED
        BY <3>3, <3>4, <3>5
  <2> QED
      BY <2>1, <2>2
<1>7. GeneratorTypes'
    BY <1>1, <1>6 DEF TypeOK, GeneratorTypes
<1>8. Cardinality(late_heap') <= counter' /\ counter' = stats'.late
    BY DEF TypeOK
<1> QED
    BY <1>1, <1>5, <1>6, <1>7, <1>8 DEF SubTickKeeps, RecordsInv

LEMMA TickVehicleKeeps ==
    ASSUME TypeOK, InPhase, RecordsInv, TickVehicle, UNCHANGED <<topic, lost, queue>>
    PROVE  SubTickKeeps
<1> DEFINE i == cursor[1]
           v == Fleet[i]
           now == sim_time + SubTick(v) * cursor[2]
<1>1. /\ InVehicles /\ UNCHANGED sim_time /\ CursorGoesOn
      /\ i \in 1..Len(Fleet) /\ v \in VehicleNames /\ sim_time \in Nat /\ cursor[2] \in Nat
    BY GeneratorNumbers DEF TickVehicle, InVehicles, CursorGoesOn, TypeOK, GeneratorTypes
<1>2. PICK next \in Tick(v, vehicles[v], now, SubTick(v)) :
        /\ vehicles' = [vehicles EXCEPT ![v] = next.state]
        /\ IF next.event = NoEvent
           THEN UNCHANGED <<stats, late_heap, counter, out>>
           ELSE Process(next.event)
    BY DEF TickVehicle
<1>3. now \in Nat /\ SubTick(v) \in Nat /\ vehicles[v] \in VehicleStates
    BY <1>1, SubTicksFill, VehicleFields
<1> HIDE DEF i, v, now
<1>4. \/ next.state = vehicles[v] /\ next.event = NoEvent
      \/ Moved(v, vehicles[v], now, next)
    BY <1>1, <1>2, <1>3, TickResult
<1>5. i = cursor[1] /\ v = Fleet[i] /\ now = sim_time + SubTick(v) * cursor[2]
    BY DEF i, v, now
<1>6. CASE next.event = NoEvent
    BY <1>1, <1>2, <1>4, <1>5, <1>6, SilentKeeps
<1>7. CASE next.event # NoEvent
    BY <1>1, <1>2, <1>4, <1>5, <1>7, EmittedKeeps
<1> QED
    BY <1>6, <1>7

-----------------------------------------------------------------------------
(* The end of a run.                                                       *)

LEMMA TallySplit ==
    ASSUME NEW T, NEW s \in Seq(T), NEW V, V \subseteq T
    PROVE  Tally(s, V) + Tally(s, T \ V) = Len(s)
<1> DEFINE A == {k \in 1..Len(s) : s[k] \in V}
           B == {k \in 1..Len(s) : s[k] \in T \ V}
<1>1. IsFiniteSet(A) /\ IsFiniteSet(B)
    BY TallyType
<1>2. A \union B = 1..Len(s) /\ A \intersect B = {}
    OBVIOUS
<1>3. Cardinality(1..Len(s)) = Len(s) /\ Len(s) \in Nat
    BY FS_Interval
<1>4. Tally(s, V) = Cardinality(A) /\ Tally(s, T \ V) = Cardinality(B)
    BY DEF Tally
<1> HIDE DEF A, B
<1>5. Cardinality(A \union B) = Cardinality(A) + Cardinality(B) - Cardinality(A \intersect B)
    BY <1>1, FS_Union
<1>6. Cardinality(A \intersect B) = 0 /\ Cardinality(A) \in Nat /\ Cardinality(B) \in Nat
    BY <1>1, <1>2, FS_EmptySet, FS_CardinalityType
<1>7. Cardinality(A \union B) = Len(s)
    BY <1>2, <1>3
<1>8. Cardinality(A) + Cardinality(B) = Len(s)
    BY ONLY <1>3, <1>5, <1>6, <1>7
<1> QED
    BY <1>4, <1>8

\* The records handed to the client are the delivered, the lost and the queued ones.
LEMMA HandedLength ==
    ASSUME NEW a \in Seq(Records), NEW b \in Seq(Records), NEW c \in Seq(Records)
    PROVE  /\ a \o b \in Seq(Records) /\ (a \o b) \o c \in Seq(Records)
           /\ Len((a \o b) \o c) = Len(a) + Len(b) + Len(c)
           /\ Len(a) \in Nat /\ Len(b) \in Nat /\ Len(c) \in Nat
           /\ Len(a \o b) = Len(a) + Len(b)
<1> DEFINE ab == a \o b
<1>1. ab \in Seq(Records) /\ Len(ab) = Len(a) + Len(b) /\ Len(a) \in Nat /\ Len(b) \in Nat
    OBVIOUS
<1> HIDE DEF ab
<1>2. ab \o c \in Seq(Records) /\ Len(ab \o c) = Len(ab) + Len(c) /\ Len(c) \in Nat
    BY <1>1
<1> QED
    BY <1>1, <1>2 DEF ab

LEMMA WireIssued ==
    ASSUME TypeOK
    PROVE  Wire = Elements(topic) \union Elements(lost) \union Elements(queue)
<1> DEFINE settled == topic \o lost
<1>1. settled \in Seq(Records) /\ Elements(settled) = Elements(topic) \union Elements(lost)
    BY Queues, ElementsConcat, HandedLength
<1>2. Wire = Elements(settled \o queue)
    BY DEF Wire, Handed, Settled, Elements
<1> HIDE DEF settled
<1> QED
    BY <1>1, <1>2, Queues, ElementsConcat

\* When everything is settled, the statistics are those of the settled records.
LEMMA SettledCounts ==
    ASSUME TypeOK, Booked, queue = << >>, out = << >>, late_heap = {}
    PROVE  /\ sent = Len(Settled) /\ sent = TotalProduced(stats)
           /\ stats.clean = Cardinality(ValidIds)
           /\ stats.clean + stats.duplicates = CountOf(IsValid)
           /\ stats.invalid = CountOf(LAMBDA r : ~IsValid(r))
           /\ stats.late = CountOf(LAMBDA r : r.late)
           /\ CountOf(IsValid) \in Nat
<1>1. /\ topic \in Seq(Records) /\ lost \in Seq(Records) /\ Settled \in Seq(Records)
      /\ Len(Settled) \in Nat
    BY Queues, HandedLength DEF Settled
<1>2. sent = Len(Settled)
  <2>1. sent = Len(Settled \o queue)
      BY DEF TypeOK, Handed
  <2>2. Settled \o << >> = Settled
      BY <1>1
  <2> QED
      BY <2>1, <2>2
<1>3. ASSUME NEW S PROVE Yielded(S) = Tally(Settled, S)
  <2>1. Tally(Settled, S) = Tally(topic, S) + Tally(lost, S)
      BY <1>1, TallyConcat DEF Settled
  <2>2. Tally(queue, S) = 0 /\ Tally(out, S) = 0
      BY TallyEmpty
  <2>3. Tally(topic, S) \in Nat /\ Tally(lost, S) \in Nat
      BY <1>1, TallyType
  <2>4. Yielded(S) = Tally(topic, S) + Tally(lost, S) + Tally(queue, S) + Tally(out, S)
      BY DEF Yielded
  <2> QED
      BY <2>1, <2>2, <2>3, <2>4
<1>4. Cardinality(late_heap) = 0
    BY FS_EmptySet
<1>5. ValidRecords \subseteq Records /\ Settled \in [1..Len(Settled) -> Records]
    BY <1>1 DEF ValidRecords
<1>6. Tally(Settled, ValidRecords) + Tally(Settled, Records \ ValidRecords) = Len(Settled)
    BY <1>1, <1>5, TallySplit
<1>7. CountOf(IsValid) = Tally(Settled, ValidRecords)
  <2>1. {k \in 1..Len(Settled) : IsValid(Settled[k])} =
            {k \in 1..Len(Settled) : Settled[k] \in ValidRecords}
      BY <1>5 DEF ValidRecords
  <2> QED
      BY <2>1 DEF CountOf, Tally
<1>8. CountOf(LAMBDA r : ~IsValid(r)) = Tally(Settled, Records \ ValidRecords)
  <2>1. {k \in 1..Len(Settled) : ~IsValid(Settled[k])} =
            {k \in 1..Len(Settled) : Settled[k] \in Records \ ValidRecords}
      BY <1>5 DEF ValidRecords
  <2> QED
      BY <2>1 DEF CountOf, Tally
<1>9. CountOf(LAMBDA r : r.late) = Tally(Settled, LateRecords)
  <2>1. {k \in 1..Len(Settled) : Settled[k].late} =
            {k \in 1..Len(Settled) : Settled[k] \in LateRecords}
      BY <1>5 DEF LateRecords
  <2> QED
      BY <2>1 DEF CountOf, Tally
<1>10. /\ Tally(Settled, ValidRecords) \in Nat /\ Tally(Settled, Records \ ValidRecords) \in Nat
       /\ Tally(Settled, LateRecords) \in Nat
    BY <1>1, TallyType
<1>11. /\ stats.clean + stats.duplicates = Tally(Settled, ValidRecords)
       /\ stats.invalid = Tally(Settled, Records \ ValidRecords)
       /\ stats.late = Tally(Settled, LateRecords)
  <2>1. /\ stats.clean + stats.duplicates = Yielded(ValidRecords) + Cardinality(late_heap)
        /\ stats.invalid = Yielded(Records \ ValidRecords)
        /\ stats.late = Yielded(LateRecords) + Cardinality(late_heap)
      BY DEF Booked
  <2>2. /\ Yielded(ValidRecords) = Tally(Settled, ValidRecords)
        /\ Yielded(Records \ ValidRecords) = Tally(Settled, Records \ ValidRecords)
        /\ Yielded(LateRecords) = Tally(Settled, LateRecords)
      BY <1>3
  <2> QED
      BY <1>4, <1>10, <2>1, <2>2
<1>12. sent = TotalProduced(stats)
    BY <1>2, <1>6, <1>11 DEF TotalProduced
<1>13. ValidIds = CleanIds
  <2>1. Elements(queue) = {} /\ Elements(out) = {} /\ {p.record : p \in late_heap} = {}
      BY DEF Elements
  <2>2. Issued = Wire /\ Issued \subseteq Records
      BY <2>1, WireIssued, IssuedAreRecords DEF Issued
  <2>3. {x \in Wire : IsValid(x)} = Issued \intersect ValidRecords
      BY <2>2 DEF ValidRecords
  <2> QED
      BY <2>3 DEF ValidIds, CleanIds
<1> QED
    BY <1>2, <1>7, <1>8, <1>9, <1>10, <1>11, <1>12, <1>13 DEF Booked

-----------------------------------------------------------------------------
(* The inductive invariant.                                                *)

\* Every run starts with nothing issued.
LEMMA Initially == Init => RunInv
<1> SUFFICES ASSUME Init PROVE RunInv
    OBVIOUS
<1>1. /\ topic = << >> /\ lost = << >> /\ queue = << >> /\ out = << >> /\ late_heap = {}
      /\ sim_time = 0 /\ tick_index = 0 /\ sent = 0 /\ counter = 0 /\ cursor = Between
      /\ phase = "loop" /\ shutdown = FALSE /\ manifest = None /\ outcome = None
      /\ stats = [clean |-> 0, duplicates |-> 0, late |-> 0, invalid |-> 0, hot_vehicle |-> 0]
      /\ vehicles \in [VehicleNames -> NewVehicles]
    BY DEF Init, GeneratorInit
<1>2. NewVehicles \subseteq VehicleStates /\ \A s \in NewVehicles : s.status = "parked"
    BY DEF NewVehicles, FirstFilling, VehicleStates
<1>3. vehicles \in [VehicleNames -> VehicleStates] /\ \A v \in VehicleNames : vehicles[v].status = "parked"
    BY <1>1, <1>2
<1>4. Issued = {}
  <2>1. /\ Elements(topic) = {} /\ Elements(lost) = {} /\ Elements(queue) = {}
        /\ Elements(out) = {} /\ {p.record : p \in late_heap} = {}
      BY <1>1 DEF Elements
  <2> QED
      BY <2>1 DEF Issued
<1>5. \A S : Yielded(S) = 0
    BY <1>1, TallyEmpty DEF Yielded
<1>6. IsFiniteSet(late_heap) /\ Cardinality(late_heap) = 0
    BY <1>1, FS_EmptySet
<1>7. CleanIds = {} /\ IsFiniteSet(CleanIds) /\ Cardinality(CleanIds) = 0
    BY <1>4, FS_EmptySet DEF CleanIds
<1>8. stats \in InjectionStats /\ stats.clean = 0 /\ stats.duplicates = 0
      /\ stats.late = 0 /\ stats.invalid = 0
    BY <1>1 DEF InjectionStats
<1>9. cursor \in (0..Len(Fleet) + 1) \X Nat /\ cursor[1] = 0
    BY <1>1, GeneratorNumbers DEF Between
<1>10. Handed = << >> /\ Len(Handed) = 0
  <2>1. topic \o lost = << >>
      BY <1>1
  <2> QED
      BY <1>1, <2>1 DEF Handed, Settled
<1>11. << >> \in Seq(Records)
    OBVIOUS
<1>12. GeneratorTypes
    BY <1>1, <1>3, <1>6, <1>8, <1>9, <1>11 DEF GeneratorTypes
<1>13. TypeOK
  <2>1. TICK * 0 = 0 /\ 0 \in 0..Ticks /\ 0 <= QueueCapacity /\ 0 <= MaxFailures
      BY GeneratorNumbers
  <2>2. None # "ok" /\ None \notin Failures /\ None \notin Manifests
      BY ProducerAssumption DEF ProducerAssumption
  <2>3. sim_time = TICK * tick_index /\ sent = Len(Handed)
      BY <1>1, <1>10, <2>1
  <2>4. {topic, lost, queue} \subseteq Seq(Records) /\ Len(queue) = 0 /\ Len(lost) = 0
      BY <1>1, <1>11
  <2>5. /\ Cardinality(late_heap) <= counter /\ counter = stats.late
        /\ Len(queue) <= QueueCapacity /\ Len(lost) <= MaxFailures
        /\ phase \in {"loop", "tick", "late", "flush", "exited"} /\ shutdown \in BOOLEAN
        /\ tick_index \in 0..Ticks
    <3>1. counter = 0 /\ stats.late = 0 /\ tick_index = 0 /\ Cardinality(late_heap) = 0
        BY <1>1, <1>6, <1>8
    <3>2. phase = "loop" /\ shutdown = FALSE
        BY <1>1
    <3>3. Cardinality(late_heap) <= counter /\ counter = stats.late /\ tick_index \in 0..Ticks
        BY <2>1, <3>1
    <3>4. Len(queue) <= QueueCapacity /\ Len(lost) <= MaxFailures
        BY <2>1, <2>4
    <3>5. phase \in {"loop", "tick", "late", "flush", "exited"} /\ shutdown \in BOOLEAN
        BY <3>2
    <3> QED
        BY <3>3, <3>4, <3>5
  <2>6. /\ outcome \in Failures \union {"ok", None} /\ (outcome # None <=> phase = "exited")
        /\ manifest \in Manifests \union {None} /\ (manifest # None <=> outcome = "ok")
      BY <1>1, <2>2
  <2> QED
      BY <1>12, <2>3, <2>4, <2>5, <2>6 DEF TypeOK
<1>14. InPhase
  <2>1. None # "ok" /\ None # "miscounted"
      BY ProducerAssumption DEF ProducerAssumption, Failures
  <2> QED
      BY <1>1, <1>9, <2>1, GeneratorNumbers DEF InPhase
<1>15. Booked
  <2>1. /\ Yielded(ValidRecords) = 0 /\ Yielded(Records \ ValidRecords) = 0
        /\ Yielded(LateRecords) = 0
      BY <1>5
  <2> QED
      BY <1>1, <1>6, <1>7, <1>8, <2>1 DEF Booked
<1>16. IdsOfThePast /\ OneRecordPerId /\ Dated /\ TripsCoherent /\ Underway
    BY <1>3, <1>4 DEF IdsOfThePast, OneRecordPerId, Dated, TripsCoherent, Underway
<1>17. ManifestTrue
    BY <1>1 DEF ManifestTrue
<1> QED
    BY <1>13, <1>14, <1>15, <1>16, <1>17 DEF RunInv, RecordsInv

\* As long as the process runs there is neither an outcome nor a manifest.
LEMMA StillRunning ==
    ASSUME TypeOK, phase # "exited"
    PROVE  /\ outcome = None /\ manifest = None
           /\ None # "ok" /\ None \notin Failures /\ None \notin Manifests
BY ProducerAssumption DEF TypeOK, ProducerAssumption

\* The types that say nothing of the generator, when a step leaves the queues alone.
LEMMA RunTypes ==
    ASSUME TypeOK, GeneratorTypes', UNCHANGED <<topic, lost, queue, sent, manifest, outcome>>,
           phase # "exited", phase' \in {"loop", "tick", "late", "flush"}, shutdown' \in BOOLEAN,
           tick_index' \in 0..Ticks, sim_time' = TICK * tick_index',
           Cardinality(late_heap') <= counter', counter' = stats'.late
    PROVE  TypeOK' /\ ManifestTrue' /\ outcome' = None
<1>1. outcome = None /\ manifest = None /\ None # "ok"
    BY StillRunning
<1>2. Handed' = Handed
    BY DEF Handed, Settled
<1>3. TypeOK'
    BY <1>1, <1>2 DEF TypeOK
<1> QED
    BY <1>1, <1>3 DEF ManifestTrue

\* The loop, the signal and the late buffer.
LEMMA LoopStep ==
    ASSUME RunInv, BeginTick \/ LeaveLoop \/ Generate \/ FinishTick \/ Flush \/ Signal
    PROVE  RunInv'
<1>1. TypeOK /\ InPhase /\ RecordsInv
    BY DEF RunInv
<1>2. /\ UNCHANGED <<topic, lost, queue, sent, manifest, outcome>>
      /\ phase # "exited"
    BY DEF BeginTick, LeaveLoop, Generate, FinishTick, Flush, Signal, Running, runVars
<1>3. /\ Cardinality(late_heap) <= counter /\ counter = stats.late /\ shutdown \in BOOLEAN
      /\ tick_index \in 0..Ticks /\ sim_time = TICK * tick_index
      /\ phase \in {"loop", "tick", "late", "flush"}
    BY <1>1, <1>2 DEF TypeOK
<1>4. outcome = None /\ None # "ok" /\ None # "miscounted"
    BY <1>1, <1>2, StillRunning DEF Failures
<1>5. Between[1] = 0 /\ Ticks \in Nat /\ Len(Fleet) \in Nat
    BY GeneratorNumbers DEF Between
<1>6. CASE Signal
  <2>1. /\ UNCHANGED generatorVars /\ UNCHANGED <<phase, tick_index>> /\ shutdown' = TRUE
      BY <1>6 DEF Signal
  <2>2. /\ RecordsInv' /\ GeneratorTypes'
        /\ UNCHANGED <<late_heap, counter, stats, cursor, sim_time, out>>
      BY <1>1, <1>2, <2>1, StandsStill
  <2>3. TypeOK' /\ ManifestTrue'
      BY <1>1, <1>2, <1>3, <2>1, <2>2, RunTypes
  <2>4. InPhase'
      BY <1>1, <1>2, <2>1, <2>2 DEF InPhase
  <2> QED
      BY <2>2, <2>3, <2>4 DEF RunInv
<1>7. CASE LeaveLoop
  <2>1. /\ UNCHANGED generatorVars /\ UNCHANGED <<shutdown, tick_index>>
        /\ phase = "loop" /\ phase' = "late"
      BY <1>7 DEF LeaveLoop
  <2>2. /\ RecordsInv' /\ GeneratorTypes'
        /\ UNCHANGED <<late_heap, counter, stats, cursor, sim_time, out>>
      BY <1>1, <1>2, <2>1, StandsStill
  <2>3. TypeOK' /\ ManifestTrue'
      BY <1>1, <1>2, <1>3, <2>1, <2>2, RunTypes
  <2>4. InPhase'
      BY <1>1, <1>2, <1>4, <2>1, <2>2 DEF InPhase
  <2> QED
      BY <2>2, <2>3, <2>4 DEF RunInv
<1>8. CASE BeginTick
  <2>1. /\ StartTick /\ UNCHANGED <<shutdown, tick_index>> /\ tick_index < Ticks
        /\ phase = "loop" /\ phase' = "tick"
      BY <1>8 DEF BeginTick
  <2>2. /\ RecordsInv' /\ GeneratorTypes' /\ cursor' = <<1, 0>>
        /\ UNCHANGED <<late_heap, counter, stats, sim_time, out>>
      BY <1>1, <1>2, <2>1, StartTickKeeps DEF StartTick
  <2>3. TypeOK' /\ ManifestTrue'
      BY <1>1, <1>2, <1>3, <2>1, <2>2, RunTypes
  <2>4. cursor'[1] = 1 /\ cursor'[2] = 0 /\ \A i : 0 < Multiplier(Fleet[i])
      BY <2>2, SubTicksFill
  <2>5. InPhase'
      BY <1>1, <1>2, <1>4, <2>1, <2>2, <2>4 DEF InPhase
  <2> QED
      BY <2>2, <2>3, <2>5 DEF RunInv
<1>9. CASE FinishTick
  <2>1. /\ EndTick /\ UNCHANGED shutdown /\ tick_index' = tick_index + 1
        /\ phase = "tick" /\ phase' = "loop"
      BY <1>9 DEF FinishTick
  <2>2. /\ RecordsInv' /\ GeneratorTypes' /\ cursor' = Between /\ out' = << >>
        /\ UNCHANGED <<late_heap, counter, stats>> /\ sim_time' = sim_time + TICK
      BY <1>1, <1>2, <2>1, EndTickKeeps DEF EndTick, InDrain
  <2>3. cursor # Between
      BY <1>5, <2>1 DEF EndTick, InDrain
  <2>4. tick_index' \in 0..Ticks /\ sim_time' = TICK * tick_index'
    <3>1. tick_index < Ticks /\ tick_index \in Nat /\ TICK \in Nat
        BY <1>1, <1>3, <2>3, GeneratorNumbers DEF InPhase
    <3>2. TICK * (tick_index + 1) = TICK * tick_index + TICK
        BY <3>1
    <3> QED
        BY <1>3, <1>5, <2>1, <2>2, <3>1, <3>2
  <2>5. TypeOK' /\ ManifestTrue'
      BY <1>1, <1>2, <1>3, <2>1, <2>2, <2>4, RunTypes
  <2>6. InPhase'
      BY <1>2, <1>4, <1>5, <2>1, <2>2 DEF InPhase
  <2> QED
      BY <2>2, <2>5, <2>6 DEF RunInv
<1>10. CASE Generate /\ TickVehicle
  <2>1. /\ UNCHANGED <<shutdown, tick_index, phase>> /\ phase = "tick" /\ InVehicles
      BY <1>10 DEF Generate, runVars, TickVehicle
  <2>2. SubTickKeeps
      BY <1>1, <1>2, <1>10, TickVehicleKeeps
  <2>3. TypeOK' /\ ManifestTrue'
      BY <1>1, <1>2, <1>3, <2>1, <2>2, RunTypes DEF SubTickKeeps
  <2>4. tick_index < Ticks
      BY <1>1, <1>5, <2>1 DEF InPhase, InVehicles
  <2>5. InPhase'
      BY <1>2, <1>4, <2>1, <2>2, <2>4 DEF InPhase, SubTickKeeps
  <2> QED
      BY <2>2, <2>3, <2>5 DEF RunInv, SubTickKeeps
<1>11. CASE Generate /\ DrainLate
  <2>1. /\ UNCHANGED <<shutdown, tick_index, phase>> /\ phase = "tick"
      BY <1>11 DEF Generate, runVars
  <2>2. /\ RecordsInv' /\ GeneratorTypes' /\ Cardinality(late_heap') <= counter
        /\ UNCHANGED <<vehicles, sim_time, stats, counter, cursor>>
      BY <1>1, <1>2, <1>11, LateKeeps
  <2>3. TypeOK' /\ ManifestTrue'
      BY <1>1, <1>2, <1>3, <2>1, <2>2, RunTypes
  <2>4. InPhase'
      BY <1>1, <1>2, <1>4, <2>1, <2>2 DEF InPhase
  <2> QED
      BY <2>2, <2>3, <2>4 DEF RunInv
<1>12. CASE Flush /\ late_heap = {} /\ out = << >>
  <2>1. /\ UNCHANGED generatorVars /\ UNCHANGED <<shutdown, tick_index>>
        /\ phase = "late" /\ phase' = "flush"
      BY <1>12 DEF Flush
  <2>2. /\ RecordsInv' /\ GeneratorTypes'
        /\ UNCHANGED <<late_heap, counter, stats, cursor, sim_time, out>>
      BY <1>1, <1>2, <2>1, StandsStill
  <2>3. TypeOK' /\ ManifestTrue'
      BY <1>1, <1>2, <1>3, <2>1, <2>2, RunTypes
  <2>4. InPhase'
      BY <1>1, <1>2, <1>4, <1>12, <2>1, <2>2 DEF InPhase
  <2> QED
      BY <2>2, <2>3, <2>4 DEF RunInv
<1>13. CASE Flush /\ ~(late_heap = {} /\ out = << >>)
  <2>1. /\ FlushLate /\ UNCHANGED <<shutdown, tick_index, phase>> /\ phase = "late"
      BY <1>13 DEF Flush
  <2>2. /\ RecordsInv' /\ GeneratorTypes' /\ Cardinality(late_heap') <= counter
        /\ UNCHANGED <<vehicles, sim_time, stats, counter, cursor>>
      BY <1>1, <1>2, <2>1, LateKeeps
  <2>3. TypeOK' /\ ManifestTrue'
      BY <1>1, <1>2, <1>3, <2>1, <2>2, RunTypes
  <2>4. InPhase'
      BY <1>1, <1>2, <1>4, <2>1, <2>2 DEF InPhase
  <2> QED
      BY <2>2, <2>3, <2>4 DEF RunInv
<1> QED
    BY <1>6, <1>7, <1>8, <1>9, <1>10, <1>11, <1>12, <1>13 DEF Generate

\* The client and the broker: records are moved, one at a time.
LEMMA HandlingStep ==
    ASSUME RunInv, Produce \/ Deliver \/ DeliveryFailed
    PROVE  RunInv'
<1>1. TypeOK /\ InPhase /\ RecordsInv
    BY DEF RunInv
<1>2. /\ UNCHANGED <<vehicles, sim_time, stats, late_heap, counter, cursor>>
      /\ UNCHANGED <<shutdown, phase, tick_index, manifest, outcome>>
      /\ phase # "exited"
    BY DEF Produce, Deliver, DeliveryFailed, Running, generatorVars
<1>3. \A S : Issued' = Issued /\ Yielded(S)' = Yielded(S)
    BY <1>1, HandlingKeeps
<1>4. RecordsInv'
    BY <1>1, <1>2, <1>3, SameRecords
<1>5. outcome = None /\ manifest = None /\ None # "ok"
    BY <1>1, <1>2, StillRunning
<1>6. /\ topic \in Seq(Records) /\ lost \in Seq(Records)
      /\ queue \in Seq(Records) /\ out \in Seq(Records)
      /\ sent = Len(topic) + Len(lost) + Len(queue)
      /\ Len(topic) \in Nat /\ Len(lost) \in Nat /\ Len(queue) \in Nat
      /\ Len(queue) <= QueueCapacity /\ Len(lost) <= MaxFailures
      /\ QueueCapacity \in Nat /\ MaxFailures \in Nat
    BY <1>1, Queues, HandedLength, GeneratorNumbers DEF TypeOK, Handed, Settled
<1>7. /\ topic' \in Seq(Records) /\ lost' \in Seq(Records)
      /\ queue' \in Seq(Records) /\ out' \in Seq(Records)
      /\ sent' = Len(topic') + Len(lost') + Len(queue')
      /\ Len(queue') <= QueueCapacity /\ Len(lost') <= MaxFailures
  <2>1. CASE Produce
    <3>1. /\ out # << >> /\ Len(queue) < QueueCapacity /\ sent' = sent + 1
          /\ queue' = Append(queue, Head(out)) /\ out' = Tail(out) /\ UNCHANGED <<topic, lost>>
        BY <2>1 DEF Produce
    <3>2. Head(out) \in Records /\ out' \in Seq(Records)
        BY <1>6, <3>1
    <3>3. queue' \in Seq(Records) /\ Len(queue') = Len(queue) + 1
        BY <1>6, <3>1, <3>2
    <3> QED
        BY <1>6, <3>1, <3>2, <3>3
  <2>2. CASE Deliver
    <3>1. /\ queue # << >> /\ topic' = Append(topic, Head(queue)) /\ queue' = Tail(queue)
          /\ UNCHANGED <<lost, out, sent>>
        BY <2>2 DEF Deliver, generatorVars
    <3>2. Head(queue) \in Records /\ queue' \in Seq(Records) /\ Len(queue') = Len(queue) - 1
        BY <1>6, <3>1
    <3>3. topic' \in Seq(Records) /\ Len(topic') = Len(topic) + 1
        BY <1>6, <3>1, <3>2
    <3> QED
        BY <1>6, <3>1, <3>2, <3>3
  <2>3. CASE DeliveryFailed
    <3>1. /\ queue # << >> /\ lost' = Append(lost, Head(queue)) /\ queue' = Tail(queue)
          /\ UNCHANGED <<topic, out, sent>> /\ Len(lost) < MaxFailures
        BY <2>3 DEF DeliveryFailed, generatorVars
    <3>2. Head(queue) \in Records /\ queue' \in Seq(Records) /\ Len(queue') = Len(queue) - 1
        BY <1>6, <3>1
    <3>3. lost' \in Seq(Records) /\ Len(lost') = Len(lost) + 1
        BY <1>6, <3>1, <3>2
    <3> QED
        BY <1>6, <3>1, <3>2, <3>3
  <2> QED
      BY <2>1, <2>2, <2>3
<1>8. sent' = Len(Handed')
    BY <1>7, HandedLength DEF Handed, Settled
<1>9. GeneratorTypes'
    BY <1>1, <1>2, <1>7 DEF TypeOK, GeneratorTypes
<1>10. TypeOK'
    BY <1>1, <1>2, <1>7, <1>8, <1>9 DEF TypeOK
<1>11. out = << >> => out' = << >>
    BY DEF Produce, Deliver, DeliveryFailed, generatorVars
<1>12. InPhase'
    BY <1>1, <1>2, <1>5, <1>11 DEF InPhase
<1>13. ManifestTrue'
    BY <1>2, <1>5 DEF ManifestTrue
<1> QED
    BY <1>4, <1>10, <1>12, <1>13 DEF RunInv

\* The ends of a run; only the good one writes a manifest, and it is true.
LEMMA EndStep ==
    ASSUME RunInv, BufferError \/ FlushTimeout \/ Finish
    PROVE  RunInv'
<1>1. TypeOK /\ InPhase /\ RecordsInv
    BY DEF RunInv
<1>2. /\ UNCHANGED generatorVars /\ UNCHANGED <<shutdown, tick_index, sent, queue, topic, lost>>
      /\ phase # "exited" /\ phase' = "exited"
    BY DEF BufferError, FlushTimeout, Finish, WriteManifest, Exit, Running
<1>3. /\ RecordsInv' /\ GeneratorTypes'
      /\ UNCHANGED <<late_heap, counter, stats, cursor, sim_time, out>>
    BY <1>1, <1>2, StandsStill
<1>4. outcome = None /\ manifest = None /\ None # "ok" /\ None \notin Failures /\ None \notin Manifests
    BY <1>1, <1>2, StillRunning
<1>5. Handed' = Handed
    BY <1>2 DEF Handed, Settled
<1>6. CASE BufferError \/ FlushTimeout
  <2>1. manifest' = None /\ outcome' \in {"exception", "undelivered"}
      BY <1>4, <1>6 DEF BufferError, FlushTimeout, Exit
  <2>2. TypeOK'
      BY <1>1, <1>2, <1>3, <1>4, <1>5, <2>1 DEF TypeOK, Failures
  <2>3. InPhase'
      BY <1>1, <1>2, <1>3, <2>1 DEF InPhase
  <2>4. ManifestTrue'
      BY <2>1 DEF ManifestTrue
  <2> QED
      BY <1>3, <2>2, <2>3, <2>4 DEF RunInv
<1>7. CASE Finish
  <2>1. /\ phase = "flush" /\ queue = << >> /\ WriteManifest
      BY <1>7 DEF Finish
  <2>2. out = << >> /\ late_heap = {}
      BY <1>1, <2>1 DEF InPhase
  <2>3. /\ sent = Len(Settled) /\ sent = TotalProduced(stats)
        /\ stats.clean = Cardinality(ValidIds)
        /\ stats.clean + stats.duplicates = CountOf(IsValid)
        /\ stats.invalid = CountOf(LAMBDA r : ~IsValid(r))
        /\ stats.late = CountOf(LAMBDA r : r.late)
        /\ CountOf(IsValid) \in Nat
      BY <1>1, <2>1, <2>2, SettledCounts DEF RecordsInv
  <2>4. /\ outcome' = "ok"
        /\ manifest' = [records_sent |-> sent, sim_end |-> sim_time, stats |-> stats]
      BY <2>1, <2>3 DEF WriteManifest, Exit
  <2>5. /\ manifest' \in Manifests /\ manifest'.records_sent = sent /\ manifest'.stats = stats
    <3>1. sent \in Nat /\ sim_time \in Nat /\ stats \in InjectionStats
        BY <1>1, <2>3, Queues, HandedLength DEF TypeOK, GeneratorTypes, Settled
    <3> QED
        BY <2>4, <3>1 DEF Manifests
  <2>6. TypeOK'
      BY <1>1, <1>2, <1>3, <1>4, <1>5, <2>4, <2>5 DEF TypeOK
  <2>7. InPhase'
      BY <1>1, <1>2, <1>3, <2>1, <2>2, <2>4 DEF InPhase
  <2>8. ManifestTrue'
    <3>1. /\ Settled' = Settled /\ ValidIds' = ValidIds
        BY <1>2 DEF Settled, ValidIds, Wire, Handed
    <3>2. /\ CountOf(IsValid)' = CountOf(IsValid)
          /\ CountOf(LAMBDA r : ~IsValid(r))' = CountOf(LAMBDA r : ~IsValid(r))
          /\ CountOf(LAMBDA r : r.late)' = CountOf(LAMBDA r : r.late)
        BY <3>1 DEF CountOf
    <3>3. stats.duplicates = CountOf(IsValid) - Cardinality(ValidIds)
        BY <1>1, <2>3, StatsFields
    <3>4. /\ queue' = << >> /\ manifest'.records_sent = Len(Settled')
          /\ manifest'.stats.clean = Cardinality(ValidIds')
          /\ manifest'.stats.duplicates = CountOf(IsValid)' - Cardinality(ValidIds')
          /\ manifest'.stats.invalid = CountOf(LAMBDA r : ~IsValid(r))'
          /\ manifest'.stats.late = CountOf(LAMBDA r : r.late)'
        BY <1>2, <2>1, <2>3, <2>5, <3>1, <3>2, <3>3
    <3> QED
        BY <3>4 DEF ManifestTrue
  <2> QED
      BY <1>3, <2>6, <2>7, <2>8 DEF RunInv
<1> QED
    BY <1>6, <1>7

LEMMA RunStep == RunInv /\ [Next]_vars => RunInv'
<1> SUFFICES ASSUME RunInv, [Next]_vars PROVE RunInv'
    OBVIOUS
<1>1. CASE UNCHANGED vars
  <2>1. /\ UNCHANGED generatorVars
        /\ UNCHANGED <<shutdown, phase, tick_index, sent, queue, topic, lost, manifest, outcome>>
      BY <1>1 DEF vars, runVars
  <2>2. RecordsInv' /\ GeneratorTypes' /\ UNCHANGED <<late_heap, counter, stats, cursor, sim_time, out>>
      BY <2>1, StandsStill DEF RunInv
  <2>3. TypeOK'
      BY <2>1, <2>2 DEF RunInv, TypeOK, Handed, Settled
  <2>4. InPhase'
      BY <2>1, <2>2 DEF RunInv, InPhase
  <2>5. ManifestTrue'
      BY <2>1 DEF RunInv, ManifestTrue, Settled, ValidIds, Wire, Handed, CountOf
  <2> QED
      BY <2>2, <2>3, <2>4, <2>5 DEF RunInv
<1>2. CASE BeginTick \/ LeaveLoop \/ Generate \/ FinishTick \/ Flush \/ Signal
    BY <1>2, LoopStep
<1>3. CASE Produce \/ Deliver \/ DeliveryFailed
    BY <1>3, HandlingStep
<1>4. CASE BufferError \/ FlushTimeout \/ Finish
    BY <1>4, EndStep
<1> QED
    BY <1>1, <1>2, <1>3, <1>4 DEF Next, Main
-----------------------------------------------------------------------------
(* What every run keeps.                                                   *)

\* The inductive invariant: the records issued so far, in the generator, in the client's
\* buffer and at the broker together, stand to the vehicles, the clock and the statistics
\* as they should.
THEOREM RunCorrect == Spec => []RunInv
<1> QED
    BY Initially, RunStep, PTL DEF Spec

\* The types, and the clock: simulated time is a tick per tick, sent counts what was
\* handed to the client, and only a run that ends well has a manifest.
THEOREM RunTypeCorrect == Spec => []TypeOK
<1>1. RunInv => TypeOK
    BY DEF RunInv
<1> QED
    BY <1>1, RunCorrect, PTL

\* The manifest that a run leaves is true of the records that were sent.
THEOREM ManifestIsTrue == Spec => []ManifestTrue
<1>1. RunInv => ManifestTrue
    BY DEF RunInv
<1> QED
    BY <1>1, RunCorrect, PTL

\* The reconciliation of sent with produced at the end of a run never fails.
THEOREM CountsAgree == Spec => []NeverMiscounted
<1>1. RunInv => NeverMiscounted
    BY DEF RunInv, InPhase, NeverMiscounted
<1> QED
    BY <1>1, RunCorrect, PTL

\* No event id is sent for two readings, whatever the fleet and the routes.
THEOREM OneReading == Spec => []OneReadingPerId
<1>1. ASSUME RunInv PROVE OneReadingPerId
  <2>1. Wire \subseteq Issued /\ OneRecordPerId
      BY <1>1, WireIssued DEF RunInv, RecordsInv, Issued
  <2> QED
      BY <2>1 DEF OneRecordPerId, OneReadingPerId
<1> QED
    BY <1>1, RunCorrect, PTL

\* Within a trip, time and distance go on and fuel is burnt as the distance takes it.
THEOREM TripsAreCoherent == Spec => []TripCoherent
<1>1. ASSUME RunInv PROVE TripCoherent
  <2>1. Wire \subseteq Issued /\ TripsCoherent
      BY <1>1, WireIssued DEF RunInv, RecordsInv, Issued
  <2> QED
      BY <2>1 DEF TripsCoherent, TripCoherent
<1> QED
    BY <1>1, RunCorrect, PTL

\* No late reading stays in the buffer after its time, nor after the end of a good run.
THEOREM NoneOverdue == Spec => []NothingOverdue
<1>1. RunInv => NothingOverdue
    BY DEF RunInv, InPhase, RecordsInv, Booked, NothingOverdue
<1> QED
    BY <1>1, RunCorrect, PTL
=============================================================================
