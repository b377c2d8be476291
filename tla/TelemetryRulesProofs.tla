------------------------- MODULE TelemetryRulesProofs -------------------------
(***************************************************************************)
(* What the rules of rules.yml say of any payload of the simulator, and    *)
(* that each corruption breaks the one rule that is there to catch it: for *)
(* every fleet, speed, tank and number of ticks.                           *)
(***************************************************************************)
EXTENDS TelemetryProducerProofs

-----------------------------------------------------------------------------
(* Three-valued logic.                                                     *)

LEMMA SqlValues ==
    /\ Null # TRUE /\ Null # FALSE /\ Null \notin Int /\ Null # Text /\ Null # Blank
    /\ Text \notin Int /\ Text # Blank /\ Blank \notin Int /\ Day \in Nat /\ Ancient \in Int
<1>1. Null \notin BOOLEAN /\ Null \notin Int /\ Null # Text /\ Null # Blank
    BY SqlValuesAssumption DEF SqlValuesAssumption
<1>2. TRUE \in BOOLEAN /\ FALSE \in BOOLEAN
    OBVIOUS
<1>3. Null # TRUE /\ Null # FALSE
    BY <1>1, <1>2, Zenon
<1>4. Text \notin Int /\ Text # Blank /\ Blank \notin Int /\ Day \in Nat /\ Ancient \in Int
    BY SqlValuesAssumption DEF SqlValuesAssumption
<1> QED
    BY <1>1, <1>3, <1>4

\* On values that are not NULL the connectives are those of logic; a disjunction with TRUE
\* is TRUE and a conjunction with FALSE is FALSE whatever the other value.
LEMMA Connectives ==
    /\ \A q : SqlOr(TRUE, q) = TRUE
    /\ SqlOr(FALSE, TRUE) = TRUE /\ SqlOr(FALSE, FALSE) = FALSE
    /\ SqlAnd(TRUE, TRUE) = TRUE
    /\ \A q : SqlAnd(FALSE, q) = FALSE /\ SqlAnd(q, FALSE) = FALSE
    /\ CoalesceFalse(TRUE) = TRUE /\ CoalesceFalse(FALSE) = FALSE
<1>1. TRUE # FALSE
    OBVIOUS
<1>2. \A q : SqlOr(TRUE, q) = TRUE
    BY DEF SqlOr
<1>3. SqlOr(FALSE, TRUE) = TRUE
    BY DEF SqlOr
<1>4. SqlOr(FALSE, FALSE) = FALSE
    BY <1>1, SqlValues, Zenon DEF SqlOr
<1>5. SqlAnd(TRUE, TRUE) = TRUE
    BY <1>1, SqlValues, Zenon DEF SqlAnd
<1>6. \A q : SqlAnd(FALSE, q) = FALSE /\ SqlAnd(q, FALSE) = FALSE
    BY DEF SqlAnd
<1>7. CoalesceFalse(TRUE) = TRUE /\ CoalesceFalse(FALSE) = FALSE
    BY SqlValues DEF CoalesceFalse
<1> QED
    BY <1>2, <1>3, <1>4, <1>5, <1>6, <1>7

\* A rule on a field that may be absent: it fails on a value that its condition rejects.
LEMMA OptionalFails ==
    ASSUME NEW x, NEW p, x # Null => p \in BOOLEAN
    PROVE  ~CoalesceFalse(Optional(x, p)) <=> x # Null /\ p = FALSE
<1>1. CASE x = Null
  <2>1. Optional(x, p) = SqlOr(TRUE, p)
      BY <1>1 DEF Optional, IsNull
  <2>2. CoalesceFalse(Optional(x, p)) = TRUE
      BY <2>1, Connectives
  <2> QED
      BY <1>1, <2>2
<1>2. CASE x # Null /\ p = TRUE
  <2>1. Optional(x, p) = SqlOr(FALSE, TRUE)
      BY <1>2 DEF Optional, IsNull
  <2>2. CoalesceFalse(Optional(x, p)) = TRUE
      BY <2>1, Connectives
  <2> QED
      BY <1>2, <2>2
<1>3. CASE x # Null /\ p = FALSE
  <2>1. Optional(x, p) = SqlOr(FALSE, FALSE)
      BY <1>3 DEF Optional, IsNull
  <2>2. CoalesceFalse(Optional(x, p)) = FALSE
      BY <2>1, Connectives
  <2> QED
      BY <1>3, <2>2
<1> QED
    BY <1>1, <1>2, <1>3

LEMMA RequiredFails ==
    ASSUME NEW x
    PROVE  ~CoalesceFalse(Required(x)) <=> x \in {Null, Blank}
<1>1. CASE x = Null
  <2>1. Required(x) = SqlAnd(FALSE, NotBlank(x))
      BY <1>1 DEF Required, IsNull
  <2> QED
      BY <1>1, <2>1, Connectives
<1>2. CASE x # Null /\ x = Blank
  <2>1. Required(x) = SqlAnd(TRUE, FALSE)
      BY <1>2 DEF Required, IsNull, NotBlank
  <2> QED
      BY <1>2, <2>1, Connectives
<1>3. CASE x # Null /\ x # Blank
  <2>1. Required(x) = SqlAnd(TRUE, TRUE)
      BY <1>3 DEF Required, IsNull, NotBlank
  <2> QED
      BY <1>3, <2>1, Connectives
<1> QED
    BY <1>1, <1>2, <1>3

\* Comparisons of numbers, and of a number that may be absent.
LEMMA Compared ==
    ASSUME NEW x \in Int, NEW y \in Int
    PROVE  /\ x <= y => Leq(x, y) = TRUE
           /\ ~(x <= y) => Leq(x, y) = FALSE
           /\ Leq(x, y) \in BOOLEAN
<1>1. x # Null /\ y # Null
    BY SqlValues
<1>2. CASE x <= y
  <2>1. Leq(x, y) = TRUE
      BY <1>1, <1>2 DEF Leq
  <2> QED
      BY <1>2, <2>1
<1>3. CASE ~(x <= y)
  <2>1. Leq(x, y) = FALSE
      BY <1>1, <1>3 DEF Leq
  <2> QED
      BY <1>3, <2>1
<1> QED
    BY <1>2, <1>3

LEMMA AtLeastFails ==
    ASSUME NEW x, x \in Int \/ x = Null, NEW low \in Int
    PROVE  ~CoalesceFalse(Optional(x, Leq(low, x))) <=> x \in Int /\ x < low
<1>1. x \in Int <=> x # Null
    BY SqlValues
<1>2. x # Null => Leq(low, x) \in BOOLEAN
    BY <1>1, Compared
<1>3. ~CoalesceFalse(Optional(x, Leq(low, x))) <=> x # Null /\ Leq(low, x) = FALSE
    BY <1>2, OptionalFails
<1>4. x \in Int => (Leq(low, x) = FALSE <=> ~(low <= x))
    BY Compared
<1>5. x \in Int => (~(low <= x) <=> x < low)
    OBVIOUS
<1> QED
    BY <1>1, <1>3, <1>4, <1>5

LEMMA AtMostFails ==
    ASSUME NEW x, x \in Int \/ x = Null, NEW high \in Int
    PROVE  ~CoalesceFalse(Optional(x, Leq(x, high))) <=> x \in Int /\ x > high
<1>1. x \in Int <=> x # Null
    BY SqlValues
<1>2. x # Null => Leq(x, high) \in BOOLEAN
    BY <1>1, Compared
<1>3. ~CoalesceFalse(Optional(x, Leq(x, high))) <=> x # Null /\ Leq(x, high) = FALSE
    BY <1>2, OptionalFails
<1>4. x \in Int => (Leq(x, high) = FALSE <=> ~(x <= high))
    BY Compared
<1>5. x \in Int => (~(x <= high) <=> x > high)
    OBVIOUS
<1> QED
    BY <1>1, <1>3, <1>4, <1>5

LEMMA WithinFails ==
    ASSUME NEW x, x \in Int \/ x = Null, NEW low \in Int, NEW high \in Int
    PROVE  ~CoalesceFalse(Optional(x, Within(x, low, high))) <=>
               x \in Int /\ (x < low \/ x > high)
<1>1. x \in Int <=> x # Null
    BY SqlValues
<1>2. ASSUME x \in Int
      PROVE  /\ low <= x /\ x <= high => Within(x, low, high) = TRUE
             /\ ~(low <= x /\ x <= high) => Within(x, low, high) = FALSE
  <2>1. CASE low <= x /\ x <= high
    <3>1. Leq(low, x) = TRUE /\ Leq(x, high) = TRUE
        BY <1>2, <2>1, Compared
    <3> QED
        BY <2>1, <3>1, Connectives DEF Within
  <2>2. CASE ~(low <= x)
    <3>1. Leq(low, x) = FALSE
        BY <1>2, <2>2, Compared
    <3> QED
        BY <2>2, <3>1, Connectives DEF Within
  <2>3. CASE ~(x <= high)
    <3>1. Leq(x, high) = FALSE
        BY <1>2, <2>3, Compared
    <3> QED
        BY <2>3, <3>1, Connectives DEF Within
  <2> QED
      BY <2>1, <2>2, <2>3
<1>3. x # Null => Within(x, low, high) \in BOOLEAN
    BY <1>1, <1>2
<1>4. ~CoalesceFalse(Optional(x, Within(x, low, high)))
          <=> x # Null /\ Within(x, low, high) = FALSE
    BY <1>3, OptionalFails
<1>5. x \in Int => (Within(x, low, high) = FALSE <=> ~(low <= x /\ x <= high))
    BY <1>2
<1>6. x \in Int => (~(low <= x /\ x <= high) <=> x < low \/ x > high)
    OBVIOUS
<1> QED
    BY <1>1, <1>4, <1>5, <1>6

-----------------------------------------------------------------------------
(* The critical rules on a payload.                                        *)

\* The payloads of the contract: NULL or a value of some kind in each field.
Fields ==
    CastFields \union {"event_id", "vehicle_id", "trip_id", "schema_version"}
IsPayload(p) == DOMAIN p = Fields

\* The field a rule is about, and the values it rejects, by what rules.yml says of it.
FieldOf ==
    [vehicle_id_not_null |-> "vehicle_id",
     event_id_not_null |-> "event_id",
     event_time_not_null |-> "event_time",
     trip_id_not_null |-> "trip_id",
     speed_type_valid |-> "speed",
     fuel_level_type_valid |-> "fuel_level",
     engine_temperature_type_valid |-> "engine_temperature",
     speed_non_negative |-> "speed",
     speed_within_plausible_max |-> "speed",
     fuel_level_range |-> "fuel_level",
     battery_level_range |-> "battery_level",
     engine_temperature_range |-> "engine_temperature",
     latitude_range |-> "latitude",
     longitude_range |-> "longitude",
     odometer_non_negative |-> "odometer_km",
     event_time_not_in_future |-> "event_time",
     event_time_not_ancient |-> "event_time"]
Rejects(name, x, now) ==
    \/ /\ name \in {"vehicle_id_not_null", "event_id_not_null", "trip_id_not_null"}
       /\ x \in {Null, Blank}
    \/ name = "event_time_not_null" /\ x \notin Int
    \/ /\ name \in {"speed_type_valid", "fuel_level_type_valid", "engine_temperature_type_valid"}
       /\ x \notin Int \union {Null}
    \/ name \in {"speed_non_negative", "odometer_non_negative"} /\ x \in Int /\ x < 0
    \/ name = "speed_within_plausible_max" /\ x \in Int /\ x > 2000
    \/ /\ name \in {"fuel_level_range", "battery_level_range"}
       /\ x \in Int /\ (x < 0 \/ x > 1000)
    \/ name = "engine_temperature_range" /\ x \in Int /\ (x < -500 \/ x > 2000)
    \/ name = "latitude_range" /\ x \in Int /\ (x < -900 \/ x > 900)
    \/ name = "longitude_range" /\ x \in Int /\ (x < -1800 \/ x > 1800)
    \/ name = "event_time_not_in_future" /\ x \in Int /\ x > now + Day
    \/ name = "event_time_not_ancient" /\ x \in Int /\ x < Ancient
Rejecting(f, x, now) ==
    {name \in CriticalRuleNames : FieldOf[name] = f /\ Rejects(name, x, now)}
Breaks(p, now, name) == Rejects(name, p[FieldOf[name]], now)

LEMMA FieldsOfRules == \A name \in CriticalRuleNames : FieldOf[name] \in Fields
BY DEF CriticalRuleNames, FieldOf, Fields, CastFields, NumericFields

\* A field that is not a number is NULL in the row; its raw value is not.
LEMMA Parsed ==
    ASSUME NEW p, IsPayload(p)
    PROVE  /\ \A f \in CastFields :
                  /\ Parse(p)[f] \in Int \/ Parse(p)[f] = Null
                  /\ Parse(p)[f] \in Int <=> p[f] \in Int
                  /\ p[f] \in Int => Parse(p)[f] = p[f]
           /\ Parse(p).event_id = p.event_id /\ Parse(p).vehicle_id = p.vehicle_id
           /\ Parse(p).trip_id = p.trip_id
<1>1. ASSUME NEW f \in CastFields
      PROVE  /\ Parse(p)[f] \in Int \/ Parse(p)[f] = Null
             /\ Parse(p)[f] \in Int <=> p[f] \in Int
             /\ p[f] \in Int => Parse(p)[f] = p[f]
  <2>1. Parse(p)[f] = Cast(p[f])
      BY DEF Parse, IsPayload, Fields
  <2> QED
      BY <2>1, SqlValues DEF Cast
<1>2. \A f \in Fields \ CastFields : Parse(p)[f] = p[f]
    BY DEF Parse, IsPayload
<1> QED
    BY <1>1, <1>2 DEF Fields, CastFields, NumericFields

LEMMA TypeFails ==
    ASSUME NEW p, IsPayload(p), NEW f \in CastFields
    PROVE  ~CoalesceFalse(TypeValid(p, Parse(p), f)) <=> p[f] \notin Int \union {Null}
<1>1. Parse(p)[f] \in Int \/ Parse(p)[f] = Null
    BY Parsed
<1>2. Parse(p)[f] \in Int <=> p[f] \in Int
    BY Parsed
<1>3. TypeValid(p, Parse(p), f) = SqlOr(p[f] = Null, ~(Parse(p)[f] = Null))
    BY DEF TypeValid, IsNull
<1>4. CASE p[f] = Null
  <2>1. TypeValid(p, Parse(p), f) = SqlOr(TRUE, ~(Parse(p)[f] = Null))
      BY <1>3, <1>4
  <2> QED
      BY <1>4, <2>1, Connectives
<1>5. CASE p[f] \in Int
  <2>1. TypeValid(p, Parse(p), f) = SqlOr(FALSE, TRUE)
      BY <1>2, <1>3, <1>5, SqlValues
  <2> QED
      BY <1>5, <2>1, Connectives
<1>6. CASE p[f] # Null /\ p[f] \notin Int
  <2>1. TypeValid(p, Parse(p), f) = SqlOr(FALSE, FALSE)
      BY <1>1, <1>2, <1>3, <1>6
  <2> QED
      BY <1>6, <2>1, Connectives
<1> QED
    BY <1>4, <1>5, <1>6

LEMMA EachRule ==
    ASSUME NEW p, IsPayload(p), NEW now \in Int, NEW name \in CriticalRuleNames
    PROVE  ~CoalesceFalse(Expressions(p, Parse(p), now)[name]) <=> Breaks(p, now, name)
<1> DEFINE row == Parse(p)
           verdict == Expressions(p, row, now)
<1>1. /\ row.event_id = p.event_id /\ row.vehicle_id = p.vehicle_id
      /\ row.trip_id = p.trip_id
    BY Parsed
<1>2. ASSUME NEW f \in CastFields
      PROVE  /\ row[f] \in Int \/ row[f] = Null
             /\ row[f] \in Int <=> p[f] \in Int
             /\ p[f] \in Int => row[f] = p[f]
    BY Parsed
<1>3. /\ "speed" \in CastFields /\ "fuel_level" \in CastFields
      /\ "engine_temperature" \in CastFields /\ "battery_level" \in CastFields
      /\ "latitude" \in CastFields /\ "longitude" \in CastFields
      /\ "odometer_km" \in CastFields /\ "event_time" \in CastFields
    BY DEF CastFields, NumericFields
<1>4. now + Day \in Int /\ Ancient \in Int
    BY SqlValues
<1>5. ASSUME NEW f \in CastFields, NEW low \in Int
      PROVE  ~CoalesceFalse(Optional(row[f], Leq(low, row[f]))) <=> p[f] \in Int /\ p[f] < low
    BY <1>2, AtLeastFails
<1>6. ASSUME NEW f \in CastFields, NEW high \in Int
      PROVE  ~CoalesceFalse(Optional(row[f], Leq(row[f], high))) <=> p[f] \in Int /\ p[f] > high
    BY <1>2, AtMostFails
<1>7. ASSUME NEW f \in CastFields, NEW low \in Int, NEW high \in Int
      PROVE  ~CoalesceFalse(Optional(row[f], Within(row[f], low, high))) <=>
                 p[f] \in Int /\ (p[f] < low \/ p[f] > high)
    BY <1>2, WithinFails
<1>8. ASSUME NEW f \in CastFields
      PROVE  ~CoalesceFalse(TypeValid(p, row, f)) <=> p[f] \notin Int \union {Null}
    BY TypeFails
<1> SUFFICES ~CoalesceFalse(verdict[name]) <=> Breaks(p, now, name)
    OBVIOUS
<1> HIDE DEF row
<1>9. CASE name = "vehicle_id_not_null"
  <2>1. verdict[name] = Required(p.vehicle_id)
      BY <1>1, <1>9 DEF Expressions
  <2>2. Breaks(p, now, name) <=> p.vehicle_id \in {Null, Blank}
      BY <1>9 DEF Breaks, Rejects, FieldOf
  <2> QED
      BY <2>1, <2>2, RequiredFails
<1>10. CASE name = "event_id_not_null"
  <2>1. verdict[name] = Required(p.event_id)
      BY <1>1, <1>10 DEF Expressions
  <2>2. Breaks(p, now, name) <=> p.event_id \in {Null, Blank}
      BY <1>10 DEF Breaks, Rejects, FieldOf
  <2> QED
      BY <2>1, <2>2, RequiredFails
<1>11. CASE name = "event_time_not_null"
  <2>1. verdict[name] = ~(row["event_time"] = Null)
      BY <1>11 DEF Expressions, IsNull
  <2>2. Breaks(p, now, name) <=> p["event_time"] \notin Int
      BY <1>11 DEF Breaks, Rejects, FieldOf
  <2>3. row["event_time"] = Null <=> p["event_time"] \notin Int
      BY <1>2, <1>3, SqlValues
  <2> QED
      BY <2>1, <2>2, <2>3, Connectives
<1>12. CASE name = "trip_id_not_null"
  <2>1. verdict[name] = Required(p.trip_id)
      BY <1>1, <1>12 DEF Expressions
  <2>2. Breaks(p, now, name) <=> p.trip_id \in {Null, Blank}
      BY <1>12 DEF Breaks, Rejects, FieldOf
  <2> QED
      BY <2>1, <2>2, RequiredFails
<1>13. CASE name = "speed_type_valid"
  <2>1. verdict[name] = TypeValid(p, row, "speed")
      BY <1>13 DEF Expressions
  <2>2. Breaks(p, now, name) <=> p.speed \notin Int \union {Null}
      BY <1>13 DEF Breaks, Rejects, FieldOf
  <2> QED
      BY <2>1, <2>2, <1>3, <1>8
<1>14. CASE name = "fuel_level_type_valid"
  <2>1. verdict[name] = TypeValid(p, row, "fuel_level")
      BY <1>14 DEF Expressions
  <2>2. Breaks(p, now, name) <=> p.fuel_level \notin Int \union {Null}
      BY <1>14 DEF Breaks, Rejects, FieldOf
  <2> QED
      BY <2>1, <2>2, <1>3, <1>8
<1>15. CASE name = "engine_temperature_type_valid"
  <2>1. verdict[name] = TypeValid(p, row, "engine_temperature")
      BY <1>15 DEF Expressions
  <2>2. Breaks(p, now, name) <=> p.engine_temperature \notin Int \union {Null}
      BY <1>15 DEF Breaks, Rejects, FieldOf
  <2> QED
      BY <2>1, <2>2, <1>3, <1>8
<1>16. CASE name = "speed_non_negative"
  <2>1. verdict[name] = Optional(row.speed, Leq(0, row.speed))
      BY <1>16 DEF Expressions
  <2>2. Breaks(p, now, name) <=> p.speed \in Int /\ p.speed < 0
      BY <1>16 DEF Breaks, Rejects, FieldOf
  <2> QED
      BY <2>1, <2>2, <1>3, <1>5
<1>17. CASE name = "odometer_non_negative"
  <2>1. verdict[name] = Optional(row.odometer_km, Leq(0, row.odometer_km))
      BY <1>17 DEF Expressions
  <2>2. Breaks(p, now, name) <=> p.odometer_km \in Int /\ p.odometer_km < 0
      BY <1>17 DEF Breaks, Rejects, FieldOf
  <2> QED
      BY <2>1, <2>2, <1>3, <1>5
<1>18. CASE name = "speed_within_plausible_max"
  <2>1. verdict[name] = Optional(row.speed, Leq(row.speed, 2000))
      BY <1>18 DEF Expressions
  <2>2. Breaks(p, now, name) <=> p.speed \in Int /\ p.speed > 2000
      BY <1>18 DEF Breaks, Rejects, FieldOf
  <2> QED
      BY <2>1, <2>2, <1>3, <1>6
<1>19. CASE name = "fuel_level_range"
  <2>1. verdict[name] = Optional(row.fuel_level, Within(row.fuel_level, 0, 1000))
      BY <1>19 DEF Expressions
  <2>2. Breaks(p, now, name) <=> p.fuel_level \in Int /\ (p.fuel_level < 0 \/ p.fuel_level > 1000)
      BY <1>19 DEF Breaks, Rejects, FieldOf
  <2> DEFINE low == 0
  <2> DEFINE high == 1000
  <2>3. low \in Int /\ high \in Int
      OBVIOUS
  <2> HIDE DEF low, high
  <2>4. ~CoalesceFalse(Optional(row["fuel_level"], Within(row["fuel_level"], low, high))) <=>
            p["fuel_level"] \in Int /\ (p["fuel_level"] < low \/ p["fuel_level"] > high)
      BY <1>3, <1>7, <2>3
  <2> USE DEF low, high
  <2> QED
      BY <2>1, <2>2, <2>4
<1>20. CASE name = "battery_level_range"
  <2>1. verdict[name] = Optional(row.battery_level, Within(row.battery_level, 0, 1000))
      BY <1>20 DEF Expressions
  <2>2. Breaks(p, now, name) <=>
            /\ p.battery_level \in Int
            /\ p.battery_level < 0 \/ p.battery_level > 1000
      BY <1>20 DEF Breaks, Rejects, FieldOf
  <2> DEFINE low == 0
  <2> DEFINE high == 1000
  <2>3. low \in Int /\ high \in Int
      OBVIOUS
  <2> HIDE DEF low, high
  <2>4. ~CoalesceFalse(Optional(row["battery_level"], Within(row["battery_level"], low, high))) <=>
            p["battery_level"] \in Int /\ (p["battery_level"] < low \/ p["battery_level"] > high)
      BY <1>3, <1>7, <2>3
  <2> USE DEF low, high
  <2> QED
      BY <2>1, <2>2, <2>4
<1>21. CASE name = "engine_temperature_range"
  <2>1. verdict[name] = Optional(row.engine_temperature, Within(row.engine_temperature, -500, 2000))
      BY <1>21 DEF Expressions
  <2>2. Breaks(p, now, name) <=>
            /\ p.engine_temperature \in Int
            /\ p.engine_temperature < -500 \/ p.engine_temperature > 2000
      BY <1>21 DEF Breaks, Rejects, FieldOf
  <2> DEFINE low == -500
  <2> DEFINE high == 2000
  <2>3. low \in Int /\ high \in Int
      OBVIOUS
  <2> HIDE DEF low, high
  <2>4. ~CoalesceFalse(Optional(row["engine_temperature"],
                                 Within(row["engine_temperature"], low, high))) <=>
            p["engine_temperature"] \in Int
                /\ (p["engine_temperature"] < low \/ p["engine_temperature"] > high)
      BY <1>3, <1>7, <2>3
  <2> USE DEF low, high
  <2> QED
      BY <2>1, <2>2, <2>4
<1>22. CASE name = "latitude_range"
  <2>1. verdict[name] = Optional(row.latitude, Within(row.latitude, -900, 900))
      BY <1>22 DEF Expressions
  <2>2. Breaks(p, now, name) <=> p.latitude \in Int /\ (p.latitude < -900 \/ p.latitude > 900)
      BY <1>22 DEF Breaks, Rejects, FieldOf
  <2> DEFINE low == -900
  <2> DEFINE high == 900
  <2>3. low \in Int /\ high \in Int
      OBVIOUS
  <2> HIDE DEF low, high
  <2>4. ~CoalesceFalse(Optional(row["latitude"], Within(row["latitude"], low, high))) <=>
            p["latitude"] \in Int /\ (p["latitude"] < low \/ p["latitude"] > high)
      BY <1>3, <1>7, <2>3
  <2> USE DEF low, high
  <2> QED
      BY <2>1, <2>2, <2>4
<1>23. CASE name = "longitude_range"
  <2>1. verdict[name] = Optional(row.longitude, Within(row.longitude, -1800, 1800))
      BY <1>23 DEF Expressions
  <2>2. Breaks(p, now, name) <=> p.longitude \in Int /\ (p.longitude < -1800 \/ p.longitude > 1800)
      BY <1>23 DEF Breaks, Rejects, FieldOf
  <2> DEFINE low == -1800
  <2> DEFINE high == 1800
  <2>3. low \in Int /\ high \in Int
      OBVIOUS
  <2> HIDE DEF low, high
  <2>4. ~CoalesceFalse(Optional(row["longitude"], Within(row["longitude"], low, high))) <=>
            p["longitude"] \in Int /\ (p["longitude"] < low \/ p["longitude"] > high)
      BY <1>3, <1>7, <2>3
  <2> USE DEF low, high
  <2> QED
      BY <2>1, <2>2, <2>4
<1>24. CASE name = "event_time_not_in_future"
  <2>1. verdict[name] = Optional(row["event_time"], Leq(row["event_time"], now + Day))
      BY <1>24 DEF Expressions
  <2>2. Breaks(p, now, name) <=> p["event_time"] \in Int /\ p["event_time"] > now + Day
      BY <1>24 DEF Breaks, Rejects, FieldOf
  <2> QED
      BY <2>1, <2>2, <1>3, <1>4, <1>6
<1>25. CASE name = "event_time_not_ancient"
  <2>1. verdict[name] = Optional(row["event_time"], Leq(Ancient, row["event_time"]))
      BY <1>25 DEF Expressions
  <2>2. Breaks(p, now, name) <=> p["event_time"] \in Int /\ p["event_time"] < Ancient
      BY <1>25 DEF Breaks, Rejects, FieldOf
  <2> QED
      BY <2>1, <2>2, <1>3, <1>4, <1>5
<1> QED
    BY <1>9, <1>10, <1>11, <1>12, <1>13, <1>14, <1>15, <1>16, <1>17,
       <1>18, <1>19, <1>20, <1>21, <1>22, <1>23, <1>24, <1>25 DEF CriticalRuleNames

-----------------------------------------------------------------------------
(* A sound payload, and its corruptions.                                   *)

LEMMA FailedBreak ==
    ASSUME NEW p, IsPayload(p), NEW now \in Int
    PROVE  FailedRuleNames(CriticalRuleNames, p, now) =
               {name \in CriticalRuleNames : Breaks(p, now, name)}
<1>1. FailedRuleNames(CriticalRuleNames, p, now) =
          {name \in CriticalRuleNames : ~CoalesceFalse(Expressions(p, Parse(p), now)[name])}
    BY DEF FailedRuleNames
<1> QED
    BY <1>1, EachRule

SoundPayload(p, now) ==
    /\ DOMAIN p = Fields
    /\ p.vehicle_id \notin {Null, Blank} /\ p.event_id \notin {Null, Blank}
    /\ p.trip_id \notin {Null, Blank}
    /\ p.event_time \in Int /\ Ancient <= p.event_time /\ p.event_time <= now + Day
    /\ p.speed \in Int /\ 0 <= p.speed /\ p.speed <= 2000
    /\ p.fuel_level \in Int /\ 0 <= p.fuel_level /\ p.fuel_level <= 1000
    /\ p.battery_level \in Int /\ 0 <= p.battery_level /\ p.battery_level <= 1000
    /\ p.engine_temperature \in Int /\ -500 <= p.engine_temperature /\ p.engine_temperature <= 2000
    /\ p.latitude \in Int /\ -900 <= p.latitude /\ p.latitude <= 900
    /\ p.longitude \in Int /\ -1800 <= p.longitude /\ p.longitude <= 1800
    /\ p.odometer_km \in Int /\ 0 <= p.odometer_km

\* A sound payload passes every rule.
LEMMA SoundPasses ==
    ASSUME NEW p, NEW now \in Int, SoundPayload(p, now)
    PROVE  FailedRuleNames(CriticalRuleNames, p, now) = {}
<1>1. IsPayload(p)
    BY DEF SoundPayload, IsPayload
<1>2. now + Day \in Int /\ Ancient \in Int /\ Null \notin Int
    BY SqlValues
<1>4. /\ p.vehicle_id \notin {Null, Blank} /\ p.event_id \notin {Null, Blank}
      /\ p.trip_id \notin {Null, Blank}
    BY DEF SoundPayload
<1>6. /\ p.speed \in Int /\ ~(p.speed < 0) /\ ~(p.speed > 2000)
      /\ p.fuel_level \in Int /\ ~(p.fuel_level < 0) /\ ~(p.fuel_level > 1000)
      /\ p.battery_level \in Int /\ ~(p.battery_level < 0) /\ ~(p.battery_level > 1000)
      /\ p.engine_temperature \in Int /\ ~(p.engine_temperature < -500) /\ ~(p.engine_temperature > 2000)
      /\ p.latitude \in Int /\ ~(p.latitude < -900) /\ ~(p.latitude > 900)
      /\ p.longitude \in Int /\ ~(p.longitude < -1800) /\ ~(p.longitude > 1800)
      /\ p.odometer_km \in Int /\ ~(p.odometer_km < 0)
    BY DEF SoundPayload
<1>7. /\ p.event_time \in Int /\ p.event_time # Null
      /\ ~(p.event_time > now + Day) /\ ~(p.event_time < Ancient)
    BY <1>2 DEF SoundPayload
<1>3. ASSUME NEW name \in CriticalRuleNames
      PROVE  ~Breaks(p, now, name)
  <2>1. CASE name = "vehicle_id_not_null"
      BY <1>4, <2>1 DEF Breaks, Rejects, FieldOf
  <2>2. CASE name = "event_id_not_null"
      BY <1>4, <2>2 DEF Breaks, Rejects, FieldOf
  <2>3. CASE name = "event_time_not_null"
      BY <1>7, <2>3 DEF Breaks, Rejects, FieldOf
  <2>4. CASE name = "trip_id_not_null"
      BY <1>4, <2>4 DEF Breaks, Rejects, FieldOf
  <2>5. CASE name = "speed_type_valid"
      BY <1>6, <2>5 DEF Breaks, Rejects, FieldOf
  <2>6. CASE name = "fuel_level_type_valid"
      BY <1>6, <2>6 DEF Breaks, Rejects, FieldOf
  <2>7. CASE name = "engine_temperature_type_valid"
      BY <1>6, <2>7 DEF Breaks, Rejects, FieldOf
  <2>8. CASE name = "speed_non_negative"
      BY <1>6, <2>8 DEF Breaks, Rejects, FieldOf
  <2>9. CASE name = "speed_within_plausible_max"
      BY <1>6, <2>9 DEF Breaks, Rejects, FieldOf
  <2>10. CASE name = "fuel_level_range"
      BY <1>6, <2>10 DEF Breaks, Rejects, FieldOf
  <2>11. CASE name = "battery_level_range"
      BY <1>6, <2>11 DEF Breaks, Rejects, FieldOf
  <2>12. CASE name = "engine_temperature_range"
      BY <1>6, <2>12 DEF Breaks, Rejects, FieldOf
  <2>13. CASE name = "latitude_range"
      BY <1>6, <2>13 DEF Breaks, Rejects, FieldOf
  <2>14. CASE name = "longitude_range"
      BY <1>6, <2>14 DEF Breaks, Rejects, FieldOf
  <2>15. CASE name = "odometer_non_negative"
      BY <1>6, <2>15 DEF Breaks, Rejects, FieldOf
  <2>16. CASE name = "event_time_not_in_future"
      BY <1>7, <2>16 DEF Breaks, Rejects, FieldOf
  <2>17. CASE name = "event_time_not_ancient"
      BY <1>7, <2>17 DEF Breaks, Rejects, FieldOf
  <2> QED
      BY <2>1, <2>2, <2>3, <2>4, <2>5, <2>6, <2>7, <2>8, <2>9,
         <2>10, <2>11, <2>12, <2>13, <2>14, <2>15, <2>16, <2>17 DEF CriticalRuleNames
<1> QED
    BY <1>1, <1>3, FailedBreak

\* A payload that is sound but for one field breaks the rules that reject its value there,
\* and no other.
LEMMA OneField ==
    ASSUME NEW p, NEW now \in Int, SoundPayload(p, now), NEW f \in Fields,
           NEW q, DOMAIN q = Fields, \A g \in Fields \ {f} : q[g] = p[g],
           NEW x, q[f] = x
    PROVE  FailedRuleNames(CriticalRuleNames, q, now) = Rejecting(f, x, now)
<1>1. DOMAIN q = Fields /\ q[f] = x /\ \A g \in Fields \ {f} : q[g] = p[g]
    OBVIOUS
<1>3. IsPayload(q) /\ IsPayload(p)
    BY <1>1 DEF IsPayload, SoundPayload
<1>4. \A name \in CriticalRuleNames : ~Breaks(p, now, name)
    BY <1>3, SoundPasses, FailedBreak
<1>5. ASSUME NEW name \in CriticalRuleNames
      PROVE  Breaks(q, now, name) <=> FieldOf[name] = f /\ Rejects(name, x, now)
  <2>1. CASE FieldOf[name] = f
      BY <1>1, <2>1 DEF Breaks
  <2>2. CASE FieldOf[name] # f
    <3>1. q[FieldOf[name]] = p[FieldOf[name]]
        BY <1>1, <2>2, FieldsOfRules
    <3> QED
        BY <1>4, <2>2, <3>1 DEF Breaks
  <2> QED
      BY <2>1, <2>2
<1> QED
    BY <1>3, <1>5, FailedBreak DEF Rejecting

\* Each corruption of a sound payload breaks its target rule, and no other.
LEMMA CorruptBreaks ==
    ASSUME NEW p, NEW now \in Int, SoundPayload(p, now), NEW kind \in Corruptions
    PROVE  FailedRuleNames(CriticalRuleNames, Corrupt(p, kind), now) = {TargetRule[kind]}
<1>1. Null \notin Int /\ Text \notin Int /\ Null # Text
    BY SqlValues
<1>2. CASE kind = "null_vehicle_id"
  <2> DEFINE q == Corrupt(p, kind)
  <2>7. q = [p EXCEPT !.vehicle_id = Null]
      BY <1>2 DEF Corrupt
  <2>1. /\ DOMAIN q = Fields /\ q["vehicle_id"] = Null
        /\ \A g \in Fields \ {"vehicle_id"} : q[g] = p[g]
      BY <2>7 DEF SoundPayload, Fields, CastFields, NumericFields
  <2> HIDE DEF q
  <2>2. "vehicle_id" \in Fields /\ "vehicle_id_not_null" \in CriticalRuleNames
      BY DEF Fields, CastFields, NumericFields, CriticalRuleNames
  <2>3. FailedRuleNames(CriticalRuleNames, q, now) = Rejecting("vehicle_id", Null, now)
      BY <2>1, <2>2, OneField
  <2>4. ASSUME NEW name \in CriticalRuleNames, FieldOf[name] = "vehicle_id"
        PROVE  name \in {"vehicle_id_not_null"}
      BY <2>4 DEF FieldOf, CriticalRuleNames
  <2>5. Rejecting("vehicle_id", Null, now) = {"vehicle_id_not_null"}
      BY <1>1, <2>2, <2>4 DEF Rejecting, Rejects, FieldOf
  <2> QED
      BY <1>2, <2>3, <2>5 DEF TargetRule, q
<1>3. CASE kind = "negative_speed"
  <2> DEFINE x == Negated(p.speed)
  <2>6. x \in Int /\ x < 0
    <3>1. p.speed \in Int /\ p.speed >= 0
        BY DEF SoundPayload
    <3>4. p.speed # Null
        BY <1>1, <3>1
    <3>2. CASE p.speed = 0
        BY <3>2 DEF Negated
    <3>3. CASE p.speed # 0
        BY <3>1, <3>3, <3>4 DEF Negated
    <3> QED
        BY <3>2, <3>3
  <2> DEFINE q == Corrupt(p, kind)
  <2>7. q = [p EXCEPT !.speed = x]
      BY <1>3 DEF Corrupt
  <2>1. /\ DOMAIN q = Fields /\ q["speed"] = x
        /\ \A g \in Fields \ {"speed"} : q[g] = p[g]
      BY <2>7 DEF SoundPayload, Fields, CastFields, NumericFields
  <2> HIDE DEF q
  <2> HIDE DEF x
  <2>2. "speed" \in Fields /\ "speed_non_negative" \in CriticalRuleNames
      BY DEF Fields, CastFields, NumericFields, CriticalRuleNames
  <2>3. FailedRuleNames(CriticalRuleNames, q, now) = Rejecting("speed", x, now)
      BY <2>1, <2>2, OneField
  <2>4. ASSUME NEW name \in CriticalRuleNames, FieldOf[name] = "speed"
        PROVE  name \in {"speed_type_valid", "speed_non_negative", "speed_within_plausible_max"}
      BY <2>4 DEF FieldOf, CriticalRuleNames
  <2>5. Rejecting("speed", x, now) = {"speed_non_negative"}
      BY <1>1, <2>2, <2>4, <2>6 DEF Rejecting, Rejects, FieldOf
  <2> QED
      BY <1>3, <2>3, <2>5 DEF TargetRule, q
<1>4. CASE kind = "fuel_out_of_range"
  <2> DEFINE q == Corrupt(p, kind)
  <2>7. q = [p EXCEPT !.fuel_level = 1427]
      BY <1>4 DEF Corrupt
  <2>1. /\ DOMAIN q = Fields /\ q["fuel_level"] = 1427
        /\ \A g \in Fields \ {"fuel_level"} : q[g] = p[g]
      BY <2>7 DEF SoundPayload, Fields, CastFields, NumericFields
  <2> HIDE DEF q
  <2>2. "fuel_level" \in Fields /\ "fuel_level_range" \in CriticalRuleNames
      BY DEF Fields, CastFields, NumericFields, CriticalRuleNames
  <2>3. FailedRuleNames(CriticalRuleNames, q, now) = Rejecting("fuel_level", 1427, now)
      BY <2>1, <2>2, OneField
  <2>4. ASSUME NEW name \in CriticalRuleNames, FieldOf[name] = "fuel_level"
        PROVE  name \in {"fuel_level_type_valid", "fuel_level_range"}
      BY <2>4 DEF FieldOf, CriticalRuleNames
  <2>5. Rejecting("fuel_level", 1427, now) = {"fuel_level_range"}
      BY <1>1, <2>2, <2>4 DEF Rejecting, Rejects, FieldOf
  <2> QED
      BY <1>4, <2>3, <2>5 DEF TargetRule, q
<1>5. CASE kind = "latitude_out_of_range"
  <2> DEFINE q == Corrupt(p, kind)
  <2>7. q = [p EXCEPT !.latitude = 1184]
      BY <1>5 DEF Corrupt
  <2>1. /\ DOMAIN q = Fields /\ q["latitude"] = 1184
        /\ \A g \in Fields \ {"latitude"} : q[g] = p[g]
      BY <2>7 DEF SoundPayload, Fields, CastFields, NumericFields
  <2> HIDE DEF q
  <2>2. "latitude" \in Fields /\ "latitude_range" \in CriticalRuleNames
      BY DEF Fields, CastFields, NumericFields, CriticalRuleNames
  <2>3. FailedRuleNames(CriticalRuleNames, q, now) = Rejecting("latitude", 1184, now)
      BY <2>1, <2>2, OneField
  <2>4. ASSUME NEW name \in CriticalRuleNames, FieldOf[name] = "latitude"
        PROVE  name \in {"latitude_range"}
      BY <2>4 DEF FieldOf, CriticalRuleNames
  <2>5. Rejecting("latitude", 1184, now) = {"latitude_range"}
      BY <1>1, <2>2, <2>4 DEF Rejecting, Rejects, FieldOf
  <2> QED
      BY <1>5, <2>3, <2>5 DEF TargetRule, q
<1>6. CASE kind = "longitude_out_of_range"
  <2> DEFINE q == Corrupt(p, kind)
  <2>7. q = [p EXCEPT !.longitude = -2419]
      BY <1>6 DEF Corrupt
  <2>1. /\ DOMAIN q = Fields /\ q["longitude"] = -2419
        /\ \A g \in Fields \ {"longitude"} : q[g] = p[g]
      BY <2>7 DEF SoundPayload, Fields, CastFields, NumericFields
  <2> HIDE DEF q
  <2>2. "longitude" \in Fields /\ "longitude_range" \in CriticalRuleNames
      BY DEF Fields, CastFields, NumericFields, CriticalRuleNames
  <2>3. FailedRuleNames(CriticalRuleNames, q, now) = Rejecting("longitude", -2419, now)
      BY <2>1, <2>2, OneField
  <2>4. ASSUME NEW name \in CriticalRuleNames, FieldOf[name] = "longitude"
        PROVE  name \in {"longitude_range"}
      BY <2>4 DEF FieldOf, CriticalRuleNames
  <2>5. Rejecting("longitude", -2419, now) = {"longitude_range"}
      BY <1>1, <2>2, <2>4 DEF Rejecting, Rejects, FieldOf
  <2> QED
      BY <1>6, <2>3, <2>5 DEF TargetRule, q
<1>7. CASE kind = "battery_out_of_range"
  <2> DEFINE q == Corrupt(p, kind)
  <2>7. q = [p EXCEPT !.battery_level = -125]
      BY <1>7 DEF Corrupt
  <2>1. /\ DOMAIN q = Fields /\ q["battery_level"] = -125
        /\ \A g \in Fields \ {"battery_level"} : q[g] = p[g]
      BY <2>7 DEF SoundPayload, Fields, CastFields, NumericFields
  <2> HIDE DEF q
  <2>2. "battery_level" \in Fields /\ "battery_level_range" \in CriticalRuleNames
      BY DEF Fields, CastFields, NumericFields, CriticalRuleNames
  <2>3. FailedRuleNames(CriticalRuleNames, q, now) = Rejecting("battery_level", -125, now)
      BY <2>1, <2>2, OneField
  <2>4. ASSUME NEW name \in CriticalRuleNames, FieldOf[name] = "battery_level"
        PROVE  name \in {"battery_level_range"}
      BY <2>4 DEF FieldOf, CriticalRuleNames
  <2>5. Rejecting("battery_level", -125, now) = {"battery_level_range"}
      BY <1>1, <2>2, <2>4 DEF Rejecting, Rejects, FieldOf
  <2> QED
      BY <1>7, <2>3, <2>5 DEF TargetRule, q
<1>8. CASE kind = "missing_event_time"
  <2> DEFINE q == Corrupt(p, kind)
  <2>7. q = [p EXCEPT !.event_time = Null]
      BY <1>8 DEF Corrupt
  <2>1. /\ DOMAIN q = Fields /\ q["event_time"] = Null
        /\ \A g \in Fields \ {"event_time"} : q[g] = p[g]
      BY <2>7 DEF SoundPayload, Fields, CastFields, NumericFields
  <2> HIDE DEF q
  <2>2. "event_time" \in Fields /\ "event_time_not_null" \in CriticalRuleNames
      BY DEF Fields, CastFields, NumericFields, CriticalRuleNames
  <2>3. FailedRuleNames(CriticalRuleNames, q, now) = Rejecting("event_time", Null, now)
      BY <2>1, <2>2, OneField
  <2>4. ASSUME NEW name \in CriticalRuleNames, FieldOf[name] = "event_time"
        PROVE  name \in {"event_time_not_null", "event_time_not_in_future", "event_time_not_ancient"}
      BY <2>4 DEF FieldOf, CriticalRuleNames
  <2>5. Rejecting("event_time", Null, now) = {"event_time_not_null"}
      BY <1>1, <2>2, <2>4 DEF Rejecting, Rejects, FieldOf
  <2> QED
      BY <1>8, <2>3, <2>5 DEF TargetRule, q
<1>9. CASE kind = "absurd_engine_temperature"
  <2> DEFINE q == Corrupt(p, kind)
  <2>7. q = [p EXCEPT !.engine_temperature = 9340]
      BY <1>9 DEF Corrupt
  <2>1. /\ DOMAIN q = Fields /\ q["engine_temperature"] = 9340
        /\ \A g \in Fields \ {"engine_temperature"} : q[g] = p[g]
      BY <2>7 DEF SoundPayload, Fields, CastFields, NumericFields
  <2> HIDE DEF q
  <2>2. "engine_temperature" \in Fields /\ "engine_temperature_range" \in CriticalRuleNames
      BY DEF Fields, CastFields, NumericFields, CriticalRuleNames
  <2>3. FailedRuleNames(CriticalRuleNames, q, now) = Rejecting("engine_temperature", 9340, now)
      BY <2>1, <2>2, OneField
  <2>4. ASSUME NEW name \in CriticalRuleNames, FieldOf[name] = "engine_temperature"
        PROVE  name \in {"engine_temperature_type_valid", "engine_temperature_range"}
      BY <2>4 DEF FieldOf, CriticalRuleNames
  <2>5. Rejecting("engine_temperature", 9340, now) = {"engine_temperature_range"}
      BY <1>1, <2>2, <2>4 DEF Rejecting, Rejects, FieldOf
  <2> QED
      BY <1>9, <2>3, <2>5 DEF TargetRule, q
<1>10. CASE kind = "unparseable_speed"
  <2> DEFINE q == Corrupt(p, kind)
  <2>7. q = [p EXCEPT !.speed = Text]
      BY <1>10 DEF Corrupt
  <2>1. /\ DOMAIN q = Fields /\ q["speed"] = Text
        /\ \A g \in Fields \ {"speed"} : q[g] = p[g]
      BY <2>7 DEF SoundPayload, Fields, CastFields, NumericFields
  <2> HIDE DEF q
  <2>2. "speed" \in Fields /\ "speed_type_valid" \in CriticalRuleNames
      BY DEF Fields, CastFields, NumericFields, CriticalRuleNames
  <2>3. FailedRuleNames(CriticalRuleNames, q, now) = Rejecting("speed", Text, now)
      BY <2>1, <2>2, OneField
  <2>4. ASSUME NEW name \in CriticalRuleNames, FieldOf[name] = "speed"
        PROVE  name \in {"speed_type_valid", "speed_non_negative", "speed_within_plausible_max"}
      BY <2>4 DEF FieldOf, CriticalRuleNames
  <2>5. Rejecting("speed", Text, now) = {"speed_type_valid"}
      BY <1>1, <2>2, <2>4 DEF Rejecting, Rejects, FieldOf
  <2> QED
      BY <1>10, <2>3, <2>5 DEF TargetRule, q
<1> QED
    BY <1>2, <1>3, <1>4, <1>5, <1>6, <1>7, <1>8, <1>9, <1>10 DEF Corruptions

-----------------------------------------------------------------------------
(* The payloads of a run.                                                  *)

\* A level between empty and full is a permillage between 0 and 1000.
LEMMA Permillage ==
    ASSUME NEW f \in 0..Capacity
    PROVE  /\ (1000 * f) \div Capacity \in Int
           /\ 0 <= (1000 * f) \div Capacity /\ (1000 * f) \div Capacity <= 1000
<1> DEFINE a == 1000 * f
           q == a \div Capacity
<1>1. Capacity \in Nat \ {0} /\ f \in Nat /\ f <= Capacity
    BY VehicleNumbers
<1>2. a \in Nat /\ a <= 1000 * Capacity
    BY <1>1
<1> HIDE DEF a
<1>3. q \in Int /\ Capacity * q <= a /\ a < Capacity * (q + 1)
    BY <1>1, <1>2
<1> HIDE DEF q
<1>4. ASSUME q < 0 PROVE FALSE
  <2>1. q + 1 <= 0 /\ q + 1 \in Int
      BY <1>3, <1>4
  <2>2. Capacity * (q + 1) <= 0 /\ Capacity * (q + 1) \in Int
      BY <1>1, <2>1
  <2> QED
      BY <1>2, <1>3, <2>2
<1>5. ASSUME q > 1000 PROVE FALSE
  <2>1. q - 1000 \in Int /\ q - 1000 >= 1
      BY <1>3, <1>5
  <2>2. Capacity * (q - 1000) >= Capacity
      BY <1>1, <2>1
  <2>3. Capacity * (q - 1000) = Capacity * q - 1000 * Capacity
      BY <1>1, <1>3
  <2>4. Capacity * q \in Int
      BY <1>1, <1>3
  <2> QED
      BY <1>1, <1>2, <1>3, <2>2, <2>3, <2>4
<1>6. 0 <= q /\ q <= 1000
    BY <1>3, <1>4, <1>5
<1> QED
    BY <1>3, <1>6 DEF a, q

\* The payload of the record as it would be without its corruption.
Uncorrupted(r) == Payload([r EXCEPT !.kind = NoKind])

LEMMA PayloadSound ==
    ASSUME NEW r \in Records, NEW now \in Int, r.reading.event_time <= now + Day
    PROVE  /\ SoundPayload(Uncorrupted(r), now)
           /\ Payload(r) = IF r.kind = NoKind THEN Uncorrupted(r)
                           ELSE Corrupt(Uncorrupted(r), r.kind)
<1> DEFINE e == r.reading
           p == Uncorrupted(r)
<1>1. [r EXCEPT !.kind = NoKind].kind = NoKind /\ [r EXCEPT !.kind = NoKind].reading = e
    BY DEF Records
<1>2. p = [event_id |-> e.event_id, vehicle_id |-> e.event_id[1],
           trip_id |-> e.event_id[2], event_time |-> e.event_time,
           speed |-> 10 * e.speed, fuel_level |-> (1000 * e.fuel_level) \div Capacity,
           odometer_km |-> 10 * e.odometer_km, engine_temperature |-> 880,
           battery_level |-> 950, latitude |-> 185, longitude |-> 738,
           schema_version |-> "1.0"]
    BY <1>1 DEF Uncorrupted, Payload
<1>3. Payload(r) = IF r.kind = NoKind THEN p ELSE Corrupt(p, r.kind)
    BY <1>2 DEF Payload
<1>4. /\ e.event_id \in VehicleNames \X Nat \X Nat /\ e.event_id[1] \in VehicleNames
      /\ e.event_id[2] \in Nat /\ e.event_time \in Nat /\ e.odometer_km \in Nat
      /\ e.fuel_level \in 0..Capacity /\ e.speed \in Speeds
    BY RecordFields DEF Records, Readings
<1>5. /\ e.event_id \notin {Null, Blank} /\ e.event_id[1] \notin {Null, Blank}
      /\ Ancient <= 0 /\ e.speed \in 0..200
    BY <1>4, WireAssumption DEF WireAssumption
<1>6. e.event_id[2] \notin {Null, Blank} /\ Ancient \in Int
    BY <1>4, SqlValues
<1>7. DOMAIN p = Fields
    BY <1>2 DEF Fields, CastFields, NumericFields
<1>8. /\ p.event_id = e.event_id /\ p.vehicle_id = e.event_id[1] /\ p.trip_id = e.event_id[2]
      /\ p.event_time = e.event_time /\ p.speed = 10 * e.speed
      /\ p.fuel_level = (1000 * e.fuel_level) \div Capacity
      /\ p.odometer_km = 10 * e.odometer_km /\ p.engine_temperature = 880
      /\ p.battery_level = 950 /\ p.latitude = 185 /\ p.longitude = 738
    BY <1>2
<1> HIDE DEF p
<1>9. p.vehicle_id \notin {Null, Blank} /\ p.event_id \notin {Null, Blank}
      /\ p.trip_id \notin {Null, Blank}
    BY <1>5, <1>6, <1>8
<1>10. p.event_time \in Int /\ Ancient <= p.event_time /\ p.event_time <= now + Day
    BY <1>4, <1>5, <1>6, <1>8
<1>11. /\ p.speed \in Int /\ 0 <= p.speed /\ p.speed <= 2000
       /\ p.odometer_km \in Int /\ 0 <= p.odometer_km
    BY <1>4, <1>5, <1>8
<1>12. p.fuel_level \in Int /\ 0 <= p.fuel_level /\ p.fuel_level <= 1000
    BY <1>4, <1>8, Permillage
<1>13. SoundPayload(p, now)
    BY <1>7, <1>8, <1>9, <1>10, <1>11, <1>12 DEF SoundPayload
<1> QED
    BY <1>3, <1>13 DEF p

\* No reading is dated after the launch of the run: the last tick ends there.
LEMMA DatedByLaunch ==
    ASSUME RunInv, NEW r \in Issued
    PROVE  r.reading.event_time <= Launch /\ r.reading.event_time \in Nat /\ Launch \in Nat
<1>1. /\ TypeOK /\ InPhase /\ Dated /\ Ticks \in Nat /\ TICK \in Nat \ {0}
      /\ sim_time \in Nat /\ sim_time = TICK * tick_index /\ tick_index \in Nat
      /\ tick_index <= Ticks /\ cursor[1] \in Nat /\ cursor[2] \in Nat
    BY GeneratorNumbers DEF RunInv, RecordsInv, TypeOK, GeneratorTypes
<1>2. r.reading.event_time \in Nat /\ r.reading.event_id[1] \in VehicleNames
    BY <1>1, IssuedAreRecords, RecordFields
<1>3. PICK i \in 1..Len(Fleet) : r.reading.event_id[1] = Fleet[i]
    BY <1>2 DEF VehicleNames
<1>4. r.reading.event_time < NextMoment(i) /\ NextMoment(i) \in Nat
    BY <1>1, <1>3, NextMomentType DEF Dated
<1>5. Launch = Ticks * TICK /\ Launch \in Nat
    BY <1>1 DEF Launch
<1>6. CASE cursor = Between
  <2>1. NextMoment(i) = sim_time
      BY <1>3, <1>6 DEF NextMoment, Between
  <2>2. TICK * tick_index <= Ticks * TICK
      BY <1>1
  <2> QED
      BY <1>1, <1>2, <1>4, <1>5, <2>1, <2>2
<1>7. CASE cursor # Between
  <2>1. tick_index + 1 <= Ticks
      BY <1>1, <1>7 DEF InPhase
  <2>2. TICK * (tick_index + 1) <= Ticks * TICK /\ TICK * (tick_index + 1) = sim_time + TICK
      BY <1>1, <2>1
  <2>3. NextMoment(i) <= sim_time + TICK
    <3>1. CASE i = cursor[1]
      <4> DEFINE sub == SubTick(Fleet[i])
                 m == Multiplier(Fleet[i])
                 c == cursor[2]
      <4>1. c < m /\ c \in Nat
          BY <1>1, <3>1 DEF InPhase
      <4>2. m \in Nat \ {0} /\ sub \in Nat \ {0} /\ sub * m = TICK
          BY SubTicksFill
      <4>3. NextMoment(i) = sim_time + sub * c
          BY <3>1 DEF NextMoment
      <4> HIDE DEF sub, m, c
      <4>4. sub * c <= sub * m /\ sub * c \in Nat
          BY <4>1, <4>2
      <4> QED
          BY <1>1, <4>2, <4>3, <4>4
    <3>2. CASE i # cursor[1]
        BY <1>1, <3>2 DEF NextMoment
    <3> QED
        BY <3>1, <3>2
  <2> QED
      BY <1>1, <1>2, <1>4, <1>5, <2>2, <2>3
<1> QED
    BY <1>2, <1>5, <1>6, <1>7

\* Every clean reading passes every critical rule from the launch of the run on, and every
\* corrupted one is rejected by the rule that is there to catch its corruption, and by no
\* other.
THEOREM RulesTell == Spec => []RulesTellThem
<1>1. ASSUME RunInv PROVE RulesTellThem
  <2> SUFFICES ASSUME NEW r \in {out[k] : k \in 1..Len(out)}
               PROVE  /\ FailedRuleNames(CriticalRuleNames, Payload(r), Launch - Day) =
                             IF r.kind = NoKind THEN {} ELSE {TargetRule[r.kind]}
                      /\ r.kind = NoKind =>
                             \A kind \in Corruptions :
                                 FailedRuleNames(CriticalRuleNames, Corrupt(Payload(r), kind), Launch)
                                     = {TargetRule[kind]}
      BY DEF RulesTellThem
  <2>1. r \in Issued /\ r \in Records
      BY <1>1, IssuedAreRecords DEF Issued, Elements, RunInv
  <2>2. /\ r.reading.event_time \in Nat /\ Launch \in Nat /\ Day \in Nat
        /\ r.reading.event_time <= Launch
      BY <1>1, <2>1, DatedByLaunch, SqlValues
  <2> DEFINE now == Launch - Day
             p == Uncorrupted(r)
  <2>3. /\ now \in Int /\ r.reading.event_time <= now + Day
        /\ Launch \in Int /\ r.reading.event_time <= Launch + Day
      BY <2>2
  <2> HIDE DEF now, p
  <2>4. /\ SoundPayload(p, now) /\ SoundPayload(p, Launch)
        /\ Payload(r) = IF r.kind = NoKind THEN p ELSE Corrupt(p, r.kind)
      BY <2>1, <2>3, PayloadSound DEF p
  <2>5. r.kind # NoKind => r.kind \in Corruptions
      BY <2>1, WireAssumption DEF Records, WireAssumption
  <2>6. FailedRuleNames(CriticalRuleNames, Payload(r), now) =
            IF r.kind = NoKind THEN {} ELSE {TargetRule[r.kind]}
    <3>1. CASE r.kind = NoKind
      <4>1. Payload(r) = p
          BY <2>4, <3>1
      <4> QED
          BY <2>3, <2>4, <3>1, <4>1, SoundPasses
    <3>2. CASE r.kind # NoKind
      <4>1. Payload(r) = Corrupt(p, r.kind) /\ r.kind \in Corruptions
          BY <2>4, <2>5, <3>2
      <4> QED
          BY <2>3, <2>4, <3>2, <4>1, CorruptBreaks
    <3> QED
        BY <3>1, <3>2
  <2>7. r.kind = NoKind =>
            \A kind \in Corruptions :
                FailedRuleNames(CriticalRuleNames, Corrupt(Payload(r), kind), Launch)
                    = {TargetRule[kind]}
    <3>1. ASSUME r.kind = NoKind PROVE Payload(r) = p
        BY <2>4, <3>1
    <3> QED
        BY <2>3, <2>4, <3>1, CorruptBreaks
  <2> QED
      BY <2>6, <2>7 DEF now
<1> QED
    BY <1>1, RunCorrect, PTL
===============================================================================
