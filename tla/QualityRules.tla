----------------------------- MODULE QualityRules -----------------------------
(***************************************************************************)
(* The rules of rules.yml and their application by engine.py, on one       *)
(* record: what from_json makes of a payload, what each rule says of the   *)
(* parsed row in SQL's three-valued logic, and which rules fail.           *)
(*                                                                         *)
(* A payload maps the fields of the contract to JSON values: Null, a       *)
(* string, or a number, in tenths of the field's unit.  An event time is a *)
(* number of time units; Ancient and Day are given in the same unit.       *)
(***************************************************************************)
EXTENDS Integers

CONSTANTS
    Null,     \* SQL NULL and JSON null, an absent field included
    Text,     \* a string that is not a number
    Blank,    \* a string of spaces
    Day,      \* the tolerance of event_time_not_in_future
    Ancient   \* 2020-01-01, the bound of event_time_not_ancient

ASSUME SqlValuesAssumption ==
    /\ Null \notin Int \union BOOLEAN \union {Text, Blank}
    /\ Text \notin Int \union {Blank} /\ Blank \notin Int
    /\ Day \in Nat /\ Ancient \in Int

NumericFields ==
    {"speed", "fuel_level", "engine_temperature", "battery_level", "latitude",
     "longitude", "odometer_km"}
-----------------------------------------------------------------------------
(* Three-valued logic.                                                     *)

IsNull(x)    == x = Null
Leq(x, y)    == IF x = Null \/ y = Null THEN Null ELSE x <= y
SqlOr(p, q)  == IF TRUE \in {p, q} THEN TRUE ELSE IF Null \in {p, q} THEN Null ELSE FALSE
SqlAnd(p, q) == IF FALSE \in {p, q} THEN FALSE ELSE IF Null \in {p, q} THEN Null ELSE TRUE
Within(x, low, high) == SqlAnd(Leq(low, x), Leq(x, high))

\* length(trim(x)) > 0
NotBlank(x) == IF x = Null THEN Null ELSE x # Blank

\* coalesce(expr, false)
CoalesceFalse(p) == IF p = Null THEN FALSE ELSE p
-----------------------------------------------------------------------------
(* Parsing: from_json in PERMISSIVE mode.  A value that is not of the      *)
(* field's type, a number or a time, is nulled, field by field; the raw    *)
(* payload stays on the row.                                               *)

CastFields == NumericFields \union {"event_time"}
Cast(v) == IF v \in Int THEN v ELSE Null

Parse(payload) ==
    [field \in DOMAIN payload |->
        IF field \in CastFields THEN Cast(payload[field]) ELSE payload[field]]

\* get_json_object(raw_payload, '$.f') IS NULL OR f IS NOT NULL
TypeValid(payload, row, f) == SqlOr(IsNull(payload[f]), ~IsNull(row[f]))

OptionalRequired(x, p) == p   \* faulty variant: the rule does not permit NULL
\* x IS NULL OR p, the form of every rule on a field that may be absent.
Optional(x, p) == SqlOr(IsNull(x), p)
\* x IS NOT NULL AND length(trim(x)) > 0
Required(x) == SqlAnd(~IsNull(x), NotBlank(x))
-----------------------------------------------------------------------------
\* rules.yml: each rule's expression on a row, TRUE for a good record.
Expressions(payload, row, now) ==
    [vehicle_id_not_null |-> Required(row.vehicle_id),
     event_id_not_null   |-> Required(row.event_id),
     event_time_not_null |-> ~IsNull(row.event_time),
     trip_id_not_null    |-> Required(row.trip_id),
     speed_type_valid              |-> TypeValid(payload, row, "speed"),
     fuel_level_type_valid         |-> TypeValid(payload, row, "fuel_level"),
     engine_temperature_type_valid |-> TypeValid(payload, row, "engine_temperature"),
     speed_non_negative         |-> Optional(row.speed, Leq(0, row.speed)),
     speed_within_plausible_max |-> Optional(row.speed, Leq(row.speed, 2000)),
     fuel_level_range    |-> Optional(row.fuel_level, Within(row.fuel_level, 0, 1000)),
     battery_level_range |-> Optional(row.battery_level, Within(row.battery_level, 0, 1000)),
     engine_temperature_range |->
        Optional(row.engine_temperature, Within(row.engine_temperature, -500, 2000)),
     latitude_range  |-> Optional(row.latitude, Within(row.latitude, -900, 900)),
     longitude_range |-> Optional(row.longitude, Within(row.longitude, -1800, 1800)),
     odometer_non_negative    |-> Optional(row.odometer_km, Leq(0, row.odometer_km)),
     event_time_not_in_future |-> Optional(row.event_time, Leq(row.event_time, now + Day)),
     event_time_not_ancient   |-> Optional(row.event_time, Leq(Ancient, row.event_time)),
     schema_version_known     |-> Optional(row.schema_version, row.schema_version = "1.0")]

WarningRules  == {"schema_version_known"}
CriticalRuleNames ==
    {"vehicle_id_not_null", "event_id_not_null", "event_time_not_null", "trip_id_not_null",
     "speed_type_valid", "fuel_level_type_valid", "engine_temperature_type_valid",
     "speed_non_negative", "speed_within_plausible_max", "fuel_level_range",
     "battery_level_range", "engine_temperature_range", "latitude_range",
     "longitude_range", "odometer_non_negative", "event_time_not_in_future",
     "event_time_not_ancient"}

\* _failed_rule_names: a rule fails unless its expression is TRUE.
FailedRuleNames(rules, payload, now) ==
    LET verdict == Expressions(payload, Parse(payload), now)
    IN {name \in rules : ~CoalesceFalse(verdict[name])}

\* apply_rules: the columns _failed_rules, _warnings and _is_valid.
ApplyRules(payload, now) ==
    LET failed == FailedRuleNames(CriticalRuleNames, payload, now) IN
    [failed |-> failed, warnings |-> FailedRuleNames(WarningRules, payload, now),
     valid |-> failed = {}]
-----------------------------------------------------------------------------
(* The corruptions of the generator.                                       *)

Corruptions ==
    {"null_vehicle_id", "negative_speed", "fuel_out_of_range", "latitude_out_of_range",
     "longitude_out_of_range", "battery_out_of_range", "missing_event_time",
     "absurd_engine_temperature", "unparseable_speed"}

\* The rule whose description in rules.yml says it catches the corruption.
TargetRule ==
    [null_vehicle_id |-> "vehicle_id_not_null",
     negative_speed |-> "speed_non_negative",
     fuel_out_of_range |-> "fuel_level_range",
     latitude_out_of_range |-> "latitude_range",
     longitude_out_of_range |-> "longitude_range",
     battery_out_of_range |-> "battery_level_range",
     missing_event_time |-> "event_time_not_null",
     absurd_engine_temperature |-> "engine_temperature_range",
     unparseable_speed |-> "speed_type_valid"]

\* -abs(float(speed or 10.0)) - 5.0
Negated(speed) ==
    IF speed \in {Null, 0} THEN -150 ELSE IF speed < 0 THEN speed - 50 ELSE -speed - 50

\* corrupt: the field a corruption overwrites, and with what.
Corrupt(payload, kind) ==
    CASE kind = "null_vehicle_id"           -> [payload EXCEPT !.vehicle_id = Null]
      [] kind = "negative_speed"            -> [payload EXCEPT !.speed = Negated(@)]
      [] kind = "fuel_out_of_range"         -> [payload EXCEPT !.fuel_level = 1427]
      [] kind = "latitude_out_of_range"     -> [payload EXCEPT !.latitude = 1184]
      [] kind = "longitude_out_of_range"    -> [payload EXCEPT !.longitude = -2419]
      [] kind = "battery_out_of_range"      -> [payload EXCEPT !.battery_level = -125]
      [] kind = "missing_event_time"        -> [payload EXCEPT !.event_time = Null]
      [] kind = "absurd_engine_temperature" -> [payload EXCEPT !.engine_temperature = 9340]
      [] kind = "unparseable_speed"         -> [payload EXCEPT !.speed = Text]
=============================================================================
