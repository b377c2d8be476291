-------------------------- MODULE MCSilverTransform --------------------------
(* Small instances of SilverTransform.  The watermark delay is 2 units of 5  *)
(* minutes; the simulator injects readings 1 to 4 units late.               *)
EXTENDS SilverTransform

CONSTANTS e1, e2, e3

Rules == {"event_id_not_null", "event_time_not_null", "speed_non_negative",
          "odometer_non_negative", FutureRule}

Reading(id, time, failed, payload) ==
    [event_id |-> id, event_time |-> time, failed |-> failed, raw_payload |-> payload]

Good(id, time) == Reading(id, time, {}, 0)
Malformed(n)   == Reading(NoId, NoTime, {"event_id_not_null", "event_time_not_null"}, n)

\* Far enough apart for watermarks to pass, state to expire and rows to be late.
SpreadReadings ==
    {Good(e1, 2), Reading(e2, 4, {"speed_non_negative"}, 0), Good(e3, 7), Malformed(1)}

\* The newest of them may be ahead by a little, and time catch up with it.
SlightlyAhead == {Good(e3, 7)}

\* Close enough for every order of arrival within the lateness allowed.
CloseReadings ==
    {Good(e1, 2), Reading(e2, 3, {"speed_non_negative"}, 0), Good(e3, 4), Malformed(1)}

\* Two vehicles with sound clocks, and one whose clock is far ahead.
Ahead == {Good(e2, 9)}
SkewedReadings == {Good(e1, 2), Good(e3, 3)} \union Ahead

\* Two different payloads that could not be parsed.
UnparseableReadings == {Good(e1, 2), Malformed(1), Malformed(2)}

\* recon is written and never read by an action: states that differ in it alone
\* behave alike for every property that does not mention it.
WithoutCounters ==
    <<log, clock, checkpoint, silver, quarantine, pc, rows, run, bounds>>
=============================================================================
