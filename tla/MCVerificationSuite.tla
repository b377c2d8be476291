-------------------------- MODULE MCVerificationSuite --------------------------
(* Small instances of VerificationSuite, on the readings of SilverTransform's. *)
EXTENDS VerificationSuite, MCSilverTransform

\* Far enough apart for rows to be late; one reading breaks two rules.
SuiteReadings ==
    {Good(e1, 2), Reading(e2, 4, {"speed_non_negative", "odometer_non_negative"}, 0), Good(e3, 7),
     Malformed(1)}

\* Of the counters the suite reads whether there are any and whether they balance.
WithBalances ==
    <<WithoutCounters, {c.source - c.duplicate - c.rejected - c.output : c \in recon}, suite>>
================================================================================
