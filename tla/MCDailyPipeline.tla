--------------------------- MODULE MCDailyPipeline ---------------------------
(* Small instances of DailyPipeline; all bounds are in the configurations.   *)
EXTENDS DailyPipeline
==============================================================================
