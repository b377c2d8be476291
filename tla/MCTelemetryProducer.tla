-------------------------- MODULE MCTelemetryProducer --------------------------
(* A fleet of an ordinary vehicle and the hot one, which reports twice a tick. *)
(* A tick is two units of time; a trip ends with its first movement or with an *)
(* empty tank, so that trips, rests and refuelling happen within two ticks.    *)
EXTENDS TelemetryProducer

CONSTANTS v1, v2

MCFleet == <<v1, v2>>
===============================================================================
