----------------------------- MODULE EventLedger -----------------------------
(***************************************************************************)
(* What the Bronze-to-Silver job promises, event by event: an event that   *)
(* arrived gets one verdict, the right one, and keeps it.  A sound event   *)
(* is curated (Silver), an unsound one is rejected (quarantine); none is   *)
(* both, and no failure, re-execution, replay or backfill takes a verdict  *)
(* back.  Whether every event gets one is a separate question.             *)
(***************************************************************************)
CONSTANTS Events, Sound

VARIABLES arrived, curated, rejected

ledger == <<arrived, curated, rejected>>

Init == arrived = {} /\ curated = {} /\ rejected = {}

Arrive == 
    /\ \E e \in Events \ arrived : arrived' = arrived \union {e}
    /\ UNCHANGED <<curated, rejected>>

\* One table commit decides any number of events.
Curate ==
    /\ \E S \in SUBSET (arrived \intersect Sound) : curated' = curated \union S
    /\ UNCHANGED <<arrived, rejected>>

Reject ==
    /\ \E S \in SUBSET (arrived \ Sound) : rejected' = rejected \union S
    /\ UNCHANGED <<arrived, curated>>

Next == Arrive \/ Curate \/ Reject

Spec == Init /\ [][Next]_ledger
=============================================================================
