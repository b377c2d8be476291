------------------------------ MODULE FullRefresh ------------------------------
(***************************************************************************)
(* What the incremental facts promise: whenever one of them is built, it   *)
(* holds what a full refresh of it would hold at that moment, every row of *)
(* its source.                                                             *)
(***************************************************************************)
CONSTANT Facts
VARIABLES source, facts

Init == source = {} /\ facts = [f \in Facts |-> {}]

Arrive == source \subseteq source' /\ UNCHANGED facts

Refresh(f) ==
    /\ facts' = [facts EXCEPT ![f] = source]
    /\ UNCHANGED source

Next == Arrive \/ \E f \in Facts : Refresh(f)

Spec == Init /\ [][Next]_<<source, facts>>
================================================================================
