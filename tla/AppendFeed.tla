------------------------------ MODULE AppendFeed ------------------------------
(***************************************************************************)
(* What a streaming reader of an append-only table may rely on: entries    *)
(* appear in a growing order and are delivered in that order, from some    *)
(* first one on, none left out and none twice, until the reader forgets    *)
(* what it has read and begins anew.                                       *)
(***************************************************************************)
EXTENDS Integers

VARIABLES entries, delivered
feed == <<entries, delivered>>

Init == entries = {} /\ delivered = {}

Append ==
    /\ \E n \in entries' : (\A m \in entries : m < n) /\ entries' = entries \union {n}
    /\ UNCHANGED delivered

\* The next entry after everything delivered.
Deliver ==
    /\ \E n \in entries :
        /\ \A m \in delivered : m < n
        /\ delivered # {} => \A k \in entries : k < n => \E m \in delivered : k <= m
        /\ delivered' = delivered \union {n}
    /\ UNCHANGED entries

Forget == delivered' = {} /\ UNCHANGED entries

Spec == Init /\ [][Append \/ Deliver \/ Forget]_feed
===============================================================================
