------------------------------- MODULE LogStore -------------------------------
(***************************************************************************)
(* The log table as everybody but retention and partition maintenance sees *)
(* it: a set of rows.  A statement adds its rows all at once; a row leaves *)
(* only when it is older than a cutoff of retention, and for good.  Where  *)
(* a row is kept, and that it may be moved, does not show.                 *)
(***************************************************************************)
EXTENDS Naturals

CONSTANTS
    Row,
    TimeOf(_)      \* the event time of a row

VARIABLES
    accepted,      \* the rows committed so far
    logs,          \* those that are in the table
    cutoff         \* the latest cutoff that retention worked with

vars == <<accepted, logs, cutoff>>

Init ==
    /\ accepted = {}
    /\ logs = {}
    /\ cutoff = 0

Insert ==
    \E rows \in SUBSET (Row \ accepted) :
        /\ accepted' = accepted \cup rows
        /\ logs' = logs \cup rows
        /\ UNCHANGED cutoff

Expire ==
    /\ cutoff' \in Nat
    /\ cutoff' >= cutoff
    /\ \E gone \in SUBSET {r \in logs : TimeOf(r) < cutoff'} : logs' = logs \ gone
    /\ UNCHANGED accepted

Next == Insert \/ Expire

Spec == Init /\ [][Next]_vars

(* Every accepted row that retention has not reached is in the table. *)
Kept == \A r \in accepted : TimeOf(r) >= cutoff => r \in logs
===============================================================================
