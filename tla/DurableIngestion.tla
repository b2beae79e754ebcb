--------------------------- MODULE DurableIngestion ---------------------------
(***************************************************************************)
(* What the ingestion side of the service promises to the caller of        *)
(* IngestionRepository.insert, whatever queues and batches are behind it:  *)
(*                                                                         *)
(*   - a request is answered once, and the answer never changes;           *)
(*   - "ok" is answered only when every record of the request is stored;   *)
(*   - a refused request is never stored;                                  *)
(*   - "failed" leaves open whether the records are stored (the statement  *)
(*     may have been committed before the answer was lost, or even later), *)
(*     but they are never stored twice and never partially.                *)
(*                                                                         *)
(* Requests stored by one statement are stored by one step.                *)
(***************************************************************************)
EXTENDS Naturals

CONSTANTS
    Request,    \* the calls of insert, each made at most once
    Empty       \* those of them that carry no record

VARIABLES
    outcome,    \* outcome[r]: what the caller of r has been told so far
    copies      \* copies[r]: how many times the records of r are in the log table

vars == <<outcome, copies>>

Outcome == {"new", "waiting", "ok", "failed", "refused"}

Init ==
    /\ outcome = [r \in Request |-> "new"]
    /\ copies = [r \in Request |-> 0]

(* A request without records is answered without reaching the database. *)
AnswerEmpty(r) ==
    /\ r \in Empty
    /\ outcome[r] = "new"
    /\ outcome' = [outcome EXCEPT ![r] = "ok"]
    /\ UNCHANGED copies

Refuse(r) ==
    /\ outcome[r] = "new"
    /\ outcome' = [outcome EXCEPT ![r] = "refused"]
    /\ UNCHANGED copies

Admit(r) ==
    /\ outcome[r] = "new"
    /\ outcome' = [outcome EXCEPT ![r] = "waiting"]
    /\ UNCHANGED copies

(* One statement stores the records of the requests B, all or none.  The   *)
(* caller is still waiting, or has already been told "failed".             *)
Store(B) ==
    /\ \A r \in B : outcome[r] \in {"waiting", "failed"} /\ copies[r] = 0
    /\ copies' = [r \in Request |-> IF r \in B THEN 1 ELSE copies[r]]
    /\ UNCHANGED outcome

Acknowledge(B) ==
    /\ \A r \in B : outcome[r] = "waiting" /\ copies[r] = 1
    /\ outcome' = [r \in Request |-> IF r \in B THEN "ok" ELSE outcome[r]]
    /\ UNCHANGED copies

GiveUp(B) ==
    /\ \A r \in B : outcome[r] = "waiting"
    /\ outcome' = [r \in Request |-> IF r \in B THEN "failed" ELSE outcome[r]]
    /\ UNCHANGED copies

Next ==
    \/ \E r \in Request : AnswerEmpty(r) \/ Refuse(r) \/ Admit(r)
    \/ \E B \in SUBSET Request : Store(B) \/ Acknowledge(B) \/ GiveUp(B)

Spec == Init /\ [][Next]_vars

(* What the promise amounts to in every state: at most one copy of a       *)
(* request is stored, an acknowledged one is, and one that was refused or  *)
(* not yet made is not.                                                    *)
Durable ==
    \A r \in Request :
        /\ copies[r] \in {0, 1}
        /\ outcome[r] = "ok" /\ r \notin Empty => copies[r] = 1
        /\ outcome[r] \in {"new", "refused"} => copies[r] = 0

===============================================================================
