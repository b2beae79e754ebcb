---------------------------- MODULE PartitionStore ----------------------------
(***************************************************************************)
(* The partitions of logstream.logs: insert statements against the three   *)
(* retention routines of migrations/0003_add_retention_routines.sql, which *)
(* a run of src/modules/retention/retention-repository.ts calls, and the   *)
(* startup preparation of src/database/partitions/partition-preparer.ts.   *)
(*                                                                         *)
(* Both kinds of maintenance hold the advisory lock (1815642963, 2), so    *)
(* one at a time works (RetentionMaintenance shows how the lock behaves);  *)
(* inserts hold only table locks.  PostgreSQL routes a row with the        *)
(* partitions that its statement saw when it began.                        *)
(*                                                                         *)
(* Time is in ticks, TicksPerDay to a day; day d has the ticks from        *)
(* d * TicksPerDay to before (d + 1) * TicksPerDay.  The clock of an       *)
(* instance differs from the database's by at most MaxSkew, the age of a   *)
(* plan that waited for the lock included.                                 *)
(***************************************************************************)
EXTENDS Integers, FiniteSets, FiniteSetsExt

CONSTANTS
    Statement,
    Carries,           \* Carries[s]: the rows of an insert statement
    TimeOf(_),
    TicksPerDay,
    RetentionDays,
    MaxCutoffDays,     \* the age of a cutoff that the routines still accept
    DeleteBatchSize,
    MaxSkew,
    FirstTick, LastTick,   \* the database's clock goes from one to the other
    MaxFailures,       \* bound on the failures of maintenance runs
    Default,           \* the default partition
    NoRun              \* no maintenance is running

ASSUME CarriesAssumption ==
    /\ \A s, t \in Statement : s # t => Carries[s] \cap Carries[t] = {}
    /\ \A s \in Statement : \A r \in Carries[s] : TimeOf(r) \in Int

ASSUME DefaultAssumption == Default \notin Nat

ASSUME ClockAssumption ==
    /\ TicksPerDay \in Nat \ {0} /\ RetentionDays \in Nat \ {0} /\ DeleteBatchSize \in Nat \ {0}
    /\ MaxSkew \in Nat /\ FirstTick \in Nat /\ LastTick \in Nat /\ MaxFailures \in Nat
    /\ FirstTick <= LastTick
    /\ FirstTick >= RetentionDays * TicksPerDay + MaxSkew
    /\ MaxCutoffDays \in Nat /\ MaxCutoffDays > RetentionDays

VARIABLES
    now,               \* statement_timestamp() of the database
    partitions,        \* the days that have a partition attached
    contents,          \* contents[p]: the committed rows of a partition
    stage,             \* stage[s]: how far an insert statement has come
    seen,              \* seen[s]: the partitions that it routes with until it ends
    run,               \* the maintenance run that has the lock
    txn,               \* its transaction that attaches a partition
    cutoff,            \* the latest cutoff worked with
    failures

vars == <<now, partitions, contents, stage, seen, run, txn, cutoff, failures>>

Row == UNION {Carries[s] : s \in Statement}

DayOfTick(t) == t \div TicksPerDay

DayOf(r) == DayOfTick(TimeOf(r))

Day == 0..DayOfTick(LastTick + MaxSkew) + 2

NoTxn == [stage |-> "none", day |-> 0, moved |-> {}]

Init ==
    /\ now = FirstTick
    /\ partitions = {}
    /\ contents = [p \in Day \cup {Default} |-> {}]
    /\ stage = [s \in Statement |-> "new"]
    /\ seen = [s \in Statement |-> {}]
    /\ run = NoRun
    /\ txn = NoTxn
    /\ cutoff = 0
    /\ failures = 0

Tick ==
    /\ now < LastTick
    /\ now' = now + 1
    /\ UNCHANGED <<partitions, contents, stage, seen, run, txn, cutoff, failures>>

-------------------------------------------------------------------------------
(* Insert statements. *)

insertVars == <<stage, seen>>
maintenanceVars == <<run, txn, cutoff, failures>>

(* The validator accepts what lies at most five minutes in the future of a *)
(* clock: the next tick at the latest.                                     *)
Open(s) ==
    /\ stage[s] = "new"
    /\ \A r \in Carries[s] : TimeOf(r) <= now + MaxSkew + 1
    /\ stage' = [stage EXCEPT ![s] = "open"]
    /\ seen' = [seen EXCEPT ![s] = partitions]
    /\ UNCHANGED <<now, partitions, contents, maintenanceVars>>

ToDefault(s) == {r \in Carries[s] : DayOf(r) \notin seen[s]}

(* LOCK TABLE logs_default IN ACCESS EXCLUSIVE MODE is in force. *)
DefaultLocked == txn.stage # "none"

(* The rows go to their partitions, the default one once its lock is free. *)
(* There PostgreSQL looks again whether the row still belongs: a row whose *)
(* day has been given a partition meanwhile fails its statement.           *)
Store(s) ==
    /\ stage[s] = "open"
    /\ ToDefault(s) # {} => ~ DefaultLocked
    /\ \A r \in ToDefault(s) : DayOf(r) \notin partitions
    /\ stage' = [stage EXCEPT ![s] = "stored"]
    /\ UNCHANGED <<now, partitions, contents, seen, maintenanceVars>>

PartitionFor(s, r) == IF r \in ToDefault(s) THEN Default ELSE DayOf(r)

Commit(s) ==
    /\ stage[s] = "stored"
    /\ stage' = [stage EXCEPT ![s] = "committed"]
    /\ seen' = [seen EXCEPT ![s] = {}]
    /\ contents' = [p \in DOMAIN contents |->
                      contents[p] \cup {r \in Carries[s] : PartitionFor(s, r) = p}]
    /\ UNCHANGED <<now, partitions, maintenanceVars>>

(* A statement may always fail, and one that Store refuses has to. *)
Abort(s) ==
    /\ stage[s] \in {"open", "stored"}
    /\ stage' = [stage EXCEPT ![s] = "aborted"]
    /\ seen' = [seen EXCEPT ![s] = {}]
    /\ UNCHANGED <<now, partitions, contents, maintenanceVars>>

-------------------------------------------------------------------------------
(* Maintenance runs.  A retention run asks for the three days from that of *)
(* its clock on, then drops, then deletes; a preparation attaches what is  *)
(* missing of its plan, oldest day first.                                  *)

BeginRetention(skew) ==
    /\ run = NoRun
    /\ run' = [kind |-> "retention", reference |-> now + skew, call |-> "ensure", offset |-> 0]
    /\ UNCHANGED <<now, partitions, contents, insertVars, txn, cutoff, failures>>

(* buildPartitionPlan *)
Plan(reference) == DayOfTick(reference) - RetentionDays .. DayOfTick(reference) + 2

BeginPreparation ==
    /\ run = NoRun
    /\ \E skew \in -MaxSkew..MaxSkew :
         /\ Plan(now + skew) \ partitions # {}
         /\ run' = [kind |-> "preparation", todo |-> Plan(now + skew) \ partitions]
    /\ UNCHANGED <<now, partitions, contents, insertVars, txn, cutoff, failures>>

IsRetention(call) == run # NoRun /\ run.kind = "retention" /\ run.call = call

(* Mutant: the loop over the partitions of the plan ends one too late. *)
AfterEnsure_OneMore == IF run.offset < 3 THEN [run EXCEPT !.offset = @ + 1] ELSE [run EXCEPT !.call = "drop"]

AfterEnsure == IF run.offset < 2 THEN [run EXCEPT !.offset = @ + 1] ELSE [run EXCEPT !.call = "drop"]

AfterAttach ==
    IF run.kind = "retention" THEN AfterEnsure
    ELSE IF run.todo = {txn.day} THEN NoRun
    ELSE [run EXCEPT !.todo = @ \ {txn.day}]

EnsuredDay == DayOfTick(run.reference) + run.offset

(* The routine accepts the days around the database's own. *)
EnsureAllowed(d) == DayOfTick(now) - 1 <= d /\ d <= DayOfTick(now) + 2

(* Mutant: a partition that exists is taken for an invalid relation. *)
EnsureRefused_Existing == ~ EnsureAllowed(EnsuredDay) \/ EnsuredDay \in partitions

EnsureRefused == ~ EnsureAllowed(EnsuredDay)

EnsureExists ==
    /\ IsRetention("ensure") /\ txn = NoTxn
    /\ ~ EnsureRefused
    /\ EnsuredDay \in partitions
    /\ run' = AfterEnsure
    /\ UNCHANGED <<now, partitions, contents, insertVars, txn, cutoff, failures>>

NextDay ==
    IF run.kind = "preparation" THEN Min(run.todo) ELSE EnsuredDay

(* The lock waits for the statements that have rows in the default         *)
(* partition and have not ended.                                           *)
LockDefault ==
    /\ run # NoRun /\ txn = NoTxn
    /\ run.kind = "retention" => IsRetention("ensure") /\ ~ EnsureRefused
    /\ NextDay \notin partitions
    /\ \A s \in Statement : stage[s] = "stored" => ToDefault(s) = {}
    /\ txn' = [stage |-> "locked", day |-> NextDay, moved |-> {}]
    /\ UNCHANGED <<now, partitions, contents, insertVars, run, cutoff, failures>>

(* Mutant: the end of the day is left out of the WHERE clause's range. *)
Overlap_Short(d) ==
    {r \in contents[Default] :
        d * TicksPerDay <= TimeOf(r) /\ TimeOf(r) < (d + 1) * TicksPerDay - 1}

Overlap(d) ==
    {r \in contents[Default] : d * TicksPerDay <= TimeOf(r) /\ TimeOf(r) < (d + 1) * TicksPerDay}

(* The rows of the day leave the default partition; nobody sees it before  *)
(* the transaction ends.                                                   *)
Move ==
    /\ txn.stage = "locked"
    /\ txn' = [txn EXCEPT !.stage = "moved", !.moved = Overlap(txn.day)]
    /\ UNCHANGED <<now, partitions, contents, insertVars, run, cutoff, failures>>

(* ATTACH PARTITION is refused when the default partition still has a row  *)
(* for the day.                                                            *)
Misplaced == {r \in contents[Default] : DayOf(r) = txn.day} \ txn.moved

Attach ==
    /\ txn.stage = "moved"
    /\ Misplaced = {}
    /\ partitions' = partitions \cup {txn.day}
    /\ contents' = [contents EXCEPT ![Default] = @ \ txn.moved, ![txn.day] = txn.moved]
    /\ run' = AfterAttach
    /\ txn' = NoTxn
    /\ UNCHANGED <<now, insertVars, cutoff, failures>>

(* An error of any statement, a timeout, a lost connection or a crash. *)
Fail ==
    /\ run # NoRun
    /\ failures < MaxFailures
    /\ failures' = failures + 1
    /\ run' = NoRun
    /\ txn' = NoTxn
    /\ UNCHANGED <<now, partitions, contents, insertVars, cutoff>>

Cutoff == run.reference - RetentionDays * TicksPerDay

(* Mutant: a partition is dropped when it has begun before the cutoff. *)
Expired_Begun == {d \in partitions : d * TicksPerDay <= Cutoff}

Expired == {d \in partitions : (d + 1) * TicksPerDay <= Cutoff}

WorkedWith == cutoff' = IF Cutoff > cutoff THEN Cutoff ELSE cutoff

(* By the database's clock when the routine is called: a cutoff of the      *)
(* future, or one older than any retention period makes it.                *)
CutoffRefused == Cutoff > now \/ Cutoff < now - MaxCutoffDays * TicksPerDay

Refused == IF run.call = "ensure" THEN EnsureRefused ELSE CutoffRefused

(* A call that raises ends the whole run. *)
Raise ==
    /\ run # NoRun /\ run.kind = "retention" /\ txn = NoTxn
    /\ Refused
    /\ run' = NoRun
    /\ UNCHANGED <<now, partitions, contents, insertVars, txn, cutoff, failures>>

(* DROP TABLE of a partition locks the parent: it waits for every insert   *)
(* that has begun.  The budget may end the loop after any drop.            *)
Drop ==
    /\ IsRetention("drop")
    /\ ~ CutoffRefused
    /\ Expired # {}
    /\ \A s \in Statement : stage[s] \notin {"open", "stored"}
    /\ partitions' = partitions \ {Min(Expired)}
    /\ contents' = [contents EXCEPT ![Min(Expired)] = {}]
    /\ WorkedWith
    /\ run' \in {run, [run EXCEPT !.call = "delete"]}
    /\ UNCHANGED <<now, insertVars, txn, failures>>

NothingToDrop ==
    /\ IsRetention("drop")
    /\ ~ CutoffRefused
    /\ Expired = {}
    /\ run' = [run EXCEPT !.call = "delete"]
    /\ UNCHANGED <<now, partitions, contents, insertVars, txn, cutoff, failures>>

(* The victims: the oldest expired rows of the default partition.  A full  *)
(* batch is followed by another one unless the budget is used up.          *)
Victims ==
    LET expired == {r \in contents[Default] : TimeOf(r) < Cutoff} IN
    {V \in SUBSET expired :
        /\ Cardinality(V) = Min({DeleteBatchSize, Cardinality(expired)})
        /\ \A v \in V, r \in expired \ V : TimeOf(v) <= TimeOf(r)}

Delete ==
    /\ IsRetention("delete")
    /\ ~ CutoffRefused
    /\ \E V \in Victims :
         /\ contents' = [contents EXCEPT ![Default] = @ \ V]
         /\ run' \in IF Cardinality(V) = DeleteBatchSize THEN {run, NoRun} ELSE {NoRun}
    /\ WorkedWith
    /\ UNCHANGED <<now, partitions, insertVars, txn, failures>>

-------------------------------------------------------------------------------

Begin == BeginPreparation \/ \E skew \in -MaxSkew..MaxSkew : BeginRetention(skew)

RunStep ==
    \/ EnsureExists \/ LockDefault \/ Move \/ Attach
    \/ Raise \/ Drop \/ NothingToDrop \/ Delete

End(s) == Store(s) \/ Commit(s) \/ Abort(s)

Next ==
    \/ Tick
    \/ \E s \in Statement : Open(s) \/ End(s)
    \/ Begin
    \/ RunStep
    \/ Fail

Spec == Init /\ [][Next]_vars

(* Retention runs again and again, by a clock that is right now and then,  *)
(* an insert that has begun ends, and time goes on.                        *)
Fairness ==
    /\ WF_vars(Tick)
    /\ SF_vars(BeginRetention(0))
    /\ WF_vars(RunStep)
    /\ \A s \in Statement : WF_vars(End(s))

FairSpec == Spec /\ Fairness

-------------------------------------------------------------------------------
(* Properties. *)

(* Types; a row of a day's partition belongs to that day, and a day        *)
(* without a partition has no rows but in the default one.                 *)
TypeOK ==
    /\ now \in FirstTick..LastTick
    /\ partitions \subseteq Day
    /\ DOMAIN contents = Day \cup {Default}
    /\ contents[Default] \subseteq Row
    /\ \A d \in Day : contents[d] \subseteq {r \in Row : d \in partitions /\ DayOf(r) = d}
    /\ stage \in [Statement -> {"new", "open", "stored", "committed", "aborted"}]
    /\ seen \in [Statement -> SUBSET Day]
    /\ \/ run = NoRun
       \/ run.kind = "preparation" /\ run.todo \in (SUBSET Day) \ {{}}
       \/ run.kind = "retention" /\ run.call \in {"ensure", "drop", "delete"} /\ run.offset \in 0..2
    /\ txn.stage \in {"none", "locked", "moved"} /\ txn.day \in Day /\ txn.moved \subseteq Row
    /\ cutoff \in Nat
    /\ failures \in 0..MaxFailures

(* The rows of all partitions together are a LogStore: creating a          *)
(* partition beside running inserts, moving rows and failing half-way      *)
(* neither lose nor double a row, and what is dropped or deleted is older  *)
(* than the cutoff.                                                        *)
Accepted == UNION {Carries[s] : s \in {t \in Statement : stage[t] = "committed"}}

Table == INSTANCE LogStore WITH accepted <- Accepted, logs <- UNION {contents[p] : p \in DOMAIN contents}

KeepsRows == Table!Spec

(* The default partition has no row of a day that has a partition, however *)
(* an insert that routes with what it saw before meets a maintenance run:  *)
(* so no row is in two partitions, queries that prune to the partition of  *)
(* a day miss none of its rows, and a dropped day is gone completely.  Nor *)
(* has it one of a day that is being attached: a row that an insert brings *)
(* there after the move would fail this run, and every later one.          *)
DefaultStaysClear ==
    /\ \A r \in contents[Default] : DayOf(r) \notin partitions
    /\ txn.stage = "moved" => Misplaced = {}

(* Rows older than the retention period and a day do go, out of the daily  *)
(* partitions and out of the default one: again and again none is left.    *)
ExpiredRowsGo ==
    []<>(\A p \in DOMAIN contents, r \in Row :
            TimeOf(r) + (RetentionDays + 1) * TicksPerDay <= now => r \notin contents[p])
===============================================================================
