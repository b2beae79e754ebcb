--------------------------- MODULE BatchedIngestion ---------------------------
(***************************************************************************)
(* The write coordinator of the ingestion path,                            *)
(* createBatchedIngestionRepository in                                     *)
(* src/modules/ingestion/batched-ingestion-repository.ts, together with    *)
(* the insert statements it has in flight.                                 *)
(*                                                                         *)
(* Concurrent HTTP handlers call insert(records); the coordinator queues   *)
(* the calls, joins whole calls into batches of at most MaxBatchRows rows, *)
(* and keeps at most MaxConcurrentWrites statements in flight.  A promise  *)
(* is settled with the outcome of the statement that carried its records.  *)
(*                                                                         *)
(* The process is single threaded: a callback runs to completion.  The     *)
(* only callback with a loop is startAvailableWrites; its iterations are   *)
(* the steps StartNextWrite, and while `starting' holds no other step of   *)
(* the process is enabled.  The database runs beside the process, so its   *)
(* steps (Commit, LateCommit, LateAbort) may come at any time.             *)
(***************************************************************************)
EXTENDS Naturals, Sequences, FiniteSets, Functions

CONSTANTS
    Request,              \* the calls of insert
    Records,              \* Records[r]: the log records that call r carries
    Closer,               \* the calls of close
    MaxBatchRows,
    MaxQueuedRows,
    MaxConcurrentWrites

ASSUME RecordsAssumption ==
    /\ \A r \in Request : IsFiniteSet(Records[r])
    /\ \A r, s \in Request : r # s => Records[r] \cap Records[s] = {}

ASSUME LimitsAssumption ==      \* readPositiveInteger
    /\ MaxBatchRows \in Nat \ {0}
    /\ MaxQueuedRows \in Nat \ {0}
    /\ MaxConcurrentWrites \in Nat \ {0}

VARIABLES
    pending,          \* the queued calls, oldest first
    queuedRows,       \* the coordinator's own count of the rows of pending
    activeWrites,     \* its count of the statements in flight
    scheduledFlush,   \* the timer: none, after flushDelayMs, or after 0 ms
    closed,
    starting,         \* startAvailableWrites is in its loop
    writes,           \* the batches whose insert promise is not settled
    finishing,        \* settled batches whose finally callback has not run
    outcome,          \* outcome[r]: the state of the promise returned to r
    closer,           \* closer[c]: the state of the promise returned to c
    copies,           \* copies[r]: copies of r's records in the log table
    orphans           \* batches given up by the client, alive in the database

coordinatorVars == <<pending, queuedRows, activeWrites, scheduledFlush, closed, starting>>
writeVars == <<writes, finishing, outcome, closer>>
databaseVars == <<copies, orphans>>
vars == <<coordinatorVars, writeVars, databaseVars>>

-------------------------------------------------------------------------------

(* combineRecords: the rows that a set of calls puts into one statement. *)
RowsOf(R) == UNION {Records[r] : r \in R}

RowCount(R) == Cardinality(RowsOf(R))

Empty == {r \in Request : Records[r] = {}}

Prefix(k) == SubSeq(pending, 1, k)

(* Mutant: the last call of a batch is not shifted out of the queue. *)
Suffix_KeepsLast(k) == SubSeq(pending, k, Len(pending))

Suffix(k) == SubSeq(pending, k + 1, Len(pending))

(* takeBatch stops after k calls: another call would not fit, though the   *)
(* first one is taken whatever its size.                                   *)
StopsAfter(k) ==
    /\ k > 1 => RowCount(Range(Prefix(k))) <= MaxBatchRows
    /\ k < Len(pending) => RowCount(Range(Prefix(k + 1))) > MaxBatchRows

-------------------------------------------------------------------------------

Init ==
    /\ pending = <<>>
    /\ queuedRows = 0
    /\ activeWrites = 0
    /\ scheduledFlush = "none"
    /\ closed = FALSE
    /\ starting = FALSE
    /\ writes = {}
    /\ finishing = 0
    /\ outcome = [r \in Request |-> "new"]
    /\ closer = [c \in Closer |-> "new"]
    /\ copies = [r \in Request |-> 0]
    /\ orphans = {}

(* Mutant: a timer that is set is never replaced by an earlier one. *)
ScheduleFlush_NeverReplaces(delay) ==
    scheduledFlush' =
        IF pending' = <<>> \/ activeWrites' >= MaxConcurrentWrites THEN scheduledFlush
        ELSE IF scheduledFlush # "none" THEN scheduledFlush
        ELSE delay

(* scheduleFlush, on the queue and the counters as the caller leaves them: *)
(* a timer that is set already is replaced only by an immediate one.       *)
ScheduleFlush(delay) ==
    scheduledFlush' =
        IF pending' = <<>> \/ activeWrites' >= MaxConcurrentWrites THEN scheduledFlush
        ELSE IF scheduledFlush # "none" /\ delay # "now" THEN scheduledFlush
        ELSE delay

FlushDelay == IF closed \/ queuedRows' >= MaxBatchRows THEN "now" ELSE "delayed"

(* The loop condition of startAvailableWrites. *)
CanStart(queue, active) == active < MaxConcurrentWrites /\ queue # <<>>

-------------------------------------------------------------------------------
(* insert(records): its three answers. *)

InsertNothing(r) ==
    /\ outcome[r] = "new"
    /\ Records[r] = {}
    /\ outcome' = [outcome EXCEPT ![r] = "ok"]
    /\ UNCHANGED <<coordinatorVars, writes, finishing, closer, databaseVars>>

(* Mutant: the call being admitted is not counted against the limit. *)
OverLimit_Unsummed(r) == queuedRows > MaxQueuedRows

OverLimit(r) == queuedRows > 0 /\ queuedRows + RowCount({r}) > MaxQueuedRows

InsertRefused(r) ==
    /\ outcome[r] = "new"
    /\ Records[r] # {}
    /\ closed \/ OverLimit(r)
    /\ outcome' = [outcome EXCEPT ![r] = "refused"]
    /\ UNCHANGED <<coordinatorVars, writes, finishing, closer, databaseVars>>

InsertAdmitted(r) ==
    /\ outcome[r] = "new"
    /\ Records[r] # {}
    /\ ~ closed
    /\ ~ OverLimit(r)
    /\ outcome' = [outcome EXCEPT ![r] = "waiting"]
    /\ pending' = Append(pending, r)
    /\ queuedRows' = queuedRows + RowCount({r})
    /\ UNCHANGED <<activeWrites, closed, writes, finishing, closer, databaseVars>>
    /\ IF activeWrites < MaxConcurrentWrites /\ Len(pending') = 1
         THEN starting' = TRUE /\ UNCHANGED scheduledFlush
         ELSE ScheduleFlush(FlushDelay) /\ UNCHANGED starting

Insert(r) ==
    /\ ~ starting
    /\ InsertNothing(r) \/ InsertRefused(r) \/ InsertAdmitted(r)

-------------------------------------------------------------------------------
(* Flushing the queue. *)

TimerFires ==
    /\ ~ starting
    /\ scheduledFlush # "none"
    /\ scheduledFlush' = "none"
    /\ starting' = CanStart(pending, activeWrites)
    /\ UNCHANGED <<pending, queuedRows, activeWrites, closed, writeVars, databaseVars>>

(* One iteration of the loop: takeBatch and startWrite, then the two ways  *)
(* out of the loop and, out of it, the timer for what is left.             *)
StartNextWrite ==
    /\ starting
    /\ \E k \in 1..Len(pending) :
         /\ StopsAfter(k)
         /\ pending' = Suffix(k)
         /\ queuedRows' = queuedRows - RowCount(Range(Prefix(k)))
         /\ writes' = writes \cup {[batch |-> Range(Prefix(k)), stage |-> "sent"]}
    /\ activeWrites' = activeWrites + 1
    /\ starting' = /\ CanStart(pending', activeWrites')
                   /\ closed \/ queuedRows' >= MaxBatchRows
    /\ IF starting' THEN UNCHANGED scheduledFlush ELSE ScheduleFlush(FlushDelay)
    /\ UNCHANGED <<closed, finishing, outcome, closer, databaseVars>>

-------------------------------------------------------------------------------
(* The end of a statement, as the process sees it.  The promises of a      *)
(* batch settle together; the finally callback is a later microtask.       *)

SettleWrite(w, answer) ==
    /\ ~ starting
    /\ writes' = writes \ {w}
    /\ finishing' = finishing + 1
    /\ outcome' = [r \in Request |-> IF r \in w.batch THEN answer ELSE outcome[r]]
    /\ UNCHANGED <<coordinatorVars, closer>>

(* Mutant: the calls are answered without awaiting the statement. *)
WriteSucceeds_Unawaited(w) ==
    /\ SettleWrite(w, "ok")
    /\ UNCHANGED databaseVars

WriteSucceeds(w) ==
    /\ w.stage = "stored"
    /\ SettleWrite(w, "ok")
    /\ UNCHANGED databaseVars

(* The connection breaks, or the client stops waiting (query_timeout): the *)
(* statement is over, committed or not, or it still runs in the database.  *)
WriteFails(w) ==
    /\ SettleWrite(w, "failed")
    /\ \/ UNCHANGED orphans
       \/ /\ w.stage = "sent"
          /\ orphans' = orphans \cup {w.batch}
    /\ UNCHANGED copies

(* Mutant: the waiters of close are settled before the slot is given back. *)
SettleClose_TooSoon ==
    closer' = IF closed /\ pending = <<>> /\ activeWrites = 0
                THEN [c \in Closer |-> IF closer[c] = "waiting" THEN "done" ELSE closer[c]]
                ELSE closer

(* Mutant: statements in flight do not hold close back. *)
SettleClose_QueueOnly ==
    closer' = IF closed /\ pending = <<>>
                THEN [c \in Closer |-> IF closer[c] = "waiting" THEN "done" ELSE closer[c]]
                ELSE closer

SettleClose ==
    closer' = IF closed /\ pending = <<>> /\ activeWrites' = 0
                THEN [c \in Closer |-> IF closer[c] = "waiting" THEN "done" ELSE closer[c]]
                ELSE closer

FinishWrite ==
    /\ ~ starting
    /\ finishing > 0
    /\ finishing' = finishing - 1
    /\ activeWrites' = activeWrites - 1
    /\ UNCHANGED <<pending, queuedRows, closed, starting, writes, outcome, databaseVars>>
    /\ ScheduleFlush(FlushDelay)
    /\ SettleClose

-------------------------------------------------------------------------------
(* close(): the first call stops admission and drains, a later one waits. *)

Drained == pending = <<>> /\ activeWrites = 0

(* Mutant: close cancels the timer and leaves the queue to it. *)
Close_NoFlush(c) ==
    /\ ~ starting
    /\ closer[c] = "new"
    /\ closer' = [closer EXCEPT ![c] = IF Drained THEN "done" ELSE "waiting"]
    /\ IF closed /\ Drained
         THEN UNCHANGED <<closed, scheduledFlush>>
         ELSE closed' = TRUE /\ scheduledFlush' = "none"
    /\ UNCHANGED <<pending, queuedRows, activeWrites, starting, writes, finishing, outcome,
                   databaseVars>>

Close(c) ==
    /\ ~ starting
    /\ closer[c] = "new"
    /\ closer' = [closer EXCEPT ![c] = IF Drained THEN "done" ELSE "waiting"]
    /\ IF closed /\ Drained
         THEN UNCHANGED <<closed, scheduledFlush, starting>>
         ELSE /\ closed' = TRUE
              /\ scheduledFlush' = "none"
              /\ starting' = CanStart(pending, activeWrites)
    /\ UNCHANGED <<pending, queuedRows, activeWrites, writes, finishing, outcome, databaseVars>>

-------------------------------------------------------------------------------
(* PostgreSQL: a statement stores every row of its batch or none. *)

StoreRows(B) == copies' = [r \in Request |-> IF r \in B THEN copies[r] + 1 ELSE copies[r]]

Commit(w) ==
    /\ w.stage = "sent"
    /\ writes' = (writes \ {w}) \cup {[w EXCEPT !.stage = "stored"]}
    /\ StoreRows(w.batch)
    /\ UNCHANGED <<coordinatorVars, finishing, outcome, closer, orphans>>

LateCommit(B) ==
    /\ orphans' = orphans \ {B}
    /\ StoreRows(B)
    /\ UNCHANGED <<coordinatorVars, writeVars>>

LateAbort(B) ==
    /\ orphans' = orphans \ {B}
    /\ UNCHANGED <<coordinatorVars, writeVars, copies>>

-------------------------------------------------------------------------------

EndWrite(w) == WriteSucceeds(w) \/ WriteFails(w)

Next ==
    \/ \E r \in Request : Insert(r)
    \/ \E c \in Closer : Close(c)
    \/ TimerFires
    \/ StartNextWrite
    \/ FinishWrite
    \/ \E w \in writes : Commit(w) \/ WriteSucceeds(w) \/ WriteFails(w)
    \/ \E B \in orphans : LateCommit(B) \/ LateAbort(B)

Spec == Init /\ [][Next]_vars

(* The event loop runs its timers and microtasks, and every statement ends *)
(* because the pool gives it a query timeout.  Nothing obliges a caller.   *)
Fairness ==
    /\ WF_vars(TimerFires)
    /\ WF_vars(StartNextWrite)
    /\ WF_vars(FinishWrite)
    /\ WF_vars(\E w \in writes : EndWrite(w))

FairSpec == Spec /\ Fairness

-------------------------------------------------------------------------------
(* Properties. *)

Write == [batch : SUBSET Request, stage : {"sent", "stored"}]

(* Every variable stays in its type: in particular neither counter ever    *)
(* drops below zero.                                                       *)
TypeOK ==
    /\ pending \in Seq(Request)
    /\ queuedRows \in Nat
    /\ activeWrites \in Nat
    /\ scheduledFlush \in {"none", "delayed", "now"}
    /\ closed \in BOOLEAN
    /\ starting \in BOOLEAN
    /\ writes \subseteq Write
    /\ finishing \in Nat
    /\ outcome \in [Request -> {"new", "waiting", "ok", "failed", "refused"}]
    /\ closer \in [Closer -> {"new", "waiting", "done"}]
    /\ copies \in [Request -> Nat]
    /\ orphans \subseteq SUBSET Request

QueuedRowsExact == queuedRows = RowCount(Range(pending))

WritesCounted ==
    /\ activeWrites = Cardinality(writes) + finishing
    /\ activeWrites <= MaxConcurrentWrites

QueueBounded == queuedRows > MaxQueuedRows => Len(pending) = 1

BatchWithinLimit ==
    \A w \in writes : RowCount(w.batch) <= MaxBatchRows \/ Cardinality(w.batch) = 1

(* The counters queuedRows and activeWrites, which insert, takeBatch, the  *)
(* flush delay and close rely on, do not drift: they are the rows of the   *)
(* queue and the statements whose finally callback has not run.  So the    *)
(* three limits are kept, but for one oversized call that found the queue  *)
(* empty, or that makes a batch of its own.                                *)
LimitsKept == QueuedRowsExact /\ WritesCounted /\ QueueBounded /\ BatchWithinLimit

NoLostWakeup ==
    ~ starting /\ CanStart(pending, activeWrites) => scheduledFlush # "none"

FullQueueFlushesNow ==
    /\ ~ starting
    /\ CanStart(pending, activeWrites)
    /\ closed \/ queuedRows >= MaxBatchRows
    => scheduledFlush = "now"

(* Between callbacks, when calls wait and a write slot is free, a timer is *)
(* set, and it is the immediate one when the queue holds a full batch or   *)
(* close is draining it: no interleaving of insert, timer, write end and   *)
(* close leaves the queue with nobody to flush it.                         *)
NeverStranded == NoLostWakeup /\ FullQueueFlushesNow

(* A call whose promise is open is held in exactly one place, the queue or *)
(* one statement, and a settled call in none: no call is lost, sent twice  *)
(* or settled twice, and none is split over two statements.                *)
HeldExactlyOnce ==
    \A r \in Request :
        Cardinality({i \in DOMAIN pending : pending[i] = r})
          + Cardinality({w \in writes : r \in w.batch})
            = IF outcome[r] = "waiting" THEN 1 ELSE 0

(* close() resolves only when every admitted call has its answer, no       *)
(* statement is running and no flush is armed, so that the caller may end  *)
(* the pool, and it stays so.                                              *)
CloseMeansDrained ==
    (\E c \in Closer : closer[c] = "done") =>
        /\ closed
        /\ Drained
        /\ scheduledFlush = "none"
        /\ \A r \in Request : outcome[r] # "waiting"

(* The coordinator and its statements keep the promise of DurableIngestion *)
(* to every caller: an "ok" is backed by stored rows, nothing is stored    *)
(* twice, a refused call is never stored.                                  *)
Service == INSTANCE DurableIngestion

KeepsPromise == Service!Spec

(* Every admitted insert is eventually answered. *)
EveryInsertSettles ==
    \A r \in Request : outcome[r] = "waiting" ~> outcome[r] \in {"ok", "failed"}

(* Every close() eventually resolves. *)
CloseResolves == \A c \in Closer : closer[c] = "waiting" ~> closer[c] = "done"

===============================================================================
