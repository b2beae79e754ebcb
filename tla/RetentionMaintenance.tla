------------------------- MODULE RetentionMaintenance -------------------------
(***************************************************************************)
(* Retention maintenance in several instances of the service that share    *)
(* one database: the scheduler of                                          *)
(* src/modules/retention/retention-service.ts, one maintenance run of      *)
(* src/modules/retention/retention-repository.ts, and the pooled sessions  *)
(* on which a run takes the advisory lock (1815642963, 2).                 *)
(*                                                                         *)
(* An advisory lock belongs to a session, is reentrant, and outlives the   *)
(* borrower of the session: it goes when it is unlocked as often as it was *)
(* taken, or when the session's backend ends.  A query that times out in   *)
(* the client goes on in the backend, and the next one waits behind it.    *)
(*                                                                         *)
(* What maintenance does to the tables is left out here: a statement is    *)
(* "ensure", "drop" or "delete" and answers whether there was work.        *)
(***************************************************************************)
EXTENDS Naturals, Sequences, FiniteSets

CONSTANTS
    Instance,
    Session,             \* the backends that the database can serve
    Nobody,              \* no instance, no session
    EnsureCalls,         \* partitions ensured by a run
    DropCallLimit,
    DeleteCallLimit

ASSUME NobodyAssumption == Nobody \notin Instance /\ Nobody \notin Session

ASSUME LimitsAssumption ==
    /\ EnsureCalls \in Nat \ {0}
    /\ DropCallLimit \in Nat \ {0}
    /\ DeleteCallLimit \in Nat \ {0}

VARIABLES
    alive,             \* alive[i]: the process of instance i runs
    started,
    stop,              \* stop[i]: the promise of stop(): "no" one, "waiting", "done"
    timerScheduled,
    pc,                \* pc[i]: where the active run waits, "idle" without a run
    call,              \* call[i]: the maintenance statement the run is at
    client,            \* client[i]: the session the run holds
    conn,              \* conn[s]: the session as its pool sees it
    owner,             \* owner[s]: the instance of that pool
    queue,             \* queue[s]: statements sent and not finished, in order
    reply,             \* reply[s]: the answer to the last of them
    holds              \* holds[s]: how often s has taken the advisory lock

serviceVars == <<alive, started, stop, timerScheduled>>
runVars == <<pc, call, client>>
sessionVars == <<conn, owner, queue, reply, holds>>
vars == <<serviceVars, runVars, sessionVars>>

-------------------------------------------------------------------------------

Maintenance == {"ensure", "drop", "delete"}

CallLimit == [ensure |-> EnsureCalls, drop |-> DropCallLimit, delete |-> DeleteCallLimit]

FirstCall == [kind |-> "ensure", number |-> 1]

(* signal.aborted: stop() aborts the run that is active, none begins later. *)
Aborted(i) == stop[i] # "no"

Init ==
    /\ alive = [i \in Instance |-> TRUE]
    /\ started = [i \in Instance |-> FALSE]
    /\ stop = [i \in Instance |-> "no"]
    /\ timerScheduled = [i \in Instance |-> FALSE]
    /\ pc = [i \in Instance |-> "idle"]
    /\ call = [i \in Instance |-> FirstCall]
    /\ client = [i \in Instance |-> Nobody]
    /\ conn = [s \in Session |-> "none"]
    /\ owner = [s \in Session |-> Nobody]
    /\ queue = [s \in Session |-> <<>>]
    /\ reply = [s \in Session |-> "none"]
    /\ holds = [s \in Session |-> 0]

-------------------------------------------------------------------------------
(* The scheduler. *)

(* beginRun *)
BeginRun(i) ==
    pc' = IF Aborted(i) \/ pc[i] # "idle" THEN pc ELSE [pc EXCEPT ![i] = "begun"]

Start(i) ==
    /\ alive[i]
    /\ ~ started[i]
    /\ ~ Aborted(i)
    /\ started' = [started EXCEPT ![i] = TRUE]
    /\ BeginRun(i)
    /\ UNCHANGED <<alive, stop, timerScheduled, call, client, sessionVars>>

TimerFires(i) ==
    /\ timerScheduled[i]
    /\ timerScheduled' = [timerScheduled EXCEPT ![i] = FALSE]
    /\ BeginRun(i)
    /\ UNCHANGED <<alive, started, stop, call, client, sessionVars>>

(* Mutant: the end of a run does not schedule the next one. *)
FinishRun_NoReschedule(i) ==
    /\ pc' = [pc EXCEPT ![i] = "idle"]
    /\ stop' = [stop EXCEPT ![i] = IF @ = "waiting" THEN "done" ELSE @]
    /\ UNCHANGED <<alive, started, timerScheduled>>

(* The finally block of executeRun, and stop() resuming after await. *)
FinishRun(i) ==
    /\ pc' = [pc EXCEPT ![i] = "idle"]
    /\ timerScheduled' = [timerScheduled EXCEPT ![i] = @ \/ ~ Aborted(i)]
    /\ stop' = [stop EXCEPT ![i] = IF @ = "waiting" THEN "done" ELSE @]
    /\ UNCHANGED <<alive, started>>

Stop(i) ==
    /\ alive[i]
    /\ stop[i] = "no"
    /\ stop' = [stop EXCEPT ![i] = IF pc[i] = "idle" THEN "done" ELSE "waiting"]
    /\ timerScheduled' = [timerScheduled EXCEPT ![i] = FALSE]
    /\ UNCHANGED <<alive, started, runVars, sessionVars>>

-------------------------------------------------------------------------------
(* One run: its steps are the stretches between two awaits. *)

(* The run enters the repository; an aborted one goes no further. *)
EnterRun(i) ==
    /\ pc[i] = "begun"
    /\ IF Aborted(i)
         THEN FinishRun(i)
         ELSE pc' = [pc EXCEPT ![i] = "connecting"] /\ UNCHANGED serviceVars
    /\ UNCHANGED <<call, client, sessionVars>>

Send(s, statement) ==
    /\ queue' = [queue EXCEPT ![s] = IF conn[s] = "broken" THEN <<>> ELSE Append(@, statement)]
    /\ reply' = [reply EXCEPT ![s] = "none"]

(* pool.connect gives an idle client of the pool or opens a session. *)
Connected(i) ==
    /\ pc[i] = "connecting"
    /\ \E s \in Session :
         /\ conn[s] = "none" \/ (conn[s] = "idle" /\ owner[s] = i)
         /\ conn' = [conn EXCEPT ![s] = "used"]
         /\ owner' = [owner EXCEPT ![s] = i]
         /\ client' = [client EXCEPT ![i] = s]
         /\ Send(s, "lock")
    /\ pc' = [pc EXCEPT ![i] = "locking"]
    /\ UNCHANGED <<serviceVars, call, holds>>

ConnectFails(i) ==
    /\ pc[i] = "connecting"
    /\ FinishRun(i)
    /\ UNCHANGED <<call, client, sessionVars>>

(* Mutant: no query timeout, and a lost connection goes unnoticed. *)
Sees_NoTimeout(i, answer) == reply[client[i]] = answer

(* What the run may see of the statement it awaits: its answer, or an      *)
(* error of the connection or of the query timeout at any time.            *)
Sees(i, answer) == answer = "error" \/ reply[client[i]] = answer

(* releaseClient.  Destroying the client closes the connection: a          *)
(* statement already running goes on, one waiting in the client is lost.   *)
Release(i, destroy) ==
    LET s == client[i] IN
    /\ client' = [client EXCEPT ![i] = Nobody]
    /\ reply' = [reply EXCEPT ![s] = "none"]
    /\ conn' = [conn EXCEPT ![s] = IF conn[s] = "broken" THEN "none"
                                   ELSE IF destroy THEN "closing" ELSE "idle"]
    /\ owner' = [owner EXCEPT ![s] = IF conn[s] = "broken" THEN Nobody ELSE @]
    /\ \/ queue' = queue
       \/ /\ destroy
          /\ queue[s] # <<>>
          /\ \E k \in 0..1 : queue' = [queue EXCEPT ![s] = SubSeq(@, 1, k)]
    /\ UNCHANGED holds

(* The next statement of executeMaintenance, or the unlock after it: the   *)
(* abort signal is read before each statement.                             *)
Unlock(i) ==
    /\ Send(client[i], "unlock")
    /\ pc' = [pc EXCEPT ![i] = "unlocking"]
    /\ UNCHANGED call

(* Mutant: the abort signal is not read before a statement. *)
Perform_NoAbortCheck(i, c) ==
    /\ Send(client[i], c.kind)
    /\ call' = [call EXCEPT ![i] = c]
    /\ pc' = [pc EXCEPT ![i] = "working"]
    /\ UNCHANGED <<serviceVars, client, conn, owner, holds>>

Perform(i, c) ==
    /\ IF Aborted(i)
         THEN Unlock(i)
         ELSE /\ Send(client[i], c.kind)
              /\ call' = [call EXCEPT ![i] = c]
              /\ pc' = [pc EXCEPT ![i] = "working"]
    /\ UNCHANGED <<serviceVars, client, conn, owner, holds>>

(* Mutant: the answer of pg_try_advisory_lock is not looked at. *)
LockAnswered_Unread(i) ==
    /\ pc[i] = "locking"
    /\ \/ \E answer \in {"true", "false"} : Sees(i, answer) /\ Perform(i, FirstCall)
       \/ Sees(i, "error") /\ Release(i, TRUE) /\ FinishRun(i) /\ UNCHANGED call

LockAnswered(i) ==
    /\ pc[i] = "locking"
    /\ \/ Sees(i, "true") /\ Perform(i, FirstCall)
       \/ Sees(i, "false") /\ Release(i, FALSE) /\ FinishRun(i) /\ UNCHANGED call
       \/ Sees(i, "error") /\ Release(i, TRUE) /\ FinishRun(i) /\ UNCHANGED call

(* Mutant: the budget of the delete loop is not enforced. *)
IsLast_NoBudget(c, answer) == c.kind = "delete" /\ answer = "false"

(* The loops of executeMaintenance, as the statement after c. *)
IsLast(c, answer) == c.kind = "delete" /\ (answer = "false" \/ c.number = DeleteCallLimit)

Following(c, answer) ==
    CASE c.kind = "ensure" /\ c.number < EnsureCalls -> [c EXCEPT !.number = @ + 1]
      [] c.kind = "ensure" /\ c.number = EnsureCalls -> [kind |-> "drop", number |-> 1]
      [] c.kind = "drop" /\ answer = "true" /\ c.number < DropCallLimit -> [c EXCEPT !.number = @ + 1]
      [] c.kind = "drop" /\ (answer = "false" \/ c.number = DropCallLimit) -> [kind |-> "delete", number |-> 1]
      [] c.kind = "delete" -> [c EXCEPT !.number = @ + 1]

(* Mutant: a failed statement leaves the run without unlocking. *)
CallAnswered_ErrorKeepsLock(i) ==
    /\ pc[i] = "working"
    /\ \/ \E answer \in {"true", "false"} :
            /\ Sees(i, answer)
            /\ ~ IsLast(call[i], answer)
            /\ Perform(i, Following(call[i], answer))
       \/ /\ \E answer \in {"true", "false"} : Sees(i, answer) /\ IsLast(call[i], answer)
          /\ Unlock(i)
          /\ UNCHANGED <<serviceVars, client, conn, owner, holds>>
       \/ Sees(i, "error") /\ Release(i, FALSE) /\ FinishRun(i) /\ UNCHANGED call

CallAnswered(i) ==
    /\ pc[i] = "working"
    /\ \/ \E answer \in {"true", "false"} :
            /\ Sees(i, answer)
            /\ ~ IsLast(call[i], answer)
            /\ Perform(i, Following(call[i], answer))
       \/ /\ \/ Sees(i, "error")
             \/ \E answer \in {"true", "false"} : Sees(i, answer) /\ IsLast(call[i], answer)
          /\ Unlock(i)
          /\ UNCHANGED <<serviceVars, client, conn, owner, holds>>

(* Mutant: a client whose unlock failed goes back to the pool. *)
UnlockAnswered_KeepsClient(i) ==
    /\ pc[i] = "unlocking"
    /\ \E answer \in {"true", "false", "error"} : Sees(i, answer)
    /\ Release(i, FALSE)
    /\ FinishRun(i)
    /\ UNCHANGED call

UnlockAnswered(i) ==
    /\ pc[i] = "unlocking"
    /\ \/ Sees(i, "true") /\ Release(i, FALSE)
       \/ \E answer \in {"false", "error"} : Sees(i, answer) /\ Release(i, TRUE)
    /\ FinishRun(i)
    /\ UNCHANGED call

(* The process dies; its sessions are closed by the operating system. *)
Crash(i) ==
    /\ alive[i]
    /\ alive' = [alive EXCEPT ![i] = FALSE]
    /\ timerScheduled' = [timerScheduled EXCEPT ![i] = FALSE]
    /\ pc' = [pc EXCEPT ![i] = "idle"]
    /\ client' = [client EXCEPT ![i] = Nobody]
    /\ conn' = [s \in Session |->
                  IF owner[s] # i THEN conn[s]
                  ELSE IF conn[s] = "broken" THEN "none" ELSE "closing"]
    /\ owner' = [s \in Session |-> IF owner[s] = i /\ conn[s] = "broken" THEN Nobody ELSE owner[s]]
    /\ UNCHANGED <<started, stop, call, queue, reply, holds>>

-------------------------------------------------------------------------------
(* The database. *)

LockFree(s) == \A t \in Session \ {s} : holds[t] = 0

(* pg_try_advisory_lock, pg_advisory_unlock, and the maintenance routines. *)
Answers(s) ==
    CASE Head(queue[s]) = "lock" -> IF LockFree(s) THEN {"true"} ELSE {"false"}
      [] Head(queue[s]) = "unlock" -> IF holds[s] > 0 THEN {"true"} ELSE {"false"}
      [] Head(queue[s]) \in Maintenance -> {"true", "false", "error"}

HoldsAfter(s) ==
    CASE Head(queue[s]) = "lock" /\ LockFree(s) -> holds[s] + 1
      [] Head(queue[s]) = "unlock" /\ holds[s] > 0 -> holds[s] - 1
      [] OTHER -> holds[s]

(* The oldest statement of a session ends; its answer reaches the client   *)
(* if the client still awaits that statement.                              *)
Execute(s) ==
    /\ queue[s] # <<>>
    /\ queue' = [queue EXCEPT ![s] = Tail(@)]
    /\ holds' = [holds EXCEPT ![s] = HoldsAfter(s)]
    /\ \E answer \in Answers(s) :
         reply' = IF conn[s] = "used" /\ Len(queue[s]) = 1
                    THEN [reply EXCEPT ![s] = answer]
                    ELSE reply
    /\ UNCHANGED <<serviceVars, runVars, conn, owner>>

(* The backend of a closed connection ends when it has nothing to run. *)
Reap(s) ==
    /\ conn[s] = "closing"
    /\ queue[s] = <<>>
    /\ conn' = [conn EXCEPT ![s] = "none"]
    /\ owner' = [owner EXCEPT ![s] = Nobody]
    /\ reply' = [reply EXCEPT ![s] = "none"]
    /\ holds' = [holds EXCEPT ![s] = 0]
    /\ UNCHANGED <<serviceVars, runVars, queue>>

(* The backend is terminated: the pool drops an idle client, a borrower    *)
(* keeps a client on which every query fails.                              *)
Terminate(s) ==
    /\ conn[s] \in {"idle", "used", "closing"}
    /\ conn' = [conn EXCEPT ![s] = IF @ = "used" THEN "broken" ELSE "none"]
    /\ owner' = [owner EXCEPT ![s] = IF conn[s] = "used" THEN @ ELSE Nobody]
    /\ queue' = [queue EXCEPT ![s] = <<>>]
    /\ reply' = [reply EXCEPT ![s] = "none"]
    /\ holds' = [holds EXCEPT ![s] = 0]
    /\ UNCHANGED <<serviceVars, runVars>>

-------------------------------------------------------------------------------

RunStep(i) ==
    EnterRun(i) \/ Connected(i) \/ ConnectFails(i) \/ LockAnswered(i) \/ CallAnswered(i) \/ UnlockAnswered(i)

Next ==
    \/ \E i \in Instance : Start(i) \/ TimerFires(i) \/ Stop(i) \/ Crash(i) \/ RunStep(i)
    \/ \E s \in Session : Execute(s) \/ Reap(s) \/ Terminate(s)

Spec == Init /\ [][Next]_vars

(* A run goes on because every wait of it has a timeout; the database ends *)
(* its statements and the backends that nobody is connected to.            *)
Fairness ==
    /\ \A i \in Instance : WF_vars(RunStep(i))
    /\ \A s \in Session : WF_vars(Execute(s)) /\ WF_vars(Reap(s))

FairSpec == Spec /\ Fairness

-------------------------------------------------------------------------------
(* Properties. *)

(* Types; a run never makes more calls of a kind than its budget allows.   *)
TypeOK ==
    /\ alive \in [Instance -> BOOLEAN]
    /\ started \in [Instance -> BOOLEAN]
    /\ stop \in [Instance -> {"no", "waiting", "done"}]
    /\ timerScheduled \in [Instance -> BOOLEAN]
    /\ pc \in [Instance -> {"idle", "begun", "connecting", "locking", "working", "unlocking"}]
    /\ \A i \in Instance :
         call[i] \in UNION {[kind : {k}, number : 1..CallLimit[k]] : k \in Maintenance}
    /\ client \in [Instance -> Session \cup {Nobody}]
    /\ conn \in [Session -> {"none", "idle", "used", "broken", "closing"}]
    /\ owner \in [Session -> Instance \cup {Nobody}]
    /\ queue \in [Session -> Seq(Maintenance \cup {"lock", "unlock"})]
    /\ reply \in [Session -> {"none", "true", "false", "error"}]
    /\ holds \in [Session -> Nat]

(* A client that is back in the pool carries neither the advisory lock nor *)
(* an unfinished statement: the next borrower of the session, an ingestion *)
(* or a query, cannot hold maintenance off without knowing it.             *)
NoParkedLock == \A s \in Session : conn[s] = "idle" => holds[s] = 0 /\ queue[s] = <<>>

(* A maintenance statement runs only in the session that holds the lock,   *)
(* alone: also when its client timed out, died or was destroyed.           *)
MaintenanceExclusive ==
    \A s \in Session :
        queue[s] # <<>> /\ Head(queue[s]) \in Maintenance => holds[s] > 0 /\ LockFree(s)

RunOrTimer ==
    \A i \in Instance :
        alive[i] /\ started[i] /\ stop[i] = "no" => (timerScheduled[i] <=> pc[i] = "idle")

StopIsQuiet ==
    \A i \in Instance :
        alive[i] /\ stop[i] = "done" =>
            /\ ~ timerScheduled[i]
            /\ pc[i] = "idle"
            /\ \A s \in Session : owner[s] = i => conn[s] \notin {"used", "broken"}

(* A started scheduler that is not being stopped has a run or a timer, and *)
(* never both: maintenance neither dies out nor overlaps itself.  When     *)
(* stop() resolves nothing of retention is left, no timer, no run and no   *)
(* borrowed client, so that the pool can be ended.                         *)
RunsUntilStopped == RunOrTimer /\ StopIsQuiet

(* After stop() is called no further maintenance statement is sent.        *)
AbortedSendsNothing ==
    [][\A s \in Session :
         Len(queue'[s]) > Len(queue[s]) /\ queue'[s][Len(queue'[s])] \in Maintenance
           => ~ Aborted(owner[s])]_vars

(* A session that takes the lock gives it back, whatever becomes of the    *)
(* run, so that maintenance stays possible for the other instances.        *)
LockReleased == \A s \in Session : []<>(holds[s] = 0)

(* stop() resolves, unless its process dies first. *)
StopResolves == \A i \in Instance : stop[i] = "waiting" ~> stop[i] = "done" \/ ~ alive[i]
===============================================================================
