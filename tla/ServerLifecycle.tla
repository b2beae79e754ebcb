---------------------------- MODULE ServerLifecycle ----------------------------
(***************************************************************************)
(* One server process from its runtime start to its exit: startRuntime of  *)
(* src/server.ts, the shutdown of src/server-lifecycle.ts, the readiness   *)
(* of src/shared/readiness.ts and the health route.  Each action runs to   *)
(* the next await; signals, requests, clients that go away, lost           *)
(* connections and the deadline come between any two.                      *)
(*                                                                         *)
(* The batching coordinator and retention are as far here as a shutdown    *)
(* waits for them (BatchedIngestion, RetentionMaintenance).                *)
(***************************************************************************)
EXTENDS FiniteSets

CONSTANTS
    Request,          \* slots for the inserts and queries in flight
    Monitor           \* slots for the health checks in flight

ASSUME SlotAssumption == Request \cap Monitor = {}

Slot == Request \cup Monitor

VARIABLES
    phase,            \* how far startRuntime has come
    readiness,
    app,              \* the HTTP server
    request,          \* request[r]: what is done for a request in flight
    gone,             \* the requests in flight whose client has disconnected
    retention,        \* the retention service
    pool,             \* the database pool
    connected,        \* the database can be reached
    lossKnown,        \* FALSE: an "error" event of the pool is on its way
    shutdown,         \* state of the lifecycle
    closing,          \* what the shutdown waits for
    cleanup           \* what a failed startRuntime waits for

vars == <<phase, readiness, app, request, gone, retention, pool, connected, lossKnown,
          shutdown, closing, cleanup>>

requestVars == <<request, gone>>

Init ==
    /\ phase = "verifying"
    /\ readiness = "starting"
    /\ app = "idle"
    /\ request = [r \in Slot |-> "none"]
    /\ gone = {}
    /\ retention = "idle"
    /\ pool = "open"
    /\ connected \in BOOLEAN
    /\ lossKnown = TRUE
    /\ shutdown = "running"
    /\ closing = "none"
    /\ cleanup = "none"

(* Mutant: a late success makes a stopping server ready. *)
MarkReady_Always == "ready"

MarkReady == IF readiness # "stopping" THEN "ready" ELSE readiness

MarkUnavailable == IF readiness \in {"ready", "degraded"} THEN "degraded" ELSE readiness

InFlight == {r \in Slot : request[r] # "none"}

Inserting == {r \in Slot : request[r] = "inserting"}

(* Statements that have a client of the pool. *)
Holding == {r \in Slot : request[r] = "holding"}

-------------------------------------------------------------------------------
(* startRuntime *)

Verify ==
    /\ phase = "verifying"
    /\ connected
    /\ phase' = "listening"
    /\ app' = "pending"
    /\ UNCHANGED <<readiness, requestVars, retention, pool, connected, lossKnown,
                   shutdown, closing, cleanup>>

(* The database was not reached before the deadline, or is not as it must  *)
(* be; nothing waits in the coordinator.                                   *)
VerifyFails ==
    /\ phase = "verifying"
    /\ phase' = "failed"
    /\ readiness' = "stopping"
    /\ pool' = "ended"
    /\ UNCHANGED <<app, requestVars, retention, connected, lossKnown,
                   shutdown, closing, cleanup>>

StartRetention == IF retention = "idle" THEN "running" ELSE retention

(* listen() settles while the server opens or is already being closed. *)
ListenSucceeds ==
    /\ phase = "listening"
    /\ app # "closed"
    /\ phase' = "serving"
    /\ app' = IF app = "pending" THEN "open" ELSE app
    /\ retention' = StartRetention
    /\ readiness' = MarkReady
    /\ UNCHANGED <<requestVars, pool, connected, lossKnown, shutdown, closing, cleanup>>

ListenFails ==
    /\ phase = "listening"
    /\ phase' = "failing"
    /\ readiness' = "stopping"
    /\ app' = IF app = "pending" THEN "closing" ELSE app
    /\ cleanup' = "batches"
    /\ UNCHANGED <<requestVars, retention, pool, connected, lossKnown, shutdown, closing>>

(* pool.end(): what waits for a client waits in vain, what has one goes on. *)
EndPool == pool' = IF pool = "open" THEN "ending" ELSE pool

PoolEnds ==
    /\ pool = "ending"
    /\ Holding = {}
    /\ pool' = "ended"
    /\ UNCHANGED <<phase, readiness, app, requestVars, retention, connected, lossKnown,
                   shutdown, closing, cleanup>>

(* The coordinator closes when its inserts have settled.  The second       *)
(* pool.end() of a process is refused.                                     *)
CleanUpBatches ==
    /\ cleanup = "batches"
    /\ Inserting = {}
    /\ EndPool
    /\ cleanup' = IF pool = "open" THEN "pool" ELSE "done"
    /\ UNCHANGED <<phase, readiness, app, requestVars, retention, connected, lossKnown,
                   shutdown, closing>>

CleanUpPool ==
    /\ cleanup = "pool"
    /\ pool = "ended"
    /\ cleanup' = "done"
    /\ UNCHANGED <<phase, readiness, app, requestVars, retention, pool, connected, lossKnown,
                   shutdown, closing>>

StartFails ==
    /\ phase = "failing"
    /\ cleanup = "done" /\ app = "closed"
    /\ phase' = "failed"
    /\ UNCHANGED <<readiness, app, requestVars, retention, pool, connected, lossKnown,
                   shutdown, closing, cleanup>>

-------------------------------------------------------------------------------
(* Requests. *)

(* What the steps of requests leave alone, all but readiness. *)
rest == <<phase, app, retention, pool, connected, lossKnown, shutdown, closing, cleanup>>

Arrive(r) ==
    /\ app = "open"
    /\ request[r] = "none"
    /\ request' = [request EXCEPT ![r] = "receiving"]
    /\ UNCHANGED <<rest, readiness, gone>>

(* The body is there: an insert goes to the coordinator, a query asks the  *)
(* pool for a client.                                                      *)
Work(r) ==
    /\ request[r] = "receiving"
    /\ request' \in {[request EXCEPT ![r] = "inserting"], [request EXCEPT ![r] = "waiting"]}
    /\ UNCHANGED <<rest, readiness, gone>>

TakeClient(r) ==
    /\ request[r] = "waiting"
    /\ pool = "open"
    /\ request' = [request EXCEPT ![r] = "holding"]
    /\ UNCHANGED <<rest, readiness, gone>>

(* Its statement succeeds, fails or times out, or there is no client in    *)
(* time; the request is answered.                                          *)
Answer(r) ==
    /\ request[r] \in {"inserting", "waiting", "holding"}
    /\ request' = [request EXCEPT ![r] = "none"]
    /\ gone' = gone \ {r}
    /\ UNCHANGED <<rest, readiness>>

(* A client goes away: its handler runs on, unless the body is not there.  *)
Disconnect(r) ==
    /\ request[r] # "none" /\ r \notin gone
    /\ IF request[r] = "receiving"
          THEN request' = [request EXCEPT ![r] = "none"] /\ gone' = gone
          ELSE request' = request /\ gone' = gone \cup {r}
    /\ UNCHANGED <<rest, readiness>>

(* GET /health *)
Probe(r) ==
    /\ app = "open"
    /\ request[r] = "none"
    /\ readiness \notin {"starting", "stopping"}
    /\ request' = [request EXCEPT ![r] = "waiting"]
    /\ UNCHANGED <<rest, readiness, gone>>

(* SELECT 1 is answered, or there is no client in time; this is not        *)
(* handled yet.                                                            *)
ProbeSettles(r) ==
    /\ request[r] \in {"waiting", "holding"}
    /\ \/ request' = [request EXCEPT ![r] = "probe failed"]
       \/ /\ request[r] = "holding" /\ connected
          /\ request' = [request EXCEPT ![r] = "probe succeeded"]
    /\ UNCHANGED <<rest, readiness, gone>>

(* Mutant: a failed probe is only reported. *)
Judge_ReportsOnly(r) == IF request[r] = "probe succeeded" THEN MarkReady ELSE readiness

Judge(r) == IF request[r] = "probe succeeded" THEN MarkReady ELSE MarkUnavailable

ProbeHandled(r) ==
    /\ request[r] \in {"probe succeeded", "probe failed"}
    /\ readiness' = Judge(r)
    /\ request' = [request EXCEPT ![r] = "none"]
    /\ gone' = gone \ {r}
    /\ UNCHANGED rest

-------------------------------------------------------------------------------
(* The database and retention. *)

Lose ==
    /\ connected
    /\ connected' = FALSE
    /\ lossKnown' \in {FALSE, lossKnown}    \* an idle client may notice
    /\ UNCHANGED <<phase, readiness, app, requestVars, retention, pool,
                   shutdown, closing, cleanup>>

Recover ==
    /\ ~ connected
    /\ connected' = TRUE
    /\ UNCHANGED <<phase, readiness, app, requestVars, retention, pool, lossKnown,
                   shutdown, closing, cleanup>>

(* databasePool.on("error") *)
PoolError ==
    /\ ~ lossKnown
    /\ lossKnown' = TRUE
    /\ readiness' = MarkUnavailable
    /\ UNCHANGED <<phase, app, requestVars, retention, pool, connected,
                   shutdown, closing, cleanup>>

RetentionRunEnds ==
    /\ retention \in {"running", "stopping"}
    /\ retention' = IF retention = "running" THEN "scheduled" ELSE "stopped"
    /\ UNCHANGED <<phase, readiness, app, requestVars, pool, connected, lossKnown,
                   shutdown, closing, cleanup>>

RetentionRunBegins ==
    /\ retention = "scheduled"
    /\ retention' = "running"
    /\ UNCHANGED <<phase, readiness, app, requestVars, pool, connected, lossKnown,
                   shutdown, closing, cleanup>>

-------------------------------------------------------------------------------
(* Shutdown. *)

(* The handlers of the lifecycle are installed before listen and removed   *)
(* when it fails; without them a signal ends the process.                  *)
Handled == phase \in {"listening", "serving"}

Signal ==
    /\ Handled
    /\ shutdown = "running"
    /\ shutdown' = "closing"
    /\ readiness' = "stopping"
    /\ closing' = "application"
    /\ app' = "closing"
    /\ UNCHANGED <<phase, requestVars, retention, pool, connected, lossKnown, cleanup>>

(* The process ends, and what it had open is closed. *)
Die ==
    /\ phase' = "exited"
    /\ readiness' = "stopping"
    /\ app' = "closed"
    /\ request' = [r \in Slot |-> "none"]
    /\ gone' = {}
    /\ retention' = "stopped"
    /\ pool' = "ended"
    /\ lossKnown' = TRUE
    /\ shutdown' = IF shutdown = "closing" THEN "failed" ELSE shutdown
    /\ closing' = IF closing = "none" THEN "none" ELSE "done"
    /\ cleanup' = "done"
    /\ UNCHANGED connected

Kill ==
    /\ ~ Handled /\ phase # "exited"
    /\ Die

(* app.close() resolves when no connection has a request in flight; it     *)
(* does not wait for the handlers of clients that went away.               *)
AppCloses ==
    /\ app = "closing"
    /\ InFlight \subseteq gone
    /\ app' = "closed"
    /\ UNCHANGED <<phase, readiness, requestVars, retention, pool, connected, lossKnown,
                   shutdown, closing, cleanup>>

StopRetention == IF retention = "running" THEN "stopping" ELSE "stopped"

CloseApplication ==
    /\ closing = "application"
    /\ app = "closed"
    /\ closing' = "retention"
    /\ retention' = StopRetention
    /\ UNCHANGED <<phase, readiness, app, requestVars, pool, connected, lossKnown,
                   shutdown, cleanup>>

(* Mutant: the run of retention is not awaited. *)
RetentionStopped_NotAwaited == TRUE

RetentionStopped == retention = "stopped"

CloseRetention ==
    /\ closing = "retention"
    /\ RetentionStopped
    /\ closing' = "batches"
    /\ UNCHANGED <<phase, readiness, app, requestVars, retention, pool, connected, lossKnown,
                   shutdown, cleanup>>

CloseBatches ==
    /\ closing = "batches"
    /\ Inserting = {}
    /\ EndPool
    /\ closing' = IF pool = "open" THEN "pool" ELSE "done"
    /\ shutdown' = IF pool = "open" THEN shutdown ELSE "failed"
    /\ UNCHANGED <<phase, readiness, app, requestVars, retention, connected, lossKnown,
                   cleanup>>

ClosePool ==
    /\ closing = "pool"
    /\ pool = "ended"
    /\ closing' = "done"
    /\ shutdown' = "closed"
    /\ UNCHANGED <<phase, readiness, app, requestVars, retention, pool, connected, lossKnown,
                   cleanup>>

(* Mutant: the failure is reported and the process left to itself. *)
Deadline_ReportsOnly ==
    /\ shutdown = "closing"
    /\ shutdown' = "failed"
    /\ UNCHANGED <<phase, readiness, app, requestVars, retention, pool, connected, lossKnown,
                   closing, cleanup>>

Deadline ==
    /\ shutdown = "closing"
    /\ Die

(* Nothing is left that keeps the event loop alive. *)
Exit ==
    /\ phase \in {"serving", "failed"}
    /\ pool = "ended"
    /\ app \in {"idle", "closed"} /\ InFlight = {}
    /\ retention \in {"idle", "stopped"}
    /\ shutdown # "closing"
    /\ Die

-------------------------------------------------------------------------------

Startup == Verify \/ VerifyFails \/ ListenSucceeds \/ ListenFails \/ CleanUpBatches \/ CleanUpPool \/ StartFails

Serve(r) ==
    \/ TakeClient(r)
    \/ r \in Request /\ Answer(r)
    \/ r \in Monitor /\ (ProbeSettles(r) \/ ProbeHandled(r))

Close == AppCloses \/ CloseApplication \/ CloseRetention \/ CloseBatches \/ ClosePool \/ PoolEnds

Next ==
    \/ Startup
    \/ \E r \in Request : Arrive(r) \/ Work(r)
    \/ \E r \in Monitor : Probe(r)
    \/ \E r \in Slot : Serve(r) \/ Disconnect(r)
    \/ Lose \/ Recover \/ PoolError
    \/ RetentionRunEnds \/ RetentionRunBegins
    \/ Signal \/ Kill \/ Close \/ Deadline \/ Exit

Spec == Init /\ [][Next]_vars

(* The event loop handles what is due, statements end, the deadline comes, *)
(* and health is asked for again and again.  A client may keep a request   *)
(* open for as long as it likes, and nobody has to send a signal.          *)
Fairness ==
    /\ WF_vars(Startup) /\ WF_vars(PoolError) /\ WF_vars(RetentionRunEnds)
    /\ WF_vars(Close) /\ WF_vars(Deadline) /\ WF_vars(Exit)
    /\ \A r \in Slot : WF_vars(Serve(r))
    /\ \A r \in Monitor : WF_vars(Probe(r))

FairSpec == Spec /\ Fairness

-------------------------------------------------------------------------------
(* Properties. *)

(* Types; what the shutdown waits for agrees with its state. *)
TypeOK ==
    /\ phase \in {"verifying", "listening", "serving", "failing", "failed", "exited"}
    /\ readiness \in {"starting", "ready", "degraded", "stopping"}
    /\ app \in {"idle", "pending", "open", "closing", "closed"}
    /\ request \in [Slot -> {"none", "receiving", "inserting", "waiting", "holding",
                                "probe succeeded", "probe failed"}]
    /\ gone \subseteq Slot
    /\ retention \in {"idle", "running", "scheduled", "stopping", "stopped"}
    /\ pool \in {"open", "ending", "ended"}
    /\ shutdown \in {"running", "closing", "closed", "failed"}
    /\ closing \in {"none", "application", "retention", "batches", "pool", "done"}
    /\ shutdown = "running" <=> closing = "none"
    /\ shutdown = "closing" <=> closing \in {"application", "retention", "batches", "pool"}
    /\ cleanup \in {"none", "batches", "pool", "done"}
    /\ connected \in BOOLEAN /\ lossKnown \in BOOLEAN

(* The server is ready only while it listens, retention has been started   *)
(* and no shutdown has begun; a probe or a listen that was on its way when *)
(* the signal came does not make it ready again.                           *)
ReadyOnlyWhenServing ==
    readiness \in {"ready", "degraded"} =>
        phase = "serving" /\ shutdown = "running" /\ app = "open" /\ retention # "idle"

(* pool.end() is called, on any of the three ways to it, when each client  *)
(* that is still there has its answer, nothing is left in the coordinator  *)
(* and retention has stopped: all that can miss a client of the pool then  *)
(* is a query or a probe that nobody waits for.                            *)
PoolEndsQuiet ==
    pool # "open" =>
        /\ InFlight \subseteq gone /\ Inserting = {}
        /\ retention \notin {"running", "stopping", "scheduled"}

(* Every shutdown ends the process, also one that meets a listen that      *)
(* fails or a client that never ends its request.                          *)
ShutdownEnds == shutdown # "running" ~> phase = "exited"

(* A database that stays away is noticed, although a probe that had        *)
(* succeeded before may first declare the server ready again.              *)
LossIsNoticed == <>[](~ connected) => <>[](readiness # "ready")
================================================================================
