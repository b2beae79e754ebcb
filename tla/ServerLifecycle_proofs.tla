------------------------ MODULE ServerLifecycle_proofs ------------------------
(***************************************************************************)
(* Safety of ServerLifecycle for any number of requests and health checks  *)
(* in flight.                                                              *)
(***************************************************************************)
EXTENDS ServerLifecycle, TLAPS

Idle == \A r \in Slot : request[r] = "none"

Over == phase \in {"failing", "failed", "exited"}

(* What holds in each phase of startRuntime. *)
PhaseInv ==
    /\ phase = "verifying" =>
         /\ app = "idle" /\ Idle /\ retention = "idle" /\ pool = "open"
         /\ shutdown = "running"
    /\ phase = "listening" =>
         /\ app \in {"pending", "closing", "closed"} /\ Idle
         /\ retention \in {"idle", "stopped"}
         /\ app = "pending" <=> shutdown = "running"
    /\ phase = "serving" =>
         /\ app \in {"open", "closing", "closed"}
         /\ retention # "idle"
         /\ app = "open" <=> shutdown = "running"
    /\ Over =>
         /\ app \in {"idle", "closing", "closed"} /\ Idle
         /\ retention \in {"idle", "stopped"}
         /\ readiness = "stopping"

(* What is in flight is abandoned: its client has gone, and its body was   *)
(* there before.                                                           *)
Abandoned == \A r \in Slot : request[r] # "none" => r \in gone /\ request[r] # "receiving"

(* What holds at each stage of a shutdown, and when the pool is ended.     *)
ClosingInv ==
    /\ shutdown # "running" => readiness = "stopping"
    /\ \A r \in gone : request[r] \notin {"none", "receiving"}
    /\ app = "closed" => Abandoned
    /\ closing \in {"retention", "batches", "pool", "done"} => app = "closed"
    /\ closing \in {"batches", "pool", "done"} => retention = "stopped"
    /\ closing \in {"pool", "done"} => \A r \in Slot : request[r] # "inserting"
    /\ cleanup # "none" => Over
    /\ pool # "open" => closing \in {"pool", "done"} \/ Over

IInv == TypeOK /\ ReadyOnlyWhenServing /\ PhaseInv /\ ClosingInv

(* The initial states satisfy it.                                          *)
LEMMA InitIInv == Init => IInv
  BY DEF Init, IInv, TypeOK, ReadyOnlyWhenServing, PhaseInv, ClosingInv, Abandoned, Idle, Over, Slot

(* The invariant says nothing of the database but its type.                *)
LEMMA Framed ==
    /\ IInv
    /\ connected' \in BOOLEAN /\ lossKnown' \in BOOLEAN
    /\ UNCHANGED <<phase, readiness, app, request, gone, retention, pool, shutdown, closing, cleanup>>
    => IInv'
<1> SUFFICES ASSUME IInv, connected' \in BOOLEAN, lossKnown' \in BOOLEAN,
                    UNCHANGED <<phase, readiness, app, request, gone, retention, pool,
                                shutdown, closing, cleanup>>
             PROVE  IInv'
  OBVIOUS
<1>1. TypeOK'
  <2>1. TypeOK /\ UNCHANGED <<phase, readiness, app, request, gone, retention, pool,
                              shutdown, closing, cleanup>>
    BY DEF IInv
  <2> QED
    BY <2>1, ZenonT(60) DEF TypeOK
<1>2. ReadyOnlyWhenServing'
  BY DEF IInv, ReadyOnlyWhenServing
<1>3. PhaseInv'
  BY DEF IInv, PhaseInv, Idle, Over
<1>4. ClosingInv'
  BY DEF IInv, ClosingInv, Abandoned, Idle, Over
<1> QED
  BY <1>1, <1>2, <1>3, <1>4 DEF IInv

RequestTypes == [Slot -> {"none", "receiving", "inserting", "waiting", "holding",
                          "probe succeeded", "probe failed"}]

(* A step of a request keeps the types of what it leaves alone.            *)
LEMMA RequestTyped ==
    ASSUME TypeOK, request' \in RequestTypes, gone' = gone,
           connected' \in BOOLEAN, lossKnown' \in BOOLEAN,
           phase' = phase, readiness' = readiness, app' = app, retention' = retention,
           pool' = pool, shutdown' = shutdown, closing' = closing, cleanup' = cleanup
    PROVE  TypeOK'
<1>1. /\ phase' \in {"verifying", "listening", "serving", "failing", "failed", "exited"}
      /\ readiness' \in {"starting", "ready", "degraded", "stopping"}
      /\ app' \in {"idle", "pending", "open", "closing", "closed"}
      /\ retention' \in {"idle", "running", "scheduled", "stopping", "stopped"}
      /\ pool' \in {"open", "ending", "ended"}
      /\ gone' \subseteq Slot
  BY Zenon DEF TypeOK
<1>2. /\ shutdown' \in {"running", "closing", "closed", "failed"}
      /\ closing' \in {"none", "application", "retention", "batches", "pool", "done"}
      /\ shutdown' = "running" <=> closing' = "none"
      /\ shutdown' = "closing" <=> closing' \in {"application", "retention", "batches", "pool"}
      /\ cleanup' \in {"none", "batches", "pool", "done"}
  BY Zenon DEF TypeOK
<1> QED
  BY <1>1, <1>2, Zenon DEF TypeOK, RequestTypes

(* Every action keeps the invariant.                                       *)
LEMMA NextIInv == IInv /\ [Next]_vars => IInv'
<1> SUFFICES ASSUME IInv, [Next]_vars PROVE IInv'
  OBVIOUS
<1> USE DEF IInv, TypeOK, ReadyOnlyWhenServing, PhaseInv, ClosingInv, Abandoned, Idle, Over, requestVars, rest
<1>1. CASE Verify
  BY <1>1 DEF Verify
<1>2. CASE VerifyFails
  BY <1>2 DEF VerifyFails
<1>3. CASE ListenSucceeds
  BY <1>3 DEF ListenSucceeds, StartRetention, MarkReady
<1>4. CASE ListenFails
  BY <1>4 DEF ListenFails
<1>5. CASE CleanUpBatches
  <2> USE <1>5 DEF CleanUpBatches, EndPool, Inserting
  <2>1. TypeOK'
    OBVIOUS
  <2>2. ReadyOnlyWhenServing' /\ PhaseInv'
    OBVIOUS
  <2>3. ClosingInv'
    OBVIOUS
  <2> QED
    BY <2>1, <2>2, <2>3
<1>6. CASE StartFails
  BY <1>6 DEF StartFails
<1>7. CASE CleanUpPool
  <2> USE <1>7 DEF CleanUpPool
  <2>1. TypeOK'
    OBVIOUS
  <2>2. ReadyOnlyWhenServing' /\ PhaseInv'
    OBVIOUS
  <2>3. ClosingInv'
    OBVIOUS
  <2> QED
    BY <2>1, <2>2, <2>3
<1>8. ASSUME NEW r \in Request, Arrive(r) \/ Work(r) PROVE IInv'
  <2> r \in Slot
    BY DEF Slot
  <2>1. CASE Arrive(r)
    <3> USE <2>1 DEF Arrive
    <3>0. request' \in RequestTypes
      BY DEF RequestTypes
    <3>1. TypeOK'
      <4>1. connected' \in BOOLEAN /\ lossKnown' \in BOOLEAN
        BY Zenon
      <4> QED
        BY <3>0, <4>1, Zenon, RequestTyped
    <3>2. ReadyOnlyWhenServing' /\ PhaseInv'
      OBVIOUS
    <3>3. ClosingInv'
      <4>1. app # "closed" /\ closing \notin {"retention", "batches", "pool", "done"}
        OBVIOUS
      <4>2. \A q \in gone : request'[q] \notin {"none", "receiving"}
        OBVIOUS
      <4> QED
        BY <4>1, <4>2
    <3> QED
      BY <3>1, <3>2, <3>3
  <2>2. CASE Work(r)
    BY <2>2 DEF Work
  <2> QED
    BY <1>8, <2>1, <2>2
<1>9. ASSUME NEW r \in Monitor, Probe(r) PROVE IInv'
  <2> r \in Slot
    BY DEF Slot
  <2> QED
    BY <1>9 DEF Probe
<1>10. ASSUME NEW r \in Slot, Serve(r) \/ Disconnect(r) PROVE IInv'
  <2>1. CASE TakeClient(r)
    BY <2>1 DEF TakeClient
  <2>2. CASE Answer(r)
    BY <2>2 DEF Answer
  <2>3. CASE ProbeSettles(r)
    <3> USE <2>3 DEF ProbeSettles
    <3>0. request' \in RequestTypes
      BY DEF RequestTypes
    <3>1. TypeOK'
      <4>1. connected' \in BOOLEAN /\ lossKnown' \in BOOLEAN
        BY Zenon
      <4> QED
        BY <3>0, <4>1, Zenon, RequestTyped
    <3>2. ReadyOnlyWhenServing' /\ PhaseInv'
      OBVIOUS
    <3>3. ClosingInv'
      OBVIOUS
    <3> QED
      BY <3>1, <3>2, <3>3
  <2>4. CASE ProbeHandled(r)
    BY <2>4 DEF ProbeHandled, Judge, MarkReady, MarkUnavailable
  <2>5. CASE Disconnect(r)
    BY <2>5 DEF Disconnect
  <2> QED
    BY <1>10, <2>1, <2>2, <2>3, <2>4, <2>5 DEF Serve
<1>11. CASE Lose
  <2>1. connected' \in BOOLEAN /\ lossKnown' \in BOOLEAN
    BY <1>11, Zenon DEF Lose
  <2>2. UNCHANGED <<phase, readiness, app, request, gone, retention, pool, shutdown, closing, cleanup>>
    BY <1>11, Zenon DEF Lose
  <2> QED
    BY <2>1, <2>2, Framed
<1>12. CASE Recover
  <2>1. connected' \in BOOLEAN /\ lossKnown' \in BOOLEAN
    BY <1>12, Zenon DEF Recover
  <2>2. UNCHANGED <<phase, readiness, app, request, gone, retention, pool, shutdown, closing, cleanup>>
    BY <1>12, Zenon DEF Recover
  <2> QED
    BY <2>1, <2>2, Framed
<1>13. CASE PoolError
  <2>1. connected' \in BOOLEAN /\ lossKnown' \in BOOLEAN
    BY <1>13, Zenon DEF PoolError
  <2>2. readiness' = MarkUnavailable
    BY <1>13, Zenon DEF PoolError
  <2>3. UNCHANGED <<phase, app, request, gone, retention, pool, shutdown, closing, cleanup>>
    BY <1>13, Zenon DEF PoolError
  <2>4. PhaseInv' /\ ClosingInv' /\ ReadyOnlyWhenServing'
    BY <2>2, <2>3 DEF MarkUnavailable
  <2>5. readiness' \in {"starting", "ready", "degraded", "stopping"}
    BY <2>2 DEF MarkUnavailable
  <2>6. TypeOK'
    BY <2>1, <2>3, <2>5, Zenon
  <2> QED
    BY <2>4, <2>6
<1>14. CASE RetentionRunEnds
  BY <1>14 DEF RetentionRunEnds
<1>15. CASE RetentionRunBegins
  BY <1>15 DEF RetentionRunBegins
<1>16. CASE Signal
  BY <1>16 DEF Signal, Handled
<1>17. CASE Kill
  BY <1>17 DEF Kill, Die, Handled
<1>18. CASE AppCloses
  <2> USE <1>18 DEF AppCloses, InFlight
  <2>1. TypeOK'
    OBVIOUS
  <2>2. ReadyOnlyWhenServing' /\ PhaseInv'
    OBVIOUS
  <2>3. ClosingInv'
    OBVIOUS
  <2> QED
    BY <2>1, <2>2, <2>3
<1>19. CASE CloseApplication
  <2> USE <1>19 DEF CloseApplication, StopRetention
  <2>1. TypeOK'
    OBVIOUS
  <2>2. ReadyOnlyWhenServing' /\ PhaseInv'
    OBVIOUS
  <2>3. ClosingInv'
    OBVIOUS
  <2> QED
    BY <2>1, <2>2, <2>3
<1>20. CASE CloseRetention
  BY <1>20 DEF CloseRetention, RetentionStopped
<1>21. CASE CloseBatches
  BY <1>21 DEF CloseBatches, EndPool, Inserting
<1>22. CASE ClosePool
  BY <1>22 DEF ClosePool
<1>23. CASE PoolEnds
  <2> USE <1>23 DEF PoolEnds
  <2>1. TypeOK'
    OBVIOUS
  <2>2. ReadyOnlyWhenServing' /\ PhaseInv'
    OBVIOUS
  <2>3. ClosingInv'
    OBVIOUS
  <2> QED
    BY <2>1, <2>2, <2>3
<1>24. CASE Deadline
  BY <1>24 DEF Deadline, Die
<1>25. CASE Exit
  BY <1>25 DEF Exit, Die
<1>26. CASE UNCHANGED vars
  <2>1. connected' \in BOOLEAN /\ lossKnown' \in BOOLEAN
    BY <1>26, Zenon DEF vars
  <2>2. UNCHANGED <<phase, readiness, app, request, gone, retention, pool, shutdown, closing, cleanup>>
    BY <1>26, Zenon DEF vars
  <2> QED
    BY <2>1, <2>2, Framed
<1> QED
  BY <1>1, <1>2, <1>3, <1>4, <1>5, <1>6, <1>7, <1>8, <1>9, <1>10, <1>11, <1>12, <1>13, <1>14,
     <1>15, <1>16, <1>17, <1>18, <1>19, <1>20, <1>21, <1>22, <1>23, <1>24, <1>25, <1>26
  DEF Next, Startup, Close

(* The invariant holds in every state of every behaviour.                  *)
THEOREM Invariance == Spec => []IInv
  BY InitIInv, NextIInv, PTL DEF Spec

(* Types are kept, and the shutdown's state agrees with what it waits for. *)
THEOREM TypeCorrect == Spec => []TypeOK
<1>1. IInv => TypeOK
  BY DEF IInv
<1> QED
  BY <1>1, Invariance, PTL

(* readiness.ts: ready only while the server listens, retention has been   *)
(* started and no shutdown has begun.                                      *)
THEOREM ReadinessCorrect == Spec => []ReadyOnlyWhenServing
<1>1. IInv => ReadyOnlyWhenServing
  BY DEF IInv
<1> QED
  BY <1>1, Invariance, PTL

(* server.ts and server-lifecycle.ts: on any way out, the pool is ended    *)
(* when no insert and no run of retention needs it any more, and nobody    *)
(* waits for what may still miss it.                                       *)
THEOREM PoolCorrect == Spec => []PoolEndsQuiet
<1>1. IInv => PoolEndsQuiet
  <2> SUFFICES ASSUME IInv, pool # "open" PROVE PoolEndsQuiet
    BY DEF PoolEndsQuiet
  <2>1. Abandoned /\ \A r \in Slot : request[r] # "inserting"
    BY DEF IInv, TypeOK, PhaseInv, ClosingInv, Idle, Abandoned
  <2>2. retention \in {"idle", "stopped"}
    BY DEF IInv, TypeOK, PhaseInv, ClosingInv
  <2> QED
    BY <2>1, <2>2 DEF PoolEndsQuiet, Abandoned, InFlight, Inserting
<1> QED
  BY <1>1, Invariance, PTL
===============================================================================
