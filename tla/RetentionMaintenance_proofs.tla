---------------------- MODULE RetentionMaintenance_proofs ----------------------
(***************************************************************************)
(* Proofs about RetentionMaintenance, for any number of instances and of   *)
(* database sessions and any budgets of a run.                             *)
(*                                                                         *)
(* None of the properties is inductive: what a run may conclude from an    *)
(* answer depends on what its session has still to do.  RunInv relates the *)
(* place of a run to the statements queued in its session, the answer that *)
(* waits there and the lock; SessionInv says what may be left of a session *)
(* whose borrower gave it up.                                              *)
(***************************************************************************)
EXTENDS RetentionMaintenance, SequenceTheorems, TLAPS

Statement == Maintenance \cup {"lock", "unlock"}
Holding == {"locking", "working", "unlocking"}
Calls == UNION {[kind : {k}, number : 1 .. CallLimit[k]] : k \in Maintenance}

TypeInv ==
    /\ alive \in [Instance -> BOOLEAN]
    /\ started \in [Instance -> BOOLEAN]
    /\ stop \in [Instance -> {"no", "waiting", "done"}]
    /\ timerScheduled \in [Instance -> BOOLEAN]
    /\ pc \in [Instance -> {"idle", "begun", "connecting"} \cup Holding]
    /\ call \in [Instance -> Calls]
    /\ client \in [Instance -> Session \cup {Nobody}]
    /\ conn \in [Session -> {"none", "idle", "used", "broken", "closing"}]
    /\ owner \in [Session -> Instance \cup {Nobody}]
    /\ queue \in [Session -> Seq(Statement)]
    /\ reply \in [Session -> {"none", "true", "false", "error"}]
    /\ holds \in [Session -> Nat]

\* The scheduler: where the run is, whether a timer waits, and stop().
ServiceInv ==
    \A i \in Instance :
        /\ ~ alive[i] \/ ~ started[i] => pc[i] = "idle" /\ ~ timerScheduled[i]
        /\ timerScheduled[i] => stop[i] = "no" /\ pc[i] = "idle"
        /\ alive[i] /\ started[i] /\ stop[i] = "no" => timerScheduled[i] \/ pc[i] # "idle"
        /\ alive[i] /\ stop[i] = "waiting" => pc[i] # "idle"
        /\ stop[i] = "done" => pc[i] = "idle"

\* A run and the session it has borrowed know each other.
OwnInv ==
    /\ \A i \in Instance :
         /\ pc[i] \notin Holding => client[i] = Nobody
         /\ pc[i] \in Holding =>
              /\ client[i] \in Session
              /\ owner[client[i]] = i
              /\ conn[client[i]] \in {"used", "broken"}
    /\ \A s \in Session :
         conn[s] \in {"used", "broken"} => owner[s] \in Instance /\ client[owner[s]] = s

\* What a session may still have to do, q, and whether it holds the lock.
Shape(q, h) ==
    \/ q = <<>> /\ h \in {0, 1}
    \/ q = <<"lock">> /\ h = 0
    \/ q = <<"unlock">> /\ h = 1
    \/ \E m \in Maintenance : (q = <<m>> \/ q = <<m, "unlock">>) /\ h = 1

SessionInv ==
    \A s \in Session :
        /\ Shape(queue[s], holds[s])
        /\ reply[s] # "none" => queue[s] = <<>>
        /\ conn[s] \in {"none", "idle", "broken"} => queue[s] = <<>> /\ holds[s] = 0
        /\ conn[s] = "broken" => reply[s] = "none"

\* The same, with the answer r, while the run of the session is at p.
RunShape(p, q, r, h) ==
    /\ p = "locking" =>
         \/ q = <<"lock">> /\ r = "none" /\ h = 0
         \/ q = <<>> /\ r = "true" /\ h = 1
         \/ q = <<>> /\ r = "false" /\ h = 0
    /\ p = "working" =>
         /\ h = 1
         /\ q = <<>> \/ \E m \in Maintenance : q = <<m>>
    /\ p = "unlocking" =>
         \/ q = <<>> /\ r = "true" /\ h = 0
         \/ /\ h = 1 /\ r = "none"
            /\ q = <<"unlock">> \/ \E m \in Maintenance : q = <<m, "unlock">>

RunInv ==
    \A i \in Instance :
        pc[i] \in Holding /\ conn[client[i]] = "used" =>
            RunShape(pc[i], queue[client[i]], reply[client[i]], holds[client[i]])

\* The lock is held by one session at most.
Mutex == \A s, t \in Session : s # t => holds[s] = 0 \/ holds[t] = 0

IInv == TypeInv /\ ServiceInv /\ OwnInv /\ SessionInv /\ RunInv /\ Mutex

-----------------------------------------------------------------------------
\* The invariant implies the properties.
LEMMA InvariantImplies ==
    IInv => TypeOK /\ NoParkedLock /\ MaintenanceExclusive /\ RunsUntilStopped
<1> SUFFICES ASSUME IInv PROVE TypeOK /\ NoParkedLock /\ MaintenanceExclusive /\ RunsUntilStopped
  OBVIOUS
<1> USE DEF IInv
<1>1. TypeOK
  BY DEF TypeInv, TypeOK, Calls, Holding, Statement
<1>2. NoParkedLock
  BY DEF NoParkedLock, SessionInv
<1>3. MaintenanceExclusive
  <2> SUFFICES ASSUME NEW s \in Session, queue[s] # <<>>, Head(queue[s]) \in Maintenance
               PROVE  holds[s] > 0 /\ LockFree(s)
    BY DEF MaintenanceExclusive
  <2>1. holds[s] = 1
    BY DEF SessionInv, Shape, Maintenance
  <2>2. QED  BY <2>1 DEF Mutex, LockFree
<1>4. RunOrTimer
  BY DEF RunOrTimer, ServiceInv, TypeInv
<1>5. StopIsQuiet
  <2> SUFFICES ASSUME NEW i \in Instance, alive[i], stop[i] = "done"
               PROVE  /\ ~ timerScheduled[i] /\ pc[i] = "idle"
                      /\ \A s \in Session : owner[s] = i => conn[s] \notin {"used", "broken"}
    BY DEF StopIsQuiet
  <2>1. ~ timerScheduled[i] /\ pc[i] = "idle"
    BY DEF ServiceInv
  <2>2. client[i] = Nobody
    BY <2>1 DEF OwnInv, Holding
  <2>3. QED  BY <2>1, <2>2, NobodyAssumption DEF OwnInv
<1>6. QED  BY <1>1, <1>2, <1>3, <1>4, <1>5 DEF RunsUntilStopped

LEMMA FirstCallType == FirstCall \in Calls
BY LimitsAssumption DEF FirstCall, Calls, CallLimit, Maintenance

LEMMA InitInvariant == Init => IInv
<1> SUFFICES ASSUME Init PROVE IInv
  OBVIOUS
<1>1. TypeInv
  BY FirstCallType DEF Init, TypeInv, Statement
<1>2. ServiceInv /\ OwnInv /\ SessionInv /\ RunInv /\ Mutex
  BY DEF Init, ServiceInv, OwnInv, SessionInv, RunInv, Mutex, Shape, Holding
<1>3. QED  BY <1>1, <1>2 DEF IInv

-----------------------------------------------------------------------------
\* A call is followed by one within the budgets.
LEMMA FollowingType ==
    ASSUME NEW c \in Calls, NEW answer \in {"true", "false"}, ~ IsLast(c, answer)
    PROVE  Following(c, answer) \in Calls
<1>1. PICK k \in Maintenance : c \in [kind : {k}, number : 1 .. CallLimit[k]]
  BY DEF Calls
<1>2. c.kind = k /\ c.number \in 1 .. CallLimit[k]
  BY <1>1
<1>3. CASE k = "ensure" /\ c.number < EnsureCalls
  <2>1. Following(c, answer) = [c EXCEPT !.number = c.number + 1]
    BY <1>2, <1>3 DEF Following
  <2>2. c.number + 1 \in 1 .. CallLimit[k]
    BY <1>2, <1>3, LimitsAssumption DEF CallLimit
  <2>3. QED  BY <1>1, <2>1, <2>2 DEF Calls
<1>4. CASE k = "ensure" /\ c.number = EnsureCalls
  BY <1>2, <1>4, LimitsAssumption DEF Following, Calls, CallLimit, Maintenance
<1>5. CASE k = "drop" /\ answer = "true" /\ c.number < DropCallLimit
  <2>1. Following(c, answer) = [c EXCEPT !.number = c.number + 1]
    BY <1>2, <1>5 DEF Following
  <2>2. c.number + 1 \in 1 .. CallLimit[k]
    BY <1>2, <1>5, LimitsAssumption DEF CallLimit
  <2>3. QED  BY <1>1, <2>1, <2>2 DEF Calls
<1>6. CASE k = "drop" /\ (answer = "false" \/ c.number = DropCallLimit)
  BY <1>2, <1>6, LimitsAssumption DEF Following, Calls, CallLimit, Maintenance
<1>7. CASE k = "delete"
  <2>1. Following(c, answer) = [c EXCEPT !.number = c.number + 1]
    BY <1>2, <1>7 DEF Following
  <2>2. c.number + 1 \in 1 .. CallLimit[k]
    BY <1>2, <1>7, LimitsAssumption DEF CallLimit, IsLast
  <2>3. QED  BY <1>1, <2>1, <2>2 DEF Calls
<1>8. QED
  BY <1>2, <1>3, <1>4, <1>5, <1>6, <1>7, LimitsAssumption DEF Maintenance, CallLimit

-----------------------------------------------------------------------------
\* Sequences of one and of two statements.
LEMMA AppendToOne ==
    ASSUME NEW S, NEW a \in S, NEW b \in S
    PROVE  Append(<<a>>, b) = <<a, b>>
<1> DEFINE p == Append(<<a>>, b)
           q == <<a, b>>
<1>1. p \in Seq(S) /\ Len(p) = 2 /\ p[1] = a /\ p[2] = b
  OBVIOUS
<1>2. q \in Seq(S) /\ Len(q) = 2 /\ q[1] = a /\ q[2] = b
  OBVIOUS
<1> HIDE DEF p, q
<1>3. \A k \in 1 .. Len(p) : p[k] = q[k]
  BY <1>1, <1>2
<1>4. p = q
  BY <1>1, <1>2, <1>3, SeqEqual
<1>5. QED  BY <1>4 DEF p, q

LEMMA FirstOfOne ==
    ASSUME NEW S, NEW a \in S
    PROVE  SubSeq(<<a>>, 1, 1) = <<a>>
<1> DEFINE p == SubSeq(<<a>>, 1, 1)
           q == <<a>>
<1>1. p \in Seq(S) /\ Len(p) = 1 /\ p[1] = a
  OBVIOUS
<1>2. q \in Seq(S) /\ Len(q) = 1 /\ q[1] = a
  OBVIOUS
<1> HIDE DEF p, q
<1>3. p = q
  BY <1>1, <1>2, SeqEqual
<1>4. QED  BY <1>3 DEF p, q

LEMMA FirstOfTwo ==
    ASSUME NEW S, NEW a \in S, NEW b \in S
    PROVE  SubSeq(<<a, b>>, 1, 1) = <<a>>
<1> DEFINE p == SubSeq(<<a, b>>, 1, 1)
           q == <<a>>
<1>1. p \in Seq(S) /\ Len(p) = 1 /\ p[1] = a
  OBVIOUS
<1>2. q \in Seq(S) /\ Len(q) = 1 /\ q[1] = a
  OBVIOUS
<1> HIDE DEF p, q
<1>3. p = q
  BY <1>1, <1>2, SeqEqual
<1>4. QED  BY <1>3 DEF p, q

-----------------------------------------------------------------------------
\* Steps of the scheduler move a run between places without a session.
LEMMA SchedulerStep ==
    ASSUME IInv, NEW i \in Instance,
           NEW p \in {"idle", "begun", "connecting"},
           pc[i] \notin Holding, pc' = [pc EXCEPT ![i] = p],
           TypeInv', ServiceInv',
           UNCHANGED <<client, sessionVars>>
    PROVE  IInv'
<1> USE DEF IInv
<1>1. ~ (p \in Holding) /\ \A j \in Instance : pc'[j] \in Holding => pc[j] \in Holding /\ pc'[j] = pc[j]
  BY DEF TypeInv, Holding
<1>2. OwnInv'
  BY <1>1 DEF OwnInv, TypeInv, sessionVars, Holding
<1>3. SessionInv' /\ Mutex'
  BY DEF SessionInv, Mutex, Shape, sessionVars
<1>4. RunInv'
  <2> SUFFICES ASSUME NEW j \in Instance, pc'[j] \in Holding, conn[client[j]] = "used"
               PROVE  RunShape(pc'[j], queue[client[j]], reply[client[j]], holds[client[j]])
    BY DEF RunInv, RunShape, sessionVars
  <2>1. QED  BY <1>1 DEF RunInv
<1>5. QED  BY <1>2, <1>3, <1>4

LEMMA StartInvariant == ASSUME IInv, NEW i \in Instance, Start(i) PROVE IInv'
<1> USE DEF Start, BeginRun, Aborted, IInv
<1>1. pc[i] = "idle"
  BY DEF ServiceInv, TypeInv
<1>2. pc' = [pc EXCEPT ![i] = "begun"]
  BY <1>1
<1>3. TypeInv'
  BY <1>2 DEF TypeInv, sessionVars
<1>4. ServiceInv'
  BY <1>2 DEF TypeInv, ServiceInv
<1>5. QED  BY <1>1, <1>2, <1>3, <1>4, SchedulerStep DEF Holding

LEMMA TimerFiresInvariant == ASSUME IInv, NEW i \in Instance, TimerFires(i) PROVE IInv'
<1> USE DEF TimerFires, BeginRun, Aborted, IInv
<1>1. pc[i] = "idle" /\ stop[i] = "no"
  BY DEF ServiceInv
<1>2. pc' = [pc EXCEPT ![i] = "begun"]
  BY <1>1
<1>3. TypeInv'
  BY <1>2 DEF TypeInv, sessionVars
<1>4. ServiceInv'
  BY <1>1, <1>2 DEF TypeInv, ServiceInv
<1>5. QED  BY <1>1, <1>2, <1>3, <1>4, SchedulerStep DEF Holding

LEMMA StopInvariant == ASSUME IInv, NEW i \in Instance, Stop(i) PROVE IInv'
<1> USE DEF Stop, IInv
<1>1. TypeInv'
  BY DEF TypeInv, sessionVars, runVars
<1>2. ServiceInv'
  BY DEF TypeInv, ServiceInv, runVars
<1>3. UNCHANGED <<pc, client, conn, owner, queue, reply, holds>>
  BY DEF runVars, sessionVars
<1>4. OwnInv'
  BY <1>3 DEF OwnInv
<1>5. SessionInv' /\ Mutex'
  BY <1>3 DEF SessionInv, Mutex, Shape
<1>6. RunInv'
  BY <1>3 DEF RunInv, RunShape
<1>7. QED  BY <1>1, <1>2, <1>4, <1>5, <1>6

\* The end of a run, for the scheduler.
LEMMA FinishRunService ==
    ASSUME IInv, NEW i \in Instance, pc[i] # "idle", FinishRun(i)
    PROVE  /\ ServiceInv'
           /\ alive' \in [Instance -> BOOLEAN]
           /\ started' \in [Instance -> BOOLEAN]
           /\ stop' \in [Instance -> {"no", "waiting", "done"}]
           /\ timerScheduled' \in [Instance -> BOOLEAN]
           /\ pc' \in [Instance -> {"idle", "begun", "connecting"} \cup Holding]
           /\ pc' = [pc EXCEPT ![i] = "idle"]
<1> USE DEF IInv, FinishRun, Aborted, TypeInv
<1>1. alive[i] /\ started[i] /\ stop[i] # "done"
  BY DEF ServiceInv
<1>2. ServiceInv'
  BY <1>1 DEF ServiceInv
<1>3. QED  BY <1>2

LEMMA EnterRunInvariant == ASSUME IInv, NEW i \in Instance, EnterRun(i) PROVE IInv'
<1> USE DEF EnterRun, IInv
<1>1. pc[i] = "begun" /\ pc[i] \notin Holding
  BY DEF Holding
<1>2. CASE Aborted(i)
  <2>1. FinishRun(i)
    BY <1>2
  <2>2. TypeInv'
    BY <1>1, <2>1, FinishRunService DEF TypeInv, sessionVars
  <2>3. QED  BY <1>1, <2>1, <2>2, FinishRunService, SchedulerStep
<1>3. CASE ~ Aborted(i)
  <2>1. pc' = [pc EXCEPT ![i] = "connecting"] /\ UNCHANGED serviceVars
    BY <1>3
  <2>2. TypeInv'
    BY <2>1 DEF TypeInv, sessionVars, serviceVars
  <2>3. ServiceInv'
    BY <1>1, <2>1 DEF TypeInv, ServiceInv, serviceVars
  <2>4. QED  BY <1>1, <2>1, <2>2, <2>3, SchedulerStep
<1>4. QED  BY <1>2, <1>3

LEMMA ConnectFailsInvariant == ASSUME IInv, NEW i \in Instance, ConnectFails(i) PROVE IInv'
<1> USE DEF ConnectFails, IInv
<1>1. pc[i] = "connecting" /\ pc[i] \notin Holding
  BY DEF Holding
<1>2. TypeInv'
  BY <1>1, FinishRunService DEF TypeInv, sessionVars
<1>3. QED  BY <1>1, <1>2, FinishRunService, SchedulerStep

-----------------------------------------------------------------------------
\* Two runs never share a session.
LEMMA OwnSession ==
    ASSUME IInv, NEW i \in Instance, NEW j \in Instance,
           pc[i] \in Holding, pc[j] \in Holding, i # j
    PROVE  client[i] \in Session /\ client[i] # client[j]
BY DEF IInv, OwnInv

\* A run sends a statement in its session and goes on waiting there.
LEMMA Sent ==
    ASSUME IInv, NEW i \in Instance, NEW x \in Statement, NEW p \in Holding,
           pc[i] \in Holding,
           Send(client[i], x), pc' = [pc EXCEPT ![i] = p], call' \in [Instance -> Calls],
           conn[client[i]] = "used" =>
               /\ Shape(Append(queue[client[i]], x), holds[client[i]])
               /\ RunShape(p, Append(queue[client[i]], x), "none", holds[client[i]]),
           UNCHANGED <<serviceVars, client, conn, owner, holds>>
    PROVE  IInv'
<1> USE DEF IInv
<1> DEFINE s == client[i]
<1>1. s \in Session /\ owner[s] = i /\ conn[s] \in {"used", "broken"}
  BY DEF OwnInv
<1> DEFINE q == IF conn[s] = "broken" THEN <<>> ELSE Append(queue[s], x)
<1>2. /\ q \in Seq(Statement)
      /\ queue' = [queue EXCEPT ![s] = q]
      /\ reply' = [reply EXCEPT ![s] = "none"]
  BY <1>1 DEF TypeInv, Send
<1>3. Shape(q, holds[s]) /\ (conn[s] = "broken" => q = <<>> /\ holds[s] = 0)
  BY <1>1 DEF SessionInv, Shape
<1>4. conn[s] = "used" => RunShape(p, q, "none", holds[s])
  OBVIOUS
<1> HIDE DEF q
<1>5. TypeInv'
  BY <1>1, <1>2 DEF TypeInv, serviceVars
<1>6. ServiceInv'
  BY DEF TypeInv, ServiceInv, serviceVars, Holding
<1>7. OwnInv'
  BY DEF TypeInv, OwnInv
<1>8. SessionInv'
  <2> SUFFICES ASSUME NEW t \in Session
               PROVE  /\ Shape(queue'[t], holds[t])
                      /\ reply'[t] # "none" => queue'[t] = <<>>
                      /\ conn[t] \in {"none", "idle", "broken"} => queue'[t] = <<>> /\ holds[t] = 0
                      /\ conn[t] = "broken" => reply'[t] = "none"
    BY DEF SessionInv, Shape
  <2>1. CASE t = s
    BY <1>1, <1>2, <1>3, <2>1 DEF TypeInv
  <2>2. CASE t # s
    BY <1>2, <2>2 DEF TypeInv, SessionInv
  <2>3. QED  BY <2>1, <2>2
<1>9. RunInv'
  <2> SUFFICES ASSUME NEW j \in Instance, pc'[j] \in Holding, conn[client[j]] = "used"
               PROVE  RunShape(pc'[j], queue'[client[j]], reply'[client[j]], holds[client[j]])
    BY DEF RunInv, RunShape
  <2>1. CASE j = i
    BY <1>1, <1>2, <1>4, <2>1 DEF TypeInv
  <2>2. CASE j # i
    <3>1. pc'[j] = pc[j] /\ client[j] # s /\ client[j] \in Session
      BY <2>2, OwnSession DEF TypeInv, OwnInv
    <3>2. QED  BY <1>2, <3>1 DEF TypeInv, RunInv
  <2>3. QED  BY <2>1, <2>2
<1>10. Mutex'
  BY DEF Mutex
<1>11. QED  BY <1>5, <1>6, <1>7, <1>8, <1>9, <1>10

\* A run unlocks at its end, also with a statement still running.
LEMMA UnlockSent ==
    ASSUME IInv, NEW i \in Instance, pc[i] \in Holding,
           conn[client[i]] = "used" =>
               /\ holds[client[i]] = 1
               /\ queue[client[i]] = <<>> \/ \E m \in Maintenance : queue[client[i]] = <<m>>,
           Unlock(i),
           UNCHANGED <<serviceVars, client, conn, owner, holds>>
    PROVE  IInv'
<1> DEFINE s == client[i]
<1>1. conn[s] = "used" => /\ Shape(Append(queue[s], "unlock"), holds[s])
                          /\ RunShape("unlocking", Append(queue[s], "unlock"), "none", holds[s])
  <2> SUFFICES ASSUME conn[s] = "used"
               PROVE  /\ Shape(Append(queue[s], "unlock"), holds[s])
                      /\ RunShape("unlocking", Append(queue[s], "unlock"), "none", holds[s])
    OBVIOUS
  <2>1. CASE queue[s] = <<>>
    BY <2>1 DEF Shape, RunShape
  <2>2. CASE \E m \in Maintenance : queue[s] = <<m>>
    <3>1. PICK m \in Maintenance : queue[s] = <<m>>
      BY <2>2
    <3>2. m \in Statement /\ "unlock" \in Statement
      BY DEF Statement
    <3>3. Append(queue[s], "unlock") = <<m, "unlock">>
      BY <3>1, <3>2, AppendToOne
    <3>4. QED  BY <3>3 DEF Shape, RunShape
  <2>3. QED  BY <2>1, <2>2
<1>2. call' \in [Instance -> Calls] /\ Send(s, "unlock") /\ pc' = [pc EXCEPT ![i] = "unlocking"]
  BY DEF Unlock, IInv, TypeInv
<1>3. QED  BY <1>1, <1>2, Sent DEF Statement, Holding

\* A run that was answered sends its next maintenance statement, or the
\* unlock when it has been aborted.
LEMMA Performed ==
    ASSUME IInv, NEW i \in Instance, NEW c \in Calls, pc[i] \in Holding,
           conn[client[i]] = "used" => holds[client[i]] = 1 /\ queue[client[i]] = <<>>,
           Perform(i, c)
    PROVE  IInv'
<1>1. CASE Aborted(i)
  BY <1>1, UnlockSent DEF Perform
<1>2. CASE ~ Aborted(i)
  <2> DEFINE s == client[i]
  <2>1. /\ Send(s, c.kind)
        /\ call' = [call EXCEPT ![i] = c]
        /\ pc' = [pc EXCEPT ![i] = "working"]
        /\ UNCHANGED <<serviceVars, client, conn, owner, holds>>
    BY <1>2 DEF Perform
  <2>2. c.kind \in Maintenance
    BY DEF Calls
  <2>3. conn[s] = "used" => /\ Shape(Append(queue[s], c.kind), holds[s])
                            /\ RunShape("working", Append(queue[s], c.kind), "none", holds[s])
    <3> SUFFICES ASSUME conn[s] = "used"
                 PROVE  /\ Shape(Append(queue[s], c.kind), holds[s])
                        /\ RunShape("working", Append(queue[s], c.kind), "none", holds[s])
      OBVIOUS
    <3>1. queue[s] = <<>> /\ holds[s] = 1
      OBVIOUS
    <3>2. Append(<<>>, c.kind) = <<c.kind>>
      BY <2>2
    <3>3. QED  BY <2>2, <3>1, <3>2 DEF Shape, RunShape
  <2>4. call' \in [Instance -> Calls]
    BY <2>1 DEF IInv, TypeInv
  <2>5. QED  BY <2>1, <2>2, <2>3, <2>4, Sent DEF Statement, Holding
<1>3. QED  BY <1>1, <1>2

-----------------------------------------------------------------------------
\* Closing a connection keeps the statement that runs, or none.
LEMMA ShapeOfFirst ==
    ASSUME NEW q \in Seq(Statement), NEW h, Shape(q, h), q # <<>>, NEW k \in 0 .. 1
    PROVE  SubSeq(q, 1, k) \in Seq(Statement) /\ Shape(SubSeq(q, 1, k), h)
<1>1. CASE k = 0
  <2>1. SubSeq(q, 1, 0) = <<>>
    OBVIOUS
  <2>2. h \in {0, 1}
    BY DEF Shape
  <2>3. QED  BY <1>1, <2>1, <2>2 DEF Shape
<1>2. CASE k = 1
  <2>1. \/ \E x \in Statement : q = <<x>>
        \/ \E m \in Maintenance : q = <<m, "unlock">> /\ h = 1
    BY DEF Shape, Statement
  <2>2. CASE \E x \in Statement : q = <<x>>
    <3>1. SubSeq(q, 1, 1) = q
      BY <2>2, FirstOfOne
    <3>2. QED  BY <1>2, <3>1
  <2>3. CASE \E m \in Maintenance : q = <<m, "unlock">> /\ h = 1
    <3>1. PICK m \in Maintenance : q = <<m, "unlock">> /\ h = 1
      BY <2>3
    <3>2. m \in Statement /\ "unlock" \in Statement
      BY DEF Statement
    <3>3. SubSeq(q, 1, 1) = <<m>>
      BY <3>1, <3>2, FirstOfTwo
    <3>4. QED  BY <1>2, <3>1, <3>2, <3>3 DEF Shape
  <2>4. QED  BY <2>1, <2>2, <2>3
<1>3. QED  BY <1>1, <1>2

\* A run that ends gives its client back, or closes it.
LEMMA Released ==
    ASSUME IInv, NEW i \in Instance, NEW destroy \in BOOLEAN, pc[i] \in Holding,
           conn[client[i]] = "used" /\ ~ destroy =>
               queue[client[i]] = <<>> /\ holds[client[i]] = 0,
           Release(i, destroy), FinishRun(i), UNCHANGED call
    PROVE  IInv'
<1> USE DEF IInv
<1> DEFINE s == client[i]
<1>1. s \in Session /\ owner[s] = i /\ conn[s] \in {"used", "broken"} /\ pc[i] # "idle"
  BY DEF OwnInv, Holding
<1>2. PICK q \in Seq(Statement) :
        queue' = [queue EXCEPT ![s] = q] /\ Shape(q, holds[s])
        /\ (q = queue[s] \/ (destroy /\ queue[s] # <<>>))
  <2>1. queue[s] \in Seq(Statement) /\ Shape(queue[s], holds[s])
    BY <1>1 DEF TypeInv, SessionInv
  <2>2. CASE queue' = queue
    <3>1. queue' = [queue EXCEPT ![s] = queue[s]]
      BY <1>1, <2>2 DEF TypeInv
    <3>2. QED  BY <2>1, <3>1
  <2>3. CASE /\ destroy /\ queue[s] # <<>>
             /\ \E k \in 0 .. 1 : queue' = [queue EXCEPT ![s] = SubSeq(queue[s], 1, k)]
    <3>1. PICK k \in 0 .. 1 : queue' = [queue EXCEPT ![s] = SubSeq(queue[s], 1, k)]
      BY <2>3
    <3>2. SubSeq(queue[s], 1, k) \in Seq(Statement) /\ Shape(SubSeq(queue[s], 1, k), holds[s])
      BY <2>1, <2>3, ShapeOfFirst
    <3>3. QED  BY <2>3, <3>1, <3>2
  <2>4. queue' = queue \/ (/\ destroy /\ queue[s] # <<>>
                           /\ \E k \in 0 .. 1 : queue' = [queue EXCEPT ![s] = SubSeq(@, 1, k)])
    BY DEF Release
  <2>5. QED  BY <2>2, <2>3, <2>4
<1> DEFINE c == IF conn[s] = "broken" THEN "none" ELSE IF destroy THEN "closing" ELSE "idle"
           o == IF conn[s] = "broken" THEN Nobody ELSE owner[s]
<1>3. /\ client' = [client EXCEPT ![i] = Nobody]
      /\ reply' = [reply EXCEPT ![s] = "none"]
      /\ conn' = [conn EXCEPT ![s] = c]
      /\ owner' = [owner EXCEPT ![s] = o]
      /\ holds' = holds
  BY <1>1 DEF Release, TypeInv
<1>4. /\ c \in {"none", "idle", "closing"}
      /\ c = "none" => q = <<>> /\ holds[s] = 0
      /\ c = "idle" => q = <<>> /\ holds[s] = 0
  BY <1>1, <1>2 DEF SessionInv
<1>5. o \in Instance \cup {Nobody}
  BY <1>1
<1> HIDE DEF c, o
<1>6. ServiceInv' /\ pc' = [pc EXCEPT ![i] = "idle"]
  BY <1>1, FinishRunService
<1>7. TypeInv'
  <2>1. client' \in [Instance -> Session \cup {Nobody}] /\ owner' \in [Session -> Instance \cup {Nobody}]
    BY <1>1, <1>3, <1>5 DEF TypeInv
  <2>2. conn' \in [Session -> {"none", "idle", "used", "broken", "closing"}]
    BY <1>1, <1>3, <1>4 DEF TypeInv
  <2>3. queue' \in [Session -> Seq(Statement)]
    BY <1>1, <1>2 DEF TypeInv
  <2>4. reply' \in [Session -> {"none", "true", "false", "error"}] /\ holds' \in [Session -> Nat]
    BY <1>1, <1>3 DEF TypeInv
  <2>5. call' \in [Instance -> Calls]
    BY DEF TypeInv
  <2>6. QED  BY <1>1, <2>1, <2>2, <2>3, <2>4, <2>5, FinishRunService DEF TypeInv
<1>8. \A j \in Instance : pc'[j] \in Holding =>
        j # i /\ pc'[j] = pc[j] /\ client'[j] = client[j] /\ client[j] # s /\ client[j] \in Session
  BY <1>3, <1>6, OwnSession DEF TypeInv, OwnInv, Holding
<1>9. OwnInv'
  <2>1. ASSUME NEW j \in Instance, pc'[j] \notin Holding
        PROVE  client'[j] = Nobody
    BY <1>3, <1>6, <2>1 DEF TypeInv, OwnInv
  <2>2. ASSUME NEW j \in Instance, pc'[j] \in Holding
        PROVE  /\ client'[j] \in Session
               /\ owner'[client'[j]] = j
               /\ conn'[client'[j]] \in {"used", "broken"}
    BY <1>3, <1>8, <2>2 DEF TypeInv, OwnInv
  <2>3. ASSUME NEW t \in Session, conn'[t] \in {"used", "broken"}
        PROVE  owner'[t] \in Instance /\ client'[owner'[t]] = t
    <3>1. t # s /\ conn'[t] = conn[t] /\ owner'[t] = owner[t]
      BY <1>1, <1>3, <1>4, <2>3 DEF TypeInv
    <3>2. QED  BY <1>3, <2>3, <3>1 DEF TypeInv, OwnInv
  <2>4. QED  BY <2>1, <2>2, <2>3 DEF OwnInv
<1>10. SessionInv'
  <2> SUFFICES ASSUME NEW t \in Session
               PROVE  /\ Shape(queue'[t], holds[t])
                      /\ reply'[t] # "none" => queue'[t] = <<>>
                      /\ conn'[t] \in {"none", "idle", "broken"} => queue'[t] = <<>> /\ holds[t] = 0
                      /\ conn'[t] = "broken" => reply'[t] = "none"
    BY <1>3 DEF SessionInv, Shape
  <2>1. CASE t = s
    BY <1>1, <1>2, <1>3, <1>4, <2>1 DEF TypeInv
  <2>2. CASE t # s
    BY <1>2, <1>3, <2>2 DEF TypeInv, SessionInv
  <2>3. QED  BY <2>1, <2>2
<1>11. RunInv'
  <2> SUFFICES ASSUME NEW j \in Instance, pc'[j] \in Holding, conn'[client'[j]] = "used"
               PROVE  RunShape(pc'[j], queue'[client'[j]], reply'[client'[j]], holds[client'[j]])
    BY <1>3 DEF RunInv, RunShape
  <2>1. QED  BY <1>2, <1>3, <1>8 DEF TypeInv, RunInv
<1>12. Mutex'
  BY <1>3 DEF Mutex
<1>13. QED  BY <1>6, <1>7, <1>9, <1>10, <1>11, <1>12

-----------------------------------------------------------------------------
\* The answers a run waits for.
LEMMA LockAnsweredInvariant == ASSUME IInv, NEW i \in Instance, LockAnswered(i) PROVE IInv'
<1> DEFINE s == client[i]
<1>1. pc[i] = "locking" /\ pc[i] \in Holding /\ s \in Session /\ conn[s] \in {"used", "broken"}
  BY DEF LockAnswered, IInv, OwnInv, Holding
<1>2. conn[s] = "used" => RunShape("locking", queue[s], reply[s], holds[s])
  BY <1>1 DEF IInv, RunInv
<1>3. conn[s] = "broken" => reply[s] = "none"
  BY <1>1 DEF IInv, SessionInv
<1>4. CASE Sees(i, "true") /\ Perform(i, FirstCall)
  <2>1. conn[s] = "used" => holds[s] = 1 /\ queue[s] = <<>>
    BY <1>2, <1>4 DEF Sees, RunShape
  <2>2. QED  BY <1>1, <1>4, <2>1, FirstCallType, Performed
<1>5. CASE Sees(i, "false") /\ Release(i, FALSE) /\ FinishRun(i) /\ UNCHANGED call
  <2>1. conn[s] = "used" => queue[s] = <<>> /\ holds[s] = 0
    BY <1>2, <1>5 DEF Sees, RunShape
  <2>2. QED  BY <1>1, <1>5, <2>1, Released
<1>6. CASE Sees(i, "error") /\ Release(i, TRUE) /\ FinishRun(i) /\ UNCHANGED call
  BY <1>1, <1>6, Released
<1>7. QED  BY <1>4, <1>5, <1>6 DEF LockAnswered

LEMMA CallAnsweredInvariant == ASSUME IInv, NEW i \in Instance, CallAnswered(i) PROVE IInv'
<1> DEFINE s == client[i]
<1>1. pc[i] = "working" /\ pc[i] \in Holding /\ s \in Session /\ conn[s] \in {"used", "broken"}
  BY DEF CallAnswered, IInv, OwnInv, Holding
<1>2. conn[s] = "used" => holds[s] = 1 /\ (queue[s] = <<>> \/ \E m \in Maintenance : queue[s] = <<m>>)
  BY <1>1 DEF IInv, RunInv, RunShape
<1>3. CASE \E answer \in {"true", "false"} :
             /\ Sees(i, answer)
             /\ ~ IsLast(call[i], answer)
             /\ Perform(i, Following(call[i], answer))
  <2>1. PICK answer \in {"true", "false"} :
             /\ Sees(i, answer)
             /\ ~ IsLast(call[i], answer)
             /\ Perform(i, Following(call[i], answer))
    BY <1>3
  <2>2. Following(call[i], answer) \in Calls
    BY <2>1, FollowingType DEF IInv, TypeInv
  <2>3. queue[s] = <<>>
    BY <1>1, <2>1 DEF Sees, IInv, SessionInv
  <2>4. QED  BY <1>1, <1>2, <2>1, <2>2, <2>3, Performed
<1>4. CASE Unlock(i) /\ UNCHANGED <<serviceVars, client, conn, owner, holds>>
  BY <1>1, <1>2, <1>4, UnlockSent
<1>5. QED  BY <1>3, <1>4 DEF CallAnswered

LEMMA UnlockAnsweredInvariant == ASSUME IInv, NEW i \in Instance, UnlockAnswered(i) PROVE IInv'
<1> DEFINE s == client[i]
<1>1. pc[i] = "unlocking" /\ pc[i] \in Holding /\ s \in Session
  BY DEF UnlockAnswered, IInv, OwnInv, Holding
<1>2. FinishRun(i) /\ UNCHANGED call
  BY DEF UnlockAnswered
<1>3. CASE Sees(i, "true") /\ Release(i, FALSE)
  <2>1. conn[s] = "used" => queue[s] = <<>> /\ holds[s] = 0
    BY <1>1, <1>3 DEF Sees, IInv, RunInv, RunShape
  <2>2. QED  BY <1>1, <1>2, <1>3, <2>1, Released
<1>4. CASE Release(i, TRUE)
  BY <1>1, <1>2, <1>4, Released
<1>5. QED  BY <1>3, <1>4 DEF UnlockAnswered

-----------------------------------------------------------------------------
\* A run borrows a session that is idle or new, and asks for the lock.
LEMMA ConnectedInvariant == ASSUME IInv, NEW i \in Instance, Connected(i) PROVE IInv'
<1> USE DEF IInv
<1>1. PICK s \in Session :
        /\ conn[s] = "none" \/ (conn[s] = "idle" /\ owner[s] = i)
        /\ conn' = [conn EXCEPT ![s] = "used"]
        /\ owner' = [owner EXCEPT ![s] = i]
        /\ client' = [client EXCEPT ![i] = s]
        /\ Send(s, "lock")
  BY DEF Connected
<1>2. /\ pc[i] = "connecting" /\ pc' = [pc EXCEPT ![i] = "locking"]
      /\ UNCHANGED <<alive, started, stop, timerScheduled, call, holds>>
  BY DEF Connected, serviceVars
<1>3. queue[s] = <<>> /\ holds[s] = 0 /\ conn[s] \notin {"used", "broken"}
  BY <1>1 DEF SessionInv
<1>4. queue' = [queue EXCEPT ![s] = <<"lock">>] /\ reply' = [reply EXCEPT ![s] = "none"]
  <2>1. "lock" \in Statement /\ Append(<<>>, "lock") = <<"lock">>
    BY DEF Statement
  <2>2. QED  BY <1>1, <1>3, <2>1 DEF Send, TypeInv
<1>5. <<"lock">> \in Seq(Statement)
  BY DEF Statement
<1>6. TypeInv'
  BY <1>1, <1>2, <1>4, <1>5 DEF TypeInv, Holding
<1>7. ServiceInv'
  BY <1>2 DEF TypeInv, ServiceInv
<1>8. \A j \in Instance : j # i =>
        /\ pc'[j] = pc[j] /\ client'[j] = client[j]
        /\ pc[j] \in Holding => client[j] # s /\ client[j] \in Session
  BY <1>1, <1>2, <1>3 DEF TypeInv, OwnInv
<1>9. OwnInv'
  <2>1. ASSUME NEW j \in Instance
        PROVE  /\ pc'[j] \notin Holding => client'[j] = Nobody
               /\ pc'[j] \in Holding =>
                    /\ client'[j] \in Session
                    /\ owner'[client'[j]] = j
                    /\ conn'[client'[j]] \in {"used", "broken"}
    <3>1. CASE j = i
      BY <1>1, <1>2, <3>1 DEF TypeInv, Holding
    <3>2. CASE j # i
      BY <1>1, <1>8, <3>2 DEF TypeInv, OwnInv
    <3>3. QED  BY <3>1, <3>2
  <2>2. ASSUME NEW t \in Session, conn'[t] \in {"used", "broken"}
        PROVE  owner'[t] \in Instance /\ client'[owner'[t]] = t
    <3>1. CASE t = s
      BY <1>1, <3>1 DEF TypeInv
    <3>2. CASE t # s
      <4>1. owner'[t] = owner[t] /\ owner[t] \in Instance /\ client[owner[t]] = t
        BY <1>1, <2>2, <3>2 DEF TypeInv, OwnInv
      <4>2. client[i] = Nobody
        BY <1>2 DEF OwnInv, Holding
      <4>3. QED  BY <1>1, <4>1, <4>2, NobodyAssumption DEF TypeInv
    <3>3. QED  BY <3>1, <3>2
  <2>3. QED  BY <2>1, <2>2 DEF OwnInv
<1>10. SessionInv'
  <2> SUFFICES ASSUME NEW t \in Session
               PROVE  /\ Shape(queue'[t], holds[t])
                      /\ reply'[t] # "none" => queue'[t] = <<>>
                      /\ conn'[t] \in {"none", "idle", "broken"} => queue'[t] = <<>> /\ holds[t] = 0
                      /\ conn'[t] = "broken" => reply'[t] = "none"
    BY <1>2 DEF SessionInv, Shape
  <2>1. CASE t = s
    <3>1. Shape(<<"lock">>, 0)
      BY DEF Shape
    <3>2. QED  BY <1>1, <1>3, <1>4, <2>1, <3>1 DEF TypeInv
  <2>2. CASE t # s
    BY <1>1, <1>4, <2>2 DEF TypeInv, SessionInv
  <2>3. QED  BY <2>1, <2>2
<1>11. RunInv'
  <2> SUFFICES ASSUME NEW j \in Instance, pc'[j] \in Holding, conn'[client'[j]] = "used"
               PROVE  RunShape(pc'[j], queue'[client'[j]], reply'[client'[j]], holds[client'[j]])
    BY <1>2 DEF RunInv, RunShape
  <2>1. CASE j = i
    <3>1. RunShape("locking", <<"lock">>, "none", 0)
      BY DEF RunShape
    <3>2. QED  BY <1>1, <1>2, <1>3, <1>4, <2>1, <3>1 DEF TypeInv
  <2>2. CASE j # i
    BY <1>1, <1>4, <1>8, <2>2 DEF TypeInv, RunInv
  <2>3. QED  BY <2>1, <2>2
<1>12. Mutex'
  BY <1>2 DEF Mutex
<1>13. QED  BY <1>6, <1>7, <1>9, <1>10, <1>11, <1>12

\* The death of a process leaves its sessions to the database.
LEMMA CrashInvariant == ASSUME IInv, NEW i \in Instance, Crash(i) PROVE IInv'
<1> USE DEF IInv
<1>1. /\ alive' = [alive EXCEPT ![i] = FALSE]
      /\ timerScheduled' = [timerScheduled EXCEPT ![i] = FALSE]
      /\ pc' = [pc EXCEPT ![i] = "idle"]
      /\ client' = [client EXCEPT ![i] = Nobody]
      /\ UNCHANGED <<started, stop, call, queue, reply, holds>>
  BY DEF Crash
<1>2. \A t \in Session :
        /\ conn'[t] = IF owner[t] # i THEN conn[t] ELSE IF conn[t] = "broken" THEN "none" ELSE "closing"
        /\ owner'[t] = IF owner[t] = i /\ conn[t] = "broken" THEN Nobody ELSE owner[t]
  BY DEF Crash
<1>3. TypeInv'
  <2>1. conn' \in [Session -> {"none", "idle", "used", "broken", "closing"}]
    BY DEF Crash, TypeInv
  <2>2. owner' \in [Session -> Instance \cup {Nobody}]
    BY DEF Crash, TypeInv
  <2>3. QED  BY <1>1, <2>1, <2>2 DEF TypeInv
<1>4. ServiceInv'
  BY <1>1 DEF TypeInv, ServiceInv
<1>5. \A j \in Instance : pc'[j] \in Holding =>
        j # i /\ pc'[j] = pc[j] /\ client'[j] = client[j] /\ client[j] \in Session
        /\ conn'[client[j]] = conn[client[j]] /\ owner'[client[j]] = owner[client[j]]
  BY <1>1, <1>2 DEF TypeInv, OwnInv, Holding
<1>6. OwnInv'
  <2>1. ASSUME NEW j \in Instance
        PROVE  /\ pc'[j] \notin Holding => client'[j] = Nobody
               /\ pc'[j] \in Holding =>
                    /\ client'[j] \in Session
                    /\ owner'[client'[j]] = j
                    /\ conn'[client'[j]] \in {"used", "broken"}
    BY <1>1, <1>5 DEF TypeInv, OwnInv
  <2>2. ASSUME NEW t \in Session, conn'[t] \in {"used", "broken"}
        PROVE  owner'[t] \in Instance /\ client'[owner'[t]] = t
    <3>1. owner[t] # i /\ conn'[t] = conn[t] /\ owner'[t] = owner[t]
      BY <1>2, <2>2
    <3>2. QED  BY <1>1, <2>2, <3>1 DEF TypeInv, OwnInv
  <2>3. QED  BY <2>1, <2>2 DEF OwnInv
<1>7. SessionInv'
  <2> SUFFICES ASSUME NEW t \in Session
               PROVE  /\ Shape(queue[t], holds[t])
                      /\ reply[t] # "none" => queue[t] = <<>>
                      /\ conn'[t] \in {"none", "idle", "broken"} => queue[t] = <<>> /\ holds[t] = 0
                      /\ conn'[t] = "broken" => reply[t] = "none"
    BY <1>1 DEF SessionInv, Shape
  <2>1. QED  BY <1>2 DEF SessionInv
<1>8. RunInv'
  <2> SUFFICES ASSUME NEW j \in Instance, pc'[j] \in Holding, conn'[client'[j]] = "used"
               PROVE  RunShape(pc'[j], queue[client'[j]], reply[client'[j]], holds[client'[j]])
    BY <1>1 DEF RunInv, RunShape
  <2>1. QED  BY <1>5 DEF RunInv
<1>9. Mutex'
  BY <1>1 DEF Mutex
<1>10. QED  BY <1>3, <1>4, <1>6, <1>7, <1>8, <1>9

-----------------------------------------------------------------------------
\* The runs' part of the invariant after a step that moves none of them.
LEMMA SameRuns ==
    ASSUME UNCHANGED <<pc, client>>,
           \A j \in Instance : pc[j] \in Holding /\ conn'[client[j]] = "used" =>
               RunShape(pc[j], queue'[client[j]], reply'[client[j]], holds'[client[j]])
    PROVE  RunInv'
BY DEF RunInv, RunShape

\* Steps of the database leave the runs alone: it is enough that the session
\* they are about keeps its shape.
LEMMA DatabaseStep ==
    ASSUME IInv, NEW s \in Session,
           NEW c \in {"none", "idle", "used", "broken", "closing"},
           NEW o \in Instance \cup {Nobody},
           NEW q \in Seq(Statement),
           NEW r \in {"none", "true", "false", "error"},
           NEW h \in Nat,
           UNCHANGED <<serviceVars, runVars>>,
           conn' = [conn EXCEPT ![s] = c],
           owner' = [owner EXCEPT ![s] = o],
           queue' = [queue EXCEPT ![s] = q],
           reply' = [reply EXCEPT ![s] = r],
           holds' = [holds EXCEPT ![s] = h],
           conn[s] \in {"used", "broken"} => c \in {"used", "broken"} /\ o = owner[s],
           c \in {"used", "broken"} => conn[s] \in {"used", "broken"},
           Shape(q, h),
           r # "none" => q = <<>>,
           c \in {"none", "idle", "broken"} => q = <<>> /\ h = 0,
           c = "broken" => r = "none",
           c = "used" /\ owner[s] \in Instance /\ pc[owner[s]] \in Holding
               => RunShape(pc[owner[s]], q, r, h),
           h = 0 \/ holds[s] > 0 \/ LockFree(s)
    PROVE  IInv'
<1> USE DEF IInv
<1>1. UNCHANGED <<alive, started, stop, timerScheduled, pc, call, client>>
  BY DEF serviceVars, runVars
<1>2. TypeInv'
  BY <1>1 DEF TypeInv
<1>3. ServiceInv'
  BY <1>1 DEF ServiceInv
<1>4. OwnInv'
  BY <1>1 DEF OwnInv, TypeInv
<1>5. SessionInv'
  <2> SUFFICES ASSUME NEW t \in Session
               PROVE  /\ Shape(queue'[t], holds'[t])
                      /\ reply'[t] # "none" => queue'[t] = <<>>
                      /\ conn'[t] \in {"none", "idle", "broken"} => queue'[t] = <<>> /\ holds'[t] = 0
                      /\ conn'[t] = "broken" => reply'[t] = "none"
    BY DEF SessionInv, Shape
  <2>1. CASE t = s
    BY <2>1 DEF TypeInv
  <2>2. CASE t # s
    BY <2>2 DEF TypeInv, SessionInv
  <2>3. QED  BY <2>1, <2>2
<1>6. RunInv'
  <2> SUFFICES ASSUME NEW j \in Instance, pc[j] \in Holding, conn'[client[j]] = "used"
               PROVE  RunShape(pc[j], queue'[client[j]], reply'[client[j]], holds'[client[j]])
    BY <1>1, SameRuns
  <2>1. client[j] \in Session /\ owner[client[j]] = j
    BY DEF OwnInv
  <2>2. CASE client[j] = s
    BY <2>1, <2>2 DEF TypeInv
  <2>3. CASE client[j] # s
    BY <2>1, <2>3 DEF TypeInv, RunInv
  <2>4. QED  BY <2>2, <2>3
<1>7. Mutex'
  <2> SUFFICES ASSUME NEW t \in Session, NEW u \in Session, t # u
               PROVE  holds'[t] = 0 \/ holds'[u] = 0
    BY DEF Mutex
  <2>1. \A v \in Session \ {s} : h = 0 \/ holds[v] = 0
    BY DEF Mutex, LockFree, TypeInv
  <2>2. QED  BY <2>1 DEF Mutex, TypeInv
<1>8. QED  BY <1>2, <1>3, <1>4, <1>5, <1>6, <1>7

LEMMA ReapInvariant == ASSUME IInv, NEW s \in Session, Reap(s) PROVE IInv'
<1>1. queue' = [queue EXCEPT ![s] = <<>>]
  BY DEF Reap, IInv, TypeInv
<1>2. Shape(<<>>, 0) /\ <<>> \in Seq(Statement)
  BY DEF Shape
<1>3. QED  BY <1>1, <1>2, DatabaseStep DEF Reap

LEMMA TerminateInvariant == ASSUME IInv, NEW s \in Session, Terminate(s) PROVE IInv'
<1> DEFINE c == IF conn[s] = "used" THEN "broken" ELSE "none"
           o == IF conn[s] = "used" THEN owner[s] ELSE Nobody
<1>1. /\ conn' = [conn EXCEPT ![s] = c]
      /\ owner' = [owner EXCEPT ![s] = o]
      /\ queue' = [queue EXCEPT ![s] = <<>>]
      /\ reply' = [reply EXCEPT ![s] = "none"]
      /\ holds' = [holds EXCEPT ![s] = 0]
      /\ UNCHANGED <<serviceVars, runVars>>
  BY DEF Terminate, IInv, TypeInv
<1>2. /\ conn[s] # "broken"
      /\ c \in {"none", "idle", "used", "broken", "closing"}
      /\ o \in Instance \cup {Nobody}
      /\ conn[s] \in {"used", "broken"} => c \in {"used", "broken"} /\ o = owner[s]
      /\ c \in {"used", "broken"} => conn[s] \in {"used", "broken"}
      /\ c # "used"
  BY DEF Terminate, IInv, TypeInv
<1>3. Shape(<<>>, 0) /\ <<>> \in Seq(Statement)
  BY DEF Shape
<1> HIDE DEF c, o
<1>4. QED  BY <1>1, <1>2, <1>3, DatabaseStep

\* The oldest statement of a session ends.
LEMMA ExecuteInvariant == ASSUME IInv, NEW s \in Session, Execute(s) PROVE IInv'
<1> USE DEF IInv
<1> DEFINE q == queue[s]
           h == holds[s]
           p == pc[owner[s]]
<1>1. q \in Seq(Statement) /\ q # <<>> /\ conn[s] \in {"used", "closing"}
  BY DEF Execute, TypeInv, SessionInv
<1>2. PICK answer \in Answers(s) :
        reply' = IF conn[s] = "used" /\ Len(q) = 1 THEN [reply EXCEPT ![s] = answer] ELSE reply
  BY DEF Execute
<1>3. reply[s] = "none"
  BY <1>1 DEF TypeInv, SessionInv
<1> DEFINE r == IF conn[s] = "used" /\ Len(q) = 1 THEN answer ELSE "none"
<1>4. /\ queue' = [queue EXCEPT ![s] = Tail(q)]
      /\ holds' = [holds EXCEPT ![s] = HoldsAfter(s)]
      /\ reply' = [reply EXCEPT ![s] = r]
      /\ conn' = [conn EXCEPT ![s] = conn[s]]
      /\ owner' = [owner EXCEPT ![s] = owner[s]]
      /\ UNCHANGED <<serviceVars, runVars>>
  BY <1>2, <1>3 DEF Execute, TypeInv
<1>5. conn[s] = "used" => owner[s] \in Instance /\ p \in Holding /\ RunShape(p, q, "none", h)
  <2>1. conn[s] = "used" => owner[s] \in Instance /\ client[owner[s]] = s
    BY DEF OwnInv
  <2>2. conn[s] = "used" => p \in Holding
    BY <2>1, NobodyAssumption DEF OwnInv
  <2>3. QED  BY <1>3, <2>1, <2>2 DEF RunInv
<1>6. /\ HoldsAfter(s) \in Nat
      /\ answer \in {"true", "false", "error"}
      /\ Shape(Tail(q), HoldsAfter(s))
      /\ r # "none" => Tail(q) = <<>>
      /\ conn[s] = "used" => RunShape(p, Tail(q), r, HoldsAfter(s))
      /\ HoldsAfter(s) = 0 \/ h > 0 \/ LockFree(s)
  <2>1. CASE q = <<"lock">> /\ h = 0
    <3>1. Head(q) = "lock" /\ Tail(q) = <<>> /\ Len(q) = 1
      BY <2>1 DEF Statement
    <3>2. CASE LockFree(s)
      <4>1. HoldsAfter(s) = 1 /\ answer = "true"
        BY <1>2, <2>1, <3>1, <3>2 DEF HoldsAfter, Answers, Maintenance
      <4>2. conn[s] = "used" => r = "true" /\ p = "locking"
        BY <1>5, <2>1, <3>1, <4>1 DEF RunShape, Holding
      <4>3. Shape(<<>>, 1) /\ RunShape("locking", <<>>, "true", 1)
        BY DEF Shape, RunShape
      <4>4. conn[s] = "used" => RunShape(p, Tail(q), r, HoldsAfter(s))
        BY <3>1, <4>1, <4>2, <4>3
      <4>5. r # "none" => Tail(q) = <<>>
        BY <3>1
      <4>6. HoldsAfter(s) \in Nat
        BY <4>1
      <4>7. Shape(Tail(q), HoldsAfter(s))
        BY <3>1, <4>1, <4>3
      <4>8. QED  BY <3>2, <4>1, <4>4, <4>5, <4>6, <4>7
    <3>3. CASE ~ LockFree(s)
      <4>1. HoldsAfter(s) = 0 /\ answer = "false"
        BY <1>2, <2>1, <3>1, <3>3 DEF HoldsAfter, Answers, Maintenance
      <4>2. conn[s] = "used" => r = "false" /\ p = "locking"
        BY <1>5, <2>1, <3>1, <4>1 DEF RunShape, Holding
      <4>3. Shape(<<>>, 0) /\ RunShape("locking", <<>>, "false", 0)
        BY DEF Shape, RunShape
      <4>4. conn[s] = "used" => RunShape(p, Tail(q), r, HoldsAfter(s))
        BY <3>1, <4>1, <4>2, <4>3
      <4>5. r # "none" => Tail(q) = <<>>
        BY <3>1
      <4>6. HoldsAfter(s) \in Nat
        BY <4>1
      <4>7. Shape(Tail(q), HoldsAfter(s))
        BY <3>1, <4>1, <4>3
      <4>8. QED  BY <4>1, <4>4, <4>5, <4>6, <4>7
    <3>4. QED  BY <3>2, <3>3
  <2>2. CASE q = <<"unlock">> /\ h = 1
    <3>1. Head(q) = "unlock" /\ Tail(q) = <<>> /\ Len(q) = 1
      BY <2>2 DEF Statement
    <3>2. HoldsAfter(s) = 0 /\ answer = "true"
      BY <1>2, <2>2, <3>1 DEF HoldsAfter, Answers, Maintenance
    <3>3. conn[s] = "used" => r = "true" /\ p = "unlocking"
      BY <1>5, <2>2, <3>1, <3>2 DEF RunShape, Holding, Maintenance
    <3>4. Shape(<<>>, 0) /\ RunShape("unlocking", <<>>, "true", 0)
      BY DEF Shape, RunShape
    <3>5. conn[s] = "used" => RunShape(p, Tail(q), r, HoldsAfter(s))
      BY <3>1, <3>2, <3>3, <3>4
    <3>6. r # "none" => Tail(q) = <<>>
      BY <3>1
    <3>7. HoldsAfter(s) \in Nat
      BY <3>2
    <3>8. Shape(Tail(q), HoldsAfter(s))
      BY <3>1, <3>2, <3>4
    <3>9. QED  BY <3>2, <3>5, <3>6, <3>7, <3>8
  <2>3. CASE \E m \in Maintenance : q = <<m>> /\ h = 1
    <3>1. PICK m \in Maintenance : q = <<m>> /\ h = 1
      BY <2>3
    <3>2. Head(q) = m /\ Tail(q) = <<>> /\ Len(q) = 1
      BY <3>1
    <3>3. HoldsAfter(s) = 1 /\ answer \in {"true", "false", "error"}
      BY <1>2, <3>1, <3>2 DEF HoldsAfter, Answers, Maintenance
    <3>4. conn[s] = "used" => p = "working"
      BY <1>5, <3>1 DEF RunShape, Holding, Maintenance
    <3>5. QED  BY <3>1, <3>2, <3>3, <3>4 DEF Shape, RunShape
  <2>4. CASE \E m \in Maintenance : q = <<m, "unlock">> /\ h = 1
    <3>1. PICK m \in Maintenance : q = <<m, "unlock">> /\ h = 1
      BY <2>4
    <3>2. m \in Statement /\ "unlock" \in Statement
      BY DEF Statement
    <3>3. Head(q) = m /\ Tail(q) = <<"unlock">> /\ Len(q) = 2
      BY <3>1, <3>2
    <3>4. HoldsAfter(s) = 1 /\ answer \in {"true", "false", "error"} /\ r = "none"
      BY <1>2, <3>1, <3>3 DEF HoldsAfter, Answers, Maintenance
    <3>5. conn[s] = "used" => p = "unlocking"
      BY <1>5, <3>1 DEF RunShape, Holding, Maintenance
    <3>6. QED  BY <3>1, <3>2, <3>3, <3>4, <3>5 DEF Shape, RunShape
  <2>5. Shape(q, h)
    BY DEF SessionInv
  <2>6. QED  BY <1>1, <2>1, <2>2, <2>3, <2>4, <2>5 DEF Shape
<1>7. Tail(q) \in Seq(Statement)
  BY <1>1
<1>8. r \in {"none", "true", "false", "error"}
  BY <1>6
<1>9. conn[s] \in {"none", "idle", "used", "broken", "closing"} /\ owner[s] \in Instance \cup {Nobody}
  BY DEF TypeInv
<1>10. conn[s] \notin {"none", "idle", "broken"} /\ (r # "none" => Tail(q) = <<>>)
  BY <1>1, <1>6
<1> HIDE DEF r, IInv
<1>11. QED  BY <1>1, <1>4, <1>6, <1>7, <1>8, <1>9, <1>10, DatabaseStep

-----------------------------------------------------------------------------
LEMMA StepInvariant == IInv /\ [Next]_vars => IInv'
<1> SUFFICES ASSUME IInv, [Next]_vars PROVE IInv'
  OBVIOUS
<1>1. ASSUME NEW i \in Instance, Start(i) PROVE IInv'
  BY <1>1, StartInvariant
<1>2. ASSUME NEW i \in Instance, TimerFires(i) PROVE IInv'
  BY <1>2, TimerFiresInvariant
<1>3. ASSUME NEW i \in Instance, Stop(i) PROVE IInv'
  BY <1>3, StopInvariant
<1>4. ASSUME NEW i \in Instance, Crash(i) PROVE IInv'
  BY <1>4, CrashInvariant
<1>5. ASSUME NEW i \in Instance, RunStep(i) PROVE IInv'
  BY <1>5, EnterRunInvariant, ConnectedInvariant, ConnectFailsInvariant,
     LockAnsweredInvariant, CallAnsweredInvariant, UnlockAnsweredInvariant DEF RunStep
<1>6. ASSUME NEW s \in Session, Execute(s) \/ Reap(s) \/ Terminate(s) PROVE IInv'
  BY <1>6, ExecuteInvariant, ReapInvariant, TerminateInvariant
<1>7. CASE UNCHANGED vars
  <2>1. /\ UNCHANGED <<alive, started, stop, timerScheduled, pc, call, client>>
        /\ UNCHANGED <<conn, owner, queue, reply, holds>>
    BY <1>7 DEF vars, serviceVars, runVars, sessionVars
  <2>2. (TypeInv /\ ServiceInv /\ OwnInv)'
    BY <2>1 DEF IInv, TypeInv, ServiceInv, OwnInv
  <2>3. (SessionInv /\ Mutex)'
    BY <2>1 DEF IInv, SessionInv, Mutex, Shape
  <2>4. RunInv'
    BY <2>1 DEF IInv, RunInv, RunShape
  <2>5. QED  BY <2>2, <2>3, <2>4 DEF IInv
<1>8. QED  BY <1>1, <1>2, <1>3, <1>4, <1>5, <1>6, <1>7 DEF Next

\* The inductive invariant holds, for any instances, sessions and budgets.
THEOREM Invariance == Spec => []IInv
BY InitInvariant, StepInvariant, PTL DEF Spec

\* Types, and no run exceeds the budget of a kind of call (executeMaintenance).
THEOREM TypeCorrect == Spec => []TypeOK
BY Invariance, InvariantImplies, PTL

\* No client in the pool carries the advisory lock or an unfinished statement
\* (releaseClient after executeMaintenance).
THEOREM ParkingCorrect == Spec => []NoParkedLock
BY Invariance, InvariantImplies, PTL

\* Maintenance statements run under the lock, one session at a time, however
\* many runs timed out, died or were destroyed with a statement on its way.
THEOREM ExclusionCorrect == Spec => []MaintenanceExclusive
BY Invariance, InvariantImplies, PTL

\* A scheduler has a run or a timer until it is stopped, and nothing after
\* (RetentionService).
THEOREM SchedulerCorrect == Spec => []RunsUntilStopped
BY Invariance, InvariantImplies, PTL

-----------------------------------------------------------------------------
\* No step after stop() sends a maintenance statement.
SendsOnlyUnaborted ==
    \A s \in Session :
        Len(queue'[s]) > Len(queue[s]) /\ queue'[s][Len(queue'[s])] \in Maintenance
            => ~ Aborted(owner[s])

\* A statement is sent at the end of the queue of its session and nowhere else.
LEMMA SendGrows ==
    ASSUME TypeInv, NEW s \in Session, NEW x \in Statement, Send(s, x),
           NEW t \in Session, Len(queue'[t]) > Len(queue[t])
    PROVE  t = s /\ queue'[t][Len(queue'[t])] = x
<1>1. queue[t] \in Seq(Statement) /\ queue[s] \in Seq(Statement)
  BY DEF TypeInv
<1>2. t = s /\ conn[s] # "broken"
  BY <1>1 DEF Send, TypeInv
<1>3. queue'[t] = Append(queue[s], x)
  BY <1>2 DEF Send, TypeInv
<1>4. QED  BY <1>1, <1>2, <1>3

LEMMA UnlockSends ==
    ASSUME TypeInv, NEW i \in Instance, client[i] \in Session, Unlock(i)
    PROVE  SendsOnlyUnaborted
<1>1. "unlock" \in Statement /\ "unlock" \notin Maintenance
  BY DEF Statement, Maintenance
<1>2. QED  BY <1>1, SendGrows DEF Unlock, SendsOnlyUnaborted

LEMMA PerformSends ==
    ASSUME IInv, NEW i \in Instance, NEW c \in Calls, pc[i] \in Holding, Perform(i, c)
    PROVE  SendsOnlyUnaborted
<1>1. TypeInv /\ client[i] \in Session /\ owner[client[i]] = i
  BY DEF IInv, OwnInv
<1>2. CASE Aborted(i)
  BY <1>1, <1>2, UnlockSends DEF Perform
<1>3. CASE ~ Aborted(i)
  <2>1. Send(client[i], c.kind) /\ c.kind \in Statement
    BY <1>3 DEF Perform, Calls, Statement
  <2>2. QED  BY <1>1, <1>3, <2>1, SendGrows DEF SendsOnlyUnaborted
<1>4. QED  BY <1>2, <1>3

\* Whatever shortens the queues or leaves them sends nothing.
LEMMA ReleaseSends ==
    ASSUME TypeInv, NEW i \in Instance, client[i] \in Session,
           NEW destroy \in BOOLEAN, Release(i, destroy)
    PROVE  SendsOnlyUnaborted
<1> SUFFICES ASSUME NEW t \in Session PROVE ~ (Len(queue'[t]) > Len(queue[t]))
  BY DEF SendsOnlyUnaborted
<1>1. queue[t] \in Seq(Statement)
  BY DEF TypeInv
<1>2. CASE queue' = queue
  BY <1>1, <1>2
<1>3. CASE /\ queue[client[i]] # <<>>
           /\ \E k \in 0 .. 1 : queue' = [queue EXCEPT ![client[i]] = SubSeq(@, 1, k)]
  <2>1. PICK k \in 0 .. 1 : queue' = [queue EXCEPT ![client[i]] = SubSeq(queue[client[i]], 1, k)]
    BY <1>3
  <2>2. CASE t = client[i]
    <3>1. queue'[t] = SubSeq(queue[t], 1, k) /\ queue[t] # <<>>
      BY <1>3, <2>1, <2>2 DEF TypeInv
    <3>2. Len(queue[t]) >= 1 /\ Len(SubSeq(queue[t], 1, k)) = k
      BY <1>1, <3>1
    <3>3. QED  BY <1>1, <3>1, <3>2
  <2>3. CASE t # client[i]
    BY <1>1, <2>1, <2>3 DEF TypeInv
  <2>4. QED  BY <2>2, <2>3
<1>4. QED  BY <1>2, <1>3 DEF Release

LEMMA DatabaseSends ==
    ASSUME TypeInv, NEW s \in Session, Execute(s) \/ Reap(s) \/ Terminate(s)
    PROVE  SendsOnlyUnaborted
<1> SUFFICES ASSUME NEW t \in Session PROVE ~ (Len(queue'[t]) > Len(queue[t]))
  BY DEF SendsOnlyUnaborted
<1>1. queue[t] \in Seq(Statement) /\ queue[s] \in Seq(Statement)
  BY DEF TypeInv
<1>2. CASE Execute(s)
  <2>1. queue' = [queue EXCEPT ![s] = Tail(queue[s])] /\ queue[s] # <<>>
    BY <1>2 DEF Execute
  <2>2. CASE t = s
    <3>1. queue'[t] = Tail(queue[t]) /\ queue[t] # <<>>
      BY <2>1, <2>2 DEF TypeInv
    <3>2. Len(Tail(queue[t])) = Len(queue[t]) - 1
      BY <1>1, <3>1
    <3>3. QED  BY <1>1, <3>1, <3>2
  <2>3. CASE t # s
    BY <1>1, <2>1, <2>3 DEF TypeInv
  <2>4. QED  BY <2>2, <2>3
<1>3. CASE Reap(s)
  BY <1>1, <1>3 DEF Reap
<1>4. CASE Terminate(s)
  <2>1. queue' = [queue EXCEPT ![s] = <<>>]
    BY <1>4 DEF Terminate
  <2>2. queue'[t] = queue[t] \/ queue'[t] = <<>>
    BY <2>1 DEF TypeInv
  <2>3. QED  BY <1>1, <2>2
<1>5. QED  BY <1>2, <1>3, <1>4

LEMMA RunStepSends ==
    ASSUME IInv, NEW i \in Instance, RunStep(i)
    PROVE  SendsOnlyUnaborted
<1>1. TypeInv
  BY DEF IInv
<1>2. ASSUME pc[i] \in Holding
      PROVE  client[i] \in Session
  BY <1>2 DEF IInv, OwnInv
<1>3. CASE queue' = queue
  BY <1>1, <1>3 DEF SendsOnlyUnaborted, TypeInv
<1>4. CASE EnterRun(i) \/ ConnectFails(i)
  BY <1>3, <1>4 DEF EnterRun, ConnectFails, sessionVars
<1>5. CASE Connected(i)
  <2>1. PICK s \in Session : Send(s, "lock")
    BY <1>5 DEF Connected
  <2>2. "lock" \in Statement /\ "lock" \notin Maintenance
    BY DEF Statement, Maintenance
  <2>3. QED  BY <1>1, <2>1, <2>2, SendGrows DEF SendsOnlyUnaborted
<1>6. CASE LockAnswered(i)
  <2>1. pc[i] \in Holding
    BY <1>6 DEF LockAnswered, Holding
  <2>2. QED  BY <1>1, <1>2, <1>6, <2>1, FirstCallType, PerformSends, ReleaseSends DEF LockAnswered
<1>7. CASE CallAnswered(i)
  <2>1. pc[i] \in Holding
    BY <1>7 DEF CallAnswered, Holding
  <2>2. call[i] \in Calls
    BY <1>1 DEF TypeInv
  <2>3. QED  BY <1>1, <1>2, <1>7, <2>1, <2>2, FollowingType, PerformSends, UnlockSends DEF CallAnswered
<1>8. CASE UnlockAnswered(i)
  <2>1. pc[i] \in Holding
    BY <1>8 DEF UnlockAnswered, Holding
  <2>2. QED  BY <1>1, <1>2, <1>8, <2>1, ReleaseSends DEF UnlockAnswered
<1>9. QED  BY <1>4, <1>5, <1>6, <1>7, <1>8 DEF RunStep

\* After stop() a run sends nothing more but the unlock
\* (throwIfAborted before each statement of executeMaintenance).
THEOREM AbortCorrect == Spec => AbortedSendsNothing
<1>1. IInv /\ [Next]_vars => [SendsOnlyUnaborted]_vars
  <2> SUFFICES ASSUME IInv, Next PROVE SendsOnlyUnaborted
    OBVIOUS
  <2>1. TypeInv
    BY DEF IInv
  <2>2. ASSUME NEW i \in Instance, Start(i) \/ TimerFires(i) \/ Stop(i) \/ Crash(i)
        PROVE  SendsOnlyUnaborted
    <3>1. queue' = queue
      BY <2>2 DEF Start, TimerFires, Stop, Crash, sessionVars
    <3>2. QED  BY <2>1, <3>1 DEF SendsOnlyUnaborted, TypeInv
  <2>3. ASSUME NEW i \in Instance, RunStep(i) PROVE SendsOnlyUnaborted
    BY <2>3, RunStepSends
  <2>4. ASSUME NEW s \in Session, Execute(s) \/ Reap(s) \/ Terminate(s) PROVE SendsOnlyUnaborted
    BY <2>1, <2>4, DatabaseSends
  <2>5. QED  BY <2>2, <2>3, <2>4 DEF Next
<1>2. Spec => [][SendsOnlyUnaborted]_vars
  BY Invariance, <1>1, PTL DEF Spec
<1>3. QED  BY <1>2 DEF AbortedSendsNothing, SendsOnlyUnaborted
=============================================================================
