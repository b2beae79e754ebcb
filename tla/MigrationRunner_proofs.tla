------------------------ MODULE MigrationRunner_proofs ------------------------
(***************************************************************************)
(* Proofs about MigrationRunner, for any number of processes and backends  *)
(* and any builds.                                                         *)
(*                                                                         *)
(* A migration is checked against a history that was read several          *)
(* statements earlier, and may be committed by a backend whose client has  *)
(* gone.  The invariant says what a backend may still do by itself         *)
(* (Backend), what its client knows of it (Talk), and why what the client  *)
(* has planned is still right (Planned): only one backend has the lock.    *)
(***************************************************************************)
EXTENDS MigrationRunner, FiniteSetTheorems, SequenceTheorems, TLAPS

Idle == {"down", "connecting", "running"}
Work == {"begin", "sql", "record", "commit"}
Locking == Work \cup {"init", "read", "rollback", "unlock"}
Statements == Locking \cup {"lock", "prepare"}

Row == Migration \cup {NoMigration}

ClientType ==
    [at : Idle \cup Statements, session : Session \cup {NoSession},
     todo : Seq(Migration), failed : BOOLEAN]

TxnType == [status : {"none", "open", "aborted"}, ran : Row, recorded : Row]

SessionType ==
    [state : {"free", "live", "orphan"}, asked : Statements \cup {"none"}, about : Row,
     answer : {"none", "ok", "refused", "error"}, rows : SUBSET Migration, lock : BOOLEAN,
     txn : TxnType]

TypeInv ==
    /\ client \in [Process -> ClientType]
    /\ expired \in [Process -> BOOLEAN]
    /\ session \in [Session -> SessionType]
    /\ history \subseteq Migration
    /\ schema \in Seq(Migration)

\* m may be added to the history H: it comes after all that is there, and in no
\* build that goes on from there is anything left out before it.
Fits(m, H) ==
    /\ m \in Migration
    /\ \A h \in H : h.version < m.version
    /\ \A q \in Process : H \cup {m} \subseteq Local[q] =>
         \A n \in Local[q] : n.version < m.version => n \in H

OpenTxn(ran, recorded) == [status |-> "open", ran |-> ran, recorded |-> recorded]

\* What a backend may do with the statement that it was sent, heard or not.
Backend(v, H) ==
    /\ v.state = "free" => v = Free
    /\ v.state = "orphan" => v.answer = "none"
    /\ v.asked \in Locking => v.lock
    /\ v.asked \in {"lock", "prepare"} => ~ v.lock
    /\ ~ v.lock => v.txn = NoTxn
    /\ v.asked \in {"init", "read", "begin", "unlock"} => v.txn = NoTxn
    /\ v.asked = "sql" => v.txn = OpenTxn(NoMigration, NoMigration) /\ Fits(v.about, H)
    /\ v.asked = "record" => v.txn = OpenTxn(v.about, NoMigration) /\ Fits(v.about, H)
    /\ v.asked = "commit" => v.txn = OpenTxn(v.txn.ran, v.txn.ran) /\ Fits(v.txn.ran, H)

\* What a client knows of its backend once it has heard the answer a.
Told(c, v, a, H) ==
    /\ c.at = "lock" => (a = "ok" <=> v.lock)
    /\ c.at \in {"lock", "init", "read", "rollback", "unlock", "prepare"} => v.txn = NoTxn
    /\ c.at = "prepare" => ~ v.lock
    /\ c.at = "unlock" /\ a = "ok" => ~ v.lock
    /\ a = "ok" =>
         /\ c.at = "read" => v.rows = H
         /\ c.at = "begin" => v.txn = OpenTxn(NoMigration, NoMigration)
         /\ c.at = "sql" => v.txn = OpenTxn(c.todo[1], NoMigration)
         /\ c.at = "record" => v.txn = OpenTxn(c.todo[1], c.todo[1])
         /\ c.at = "commit" => v.txn = NoTxn

\* What it knows while it waits, and after.
Talk(c, v, H) ==
    /\ v.state = "live"
    /\ (v.asked = c.at /\ v.answer = "none") \/ (v.asked = "none" /\ v.answer # "none")
    /\ c.at \in Locking \ {"unlock"} => v.lock
    /\ v.asked \in {"sql", "record"} => v.about = c.todo[1]
    /\ v.asked = "commit" => v.txn.ran = c.todo[1]
    /\ v.answer # "none" => Told(c, v, v.answer, H)

Sorted(q) == \A i, j \in DOMAIN q : i < j => q[i].version < q[j].version

\* What client c of process p has still to apply when it has heard v.
Planned(p, c, v, H) ==
    /\ c.at \in Work =>
         /\ H \subseteq Local[p]
         /\ c.todo \in Seq(Local[p]) /\ c.todo # <<>> /\ Sorted(c.todo)
         /\ IF c.at = "commit" /\ v.answer = "ok"
            THEN /\ c.todo[1] \in H
                 /\ ToSet(c.todo) = (Local[p] \ H) \cup {c.todo[1]}
            ELSE ToSet(c.todo) = Local[p] \ H
    /\ c.at = "unlock" /\ ~ c.failed => Local[p] \subseteq H
    /\ c.at = "prepare" => Local[p] \subseteq H

Mutex == \A s, t \in Session : session[s].lock /\ session[t].lock => s = t

Owned ==
    /\ \A p \in Process : client[p].session = NoSession <=> client[p].at \in Idle
    /\ \A p, q \in Process :
         client[p].session = client[q].session => p = q \/ client[p].session = NoSession
    /\ \A s \in Session : session[s].state = "live" => \E p \in Process : client[p].session = s

TalkInv ==
    \A p \in Process : \A s \in Session :
        client[p].session = s =>
            /\ Talk(client[p], session[s], history)
            /\ Planned(p, client[p], session[s], history)

HistoryInv ==
    /\ ToSet(schema) = history
    /\ Sorted(schema)
    /\ \A q \in Process : history \subseteq Local[q] =>
         \A h \in history, n \in Local[q] : n.version < h.version => n \in history

BackendInv == \A s \in Session : Backend(session[s], history)

IInv ==
    /\ TypeInv /\ BackendInv /\ Mutex /\ Owned /\ TalkInv /\ HistoryInv /\ RunsOnItsSchema

-----------------------------------------------------------------------------
(* The initial states, and steps that leave the database alone. *)

LEMMA Names ==
    /\ NoSession \notin Session
    /\ NoMigration \notin Migration
BY NamesAssumption DEF Migration

LEMMA FreeFacts ==
    /\ Free \in SessionType
    /\ \A H : Backend(Free, H)
BY DEF Free, NoTxn, SessionType, TxnType, Row, Backend, Statements, Locking, Work

LEMMA InitInvariant == Init => IInv
<1> SUFFICES ASSUME Init PROVE IInv
  OBVIOUS
<1>1. Down \in ClientType
  BY DEF Down, ClientType, Idle
<1>2. /\ client = [p \in Process |-> Down] /\ expired = [p \in Process |-> FALSE]
      /\ session = [s \in Session |-> Free] /\ history = {} /\ schema = <<>>
  BY DEF Init
<1>3. TypeInv
  BY <1>1, <1>2, FreeFacts DEF TypeInv
<1>4. BackendInv
  BY <1>2, FreeFacts DEF BackendInv
<1>5. Mutex /\ Owned /\ TalkInv
  BY <1>2, Names DEF Mutex, Owned, TalkInv, Free, Down, Idle
<1>6. HistoryInv
  BY <1>2 DEF HistoryInv, ToSet, Sorted
<1>7. RunsOnItsSchema
  BY <1>2 DEF RunsOnItsSchema, Down
<1>8. QED  BY <1>3, <1>4, <1>5, <1>6, <1>7 DEF IInv

\* A backend takes a step of its own, and the history stays.
LEMMA BackendStep ==
    ASSUME IInv, NEW s \in Session, NEW v \in SessionType,
           session' = [session EXCEPT ![s] = v],
           UNCHANGED <<client, expired, history, schema>>,
           v.state = "live" => session[s].state = "live",
           v.lock => \A t \in Session : session[t].lock => t = s,
           Backend(v, history),
           \A p \in Process : client[p].session = s =>
               Talk(client[p], v, history) /\ Planned(p, client[p], v, history)
    PROVE  IInv'
<1> USE DEF IInv
<1>1. DOMAIN session = Session
  BY DEF TypeInv
<1>2. session'[s] = v /\ \A t \in Session : t # s => session'[t] = session[t]
  BY <1>1
<1>3. TypeInv'
  BY DEF TypeInv
<1>4. BackendInv'
  BY <1>2 DEF BackendInv
<1>5. Mutex'
  BY <1>2 DEF Mutex
<1>6. Owned'
  BY <1>2 DEF Owned
<1>7. TalkInv'
  BY <1>2 DEF TalkInv
<1>8. HistoryInv' /\ RunsOnItsSchema'
  BY DEF HistoryInv, RunsOnItsSchema
<1>9. QED  BY <1>3, <1>4, <1>5, <1>6, <1>7, <1>8

\* A client that has a backend takes a step, with it.
LEMMA ClientStep ==
    ASSUME IInv, NEW p \in Process, NEW c \in ClientType, NEW s \in Session, NEW v \in SessionType,
           client' = [client EXCEPT ![p] = c], session' = [session EXCEPT ![s] = v],
           expired' \in [Process -> BOOLEAN], UNCHANGED <<history, schema>>,
           \A q \in Process : q # p => client[q].session # s,
           client[p].session \in {s, NoSession},
           c.session \in {s, NoSession}, c.session = NoSession <=> c.at \in Idle,
           v.state = "live" <=> c.session = s,
           v.lock => session[s].lock,
           Backend(v, history),
           c.session = s => Talk(c, v, history) /\ Planned(p, c, v, history),
           c.at = "running" => Local[p] \subseteq history
    PROVE  IInv'
<1> USE DEF IInv
<1>1. DOMAIN session = Session /\ DOMAIN client = Process
  BY DEF TypeInv
<1>2. /\ session'[s] = v /\ \A t \in Session : t # s => session'[t] = session[t]
      /\ client'[p] = c /\ \A q \in Process : q # p => client'[q] = client[q]
  BY <1>1
<1>3. TypeInv'
  BY DEF TypeInv
<1>4. BackendInv'
  BY <1>2 DEF BackendInv
<1>5. Mutex'
  BY <1>2 DEF Mutex
<1>6. Owned'
  <2>1. \A q \in Process : client'[q].session = NoSession <=> client'[q].at \in Idle
    BY <1>2 DEF Owned
  <2>2. ASSUME NEW q \in Process, NEW r \in Process, client'[q].session = client'[r].session
        PROVE  q = r \/ client'[q].session = NoSession
    BY <1>2, <2>2, Names DEF Owned
  <2>3. ASSUME NEW t \in Session, session'[t].state = "live"
        PROVE  \E q \in Process : client'[q].session = t
    <3>1. CASE t = s
      BY <1>2, <2>3, <3>1
    <3>2. CASE t # s
      <4>1. PICK q \in Process : client[q].session = t
        BY <1>2, <2>3, <3>2 DEF Owned
      <4>2. q # p
        BY <3>2, <4>1, Names
      <4>3. QED  BY <1>2, <4>1, <4>2
    <3>3. QED  BY <3>1, <3>2
  <2>4. QED  BY <2>1, <2>2, <2>3 DEF Owned
<1>7. TalkInv'
  <2>1. ASSUME NEW q \in Process, NEW t \in Session, client'[q].session = t
        PROVE  Talk(client'[q], session'[t], history) /\ Planned(q, client'[q], session'[t], history)
    <3>1. CASE q = p
      <4>1. t = s
        BY <1>2, <2>1, <3>1, Names
      <4>2. QED  BY <1>2, <2>1, <3>1, <4>1
    <3>2. CASE q # p
      BY <1>2, <2>1, <3>2 DEF TalkInv
    <3>3. QED  BY <3>1, <3>2
  <2>2. QED  BY <2>1 DEF TalkInv
<1>8. HistoryInv'
  BY DEF HistoryInv
<1>9. RunsOnItsSchema'
  BY <1>2 DEF RunsOnItsSchema
<1>10. QED  BY <1>3, <1>4, <1>5, <1>6, <1>7, <1>8, <1>9

\* A client without a backend takes a step.
LEMMA IdleStep ==
    ASSUME IInv, NEW p \in Process, NEW c \in ClientType,
           client[p].session = NoSession, c.session = NoSession, c.at \in Idle \ {"running"},
           client' = [client EXCEPT ![p] = c],
           expired' \in [Process -> BOOLEAN], UNCHANGED <<session, history, schema>>
    PROVE  IInv'
<1> USE DEF IInv
<1>1. /\ client'[p] = c /\ \A q \in Process : q # p => client'[q] = client[q]
  BY DEF TypeInv
<1>2. TypeInv'
  BY DEF TypeInv
<1>3. BackendInv' /\ Mutex' /\ HistoryInv'
  BY DEF BackendInv, Mutex, HistoryInv
<1>4. Owned'
  <2>1. \A q \in Process : client'[q].session = NoSession <=> client'[q].at \in Idle
    BY <1>1 DEF Owned
  <2>2. \A q \in Process : client'[q].session = client[q].session
    BY <1>1
  <2>3. QED  BY <2>1, <2>2 DEF Owned
<1>5. TalkInv'
  BY <1>1, Names DEF TalkInv
<1>6. RunsOnItsSchema'
  BY <1>1 DEF RunsOnItsSchema
<1>7. QED  BY <1>2, <1>3, <1>4, <1>5, <1>6

-----------------------------------------------------------------------------
(* The backends. *)

Answers == {"ok", "refused", "error"}

LEMMA ReplyStep ==
    ASSUME IInv, NEW s \in Session, NEW change \in SessionType, NEW answer \in Answers,
           session[s].asked # "none", Reply(s, answer, change),
           UNCHANGED <<client, expired, history, schema>>,
           change.state = session[s].state, change.answer = session[s].answer,
           change.lock => \A t \in Session : session[t].lock => t = s,
           ~ change.lock => change.txn = NoTxn,
           \A p \in Process : client[p].session = s =>
               /\ client[p].at \in Locking \ {"unlock"} => change.lock
               /\ Told(client[p], change, answer, history)
               /\ answer = "ok" => client[p].at # "commit"
    PROVE  IInv'
<1> DEFINE v == [change EXCEPT !.asked = "none", !.about = NoMigration,
                   !.answer = IF change.answer = "none" /\ change.state = "live" THEN answer ELSE change.answer]
<1>1. session' = [session EXCEPT ![s] = v]
  BY DEF Reply
<1>2. /\ v \in SessionType
      /\ v.state = change.state /\ v.asked = "none" /\ v.lock = change.lock /\ v.txn = change.txn
      /\ v.rows = change.rows
      /\ v.answer = IF change.answer = "none" /\ change.state = "live" THEN answer ELSE change.answer
  BY DEF SessionType, Row, Answers
<1> HIDE DEF v
<1>3. Backend(session[s], history) /\ session[s].state # "free"
  BY DEF IInv, BackendInv, Backend, Free
<1>4. Backend(v, history)
  BY <1>2, <1>3 DEF Backend, Locking, Work
<1>5. ASSUME NEW p \in Process, client[p].session = s
      PROVE  Talk(client[p], v, history) /\ Planned(p, client[p], v, history)
  <2>1. Talk(client[p], session[s], history) /\ Planned(p, client[p], session[s], history)
    BY <1>5 DEF IInv, TalkInv
  <2>2. session[s].state = "live" /\ session[s].answer = "none"
    BY <2>1 DEF Talk
  <2>3. v.state = "live" /\ v.answer = answer
    BY <1>2, <2>2
  <2>4. Told(client[p], v, answer, history)
    BY <1>2, <1>5 DEF Told
  <2>5. Talk(client[p], v, history)
    BY <1>2, <1>5, <2>3, <2>4 DEF Talk, Answers
  <2>6. Planned(p, client[p], v, history)
    BY <1>5, <2>1, <2>2, <2>3 DEF Planned
  <2>7. QED  BY <2>5, <2>6
<1>6. QED  BY <1>1, <1>2, <1>4, <1>5, BackendStep

\* What holds of a backend that was sent a statement, and of its client.
LEMMA AskedFacts ==
    ASSUME IInv, NEW s \in Session, session[s].asked # "none"
    PROVE  /\ session[s] \in SessionType
           /\ Backend(session[s], history)
           /\ session[s].lock => \A t \in Session : session[t].lock => t = s
           /\ \A p \in Process : client[p].session = s =>
                /\ client[p].at = session[s].asked
                /\ Talk(client[p], session[s], history)
                /\ Planned(p, client[p], session[s], history)
<1>1. session[s] \in SessionType /\ Backend(session[s], history)
  BY DEF IInv, TypeInv, BackendInv
<1>2. session[s].lock => \A t \in Session : session[t].lock => t = s
  BY DEF IInv, Mutex
<1>3. ASSUME NEW p \in Process, client[p].session = s
      PROVE  /\ client[p].at = session[s].asked
             /\ Talk(client[p], session[s], history)
             /\ Planned(p, client[p], session[s], history)
  BY <1>3 DEF IInv, TalkInv, Talk
<1>4. QED  BY <1>1, <1>2, <1>3

LEMMA TryLockStep ==
    ASSUME IInv, NEW s \in Session, TryLock(s), UNCHANGED <<client, expired>>
    PROVE  IInv'
<1>1. session[s].asked = "lock" /\ UNCHANGED <<history, schema>>
  BY DEF TryLock, Asked, database
<1>2. /\ session[s] \in SessionType /\ Backend(session[s], history)
      /\ \A p \in Process : client[p].session = s => client[p].at = "lock"
  BY <1>1, AskedFacts
<1>3. ~ session[s].lock /\ session[s].txn = NoTxn
  BY <1>1, <1>2 DEF Backend
<1>4. CASE Locked
  <2>1. Reply(s, "refused", session[s])
    BY <1>4 DEF TryLock
  <2>2. ASSUME NEW p \in Process, client[p].session = s
        PROVE  Told(client[p], session[s], "refused", history) /\ client[p].at = "lock"
    BY <1>2, <1>3, <2>2 DEF Told
  <2>3. QED  BY <1>1, <1>2, <1>3, <2>1, <2>2, ReplyStep DEF Answers, Locking, Work
<1>5. CASE ~ Locked
  <2> DEFINE change == [session[s] EXCEPT !.lock = TRUE]
  <2>1. Reply(s, "ok", change) /\ \A t \in Session : ~ session[t].lock
    BY <1>5 DEF TryLock, Locked
  <2>2. /\ change \in SessionType /\ change.lock /\ change.txn = NoTxn
        /\ change.state = session[s].state /\ change.answer = session[s].answer
    BY <1>2, <1>3 DEF SessionType
  <2> HIDE DEF change
  <2>3. ASSUME NEW p \in Process, client[p].session = s
        PROVE  Told(client[p], change, "ok", history) /\ client[p].at = "lock"
    BY <1>2, <2>2, <2>3 DEF Told
  <2>4. QED  BY <1>1, <2>1, <2>2, <2>3, ReplyStep DEF Answers, Locking, Work
<1>6. QED  BY <1>4, <1>5

LEMMA UnlockStep ==
    ASSUME IInv, NEW s \in Session, Unlock(s), UNCHANGED <<client, expired>>
    PROVE  IInv'
<1>1. session[s].asked = "unlock" /\ UNCHANGED <<history, schema>>
  BY DEF Unlock, Asked, database
<1>2. /\ session[s] \in SessionType /\ Backend(session[s], history)
      /\ \A p \in Process : client[p].session = s => client[p].at = "unlock"
  BY <1>1, AskedFacts
<1>3. session[s].lock /\ session[s].txn = NoTxn
  BY <1>1, <1>2 DEF Backend, Locking
<1> DEFINE change == [session[s] EXCEPT !.lock = FALSE]
<1>4. Reply(s, "ok", change)
  BY <1>3 DEF Unlock
<1>5. /\ change \in SessionType /\ ~ change.lock /\ change.txn = NoTxn
      /\ change.state = session[s].state /\ change.answer = session[s].answer
  BY <1>2, <1>3 DEF SessionType
<1> HIDE DEF change
<1>6. ASSUME NEW p \in Process, client[p].session = s
      PROVE  Told(client[p], change, "ok", history) /\ client[p].at = "unlock"
  BY <1>2, <1>5, <1>6 DEF Told
<1>7. QED  BY <1>1, <1>4, <1>5, <1>6, ReplyStep DEF Answers, Locking, Work

\* A statement within the lock is answered: the lock stays.
LEMMA LockedStep ==
    ASSUME IInv, NEW s \in Session, NEW change \in SessionType, NEW answer \in Answers,
           session[s].asked \in Locking, Reply(s, answer, change),
           UNCHANGED <<client, expired, history, schema>>,
           change.state = session[s].state, change.answer = session[s].answer,
           change.lock = session[s].lock,
           \A p \in Process : client[p].session = s =>
               Told(client[p], change, answer, history) /\ (answer = "ok" => client[p].at # "commit")
    PROVE  IInv'
<1>1. session[s].asked # "none" /\ session[s].lock
  BY DEF Locking, Work, IInv, BackendInv, Backend
<1>2. change.lock /\ \A t \in Session : session[t].lock => t = s
  BY <1>1, AskedFacts
<1>3. \A p \in Process : client[p].session = s =>
        /\ client[p].at \in Locking \ {"unlock"} => change.lock
        /\ Told(client[p], change, answer, history)
        /\ answer = "ok" => client[p].at # "commit"
  BY <1>2
<1>4. QED  BY <1>1, <1>2, <1>3, ReplyStep

LEMMA ReadHistoryStep ==
    ASSUME IInv, NEW s \in Session, ReadHistory(s), UNCHANGED <<client, expired>>
    PROVE  IInv'
<1>1. session[s].asked = "read" /\ UNCHANGED <<history, schema>>
  BY DEF ReadHistory, Asked, database
<1>2. /\ session[s] \in SessionType /\ session[s].txn = NoTxn
      /\ \A p \in Process : client[p].session = s => client[p].at = "read"
  BY <1>1, AskedFacts DEF Backend
<1> DEFINE change == [session[s] EXCEPT !.rows = history]
<1>3. Reply(s, "ok", change)
  BY DEF ReadHistory
<1>4. /\ change \in SessionType /\ change.lock = session[s].lock /\ change.txn = NoTxn
      /\ change.rows = history
      /\ change.state = session[s].state /\ change.answer = session[s].answer
  BY <1>2 DEF SessionType, IInv, TypeInv
<1> HIDE DEF change
<1>5. ASSUME NEW p \in Process, client[p].session = s
      PROVE  Told(client[p], change, "ok", history) /\ client[p].at = "read"
  BY <1>2, <1>4, <1>5 DEF Told
<1>6. QED  BY <1>1, <1>3, <1>4, <1>5, LockedStep DEF Answers, Locking

LEMMA BeginStep ==
    ASSUME IInv, NEW s \in Session, Begin(s), UNCHANGED <<client, expired>>
    PROVE  IInv'
<1>1. session[s].asked = "begin" /\ UNCHANGED <<history, schema>>
  BY DEF Begin, Asked, database
<1>2. /\ session[s] \in SessionType
      /\ \A p \in Process : client[p].session = s => client[p].at = "begin"
  BY <1>1, AskedFacts
<1> DEFINE change == [session[s] EXCEPT !.txn = [NoTxn EXCEPT !.status = "open"]]
<1>3. Reply(s, "ok", change)
  BY DEF Begin
<1>4. /\ change \in SessionType /\ change.lock = session[s].lock
      /\ change.txn = OpenTxn(NoMigration, NoMigration)
      /\ change.state = session[s].state /\ change.answer = session[s].answer
  BY <1>2 DEF SessionType, TxnType, NoTxn, OpenTxn, Row
<1> HIDE DEF change
<1>5. ASSUME NEW p \in Process, client[p].session = s
      PROVE  Told(client[p], change, "ok", history) /\ client[p].at = "begin"
  BY <1>2, <1>4, <1>5 DEF Told
<1>6. QED  BY <1>1, <1>3, <1>4, <1>5, LockedStep DEF Answers, Locking, Work

LEMMA RunSqlStep ==
    ASSUME IInv, NEW s \in Session, RunSql(s), UNCHANGED <<client, expired>>
    PROVE  IInv'
<1>1. session[s].asked = "sql" /\ UNCHANGED <<history, schema>>
  BY DEF RunSql, Asked, database
<1>2. /\ session[s] \in SessionType
      /\ session[s].txn = OpenTxn(NoMigration, NoMigration)
      /\ \A p \in Process : client[p].session = s =>
           client[p].at = "sql" /\ session[s].about = client[p].todo[1]
  BY <1>1, AskedFacts DEF Backend, Talk
<1> DEFINE change == [session[s] EXCEPT !.txn.ran = session[s].about]
<1>3. Reply(s, "ok", change)
  BY DEF RunSql
<1>4. /\ change \in SessionType /\ change.lock = session[s].lock
      /\ change.txn = OpenTxn(session[s].about, NoMigration)
      /\ change.state = session[s].state /\ change.answer = session[s].answer
  BY <1>2 DEF SessionType, TxnType, OpenTxn
<1> HIDE DEF change
<1>5. ASSUME NEW p \in Process, client[p].session = s
      PROVE  Told(client[p], change, "ok", history) /\ client[p].at = "sql"
  BY <1>2, <1>4, <1>5 DEF Told
<1>6. QED  BY <1>1, <1>3, <1>4, <1>5, LockedStep DEF Answers, Locking, Work

LEMMA RecordStep ==
    ASSUME IInv, NEW s \in Session, Record(s), UNCHANGED <<client, expired>>
    PROVE  IInv'
<1>1. session[s].asked = "record" /\ UNCHANGED <<history, schema>>
  BY DEF Record, Asked, database
<1>2. /\ session[s] \in SessionType
      /\ session[s].txn = OpenTxn(session[s].about, NoMigration)
      /\ \A p \in Process : client[p].session = s =>
           client[p].at = "record" /\ session[s].about = client[p].todo[1]
  BY <1>1, AskedFacts DEF Backend, Talk
<1> DEFINE change == [session[s] EXCEPT !.txn.recorded = session[s].about]
<1>3. Reply(s, "ok", change)
  BY DEF Record
<1>4. /\ change \in SessionType /\ change.lock = session[s].lock
      /\ change.txn = OpenTxn(session[s].about, session[s].about)
      /\ change.state = session[s].state /\ change.answer = session[s].answer
  BY <1>2 DEF SessionType, TxnType, OpenTxn
<1> HIDE DEF change
<1>5. ASSUME NEW p \in Process, client[p].session = s
      PROVE  Told(client[p], change, "ok", history) /\ client[p].at = "record"
  BY <1>2, <1>4, <1>5 DEF Told
<1>6. QED  BY <1>1, <1>3, <1>4, <1>5, LockedStep DEF Answers, Locking, Work

LEMMA RollbackStep ==
    ASSUME IInv, NEW s \in Session, Rollback(s), UNCHANGED <<client, expired>>
    PROVE  IInv'
<1>1. session[s].asked = "rollback" /\ UNCHANGED <<history, schema>>
  BY DEF Rollback, Asked, database
<1>2. /\ session[s] \in SessionType
      /\ \A p \in Process : client[p].session = s => client[p].at = "rollback"
  BY <1>1, AskedFacts
<1> DEFINE change == [session[s] EXCEPT !.txn = NoTxn]
<1>3. Reply(s, "ok", change)
  BY DEF Rollback
<1>4. /\ change \in SessionType /\ change.lock = session[s].lock /\ change.txn = NoTxn
      /\ change.state = session[s].state /\ change.answer = session[s].answer
  BY <1>2 DEF SessionType, TxnType, NoTxn, Row
<1> HIDE DEF change
<1>5. ASSUME NEW p \in Process, client[p].session = s
      PROVE  Told(client[p], change, "ok", history) /\ client[p].at = "rollback"
  BY <1>2, <1>4, <1>5 DEF Told
<1>6. QED  BY <1>1, <1>3, <1>4, <1>5, LockedStep DEF Answers, Locking

LEMMA SucceedStep ==
    ASSUME IInv, NEW s \in Session, Succeed(s), UNCHANGED <<client, expired>>
    PROVE  IInv'
<1>1. /\ session[s].asked \in {"init", "prepare"} /\ Reply(s, "ok", session[s])
      /\ UNCHANGED <<history, schema>>
  BY DEF Succeed, database
<1>2. /\ session[s] \in SessionType /\ session[s].txn = NoTxn
      /\ session[s].asked = "prepare" => ~ session[s].lock
      /\ session[s].asked = "init" => session[s].lock
      /\ session[s].lock => \A t \in Session : session[t].lock => t = s
      /\ \A p \in Process : client[p].session = s => client[p].at = session[s].asked
  BY <1>1, AskedFacts DEF Backend, Locking
<1>3. ASSUME NEW p \in Process, client[p].session = s
      PROVE  /\ Told(client[p], session[s], "ok", history) /\ client[p].at # "commit"
             /\ client[p].at \in Locking \ {"unlock"} => session[s].lock
  BY <1>1, <1>2, <1>3 DEF Told, Locking, Work
<1>4. QED  BY <1>1, <1>2, <1>3, ReplyStep DEF Answers

LEMMA RefuseStep ==
    ASSUME IInv, NEW s \in Session, Refuse(s), UNCHANGED <<client, expired>>
    PROVE  IInv'
<1> DEFINE txn == IF session[s].txn.status = "none" \/ session[s].asked = "commit" THEN NoTxn
                  ELSE [NoTxn EXCEPT !.status = "aborted"]
           change == [session[s] EXCEPT !.txn = txn]
<1>1. /\ session[s].asked \notin {"none", "rollback"} /\ Reply(s, "error", change)
      /\ UNCHANGED <<history, schema>>
  BY DEF Refuse, Asked, database
<1>2. /\ session[s] \in SessionType /\ Backend(session[s], history)
      /\ session[s].lock => \A t \in Session : session[t].lock => t = s
      /\ \A p \in Process : client[p].session = s =>
           client[p].at = session[s].asked /\ Talk(client[p], session[s], history)
  BY <1>1, AskedFacts
<1>3. txn \in TxnType
  BY DEF TxnType, NoTxn, Row
<1>4. session[s].txn = NoTxn => txn = NoTxn
  BY DEF NoTxn
<1> HIDE DEF txn
<1>5. /\ change \in SessionType /\ change.lock = session[s].lock /\ change.txn = txn
      /\ change.state = session[s].state /\ change.answer = session[s].answer
  BY <1>2, <1>3 DEF SessionType
<1> HIDE DEF change
<1>6. ~ change.lock => change.txn = NoTxn
  BY <1>2, <1>4, <1>5 DEF Backend
<1>7. ASSUME NEW p \in Process, client[p].session = s
      PROVE  /\ Told(client[p], change, "error", history)
             /\ client[p].at \in Locking \ {"unlock"} => change.lock
  <2>1. client[p].at = session[s].asked /\ Talk(client[p], session[s], history)
    BY <1>2, <1>7
  <2>2. client[p].at \in Locking \ {"unlock"} => change.lock
    BY <1>5, <2>1 DEF Talk
  <2>3. client[p].at \in {"lock", "prepare"} => ~ change.lock
    BY <1>2, <1>5, <2>1 DEF Backend
  <2>4. client[p].at \in {"lock", "init", "read", "unlock", "prepare"} => change.txn = NoTxn
    BY <1>2, <1>4, <1>5, <2>1 DEF Backend
  <2>5. QED  BY <1>1, <2>1, <2>2, <2>3, <2>4 DEF Told
<1>8. QED  BY <1>1, <1>2, <1>5, <1>6, <1>7, ReplyStep DEF Answers

\* The history and the schema grow by one migration, as Fits allows.
LEMMA HistoryGrows ==
    ASSUME HistoryInv, NEW m, Fits(m, history), schema \in Seq(Migration),
           history' = history \cup {m}, schema' = Append(schema, m)
    PROVE  HistoryInv' /\ schema' \in Seq(Migration)
<1>1. m \in Migration
  BY DEF Fits
<1>2. /\ schema' \in Seq(Migration) /\ Len(schema) \in Nat
      /\ DOMAIN schema' = 1 .. Len(schema) + 1 /\ DOMAIN schema = 1 .. Len(schema)
      /\ schema'[Len(schema) + 1] = m
      /\ \A i \in 1 .. Len(schema) : schema'[i] = schema[i]
  BY <1>1
<1>3. ToSet(schema') = history'
  <2>1. ToSet(schema') = ToSet(schema) \cup {m}
    BY <1>2 DEF ToSet
  <2>2. QED  BY <2>1 DEF HistoryInv
<1>4. Sorted(schema')
  <2>1. \A i \in 1 .. Len(schema) : schema[i].version < m.version
    BY <1>2 DEF HistoryInv, ToSet, Fits
  <2>2. ASSUME NEW i \in DOMAIN schema', NEW j \in DOMAIN schema', i < j
        PROVE  schema'[i].version < schema'[j].version
    <3>1. CASE j = Len(schema) + 1
      BY <1>2, <2>1, <2>2, <3>1
    <3>2. CASE j # Len(schema) + 1
      <4>1. i \in DOMAIN schema /\ j \in DOMAIN schema
        BY <1>2, <2>2, <3>2
      <4>2. schema[i].version < schema[j].version
        BY <2>2, <4>1 DEF HistoryInv, Sorted
      <4>3. QED  BY <1>2, <4>1, <4>2
    <3>3. QED  BY <3>1, <3>2
  <2>3. QED  BY <2>2 DEF Sorted
<1>5. ASSUME NEW q \in Process, history' \subseteq Local[q], NEW h \in history', NEW n \in Local[q],
             n.version < h.version
      PROVE  n \in history'
  <2>1. CASE h \in history
    BY <1>5, <2>1 DEF HistoryInv
  <2>2. CASE h = m
    BY <1>5, <2>2 DEF Fits
  <2>3. QED  BY <1>5, <2>1, <2>2
<1>6. QED  BY <1>2, <1>3, <1>4, <1>5 DEF HistoryInv

LEMMA CommitStep ==
    ASSUME IInv, NEW s \in Session, Commit(s), UNCHANGED <<client, expired>>
    PROVE  IInv'
<1> USE DEF IInv
<1> DEFINE m == session[s].txn.ran
           change == [session[s] EXCEPT !.txn = NoTxn]
           v == [change EXCEPT !.asked = "none", !.about = NoMigration,
                   !.answer = IF change.answer = "none" /\ change.state = "live" THEN "ok" ELSE change.answer]
<1>1. session[s].asked = "commit"
  BY DEF Commit, Asked
<1>2. /\ session[s] \in SessionType /\ Backend(session[s], history)
      /\ session[s].lock
      /\ \A t \in Session : session[t].lock => t = s
      /\ session[s].txn = OpenTxn(m, m) /\ Fits(m, history)
  BY <1>1, AskedFacts DEF Backend, Locking, Work
<1>3. m \in Migration /\ m # NoMigration /\ session[s].txn.recorded = m
  BY <1>2, Names DEF Fits, OpenTxn
<1>4. /\ session' = [session EXCEPT ![s] = v]
      /\ history' = history \cup {m} /\ schema' = Append(schema, m)
  BY <1>3 DEF Commit, Reply
<1>5. /\ v \in SessionType
      /\ v.state = session[s].state /\ v.asked = "none" /\ v.lock /\ v.txn = NoTxn
      /\ v.answer = IF session[s].answer = "none" /\ session[s].state = "live" THEN "ok"
                     ELSE session[s].answer
  BY <1>2 DEF SessionType, TxnType, NoTxn, Row
<1> HIDE DEF v, m
<1>6. session'[s] = v /\ \A t \in Session : t # s => session'[t] = session[t]
  BY <1>4 DEF TypeInv
<1>7. HistoryInv' /\ schema' \in Seq(Migration)
  BY <1>2, <1>4, HistoryGrows DEF TypeInv
<1>8. TypeInv'
  BY <1>3, <1>4, <1>5, <1>7 DEF TypeInv
<1>9. BackendInv'
  <2>1. Backend(v, history')
    BY <1>2, <1>5 DEF Backend, Free, Locking, Work
  <2>2. ASSUME NEW t \in Session, t # s PROVE Backend(session[t], history')
    <3>1. Backend(session[t], history) /\ ~ session[t].lock
      BY <1>2, <2>2 DEF BackendInv
    <3>2. session[t].asked \notin Locking
      BY <3>1 DEF Backend
    <3>3. QED  BY <3>1, <3>2 DEF Backend, Locking, Work
  <2>3. QED  BY <1>6, <2>1, <2>2 DEF BackendInv
<1>10. Mutex'
  BY <1>2, <1>6 DEF Mutex
<1>11. Owned'
  BY <1>5, <1>6 DEF Owned
<1>12. TalkInv'
  <2>1. ASSUME NEW p \in Process, client[p].session = s
        PROVE  Talk(client[p], v, history') /\ Planned(p, client[p], v, history')
    <3>1. /\ client[p].at = "commit" /\ Talk(client[p], session[s], history)
          /\ Planned(p, client[p], session[s], history)
      BY <1>1, <2>1, AskedFacts
    <3>2. /\ session[s].state = "live" /\ session[s].answer = "none"
          /\ client[p].todo[1] = m
      BY <1>1, <3>1 DEF Talk, m
    <3>3. v.answer = "ok" /\ v.state = "live"
      BY <1>5, <3>2
    <3>4. Told(client[p], v, v.answer, history')
      BY <1>5, <3>1, <3>3 DEF Told
    <3>5. Talk(client[p], v, history')
      BY <1>5, <3>1, <3>3, <3>4 DEF Talk
    <3>6. /\ history \subseteq Local[p] /\ client[p].todo \in Seq(Local[p]) /\ client[p].todo # <<>>
          /\ Sorted(client[p].todo) /\ ToSet(client[p].todo) = Local[p] \ history
      BY <3>1, <3>2 DEF Planned, Work
    <3>7. m \in Local[p] \ history
      <4>1. 1 \in DOMAIN client[p].todo
        BY <3>6
      <4>2. client[p].todo[1] \in ToSet(client[p].todo)
        BY <4>1 DEF ToSet
      <4>3. QED  BY <3>2, <3>6, <4>2
    <3>8. history' \subseteq Local[p] /\ ToSet(client[p].todo) = (Local[p] \ history') \cup {m}
      BY <1>4, <3>6, <3>7
    <3>9. Planned(p, client[p], v, history')
      BY <1>4, <3>1, <3>2, <3>3, <3>6, <3>8 DEF Planned
    <3>10. QED  BY <3>5, <3>9
  <2>2. ASSUME NEW p \in Process, NEW t \in Session, t # s, client[p].session = t
        PROVE  Talk(client[p], session[t], history') /\ Planned(p, client[p], session[t], history')
    <3>1. Talk(client[p], session[t], history) /\ Planned(p, client[p], session[t], history)
      BY <2>2 DEF TalkInv
    <3>2. client[p].at \notin Locking \ {"unlock"}
      BY <1>2, <2>2, <3>1 DEF Talk
    <3>3. client[p].at \notin Work /\ client[p].at # "read"
      BY <3>2 DEF Locking, Work
    <3>4. Told(client[p], session[t], session[t].answer, history) =>
            Told(client[p], session[t], session[t].answer, history')
      BY <3>3 DEF Told
    <3>5. Talk(client[p], session[t], history')
      BY <3>1, <3>4 DEF Talk
    <3>6. Planned(p, client[p], session[t], history')
      BY <1>4, <3>1, <3>3 DEF Planned
    <3>7. QED  BY <3>5, <3>6
  <2>3. QED  BY <1>6, <2>1, <2>2 DEF TalkInv
<1>13. RunsOnItsSchema'
  BY <1>4 DEF RunsOnItsSchema
<1>14. QED  BY <1>7, <1>8, <1>9, <1>10, <1>11, <1>12, <1>13

LEMMA ReapStep ==
    ASSUME IInv, NEW s \in Session, Reap(s)
    PROVE  IInv'
<1>1. /\ session[s].state = "orphan" /\ session' = [session EXCEPT ![s] = Free]
      /\ UNCHANGED <<client, expired, history, schema>>
  BY DEF Reap, database
<1>2. \A p \in Process : client[p].session # s
  BY <1>1 DEF IInv, TalkInv, Talk
<1>3. ~ Free.lock /\ Free.state = "free"
  BY DEF Free
<1>4. QED  BY <1>1, <1>2, <1>3, FreeFacts, BackendStep

-----------------------------------------------------------------------------
(* The clients. *)

\* The plan of a build over a history: all that is missing, in order.
Plans(p, q, H) ==
    /\ H \subseteq Local[p]
    /\ q \in Seq(Local[p]) /\ Sorted(q)
    /\ ToSet(q) = Local[p] \ H

LEMMA FitsFirst ==
    ASSUME HistoryInv, NEW p \in Process, NEW q, Plans(p, q, history), q # <<>>
    PROVE  Fits(q[1], history) /\ q[1] \in Local[p] \ history
<1> DEFINE m == q[1]
<1>1. /\ DOMAIN q = 1 .. Len(q) /\ 1 \in DOMAIN q /\ Len(q) \in Nat
  BY DEF Plans
<1>2. m \in Local[p] \ history
  BY <1>1 DEF Plans, ToSet
<1>3. \A n \in Local[p] \ history : n = m \/ m.version < n.version
  <2> TAKE n \in Local[p] \ history
  <2>1. PICK i \in DOMAIN q : n = q[i]
    BY DEF Plans, ToSet
  <2>2. i = 1 \/ 1 < i
    BY <1>1
  <2>3. QED  BY <1>1, <2>1, <2>2 DEF Plans, Sorted
<1> HIDE DEF m
<1>4. \A n \in Local[p] : n.version \in Nat
  BY LocalAssumption
<1>5. \A n \in Local[p] : n.version < m.version => n \in history
  BY <1>2, <1>3, <1>4
<1>6. ASSUME NEW h \in history PROVE h.version < m.version
  <2>1. h \in Local[p] /\ h # m /\ h.version # m.version
    BY <1>2, LocalAssumption DEF Plans
  <2>2. ~ (m.version < h.version)
    BY <1>2 DEF HistoryInv, Plans
  <2>3. QED  BY <1>2, <1>4, <2>1, <2>2
<1>7. ASSUME NEW q2 \in Process, history \cup {m} \subseteq Local[q2], NEW n \in Local[q2],
             n.version < m.version
      PROVE  n \in history
  <2>1. PICK k \in Local[p] : k.version = n.version
    BY <1>2, <1>7, GrowthAssumption
  <2>2. k \in history
    BY <1>5, <1>7, <2>1
  <2>3. k \in Local[q2]
    BY <1>7, <2>2
  <2>4. QED  BY <1>7, <2>1, <2>2, <2>3, LocalAssumption
<1>8. m \in Migration
  BY <1>2 DEF Migration
<1>9. QED  BY <1>2, <1>6, <1>7, <1>8 DEF Fits, m

\* findPendingMigrations: with a history that agrees with the build, what is
\* pending is a plan.
LEMMA PendingPlans ==
    ASSUME NEW p \in Process, NEW H, ~ Mismatch(p, H), NEW q \in Pending(p, H)
    PROVE  Plans(p, q, H)
<1> DEFINE S == {m \in Local[p] : \A row \in H : row.version # m.version}
           n == Cardinality(S)
<1>1. H \subseteq Local[p]
  BY DEF Mismatch
<1>2. S = Local[p] \ H
  BY <1>1, LocalAssumption
<1>3. IsFiniteSet(S) /\ n \in Nat
  BY LocalAssumption, FS_Subset, FS_CardinalityType
<1>4. q \in [1 .. n -> S] /\ (\A i, j \in 1 .. n : i # j => q[i] # q[j]) /\ Sorted(q)
  BY DEF Pending, SetToSeqs, Sorted
<1> HIDE DEF S, n
<1>5. q \in Seq(S) /\ DOMAIN q = 1 .. n
  BY <1>3, <1>4
<1>6. q \in Injection(1 .. n, S)
  BY <1>4 DEF Injection, IsInjective
<1>7. Cardinality(1 .. n) = n
  BY <1>3, FS_Interval
<1>8. q \in Surjection(1 .. n, S)
  BY <1>3, <1>6, <1>7, FS_Injection DEF n
<1>9. ToSet(q) = S
  BY <1>4, <1>5, <1>8 DEF Surjection, ToSet
<1>10. q \in Seq(Local[p])
  BY <1>2, <1>5
<1>11. QED  BY <1>1, <1>2, <1>4, <1>9, <1>10 DEF Plans

\* The rest of a plan is one when its first migration is in the history.
LEMMA RestPlans ==
    ASSUME NEW p \in Process, NEW q \in Seq(Local[p]), q # <<>>, Sorted(q), NEW H,
           H \subseteq Local[p], q[1] \in H, ToSet(q) = (Local[p] \ H) \cup {q[1]}
    PROVE  Plans(p, Tail(q), H)
<1>1. /\ Len(q) \in Nat \ {0} /\ DOMAIN q = 1 .. Len(q) /\ Tail(q) \in Seq(Local[p])
      /\ DOMAIN Tail(q) = 1 .. Len(q) - 1
      /\ \A i \in 1 .. Len(q) - 1 : Tail(q)[i] = q[i + 1] /\ i + 1 \in 1 .. Len(q)
  OBVIOUS
<1>2. Sorted(Tail(q))
  BY <1>1 DEF Sorted
<1>3. \A i \in 1 .. Len(q) : i # 1 => q[i] # q[1]
  <2> TAKE i \in 1 .. Len(q)
  <2> HAVE i # 1
  <2>1. q[1].version < q[i].version
    BY <1>1 DEF Sorted
  <2>2. q[1].version \in Nat
    BY <1>1, LocalAssumption
  <2>3. QED  BY <2>1, <2>2
<1>4. ToSet(Tail(q)) = ToSet(q) \ {q[1]}
  <2>1. ASSUME NEW m \in ToSet(Tail(q)) PROVE m \in ToSet(q) \ {q[1]}
    <3>1. PICK i \in 1 .. Len(q) - 1 : m = q[i + 1]
      BY <1>1 DEF ToSet
    <3>2. i + 1 \in 1 .. Len(q) /\ i + 1 # 1
      BY <1>1
    <3>3. QED  BY <1>1, <1>3, <3>1, <3>2 DEF ToSet
  <2>2. ASSUME NEW m \in ToSet(q), m # q[1] PROVE m \in ToSet(Tail(q))
    <3>1. PICK i \in 1 .. Len(q) : m = q[i]
      BY <1>1 DEF ToSet
    <3>2. i - 1 \in 1 .. Len(q) - 1 /\ q[i] = Tail(q)[i - 1]
      BY <1>1, <2>2, <3>1
    <3>3. QED  BY <1>1, <3>1, <3>2 DEF ToSet
  <2>3. QED  BY <2>1, <2>2
<1>5. ToSet(Tail(q)) = Local[p] \ H
  BY <1>4
<1>6. QED  BY <1>1, <1>2, <1>5 DEF Plans

\* When a client may send a statement to backend v.
Ready(p, statement, todo, failed, v, H) ==
    /\ statement \in Locking => v.lock
    /\ statement \in {"lock", "prepare"} => ~ v.lock
    /\ statement \in {"init", "read", "begin", "unlock"} => v.txn = NoTxn
    /\ statement = "sql" => v.txn = OpenTxn(NoMigration, NoMigration)
    /\ statement = "record" => v.txn = OpenTxn(todo[1], NoMigration)
    /\ statement = "commit" => v.txn = OpenTxn(todo[1], todo[1])
    /\ statement \in Work => Plans(p, todo, H) /\ todo # <<>>
    /\ statement = "unlock" /\ ~ failed => Local[p] \subseteq H
    /\ statement = "prepare" => Local[p] \subseteq H

\* A client that has heard an answer, and the facts about it.
LEMMA HeardFacts ==
    ASSUME IInv, NEW p \in Process, client[p].session # NoSession
    PROVE  /\ client[p].session \in Session
           /\ client[p] \in ClientType /\ client[p].at \in Statements
           /\ session[client[p].session] \in SessionType
           /\ session[client[p].session].state = "live"
           /\ Backend(session[client[p].session], history)
           /\ Talk(client[p], session[client[p].session], history)
           /\ Planned(p, client[p], session[client[p].session], history)
           /\ \A q \in Process : q # p => client[q].session # client[p].session
<1>1. client[p] \in ClientType /\ client[p].session \in Session
  BY DEF IInv, TypeInv, ClientType
<1>2. client[p].at \in Statements
  BY <1>1 DEF IInv, Owned, ClientType
<1>3. \A q \in Process : q # p => client[q].session # client[p].session
  BY DEF IInv, Owned
<1>4. session[client[p].session] \in SessionType /\ Backend(session[client[p].session], history)
  BY <1>1 DEF IInv, TypeInv, BackendInv
<1>5. /\ Talk(client[p], session[client[p].session], history)
      /\ Planned(p, client[p], session[client[p].session], history)
  BY <1>1 DEF IInv, TalkInv
<1>6. QED  BY <1>1, <1>2, <1>3, <1>4, <1>5 DEF Talk

LEMMA SendStep ==
    ASSUME IInv, NEW p \in Process, client[p].session # NoSession,
           NEW statement \in Statements, NEW todo \in Seq(Migration), NEW failed \in BOOLEAN,
           Send(p, statement, todo, failed),
           UNCHANGED <<expired, history, schema>>,
           Ready(p, statement, todo, failed, session[client[p].session], history)
    PROVE  IInv'
<1> DEFINE s == client[p].session
           m == IF statement \in {"sql", "record"} THEN todo[1] ELSE NoMigration
           c == [client[p] EXCEPT !.at = statement, !.todo = todo, !.failed = failed]
           v == [session[s] EXCEPT !.asked = statement, !.about = m, !.answer = "none", !.rows = {}]
<1>1. /\ s \in Session /\ client[p] \in ClientType /\ session[s] \in SessionType
      /\ session[s].state = "live" /\ Backend(session[s], history)
      /\ \A q \in Process : q # p => client[q].session # s
  BY HeardFacts
<1>2. client' = [client EXCEPT ![p] = c]
  BY DEF Send, IInv, TypeInv
<1>3. session' = [session EXCEPT ![s] = v]
  BY <1>1 DEF Send, Ask, IInv, TypeInv
<1>4. statement \in {"sql", "record", "commit"} => Fits(todo[1], history)
  BY FitsFirst DEF Ready, Work, IInv
<1>5. m \in Row
  BY <1>4 DEF Row, Fits
<1>6. /\ c \in ClientType /\ c.session = s /\ c.at = statement /\ c.todo = todo /\ c.failed = failed
  BY <1>1 DEF ClientType
<1>7. /\ v \in SessionType /\ v.state = "live" /\ v.asked = statement /\ v.about = m
      /\ v.answer = "none" /\ v.lock = session[s].lock /\ v.txn = session[s].txn
  BY <1>1, <1>5 DEF SessionType
<1>8. statement = "commit" => v.txn.ran = todo[1] /\ v.txn = OpenTxn(v.txn.ran, v.txn.ran)
  BY <1>7 DEF Ready, OpenTxn
<1>9. Ready(p, statement, todo, failed, session[s], history)
  OBVIOUS
<1>10. m = IF statement \in {"sql", "record"} THEN todo[1] ELSE NoMigration
  OBVIOUS
<1> HIDE DEF c, v, s, m
<1>11. Backend(v, history)
  BY <1>1, <1>4, <1>7, <1>8, <1>9, <1>10 DEF Backend, Ready, Locking, Work
<1>12. Talk(c, v, history)
  BY <1>6, <1>7, <1>8, <1>9, <1>10 DEF Talk, Ready
<1>13. Planned(p, c, v, history)
  BY <1>6, <1>7, <1>9 DEF Planned, Ready, Plans
<1>14. c.session # NoSession /\ c.at \notin Idle
  BY <1>1, <1>6, Names DEF Idle, Statements, Locking, Work
<1>15. expired' \in [Process -> BOOLEAN]
  BY DEF IInv, TypeInv
<1>16. client[p].session = s
  BY DEF s
<1>17. c.at # "running"
  BY <1>14 DEF Idle
<1>18. QED
  BY <1>1, <1>2, <1>3, <1>6, <1>7, <1>11, <1>12, <1>13, <1>14, <1>15, <1>16, <1>17, ClientStep

LEMMA DownFacts ==
    LET running == [Down EXCEPT !.at = "running"]
    IN  /\ Down \in ClientType /\ Down.session = NoSession /\ Down.at = "down"
        /\ running \in ClientType /\ running.session = NoSession /\ running.at = "running"
<1>1. Down \in ClientType /\ Down.session = NoSession /\ Down.at = "down"
  BY DEF Down, ClientType, Idle
<1>2. QED  BY <1>1 DEF ClientType, Idle

LEMMA EndStep ==
    ASSUME IInv, NEW p \in Process, client[p].session # NoSession,
           NEW next \in ClientType, End(p, next),
           next.session = NoSession, next.at \in {"down", "running"},
           next.at = "running" => client[p].at = "prepare",
           UNCHANGED <<expired, history, schema>>
    PROVE  IInv'
<1> DEFINE s == client[p].session
           v == [session[s] EXCEPT !.state = "orphan", !.answer = "none"]
<1>1. /\ s \in Session /\ session[s] \in SessionType /\ Backend(session[s], history)
      /\ session[s].state = "live" /\ Planned(p, client[p], session[s], history)
      /\ \A q \in Process : q # p => client[q].session # s
  BY HeardFacts
<1>2. client' = [client EXCEPT ![p] = next] /\ session' = [session EXCEPT ![s] = v]
  BY <1>1 DEF End, IInv, TypeInv
<1>3. next.at \in Idle
  BY DEF Idle
<1>4. /\ v \in SessionType /\ v.state = "orphan" /\ v.answer = "none"
      /\ v.asked = session[s].asked /\ v.about = session[s].about
      /\ v.lock = session[s].lock /\ v.txn = session[s].txn
  BY <1>1 DEF SessionType
<1>5. client[p].session = s
  OBVIOUS
<1> HIDE DEF v, s
<1>6. Backend(v, history)
  BY <1>1, <1>4 DEF Backend
<1>7. next.at = "running" => Local[p] \subseteq history
  BY <1>1, <1>3 DEF Planned
<1>8. expired' \in [Process -> BOOLEAN]
  BY DEF IInv, TypeInv
<1>9. next.session # s
  BY <1>1, <1>3, Names
<1>10. /\ v.state = "live" <=> next.session = s
       /\ next.session = NoSession <=> next.at \in Idle
  BY <1>3, <1>4, <1>9
<1>11. /\ client[p].session \in {s, NoSession} /\ next.session \in {s, NoSession}
       /\ v.lock => session[s].lock
       /\ next.session = s => Talk(next, v, history) /\ Planned(p, next, v, history)
  BY <1>4, <1>5, <1>9
<1>12. QED  BY <1>1, <1>2, <1>4, <1>6, <1>7, <1>8, <1>10, <1>11, ClientStep

\* A client that is through with a migration, or with reading the history.
LEMMA NextOrUnlockStep ==
    ASSUME IInv, NEW p \in Process, client[p].session # NoSession, NEW todo,
           NextOrUnlock(p, todo), Plans(p, todo, history),
           session[client[p].session].lock, session[client[p].session].txn = NoTxn,
           UNCHANGED <<expired, history, schema>>
    PROVE  IInv'
<1>1. todo \in Seq(Migration)
  BY DEF Plans, Migration
<1>2. CASE todo = <<>>
  <2>1. Send(p, "unlock", todo, FALSE)
    BY <1>2 DEF NextOrUnlock
  <2>2. Local[p] \subseteq history
    BY <1>2 DEF Plans, ToSet
  <2>3. Ready(p, "unlock", todo, FALSE, session[client[p].session], history)
    BY <2>2 DEF Ready, Work
  <2>4. QED  BY <1>1, <2>1, <2>3, SendStep DEF Statements, Locking
<1>3. CASE todo # <<>>
  <2>1. Send(p, "begin", todo, FALSE)
    BY <1>3 DEF NextOrUnlock
  <2>2. Ready(p, "begin", todo, FALSE, session[client[p].session], history)
    BY <1>3 DEF Ready
  <2>3. QED  BY <1>1, <2>1, <2>2, SendStep DEF Statements, Locking, Work
<1>4. QED  BY <1>2, <1>3

\* A failed migration gives the lock back.
LEMMA FailedStep ==
    ASSUME IInv, NEW p \in Process, client[p].session # NoSession, Failed(p),
           session[client[p].session].lock, session[client[p].session].txn = NoTxn,
           UNCHANGED <<expired, history, schema>>
    PROVE  IInv'
<1>1. Ready(p, "unlock", <<>>, TRUE, session[client[p].session], history)
  BY DEF Ready, Work
<1>2. Send(p, "unlock", <<>>, TRUE)
  BY DEF Failed
<1>3. <<>> \in Seq(Migration) /\ "unlock" \in Statements /\ TRUE \in BOOLEAN
  BY DEF Statements, Locking
<1>4. QED  BY <1>1, <1>2, <1>3, SendStep

LEMMA HearStep ==
    ASSUME IInv, NEW p \in Process, Hear(p)
    PROVE  IInv'
<1> DEFINE c == client[p]
           v == session[c.session]
<1>1. c.session # NoSession /\ v.answer # "none" /\ UNCHANGED <<expired, history, schema>>
  BY DEF Hear, Heard, database
<1>2. /\ c \in ClientType /\ v \in SessionType /\ c.at \in Statements
      /\ Told(c, v, v.answer, history) /\ Planned(p, c, v, history)
      /\ c.at \in Locking \ {"unlock"} => v.lock
      /\ ~ v.lock => v.txn = NoTxn
  BY <1>1, HeardFacts DEF Talk, Backend
<1>3. c.todo \in Seq(Migration)
  BY <1>2 DEF ClientType
<1>4. CASE c.at = "lock" /\ v.answer = "ok" /\ Send(p, "init", c.todo, FALSE)
  <2>1. Ready(p, "init", c.todo, FALSE, v, history)
    BY <1>2, <1>4 DEF Ready, Told, Work
  <2>2. QED  BY <1>1, <1>3, <1>4, <2>1, SendStep DEF Statements, Locking
<1>5. CASE c.at \in DOMAIN AfterOk /\ v.answer = "ok" /\ Send(p, AfterOk[c.at], c.todo, FALSE)
  <2>1. c.at \in {"init", "begin", "sql", "record"}
    BY <1>5 DEF AfterOk
  <2>2. v.lock
    BY <1>2, <2>1 DEF Locking, Work
  <2>3. c.at # "init" => Plans(p, c.todo, history) /\ c.todo # <<>>
    BY <1>2, <2>1 DEF Planned, Plans, Work
  <2>4. Ready(p, AfterOk[c.at], c.todo, FALSE, v, history)
    <3>1. CASE c.at = "init"
      BY <1>2, <1>5, <2>2, <3>1 DEF Ready, Told, AfterOk, Work
    <3>2. CASE c.at = "begin"
      BY <1>2, <1>5, <2>2, <2>3, <3>2 DEF Ready, Told, AfterOk
    <3>3. CASE c.at = "sql"
      BY <1>2, <1>5, <2>2, <2>3, <3>3 DEF Ready, Told, AfterOk
    <3>4. CASE c.at = "record"
      BY <1>2, <1>5, <2>2, <2>3, <3>4 DEF Ready, Told, AfterOk
    <3>5. QED  BY <2>1, <3>1, <3>2, <3>3, <3>4
  <2>5. AfterOk[c.at] \in Statements
    BY <2>1 DEF AfterOk, Statements, Locking, Work
  <2>6. QED  BY <1>1, <1>3, <1>5, <2>4, <2>5, SendStep
<1>6. CASE c.at \in {"init", "read"} /\ Failed(p)
  BY <1>1, <1>2, <1>6, FailedStep DEF Told, Locking
<1>7. CASE /\ c.at = "read" /\ v.answer = "ok" /\ ~ Mismatch(p, v.rows)
           /\ \E pending \in Pending(p, v.rows) : NextOrUnlock(p, pending)
  <2>1. v.lock /\ v.txn = NoTxn /\ v.rows = history
    BY <1>2, <1>7 DEF Told, Locking
  <2>2. PICK pending \in Pending(p, history) : NextOrUnlock(p, pending)
    BY <1>7, <2>1
  <2>3. Plans(p, pending, history)
    BY <1>7, <2>1, <2>2, PendingPlans
  <2>4. QED  BY <1>1, <2>1, <2>2, <2>3, NextOrUnlockStep
<1>8. CASE c.at = "commit" /\ v.answer = "ok" /\ NextOrUnlock(p, Tail(c.todo))
  <2>1. v.lock /\ v.txn = NoTxn
    BY <1>2, <1>8 DEF Told, Locking, Work
  <2>2. Plans(p, Tail(c.todo), history)
    <3>1. /\ history \subseteq Local[p] /\ c.todo \in Seq(Local[p]) /\ c.todo # <<>>
          /\ Sorted(c.todo) /\ c.todo[1] \in history
          /\ ToSet(c.todo) = (Local[p] \ history) \cup {c.todo[1]}
      BY <1>2, <1>8 DEF Planned, Work
    <3>2. QED  BY <3>1, RestPlans
  <2>3. QED  BY <1>1, <1>8, <2>1, <2>2, NextOrUnlockStep
<1>9. CASE c.at \in {"begin", "sql", "record", "commit"} /\ Send(p, "rollback", <<>>, TRUE)
  <2>1. Ready(p, "rollback", <<>>, TRUE, v, history)
    BY <1>2, <1>9 DEF Ready, Locking, Work
  <2>2. <<>> \in Seq(Migration) /\ "rollback" \in Statements /\ TRUE \in BOOLEAN
    BY DEF Statements, Locking
  <2>3. QED  BY <1>1, <1>9, <2>1, <2>2, SendStep
<1>10. CASE c.at = "rollback" /\ Failed(p)
  BY <1>1, <1>2, <1>10, FailedStep DEF Told, Locking
<1>11. CASE /\ c.at = "unlock" /\ v.answer = "ok" /\ ~ c.failed
            /\ Send(p, "prepare", c.todo, FALSE)
  <2>1. Ready(p, "prepare", c.todo, FALSE, v, history)
    BY <1>2, <1>11 DEF Ready, Told, Planned, Locking, Work
  <2>2. QED  BY <1>1, <1>3, <1>11, <2>1, SendStep DEF Statements
<1>12. CASE End(p, Down)
  BY <1>1, <1>12, DownFacts, EndStep
<1>13. CASE c.at = "prepare" /\ End(p, [Down EXCEPT !.at = "running"])
  BY <1>1, <1>13, DownFacts, EndStep
<1>14. QED
  BY <1>4, <1>5, <1>6, <1>7, <1>8, <1>9, <1>10, <1>11, <1>12, <1>13 DEF Hear, Continue, Granted

LEMMA RetryLockStep ==
    ASSUME IInv, NEW p \in Process, RetryLock(p)
    PROVE  IInv'
<1> DEFINE v == session[client[p].session]
<1>1. /\ client[p].session # NoSession /\ client[p].at = "lock" /\ v.answer = "refused"
      /\ UNCHANGED <<expired, history, schema>>
  BY DEF RetryLock, Refused, Heard, database
<1>2. Told(client[p], v, v.answer, history)
  BY <1>1, HeardFacts DEF Talk
<1>3. CASE End(p, Down)
  BY <1>1, <1>3, DownFacts, EndStep
<1>4. CASE Send(p, "lock", <<>>, FALSE)
  <2>1. Ready(p, "lock", <<>>, FALSE, v, history)
    BY <1>1, <1>2 DEF Ready, Told, Locking, Work
  <2>2. <<>> \in Seq(Migration) /\ "lock" \in Statements /\ FALSE \in BOOLEAN
    BY DEF Statements
  <2>3. QED  BY <1>1, <1>4, <2>1, <2>2, SendStep
<1>5. QED  BY <1>3, <1>4 DEF RetryLock

LEMMA ConnectStep ==
    ASSUME IInv, NEW p \in Process, Connect(p)
    PROVE  IInv'
<1>1. PICK s \in Session :
        /\ session[s].state = "free"
        /\ client' = [client EXCEPT ![p].at = "lock", ![p].session = s]
        /\ session' = [session EXCEPT ![s] = [Free EXCEPT !.state = "live", !.asked = "lock"]]
  BY DEF Connect
<1> DEFINE c == [client[p] EXCEPT !.at = "lock", !.session = s]
           v == [Free EXCEPT !.state = "live", !.asked = "lock"]
<1>2. client[p].at = "connecting" /\ UNCHANGED <<expired, history, schema>>
  BY DEF Connect, database
<1>3. client[p] \in ClientType /\ client[p].session = NoSession
  BY <1>2 DEF IInv, TypeInv, Owned, Idle
<1>4. client' = [client EXCEPT ![p] = c] /\ session' = [session EXCEPT ![s] = v]
  BY <1>1 DEF IInv, TypeInv
<1>5. c \in ClientType /\ c.at = "lock" /\ c.session = s
  BY <1>3 DEF ClientType, Statements
<1>6. /\ v \in SessionType /\ v.state = "live" /\ v.asked = "lock" /\ v.answer = "none"
      /\ ~ v.lock /\ v.txn = NoTxn
  BY FreeFacts DEF Free, SessionType, Statements
<1> HIDE DEF c, v
<1>7. Backend(v, history)
  BY <1>6 DEF Backend, Locking, Work
<1>8. Talk(c, v, history) /\ Planned(p, c, v, history)
  BY <1>5, <1>6 DEF Talk, Planned, Locking, Work
<1>9. \A q \in Process : q # p => client[q].session # s
  BY <1>1 DEF IInv, TalkInv, Talk
<1>10. /\ c.session # NoSession /\ c.at \notin Idle
       /\ v.state = "live" <=> c.session = s
  BY <1>5, <1>6, Names DEF Idle
<1>11. expired' \in [Process -> BOOLEAN]
  BY <1>2 DEF IInv, TypeInv
<1>12. c.at # "running"
  BY <1>5
<1>13. QED
  BY <1>2, <1>3, <1>4, <1>5, <1>6, <1>7, <1>8, <1>9, <1>10, <1>11, <1>12, ClientStep

LEMMA TerminateStep ==
    ASSUME IInv, NEW p \in Process, Terminate(p)
    PROVE  IInv'
<1> DEFINE s == client[p].session
<1>1. /\ client[p].session # NoSession /\ UNCHANGED <<expired, history, schema>>
      /\ client' = [client EXCEPT ![p] = Down] /\ session' = [session EXCEPT ![s] = Free]
  BY DEF Terminate, database
<1>2. s \in Session /\ \A q \in Process : q # p => client[q].session # s
  BY <1>1, HeardFacts
<1>3. client[p].session = s
  OBVIOUS
<1> HIDE DEF s
<1>4. /\ Free \in SessionType /\ Backend(Free, history) /\ Free.state # "live" /\ ~ Free.lock
      /\ Down \in ClientType /\ Down.session = NoSession /\ Down.at = "down"
  BY FreeFacts, DownFacts DEF Free
<1>5. Down.at \in Idle /\ Down.session # s
  BY <1>2, <1>4, Names DEF Idle
<1>6. expired' \in [Process -> BOOLEAN]
  BY <1>1 DEF IInv, TypeInv
<1>7. /\ Free.state = "live" <=> Down.session = s
      /\ Down.session = s => Talk(Down, Free, history) /\ Planned(p, Down, Free, history)
      /\ Down.session = NoSession <=> Down.at \in Idle
      /\ Free.lock => session[s].lock
      /\ Down.at = "running" => Local[p] \subseteq history
  BY <1>4, <1>5
<1>8. client[p].session \in {s, NoSession} /\ Down.session \in {s, NoSession}
  BY <1>3, <1>4
<1>9. QED  BY <1>1, <1>2, <1>4, <1>6, <1>7, <1>8, ClientStep

\* The steps of a client that has no backend.
LEMMA IdleSteps ==
    ASSUME IInv, NEW p \in Process, Start(p) \/ ConnectFails(p) \/ Exit(p)
    PROVE  IInv'
<1>1. client[p] \in ClientType /\ expired \in [Process -> BOOLEAN]
  BY DEF IInv, TypeInv
<1>2. client[p].session = NoSession
  BY DEF Start, ConnectFails, Exit, IInv, Owned, Idle
<1>3. Down \in ClientType /\ Down.session = NoSession /\ Down.at \in Idle \ {"running"}
  BY DownFacts DEF Idle
<1>4. CASE Start(p)
  <2> DEFINE c == [client[p] EXCEPT !.at = "connecting"]
  <2>1. client' = [client EXCEPT ![p] = c]
    BY <1>4 DEF Start, IInv, TypeInv
  <2>2. c \in ClientType /\ c.session = NoSession /\ c.at \in Idle \ {"running"}
    BY <1>1, <1>2 DEF ClientType, Idle
  <2>3. expired' \in [Process -> BOOLEAN] /\ UNCHANGED <<session, history, schema>>
    BY <1>1, <1>4 DEF Start, database
  <2> HIDE DEF c
  <2>4. QED  BY <1>2, <2>1, <2>2, <2>3, IdleStep
<1>5. CASE ConnectFails(p) \/ Exit(p)
  <2>1. client' = [client EXCEPT ![p] = Down] /\ UNCHANGED <<expired, session, history, schema>>
    BY <1>5 DEF ConnectFails, Exit, database
  <2>2. QED  BY <1>1, <1>2, <1>3, <2>1, IdleStep
<1>6. QED  BY <1>4, <1>5

\* Nothing moves but the time.
LEMMA TimeStep ==
    ASSUME IInv, expired' \in [Process -> BOOLEAN], UNCHANGED <<client, session, history, schema>>
    PROVE  IInv'
<1>1. TypeInv'
  BY DEF IInv, TypeInv
<1>2. BackendInv' /\ Mutex' /\ Owned'
  BY DEF IInv, BackendInv, Mutex, Owned
<1>3. TalkInv' /\ HistoryInv' /\ RunsOnItsSchema'
  BY DEF IInv, TalkInv, HistoryInv, RunsOnItsSchema
<1>4. QED  BY <1>1, <1>2, <1>3 DEF IInv

LEMMA StepInvariant == IInv /\ [Next]_vars => IInv'
<1> SUFFICES ASSUME IInv, [Next]_vars PROVE IInv'
  OBVIOUS
<1>1. expired \in [Process -> BOOLEAN]
  BY DEF IInv, TypeInv
<1>2. CASE UNCHANGED vars
  BY <1>1, <1>2, TimeStep DEF vars
<1>3. ASSUME NEW p \in Process, Start(p) \/ ConnectFails(p) \/ Exit(p) PROVE IInv'
  BY <1>3, IdleSteps
<1>4. ASSUME NEW p \in Process, DeadlinePasses(p) PROVE IInv'
  BY <1>1, <1>4, TimeStep DEF DeadlinePasses, database
<1>5. ASSUME NEW p \in Process, Connect(p) PROVE IInv'
  BY <1>5, ConnectStep
<1>6. ASSUME NEW p \in Process, Hear(p) PROVE IInv'
  BY <1>6, HearStep
<1>7. ASSUME NEW p \in Process, RetryLock(p) PROVE IInv'
  BY <1>7, RetryLockStep
<1>8. ASSUME NEW p \in Process, Break(p) PROVE IInv'
  <2>1. client[p].session # NoSession /\ End(p, Down) /\ UNCHANGED <<expired, history, schema>>
    BY <1>8 DEF Break, database
  <2>2. QED  BY <2>1, DownFacts, EndStep
<1>9. ASSUME NEW p \in Process, Terminate(p) PROVE IInv'
  BY <1>9, TerminateStep
<1>10. ASSUME NEW s \in Session, Execute(s) PROVE IInv'
  <2>1. UNCHANGED <<client, expired>> /\ (Serve(s) \/ Refuse(s))
    BY <1>10 DEF Execute
  <2>2. CASE TryLock(s)
    BY <2>1, <2>2, TryLockStep
  <2>3. CASE Unlock(s)
    BY <2>1, <2>3, UnlockStep
  <2>4. CASE ReadHistory(s)
    BY <2>1, <2>4, ReadHistoryStep
  <2>5. CASE Begin(s)
    BY <2>1, <2>5, BeginStep
  <2>6. CASE RunSql(s)
    BY <2>1, <2>6, RunSqlStep
  <2>7. CASE Record(s)
    BY <2>1, <2>7, RecordStep
  <2>8. CASE Commit(s)
    BY <2>1, <2>8, CommitStep
  <2>9. CASE Rollback(s)
    BY <2>1, <2>9, RollbackStep
  <2>10. CASE Succeed(s)
    BY <2>1, <2>10, SucceedStep
  <2>11. CASE Refuse(s)
    BY <2>1, <2>11, RefuseStep
  <2>12. QED
    BY <2>1, <2>2, <2>3, <2>4, <2>5, <2>6, <2>7, <2>8, <2>9, <2>10, <2>11 DEF Serve
<1>11. ASSUME NEW s \in Session, Reap(s) PROVE IInv'
  BY <1>11, ReapStep
<1>12. QED
  BY <1>2, <1>3, <1>4, <1>5, <1>6, <1>7, <1>8, <1>9, <1>10, <1>11 DEF Next

-----------------------------------------------------------------------------
(* The theorems. *)

\* The invariant holds of every execution: only the backend that has the migration
\* lock can change the schema, and what it still may do fits.
THEOREM Invariance == Spec => []IInv
<1> QED  BY InitInvariant, StepInvariant, PTL DEF Spec

\* Cardinality({x \in S : P(x)}) <= 1 when P holds of one x at most.
LEMMA AtMostOne ==
    ASSUME NEW S, \A x, y \in S : x = y
    PROVE  Cardinality(S) <= 1
<1>1. CASE S = {}
  BY <1>1, FS_EmptySet
<1>2. CASE S # {}
  <2>1. PICK x \in S : S = {x}
    BY <1>2
  <2>2. QED  BY <2>1, FS_Singleton
<1>3. QED  BY <1>1, <1>2

\* Types; a backend is connected to one client at most, one backend at most holds
\* the lock, and only that one has a transaction.
THEOREM TypeCorrect == Spec => []TypeOK
<1>1. IInv => TypeOK
  <2> SUFFICES ASSUME IInv PROVE TypeOK
    OBVIOUS
  <2>1. ASSUME NEW p \in Process
        PROVE  /\ client[p].at \in {"down", "connecting", "running", "lock", "prepare", "unlock",
                                   "init", "read", "begin", "sql", "record", "commit", "rollback"}
               /\ client[p].todo \in Seq(Migration) /\ client[p].failed \in BOOLEAN
               /\ client[p].session # NoSession <=> client[p].at \notin {"down", "connecting", "running"}
    <3>1. client[p] \in ClientType
      BY DEF IInv, TypeInv
    <3>2. QED  BY <3>1 DEF IInv, Owned, ClientType, Idle, Statements, Locking, Work
  <2>2. ASSUME NEW s \in Session
        PROVE  /\ session[s].state = "live" <=> \E p \in Process : client[p].session = s
               /\ Cardinality({p \in Process : client[p].session = s}) <= 1
               /\ session[s].txn.status # "none" => session[s].lock
    <3>1. session[s].state = "live" <=> \E p \in Process : client[p].session = s
      BY DEF IInv, Owned, TalkInv, Talk
    <3>2. \A p, q \in {r \in Process : client[r].session = s} : p = q
      BY Names DEF IInv, Owned
    <3>3. session[s].txn.status # "none" => session[s].lock
      BY DEF IInv, BackendInv, Backend, NoTxn
    <3>4. QED  BY <3>1, <3>2, <3>3, AtMostOne
  <2>3. \A s, t \in {r \in Session : session[r].lock} : s = t
    BY DEF IInv, Mutex
  <2>4. Cardinality({s \in Session : session[s].lock}) <= 1
    BY <2>3, AtMostOne
  <2>5. QED  BY <2>1, <2>2, <2>4 DEF IInv, TypeInv, TypeOK
<1>2. QED  BY <1>1, Invariance, PTL

\* What took effect is the history, in order and once, and a process that migrates
\* has still to apply what its build has over the history as it is.
THEOREM HistoryCorrect == Spec => []SchemaIsHistory
<1>1. IInv => SchemaIsHistory
  <2> SUFFICES ASSUME IInv PROVE SchemaIsHistory
    OBVIOUS
  <2>1. /\ ToSet(schema) = history
        /\ \A i, j \in DOMAIN schema : i < j => schema[i].version < schema[j].version
    BY DEF IInv, HistoryInv, Sorted
  <2>2. ASSUME NEW p \in Process, client[p].at \in {"begin", "sql", "record", "commit"}
        PROVE  history \subseteq Local[p] /\ ToSet(StillToApply(p)) = Local[p] \ history
    <3> DEFINE c == client[p]
               v == session[c.session]
    <3>1. c.session # NoSession
      BY <2>2 DEF IInv, Owned, Idle
    <3>2. Planned(p, c, v, history)
      BY <3>1, HeardFacts
    <3>3. CASE c.at = "commit" /\ v.answer = "ok"
      <4>1. /\ history \subseteq Local[p] /\ c.todo \in Seq(Local[p]) /\ c.todo # <<>>
            /\ Sorted(c.todo) /\ c.todo[1] \in history
            /\ ToSet(c.todo) = (Local[p] \ history) \cup {c.todo[1]}
        BY <3>2, <3>3 DEF Planned, Work
      <4>2. Plans(p, Tail(c.todo), history)
        BY <4>1, RestPlans
      <4>3. QED  BY <3>3, <4>1, <4>2 DEF Plans, StillToApply
    <3>4. CASE ~ (c.at = "commit" /\ v.answer = "ok")
      BY <2>2, <3>2, <3>4 DEF Planned, Work, StillToApply
    <3>5. QED  BY <3>3, <3>4
  <2>3. QED  BY <2>1, <2>2 DEF SchemaIsHistory
<1>2. QED  BY <1>1, Invariance, PTL

\* A process runs only on a schema that has all the migrations of its build.
THEOREM SchemaCorrect == Spec => []RunsOnItsSchema
<1>1. IInv => RunsOnItsSchema
  BY DEF IInv
<1>2. QED  BY <1>1, Invariance, PTL

===============================================================================
