---------------------------- MODULE MigrationRunner ----------------------------
(***************************************************************************)
(* Startup migration, src/database/migrations/migration-runner.ts: every   *)
(* starting process migrates the database over a connection of its own     *)
(* before its runtime starts (migrateBeforeRuntime in src/server.ts).      *)
(* Processes of different builds start, fail and restart at will; a        *)
(* connection breaks or a process dies while its backend may go on with    *)
(* the statement it was sent.                                              *)
(*                                                                         *)
(* A client sends one statement at a time.  The two-step initialization of *)
(* the history table and the preparation of the partitions (module         *)
(* PartitionStore) are one statement each.                                 *)
(***************************************************************************)
EXTENDS Naturals, Sequences, FiniteSets, SequencesExt

CONSTANTS
    Process,
    Session,          \* backends of PostgreSQL
    Local,            \* Local[p]: the migration files of a process's build
    NoSession,
    NoMigration

(* A migration is a record of its version and its contents, which stand    *)
(* for its filename, its checksum and its SQL; a build has one per version.*)
ASSUME LocalAssumption ==
    \A p \in Process :
        /\ IsFiniteSet(Local[p])
        /\ \A m \in Local[p] : m.version \in Nat
        /\ \A m, n \in Local[p] : m.version = n.version => m = n

(* Builds grow at the end: one that has a migration of another one has all *)
(* the versions below it that the other one has.                           *)
ASSUME GrowthAssumption ==
    \A p, q \in Process : \A m \in Local[p] \cap Local[q], n \in Local[q] :
        n.version < m.version => \E k \in Local[p] : k.version = n.version

ASSUME NamesAssumption ==
    NoSession \notin Session /\ \A p \in Process : NoMigration \notin Local[p]

VARIABLES
    client,           \* client[p]: what a process awaits, its session and its plan
    expired,          \* expired[p]: the deadline of this start has passed
    session,          \* session[s]: a backend
    history,          \* the rows of schema_migrations
    schema            \* the migrations in force, in the order of their commits

vars == <<client, expired, session, history, schema>>
database == <<history, schema>>

Migration == UNION {Local[p] : p \in Process}

Down == [at |-> "down", session |-> NoSession, todo |-> <<>>, failed |-> FALSE]

NoTxn == [status |-> "none", ran |-> NoMigration, recorded |-> NoMigration]

Free == [state |-> "free", asked |-> "none", about |-> NoMigration, answer |-> "none",
         rows |-> {}, lock |-> FALSE, txn |-> NoTxn]

Init ==
    /\ client = [p \in Process |-> Down]
    /\ expired = [p \in Process |-> FALSE]
    /\ session = [s \in Session |-> Free]
    /\ history = {}
    /\ schema = <<>>

-------------------------------------------------------------------------------
(* Backends.                                                               *)

Locked == \E s \in Session : session[s].lock

(* The statement of a backend is answered; a client that has gone does not *)
(* hear it.                                                                *)
Reply(s, answer, change) ==
    session' = [session EXCEPT ![s] = [change EXCEPT !.asked = "none", !.about = NoMigration,
                                         !.answer = IF @ = "none" /\ change.state = "live" THEN answer ELSE @]]

Asked(s, statement) == session[s].asked = statement

TryLock(s) ==
    /\ Asked(s, "lock")
    /\ IF Locked THEN Reply(s, "refused", session[s])
                 ELSE Reply(s, "ok", [session[s] EXCEPT !.lock = TRUE])
    /\ UNCHANGED database

Unlock(s) ==
    /\ Asked(s, "unlock")
    /\ IF session[s].lock THEN Reply(s, "ok", [session[s] EXCEPT !.lock = FALSE])
                          ELSE Reply(s, "refused", session[s])
    /\ UNCHANGED database

ReadHistory(s) ==
    /\ Asked(s, "read")
    /\ Reply(s, "ok", [session[s] EXCEPT !.rows = history])
    /\ UNCHANGED database

Begin(s) ==
    /\ Asked(s, "begin")
    /\ Reply(s, "ok", [session[s] EXCEPT !.txn = [NoTxn EXCEPT !.status = "open"]])
    /\ UNCHANGED database

RunSql(s) ==
    /\ Asked(s, "sql")
    /\ Reply(s, "ok", [session[s] EXCEPT !.txn.ran = session[s].about])
    /\ UNCHANGED database

(* The version is the primary key of the history. *)
Known(m) == \E row \in history : row.version = m.version

Record(s) ==
    /\ Asked(s, "record")
    /\ ~ Known(session[s].about)
    /\ Reply(s, "ok", [session[s] EXCEPT !.txn.recorded = session[s].about])
    /\ UNCHANGED database

Commit(s) ==
    /\ Asked(s, "commit")
    /\ Reply(s, "ok", [session[s] EXCEPT !.txn = NoTxn])
    /\ history' = history \cup ({session[s].txn.recorded} \ {NoMigration})
    /\ schema' = IF session[s].txn.ran = NoMigration THEN schema ELSE Append(schema, session[s].txn.ran)

Rollback(s) ==
    /\ Asked(s, "rollback")
    /\ Reply(s, "ok", [session[s] EXCEPT !.txn = NoTxn])
    /\ UNCHANGED database

(* The history table is made sure of; the partitions are prepared. *)
Succeed(s) ==
    /\ session[s].asked \in {"init", "prepare"}
    /\ Reply(s, "ok", session[s])
    /\ UNCHANGED database

(* Any statement but ROLLBACK may fail; its transaction can then only be   *)
(* rolled back.                                                            *)
Refuse(s) ==
    /\ session[s].asked \notin {"none", "rollback"}
    /\ Reply(s, "error", [session[s] EXCEPT !.txn =
                            IF @.status = "none" \/ Asked(s, "commit") THEN NoTxn
                            ELSE [NoTxn EXCEPT !.status = "aborted"]])
    /\ UNCHANGED database

(* What has no fault. *)
Serve(s) ==
    \/ TryLock(s) \/ Unlock(s) \/ ReadHistory(s) \/ Begin(s) \/ RunSql(s)
    \/ Record(s) \/ Commit(s) \/ Rollback(s) \/ Succeed(s)

Execute(s) ==
    /\ Serve(s) \/ Refuse(s)
    /\ UNCHANGED <<client, expired>>

(* A backend whose client has gone ends; what it had not committed and its *)
(* lock go with it.                                                        *)
Reap(s) ==
    /\ session[s].state = "orphan"
    /\ session' = [session EXCEPT ![s] = Free]
    /\ UNCHANGED <<client, expired, database>>

-------------------------------------------------------------------------------
(* Clients.                                                                *)

Start(p) ==
    /\ client[p].at = "down"
    /\ client' = [client EXCEPT ![p].at = "connecting"]
    /\ expired' = [expired EXCEPT ![p] = FALSE]
    /\ UNCHANGED <<session, database>>

(* startupTimeoutMs: connecting and waiting for the lock share a deadline.  *)
DeadlinePasses(p) ==
    /\ client[p].at \notin {"down", "running"}
    /\ ~ expired[p]
    /\ expired' = [expired EXCEPT ![p] = TRUE]
    /\ UNCHANGED <<client, session, database>>

Ask(p, s, statement, m) ==
    session' = [session EXCEPT ![s].asked = statement, ![s].about = m,
                               ![s].answer = "none", ![s].rows = {}]

Connect(p) ==
    /\ client[p].at = "connecting"
    /\ ~ expired[p]
    /\ \E s \in Session :
         /\ session[s].state = "free"
         /\ client' = [client EXCEPT ![p].at = "lock", ![p].session = s]
         /\ session' = [session EXCEPT ![s] =
                          [Free EXCEPT !.state = "live", !.asked = "lock"]]
    /\ UNCHANGED <<expired, database>>

(* An error that is not retried, or no time is left to retry. *)
ConnectFails(p) ==
    /\ client[p].at = "connecting"
    /\ client' = [client EXCEPT ![p] = Down]
    /\ UNCHANGED <<expired, session, database>>

(* Mutant: the connection is left open. *)
End_Leaks(p, next) ==
    /\ client' = [client EXCEPT ![p] = next]
    /\ session' = [session EXCEPT ![client[p].session].answer = "none"]

(* connection.end() *)
End(p, next) ==
    /\ client' = [client EXCEPT ![p] = next]
    /\ session' = [session EXCEPT ![client[p].session].state = "orphan",
                                  ![client[p].session].answer = "none"]

(* Mutant: filenames and checksums are not compared. *)
Mismatch_VersionsOnly(p, rows) ==
    \E row \in rows : \A m \in Local[p] : m.version # row.version

(* The first difference between the history and the build stops the start. *)
Mismatch(p, rows) == \E row \in rows : row \notin Local[p]

(* findPendingMigrations keeps the order of the plan, which is by version. *)
Pending(p, rows) ==
    {q \in SetToSeqs({m \in Local[p] : \A row \in rows : row.version # m.version}) :
        \A i, j \in DOMAIN q : i < j => q[i].version < q[j].version}

(* The statement that follows an answer, with what is left to apply.       *)
Send(p, statement, todo, failed) ==
    /\ client' = [client EXCEPT ![p].at = statement, ![p].todo = todo, ![p].failed = failed]
    /\ Ask(p, client[p].session, statement,
           IF statement \in {"sql", "record"} THEN todo[1] ELSE NoMigration)

NextOrUnlock(p, todo) ==
    IF todo = <<>> THEN Send(p, "unlock", todo, FALSE) ELSE Send(p, "begin", todo, FALSE)

Granted(answer) == answer = "ok"

(* Mutant: the history is not told. *)
AfterOk_Unrecorded ==
    [init |-> "read", begin |-> "sql", sql |-> "commit"]

(* runMigrations and applyMigration, as long as nothing fails.             *)
AfterOk == [init |-> "read", begin |-> "sql", sql |-> "record", record |-> "commit"]

Failed(p) == Send(p, "unlock", <<>>, TRUE)

Continue(p, answer) ==
    LET at == client[p].at
        todo == client[p].todo
        rows == session[client[p].session].rows
    IN  \/ at = "lock" /\ Granted(answer) /\ Send(p, "init", todo, FALSE)
        \/ at = "lock" /\ answer = "error" /\ End(p, Down)
        \/ at \in DOMAIN AfterOk /\ answer = "ok" /\ Send(p, AfterOk[at], todo, FALSE)
        \/ at = "read" /\ answer = "ok" /\ Mismatch(p, rows) /\ Failed(p)
        \/ /\ at = "read" /\ answer = "ok" /\ ~ Mismatch(p, rows)
           /\ \E pending \in Pending(p, rows) : NextOrUnlock(p, pending)
        \/ at \in {"init", "read"} /\ answer = "error" /\ Failed(p)
        \/ at = "commit" /\ answer = "ok" /\ NextOrUnlock(p, Tail(todo))
        \/ /\ at \in {"begin", "sql", "record", "commit"} /\ answer = "error"
           /\ Send(p, "rollback", <<>>, TRUE)
        \/ at = "rollback" /\ Failed(p)
        \/ /\ at = "unlock" /\ answer = "ok" /\ ~ client[p].failed
           /\ Send(p, "prepare", todo, FALSE)
        \/ at = "unlock" /\ (answer # "ok" \/ client[p].failed) /\ End(p, Down)
        \/ at = "prepare" /\ answer = "ok" /\ End(p, [Down EXCEPT !.at = "running"])
        \/ at = "prepare" /\ answer # "ok" /\ End(p, Down)

Heard(p) == client[p].session # NoSession /\ session[client[p].session].answer # "none"

Hear(p) ==
    /\ Heard(p)
    /\ Continue(p, session[client[p].session].answer)
    /\ UNCHANGED <<expired, database>>

Refused(p) ==
    /\ Heard(p) /\ client[p].at = "lock"
    /\ session[client[p].session].answer = "refused"

(* Mutant: the deadline is forgotten. *)
RetryLock_Forever(p) ==
    /\ Refused(p)
    /\ Send(p, "lock", <<>>, FALSE)
    /\ UNCHANGED <<expired, database>>

(* The lock is taken: acquireLock sleeps, looks at the deadline, and asks  *)
(* again or gives up.                                                      *)
RetryLock(p) ==
    /\ Refused(p)
    /\ IF expired[p] THEN End(p, Down) ELSE Send(p, "lock", <<>>, FALSE)
    /\ UNCHANGED <<expired, database>>

(* A process dies or loses its connection, which fails its start. *)
Break(p) ==
    /\ client[p].session # NoSession
    /\ End(p, Down)
    /\ UNCHANGED <<expired, database>>

(* PostgreSQL ends a backend; its client learns of it from its next        *)
(* statement at the latest.                                                *)
Terminate(p) ==
    /\ client[p].session # NoSession
    /\ client' = [client EXCEPT ![p] = Down]
    /\ session' = [session EXCEPT ![client[p].session] = Free]
    /\ UNCHANGED <<expired, database>>

(* The runtime ends. *)
Exit(p) ==
    /\ client[p].at = "running"
    /\ client' = [client EXCEPT ![p] = Down]
    /\ UNCHANGED <<expired, session, database>>

-------------------------------------------------------------------------------

Next ==
    \/ \E p \in Process :
         \/ Start(p) \/ DeadlinePasses(p) \/ Connect(p) \/ ConnectFails(p)
         \/ Hear(p) \/ RetryLock(p) \/ Break(p) \/ Terminate(p) \/ Exit(p)
    \/ \E s \in Session : Execute(s) \/ Reap(s)

Spec == Init /\ [][Next]_vars

(* Statements are answered, a gone client is noticed, time passes and the  *)
(* event loop runs: none of the faults is assumed to happen or to stop.    *)
Fairness ==
    /\ \A p \in Process :
         /\ WF_vars(DeadlinePasses(p))
         /\ WF_vars(Connect(p) \/ (expired[p] /\ ConnectFails(p)))
         /\ WF_vars(Hear(p)) /\ WF_vars(RetryLock(p))
    /\ \A s \in Session : WF_vars(Execute(s)) /\ WF_vars(Reap(s))

FairSpec == Spec /\ Fairness

-------------------------------------------------------------------------------
(* Properties.                                                             *)

(* Types; a backend serves the one client that is connected to it, and     *)
(* only one that holds the migration lock has a transaction open.          *)
TypeOK ==
    /\ \A p \in Process :
         /\ client[p].at \in {"down", "connecting", "running", "lock", "prepare", "unlock",
                             "init", "read", "begin", "sql", "record", "commit", "rollback"}
         /\ client[p].todo \in Seq(Migration) /\ client[p].failed \in BOOLEAN
         /\ client[p].session # NoSession <=> client[p].at \notin {"down", "connecting", "running"}
    /\ expired \in [Process -> BOOLEAN]
    /\ \A s \in Session :
         /\ session[s].state = "live" <=> \E p \in Process : client[p].session = s
         /\ Cardinality({p \in Process : client[p].session = s}) <= 1
         /\ session[s].txn.status # "none" => session[s].lock
    /\ Cardinality({s \in Session : session[s].lock}) <= 1
    /\ history \subseteq Migration
    /\ schema \in Seq(Migration)

StillToApply(p) ==
    IF client[p].at = "commit" /\ session[client[p].session].answer = "ok"
    THEN Tail(client[p].todo) ELSE client[p].todo

(* Each migration that took effect did so once, after those of a lower     *)
(* version, and is in the history, and nothing else is, whatever failed or *)
(* died in between.  What an applying process has still to apply is what   *)
(* its build has over the history as it is, not as it was read: no backend *)
(* of a dead process commits behind its back.                              *)
SchemaIsHistory ==
    /\ ToSet(schema) = history
    /\ \A i, j \in DOMAIN schema : i < j => schema[i].version < schema[j].version
    /\ \A p \in Process :
        client[p].at \in {"begin", "sql", "record", "commit"} =>
            /\ history \subseteq Local[p]
            /\ ToSet(StillToApply(p)) = Local[p] \ history

(* The runtime never meets a schema without its migrations: a build whose  *)
(* files were edited after they had been applied does not start, and one   *)
(* that is older than the database does not either, unless the newer build *)
(* migrates while it starts.                                               *)
RunsOnItsSchema == \A p \in Process : client[p].at = "running" => Local[p] \subseteq history

(* A start comes to an end, whoever holds the lock and however often.      *)
StartEnds ==
    \A p \in Process : client[p].at = "connecting" ~> client[p].at \in {"down", "running"}
================================================================================
