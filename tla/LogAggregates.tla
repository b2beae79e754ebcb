----------------------------- MODULE LogAggregates -----------------------------
(***************************************************************************)
(* The minute counts kept beside the log table, and the two ways to answer *)
(* GET /logs/aggregate: from the counts (the rollup) or from the log rows. *)
(*                                                                         *)
(* src/modules/ingestion/ingestion-repository.ts writes both with one      *)
(* statement, which upserts its (minute, service, level) groups in the     *)
(* order of their sort; PostgreSQL keeps each upserted row locked until    *)
(* the statement commits.  Up to maxConcurrentWrites statements run side   *)
(* by side.  src/modules/aggregation/log-aggregation-repository.ts reads;  *)
(* retention removes log rows, never counts.                               *)
(*                                                                         *)
(* Time is counted in ticks, MinuteTicks to a minute.  A log record is     *)
(* [id, sentAt, storedAt, service, level, matches]: `sentAt' is the        *)
(* timestamp as the application reads it (Date.parse cuts it at            *)
(* milliseconds), `storedAt' as the timestamptz column keeps it (rounded   *)
(* to microseconds), and `matches' tells whether it satisfies the q and    *)
(* attribute filters of the queries that have some.                        *)
(***************************************************************************)
EXTENDS Naturals, Sequences, FiniteSets, SequencesExt

CONSTANTS
    Statement,       \* the statements sent by insert
    Carries,         \* Carries[s]: the log records of statement s
    Service,
    Rank,            \* the place of a service or level name in localeCompare
    MinuteTicks,
    LastTick,        \* no timestamp, bound or cutoff lies beyond it
    NoFilter,        \* a filter or grouping that is not given
    Query            \* the aggregation queries

ASSUME CarriesAssumption ==
    /\ \A s \in Statement : IsFiniteSet(Carries[s]) /\ Carries[s] # {}
    /\ \A s, t \in Statement : s # t => Carries[s] \cap Carries[t] = {}

ASSUME RecordsAssumption ==
    \A s \in Statement : \A r \in Carries[s] :
        r.sentAt \in Nat /\ r.storedAt \in Nat /\ Rank[r.service] \in Nat /\ Rank[r.level] \in Nat

ASSUME TicksAssumption == MinuteTicks \in Nat \ {0} /\ LastTick \in Nat

VARIABLES
    stage,           \* stage[s]: "new", "running", "committed" or "aborted"
    plan,            \* plan[s]: the groups that s has still to upsert, in order
    written,         \* written[s]: the counts it wrote and keeps locked
    logs,            \* the rows of logstream.logs
    counts,          \* logstream.log_minute_aggregates, as committed
    cutoff           \* the latest cutoff that retention worked with

vars == <<stage, plan, written, logs, counts, cutoff>>

-------------------------------------------------------------------------------
(* Grouping the records of a statement. *)

Level == {"debug", "info", "warn", "error"}

MinuteOf(t) == (t \div MinuteTicks) * MinuteTicks

GroupOf(r) == [minute |-> MinuteOf(r.sentAt), service |-> r.service, level |-> r.level]

GroupsOf(s) == {GroupOf(r) : r \in Carries[s]}

(* Mutant: the first record of a group is not counted. *)
GroupCount_FromZero(s, g) == Cardinality({r \in Carries[s] : GroupOf(r) = g}) - 1

GroupCount(s, g) == Cardinality({r \in Carries[s] : GroupOf(r) = g})

(* The comparison of the sort.  Names that localeCompare does not tell     *)
(* apart, such as two spellings of one letter, have one rank: their groups *)
(* stay in the order of the batch.                                         *)
Before(g, h) ==
    \/ g.minute < h.minute
    \/ g.minute = h.minute /\ Rank[g.service] < Rank[h.service]
    \/ /\ g.minute = h.minute
       /\ Rank[g.service] = Rank[h.service]
       /\ Rank[g.level] < Rank[h.level]

(* Mutant: the groups keep the order in which the records bring them up. *)
SortedGroups_Unsorted(s) == SetToSeqs(GroupsOf(s))

SortedGroups(s) ==
    {q \in SetToSeqs(GroupsOf(s)) : \A i, j \in DOMAIN q : i < j => ~ Before(q[j], q[i])}

-------------------------------------------------------------------------------

NoCounts == [g \in {} |-> 0]

(* Counts with that of g set to n; counts replaced where a statement wrote. *)
Raised(f, g, n) == [h \in DOMAIN f \cup {g} |-> IF h = g THEN n ELSE f[h]]
Replaced(f, new) == [h \in DOMAIN f \cup DOMAIN new |-> IF h \in DOMAIN new THEN new[h] ELSE f[h]]

Init ==
    /\ stage = [s \in Statement |-> "new"]
    /\ plan = [s \in Statement |-> <<>>]
    /\ written = [s \in Statement |-> NoCounts]
    /\ logs = {}
    /\ counts = NoCounts
    /\ cutoff = 0

Begin(s) ==
    /\ stage[s] = "new"
    /\ stage' = [stage EXCEPT ![s] = "running"]
    /\ \E q \in SortedGroups(s) : plan' = [plan EXCEPT ![s] = q]
    /\ UNCHANGED <<written, logs, counts, cutoff>>

(* Mutant: statements do not wait for the row of a group. *)
Holds_Never(s, g) == FALSE

(* s has written the row of g in a transaction that is still open. *)
Holds(s, g) == g \in DOMAIN written[s]

WaitsFor(s, t) == s # t /\ plan[s] # <<>> /\ Holds(t, Head(plan[s]))

(* ON CONFLICT DO UPDATE: with the row locked, its latest committed count  *)
(* is raised by the count of the batch.                                    *)
CountOf(g) == IF g \in DOMAIN counts THEN counts[g] ELSE 0

Upsert(s) ==
    /\ plan[s] # <<>>
    /\ \A t \in Statement : ~ WaitsFor(s, t)
    /\ LET g == Head(plan[s]) IN
         written' = [written EXCEPT ![s] = Raised(@, g, CountOf(g) + GroupCount(s, g))]
    /\ plan' = [plan EXCEPT ![s] = Tail(@)]
    /\ UNCHANGED <<stage, logs, counts, cutoff>>

Commit(s) ==
    /\ stage[s] = "running"
    /\ plan[s] = <<>>
    /\ stage' = [stage EXCEPT ![s] = "committed"]
    /\ written' = [written EXCEPT ![s] = NoCounts]
    /\ logs' = logs \cup Carries[s]
    /\ counts' = Replaced(counts, written[s])
    /\ UNCHANGED <<plan, cutoff>>

(* An error, a lost connection, or the deadlock detector. *)
Abort(s) ==
    /\ stage[s] = "running"
    /\ stage' = [stage EXCEPT ![s] = "aborted"]
    /\ plan' = [plan EXCEPT ![s] = <<>>]
    /\ written' = [written EXCEPT ![s] = NoCounts]
    /\ UNCHANGED <<logs, counts, cutoff>>

(* Drops and bounded deletes: some of the rows before the cutoff go. *)
Expire(c) ==
    /\ c >= cutoff
    /\ cutoff' = c
    /\ \E gone \in SUBSET {r \in logs : r.storedAt < c} : logs' = logs \ gone
    /\ UNCHANGED <<stage, plan, written, counts>>

Next ==
    \/ \E s \in Statement : Begin(s) \/ Upsert(s) \/ Commit(s) \/ Abort(s)
    \/ \E c \in 0..LastTick : Expire(c)

Spec == Init /\ [][Next]_vars

-------------------------------------------------------------------------------
(* Aggregation queries.  An answer maps a bucket start and a group value   *)
(* to a count; empty buckets are not in its domain.                        *)

(* `hasText' stands for the filters q and attr.*, which the counts cannot  *)
(* tell anything about; `bucket' is in minutes.                            *)
ASSUME QueryAssumption ==
    Query \subseteq
        {q \in [since : 0..LastTick, until : 0..LastTick, bucket : Nat \ {0}, service : Service \cup {NoFilter},
                level : Level \cup {NoFilter}, hasText : BOOLEAN, groupBy : {NoFilter, "service", "level"}] :
           q.since <= q.until}

(* Mutant: a message filter does not keep a query off the counts. *)
CanUseRollup_Always(q) == TRUE

CanUseRollup(q) == ~ q.hasText

(* The clauses that both ways share, on a row of either table. *)
Selects(q, t, row) ==
    /\ q.since <= t /\ t < q.until
    /\ q.service \in {NoFilter, row.service}
    /\ q.level \in {NoFilter, row.level}

(* date_bin with the epoch as its origin, and the grouping expression. *)
Width(q) == q.bucket * MinuteTicks

GroupValue(q, row) ==
    CASE q.groupBy = "service" -> row.service
      [] q.groupBy = "level" -> row.level
      [] OTHER -> NoFilter

KeyOf(q, t, row) == <<(t \div Width(q)) * Width(q), GroupValue(q, row)>>

RollupAnswer(q) ==
    LET selected == {g \in DOMAIN counts : Selects(q, g.minute, g)}
        Key(g) == KeyOf(q, g.minute, g)
    IN  [k \in {Key(g) : g \in selected} |->
           SumFunctionOnSet(counts, {g \in selected : Key(g) = k})]

RawAnswer(q) ==
    LET selected == {r \in logs : Selects(q, r.storedAt, r) /\ (q.hasText => r.matches)}
        Key(r) == KeyOf(q, r.storedAt, r)
    IN  [k \in {Key(r) : r \in selected} |-> Cardinality({r \in selected : Key(r) = k})]

Answer(q) == IF CanUseRollup(q) THEN RollupAnswer(q) ELSE RawAnswer(q)

-------------------------------------------------------------------------------
(* Properties. *)

Group == UNION {GroupsOf(s) : s \in Statement}

(* Types; a count is positive, as mapCount demands of every count it reads. *)
TypeOK ==
    /\ stage \in [Statement -> {"new", "running", "committed", "aborted"}]
    /\ \A s \in Statement : Range(plan[s]) \cup DOMAIN written[s] \subseteq GroupsOf(s)
    /\ logs \subseteq UNION {Carries[s] : s \in Statement}
    /\ DOMAIN counts \subseteq Group
    /\ \A g \in DOMAIN counts : counts[g] \in Nat \ {0}
    /\ cutoff \in 0..LastTick

(* The counts are those of the statements that committed, no more and no   *)
(* less: concurrent upserts of one group lose no increment, and a          *)
(* statement that aborts after some of its upserts leaves none behind.     *)
CountsExact ==
    LET committed == UNION {Carries[s] : s \in {t \in Statement : stage[t] = "committed"}}
    IN  counts = [g \in {GroupOf(r) : r \in committed} |->
                    Cardinality({r \in committed : GroupOf(r) = g})]

(* Statements wait for each other in a circle only over groups whose names *)
(* localeCompare does not tell apart; the sort rules out every other       *)
(* deadlock between concurrent batches.                                    *)
DeadlockNeedsTie ==
    \A S \in (SUBSET Statement) \ {{}} :
        (\A s \in S : \E t \in S : WaitsFor(s, t)) =>
            \E s, t \in S :
                LET g == Head(plan[s]) h == Head(plan[t]) IN
                g # h /\ ~ Before(g, h) /\ ~ Before(h, g)

(* What GET /logs/aggregate promises: how many stored log rows satisfy the *)
(* filters, for each half-open bucket and each group that has some.        *)
Promised(q) ==
    LET Counted(start, value) ==
            Cardinality({r \in logs :
                /\ Selects(q, r.storedAt, r)
                /\ q.hasText => r.matches
                /\ start <= r.storedAt /\ r.storedAt < start + Width(q)
                /\ GroupValue(q, r) = value})
        starts == {start \in 0..LastTick : start % Width(q) = 0}
        keys == {k \in starts \X {GroupValue(q, r) : r \in logs} : Counted(k[1], k[2]) > 0}
    IN  [k \in keys |-> Counted(k[1], k[2])]

OnMinutes(q) == q.since % MinuteTicks = 0 /\ q.until % MinuteTicks = 0

(* Over whole minutes that retention has not reached, every answer is the  *)
(* promised one at every moment: while batches are being written, and by   *)
(* whichever way it is computed.                                           *)
AnswersExact == \A q \in Query : OnMinutes(q) /\ q.since >= cutoff => Answer(q) = Promised(q)

(* README: `since' is an inclusive and `until' an exclusive bound of       *)
(* GET /logs/aggregate, also where they lie within a minute.               *)
BoundsHonoured == \A q \in Query : q.since >= cutoff => Answer(q) = Promised(q)

(* README: aggregation uses the same filters as the page of logs, so the   *)
(* two speak of the same rows, also after retention has removed some.      *)
ExpiredNotCounted == \A q \in Query : OnMinutes(q) => Answer(q) = Promised(q)

(* Architecture proposal: a bucket holds the events from its start to just *)
(* before its end, as stored.                                              *)
BucketsHalfOpen ==
    \A q \in Query :
        OnMinutes(q) /\ q.since >= cutoff =>
            \A k \in DOMAIN Answer(q) :
                \E r \in logs : k[1] <= r.storedAt /\ r.storedAt < k[1] + Width(q)
===============================================================================
