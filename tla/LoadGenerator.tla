---------------------------- MODULE LoadGenerator ----------------------------
(***************************************************************************)
(* tools/loadgen: one managed run of the load generator, from the first    *)
(* command to the exit of the process.                                     *)
(*                                                                         *)
(* runManagedLoadGenerator goes through its steps one after the other.     *)
(* While it measures, the workers that ingest, the open loop of            *)
(* AggregationScheduler, the freshness probe and the resource sampler run  *)
(* beside each other.  Whatever step fails, the compose project is taken   *)
(* down and a report is published.                                         *)
(*                                                                         *)
(* Batches of both phases are numbered through, those of the warm-up       *)
(* first.  Of a row only its batch matters.  The service, PostgreSQL and   *)
(* Docker may answer or not at any time; timers of the load generator do   *)
(* expire.                                                                 *)
(***************************************************************************)
EXTENDS AggregationScheduler, FiniteSets, Functions

CONSTANTS WarmupRows, MeasuredRows, BatchSize, Concurrency, RunKind, Undecided, Signals

ASSUME LoadAssumption ==
    /\ WarmupRows \in Nat /\ MeasuredRows \in Nat \ {0}
    /\ BatchSize \in Nat \ {0} /\ Concurrency \in Nat \ {0}
    /\ RunKind \in {"smoke", "baseline"}
    /\ Undecided \notin Nat

VARIABLES
    step,        \* where runManagedLoadGenerator is
    killed,      \* the child process of the step was sent a signal
    signals,     \* signals handled so far
    project,     \* containers, networks or volumes of the project exist
    requests,    \* requests[w]: the batch worker w has sent and what the
                 \* service made of it
    nextBatch,
    counters,    \* counters[phase]
    stored,      \* stored[b]: rows of batch b in PostgreSQL
    late,        \* batches given up that the service may yet store
    freshness,   \* the outcome of the probe, "none" or "polling"
    sampler,
    observed,    \* the rows that reconciliation counted
    failed,      \* primaryFailure is set
    cleanup,     \* what cleanupCompose found
    report       \* what was published, and the exit code

ingestion == <<requests, nextBatch, counters, stored, late>>
running   == <<freshness, sampler>>
ending    == <<observed, failed, cleanup, report>>
vars == <<schedulerVars, step, killed, signals, project, ingestion, running, ending>>

-----------------------------------------------------------------------------
Phases == {"warmup", "measured"}
TotalRows(phase) == IF phase = "warmup" THEN WarmupRows ELSE MeasuredRows
BatchCount(phase) == (TotalRows(phase) + BatchSize - 1) \div BatchSize
FirstBatch(phase) == IF phase = "warmup" THEN 1 ELSE BatchCount("warmup") + 1
LastBatch(phase) == FirstBatch(phase) + BatchCount(phase) - 1
Batches == 1 .. LastBatch("measured")
PhaseOf(b) == IF b <= LastBatch("warmup") THEN "warmup" ELSE "measured"

\* createWorkloadBatch: the last batch of a phase may be smaller.
RowsOf(b) ==
    LET first == (b - FirstBatch(PhaseOf(b))) * BatchSize
        left  == TotalRows(PhaseOf(b)) - first
    IN  IF left < BatchSize THEN left ELSE BatchSize

\* The rows of some batches.
RowsIn(batches) == SumFunctionOnSet([b \in Batches |-> RowsOf(b)], batches)

Workers == 1 .. Concurrency
Idle == [batch |-> 0, kept |-> Undecided]
Sent(b) == [batch |-> b, kept |-> Undecided]

NoCounters == [started |-> 0, completed |-> 0, attempted |-> 0, confirmed |-> 0,
               rejected |-> 0, indeterminate |-> 0]
NoCleanup == [attempted |-> FALSE, down |-> FALSE, listed |-> FALSE]
NoReport == [outcome |-> "none", verified |-> {}, exit |-> 1]

\* Steps that run commands, and the step after each step that succeeds.
CommandSteps == {"source", "up", "identify", "controls", "environment", "precount",
                 "count", "diagnostics", "down", "verify"}
After == [source |-> "port", port |-> "up", up |-> "health", health |-> "identify",
          identify |-> "controls", controls |-> "environment", environment |-> "precount",
          precount |-> "warmup", aggregationWarmup |-> "measure", sampling |-> "freshness",
          freshness |-> "count", count |-> "diagnostics", diagnostics |-> "assess"]

Init ==
    /\ aborted = FALSE /\ clock = 0 /\ scheduler = NotStarted
    /\ step = "source" /\ killed = FALSE /\ signals = {} /\ project = FALSE
    /\ requests = [w \in Workers |-> Idle] /\ nextBatch = 1
    /\ counters = [phase \in Phases |-> NoCounters]
    /\ stored = [b \in Batches |-> 0] /\ late = {}
    /\ freshness = "none" /\ sampler = "none"
    /\ observed = 0 /\ failed = FALSE /\ cleanup = NoCleanup /\ report = NoReport

-----------------------------------------------------------------------------
Proceed == step' = After[step] /\ UNCHANGED <<failed, aborted>>
Throw_Fault == step' = "publish" /\ failed' = TRUE /\ aborted' = TRUE
\* The catch of the run: every wait is aborted and cleanup begins.
Throw == step' = "down" /\ failed' = TRUE /\ aborted' = TRUE

\* SIGINT or SIGTERM: the listeners are for one signal of each kind, and
\* gone after cleanup.
Listening(s) == step \notin {"publish", "done", "killed"} /\ s \notin signals

Signal(s) ==
    /\ Listening(s)
    /\ signals' = signals \cup {s}
    /\ aborted' = TRUE
    /\ UNCHANGED <<clock, scheduler, step, killed, project, ingestion, running, ending>>

\* A signal nobody listens for is the end of the process and of its state.
Kill(s) ==
    /\ step \notin {"done", "killed"}
    /\ ~Listening(s)
    /\ step' = "killed"
    /\ killed' = FALSE /\ clock' = 0 /\ scheduler' = NotStarted
    /\ requests' = [w \in Workers |-> Idle] /\ nextBatch' = 1
    /\ counters' = [phase \in Phases |-> NoCounters]
    /\ freshness' = "none" /\ sampler' = "none" /\ observed' = 0
    /\ cleanup' = NoCleanup /\ report' = NoReport
    /\ UNCHANGED <<aborted, signals, project, stored, late, failed>>

-----------------------------------------------------------------------------
(***************************************************************************)
(* Commands: createCommandRunner                                           *)
(***************************************************************************)
\* The time limit has passed or there was too much output.
KillCommand ==
    /\ step \in CommandSteps
    /\ ~killed
    /\ killed' = TRUE
    /\ UNCHANGED <<schedulerVars, step, signals, project, ingestion, running, ending>>

\* A step ends when its command closed or, if it was killed and does not
\* close, after five seconds more; only one that was not killed succeeds.
CommandEnds(ok) ==
    /\ step \in CommandSteps
    /\ ok => ~killed
    /\ killed' = FALSE
    /\ CASE step = "down" ->
              /\ step' = "verify"
              /\ cleanup' = [cleanup EXCEPT !.attempted = TRUE, !.down = ok]
              /\ project' \in {FALSE, project}
              /\ UNCHANGED <<observed, failed, aborted>>
         [] step = "verify" ->
              /\ step' = "publish"
              /\ cleanup' = [cleanup EXCEPT !.listed = ok]
              /\ UNCHANGED <<observed, failed, aborted, project>>
         [] OTHER ->
              /\ IF ok THEN Proceed ELSE Throw
              /\ observed' = IF step = "count" THEN SumFunctionOnSet(stored, Batches)
                             ELSE observed
              /\ UNCHANGED <<cleanup, project>>
    /\ UNCHANGED <<clock, scheduler, signals, ingestion, running, report>>

\* The port of the service is taken, or it is free and compose starts.
CheckPort ==
    /\ step = "port"
    /\ (Proceed /\ project' = TRUE) \/ (Throw /\ UNCHANGED project)
    /\ UNCHANGED <<clock, scheduler, killed, signals, ingestion, running,
                   observed, cleanup, report>>

Healthy ==
    /\ step = "health"
    /\ Proceed
    /\ UNCHANGED <<clock, scheduler, killed, signals, project, ingestion, running,
                   observed, cleanup, report>>

\* waitForHealth gives up at its deadline or at a signal.
NotHealthy ==
    /\ step = "health"
    /\ Throw
    /\ UNCHANGED <<clock, scheduler, killed, signals, project, ingestion, running,
                   observed, cleanup, report>>

-----------------------------------------------------------------------------
(***************************************************************************)
(* Ingestion: runIngestionPhase                                            *)
(***************************************************************************)
RunningPhase == IF step = "warming" THEN "warmup" ELSE "measured"

\* Each worker runs to its first request before the next one starts.
FirstBatches(phase) ==
    IF aborted THEN {}
    ELSE FirstBatch(phase) ..
             (IF Concurrency < BatchCount(phase) THEN FirstBatch(phase) + Concurrency - 1
                                                 ELSE LastBatch(phase))

Dispatched(c, batches) ==
    [c EXCEPT !.started = @ + Cardinality(batches),
              !.attempted = @ + RowsIn(batches)]

StartPhase(phase) ==
    /\ requests' = [w \in Workers |->
           IF FirstBatch(phase) + w - 1 \in FirstBatches(phase)
           THEN Sent(FirstBatch(phase) + w - 1) ELSE Idle]
    /\ nextBatch' = FirstBatch(phase) + Cardinality(FirstBatches(phase))
    /\ counters' = [counters EXCEPT ![phase] = Dispatched(@, FirstBatches(phase))]
    /\ UNCHANGED <<stored, late>>

BeginWarmup ==
    /\ step = "warmup"
    /\ step' = "warming"
    /\ StartPhase("warmup")
    /\ UNCHANGED <<schedulerVars, killed, signals, project, running, ending>>

\* The service stores a batch, all of it or without a row that it rejects;
\* if it rejects them all its answer is no success.
ServiceStores(w) ==
    /\ requests[w].batch # 0
    /\ requests[w].kept = Undecided
    /\ LET b == requests[w].batch IN
       \E kept \in {RowsOf(b), RowsOf(b) - 1} \ {0} :
         /\ requests' = [requests EXCEPT ![w].kept = kept]
         /\ stored' = [stored EXCEPT ![b] = @ + kept]
    /\ UNCHANGED <<schedulerVars, step, killed, signals, project, nextBatch, counters, late,
                   running, ending>>

\* A request that its worker gave up is stored after all.
ServiceStoresLate(b) ==
    /\ b \in late
    /\ late' = late \ {b}
    /\ stored' = [stored EXCEPT ![b] = @ + RowsOf(b)]
    /\ UNCHANGED <<schedulerVars, step, killed, signals, project, requests, nextBatch, counters,
                   running, ending>>

Settled_Fault(c, b, kept, success) ==
    IF success
    THEN [c EXCEPT !.completed = @ + 1, !.confirmed = @ + RowsOf(b)]
    ELSE [c EXCEPT !.completed = @ + 1, !.indeterminate = @ + RowsOf(b)]

\* requestJson and validateIngestionResponse: an answer whose numbers add up,
\* or one that proves nothing: another status, invalid, late, none at all.
Settled(c, b, kept, success) ==
    IF success
    THEN [c EXCEPT !.completed = @ + 1, !.confirmed = @ + kept,
                   !.rejected = @ + (RowsOf(b) - kept)]
    ELSE [c EXCEPT !.completed = @ + 1, !.indeterminate = @ + RowsOf(b)]

\* The worker accounts for the outcome, reports the probe and goes on.
RequestSettles(w, success) ==
    LET b == requests[w].batch
        kept == requests[w].kept
        more == ~aborted /\ nextBatch <= LastBatch(RunningPhase)
        phase == RunningPhase
    IN  /\ b # 0
        /\ success => kept # Undecided
        /\ counters' = [counters EXCEPT ![phase] =
               LET c == Settled(@, b, kept, success)
               IN  IF more THEN Dispatched(c, {nextBatch}) ELSE c]
        /\ requests' = [requests EXCEPT ![w] = IF more THEN Sent(nextBatch) ELSE Idle]
        /\ nextBatch' = IF more THEN nextBatch + 1 ELSE nextBatch
        /\ late' = IF kept = Undecided THEN late \cup {b} ELSE late
        /\ freshness' = IF b # FirstBatch("measured") THEN freshness
                        ELSE IF success /\ kept = RowsOf(b) THEN "polling"
                        ELSE "probe-not-accepted"
        /\ UNCHANGED <<schedulerVars, step, killed, signals, project, stored, sampler, ending>>

PhaseEnds ==
    /\ step = "warming"
    /\ \A w \in Workers : requests[w].batch = 0
    /\ step' = "aggregationWarmup"
    /\ UNCHANGED <<schedulerVars, killed, signals, project, ingestion, running, ending>>

AggregationWarmup ==
    /\ step = "aggregationWarmup"
    /\ Throw \/ (Proceed /\ ~aborted)
    /\ UNCHANGED <<clock, scheduler, killed, signals, project, ingestion, running,
                   observed, cleanup, report>>

-----------------------------------------------------------------------------
(***************************************************************************)
(* Measurement: four activities at once, then one after the other ends.    *)
(***************************************************************************)
Measure ==
    /\ step = "measure"
    /\ step' = "measuring"
    /\ Begin
    /\ StartPhase("measured")
    /\ sampler' = "on"
    /\ UNCHANGED <<killed, signals, project, freshness, ending>>

Schedule ==
    /\ Pass \/ SchedulerStep
    /\ UNCHANGED <<step, killed, signals, project, ingestion, running, ending>>

MeasuringEnds ==
    /\ step = "measuring"
    /\ \A w \in Workers : requests[w].batch = 0
    /\ StopScheduler
    /\ step' = "stopping"
    /\ UNCHANGED <<killed, signals, project, ingestion, running, ending>>

SchedulerStopped ==
    /\ step = "stopping"
    /\ scheduler.stage = "stopped"
    /\ step' = "sampling"
    /\ UNCHANGED <<schedulerVars, killed, signals, project, ingestion, running, ending>>

\* A sample fails, or a signal ends the sleep between two samples.
SamplerFails ==
    /\ sampler = "on"
    /\ sampler' = "failed"
    /\ UNCHANGED <<schedulerVars, step, killed, signals, project, ingestion, freshness, ending>>

\* The sampler finds that it is no longer active, or the signal.
SamplerEnds ==
    /\ sampler = "on"
    /\ step = "sampling" \/ aborted
    /\ sampler' = "ended"
    /\ UNCHANGED <<schedulerVars, step, killed, signals, project, ingestion, freshness, ending>>

SamplingEnds ==
    /\ step = "sampling"
    /\ sampler # "on"
    /\ IF sampler = "failed" THEN Throw ELSE Proceed
    /\ UNCHANGED <<clock, scheduler, killed, signals, project, ingestion, running,
                   observed, cleanup, report>>

\* observeFreshness: a poll finds the probe, the deadline passes, a signal.
ProbeSettles(outcome) ==
    /\ freshness = "polling"
    /\ outcome = "aborted" => aborted
    /\ freshness' = outcome
    /\ UNCHANGED <<schedulerVars, step, killed, signals, project, ingestion, sampler, ending>>

\* Without a first batch there was no probe.
FreshnessKnown ==
    /\ step = "freshness"
    /\ freshness # "polling"
    /\ freshness' = IF freshness = "none" THEN "probe-not-accepted" ELSE freshness
    /\ Proceed
    /\ UNCHANGED <<clock, scheduler, killed, signals, project, ingestion, sampler,
                   observed, cleanup, report>>

-----------------------------------------------------------------------------
(***************************************************************************)
(* The judgement: reconcileRows, workloadFailures, assessBenchmarkTargets  *)
(***************************************************************************)
Confirmed == counters["warmup"].confirmed + counters["measured"].confirmed
Reconciled == observed = Confirmed

IngestionFails_Fault(phase) == LET c == counters[phase] IN
    \/ c.started # BatchCount(phase) \/ c.attempted # TotalRows(phase)
    \/ c.rejected > 0 \/ c.completed # c.started

IngestionFails(phase) == LET c == counters[phase] IN
    \/ c.started # BatchCount(phase) \/ c.attempted # TotalRows(phase)
    \/ c.rejected > 0 \/ c.indeterminate > 0 \/ c.completed # c.started

AggregationFails ==
    \/ scheduler.successful < 1 \/ scheduler.successful # scheduler.completed
    \/ scheduler.missed > 0 \/ scheduler.completed # scheduler.started
    \/ scheduler.drainTimedOut

WorkloadFails ==
    \/ \E phase \in Phases : IngestionFails(phase)
    \/ AggregationFails \/ freshness # "visible" \/ ~Reconciled

IngestionIsComplete(phase) ==
    ~IngestionFails(phase) /\ counters[phase].confirmed = TotalRows(phase)
AggregationIsComplete ==
    /\ scheduler.scheduled > 0 /\ scheduler.started = scheduler.scheduled
    /\ scheduler.completed = scheduler.started /\ scheduler.successful = scheduler.started
    /\ scheduler.missed = 0 /\ ~scheduler.drainTimedOut

\* A smoke run evaluates no requirement.
Requirements == IF RunKind = "baseline" THEN {"REL-001", "PERF-006"} ELSE {}

Verified ==
    {r \in Requirements :
        \/ r = "REL-001" /\ (\A phase \in Phases : IngestionIsComplete(phase)) /\ Reconciled
        \/ r = "PERF-006" /\ AggregationIsComplete}

Assess ==
    /\ step = "assess"
    /\ step' = "down"
    /\ failed' = (WorkloadFails \/ aborted)
    /\ report' = [report EXCEPT !.verified = Verified]
    /\ UNCHANGED <<schedulerVars, killed, signals, project, ingestion, running,
                   observed, cleanup>>

\* cleanupCompose lists what remains of the project.
CleanupPassed == cleanup.down /\ cleanup.listed /\ ~project
Outcome == IF ~failed /\ CleanupPassed THEN "passed" ELSE "failed"

\* The report is written to a temporary file and renamed, or it is not.
Publish ==
    /\ step = "publish"
    /\ step' = "done"
    /\ report' \in {report, [report EXCEPT !.outcome = Outcome,
                                           !.exit = IF Outcome = "passed" THEN 0 ELSE 1]}
    /\ UNCHANGED <<schedulerVars, killed, signals, project, ingestion, running,
                   observed, failed, cleanup>>

-----------------------------------------------------------------------------
ProbeOutcomes == {"visible", "deadline-exceeded", "aborted"}

\* What the load generator does by itself, as its timers expire.
Progress ==
    \/ KillCommand \/ CommandEnds(FALSE)
    \/ CheckPort \/ NotHealthy \/ BeginWarmup \/ PhaseEnds \/ AggregationWarmup
    \/ \E w \in Workers : RequestSettles(w, FALSE)
    \/ Measure \/ MeasuringEnds \/ SchedulerStopped \/ SamplingEnds \/ FreshnessKnown
    \/ Assess \/ Publish

Next ==
    \/ Progress \/ Schedule
    \/ CommandEnds(TRUE) \/ Healthy
    \/ \E w \in Workers : ServiceStores(w) \/ RequestSettles(w, TRUE)
    \/ \E b \in Batches : ServiceStoresLate(b)
    \/ SamplerFails \/ SamplerEnds
    \/ \E outcome \in ProbeOutcomes : ProbeSettles(outcome)
    \/ \E s \in Signals : Signal(s) \/ Kill(s)

Spec == Init /\ [][Next]_vars

\* Timers expire: of requests, commands, sleeps, the drain, the deadlines.
FairSpec ==
    /\ Spec
    /\ WF_vars(Progress)
    /\ WF_vars(Schedule)
    /\ WF_vars(SamplerEnds)
    /\ WF_vars(ProbeSettles("deadline-exceeded"))

-----------------------------------------------------------------------------
BatchesOf(phase) == FirstBatch(phase) .. LastBatch(phase)
InFlight(phase) == {b \in BatchesOf(phase) : \E w \in Workers : requests[w].batch = b}

\* What assertIngestionAccounting and immutableCounters assert at the end
\* holds all the time, with the requests on their way: each request and each
\* row is accounted for once.  No two workers send the same batch, and what
\* counts as confirmed is in PostgreSQL.
AccountsBalance ==
    /\ \A phase \in Phases : LET c == counters[phase] IN
         /\ c.started = c.completed + Cardinality(InFlight(phase))
         /\ c.attempted = c.confirmed + c.rejected + c.indeterminate + RowsIn(InFlight(phase))
         /\ c.confirmed <= SumFunctionOnSet(stored, BatchesOf(phase))
    /\ \A v, w \in Workers : v # w /\ requests[v].batch # 0 => requests[v].batch # requests[w].batch
    /\ CountersAdd

AllStored == \A b \in Batches : stored[b] = RowsOf(b)

\* Exit code 0: every row was stored once, every tick of the measurement was
\* sent and answered, the probe was seen, nothing remains of the project,
\* and every requirement the run evaluates is verified.  REL-001 alone is
\* worth as much for the rows.
PassedIsEarned ==
    /\ report.exit = 0 =>
         /\ AllStored /\ late = {}
         /\ Deadline(scheduler.successful) >= scheduler.end
         /\ freshness = "visible"
         /\ ~project
         /\ Requirements \subseteq report.verified
    /\ "REL-001" \in report.verified => AllStored

\* Whatever fails, and after one signal of each kind, the run ends, having
\* tried to clean up; if something remains the exit code tells.
RunEnds ==
    <>(\/ step = "killed"
       \/ step = "done" /\ cleanup.attempted /\ (project => report.exit = 1))
=============================================================================
