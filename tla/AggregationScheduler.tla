------------------------ MODULE AggregationScheduler ------------------------
(***************************************************************************)
(* tools/loadgen/aggregation.ts: the open loop that sends one aggregation  *)
(* request per interval while the load generator ingests.                  *)
(*                                                                         *)
(* Tick t is due at t * Interval, counted from the start of the loop.  The *)
(* loop sleeps until its next tick is due, but the event loop may wake it  *)
(* late, and stop() does not wake it at all.  The drain limit and the      *)
(* grace period after it are timers that may expire at any time.           *)
(***************************************************************************)
EXTENDS Integers

CONSTANTS
    Interval,          \* intervalMs
    MaximumInFlight,   \* maximumInFlight
    MaxClock           \* bound: the loop runs that long before it is stopped

ASSUME SchedulerAssumption ==
    /\ Interval \in Nat \ {0}
    /\ MaximumInFlight \in Nat \ {0}
    /\ MaxClock \in Nat

VARIABLES
    aborted,      \* abortController.signal.aborted
    clock,        \* the monotonic clock, from the start of the loop
    scheduler

schedulerVars == <<aborted, clock, scheduler>>

Stages == {"off", "on", "stopping", "draining", "grace", "stopped"}

NotStarted ==
    [stage |-> "off", loop |-> "ended", tick |-> 0, end |-> 0, inFlight |-> 0,
     scheduled |-> 0, started |-> 0, completed |-> 0, successful |-> 0, missed |-> 0,
     drainTimedOut |-> FALSE]

SchedulerInit ==
    /\ aborted \in BOOLEAN
    /\ clock = 0
    /\ scheduler = NotStarted

Deadline(tick) == tick * Interval

\* The next tick of the loop whose deadline fails "due", from "first" on.
IsNext(tick, first, due) ==
    /\ tick >= first /\ Deadline(tick) >= due
    /\ tick > first => Deadline(tick - 1) < due

\* dispatch of the tick that is due, and the ticks passed over by a late loop.
Dispatch(s, upTo) ==
    LET room == s.inFlight < MaximumInFlight IN
    [s EXCEPT
        !.loop      = "sleeping",
        !.tick      = upTo,
        !.scheduled = @ + (upTo - s.tick),
        !.started   = IF room THEN @ + 1 ELSE @,
        !.inFlight  = IF room THEN @ + 1 ELSE @,
        !.missed    = @ + (upTo - s.tick) - (IF room THEN 1 ELSE 0)]

Begin ==
    /\ scheduler.stage = "off"
    /\ clock' = 0
    /\ scheduler' = IF aborted THEN [scheduler EXCEPT !.stage = "on"]
                    ELSE Dispatch([scheduler EXCEPT !.stage = "on"], 1)
    /\ UNCHANGED aborted

\* Time passes; after stop() only until the loop wakes.
Pass ==
    /\ scheduler.loop = "sleeping"
    /\ \/ scheduler.stage = "on" /\ clock < MaxClock
       \/ scheduler.stage = "stopping" /\ clock < Deadline(scheduler.tick)
    /\ clock' = clock + 1
    /\ UNCHANGED <<aborted, scheduler>>

Awake == scheduler.loop = "sleeping" /\ clock >= Deadline(scheduler.tick)

WakeToDispatch ==
    /\ Awake
    /\ scheduler.stage = "on"
    /\ ~aborted
    /\ \E upTo \in (scheduler.tick + 1) .. (clock + 1) :
         /\ IsNext(upTo, scheduler.tick + 1, clock + 1)
         /\ scheduler' = Dispatch(scheduler, upTo)
    /\ UNCHANGED <<aborted, clock>>

WakeStopped_Fault ==
    /\ Awake
    /\ scheduler.stage = "stopping"
    /\ scheduler' = [scheduler EXCEPT !.loop = "ended"]
    /\ UNCHANGED <<aborted, clock>>

\* accountTicksMissedAtStop
WakeStopped ==
    /\ Awake
    /\ scheduler.stage = "stopping"
    /\ \E upTo \in scheduler.tick .. (scheduler.tick + scheduler.end) :
         /\ IsNext(upTo, scheduler.tick, scheduler.end)
         /\ scheduler' = [scheduler EXCEPT
                !.loop = "ended", !.tick = upTo,
                !.scheduled = @ + (upTo - scheduler.tick),
                !.missed = @ + (upTo - scheduler.tick)]
    /\ UNCHANGED <<aborted, clock>>

\* The sleep is rejected, or the loop finds the signal: ticks stay uncounted.
WakeAborted ==
    /\ aborted
    /\ scheduler.loop = "sleeping"
    /\ scheduler' = [scheduler EXCEPT !.loop = "ended"]
    /\ UNCHANGED <<aborted, clock>>

\* An answer, or a failure of any kind.  After stop() has returned its
\* result nothing is counted any more.
AggregationSettles(ok) ==
    /\ scheduler.inFlight > 0
    /\ scheduler.stage # "stopped"
    /\ scheduler' = [scheduler EXCEPT
            !.inFlight = @ - 1, !.completed = @ + 1,
            !.successful = IF ok THEN @ + 1 ELSE @]
    /\ UNCHANGED <<aborted, clock>>

\* stop(): it waits for the loop, then for the requests in flight.
StopScheduler ==
    /\ scheduler.stage = "on"
    /\ scheduler' = [scheduler EXCEPT !.stage = "stopping", !.end = clock]
    /\ UNCHANGED <<aborted, clock>>

LoopEnded ==
    /\ scheduler.stage = "stopping"
    /\ scheduler.loop = "ended"
    /\ scheduler' = [scheduler EXCEPT !.stage = "draining"]
    /\ UNCHANGED <<aborted, clock>>

Drained ==
    /\ scheduler.stage = "draining"
    /\ scheduler.inFlight = 0
    /\ scheduler' = [scheduler EXCEPT !.stage = "stopped"]
    /\ UNCHANGED <<aborted, clock>>

\* drainTimeoutMs has passed, or the signal ends the wait: all requests in
\* flight are aborted and get abortGraceMs to settle.
DrainExpires ==
    /\ scheduler.stage = "draining"
    /\ scheduler.inFlight > 0
    /\ scheduler' = [scheduler EXCEPT !.stage = "grace", !.drainTimedOut = TRUE]
    /\ UNCHANGED <<aborted, clock>>

GraceEnds ==
    /\ scheduler.stage = "grace"
    /\ scheduler' = [scheduler EXCEPT !.stage = "stopped"]
    /\ UNCHANGED <<aborted, clock>>

SchedulerStep ==
    \/ WakeToDispatch \/ WakeStopped \/ WakeAborted
    \/ \E ok \in BOOLEAN : AggregationSettles(ok)
    \/ LoopEnded \/ Drained \/ DrainExpires \/ GraceEnds

Abort == aborted' = TRUE /\ UNCHANGED <<clock, scheduler>>

SchedulerNext == Begin \/ Pass \/ SchedulerStep \/ StopScheduler \/ Abort

SchedulerSpec == SchedulerInit /\ [][SchedulerNext]_schedulerVars

-----------------------------------------------------------------------------
\* The counters that immutableCounters asserts are equal.
CountersAdd ==
    /\ scheduler.scheduled = scheduler.started + scheduler.missed
    /\ scheduler.started = scheduler.completed + scheduler.inFlight
    /\ scheduler.successful <= scheduler.completed
    /\ scheduler.inFlight <= MaximumInFlight

\* Every tick that was due before the end of the measurement is in the
\* report once, started or missed, however late the loop was and whenever it
\* was stopped; no tick that was due after the end is.  A signal ends that.
EveryTickCounted ==
    scheduler.stage \in {"draining", "grace", "stopped"} /\ ~aborted =>
        /\ Deadline(scheduler.scheduled) >= scheduler.end
        /\ scheduler.scheduled > 0 => Deadline(scheduler.scheduled - 1) <= scheduler.end
=============================================================================
