------------------------- MODULE LoadGenerator_proofs -------------------------
(***************************************************************************)
(* Proofs about LoadGenerator and the AggregationScheduler in it, for any  *)
(* number of rows, workers and signals, every size of a batch, every       *)
(* interval and every length of the measurement.                           *)
(*                                                                         *)
(* The open loop comes first.  EveryTickCounted is not inductive: what is  *)
(* counted at the end depends on how far the loop had come when it was     *)
(* stopped, and that on the clock at its last dispatch.  LoopInv says so.  *)
(*                                                                         *)
(* Then ingestion.  Its counters are sums over batches, which change as    *)
(* batches are sent and settled; Ledger says of which batches each counter *)
(* is the sum.  That needs to know that no batch is sent or stored twice,  *)
(* and where the workers are: Custody, Unique, Unsent and Place.           *)
(*                                                                         *)
(* Last the judgement: what it found when the run was assessed still holds *)
(* when the exit code is published, since the scheduler has stopped and    *)
(* there is no batch left to store.                                        *)
(***************************************************************************)
EXTENDS LoadGenerator, FiniteSetTheorems, WellFoundedInduction, TLAPS

-----------------------------------------------------------------------------
(***************************************************************************)
(* The open loop of AggregationScheduler.                                  *)
(***************************************************************************)
SchedulerType ==
    [stage : Stages, loop : {"sleeping", "ended"}, tick : Nat, end : Nat, inFlight : Nat,
     scheduled : Nat, started : Nat, completed : Nat, successful : Nat, missed : Nat,
     drainTimedOut : BOOLEAN]

SchedulerTypes ==
    /\ aborted \in BOOLEAN
    /\ clock \in Nat
    /\ scheduler \in SchedulerType

\* The last tick counted was due by the given time.
LastDueBy(time) == scheduler.tick > 0 => Deadline(scheduler.tick - 1) <= time

\* All ticks due before the end have been counted.
Complete == Deadline(scheduler.tick) >= scheduler.end /\ LastDueBy(scheduler.end)

LoopInv ==
    /\ scheduler.scheduled = scheduler.tick
    /\ scheduler.stage = "off" => scheduler = NotStarted
    /\ scheduler.stage = "on" =>
         /\ LastDueBy(clock)
         /\ scheduler.loop = "ended" => aborted
    /\ scheduler.stage = "stopping" =>
         /\ scheduler.loop = "sleeping" => LastDueBy(scheduler.end)
         /\ scheduler.loop = "ended" => aborted \/ Complete
    /\ scheduler.stage \in {"draining", "grace", "stopped"} =>
         /\ scheduler.loop = "ended"
         /\ aborted \/ Complete

SchedulerInv == SchedulerTypes /\ CountersAdd /\ LoopInv

-----------------------------------------------------------------------------
\* Deadlines are natural numbers, the first one the start of the loop.
LEMMA DeadlineNat ==
    /\ \A t \in Nat : Deadline(t) \in Nat
    /\ Deadline(0) = 0
BY SchedulerAssumption DEF Deadline

\* Before the loop starts.
LEMMA SchedulerInitInvariant == SchedulerInit => SchedulerInv
BY SchedulerAssumption, DeadlineNat
   DEF SchedulerInit, NotStarted, SchedulerInv, SchedulerTypes, SchedulerType, Stages, CountersAdd, LoopInv,
       LastDueBy, Complete

\* What a dispatch does to a scheduler whose counters add up.
LEMMA DispatchFacts ==
    ASSUME NEW s \in SchedulerType, NEW upTo \in Nat, upTo > s.tick,
           s.scheduled = s.started + s.missed,
           s.started = s.completed + s.inFlight,
           s.successful <= s.completed,
           s.inFlight <= MaximumInFlight,
           s.scheduled = s.tick,
           NEW d, d = Dispatch(s, upTo)
    PROVE  /\ d \in SchedulerType
           /\ d.stage = s.stage /\ d.end = s.end /\ d.tick = upTo /\ d.loop = "sleeping"
           /\ d.scheduled = upTo
           /\ d.scheduled = d.started + d.missed
           /\ d.started = d.completed + d.inFlight
           /\ d.successful <= d.completed
           /\ d.inFlight <= MaximumInFlight
<1> DEFINE room == s.inFlight < MaximumInFlight
           scheduled == s.scheduled + (upTo - s.tick)
           started == IF room THEN s.started + 1 ELSE s.started
           inFlight == IF room THEN s.inFlight + 1 ELSE s.inFlight
           missed == s.missed + (upTo - s.tick) - (IF room THEN 1 ELSE 0)
<1>1. d = [s EXCEPT !.loop = "sleeping", !.tick = upTo, !.scheduled = scheduled,
                    !.started = started, !.inFlight = inFlight, !.missed = missed]
  BY DEF Dispatch
<1>2. /\ s.started \in Nat /\ s.inFlight \in Nat /\ s.missed \in Nat /\ s.tick \in Nat
      /\ s.completed \in Nat /\ s.successful \in Nat /\ s.scheduled \in Nat
  BY DEF SchedulerType
<1>3. /\ scheduled \in Nat /\ started \in Nat /\ inFlight \in Nat /\ missed \in Nat
      /\ scheduled = upTo /\ scheduled = started + missed
      /\ started = s.completed + inFlight /\ inFlight <= MaximumInFlight
  BY <1>2, SchedulerAssumption
<1> HIDE DEF scheduled, started, inFlight, missed
<1>4. d \in SchedulerType
  BY <1>1, <1>3 DEF SchedulerType
<1>5. /\ d.stage = s.stage /\ d.end = s.end /\ d.tick = upTo /\ d.loop = "sleeping"
      /\ d.completed = s.completed /\ d.successful = s.successful
      /\ d.scheduled = scheduled /\ d.started = started
      /\ d.inFlight = inFlight /\ d.missed = missed
  BY <1>1 DEF SchedulerType
<1>6. QED  BY <1>3, <1>4, <1>5

-----------------------------------------------------------------------------
\* The loop starts, and dispatches its first tick unless it is aborted.
LEMMA BeginInvariant == SchedulerInv /\ Begin => SchedulerInv'
<1> SUFFICES ASSUME SchedulerInv, Begin PROVE SchedulerInv'
  OBVIOUS
<1> DEFINE on == [scheduler EXCEPT !.stage = "on"]
<1>1. scheduler = NotStarted /\ clock' = 0 /\ aborted' = aborted /\ aborted \in BOOLEAN
  BY DEF Begin, LoopInv, SchedulerTypes, SchedulerInv
<1>2. /\ scheduler \in SchedulerType
      /\ scheduler.loop = "ended" /\ scheduler.tick = 0 /\ scheduler.inFlight = 0
      /\ scheduler.scheduled = 0 /\ scheduler.started = 0 /\ scheduler.completed = 0
      /\ scheduler.successful = 0 /\ scheduler.missed = 0
  BY <1>1 DEF NotStarted, SchedulerInv, SchedulerTypes
<1>3. /\ on \in SchedulerType /\ on.stage = "on"
      /\ on.loop = scheduler.loop /\ on.tick = scheduler.tick
      /\ on.inFlight = scheduler.inFlight /\ on.scheduled = scheduler.scheduled
      /\ on.started = scheduler.started /\ on.completed = scheduler.completed
      /\ on.successful = scheduler.successful /\ on.missed = scheduler.missed
  BY <1>2 DEF SchedulerType, Stages
<1> HIDE DEF on
<1>4. CASE aborted
  <2>1. scheduler' = on
    BY <1>4 DEF Begin, on
  <2>2. QED
    BY <1>1, <1>2, <1>3, <1>4, <2>1, SchedulerAssumption
       DEF SchedulerInv, SchedulerTypes, CountersAdd, LoopInv, LastDueBy
<1>5. CASE ~aborted
  <2>1. scheduler' = Dispatch(on, 1)
    BY <1>5 DEF Begin, on
  <2>2. /\ scheduler' \in SchedulerType
        /\ scheduler'.stage = "on" /\ scheduler'.tick = 1 /\ scheduler'.loop = "sleeping"
        /\ scheduler'.scheduled = 1
        /\ scheduler'.scheduled = scheduler'.started + scheduler'.missed
        /\ scheduler'.started = scheduler'.completed + scheduler'.inFlight
        /\ scheduler'.successful <= scheduler'.completed
        /\ scheduler'.inFlight <= MaximumInFlight
    BY <1>2, <1>3, <2>1, DispatchFacts, SchedulerAssumption
  <2>3. Deadline(1 - 1) = 0
    BY DeadlineNat
  <2>4. LastDueBy(clock)'
    BY <1>1, <2>2, <2>3 DEF LastDueBy, Deadline
  <2>5. QED
    BY <1>1, <2>2, <2>4 DEF SchedulerInv, SchedulerTypes, CountersAdd, LoopInv
<1>6. QED  BY <1>4, <1>5

\* Time passes while the loop sleeps.
LEMMA PassInvariant == SchedulerInv /\ Pass => SchedulerInv'
<1> SUFFICES ASSUME SchedulerInv, Pass PROVE SchedulerInv'
  OBVIOUS
<1>1. UNCHANGED <<scheduler, aborted>> /\ clock \in Nat /\ clock' = clock + 1
  BY DEF SchedulerInv, SchedulerTypes, Pass
<1>2. SchedulerTypes' /\ CountersAdd'
  BY <1>1 DEF SchedulerInv, SchedulerTypes, CountersAdd
<1>3. scheduler.stage = "on" => LastDueBy(clock)'
  <2> SUFFICES ASSUME scheduler.stage = "on", scheduler.tick > 0
               PROVE  Deadline(scheduler.tick - 1) <= clock + 1
    BY <1>1 DEF LastDueBy, Deadline
  <2>1. Deadline(scheduler.tick - 1) <= clock
    BY DEF SchedulerInv, LoopInv, LastDueBy
  <2>2. Deadline(scheduler.tick - 1) \in Nat
    <3>1. scheduler.tick - 1 \in Nat
      BY DEF SchedulerInv, SchedulerTypes, SchedulerType
    <3>2. QED  BY <3>1, DeadlineNat
  <2>3. QED  BY <2>1, <2>2, <1>1
<1>4. LoopInv'
  BY <1>1, <1>3 DEF SchedulerInv, LoopInv, LastDueBy, Complete, Deadline
<1>5. QED  BY <1>2, <1>4 DEF SchedulerInv

\* The loop wakes and dispatches the tick that is due, or passes ticks over.
LEMMA WakeToDispatchInvariant == SchedulerInv /\ WakeToDispatch => SchedulerInv'
<1> SUFFICES ASSUME SchedulerInv, WakeToDispatch PROVE SchedulerInv'
  OBVIOUS
<1>1. PICK upTo \in (scheduler.tick + 1) .. (clock + 1) :
         /\ IsNext(upTo, scheduler.tick + 1, clock + 1)
         /\ scheduler' = Dispatch(scheduler, upTo)
  BY DEF WakeToDispatch
<1>2. /\ UNCHANGED <<aborted, clock>> /\ scheduler.stage = "on"
      /\ scheduler \in SchedulerType /\ clock \in Nat /\ aborted \in BOOLEAN
  BY DEF WakeToDispatch, SchedulerInv, SchedulerTypes
<1>3. upTo \in Nat /\ upTo > scheduler.tick /\ upTo - 1 \in Nat /\ scheduler.tick \in Nat
  BY <1>1, <1>2 DEF SchedulerType
<1>4. /\ scheduler' \in SchedulerType
      /\ scheduler'.stage = "on" /\ scheduler'.tick = upTo /\ scheduler'.loop = "sleeping"
      /\ scheduler'.scheduled = upTo
      /\ scheduler'.scheduled = scheduler'.started + scheduler'.missed
      /\ scheduler'.started = scheduler'.completed + scheduler'.inFlight
      /\ scheduler'.successful <= scheduler'.completed
      /\ scheduler'.inFlight <= MaximumInFlight
  BY <1>1, <1>2, <1>3, DispatchFacts DEF SchedulerInv, CountersAdd, LoopInv
<1>5. Deadline(upTo - 1) <= clock
  <2>1. CASE upTo = scheduler.tick + 1
    <3>1. upTo - 1 = scheduler.tick
      BY <2>1, <1>3
    <3>2. clock >= Deadline(scheduler.tick)
      BY DEF WakeToDispatch, Awake
    <3>3. QED  BY <3>1, <3>2, <1>2, <1>3, DeadlineNat
  <2>2. CASE upTo > scheduler.tick + 1
    BY <1>1, <1>2, <1>3, <2>2, DeadlineNat DEF IsNext
  <2>3. QED  BY <1>1, <1>3, <2>1, <2>2
<1>6. LastDueBy(clock)'
  BY <1>2, <1>4, <1>5 DEF LastDueBy, Deadline
<1>7. QED
  BY <1>2, <1>4, <1>6 DEF SchedulerInv, SchedulerTypes, CountersAdd, LoopInv

\* The loop wakes after stop() and counts the ticks that were due before it.
LEMMA WakeStoppedInvariant == SchedulerInv /\ WakeStopped => SchedulerInv'
<1> SUFFICES ASSUME SchedulerInv, WakeStopped PROVE SchedulerInv'
  OBVIOUS
<1>1. PICK upTo \in scheduler.tick .. (scheduler.tick + scheduler.end) :
         /\ IsNext(upTo, scheduler.tick, scheduler.end)
         /\ scheduler' = [scheduler EXCEPT
                !.loop = "ended", !.tick = upTo,
                !.scheduled = @ + (upTo - scheduler.tick),
                !.missed = @ + (upTo - scheduler.tick)]
  BY DEF WakeStopped
<1>2. /\ UNCHANGED <<aborted, clock>>
      /\ scheduler.stage = "stopping" /\ scheduler.loop = "sleeping"
      /\ scheduler \in SchedulerType /\ clock \in Nat /\ aborted \in BOOLEAN
  BY DEF WakeStopped, Awake, SchedulerInv, SchedulerTypes
<1>3. /\ upTo \in Nat /\ scheduler.tick \in Nat /\ scheduler.end \in Nat
      /\ upTo >= scheduler.tick
  BY <1>1, <1>2 DEF SchedulerType
<1>4. /\ scheduler' \in SchedulerType
      /\ scheduler'.stage = "stopping" /\ scheduler'.loop = "ended"
      /\ scheduler'.tick = upTo /\ scheduler'.end = scheduler.end
      /\ scheduler'.scheduled = upTo
      /\ CountersAdd'
  <2> DEFINE scheduled == scheduler.scheduled + (upTo - scheduler.tick)
             missed == scheduler.missed + (upTo - scheduler.tick)
  <2>1. /\ scheduled \in Nat /\ missed \in Nat /\ scheduled = upTo
        /\ scheduled = scheduler.started + missed
    BY <1>2, <1>3 DEF SchedulerInv, SchedulerType, CountersAdd, LoopInv
  <2>2. scheduler' = [scheduler EXCEPT !.loop = "ended", !.tick = upTo,
                                       !.scheduled = scheduled, !.missed = missed]
    BY <1>1
  <2> HIDE DEF scheduled, missed
  <2>3. scheduler' \in SchedulerType
    BY <1>2, <1>3, <2>1, <2>2 DEF SchedulerType
  <2>4. /\ scheduler'.stage = scheduler.stage /\ scheduler'.loop = "ended"
        /\ scheduler'.tick = upTo /\ scheduler'.end = scheduler.end
        /\ scheduler'.scheduled = scheduled /\ scheduler'.missed = missed
        /\ scheduler'.started = scheduler.started /\ scheduler'.completed = scheduler.completed
        /\ scheduler'.inFlight = scheduler.inFlight
        /\ scheduler'.successful = scheduler.successful
    BY <1>2, <2>2 DEF SchedulerType
  <2>5. QED  BY <1>2, <2>1, <2>3, <2>4 DEF SchedulerInv, CountersAdd
<1>5. Deadline(upTo) >= scheduler.end
  BY <1>1 DEF IsNext
<1>6. upTo > 0 => Deadline(upTo - 1) <= scheduler.end
  <2>1. CASE upTo = scheduler.tick
    BY <1>2, <2>1 DEF SchedulerInv, LoopInv, LastDueBy
  <2>2. CASE upTo > scheduler.tick
    <3>1. upTo - 1 \in Nat
      BY <1>3, <2>2
    <3>2. QED  BY <1>1, <1>3, <2>2, <3>1, DeadlineNat DEF IsNext
  <2>3. QED  BY <1>3, <2>1, <2>2
<1>7. Complete'
  BY <1>4, <1>5, <1>6 DEF Complete, LastDueBy, Deadline
<1>8. QED
  BY <1>2, <1>4, <1>7 DEF SchedulerInv, SchedulerTypes, LoopInv

\* A request of the loop is answered or fails.
LEMMA SettlesInvariant ==
    ASSUME NEW ok \in BOOLEAN, SchedulerInv, AggregationSettles(ok)
    PROVE  SchedulerInv'
<1>1. /\ scheduler \in SchedulerType /\ scheduler.stage # "off" /\ UNCHANGED <<aborted, clock>>
      /\ scheduler.inFlight > 0
  BY DEF SchedulerInv, SchedulerTypes, LoopInv, AggregationSettles, NotStarted
<1>2. /\ scheduler' \in SchedulerType
      /\ scheduler'.stage = scheduler.stage /\ scheduler'.loop = scheduler.loop
      /\ scheduler'.tick = scheduler.tick /\ scheduler'.end = scheduler.end
      /\ scheduler'.scheduled = scheduler.scheduled
      /\ CountersAdd'
  <2> DEFINE successful == IF ok THEN scheduler.successful + 1 ELSE scheduler.successful
  <2>1. /\ scheduler.inFlight - 1 \in Nat /\ scheduler.completed + 1 \in Nat
        /\ successful \in Nat /\ successful <= scheduler.completed + 1
        /\ scheduler.inFlight \in Nat /\ scheduler.completed \in Nat
    BY <1>1 DEF SchedulerInv, CountersAdd, SchedulerType
  <2>2. scheduler' = [scheduler EXCEPT !.inFlight = scheduler.inFlight - 1,
                          !.completed = scheduler.completed + 1, !.successful = successful]
    BY DEF AggregationSettles
  <2> HIDE DEF successful
  <2>3. scheduler' \in SchedulerType
    BY <1>1, <2>1, <2>2 DEF SchedulerType
  <2>4. /\ scheduler'.stage = scheduler.stage /\ scheduler'.loop = scheduler.loop
        /\ scheduler'.tick = scheduler.tick /\ scheduler'.end = scheduler.end
        /\ scheduler'.scheduled = scheduler.scheduled /\ scheduler'.missed = scheduler.missed
        /\ scheduler'.started = scheduler.started
        /\ scheduler'.inFlight = scheduler.inFlight - 1
        /\ scheduler'.completed = scheduler.completed + 1
        /\ scheduler'.successful = successful
    BY <1>1, <2>2 DEF SchedulerType
  <2>5. QED  BY <2>1, <2>3, <2>4, SchedulerAssumption DEF SchedulerInv, CountersAdd
<1>3. QED
  BY <1>1, <1>2 DEF SchedulerInv, SchedulerTypes, LoopInv, LastDueBy, Complete, Deadline

\* stop() is called.
LEMMA StopInvariant == SchedulerInv /\ StopScheduler => SchedulerInv'
<1> SUFFICES ASSUME SchedulerInv, StopScheduler PROVE SchedulerInv'
  OBVIOUS
<1>1. /\ scheduler \in SchedulerType /\ scheduler.stage = "on" /\ UNCHANGED <<aborted, clock>>
      /\ clock \in Nat
  BY DEF SchedulerInv, SchedulerTypes, StopScheduler
<1>2. /\ scheduler' \in SchedulerType
      /\ scheduler'.stage = "stopping" /\ scheduler'.loop = scheduler.loop
      /\ scheduler'.tick = scheduler.tick /\ scheduler'.end = clock
      /\ scheduler'.scheduled = scheduler.scheduled
      /\ CountersAdd'
  BY <1>1 DEF SchedulerInv, CountersAdd, StopScheduler, SchedulerType, Stages
<1>3. QED
  BY <1>1, <1>2 DEF SchedulerInv, SchedulerTypes, LoopInv, LastDueBy, Deadline

\* The steps that only end the loop or move stop() on.
LEMMA EndingInvariant ==
    SchedulerInv /\ (WakeAborted \/ LoopEnded \/ Drained \/ DrainExpires \/ GraceEnds) => SchedulerInv'
<1> SUFFICES ASSUME SchedulerInv, WakeAborted \/ LoopEnded \/ Drained \/ DrainExpires \/ GraceEnds
             PROVE  SchedulerInv'
  OBVIOUS
<1>1. scheduler \in SchedulerType /\ UNCHANGED <<aborted, clock>>
  BY DEF SchedulerInv, SchedulerTypes, WakeAborted, LoopEnded, Drained, DrainExpires, GraceEnds
<1>2. /\ scheduler' \in SchedulerType
      /\ scheduler'.tick = scheduler.tick /\ scheduler'.end = scheduler.end
      /\ scheduler'.scheduled = scheduler.scheduled
      /\ CountersAdd'
  BY <1>1 DEF SchedulerInv, CountersAdd, SchedulerType, Stages,
              WakeAborted, LoopEnded, Drained, DrainExpires, GraceEnds
<1>3. CASE WakeAborted
  <2>1. scheduler.stage # "off" /\ aborted /\ scheduler'.stage = scheduler.stage
    BY <1>1, <1>3 DEF WakeAborted, SchedulerInv, LoopInv, NotStarted, SchedulerType
  <2>2. scheduler'.loop = "ended"
    BY <1>1, <1>3 DEF WakeAborted, SchedulerType
  <2>3. QED
    BY <1>1, <1>2, <2>1, <2>2 DEF SchedulerInv, SchedulerTypes, LoopInv, LastDueBy, Deadline
<1>4. CASE LoopEnded \/ Drained \/ DrainExpires \/ GraceEnds
  <2>1. /\ scheduler.stage \in {"stopping", "draining", "grace"}
        /\ scheduler'.stage \in {"draining", "grace", "stopped"}
        /\ scheduler.loop = "ended" /\ scheduler'.loop = "ended"
    BY <1>1, <1>4 DEF LoopEnded, Drained, DrainExpires, GraceEnds, SchedulerInv, LoopInv, SchedulerType
  <2>2. aborted \/ Complete
    BY <2>1 DEF SchedulerInv, LoopInv
  <2>3. aborted' \/ Complete'
    BY <1>1, <1>2, <2>2 DEF Complete, LastDueBy, Deadline
  <2>4. QED
    BY <1>1, <1>2, <2>1, <2>3 DEF SchedulerInv, SchedulerTypes, LoopInv
<1>5. QED  BY <1>3, <1>4

\* A signal aborts the loop.
LEMMA AbortInvariant == SchedulerInv /\ Abort => SchedulerInv'
BY DEF Abort, SchedulerInv, SchedulerTypes, CountersAdd, LoopInv, LastDueBy, Complete, Deadline

\* Every step of the open loop keeps its invariant.
LEMMA SchedulerStepInvariant == SchedulerInv /\ [SchedulerNext]_schedulerVars => SchedulerInv'
<1> SUFFICES ASSUME SchedulerInv, [SchedulerNext]_schedulerVars PROVE SchedulerInv'
  OBVIOUS
<1>1. CASE Begin  BY <1>1, BeginInvariant
<1>2. CASE Pass  BY <1>2, PassInvariant
<1>3. CASE WakeToDispatch  BY <1>3, WakeToDispatchInvariant
<1>4. CASE WakeStopped  BY <1>4, WakeStoppedInvariant
<1>5. CASE \E ok \in BOOLEAN : AggregationSettles(ok)  BY <1>5, SettlesInvariant
<1>6. CASE StopScheduler  BY <1>6, StopInvariant
<1>7. CASE WakeAborted \/ LoopEnded \/ Drained \/ DrainExpires \/ GraceEnds
  BY <1>7, EndingInvariant
<1>8. CASE Abort  BY <1>8, AbortInvariant
<1>9. CASE UNCHANGED schedulerVars
  BY <1>9 DEF schedulerVars, SchedulerInv, SchedulerTypes, CountersAdd, LoopInv, LastDueBy, Complete, Deadline
<1>10. QED
  BY <1>1, <1>2, <1>3, <1>4, <1>5, <1>6, <1>7, <1>8, <1>9 DEF SchedulerNext, SchedulerStep

\* The inductive invariant holds in every state of the scheduler.
THEOREM SchedulerInvariance == SchedulerSpec => []SchedulerInv
BY SchedulerInitInvariant, SchedulerStepInvariant, PTL DEF SchedulerSpec

\* What immutableCounters asserts when the scheduler stops holds all along:
\* no tick and no request is lost or counted twice.
THEOREM CountersCorrect == SchedulerSpec => []CountersAdd
<1>1. SchedulerInv => CountersAdd
  BY DEF SchedulerInv
<1>2. QED  BY SchedulerInvariance, <1>1, PTL

\* Every tick that was due before the end is in the report, none due after
\* it is, however late the loop was and whenever stop() came.
THEOREM TicksCorrect == SchedulerSpec => []EveryTickCounted
<1>1. SchedulerInv => EveryTickCounted
  BY DEF SchedulerInv, LoopInv, Complete, LastDueBy, EveryTickCounted
<1>2. QED  BY SchedulerInvariance, <1>1, PTL

-----------------------------------------------------------------------------
(***************************************************************************)
(* Sums over finite sets: what SumFunctionOnSet computes.                  *)
(***************************************************************************)
Picked(s) == CHOOSE x \in s : TRUE

\* g has the sum of f over each subset of S.
IsTotals(g, f, S) ==
    g = [s \in SUBSET S |-> IF s = {} THEN 0 ELSE f[Picked(s)] + g[s \ {Picked(s)}]]

\* The fold of the library, with its maps opened up.
LEMMA TotalIsChosen ==
    ASSUME NEW f, NEW S
    PROVE  SumFunctionOnSet(f, S) = (CHOOSE g : IsTotals(g, f, S))[S]
BY DEF SumFunctionOnSet, FoldFunctionOnSet, MapThenFoldSet, IsTotals, Picked

\* What holds of a set as soon as it holds of its proper subsets holds of
\* every finite set.
LEMMA SubsetInduction ==
    ASSUME NEW S, IsFiniteSet(S), NEW A \in SUBSET SUBSET S,
           \A T \in SUBSET S : (\A U \in SUBSET T : U # T => U \in A) => T \in A
    PROVE  A = SUBSET S
<1> DEFINE B == (SUBSET S) \ A
<1> SUFFICES ASSUME B # {} PROVE FALSE
  OBVIOUS
<1>1. B \subseteq FiniteSubsetsOf(S)
  BY FS_FiniteSubsetsOfFinite
<1>2. PICK T \in B : \A U \in B : ~ (<<U, T>> \in StrictSubsetOrdering(S))
  <2> HIDE DEF B
  <2>1. QED  BY <1>1, FS_StrictSubsetOrderingWellFounded, WFMin
<1>3. ASSUME NEW U \in SUBSET T, U # T PROVE U \in A
  BY <1>2, <1>3 DEF StrictSubsetOrdering
<1>4. QED  BY <1>2, <1>3

\* The choice that the fold makes.
LEMMA PickedIn == ASSUME NEW s, s # {} PROVE Picked(s) \in s
BY DEF Picked

\* One step of a table of sums.
LEMMA TotalsStep ==
    ASSUME NEW f, NEW S, NEW g, IsTotals(g, f, S), NEW s \in SUBSET S
    PROVE  /\ s = {} => g[s] = 0
           /\ s # {} => g[s] = f[Picked(s)] + g[s \ {Picked(s)}]
BY DEF IsTotals

\* Two tables agree on the sets that both have.
LEMMA TotalsAgree ==
    ASSUME NEW f, NEW S, NEW R, NEW g, NEW h, IsTotals(g, f, S), IsTotals(h, f, R),
           NEW T, T \subseteq S \cap R, IsFiniteSet(T)
    PROVE  g[T] = h[T]
<1> DEFINE A == {s \in SUBSET T : g[s] = h[s]}
<1>1. ASSUME NEW s \in SUBSET T, \A u \in SUBSET s : u # s => u \in A
      PROVE  s \in A
  <2>0. s \in SUBSET S /\ s \in SUBSET R
    OBVIOUS
  <2>1. CASE s = {}
    <3>1. g[s] = 0
      BY <2>0, <2>1, TotalsStep
    <3>2. h[s] = 0
      BY <2>0, <2>1, TotalsStep
    <3>3. QED  BY <3>1, <3>2
  <2>2. CASE s # {}
    <3> DEFINE u == s \ {Picked(s)}
    <3>1. g[s] = f[Picked(s)] + g[u] /\ h[s] = f[Picked(s)] + h[u]
      BY <2>2, TotalsStep
    <3>2. u \in A
      BY <1>1, <2>2, PickedIn
    <3>3. QED  BY <3>1, <3>2
  <2>3. QED  BY <2>1, <2>2
<1>2. A = SUBSET T
  <2> HIDE DEF A
  <2>1. A \in SUBSET SUBSET T
    BY DEF A
  <2>2. QED  BY <1>1, <2>1, SubsetInduction
<1>3. QED  BY <1>2

\* There is a table of the sums over the subsets of a finite set.
LEMMA TotalsExist ==
    ASSUME NEW f, NEW S, IsFiniteSet(S)
    PROVE  \E g : IsTotals(g, f, S)
<1> DEFINE A == {T \in SUBSET S : \E g : IsTotals(g, f, T)}
<1>1. ASSUME NEW T \in SUBSET S, \A U \in SUBSET T : U # T => U \in A
      PROVE  T \in A
  <2> DEFINE G(u) == CHOOSE g : IsTotals(g, f, u)
             g == [s \in SUBSET T |->
                     IF s = {} THEN 0
                     ELSE f[Picked(s)] + G(s \ {Picked(s)})[s \ {Picked(s)}]]
  <2>1. \A U \in SUBSET T : U # T => IsTotals(G(U), f, U)
    BY <1>1
  <2> HIDE DEF G
  <2>2. ASSUME NEW U \in SUBSET T, U # T PROVE g[U] = G(U)[U]
    <3>1. CASE U = {}
      <4> DEFINE k == G(U)
      <4>1. g[U] = 0
        BY <3>1
      <4>2. IsTotals(k, f, U) /\ U \in SUBSET U
        BY <2>1, <2>2
      <4> HIDE DEF k, g
      <4>3. k[U] = 0
        BY ONLY <3>1, <4>2, TotalsStep
      <4>4. QED  BY <4>1, <4>3 DEF k
    <3>2. CASE U # {}
      <4> DEFINE v == U \ {Picked(U)}
      <4>1. g[U] = f[Picked(U)] + G(v)[v]
        BY <3>2
      <4> HIDE DEF g
      <4>2. v \in SUBSET U /\ v # T /\ v \in SUBSET T
        BY <2>2, <3>2, PickedIn
      <4>3. IsTotals(G(U), f, U) /\ IsTotals(G(v), f, v)
        BY <2>1, <2>2, <4>2
      <4>4. G(U)[U] = f[Picked(U)] + G(U)[v]
        BY <3>2, <4>3, TotalsStep
      <4>5. IsFiniteSet(v)
        BY <4>2, FS_Subset
      <4>6. G(U)[v] = G(v)[v]
        BY <4>2, <4>3, <4>5, TotalsAgree
      <4>7. QED  BY <4>1, <4>4, <4>6
    <3>3. QED  BY <3>1, <3>2
  <2>3. ASSUME NEW s \in SUBSET T, s # {}
        PROVE  g[s \ {Picked(s)}] = G(s \ {Picked(s)})[s \ {Picked(s)}]
    <3> HIDE DEF g
    <3>1. s \ {Picked(s)} \in SUBSET T /\ s \ {Picked(s)} # T
      BY <2>3, PickedIn
    <3>2. QED  BY <2>2, <3>1
  <2>4. g = [s \in SUBSET T |-> IF s = {} THEN 0 ELSE f[Picked(s)] + g[s \ {Picked(s)}]]
    BY <2>3
  <2> HIDE DEF g
  <2>5. IsTotals(g, f, T)
    BY <2>4 DEF IsTotals
  <2>6. QED  BY <2>5
<1>2. A = SUBSET S
  <2> HIDE DEF A
  <2>1. A \in SUBSET SUBSET S
    BY DEF A
  <2>2. QED  BY <1>1, <2>1, SubsetInduction
<1>3. QED  BY <1>2

\* The sum is computed one element at a time.
LEMMA TotalStep ==
    ASSUME NEW f, NEW S, IsFiniteSet(S)
    PROVE  /\ S = {} => SumFunctionOnSet(f, S) = 0
           /\ S # {} => SumFunctionOnSet(f, S) = f[Picked(S)] + SumFunctionOnSet(f, S \ {Picked(S)})
<1> DEFINE R == S \ {Picked(S)}
           g == CHOOSE g : IsTotals(g, f, S)
           h == CHOOSE h : IsTotals(h, f, R)
<1>1. IsFiniteSet(R) /\ R \in SUBSET S
  BY FS_Subset
<1>2. IsTotals(g, f, S) /\ IsTotals(h, f, R)
  BY <1>1, TotalsExist
<1>3. SumFunctionOnSet(f, S) = g[S] /\ SumFunctionOnSet(f, R) = h[R]
  BY TotalIsChosen
<1> HIDE DEF g, h
<1>4. g[R] = h[R]
  BY <1>1, <1>2, TotalsAgree
<1>5. QED  BY <1>2, <1>3, <1>4, TotalsStep

\* A sum of natural numbers is one.
LEMMA TotalType ==
    ASSUME NEW f, NEW S, IsFiniteSet(S), \A x \in S : f[x] \in Nat
    PROVE  SumFunctionOnSet(f, S) \in Nat
<1> DEFINE A == {T \in SUBSET S : SumFunctionOnSet(f, T) \in Nat}
<1>1. ASSUME NEW T \in SUBSET S, \A U \in SUBSET T : U # T => U \in A
      PROVE  T \in A
  <2>1. IsFiniteSet(T)
    BY FS_Subset
  <2>2. CASE T = {}
    <3>1. SumFunctionOnSet(f, T) = 0
      BY ONLY <2>1, <2>2, TotalStep
    <3>2. QED  BY <3>1
  <2>3. CASE T # {}
    <3> DEFINE p == Picked(T)
    <3>1. p \in T
      BY <2>3, PickedIn
    <3>2. SumFunctionOnSet(f, T) = f[p] + SumFunctionOnSet(f, T \ {p})
      BY <2>1, <2>3, TotalStep
    <3>3. SumFunctionOnSet(f, T \ {p}) \in Nat
      BY <1>1, <3>1
    <3>4. f[p] \in Nat
      BY <3>1
    <3> HIDE DEF p
    <3>5. QED  BY <3>2, <3>3, <3>4
  <2>4. QED  BY <2>2, <2>3
<1>2. A = SUBSET S
  <2> HIDE DEF A
  <2>1. A \in SUBSET SUBSET S
    BY DEF A
  <2>2. QED  BY <1>1, <2>1, SubsetInduction
<1>3. QED  BY <1>2

\* Any element may be taken out first: the order is of no account.
LEMMA TotalRemove ==
    ASSUME NEW f, NEW S, IsFiniteSet(S), \A x \in S : f[x] \in Nat, NEW e \in S
    PROVE  SumFunctionOnSet(f, S) = f[e] + SumFunctionOnSet(f, S \ {e})
<1> DEFINE A == {T \in SUBSET S : \A x \in T :
                    SumFunctionOnSet(f, T) = f[x] + SumFunctionOnSet(f, T \ {x})}
<1>1. ASSUME NEW T \in SUBSET S, \A U \in SUBSET T : U # T => U \in A
      PROVE  T \in A
  <2> SUFFICES ASSUME NEW x \in T PROVE SumFunctionOnSet(f, T) = f[x] + SumFunctionOnSet(f, T \ {x})
    OBVIOUS
  <2> DEFINE p == Picked(T)
             U == T \ {p}
             V == T \ {x}
             W == T \ {p, x}
  <2>1. IsFiniteSet(T) /\ IsFiniteSet(W) /\ W \subseteq S
    BY FS_Subset
  <2>2. p \in T
    BY PickedIn
  <2>3. SumFunctionOnSet(f, T) = f[p] + SumFunctionOnSet(f, U)
    BY <2>1, TotalStep
  <2>4. CASE x = p
    BY <2>3, <2>4
  <2>5. CASE x # p
    <3>1. U \in A /\ V \in A /\ x \in U /\ p \in V
      BY <1>1, <2>2, <2>5
    <3>2. U \ {x} = W /\ V \ {p} = W
      OBVIOUS
    <3>3. /\ SumFunctionOnSet(f, U) = f[x] + SumFunctionOnSet(f, U \ {x})
          /\ SumFunctionOnSet(f, V) = f[p] + SumFunctionOnSet(f, V \ {p})
      BY <3>1
    <3>4. SumFunctionOnSet(f, W) \in Nat
      BY <2>1, TotalType
    <3>5. f[x] \in Nat /\ f[p] \in Nat
      BY <2>2
    <3> HIDE DEF p, U, V, W
    <3>6. /\ SumFunctionOnSet(f, U) = f[x] + SumFunctionOnSet(f, W)
          /\ SumFunctionOnSet(f, V) = f[p] + SumFunctionOnSet(f, W)
      BY <3>2, <3>3
    <3>7. SumFunctionOnSet(f, T) = f[x] + SumFunctionOnSet(f, V)
      BY <2>3, <3>4, <3>5, <3>6
    <3>8. QED  BY <3>7 DEF V
  <2>6. QED  BY <2>4, <2>5
<1>2. A = SUBSET S
  <2> HIDE DEF A
  <2>1. A \in SUBSET SUBSET S
    BY DEF A
  <2>2. QED  BY <1>1, <2>1, SubsetInduction
<1>3. QED  BY <1>2

\* Nothing adds up to zero.
LEMMA TotalEmpty == ASSUME NEW f PROVE SumFunctionOnSet(f, {}) = 0
BY FS_EmptySet, TotalStep

\* One more element.
LEMMA TotalAdd ==
    ASSUME NEW f, NEW S, IsFiniteSet(S), \A x \in S : f[x] \in Nat,
           NEW e, e \notin S, f[e] \in Nat
    PROVE  SumFunctionOnSet(f, S \cup {e}) = f[e] + SumFunctionOnSet(f, S)
<1> DEFINE T == S \cup {e}
<1>1. IsFiniteSet(T) /\ e \in T /\ T \ {e} = S /\ \A x \in T : f[x] \in Nat
  BY FS_AddElement
<1> HIDE DEF T
<1>2. SumFunctionOnSet(f, T) = f[e] + SumFunctionOnSet(f, T \ {e})
  BY <1>1, TotalRemove
<1>3. QED  BY <1>1, <1>2 DEF T

\* Sums of two functions, one nowhere above the other.
LEMMA TotalBelow ==
    ASSUME NEW f, NEW g, NEW S, IsFiniteSet(S),
           \A x \in S : f[x] \in Nat /\ g[x] \in Nat /\ f[x] <= g[x]
    PROVE  /\ SumFunctionOnSet(f, S) <= SumFunctionOnSet(g, S)
           /\ SumFunctionOnSet(f, S) = SumFunctionOnSet(g, S) => \A x \in S : f[x] = g[x]
<1> DEFINE P(T) == /\ SumFunctionOnSet(f, T) <= SumFunctionOnSet(g, T)
                   /\ SumFunctionOnSet(f, T) = SumFunctionOnSet(g, T) => \A x \in T : f[x] = g[x]
           A == {T \in SUBSET S : P(T)}
<1>1. ASSUME NEW T \in SUBSET S, \A U \in SUBSET T : U # T => U \in A
      PROVE  T \in A
  <2>1. IsFiniteSet(T)
    BY FS_Subset
  <2>2. CASE T = {}
    <3>1. SumFunctionOnSet(f, T) = 0 /\ SumFunctionOnSet(g, T) = 0
      BY <2>2, TotalEmpty
    <3>2. QED  BY <2>2, <3>1
  <2>3. CASE T # {}
    <3>1. PICK p \in T : TRUE
      BY <2>3
    <3> DEFINE U == T \ {p}
               a == SumFunctionOnSet(f, U)
               b == SumFunctionOnSet(g, U)
    <3>2. U \in A
      BY <1>1, <3>1
    <3>3. P(U)
      <4> HIDE DEF P
      <4>1. QED  BY <3>2
    <3>4. IsFiniteSet(U)
      BY FS_Subset, <2>1
    <3>5. /\ \A x \in T : f[x] \in Nat /\ g[x] \in Nat /\ f[x] <= g[x]
          /\ \A x \in U : f[x] \in Nat /\ g[x] \in Nat
      OBVIOUS
    <3>6. a \in Nat /\ b \in Nat
      BY <3>4, <3>5, TotalType
    <3>7. SumFunctionOnSet(f, T) = f[p] + a /\ SumFunctionOnSet(g, T) = g[p] + b
      BY <2>1, <3>5, TotalRemove
    <3>8. a <= b /\ (a = b => \A x \in U : f[x] = g[x])
      BY <3>3
    <3>9. \A x \in T : x = p \/ x \in U
      OBVIOUS
    <3> HIDE DEF a, b, U
    <3>10. P(T)
      BY <3>5, <3>6, <3>7, <3>8, <3>9
    <3> HIDE DEF P
    <3>11. QED  BY <3>10
  <2>4. QED  BY <2>2, <2>3
<1>2. A = SUBSET S
  <2> HIDE DEF A
  <2>1. A \in SUBSET SUBSET S
    BY DEF A
  <2>2. QED  BY <1>1, <2>1, SubsetInduction
<1>3. P(S)
  <2> HIDE DEF P
  <2>1. QED  BY <1>2
<1>4. QED  BY <1>3

\* The sum over two disjoint sets.
LEMMA TotalUnion ==
    ASSUME NEW f, NEW S, NEW R, IsFiniteSet(S), IsFiniteSet(R), S \cap R = {},
           \A x \in S \cup R : f[x] \in Nat
    PROVE  SumFunctionOnSet(f, S \cup R) = SumFunctionOnSet(f, S) + SumFunctionOnSet(f, R)
<1> DEFINE A == {T \in SUBSET S : SumFunctionOnSet(f, T \cup R) =
                                    SumFunctionOnSet(f, T) + SumFunctionOnSet(f, R)}
<1>1. ASSUME NEW T \in SUBSET S, \A U \in SUBSET T : U # T => U \in A
      PROVE  T \in A
  <2>1. IsFiniteSet(T) /\ IsFiniteSet(T \cup R) /\ SumFunctionOnSet(f, R) \in Nat
    BY FS_Subset, FS_Union, TotalType
  <2>2. CASE T = {}
    <3>1. SumFunctionOnSet(f, T) = 0 /\ T \cup R = R
      BY <2>2, TotalEmpty
    <3>2. QED  BY <2>1, <3>1
  <2>3. CASE T # {}
    <3>1. PICK p \in T : TRUE
      BY <2>3
    <3> DEFINE U == T \ {p}
               V == T \cup R
               W == U \cup R
    <3>2. U \in A
      BY <1>1, <3>1
    <3>3. SumFunctionOnSet(f, W) = SumFunctionOnSet(f, U) + SumFunctionOnSet(f, R)
      BY <3>2
    <3>4. IsFiniteSet(U) /\ \A x \in U : f[x] \in Nat
      BY FS_Subset, <2>1
    <3>5. SumFunctionOnSet(f, U) \in Nat /\ f[p] \in Nat
      BY <3>4, TotalType
    <3>6. SumFunctionOnSet(f, T) = f[p] + SumFunctionOnSet(f, U)
      BY <2>1, TotalRemove
    <3>7. p \in V /\ V \ {p} = W /\ IsFiniteSet(V) /\ \A x \in V : f[x] \in Nat
      BY <2>1
    <3>8. SumFunctionOnSet(f, V) = f[p] + SumFunctionOnSet(f, W)
      <4> HIDE DEF V
      <4>1. QED  BY <3>7, TotalRemove
    <3> HIDE DEF U, W, V
    <3>9. SumFunctionOnSet(f, V) = SumFunctionOnSet(f, T) + SumFunctionOnSet(f, R)
      BY <2>1, <3>3, <3>5, <3>6, <3>8
    <3>10. QED  BY <3>9 DEF V
  <2>4. QED  BY <2>2, <2>3
<1>2. A = SUBSET S
  <2> HIDE DEF A
  <2>1. A \in SUBSET SUBSET S
    BY DEF A
  <2>2. QED  BY <1>1, <2>1, SubsetInduction
<1>3. QED  BY <1>2

\* The sum over a part of a set.
LEMMA TotalPart ==
    ASSUME NEW f, NEW S, NEW R, IsFiniteSet(S), R \subseteq S, \A x \in S : f[x] \in Nat
    PROVE  SumFunctionOnSet(f, S) = SumFunctionOnSet(f, R) + SumFunctionOnSet(f, S \ R)
<1> DEFINE Q == S \ R
<1>1. IsFiniteSet(R) /\ IsFiniteSet(Q) /\ R \cap Q = {} /\ R \cup Q = S
  BY FS_Subset
<1> HIDE DEF Q
<1>2. SumFunctionOnSet(f, R \cup Q) = SumFunctionOnSet(f, R) + SumFunctionOnSet(f, Q)
  BY <1>1, TotalUnion
<1>3. QED  BY <1>1, <1>2 DEF Q

-----------------------------------------------------------------------------
(***************************************************************************)
(* Batches                                                                 *)
(***************************************************************************)
\* The division rounds up: the last batch of a phase is not empty.
LEMMA RoundedUp ==
    ASSUME NEW t \in Nat, NEW w \in Nat \ {0}, NEW n, n = (t + w - 1) \div w
    PROVE  n \in Nat /\ \A k \in Nat : k < n => k * w < t
<1> DEFINE u == t + w - 1
<1>1. u \in Nat
  OBVIOUS
<1>2. n = u \div w
  OBVIOUS
<1> HIDE DEF u
<1>3. n \in Nat
  BY <1>1, <1>2
<1>4. n * w <= u
  BY <1>1, <1>2
<1>5. ASSUME NEW k \in Nat, k < n PROVE k * w < t
  <2> DEFINE m == n - k - 1
             x == k * w
             y == m * w
             z == n * w
  <2>1. m \in Nat /\ n = k + m + 1
    BY <1>3, <1>5
  <2> HIDE DEF m
  <2>2. z = x + y + w
    BY <2>1
  <2>3. x \in Nat /\ y \in Nat
    BY <2>1
  <2> HIDE DEF x, y, z
  <2>4. z <= t + w - 1
    BY <1>4 DEF u, z
  <2>5. x < t
    BY <2>2, <2>3, <2>4
  <2>6. QED  BY <2>5 DEF x
<1>6. QED  BY <1>3, <1>5

\* The batches of the two phases are numbered through.
LEMMA Numbering ==
    /\ \A p \in Phases : BatchCount(p) \in Nat /\ TotalRows(p) \in Nat /\ FirstBatch(p) \in Nat \ {0}
    /\ \A p \in Phases : LastBatch(p) = FirstBatch(p) + BatchCount(p) - 1
    /\ FirstBatch("warmup") = 1 /\ FirstBatch("measured") = LastBatch("warmup") + 1
    /\ \A p \in Phases : BatchesOf(p) \subseteq Batches
    /\ Batches = BatchesOf("warmup") \cup BatchesOf("measured")
    /\ BatchesOf("warmup") \cap BatchesOf("measured") = {}
    /\ \A p \in Phases : \A b \in BatchesOf(p) : PhaseOf(b) = p
    /\ \A b \in Batches : b \in Nat \ {0}
<1> DEFINE W == BatchCount("warmup")
           M == BatchCount("measured")
<1>1. \A p \in Phases : TotalRows(p) \in Nat
  BY LoadAssumption DEF TotalRows, Phases
<1>2. \A p \in Phases : BatchCount(p) \in Nat
  BY <1>1, LoadAssumption, RoundedUp DEF BatchCount
<1>3. W \in Nat /\ M \in Nat
  BY <1>2 DEF Phases
<1>4. /\ FirstBatch("warmup") = 1 /\ FirstBatch("measured") = W + 1
      /\ LastBatch("warmup") = 1 + W - 1 /\ LastBatch("measured") = W + 1 + M - 1
  BY DEF FirstBatch, LastBatch
<1> HIDE DEF W, M
<1>5. /\ LastBatch("warmup") = W /\ LastBatch("measured") = W + M
  BY <1>3, <1>4
<1>6. /\ BatchesOf("warmup") = 1 .. W /\ BatchesOf("measured") = (W + 1) .. (W + M)
      /\ Batches = 1 .. (W + M)
  BY <1>4, <1>5 DEF BatchesOf, Batches
<1>7. \A p \in Phases : p = "warmup" \/ p = "measured"
  BY DEF Phases
<1>8. \A p \in Phases : FirstBatch(p) \in Nat \ {0} /\ BatchesOf(p) \subseteq Batches
  BY <1>3, <1>4, <1>6, <1>7
<1>9. /\ Batches = BatchesOf("warmup") \cup BatchesOf("measured")
      /\ BatchesOf("warmup") \cap BatchesOf("measured") = {}
      /\ \A b \in Batches : b \in Nat \ {0}
  BY <1>3, <1>6
<1>10. \A p \in Phases : \A b \in BatchesOf(p) : PhaseOf(b) = p
  BY <1>3, <1>5, <1>6, <1>7 DEF PhaseOf
<1>11. \A p \in Phases : LastBatch(p) = FirstBatch(p) + BatchCount(p) - 1
  BY DEF LastBatch
<1>12. QED  BY <1>1, <1>2, <1>3, <1>4, <1>5, <1>8, <1>9, <1>10, <1>11

\* No batch is empty.
LEMMA RowsPositive == \A b \in Batches : RowsOf(b) \in Nat \ {0}
<1> SUFFICES ASSUME NEW b \in Batches PROVE RowsOf(b) \in Nat \ {0}
  OBVIOUS
<1>1. PICK p \in Phases : b \in BatchesOf(p)
  BY Numbering DEF Phases
<1> DEFINE n == BatchCount(p)
           t == TotalRows(p)
           k == b - FirstBatch(p)
<1>2. PhaseOf(b) = p /\ n \in Nat /\ t \in Nat /\ FirstBatch(p) \in Nat /\ b \in Nat
  BY <1>1, Numbering
<1>3. b \in FirstBatch(p) .. (FirstBatch(p) + n - 1)
  BY <1>1, Numbering DEF BatchesOf
<1>4. k \in Nat /\ k < n
  BY <1>2, <1>3
<1>5. n = (t + BatchSize - 1) \div BatchSize
  BY DEF BatchCount
<1>6. RowsOf(b) = IF t - k * BatchSize < BatchSize THEN t - k * BatchSize ELSE BatchSize
  BY <1>2 DEF RowsOf
<1> HIDE DEF n, t, k
<1>7. k * BatchSize < t
  BY <1>2, <1>4, <1>5, LoadAssumption, RoundedUp
<1> DEFINE x == k * BatchSize
<1>8. x \in Nat /\ x < t
  BY <1>4, <1>7, LoadAssumption
<1>9. RowsOf(b) = IF t - x < BatchSize THEN t - x ELSE BatchSize
  BY <1>6
<1> HIDE DEF x
<1>10. QED  BY <1>2, <1>8, <1>9, LoadAssumption

\* Parts of the batches are finite, and their rows can be counted.
LEMMA Countable ==
    ASSUME NEW S, S \subseteq Batches
    PROVE  /\ IsFiniteSet(S) /\ Cardinality(S) \in Nat
           /\ RowsIn(S) \in Nat
           /\ \A st \in [Batches -> Nat] : SumFunctionOnSet(st, S) \in Nat
<1> DEFINE f == [b \in Batches |-> RowsOf(b)]
<1>1. IsFiniteSet(Batches)
  <2> DEFINE last == LastBatch("measured")
  <2>1. 1 \in Int /\ last \in Int
    <3>1. "measured" \in Phases
      BY DEF Phases
    <3>2. QED  BY <3>1, Numbering DEF LastBatch
  <2> HIDE DEF last
  <2>2. IsFiniteSet(1 .. last)
    BY <2>1, FS_Interval
  <2>3. QED  BY <2>2 DEF last, Batches
<1>2. IsFiniteSet(S) /\ Cardinality(S) \in Nat
  BY <1>1, FS_Subset, FS_CardinalityType
<1>3. \A b \in S : f[b] \in Nat
  BY RowsPositive
<1> HIDE DEF f
<1>4. SumFunctionOnSet(f, S) \in Nat
  BY <1>2, <1>3, TotalType
<1>5. ASSUME NEW st \in [Batches -> Nat] PROVE SumFunctionOnSet(st, S) \in Nat
  <2>1. \A b \in S : st[b] \in Nat
    OBVIOUS
  <2>2. QED  BY <1>2, <2>1, TotalType
<1>6. QED  BY <1>2, <1>4, <1>5 DEF f, RowsIn

\* The rows of a part and of the rest.
LEMMA RowsPart ==
    ASSUME NEW S, NEW R, S \subseteq Batches, R \subseteq S
    PROVE  RowsIn(S) = RowsIn(R) + RowsIn(S \ R)
<1> DEFINE f == [b \in Batches |-> RowsOf(b)]
<1>1. \A b \in S : f[b] \in Nat
  BY RowsPositive
<1> HIDE DEF f
<1>2. SumFunctionOnSet(f, S) = SumFunctionOnSet(f, R) + SumFunctionOnSet(f, S \ R)
  BY <1>1, Countable, TotalPart
<1>3. QED  BY <1>2 DEF f, RowsIn

\* One batch more.
LEMMA RowsAdd ==
    ASSUME NEW S, S \subseteq Batches, NEW b \in Batches, b \notin S
    PROVE  /\ RowsIn(S \cup {b}) = RowsIn(S) + RowsOf(b)
           /\ Cardinality(S \cup {b}) = Cardinality(S) + 1
<1> DEFINE f == [x \in Batches |-> RowsOf(x)]
<1>1. /\ \A x \in S : f[x] \in Nat
      /\ f[b] \in Nat /\ f[b] = RowsOf(b)
  BY RowsPositive
<1> HIDE DEF f
<1>2. SumFunctionOnSet(f, S \cup {b}) = f[b] + SumFunctionOnSet(f, S)
  BY <1>1, Countable, TotalAdd
<1>3. Cardinality(S \cup {b}) = Cardinality(S) + 1
  BY Countable, FS_AddElement
<1>4. SumFunctionOnSet(f, S) \in Nat
  BY Countable DEF f, RowsIn
<1>5. QED  BY <1>1, <1>2, <1>3, <1>4 DEF f, RowsIn

\* No batches have no rows.
LEMMA RowsNone == RowsIn({}) = 0 /\ Cardinality({}) = 0 /\ \A st : SumFunctionOnSet(st, {}) = 0
BY TotalEmpty, FS_EmptySet DEF RowsIn

\* One batch alone.
LEMMA RowsOne ==
    ASSUME NEW b \in Batches
    PROVE  RowsIn({b}) = RowsOf(b) /\ Cardinality({b}) = 1
<1>1. RowsIn({} \cup {b}) = RowsIn({}) + RowsOf(b) /\ Cardinality({} \cup {b}) = Cardinality({}) + 1
  BY RowsAdd
<1>2. {} \cup {b} = {b}
  OBVIOUS
<1>3. QED  BY <1>1, <1>2, RowsNone, RowsPositive

-----------------------------------------------------------------------------
(***************************************************************************)
(* The account of one phase.                                               *)
(***************************************************************************)
CounterType ==
    [started : Nat, completed : Nat, attempted : Nat, confirmed : Nat, rejected : Nat,
     indeterminate : Nat]

\* The first n batches of a phase.
UpTo(phase, n) == FirstBatch(phase) .. (FirstBatch(phase) + n - 1)

\* The counters c of a phase are those of the batches dispatched in order, of
\* which the batches "out" are in flight; st is what PostgreSQL has.
Ledger(phase, c, out, st) ==
    /\ c.started \in 0 .. BatchCount(phase)
    /\ out \subseteq UpTo(phase, c.started)
    /\ c.attempted = RowsIn(UpTo(phase, c.started))
    /\ c.completed = Cardinality(UpTo(phase, c.started) \ out)
    /\ c.confirmed + c.rejected + c.indeterminate = RowsIn(UpTo(phase, c.started) \ out)
    /\ c.confirmed <= SumFunctionOnSet(st, UpTo(phase, c.started) \ out)

\* The batches of a phase are dispatched one after the other.
LEMMA UpToFacts ==
    ASSUME NEW p \in Phases, NEW n \in 0 .. BatchCount(p)
    PROVE  /\ UpTo(p, n) \subseteq BatchesOf(p) /\ UpTo(p, n) \subseteq Batches
           /\ UpTo(p, 0) = {} /\ UpTo(p, BatchCount(p)) = BatchesOf(p)
           /\ Cardinality(UpTo(p, n)) = n
           /\ n < BatchCount(p) =>
                /\ UpTo(p, n + 1) = UpTo(p, n) \cup {FirstBatch(p) + n}
                /\ FirstBatch(p) + n \notin UpTo(p, n)
                /\ FirstBatch(p) + n \in BatchesOf(p) /\ FirstBatch(p) + n \in Batches
<1> DEFINE f == FirstBatch(p)
           m == BatchCount(p)
<1>1. f \in Nat \ {0} /\ m \in Nat /\ LastBatch(p) = f + m - 1 /\ BatchesOf(p) \subseteq Batches
  BY Numbering
<1>2. /\ \A k : UpTo(p, k) = f .. (f + k - 1)
      /\ BatchesOf(p) = f .. (f + m - 1)
  BY <1>1 DEF UpTo, BatchesOf
<1> HIDE DEF f, m
<1>3. n \in 0 .. m
  BY DEF m
<1>4. /\ UpTo(p, n) \subseteq BatchesOf(p) /\ UpTo(p, 0) = {} /\ UpTo(p, m) = BatchesOf(p)
      /\ n < m => /\ UpTo(p, n + 1) = UpTo(p, n) \cup {f + n}
                  /\ f + n \notin UpTo(p, n) /\ f + n \in BatchesOf(p)
  <2>1. /\ UpTo(p, n) = f .. (f + n - 1) /\ UpTo(p, 0) = f .. (f + 0 - 1)
        /\ UpTo(p, m) = f .. (f + m - 1) /\ UpTo(p, n + 1) = f .. (f + (n + 1) - 1)
    BY <1>2
  <2>2. f \in Nat /\ n \in Nat /\ m \in Nat /\ n <= m
    BY <1>1, <1>3
  <2>3. f .. (f + n - 1) \subseteq f .. (f + m - 1) /\ f .. (f + 0 - 1) = {}
    BY <2>2
  <2>4. /\ f .. (f + (n + 1) - 1) = (f .. (f + n - 1)) \cup {f + n}
        /\ f + n \notin f .. (f + n - 1)
        /\ n < m => f + n \in f .. (f + m - 1)
    BY <2>2
  <2>5. QED  BY <1>2, <2>1, <2>3, <2>4
<1>5. Cardinality(UpTo(p, n)) = n
  <2> DEFINE l == f + n - 1
  <2>1. f \in Int /\ l \in Int /\ l - f + 1 = n /\ n >= 0
    BY <1>1, <1>3
  <2> HIDE DEF l
  <2>2. Cardinality(f .. l) = IF f > l THEN 0 ELSE l - f + 1
    BY <2>1, FS_Interval
  <2>3. Cardinality(f .. l) = n
    BY <2>1, <2>2, <1>3
  <2>4. QED  BY <2>3, <1>2 DEF l
<1>6. QED  BY <1>1, <1>4, <1>5 DEF f, m

\* Nothing has been sent.
LEMMA LedgerFresh ==
    ASSUME NEW p \in Phases, NEW st
    PROVE  NoCounters \in CounterType /\ NoCounters.started = 0 /\ Ledger(p, NoCounters, {}, st)
<1>1. BatchCount(p) \in Nat
  BY Numbering
<1>2. UpTo(p, 0) = {}
  BY <1>1, UpToFacts
<1>3. 0 \in 0 .. BatchCount(p)
  BY <1>1
<1>4. {} \ {} = {}
  OBVIOUS
<1>5. /\ NoCounters.started = 0 /\ NoCounters.completed = 0 /\ NoCounters.attempted = 0
      /\ NoCounters.confirmed = 0 /\ NoCounters.rejected = 0 /\ NoCounters.indeterminate = 0
      /\ NoCounters \in CounterType
  BY DEF NoCounters, CounterType
<1>6. /\ Ledger(p, NoCounters, {}, st)
  <2> HIDE DEF NoCounters
  <2>1. QED  BY <1>2, <1>3, <1>4, <1>5, RowsNone DEF Ledger
<1>7. QED  BY <1>5, <1>6

\* What dispatching does to the counters.
LEMMA DispatchedIs ==
    ASSUME NEW c \in CounterType, NEW S, S \subseteq Batches
    PROVE  /\ Dispatched(c, S) \in CounterType
           /\ Dispatched(c, S).started = c.started + Cardinality(S)
           /\ Dispatched(c, S).attempted = c.attempted + RowsIn(S)
           /\ Dispatched(c, S).completed = c.completed
           /\ Dispatched(c, S).confirmed = c.confirmed
           /\ Dispatched(c, S).rejected = c.rejected
           /\ Dispatched(c, S).indeterminate = c.indeterminate
<1> DEFINE s == c.started + Cardinality(S)
           a == c.attempted + RowsIn(S)
<1>1. s \in Nat /\ a \in Nat
  BY Countable DEF CounterType
<1>2. Dispatched(c, S) = [c EXCEPT !.started = s, !.attempted = a]
  BY DEF Dispatched
<1> HIDE DEF s, a
<1>3. /\ Dispatched(c, S) \in CounterType
      /\ Dispatched(c, S).started = s /\ Dispatched(c, S).attempted = a
      /\ Dispatched(c, S).completed = c.completed /\ Dispatched(c, S).confirmed = c.confirmed
      /\ Dispatched(c, S).rejected = c.rejected
      /\ Dispatched(c, S).indeterminate = c.indeterminate
  BY <1>1, <1>2 DEF CounterType
<1>4. QED  BY <1>3 DEF s, a

\* The first batches of a phase.
LEMMA LedgerStart ==
    ASSUME NEW p \in Phases, NEW n \in 0 .. BatchCount(p), NEW st
    PROVE  /\ Ledger(p, Dispatched(NoCounters, UpTo(p, n)), UpTo(p, n), st)
           /\ Dispatched(NoCounters, UpTo(p, n)).started = n
           /\ Dispatched(NoCounters, UpTo(p, n)) \in CounterType
<1> DEFINE S == UpTo(p, n)
           d == Dispatched(NoCounters, S)
<1>1. S \subseteq Batches /\ Cardinality(S) = n /\ RowsIn(S) \in Nat /\ n \in Nat
  BY UpToFacts, Countable, Numbering
<1>2. /\ NoCounters \in CounterType
      /\ NoCounters.started = 0 /\ NoCounters.completed = 0 /\ NoCounters.attempted = 0
      /\ NoCounters.confirmed = 0 /\ NoCounters.rejected = 0 /\ NoCounters.indeterminate = 0
  BY DEF NoCounters, CounterType
<1> HIDE DEF NoCounters
<1>3. S \ S = {}
  OBVIOUS
<1> HIDE DEF S
<1>4. /\ d \in CounterType
      /\ d.started = NoCounters.started + Cardinality(S)
      /\ d.attempted = NoCounters.attempted + RowsIn(S)
      /\ d.completed = NoCounters.completed /\ d.confirmed = NoCounters.confirmed
      /\ d.rejected = NoCounters.rejected /\ d.indeterminate = NoCounters.indeterminate
  BY <1>1, <1>2, DispatchedIs
<1> HIDE DEF d
<1>5. /\ d.started = n /\ d.attempted = RowsIn(S) /\ d.completed = 0 /\ d.confirmed = 0
      /\ d.rejected = 0 /\ d.indeterminate = 0
  BY <1>1, <1>2, <1>4
<1>6. Ledger(p, d, S, st)
  BY <1>1, <1>3, <1>5, RowsNone DEF Ledger, S
<1>7. QED  BY <1>4, <1>5, <1>6 DEF d, S

\* A worker sends the next batch.
LEMMA LedgerDispatch ==
    ASSUME NEW p \in Phases, NEW c \in CounterType, NEW out, NEW st,
           Ledger(p, c, out, st), c.started < BatchCount(p),
           NEW b, b = FirstBatch(p) + c.started
    PROVE  /\ b \in BatchesOf(p) /\ b \notin UpTo(p, c.started)
           /\ Dispatched(c, {b}) \in CounterType
           /\ Dispatched(c, {b}).started = c.started + 1
           /\ UpTo(p, c.started + 1) = UpTo(p, c.started) \cup {b}
           /\ Ledger(p, Dispatched(c, {b}), out \cup {b}, st)
<1> DEFINE n == c.started
           U == UpTo(p, n)
           V == UpTo(p, n + 1)
           d == Dispatched(c, {b})
<1>1. /\ n \in 0 .. BatchCount(p) /\ out \subseteq U /\ c.attempted = RowsIn(U)
      /\ c.completed = Cardinality(U \ out)
      /\ c.confirmed + c.rejected + c.indeterminate = RowsIn(U \ out)
      /\ c.confirmed <= SumFunctionOnSet(st, U \ out)
  BY DEF Ledger
<1>2. /\ U \subseteq Batches /\ V = U \cup {b} /\ b \notin U /\ b \in Batches /\ b \in BatchesOf(p)
  BY <1>1, UpToFacts
<1>3. /\ RowsIn(V) = RowsIn(U) + RowsOf(b) /\ RowsIn({b}) = RowsOf(b) /\ Cardinality({b}) = 1
  BY <1>2, RowsAdd, RowsOne
<1>4. /\ d \in CounterType
      /\ d.started = n + Cardinality({b}) /\ d.attempted = c.attempted + RowsIn({b})
      /\ d.completed = c.completed /\ d.confirmed = c.confirmed
      /\ d.rejected = c.rejected /\ d.indeterminate = c.indeterminate
  BY <1>2, DispatchedIs
<1>5. n + 1 \in 0 .. BatchCount(p)
  BY <1>1, Numbering
<1> HIDE DEF d
<1>6. d.started = n + 1 /\ d.attempted = RowsIn(V)
  BY <1>1, <1>3, <1>4
<1>7. V \ (out \cup {b}) = U \ out /\ out \cup {b} \subseteq V
  BY <1>1, <1>2
<1>8. Ledger(p, d, out \cup {b}, st)
  <2> HIDE DEF n, U
  <2>1. UpTo(p, d.started) = V
    BY <1>6
  <2> HIDE DEF V
  <2>2. QED  BY <1>1, <1>4, <1>5, <1>6, <1>7, <2>1 DEF Ledger
<1>9. QED  BY <1>2, <1>4, <1>6, <1>8 DEF d

\* What the outcome of a request does to the counters.
LEMMA SettledIs ==
    ASSUME NEW c \in CounterType, NEW b \in Batches, NEW kept, NEW success \in BOOLEAN,
           success => kept \in 0 .. RowsOf(b)
    PROVE  LET d == Settled(c, b, kept, success) IN
           /\ d \in CounterType
           /\ d.started = c.started /\ d.attempted = c.attempted
           /\ d.completed = c.completed + 1
           /\ d.confirmed + d.rejected + d.indeterminate
                = c.confirmed + c.rejected + c.indeterminate + RowsOf(b)
           /\ d.confirmed = IF success THEN c.confirmed + kept ELSE c.confirmed
<1> DEFINE r == RowsOf(b)
           completed == c.completed + 1
           confirmed == IF success THEN c.confirmed + kept ELSE c.confirmed
           rejected == IF success THEN c.rejected + (r - kept) ELSE c.rejected
           indeterminate == IF success THEN c.indeterminate ELSE c.indeterminate + r
           d == Settled(c, b, kept, success)
<1>1. /\ c.completed \in Nat /\ c.confirmed \in Nat /\ c.rejected \in Nat
      /\ c.indeterminate \in Nat /\ r \in Nat
  BY RowsPositive DEF CounterType
<1>2. /\ completed \in Nat /\ confirmed \in Nat /\ rejected \in Nat /\ indeterminate \in Nat
      /\ confirmed + rejected + indeterminate = c.confirmed + c.rejected + c.indeterminate + r
  <2>1. CASE success
    <3> HIDE DEF r
    <3>1. kept \in 0 .. r
      BY <2>1 DEF r
    <3>2. QED  BY <1>1, <2>1, <3>1
  <2>2. CASE ~success
    <3> HIDE DEF r
    <3>1. QED  BY <1>1, <2>2
  <2>3. QED  BY <2>1, <2>2
<1>3. d = [c EXCEPT !.completed = completed, !.confirmed = confirmed, !.rejected = rejected,
                    !.indeterminate = indeterminate]
  <2>1. CASE success
    BY <2>1 DEF Settled, CounterType
  <2>2. CASE ~success
    BY <2>2 DEF Settled, CounterType
  <2>3. QED  BY <2>1, <2>2
<1> HIDE DEF d, completed, confirmed, rejected, indeterminate
<1>4. /\ d \in CounterType
      /\ d.started = c.started /\ d.attempted = c.attempted
      /\ d.completed = completed /\ d.confirmed = confirmed /\ d.rejected = rejected
      /\ d.indeterminate = indeterminate
  BY <1>2, <1>3 DEF CounterType
<1>5. d.confirmed + d.rejected + d.indeterminate
        = c.confirmed + c.rejected + c.indeterminate + r
  BY <1>2, <1>4
<1>6. QED  BY <1>4, <1>5 DEF d, completed, confirmed, r

\* A worker accounts for the outcome of its request.
LEMMA LedgerSettle ==
    ASSUME NEW p \in Phases, NEW c \in CounterType, NEW out, NEW st \in [Batches -> Nat],
           Ledger(p, c, out, st), NEW b \in out, NEW kept, NEW success \in BOOLEAN,
           success => kept \in 0 .. RowsOf(b) /\ st[b] = kept
    PROVE  /\ Settled(c, b, kept, success) \in CounterType
           /\ Settled(c, b, kept, success).started = c.started
           /\ Ledger(p, Settled(c, b, kept, success), out \ {b}, st)
<1> DEFINE n == c.started
           U == UpTo(p, n)
           S == U \ out
           T == U \ (out \ {b})
           d == Settled(c, b, kept, success)
<1>1. /\ n \in 0 .. BatchCount(p) /\ out \subseteq U /\ c.attempted = RowsIn(U)
      /\ c.completed = Cardinality(S)
      /\ c.confirmed + c.rejected + c.indeterminate = RowsIn(S)
      /\ c.confirmed <= SumFunctionOnSet(st, S)
  BY DEF Ledger
<1>2. U \subseteq Batches
  BY <1>1, UpToFacts
<1> HIDE DEF U, n
<1>3. /\ b \in Batches /\ S \subseteq Batches /\ b \notin S /\ T = S \cup {b}
      /\ out \ {b} \subseteq U
  BY <1>1, <1>2
<1> HIDE DEF S, T
<1>4. RowsIn(T) = RowsIn(S) + RowsOf(b) /\ Cardinality(T) = Cardinality(S) + 1
  BY <1>3, RowsAdd
<1>5. /\ d \in CounterType
      /\ d.started = c.started /\ d.attempted = c.attempted /\ d.completed = c.completed + 1
      /\ d.confirmed + d.rejected + d.indeterminate
           = c.confirmed + c.rejected + c.indeterminate + RowsOf(b)
      /\ d.confirmed = IF success THEN c.confirmed + kept ELSE c.confirmed
  BY <1>3, SettledIs
<1>6. SumFunctionOnSet(st, T) = st[b] + SumFunctionOnSet(st, S)
  <2>1. IsFiniteSet(S) /\ \A x \in S : st[x] \in Nat
    BY <1>3, Countable
  <2>2. st[b] \in Nat
    BY <1>3
  <2>3. QED  BY <1>3, <2>1, <2>2, TotalAdd
<1> HIDE DEF d
<1>7. d.confirmed <= SumFunctionOnSet(st, T)
  <2>1. st[b] \in Nat /\ SumFunctionOnSet(st, S) \in Nat /\ c.confirmed \in Nat
    BY <1>3, Countable DEF CounterType
  <2>2. success => kept = st[b]
    OBVIOUS
  <2>3. QED  BY <1>1, <1>5, <1>6, <2>1, <2>2
<1>8. Ledger(p, d, out \ {b}, st)
  <2>1. UpTo(p, d.started) = U /\ UpTo(p, d.started) \ (out \ {b}) = T
    BY <1>5 DEF U, T, n
  <2>2. d.completed = Cardinality(T) /\ d.attempted = RowsIn(U)
    BY <1>1, <1>4, <1>5
  <2>3. d.confirmed + d.rejected + d.indeterminate = RowsIn(T)
    BY <1>1, <1>4, <1>5
  <2>4. d.started \in 0 .. BatchCount(p)
    BY <1>1, <1>5 DEF n
  <2>5. QED  BY ONLY <1>3, <1>7, <2>1, <2>2, <2>3, <2>4 DEF Ledger
<1>9. QED  BY <1>5, <1>8 DEF d

\* More rows in PostgreSQL harm no account.
LEMMA LedgerStores ==
    ASSUME NEW p \in Phases, NEW c \in CounterType, NEW out,
           NEW st \in [Batches -> Nat], NEW st2 \in [Batches -> Nat],
           \A b \in Batches : st[b] <= st2[b], Ledger(p, c, out, st)
    PROVE  Ledger(p, c, out, st2)
<1> DEFINE U == UpTo(p, c.started)
           S == U \ out
<1>1. c.started \in 0 .. BatchCount(p) /\ c.confirmed <= SumFunctionOnSet(st, S)
  BY DEF Ledger
<1>2. U \subseteq Batches
  BY <1>1, UpToFacts
<1>3. S \subseteq Batches
  BY <1>2
<1> HIDE DEF S
<1>4. IsFiniteSet(S) /\ \A x \in S : st[x] \in Nat /\ st2[x] \in Nat /\ st[x] <= st2[x]
  BY <1>3, Countable
<1>5. SumFunctionOnSet(st, S) <= SumFunctionOnSet(st2, S)
  BY <1>4, TotalBelow
<1>6. c.confirmed <= SumFunctionOnSet(st2, S)
  <2>1. /\ c.confirmed \in Nat /\ SumFunctionOnSet(st, S) \in Nat
        /\ SumFunctionOnSet(st2, S) \in Nat
    BY <1>3, Countable DEF CounterType
  <2>2. QED  BY <1>1, <1>5, <2>1
<1>7. QED  BY <1>6 DEF Ledger, S

\* The account balances: with what is in flight, each batch and each row is
\* in it once, and the rows confirmed are among those stored.
LEMMA LedgerBalances ==
    ASSUME NEW p \in Phases, NEW c \in CounterType, NEW out, NEW st \in [Batches -> Nat],
           Ledger(p, c, out, st)
    PROVE  /\ c.started = c.completed + Cardinality(out)
           /\ c.attempted = c.confirmed + c.rejected + c.indeterminate + RowsIn(out)
           /\ c.confirmed <= SumFunctionOnSet(st, BatchesOf(p))
<1> DEFINE U == UpTo(p, c.started)
           S == U \ out
           B == BatchesOf(p)
<1>1. /\ c.started \in 0 .. BatchCount(p) /\ out \subseteq U /\ c.attempted = RowsIn(U)
      /\ c.completed = Cardinality(S)
      /\ c.confirmed + c.rejected + c.indeterminate = RowsIn(S)
      /\ c.confirmed <= SumFunctionOnSet(st, S)
  BY DEF Ledger
<1>2. U \subseteq B /\ B \subseteq Batches /\ Cardinality(U) = c.started
  BY <1>1, UpToFacts, Numbering
<1> HIDE DEF U, B
<1>3. S \subseteq B /\ S \subseteq Batches /\ out \subseteq Batches /\ U \subseteq Batches
  BY <1>1, <1>2
<1>4. Cardinality(U) = Cardinality(S) + Cardinality(out)
  <2>1. IsFiniteSet(U) /\ IsFiniteSet(out) /\ Cardinality(U) \in Nat
    BY <1>3, Countable
  <2>2. U \cap out = out
    BY <1>1
  <2>3. Cardinality(U \ out) = Cardinality(U) - Cardinality(U \cap out)
    BY <2>1, FS_Difference
  <2>4. Cardinality(out) \in Nat
    BY <1>3, Countable
  <2>5. Cardinality(S) = Cardinality(U) - Cardinality(out)
    BY <2>2, <2>3
  <2> HIDE DEF S
  <2>6. Cardinality(S) \in Nat
    BY <1>3, Countable
  <2>7. QED  BY ONLY <2>1, <2>4, <2>5, <2>6
<1>5. RowsIn(U) = RowsIn(out) + RowsIn(S)
  BY <1>1, <1>3, RowsPart
<1> HIDE DEF S
<1>6. SumFunctionOnSet(st, B) = SumFunctionOnSet(st, S) + SumFunctionOnSet(st, B \ S)
  <2>1. IsFiniteSet(B) /\ \A x \in B : st[x] \in Nat
    BY <1>2, Countable
  <2>2. QED  BY <1>3, <2>1, TotalPart
<1>7. /\ SumFunctionOnSet(st, S) \in Nat /\ SumFunctionOnSet(st, B \ S) \in Nat
      /\ RowsIn(S) \in Nat /\ RowsIn(out) \in Nat /\ c.confirmed \in Nat
      /\ c.rejected \in Nat /\ c.indeterminate \in Nat
  <2>1. B \ S \subseteq Batches
    BY <1>2
  <2>2. QED  BY <1>3, <2>1, Countable DEF CounterType
<1>8. c.confirmed <= SumFunctionOnSet(st, B)
  BY <1>1, <1>6, <1>7
<1>9. QED  BY <1>1, <1>2, <1>4, <1>5, <1>7, <1>8 DEF B

\* A phase that sent all its batches and confirmed all its rows has stored
\* every one of them.
LEMMA LedgerComplete ==
    ASSUME NEW p \in Phases, NEW c \in CounterType, NEW st \in [Batches -> Nat],
           \A b \in Batches : st[b] <= RowsOf(b),
           Ledger(p, c, {}, st), c.started = BatchCount(p),
           c.rejected = 0, c.indeterminate = 0
    PROVE  (\A b \in BatchesOf(p) : st[b] = RowsOf(b)) /\ c.confirmed = c.attempted
<1> DEFINE B == BatchesOf(p)
           f == [b \in Batches |-> RowsOf(b)]
<1>1. UpTo(p, c.started) = B /\ B \subseteq Batches
  <2>1. BatchCount(p) \in 0 .. BatchCount(p)
    BY Numbering
  <2>2. QED  BY <2>1, UpToFacts, Numbering
<1>2. B \ {} = B
  OBVIOUS
<1> HIDE DEF B
<1>3. /\ c.attempted = RowsIn(B) /\ c.confirmed + c.rejected + c.indeterminate = RowsIn(B)
      /\ c.confirmed <= SumFunctionOnSet(st, B)
  BY <1>1, <1>2 DEF Ledger
<1>4. c.confirmed = RowsIn(B) /\ RowsIn(B) \in Nat /\ SumFunctionOnSet(st, B) \in Nat
  <2>1. c.confirmed \in Nat /\ RowsIn(B) \in Nat /\ SumFunctionOnSet(st, B) \in Nat
    BY <1>1, Countable DEF CounterType
  <2>2. QED  BY <1>3, <2>1
<1>5. \A b \in B : f[b] = RowsOf(b) /\ st[b] \in Nat /\ f[b] \in Nat /\ st[b] <= f[b]
  BY <1>1, RowsPositive
<1>6. SumFunctionOnSet(f, B) = RowsIn(B)
  BY DEF RowsIn
<1> HIDE DEF f
<1>7. IsFiniteSet(B)
  BY <1>1, Countable
<1>8. /\ SumFunctionOnSet(st, B) <= SumFunctionOnSet(f, B)
      /\ SumFunctionOnSet(st, B) = SumFunctionOnSet(f, B) => \A b \in B : st[b] = f[b]
  BY <1>5, <1>7, TotalBelow
<1>9. SumFunctionOnSet(st, B) = SumFunctionOnSet(f, B)
  BY <1>3, <1>4, <1>6, <1>8
<1>10. QED  BY <1>3, <1>4, <1>5, <1>8, <1>9 DEF B

-----------------------------------------------------------------------------
(***************************************************************************)
(* What holds of ingestion.                                                *)
(***************************************************************************)
PreWarm ==
    {"source", "port", "up", "health", "identify", "controls", "environment", "precount", "warmup"}
PreMeasure == PreWarm \cup {"warming", "aggregationWarmup", "measure"}
Sending == {"warming", "measuring"}

RequestType == [batch : Batches \cup {0}, kept : Nat \cup {Undecided}]

IngestionTypes ==
    /\ requests \in [Workers -> RequestType]
    /\ nextBatch \in Nat
    /\ counters \in [Phases -> CounterType]
    /\ stored \in [Batches -> Nat]
    /\ late \subseteq Batches

Ledgers == \A p \in Phases : Ledger(p, counters[p], InFlight(p), stored)

\* No batch is stored twice; of one that was given up there is nothing yet.
Stock == \A b \in Batches : stored[b] <= RowsOf(b) /\ (b \in late => stored[b] = 0)

\* A batch on its way is one of the phase that runs, and what the service
\* made of it is what PostgreSQL has.
Custody ==
    \A w \in Workers : requests[w].batch # 0 =>
        /\ step \in Sending
        /\ requests[w].batch \in BatchesOf(RunningPhase)
        /\ requests[w].batch \notin late
        /\ requests[w].kept = Undecided => stored[requests[w].batch] = 0
        /\ requests[w].kept # Undecided => stored[requests[w].batch] = requests[w].kept

Unique ==
    \A v, w \in Workers :
        v # w /\ requests[v].batch # 0 => requests[v].batch # requests[w].batch

\* Nothing is known of a batch that was not sent.
Untouched(b) == stored[b] = 0 /\ b \notin late
Unsent ==
    step # "killed" =>
        \A b \in Batches :
            (\A p \in Phases : b \notin UpTo(p, counters[p].started)) => Untouched(b)

Place ==
    /\ step \in Sending =>
         nextBatch = FirstBatch(RunningPhase) + counters[RunningPhase].started
    /\ step \in PreWarm => counters["warmup"] = NoCounters
    /\ step \in PreMeasure => counters["measured"] = NoCounters

IngestionInv ==
    IngestionTypes /\ Ledgers /\ Stock /\ Custody /\ Unique /\ Unsent /\ Place

-----------------------------------------------------------------------------
\* Before the first command nothing was sent or stored.
LEMMA IngestionInit == Init => IngestionInv
<1> SUFFICES ASSUME Init PROVE IngestionInv
  OBVIOUS
<1>1. /\ step = "source" /\ requests = [w \in Workers |-> Idle] /\ nextBatch = 1
      /\ counters = [p \in Phases |-> NoCounters]
      /\ stored = [b \in Batches |-> 0] /\ late = {}
  BY DEF Init
<1>2. \A p \in Phases : NoCounters \in CounterType /\ Ledger(p, NoCounters, {}, stored)
  BY LedgerFresh
<1>3. "warmup" \in Phases /\ "measured" \in Phases
  BY DEF Phases
<1>4. /\ Idle.batch = 0 /\ Idle \in RequestType
  BY DEF Idle, RequestType
<1>5. \A w \in Workers : requests[w] = Idle
  BY <1>1
<1>6. IngestionTypes
  <2> HIDE DEF NoCounters, Idle
  <2>1. requests \in [Workers -> RequestType]
    BY <1>1, <1>4
  <2>2. counters \in [Phases -> CounterType]
    BY <1>1, <1>2
  <2>3. QED  BY <1>1, <2>1, <2>2 DEF IngestionTypes
<1>7. Ledgers
  <2> SUFFICES ASSUME NEW p \in Phases PROVE Ledger(p, counters[p], InFlight(p), stored)
    BY DEF Ledgers
  <2>1. InFlight(p) = {}
    <3>1. \A b \in BatchesOf(p) : b # 0
      BY Numbering
    <3>2. QED  BY <1>4, <1>5, <3>1 DEF InFlight
  <2>2. counters[p] = NoCounters
    BY <1>1
  <2>3. QED  BY <1>2, <2>1, <2>2
<1>8. Stock /\ Unsent
  <2>1. \A b \in Batches : stored[b] = 0 /\ RowsOf(b) \in Nat
    BY <1>1, RowsPositive
  <2>2. QED  BY <1>1, <2>1 DEF Stock, Unsent, Untouched
<1>9. Custody /\ Unique
  BY <1>4, <1>5 DEF Custody, Unique
<1>10. Place
  BY <1>1, <1>3 DEF Place, Sending
<1>11. QED  BY <1>6, <1>7, <1>8, <1>9, <1>10 DEF IngestionInv

\* What the invariant says of the batches on their way.
LEMMA Flights ==
    ASSUME IngestionInv
    PROVE  /\ RunningPhase \in Phases
           /\ \A p \in Phases : InFlight(p) \subseteq UpTo(p, counters[p].started)
           /\ \A p \in Phases : counters[p].started \in 0 .. BatchCount(p)
           /\ \A p \in Phases : p # RunningPhase => InFlight(p) = {}
           /\ \A w \in Workers : requests[w].batch # 0 =>
                /\ requests[w].batch \in InFlight(RunningPhase)
                /\ requests[w].batch \in Batches
           /\ step \notin Sending =>
                /\ \A w \in Workers : requests[w].batch = 0
                /\ \A p \in Phases : InFlight(p) = {}
<1>1. RunningPhase \in Phases
  BY DEF RunningPhase, Phases
<1>2. \A p \in Phases : /\ InFlight(p) \subseteq UpTo(p, counters[p].started)
                        /\ counters[p].started \in 0 .. BatchCount(p)
  BY DEF IngestionInv, Ledgers, Ledger
<1>3. ASSUME NEW w \in Workers, requests[w].batch # 0
      PROVE  /\ requests[w].batch \in InFlight(RunningPhase)
             /\ requests[w].batch \in Batches
             /\ step \in Sending
  <2>1. requests[w].batch \in BatchesOf(RunningPhase) /\ step \in Sending
    BY <1>3 DEF IngestionInv, Custody
  <2>2. QED  BY <1>1, <2>1, Numbering DEF InFlight
<1>4. ASSUME NEW p \in Phases, NEW b \in InFlight(p)
      PROVE  step \in Sending /\ p = RunningPhase
  <2>1. PICK w \in Workers : requests[w].batch = b /\ b \in BatchesOf(p)
    BY DEF InFlight
  <2>2. b # 0 /\ PhaseOf(b) = p
    BY <2>1, Numbering
  <2>3. b \in InFlight(RunningPhase) /\ step \in Sending
    BY <1>3, <2>1, <2>2
  <2>4. PhaseOf(b) = RunningPhase
    BY <1>1, <2>3, Numbering DEF InFlight
  <2>5. QED  BY <2>2, <2>3, <2>4
<1>5. QED  BY <1>1, <1>2, <1>3, <1>4

-----------------------------------------------------------------------------
(***************************************************************************)
(* Steps that leave ingestion alone.                                       *)
(***************************************************************************)
\* The run goes on, or it stays where it is.
Onward ==
    \/ step' = step
    \/ /\ step # "killed" /\ step' # "killed"
       /\ step' \notin Sending
       /\ \A w \in Workers : requests[w].batch = 0
       /\ step' \in PreWarm => step \in PreWarm
       /\ step' \in PreMeasure => step \in PreMeasure

\* Such a step keeps what holds of ingestion.
LEMMA OnwardKeeps ==
    ASSUME IngestionInv, Onward, UNCHANGED ingestion
    PROVE  IngestionInv'
<1>1. UNCHANGED <<requests, nextBatch, counters, stored, late>>
  BY DEF ingestion
<1>2. IngestionTypes' /\ Stock' /\ Unique'
  BY <1>1 DEF IngestionInv, IngestionTypes, Stock, Unique
<1>3. Ledgers'
  BY <1>1 DEF IngestionInv, Ledgers, InFlight
<1>4. CASE step' = step
  <2>1. Custody' /\ Unsent' /\ Place'
    BY <1>1, <1>4 DEF IngestionInv, Custody, Unsent, Untouched, Place, RunningPhase
  <2>2. QED  BY <1>2, <1>3, <2>1 DEF IngestionInv
<1>5. CASE step' # step
  <2>1. /\ step # "killed" /\ step' # "killed" /\ step' \notin Sending
        /\ \A w \in Workers : requests[w].batch = 0
        /\ step' \in PreWarm => step \in PreWarm
        /\ step' \in PreMeasure => step \in PreMeasure
    BY <1>5 DEF Onward
  <2>2. Custody'
    BY <1>1, <2>1 DEF Custody
  <2>3. Unsent'
    BY <1>1, <2>1 DEF IngestionInv, Unsent, Untouched
  <2>4. Place'
    BY <1>1, <2>1 DEF IngestionInv, Place
  <2>5. QED  BY <1>2, <1>3, <2>2, <2>3, <2>4 DEF IngestionInv
<1>6. QED  BY <1>4, <1>5

\* A signal nobody listens for.
LEMMA KillKeeps == ASSUME IngestionInv, NEW s \in Signals, Kill(s) PROVE IngestionInv'
<1>1. /\ step' = "killed" /\ requests' = [w \in Workers |-> Idle] /\ nextBatch' = 1
      /\ counters' = [p \in Phases |-> NoCounters] /\ stored' = stored /\ late' = late
  BY DEF Kill
<1>2. \A p \in Phases : NoCounters \in CounterType /\ Ledger(p, NoCounters, {}, stored)
  BY LedgerFresh
<1>3. Idle.batch = 0 /\ Idle \in RequestType
  BY DEF Idle, RequestType
<1>4. \A w \in Workers : requests'[w] = Idle
  BY <1>1
<1>5. IngestionTypes'
  <2> HIDE DEF NoCounters, Idle
  <2>1. requests' \in [Workers -> RequestType]
    BY <1>1, <1>3
  <2>2. counters' \in [Phases -> CounterType]
    BY <1>1, <1>2
  <2>3. stored' \in [Batches -> Nat] /\ late' \subseteq Batches
    BY <1>1 DEF IngestionInv, IngestionTypes
  <2>4. QED  BY <1>1, <2>1, <2>2, <2>3 DEF IngestionTypes
<1>6. Ledgers'
  <2> SUFFICES ASSUME NEW p \in Phases
               PROVE  Ledger(p, counters'[p], InFlight(p)', stored')
    BY DEF Ledgers
  <2>1. InFlight(p)' = {}
    <3>1. \A b \in BatchesOf(p) : b # 0
      BY Numbering
    <3>2. QED  BY <1>3, <1>4, <3>1 DEF InFlight
  <2>2. counters'[p] = NoCounters
    BY <1>1
  <2>3. QED  BY <1>1, <1>2, <2>1, <2>2
<1>7. Stock'
  BY <1>1 DEF IngestionInv, Stock
<1>8. Custody' /\ Unique'
  BY <1>3, <1>4 DEF Custody, Unique
<1>9. Unsent' /\ Place'
  BY <1>1 DEF Unsent, Place, Sending, PreWarm, PreMeasure
<1>10. QED  BY <1>5, <1>6, <1>7, <1>8, <1>9 DEF IngestionInv

-----------------------------------------------------------------------------
(***************************************************************************)
(* Steps of ingestion.                                                     *)
(***************************************************************************)
\* How many workers send at the start of a phase.
AtFirst(phase) ==
    IF aborted THEN 0
    ELSE IF Concurrency < BatchCount(phase) THEN Concurrency ELSE BatchCount(phase)

\* They are the first batches of the phase, one for each of these workers.
LEMMA FirstBatchesAre ==
    ASSUME NEW p \in Phases
    PROVE  /\ AtFirst(p) \in 0 .. BatchCount(p)
           /\ FirstBatches(p) = UpTo(p, AtFirst(p))
           /\ \A b \in FirstBatches(p) : b - FirstBatch(p) + 1 \in Workers
<1> DEFINE f == FirstBatch(p)
           m == BatchCount(p)
<1>1. /\ f \in Nat \ {0} /\ m \in Nat /\ LastBatch(p) = f + m - 1
      /\ Concurrency \in Nat \ {0}
  BY Numbering, LoadAssumption
<1>2. /\ FirstBatches(p) = IF aborted THEN {}
                           ELSE f .. (IF Concurrency < m THEN f + Concurrency - 1 ELSE LastBatch(p))
      /\ \A k : UpTo(p, k) = f .. (f + k - 1)
      /\ AtFirst(p) = IF aborted THEN 0 ELSE IF Concurrency < m THEN Concurrency ELSE m
      /\ Workers = 1 .. Concurrency
  BY DEF FirstBatches, UpTo, AtFirst, Workers
<1> HIDE DEF f, m
<1>3. AtFirst(p) \in 0 .. m
  BY <1>1, <1>2
<1>4. FirstBatches(p) = UpTo(p, AtFirst(p))
  <2>1. CASE aborted
    BY <1>1, <1>2, <2>1
  <2>2. CASE ~aborted /\ Concurrency < m
    BY <1>1, <1>2, <2>2
  <2>3. CASE ~aborted /\ ~(Concurrency < m)
    BY <1>1, <1>2, <2>3
  <2>4. QED  BY <2>1, <2>2, <2>3
<1>5. ASSUME NEW b \in FirstBatches(p) PROVE b - f + 1 \in Workers
  <2>1. b \in f .. (f + AtFirst(p) - 1)
    BY <1>2, <1>4
  <2>2. AtFirst(p) <= Concurrency /\ AtFirst(p) \in Nat
    BY <1>1, <1>2
  <2>3. QED  BY <1>1, <1>2, <2>1, <2>2
<1>6. QED  BY <1>3, <1>4, <1>5 DEF f, m

\* A phase starts: no batch of it was sent before.
LEMMA StartKeeps ==
    ASSUME IngestionInv, NEW p \in Phases, StartPhase(p),
           \/ p = "warmup" /\ step = "warmup" /\ step' = "warming"
           \/ p = "measured" /\ step = "measure" /\ step' = "measuring"
    PROVE  IngestionInv'
<1> DEFINE S == FirstBatches(p)
           n == AtFirst(p)
           f == FirstBatch(p)
<1>1. /\ requests' = [w \in Workers |-> IF f + w - 1 \in S THEN Sent(f + w - 1) ELSE Idle]
      /\ nextBatch' = f + Cardinality(S)
      /\ counters' = [counters EXCEPT ![p] = Dispatched(@, S)]
      /\ stored' = stored /\ late' = late
  BY DEF StartPhase
<1>2. /\ n \in 0 .. BatchCount(p) /\ S = UpTo(p, n)
      /\ \A b \in S : b - f + 1 \in Workers
      /\ S \subseteq BatchesOf(p) /\ S \subseteq Batches /\ Cardinality(S) = n
      /\ f \in Nat \ {0} /\ \A b \in Batches : b \in Nat \ {0}
      /\ BatchesOf(p) \subseteq Batches
  BY FirstBatchesAre, UpToFacts, Numbering
<1>3. /\ step \notin Sending /\ step' \in Sending /\ RunningPhase' = p
      /\ step' # "killed" /\ step # "killed" /\ counters[p] = NoCounters
      /\ step' \notin PreWarm
      /\ step' \in PreMeasure => p = "warmup" /\ step \in PreMeasure
  BY DEF Sending, RunningPhase, IngestionInv, Place, PreWarm, PreMeasure
<1>4. /\ requests \in [Workers -> RequestType] /\ nextBatch \in Nat
      /\ counters \in [Phases -> CounterType] /\ stored \in [Batches -> Nat]
      /\ late \subseteq Batches
  BY DEF IngestionInv, IngestionTypes
<1> HIDE DEF S, n, f
<1>5. /\ \A b : Sent(b).batch = b /\ Sent(b).kept = Undecided
      /\ Idle.batch = 0 /\ Idle.kept = Undecided
      /\ \A b \in Batches : Sent(b) \in RequestType
      /\ Idle \in RequestType
  BY DEF Sent, Idle, RequestType
<1>6. Workers \subseteq Nat
  BY LoadAssumption DEF Workers
<1>7. ASSUME NEW w \in Workers
      PROVE  /\ requests'[w] = IF f + w - 1 \in S THEN Sent(f + w - 1) ELSE Idle
             /\ requests'[w] \in RequestType
             /\ requests'[w].kept = Undecided
             /\ requests'[w].batch # 0 => requests'[w].batch = f + w - 1 /\ f + w - 1 \in S
  <2>1. requests'[w] = IF f + w - 1 \in S THEN Sent(f + w - 1) ELSE Idle
    BY <1>1
  <2>2. QED  BY <1>2, <1>5, <2>1
<1>8. counters'[p] = Dispatched(NoCounters, S) /\ \A q \in Phases \ {p} : counters'[q] = counters[q]
  BY <1>1, <1>3, <1>4
<1>9. /\ Ledger(p, counters'[p], S, stored) /\ counters'[p].started = n
      /\ counters'[p] \in CounterType
  BY <1>2, <1>8, LedgerStart
<1>10. IngestionTypes'
  <2>1. requests' \in [Workers -> RequestType]
    BY <1>1, <1>7
  <2>2. counters' \in [Phases -> CounterType]
    BY <1>1, <1>4, <1>8, <1>9
  <2>3. nextBatch' \in Nat
    BY <1>1, <1>2
  <2>4. QED  BY <1>1, <1>4, <2>1, <2>2, <2>3 DEF IngestionTypes
<1>11. InFlight(p)' = S
  <2>1. ASSUME NEW b \in S PROVE b \in InFlight(p)'
    <3> DEFINE w == b - f + 1
    <3>1. w \in Workers /\ b \in BatchesOf(p) /\ b \in Nat
      BY <1>2
    <3>2. f + w - 1 = b
      BY <1>2, <3>1
    <3> HIDE DEF w
    <3>3. requests'[w] = Sent(b)
      BY <1>7, <3>1, <3>2
    <3>4. QED  BY <1>5, <3>1, <3>3 DEF InFlight
  <2>2. ASSUME NEW b \in InFlight(p)' PROVE b \in S
    <3>1. PICK w \in Workers : requests'[w].batch = b /\ b \in BatchesOf(p)
      BY DEF InFlight
    <3>2. b # 0
      BY <1>2, <3>1
    <3>3. QED  BY <1>7, <3>1, <3>2
  <2>3. QED  BY <2>1, <2>2
<1>12. ASSUME NEW q \in Phases \ {p} PROVE InFlight(q)' = {} /\ InFlight(q) = {}
  <2>1. InFlight(q) = {}
    BY <1>3, Flights
  <2>2. ASSUME NEW b \in InFlight(q)' PROVE FALSE
    <3>1. PICK w \in Workers : requests'[w].batch = b /\ b \in BatchesOf(q)
      BY DEF InFlight
    <3>2. b # 0 /\ PhaseOf(b) = q
      BY <3>1, Numbering
    <3>3. b \in BatchesOf(p)
      BY <1>2, <1>7, <3>1, <3>2
    <3>4. QED  BY <3>2, <3>3, Numbering
  <2>3. QED  BY <2>1, <2>2
<1>13. Ledgers'
  <2> SUFFICES ASSUME NEW q \in Phases
               PROVE  Ledger(q, counters'[q], InFlight(q)', stored')
    BY DEF Ledgers
  <2>1. CASE q = p
    BY <1>1, <1>9, <1>11, <2>1
  <2>2. CASE q # p
    BY <1>1, <1>8, <1>12, <2>2 DEF IngestionInv, Ledgers
  <2>3. QED  BY <2>1, <2>2
<1>14. Stock'
  BY <1>1 DEF IngestionInv, Stock
<1>15. ASSUME NEW b \in S PROVE Untouched(b)
  <2>1. ASSUME NEW q \in Phases PROVE b \notin UpTo(q, counters[q].started)
    <3>1. CASE q = p
      <4>1. counters[q].started = 0 /\ BatchCount(p) \in Nat
        BY <1>3, <3>1, Numbering DEF NoCounters
      <4>2. 0 \in 0 .. BatchCount(p)
        BY <4>1
      <4>3. QED  BY <3>1, <4>1, <4>2, UpToFacts
    <3>2. CASE q # p
      <4>1. counters[q].started \in 0 .. BatchCount(q)
        BY Flights
      <4>2. UpTo(q, counters[q].started) \subseteq BatchesOf(q)
        BY <4>1, UpToFacts
      <4>3. PhaseOf(b) = p
        BY <1>2, Numbering
      <4>4. QED  BY <3>2, <4>2, <4>3, Numbering
    <3>3. QED  BY <3>1, <3>2
  <2>2. QED  BY <1>2, <1>3, <2>1 DEF IngestionInv, Unsent
<1>16. Custody'
  <2> SUFFICES ASSUME NEW w \in Workers, requests'[w].batch # 0
               PROVE  /\ step' \in Sending
                      /\ requests'[w].batch \in BatchesOf(RunningPhase')
                      /\ requests'[w].batch \notin late'
                      /\ requests'[w].kept = Undecided
                      /\ stored'[requests'[w].batch] = 0
    BY DEF Custody, BatchesOf
  <2>1. requests'[w].batch \in S /\ requests'[w].kept = Undecided
    BY <1>7
  <2>2. QED  BY <1>1, <1>2, <1>3, <1>15, <2>1 DEF Untouched
<1>17. Unique'
  <2> SUFFICES ASSUME NEW v \in Workers, NEW w \in Workers, v # w, requests'[v].batch # 0,
                      requests'[v].batch = requests'[w].batch
               PROVE  FALSE
    BY DEF Unique
  <2>1. f + v - 1 = f + w - 1
    BY <1>7
  <2>2. QED  BY <1>2, <1>6, <2>1
<1>18. Unsent'
  <2> SUFFICES ASSUME NEW b \in Batches,
                      \A q \in Phases : b \notin UpTo(q, counters'[q].started)
               PROVE  Untouched(b)'
    BY DEF Unsent, UpTo
  <2>1. ASSUME NEW q \in Phases PROVE b \notin UpTo(q, counters[q].started)
    <3>1. CASE q = p
      <4>1. counters[q].started = 0 /\ BatchCount(p) \in Nat
        BY <1>3, <3>1, Numbering DEF NoCounters
      <4>2. 0 \in 0 .. BatchCount(p)
        BY <4>1
      <4>3. QED  BY <3>1, <4>1, <4>2, UpToFacts
    <3>2. CASE q # p
      BY <1>8, <3>2
    <3>3. QED  BY <3>1, <3>2
  <2>2. Untouched(b)
    BY <1>3, <2>1 DEF IngestionInv, Unsent
  <2>3. QED  BY <1>1, <2>2 DEF Untouched
<1>19. Place'
  <2>1. nextBatch' = f + counters'[p].started
    BY <1>1, <1>2, <1>9
  <2>2. step' \in PreMeasure => counters'["measured"] = NoCounters
    <3>1. "measured" \in Phases
      BY DEF Phases
    <3>2. QED  BY <1>3, <1>8, <3>1 DEF IngestionInv, Place
  <2>3. nextBatch' = FirstBatch(RunningPhase') + counters'[RunningPhase'].started
    BY <1>3, <2>1 DEF f
  <2>4. QED  BY <1>3, <2>2, <2>3 DEF Place, FirstBatch
<1>20. QED
  BY <1>10, <1>13, <1>14, <1>16, <1>17, <1>18, <1>19 DEF IngestionInv

\* What the service does with a batch is what PostgreSQL has of it.
LEMMA StoresKeeps == ASSUME IngestionInv, NEW w \in Workers, ServiceStores(w) PROVE IngestionInv'
<1> DEFINE b == requests[w].batch
           r == RowsOf(b)
<1>1. /\ b # 0 /\ requests[w].kept = Undecided
      /\ UNCHANGED <<step, nextBatch, counters, late>>
  BY DEF ServiceStores
<1>2. /\ requests \in [Workers -> RequestType] /\ nextBatch \in Nat
      /\ counters \in [Phases -> CounterType] /\ stored \in [Batches -> Nat]
      /\ late \subseteq Batches
  BY DEF IngestionInv, IngestionTypes
<1>3. /\ b \in Batches /\ b \in InFlight(RunningPhase) /\ RunningPhase \in Phases
      /\ b \in UpTo(RunningPhase, counters[RunningPhase].started)
  BY <1>1, Flights
<1>4. stored[b] = 0 /\ b \notin late /\ r \in Nat \ {0}
  BY <1>1, <1>3, RowsPositive DEF IngestionInv, Custody
<1>5. PICK kept \in {r, r - 1} \ {0} :
         /\ requests' = [requests EXCEPT ![w].kept = kept]
         /\ stored' = [stored EXCEPT ![b] = @ + kept]
  BY DEF ServiceStores
<1> HIDE DEF b, r
<1>6. kept \in Nat /\ kept # Undecided /\ kept <= r /\ 0 + kept = kept
  BY <1>4, LoadAssumption
<1>7. stored' = [stored EXCEPT ![b] = kept]
  BY <1>2, <1>3, <1>4, <1>5, <1>6
<1>8. /\ stored' \in [Batches -> Nat] /\ stored'[b] = kept
      /\ \A x \in Batches \ {b} : stored'[x] = stored[x]
      /\ \A x \in Batches : stored[x] <= stored'[x]
  BY <1>2, <1>3, <1>4, <1>6, <1>7
<1>9. /\ requests' \in [Workers -> RequestType]
      /\ \A v \in Workers : requests'[v].batch = requests[v].batch
      /\ requests'[w].kept = kept
      /\ \A v \in Workers \ {w} : requests'[v] = requests[v]
  BY <1>2, <1>5, <1>6 DEF RequestType
<1>10. IngestionTypes'
  BY <1>1, <1>2, <1>8, <1>9 DEF IngestionTypes
<1>11. Ledgers'
  <2> SUFFICES ASSUME NEW p \in Phases
               PROVE  Ledger(p, counters'[p], InFlight(p)', stored')
    BY DEF Ledgers
  <2>1. InFlight(p)' = InFlight(p)
    BY <1>9 DEF InFlight
  <2>2. Ledger(p, counters[p], InFlight(p), stored) /\ counters[p] \in CounterType
    BY <1>2 DEF IngestionInv, Ledgers
  <2>3. Ledger(p, counters[p], InFlight(p), stored')
    BY <1>2, <1>8, <2>2, LedgerStores
  <2>4. QED  BY <1>1, <2>1, <2>3
<1>12. Stock'
  <2> SUFFICES ASSUME NEW x \in Batches
               PROVE  stored'[x] <= RowsOf(x) /\ (x \in late => stored'[x] = 0)
    BY <1>1 DEF Stock
  <2>1. CASE x = b
    BY <1>4, <1>6, <1>8, <2>1 DEF r
  <2>2. CASE x # b
    BY <1>8, <2>2 DEF IngestionInv, Stock
  <2>3. QED  BY <2>1, <2>2
<1>13. Custody'
  <2> SUFFICES ASSUME NEW v \in Workers, requests'[v].batch # 0
               PROVE  /\ step' \in Sending
                      /\ requests'[v].batch \in BatchesOf(RunningPhase')
                      /\ requests'[v].batch \notin late'
                      /\ requests'[v].kept = Undecided => stored'[requests'[v].batch] = 0
                      /\ requests'[v].kept # Undecided => stored'[requests'[v].batch] = requests'[v].kept
    BY DEF Custody, BatchesOf
  <2>1. /\ step \in Sending /\ requests[v].batch \in BatchesOf(RunningPhase)
        /\ requests[v].batch \notin late /\ requests[v].batch \in Batches
        /\ requests[v].kept = Undecided => stored[requests[v].batch] = 0
        /\ requests[v].kept # Undecided => stored[requests[v].batch] = requests[v].kept
    BY <1>9, Flights DEF IngestionInv, Custody
  <2>2. RunningPhase' = RunningPhase
    BY <1>1 DEF RunningPhase
  <2>3. CASE v = w
    BY <1>1, <1>6, <1>8, <1>9, <2>1, <2>2, <2>3 DEF b
  <2>4. CASE v # w
    <3>1. requests[v].batch # b
      BY <1>1, <2>4, <2>1 DEF IngestionInv, Unique, b
    <3>2. QED  BY <1>1, <1>8, <1>9, <2>1, <2>2, <2>4, <3>1
  <2>5. QED  BY <2>3, <2>4
<1>14. Unique'
  BY <1>9 DEF IngestionInv, Unique
<1>15. Unsent'
  <2> SUFFICES ASSUME step # "killed", NEW x \in Batches,
                      \A p \in Phases : x \notin UpTo(p, counters[p].started)
               PROVE  stored'[x] = 0 /\ x \notin late
    BY <1>1 DEF Unsent, Untouched, UpTo
  <2>1. stored[x] = 0 /\ x \notin late
    BY DEF IngestionInv, Unsent, Untouched
  <2>2. x # b
    BY <1>3
  <2>3. QED  BY <1>8, <2>1, <2>2
<1>16. Place'
  BY <1>1 DEF IngestionInv, Place, RunningPhase
<1>17. QED
  BY <1>10, <1>11, <1>12, <1>13, <1>14, <1>15, <1>16 DEF IngestionInv

\* A batch that was given up is stored after all.
LEMMA StoresLateKeeps ==
    ASSUME IngestionInv, NEW b \in Batches, ServiceStoresLate(b) PROVE IngestionInv'
<1> DEFINE r == RowsOf(b)
<1>1. /\ b \in late /\ late' = late \ {b} /\ stored' = [stored EXCEPT ![b] = @ + r]
      /\ UNCHANGED <<step, requests, nextBatch, counters>>
  BY DEF ServiceStoresLate
<1>2. /\ requests \in [Workers -> RequestType] /\ nextBatch \in Nat
      /\ counters \in [Phases -> CounterType] /\ stored \in [Batches -> Nat]
      /\ late \subseteq Batches
  BY DEF IngestionInv, IngestionTypes
<1>3. stored[b] = 0 /\ r \in Nat \ {0}
  BY <1>1, RowsPositive DEF IngestionInv, Stock
<1> HIDE DEF r
<1>4. stored' = [stored EXCEPT ![b] = r]
  BY <1>1, <1>2, <1>3
<1>5. /\ stored' \in [Batches -> Nat] /\ stored'[b] = r
      /\ \A x \in Batches \ {b} : stored'[x] = stored[x]
      /\ \A x \in Batches : stored[x] <= stored'[x]
  BY <1>2, <1>3, <1>4
<1>6. IngestionTypes'
  BY <1>1, <1>2, <1>5 DEF IngestionTypes
<1>7. Ledgers'
  <2> SUFFICES ASSUME NEW p \in Phases
               PROVE  Ledger(p, counters'[p], InFlight(p)', stored')
    BY DEF Ledgers
  <2>1. InFlight(p)' = InFlight(p)
    BY <1>1 DEF InFlight
  <2>2. Ledger(p, counters[p], InFlight(p), stored) /\ counters[p] \in CounterType
    BY <1>2 DEF IngestionInv, Ledgers
  <2>3. Ledger(p, counters[p], InFlight(p), stored')
    BY <1>2, <1>5, <2>2, LedgerStores
  <2>4. QED  BY <1>1, <2>1, <2>3
<1>8. Stock'
  <2> SUFFICES ASSUME NEW x \in Batches
               PROVE  stored'[x] <= RowsOf(x) /\ (x \in late' => stored'[x] = 0)
    BY DEF Stock
  <2>1. CASE x = b
    BY <1>1, <1>3, <1>5, <2>1 DEF r
  <2>2. CASE x # b
    BY <1>1, <1>5, <2>2 DEF IngestionInv, Stock
  <2>3. QED  BY <2>1, <2>2
<1>9. Custody'
  <2> SUFFICES ASSUME NEW v \in Workers, requests[v].batch # 0
               PROVE  /\ step \in Sending
                      /\ requests[v].batch \in BatchesOf(RunningPhase)
                      /\ requests[v].batch \notin late'
                      /\ requests[v].kept = Undecided => stored'[requests[v].batch] = 0
                      /\ requests[v].kept # Undecided => stored'[requests[v].batch] = requests[v].kept
    BY <1>1 DEF Custody, BatchesOf, RunningPhase
  <2>1. /\ step \in Sending /\ requests[v].batch \in BatchesOf(RunningPhase)
        /\ requests[v].batch \notin late /\ requests[v].batch \in Batches
        /\ requests[v].kept = Undecided => stored[requests[v].batch] = 0
        /\ requests[v].kept # Undecided => stored[requests[v].batch] = requests[v].kept
    BY Flights DEF IngestionInv, Custody
  <2>2. requests[v].batch # b
    BY <1>1, <2>1
  <2>3. QED  BY <1>1, <1>5, <2>1, <2>2
<1>10. Unique'
  BY <1>1 DEF IngestionInv, Unique
<1>11. Unsent'
  <2> SUFFICES ASSUME step # "killed", NEW x \in Batches,
                      \A p \in Phases : x \notin UpTo(p, counters[p].started)
               PROVE  stored'[x] = 0 /\ x \notin late'
    BY <1>1 DEF Unsent, Untouched, UpTo
  <2>1. stored[x] = 0 /\ x \notin late
    BY DEF IngestionInv, Unsent, Untouched
  <2>2. x # b
    BY <1>1, <2>1
  <2>3. QED  BY <1>1, <1>5, <2>1, <2>2
<1>12. Place'
  BY <1>1 DEF IngestionInv, Place, RunningPhase
<1>13. QED
  BY <1>6, <1>7, <1>8, <1>9, <1>10, <1>11, <1>12 DEF IngestionInv

\* A worker accounts for its batch and sends the next one.
LEMMA SettlesKeeps ==
    ASSUME IngestionInv, NEW w \in Workers, NEW success \in BOOLEAN, RequestSettles(w, success)
    PROVE  IngestionInv'
<1>0. PICK p \in Phases : p = RunningPhase
  BY Flights
<1> DEFINE b == requests[w].batch
           kept == requests[w].kept
           more == ~aborted /\ nextBatch <= LastBatch(p)
           n == counters[p].started
           c == Settled(counters[p], b, kept, success)
           d == IF more THEN Dispatched(c, {nextBatch}) ELSE c
           new == IF more THEN Sent(nextBatch) ELSE Idle
           out == InFlight(p) \ {b}
           in == IF more THEN out \cup {nextBatch} ELSE out
<1>1. /\ b # 0 /\ (success => kept # Undecided)
      /\ counters' = [counters EXCEPT ![p] = d]
      /\ requests' = [requests EXCEPT ![w] = new]
      /\ nextBatch' = IF more THEN nextBatch + 1 ELSE nextBatch
      /\ late' = IF kept = Undecided THEN late \cup {b} ELSE late
      /\ UNCHANGED <<step, stored>>
  BY <1>0 DEF RequestSettles
<1>2. /\ requests \in [Workers -> RequestType] /\ nextBatch \in Nat
      /\ counters \in [Phases -> CounterType] /\ stored \in [Batches -> Nat]
      /\ late \subseteq Batches
  BY DEF IngestionInv, IngestionTypes
<1>3. /\ p \in Phases /\ b \in Batches /\ b \in InFlight(p) /\ InFlight(p) \subseteq UpTo(p, n)
      /\ b \in BatchesOf(p) /\ n \in 0 .. BatchCount(p)
      /\ \A q \in Phases \ {p} : InFlight(q) = {}
      /\ step \in Sending /\ b \notin late
      /\ kept = Undecided => stored[b] = 0
      /\ kept # Undecided => stored[b] = kept
  BY <1>0, <1>1, Flights DEF IngestionInv, Custody
<1>4. nextBatch = FirstBatch(p) + n
  BY <1>0, <1>3 DEF IngestionInv, Place
<1>5. /\ RunningPhase' = p /\ kept \in Nat \cup {Undecided}
  BY <1>0, <1>1, <1>2 DEF RunningPhase, RequestType
<1>6. \A v \in Workers \ {w} : requests[v].batch # b
  BY <1>1 DEF IngestionInv, Unique
<1> HIDE DEF b, kept
<1>7. success => kept \in 0 .. RowsOf(b) /\ stored[b] = kept
  BY <1>1, <1>2, <1>3, <1>5, RowsPositive DEF IngestionInv, Stock
<1>8. c \in CounterType /\ c.started = n /\ Ledger(p, c, out, stored)
  <2>1. counters[p] \in CounterType /\ Ledger(p, counters[p], InFlight(p), stored)
    BY <1>2 DEF IngestionInv, Ledgers
  <2> DEFINE c0 == counters[p]
             out0 == InFlight(p)
  <2>2. /\ c0 \in CounterType /\ Ledger(p, c0, out0, stored) /\ b \in out0
        /\ success => kept \in 0 .. RowsOf(b) /\ stored[b] = kept
    BY <1>3, <1>7, <2>1
  <2> HIDE DEF c0, out0
  <2>3. /\ Settled(c0, b, kept, success) \in CounterType
        /\ Settled(c0, b, kept, success).started = c0.started
        /\ Ledger(p, Settled(c0, b, kept, success), out0 \ {b}, stored)
    BY ONLY <1>2, <2>2, p \in Phases, success \in BOOLEAN, LedgerSettle
  <2>4. QED  BY <2>3 DEF c0, out0
<1>9. more => n < BatchCount(p)
  BY <1>3, <1>4, Numbering
<1> HIDE DEF c
<1>10. more => /\ nextBatch \in BatchesOf(p) /\ nextBatch \notin UpTo(p, n)
               /\ nextBatch \in Batches
               /\ d \in CounterType /\ d.started = n + 1
               /\ UpTo(p, n + 1) = UpTo(p, n) \cup {nextBatch}
               /\ Ledger(p, d, in, stored)
  <2> SUFFICES ASSUME more
               PROVE  /\ nextBatch \in BatchesOf(p) /\ nextBatch \notin UpTo(p, n)
                      /\ nextBatch \in Batches
                      /\ d \in CounterType /\ d.started = n + 1
                      /\ UpTo(p, n + 1) = UpTo(p, n) \cup {nextBatch}
                      /\ Ledger(p, d, in, stored)
    OBVIOUS
  <2>1. d = Dispatched(c, {nextBatch}) /\ in = out \cup {nextBatch}
    OBVIOUS
  <2>2. c.started < BatchCount(p) /\ nextBatch = FirstBatch(p) + c.started
    BY <1>4, <1>8, <1>9
  <2>3. BatchesOf(p) \subseteq Batches
    BY <1>3, Numbering
  <2> HIDE DEF d, in, out, n, more
  <2>4. QED  BY <1>3, <1>8, <2>1, <2>2, <2>3, LedgerDispatch
<1>11. ~more => d = c /\ in = out /\ d.started = n
  BY <1>8
<1>12. /\ d \in CounterType /\ Ledger(p, d, in, stored)
       /\ UpTo(p, n) \subseteq UpTo(p, d.started)
       /\ nextBatch' = FirstBatch(p) + d.started /\ nextBatch' \in Nat
       /\ FirstBatch(p) \in Nat /\ n \in Nat
  <2>1. FirstBatch(p) \in Nat /\ n \in Nat
    BY <1>2, <1>3, Numbering DEF CounterType
  <2>2. CASE more
    <3>1. /\ d \in CounterType /\ d.started = n + 1 /\ Ledger(p, d, in, stored)
          /\ UpTo(p, n) \subseteq UpTo(p, d.started) /\ nextBatch' = nextBatch + 1
      BY <1>1, <1>10, <2>2
    <3> HIDE DEF d, in, more
    <3>2. QED  BY <1>2, <1>4, <2>1, <3>1
  <2>3. CASE ~more
    <3>1. /\ d \in CounterType /\ d.started = n /\ Ledger(p, d, in, stored)
          /\ nextBatch' = nextBatch
      BY <1>1, <1>8, <1>11, <2>3
    <3> HIDE DEF d, in, more
    <3>2. QED  BY <1>2, <1>4, <2>1, <3>1
  <2>4. QED  BY <2>2, <2>3
<1>13. /\ more => new.batch = nextBatch /\ new.kept = Undecided
       /\ ~more => new.batch = 0
       /\ new \in RequestType
  <2>1. CASE more
    BY <1>10, <2>1 DEF Sent, RequestType
  <2>2. CASE ~more
    BY <2>2 DEF Idle, RequestType
  <2>3. QED  BY <2>1, <2>2
<1>14. /\ requests' \in [Workers -> RequestType] /\ requests'[w] = new
       /\ \A v \in Workers \ {w} : requests'[v] = requests[v]
       /\ counters' \in [Phases -> CounterType] /\ counters'[p] = d
       /\ \A q \in Phases \ {p} : counters'[q] = counters[q]
  <2> HIDE DEF new, d, more
  <2>1. QED  BY <1>1, <1>2, <1>3, <1>12, <1>13
<1>15. more => nextBatch \notin late /\ stored[nextBatch] = 0 /\ nextBatch # b
               /\ \A v \in Workers : requests[v].batch # nextBatch
  <2> SUFFICES ASSUME more
               PROVE  nextBatch \notin late /\ stored[nextBatch] = 0 /\ nextBatch # b
                      /\ \A v \in Workers : requests[v].batch # nextBatch
    OBVIOUS
  <2>1. /\ nextBatch \in BatchesOf(p) /\ nextBatch \notin UpTo(p, n) /\ nextBatch \in Batches
    BY <1>10
  <2> HIDE DEF more
  <2>2. ASSUME NEW q \in Phases PROVE nextBatch \notin UpTo(q, counters[q].started)
    <3>1. CASE q = p
      BY <2>1, <3>1
    <3>2. CASE q # p
      <4>1. counters[q].started \in 0 .. BatchCount(q)
        BY Flights
      <4>2. UpTo(q, counters[q].started) \subseteq BatchesOf(q)
        BY <4>1, UpToFacts
      <4>3. PhaseOf(nextBatch) = p
        BY <1>3, <2>1, Numbering
      <4>4. QED  BY <3>2, <4>2, <4>3, Numbering
    <3>3. QED  BY <3>1, <3>2
  <2>3. step # "killed"
    BY <1>3 DEF Sending
  <2>4. Untouched(nextBatch)
    BY <2>1, <2>2, <2>3 DEF IngestionInv, Unsent
  <2>5. ASSUME NEW v \in Workers PROVE requests[v].batch # nextBatch
    <3>1. requests[v].batch # 0 => requests[v].batch \in UpTo(p, n)
      BY <1>0, <1>3, Flights
    <3>2. nextBatch # 0
      BY <2>1, Numbering
    <3>3. QED  BY <2>1, <3>1, <3>2
  <2>6. QED  BY <1>3, <2>1, <2>4, <2>5 DEF Untouched
<1>16. IngestionTypes'
  <2>1. late' \subseteq Batches
    BY <1>1, <1>2, <1>3
  <2>2. QED  BY <1>1, <1>2, <1>12, <1>14, <2>1 DEF IngestionTypes
<1>17. InFlight(p)' = in
  <2>1. ASSUME NEW x \in InFlight(p)' PROVE x \in in
    <3>1. PICK v \in Workers : requests'[v].batch = x /\ x \in BatchesOf(p)
      BY DEF InFlight
    <3>2. CASE v = w
      <4>1. x # 0
        BY <1>3, <3>1, Numbering
      <4>2. more /\ x = nextBatch
        BY <1>13, <1>14, <3>1, <3>2, <4>1
      <4>3. QED  BY <4>2
    <3>3. CASE v # w
      <4>1. requests[v].batch = x /\ x # b
        BY <1>6, <1>14, <3>1, <3>3
      <4>2. x \in InFlight(p)
        BY <3>1, <4>1 DEF InFlight
      <4>3. QED  BY <4>1, <4>2
    <3>4. QED  BY <3>2, <3>3
  <2>2. ASSUME NEW x \in in PROVE x \in InFlight(p)'
    <3>1. CASE x \in out
      <4>1. PICK v \in Workers : requests[v].batch = x /\ x \in BatchesOf(p)
        BY <3>1 DEF InFlight
      <4>2. v # w
        BY <3>1, <4>1 DEF b
      <4>3. QED  BY <1>14, <4>1, <4>2 DEF InFlight
    <3>2. CASE x \notin out
      <4>1. more /\ x = nextBatch
        BY <3>2
      <4>2. requests'[w].batch = x /\ x \in BatchesOf(p)
        BY <1>10, <1>13, <1>14, <4>1
      <4>3. QED  BY <4>2 DEF InFlight
    <3>3. QED  BY <3>1, <3>2
  <2>3. QED  BY <2>1, <2>2
<1>18. Ledgers'
  <2> SUFFICES ASSUME NEW q \in Phases
               PROVE  Ledger(q, counters'[q], InFlight(q)', stored')
    BY DEF Ledgers
  <2>1. CASE q = p
    BY <1>1, <1>12, <1>14, <1>17, <2>1
  <2>2. CASE q # p
    <3>1. InFlight(q)' = {}
      <4> SUFFICES ASSUME NEW x \in InFlight(q)' PROVE FALSE
        OBVIOUS
      <4>1. PICK v \in Workers : requests'[v].batch = x /\ x \in BatchesOf(q)
        BY DEF InFlight
      <4>2. x # 0 /\ PhaseOf(x) = q
        BY <4>1, Numbering
      <4>3. x \in BatchesOf(p)
        <5>1. CASE v = w
          BY <1>10, <1>13, <1>14, <4>1, <4>2, <5>1
        <5>2. CASE v # w
          <6>1. requests[v].batch = x
            BY <1>14, <4>1, <5>2
          <6>2. QED  BY <1>0, <4>2, <6>1 DEF IngestionInv, Custody
        <5>3. QED  BY <5>1, <5>2
      <4>4. QED  BY <1>3, <2>2, <4>2, <4>3, Numbering
    <3>2. InFlight(q) = {} /\ counters'[q] = counters[q]
      BY <1>3, <1>14, <2>2
    <3>3. QED  BY <1>1, <3>1, <3>2 DEF IngestionInv, Ledgers
  <2>3. QED  BY <2>1, <2>2
<1>19. Stock'
  BY <1>1, <1>3 DEF IngestionInv, Stock
<1>20. Custody'
  <2> SUFFICES ASSUME NEW v \in Workers, requests'[v].batch # 0
               PROVE  /\ step \in Sending
                      /\ requests'[v].batch \in BatchesOf(p)
                      /\ requests'[v].batch \notin late'
                      /\ requests'[v].kept = Undecided => stored[requests'[v].batch] = 0
                      /\ requests'[v].kept # Undecided => stored[requests'[v].batch] = requests'[v].kept
    BY <1>1, <1>5 DEF Custody, BatchesOf
  <2>1. CASE v = w
    <3>1. more /\ requests'[v].batch = nextBatch /\ requests'[v].kept = Undecided
      BY <1>13, <1>14, <2>1
    <3>2. nextBatch \notin late'
      BY <1>1, <1>15, <3>1
    <3>3. QED  BY <1>3, <1>10, <1>15, <3>1, <3>2
  <2>2. CASE v # w
    <3>1. requests'[v] = requests[v] /\ requests[v].batch # b
      BY <1>6, <1>14, <2>2
    <3>2. /\ requests[v].batch \in BatchesOf(p)
          /\ requests[v].batch \notin late
          /\ requests[v].kept = Undecided => stored[requests[v].batch] = 0
          /\ requests[v].kept # Undecided => stored[requests[v].batch] = requests[v].kept
      BY <1>0, <3>1 DEF IngestionInv, Custody
    <3>3. requests[v].batch \notin late'
      BY <1>1, <3>1, <3>2
    <3>4. QED  BY <1>3, <3>1, <3>2, <3>3
  <2>3. QED  BY <2>1, <2>2
<1>21. Unique'
  <2> SUFFICES ASSUME NEW u \in Workers, NEW v \in Workers, u # v, requests'[u].batch # 0
               PROVE  requests'[u].batch # requests'[v].batch
    BY DEF Unique
  <2>1. CASE u # w /\ v # w
    BY <1>14, <2>1 DEF IngestionInv, Unique
  <2>2. CASE u = w
    <3>1. more /\ requests'[u].batch = nextBatch
      BY <1>13, <1>14, <2>2
    <3>2. QED  BY <1>14, <1>15, <2>2, <3>1
  <2>3. CASE v = w
    <3>1. requests'[u] = requests[u]
      BY <1>14, <2>3
    <3>2. requests'[v].batch = 0 \/ (more /\ requests'[v].batch = nextBatch)
      BY <1>13, <1>14, <2>3
    <3>3. QED  BY <1>15, <3>1, <3>2
  <2>4. QED  BY <2>1, <2>2, <2>3
<1>22. Unsent'
  <2> SUFFICES ASSUME step # "killed", NEW x \in Batches,
                      \A q \in Phases : x \notin UpTo(q, counters'[q].started)
               PROVE  stored[x] = 0 /\ x \notin late'
    BY <1>1 DEF Unsent, Untouched, UpTo
  <2>1. ASSUME NEW q \in Phases PROVE x \notin UpTo(q, counters[q].started)
    <3>1. CASE q = p
      BY <1>12, <1>14, <3>1
    <3>2. CASE q # p
      BY <1>14, <3>2
    <3>3. QED  BY <3>1, <3>2
  <2>2. stored[x] = 0 /\ x \notin late
    BY <2>1 DEF IngestionInv, Unsent, Untouched
  <2>3. x # b
    BY <1>3, <2>1
  <2>4. QED  BY <1>1, <2>2, <2>3
<1>23. Place'
  <2>1. nextBatch' = FirstBatch(RunningPhase') + counters'[RunningPhase'].started
    BY <1>5, <1>12, <1>14
  <2>2. step \notin PreWarm
    BY <1>3 DEF Sending, PreWarm
  <2>3. step \in PreMeasure => p # "measured"
    BY <1>0, <1>3 DEF Sending, PreMeasure, PreWarm, RunningPhase
  <2>4. step \in PreMeasure => counters'["measured"] = NoCounters
    <3>1. "measured" \in Phases
      BY DEF Phases
    <3>2. QED  BY <1>14, <2>3, <3>1 DEF IngestionInv, Place
  <2>5. QED  BY <1>1, <2>1, <2>2, <2>4 DEF Place, FirstBatch
<1>24. QED
  BY <1>16, <1>18, <1>19, <1>20, <1>21, <1>22, <1>23 DEF IngestionInv

-----------------------------------------------------------------------------
(***************************************************************************)
(* The steps of the run, and what is known of its judgement.               *)
(***************************************************************************)
Reckoning == {"sampling", "freshness", "count", "diagnostics", "assess"}
Judged == {"down", "verify", "publish", "done"}
Succeeding ==
    {"source", "port", "up", "health", "identify", "controls", "environment", "precount",
     "aggregationWarmup", "sampling", "freshness", "count", "diagnostics"}

\* What a run without a failure has shown by the time it cleans up.
Earned ==
    /\ AllStored
    /\ scheduler.stage = "stopped" /\ Deadline(scheduler.successful) >= scheduler.end
    /\ freshness = "visible"
    /\ Requirements \subseteq report.verified

ReportType ==
    [outcome : {"none", "passed", "failed"}, verified : SUBSET {"REL-001", "PERF-006"},
     exit : {0, 1}]

Judgement ==
    /\ report \in ReportType
    /\ step \in Reckoning => scheduler.stage = "stopped"
    /\ step \notin Judged => report = NoReport
    /\ step \in Judged /\ ~failed => Earned
    /\ report.exit = 0 => step = "done" /\ ~failed /\ ~project
    /\ "REL-001" \in report.verified => AllStored

\* Before the judgement there are no verdicts, and the exit code is 1.
LEMMA NoReportIs ==
    NoReport \in ReportType /\ NoReport.exit = 1 /\ NoReport.verified = {}
BY DEF NoReport, ReportType

\* Before the first command nothing is judged.
LEMMA JudgementInit == Init => Judgement
<1> SUFFICES ASSUME Init PROVE Judgement
  OBVIOUS
<1>1. step = "source" /\ report = NoReport
  BY DEF Init
<1>2. step \notin Reckoning /\ step \notin Judged
  BY <1>1 DEF Reckoning, Judged
<1>3. QED  BY <1>1, <1>2, NoReportIs DEF Judgement

\* Where a step that succeeds leads.
LEMMA ProceedIs ==
    ASSUME step \in Succeeding, Proceed
    PROVE  /\ step # "killed" /\ step' # "killed" /\ step \notin Sending /\ step' \notin Sending
           /\ step \notin Judged /\ step' \notin Judged
           /\ step' \in PreWarm => step \in PreWarm
           /\ step' \in PreMeasure => step \in PreMeasure
           /\ step' \in Reckoning => step \in Reckoning
<1>1. /\ After["source"] = "port" /\ After["port"] = "up" /\ After["up"] = "health"
      /\ After["health"] = "identify" /\ After["identify"] = "controls"
      /\ After["controls"] = "environment" /\ After["environment"] = "precount"
      /\ After["precount"] = "warmup" /\ After["aggregationWarmup"] = "measure"
      /\ After["sampling"] = "freshness" /\ After["freshness"] = "count"
      /\ After["count"] = "diagnostics" /\ After["diagnostics"] = "assess"
  BY DEF After
<1>2. step' = After[step]
  BY DEF Proceed
<1>3. QED
  BY <1>1, <1>2 DEF Succeeding, Sending, Judged, PreWarm, PreMeasure, Reckoning

\* The steps of the run that leave ingestion, the scheduler and the report
\* alone: the run goes on or it fails.
GoesOn == step \in Succeeding /\ Proceed
Fails == step \in Succeeding /\ Throw

\* The end of a command: the clean-up goes on, or the run does, or it fails.
LEMMA CommandEndsIs ==
    ASSUME NEW ok \in BOOLEAN, CommandEnds(ok)
    PROVE  /\ UNCHANGED <<clock, scheduler, ingestion, freshness, report>>
           /\ \/ step = "down" /\ step' = "verify" /\ UNCHANGED <<failed, aborted>>
              \/ step = "verify" /\ step' = "publish" /\ UNCHANGED <<failed, aborted>>
              \/ GoesOn \/ Fails
<1>1. UNCHANGED <<clock, scheduler, ingestion, freshness, report>> /\ step \in CommandSteps
  BY DEF CommandEnds, running
<1>2. CASE step = "down"
  BY <1>1, <1>2 DEF CommandEnds
<1>3. CASE step = "verify"
  BY <1>1, <1>3 DEF CommandEnds
<1>4. CASE step # "down" /\ step # "verify"
  <2>1. Proceed \/ Throw
    BY <1>4 DEF CommandEnds
  <2>2. step \in Succeeding
    BY <1>1, <1>4 DEF CommandSteps, Succeeding
  <2>3. QED  BY <1>1, <2>1, <2>2 DEF GoesOn, Fails
<1>5. QED  BY <1>2, <1>3, <1>4

\* The other steps of that kind.
LEMMA ChecksAre ==
    ASSUME CheckPort \/ Healthy \/ NotHealthy \/ AggregationWarmup \/ SamplingEnds
    PROVE  /\ UNCHANGED <<clock, scheduler, ingestion, freshness, report>>
           /\ GoesOn \/ Fails
<1>1. CASE CheckPort
  BY <1>1 DEF CheckPort, running, GoesOn, Fails, Succeeding
<1>2. CASE Healthy
  BY <1>2 DEF Healthy, running, GoesOn, Fails, Succeeding
<1>3. CASE NotHealthy
  BY <1>3 DEF NotHealthy, running, GoesOn, Fails, Succeeding
<1>4. CASE AggregationWarmup
  BY <1>4 DEF AggregationWarmup, running, GoesOn, Fails, Succeeding
<1>5. CASE SamplingEnds
  BY <1>5 DEF SamplingEnds, running, GoesOn, Fails, Succeeding
<1>6. QED  BY <1>1, <1>2, <1>3, <1>4, <1>5

\* The wait for the probe never fails the run.
LEMMA FreshnessKnownIs ==
    ASSUME FreshnessKnown
    PROVE  UNCHANGED <<clock, scheduler, ingestion, report>> /\ GoesOn
BY DEF FreshnessKnown, GoesOn, Succeeding

\* No worker sends outside of the two phases.
LEMMA OnwardIfIdle ==
    ASSUME IngestionInv, step \notin Sending, step # "killed", step' # "killed",
           step' \notin Sending,
           step' \in PreWarm => step \in PreWarm, step' \in PreMeasure => step \in PreMeasure
    PROVE  Onward
BY Flights DEF Onward

\* A run that goes on, or fails, has no batch on its way.
LEMMA GoesOnward == ASSUME IngestionInv, GoesOn \/ Fails PROVE Onward
<1>1. CASE GoesOn
  BY <1>1, ProceedIs, OnwardIfIdle DEF GoesOn
<1>2. CASE Fails
  <2>1. step \in Succeeding /\ step' = "down"
    BY <1>2 DEF Fails, Throw
  <2>2. /\ step \notin Sending /\ step # "killed" /\ step' # "killed" /\ step' \notin Sending
        /\ step' \notin PreWarm /\ step' \notin PreMeasure
    BY <2>1 DEF Succeeding, Sending, PreWarm, PreMeasure
  <2>3. QED  BY <2>2, OnwardIfIdle
<1>3. QED  BY <1>1, <1>2

-----------------------------------------------------------------------------
\* Every step keeps what holds of ingestion.
LEMMA IngestionKept == ASSUME IngestionInv, [Next]_vars PROVE IngestionInv'
<1>1. CASE KillCommand
  BY <1>1, OnwardKeeps DEF KillCommand, Onward
<1>2. ASSUME NEW ok \in BOOLEAN, CommandEnds(ok) PROVE IngestionInv'
  <2>1. Onward
    <3>1. CASE GoesOn \/ Fails
      BY <3>1, GoesOnward
    <3>2. CASE step = "down" /\ step' = "verify"
      BY <3>2, OnwardIfIdle DEF Sending, PreWarm, PreMeasure
    <3>3. CASE step = "verify" /\ step' = "publish"
      BY <3>3, OnwardIfIdle DEF Sending, PreWarm, PreMeasure
    <3>4. QED  BY <1>2, <3>1, <3>2, <3>3, CommandEndsIs
  <2>2. QED  BY <1>2, <2>1, CommandEndsIs, OnwardKeeps
<1>3. CASE CheckPort \/ Healthy \/ NotHealthy \/ AggregationWarmup \/ SamplingEnds
  BY <1>3, ChecksAre, GoesOnward, OnwardKeeps
<1>4. CASE FreshnessKnown
  BY <1>4, FreshnessKnownIs, GoesOnward, OnwardKeeps
<1>5. CASE BeginWarmup
  <2>1. "warmup" \in Phases
    BY DEF Phases
  <2>2. QED  BY <1>5, <2>1, StartKeeps DEF BeginWarmup
<1>6. CASE Measure
  <2>1. "measured" \in Phases
    BY DEF Phases
  <2>2. QED  BY <1>6, <2>1, StartKeeps DEF Measure
<1>7. CASE PhaseEnds
  <2>1. Onward
    BY <1>7 DEF PhaseEnds, Onward, Sending, PreWarm, PreMeasure
  <2>2. QED  BY <1>7, <2>1, OnwardKeeps DEF PhaseEnds
<1>8. CASE MeasuringEnds
  <2>1. Onward
    BY <1>8 DEF MeasuringEnds, Onward, Sending, PreWarm, PreMeasure
  <2>2. QED  BY <1>8, <2>1, OnwardKeeps DEF MeasuringEnds
<1>9. CASE SchedulerStopped
  <2>1. step = "stopping" /\ step' = "sampling"
    BY <1>9 DEF SchedulerStopped
  <2>2. Onward
    BY <2>1, OnwardIfIdle DEF Sending, PreWarm, PreMeasure
  <2>3. QED  BY <1>9, <2>2, OnwardKeeps DEF SchedulerStopped
<1>10. CASE Assess
  <2>1. step = "assess" /\ step' = "down"
    BY <1>10 DEF Assess
  <2>2. Onward
    BY <2>1, OnwardIfIdle DEF Sending, PreWarm, PreMeasure
  <2>3. QED  BY <1>10, <2>2, OnwardKeeps DEF Assess
<1>11. CASE Publish
  <2>1. step = "publish" /\ step' = "done"
    BY <1>11 DEF Publish
  <2>2. Onward
    BY <2>1, OnwardIfIdle DEF Sending, PreWarm, PreMeasure
  <2>3. QED  BY <1>11, <2>2, OnwardKeeps DEF Publish
<1>12. CASE Schedule
  BY <1>12, OnwardKeeps DEF Schedule, Onward
<1>13. CASE SamplerFails \/ SamplerEnds
  BY <1>13, OnwardKeeps DEF SamplerFails, SamplerEnds, Onward
<1>14. ASSUME NEW outcome \in ProbeOutcomes, ProbeSettles(outcome) PROVE IngestionInv'
  BY <1>14, OnwardKeeps DEF ProbeSettles, Onward
<1>15. ASSUME NEW s \in Signals, Signal(s) PROVE IngestionInv'
  BY <1>15, OnwardKeeps DEF Signal, Onward
<1>16. ASSUME NEW s \in Signals, Kill(s) PROVE IngestionInv'
  BY <1>16, KillKeeps
<1>17. ASSUME NEW w \in Workers, ServiceStores(w) PROVE IngestionInv'
  BY <1>17, StoresKeeps
<1>18. ASSUME NEW b \in Batches, ServiceStoresLate(b) PROVE IngestionInv'
  BY <1>18, StoresLateKeeps
<1>19. ASSUME NEW w \in Workers, NEW success \in BOOLEAN, RequestSettles(w, success)
       PROVE  IngestionInv'
  BY <1>19, SettlesKeeps
<1>20. CASE UNCHANGED vars
  BY <1>20, OnwardKeeps DEF vars, Onward
<1>21. QED
  BY <1>1, <1>2, <1>3, <1>4, <1>5, <1>6, <1>7, <1>8, <1>9, <1>10, <1>11, <1>12, <1>13, <1>14,
     <1>15, <1>16, <1>17, <1>18, <1>19, <1>20 DEF Next, Progress

-----------------------------------------------------------------------------
(***************************************************************************)
(* The scheduler in the run.                                               *)
(***************************************************************************)
\* Whatever the run does is one step of the scheduler or none, or the end of
\* the process.
LEMMA SchedulerSteps ==
    ASSUME [Next]_vars, ~ \E s \in Signals : Kill(s)
    PROVE  [SchedulerNext]_schedulerVars
<1>1. CASE UNCHANGED <<aborted, clock, scheduler>>
  BY <1>1 DEF schedulerVars
<1>2. CASE aborted' = TRUE /\ UNCHANGED <<clock, scheduler>>
  BY <1>2 DEF SchedulerNext, Abort
<1>3. ASSUME GoesOn \/ Fails, UNCHANGED <<clock, scheduler>>
      PROVE  [SchedulerNext]_schedulerVars
  BY <1>1, <1>2, <1>3 DEF GoesOn, Fails, Proceed, Throw
<1>4. ASSUME NEW ok \in BOOLEAN, CommandEnds(ok) PROVE [SchedulerNext]_schedulerVars
  BY <1>1, <1>3, <1>4, CommandEndsIs
<1>5. CASE CheckPort \/ Healthy \/ NotHealthy \/ AggregationWarmup \/ SamplingEnds
  BY <1>3, <1>5, ChecksAre
<1>6. CASE FreshnessKnown
  BY <1>3, <1>6, FreshnessKnownIs
<1>7. CASE Schedule
  BY <1>7 DEF Schedule, SchedulerNext
<1>8. CASE Measure
  BY <1>8 DEF Measure, SchedulerNext
<1>9. CASE MeasuringEnds
  BY <1>9 DEF MeasuringEnds, SchedulerNext
<1>10. CASE \E s \in Signals : Signal(s)
  BY <1>2, <1>10 DEF Signal
<1>11. CASE \/ KillCommand \/ BeginWarmup \/ PhaseEnds \/ SchedulerStopped \/ Assess \/ Publish
            \/ SamplerFails \/ SamplerEnds
  <2>1. UNCHANGED schedulerVars
    BY <1>11 DEF KillCommand, BeginWarmup, PhaseEnds, SchedulerStopped, Assess, Publish,
                 SamplerFails, SamplerEnds
  <2>2. QED  BY <2>1
<1>12. CASE \/ \E w \in Workers : ServiceStores(w) \/ RequestSettles(w, TRUE) \/ RequestSettles(w, FALSE)
            \/ \E b \in Batches : ServiceStoresLate(b)
            \/ \E outcome \in ProbeOutcomes : ProbeSettles(outcome)
  <2>1. UNCHANGED schedulerVars
    BY <1>12 DEF ServiceStores, RequestSettles, ServiceStoresLate, ProbeSettles
  <2>2. QED  BY <2>1
<1>13. CASE UNCHANGED vars
  BY <1>13 DEF vars
<1>14. QED
  BY <1>4, <1>5, <1>6, <1>7, <1>8, <1>9, <1>10, <1>11, <1>12, <1>13 DEF Next, Progress

\* The process that is killed leaves the scheduler as if it never ran.
LEMMA SchedulerForgotten == SchedulerInit' => SchedulerInv'
BY SchedulerInitInvariant, PTL

\* Every step of the run keeps the invariant of the scheduler.
LEMMA SchedulerKept == ASSUME SchedulerInv, [Next]_vars PROVE SchedulerInv'
<1>1. CASE \E s \in Signals : Kill(s)
  <2>1. SchedulerInit'
    BY <1>1 DEF Kill, SchedulerInit, SchedulerInv, SchedulerTypes
  <2>2. QED  BY <2>1, SchedulerForgotten
<1>2. CASE ~ \E s \in Signals : Kill(s)
  BY <1>2, SchedulerSteps, SchedulerStepInvariant
<1>3. QED  BY <1>1, <1>2

\* A scheduler that has stopped does nothing any more.
LEMMA StoppedStays == ASSUME SchedulerInv, scheduler.stage = "stopped" PROVE ~Schedule
<1>1. scheduler.loop # "sleeping"
  BY DEF SchedulerInv, LoopInv
<1>2. QED
  BY <1>1 DEF Schedule, Pass, SchedulerStep, Awake, WakeToDispatch, WakeStopped, WakeAborted,
              AggregationSettles, LoopEnded, Drained, DrainExpires, GraceEnds

-----------------------------------------------------------------------------
(***************************************************************************)
(* The judgement.                                                          *)
(***************************************************************************)
\* A step that leaves the run where it is.
LEMMA QuietKeeps ==
    ASSUME Judgement, step' = step, UNCHANGED <<report, failed, project>>,
           scheduler.stage = "stopped" => UNCHANGED scheduler,
           step \in Judged /\ freshness = "visible" => UNCHANGED freshness,
           AllStored => AllStored'
    PROVE  Judgement'
<1>1. step \in Judged /\ ~failed => Earned'
  BY DEF Judgement, Earned, Deadline
<1>2. QED  BY <1>1 DEF Judgement

\* A step of a run that has not come to its end.
LEMMA UnjudgedKeeps ==
    ASSUME Judgement, step \notin Judged, step' \notin Judged, UNCHANGED report,
           step' \in Reckoning => scheduler'.stage = "stopped"
    PROVE  Judgement'
BY NoReportIs DEF Judgement

\* A run that fails.
LEMMA FailsKeeps == ASSUME Judgement, Fails, UNCHANGED report PROVE Judgement'
<1>1. step \notin Judged /\ step' = "down" /\ failed' = TRUE
  BY DEF Fails, Throw, Succeeding, Judged
<1>2. step' \notin Reckoning
  BY <1>1 DEF Reckoning
<1>3. step' \in Judged
  BY <1>1 DEF Judged
<1>4. report' = NoReport
  BY <1>1 DEF Judgement
<1>5. QED  BY <1>1, <1>2, <1>3, <1>4, NoReportIs DEF Judgement

\* A run that goes on.
LEMMA GoesOnKeeps ==
    ASSUME Judgement, GoesOn, UNCHANGED <<report, scheduler>> PROVE Judgement'
<1>1. /\ step \notin Judged /\ step' \notin Judged
      /\ step' \in Reckoning => step \in Reckoning
  BY ProceedIs DEF GoesOn
<1>2. QED  BY <1>1, UnjudgedKeeps DEF Judgement

\* A clean-up that goes on.
LEMMA CleanupKeeps ==
    ASSUME Judgement, UNCHANGED <<report, failed, scheduler, freshness, stored>>,
           step \in {"down", "verify"}, step' \in {"verify", "publish"}
    PROVE  Judgement'
<1>1. step \in Judged /\ step' \in Judged /\ step' \notin Reckoning /\ step # "done"
  BY DEF Judged, Reckoning
<1>2. ~failed => Earned'
  BY <1>1 DEF Judgement, Earned, AllStored, Deadline
<1>3. report.exit # 0
  BY <1>1 DEF Judgement
<1>4. "REL-001" \in report.verified => AllStored'
  BY DEF Judgement, AllStored
<1>5. QED  BY <1>1, <1>2, <1>3, <1>4 DEF Judgement

\* Batches are stored once: a step that stores one finds it missing.
LEMMA StoredStays ==
    ASSUME IngestionInv, AllStored
    PROVE  /\ late = {}
           /\ \A w \in Workers : ~ServiceStores(w)
<1>1. late = {}
  <2> SUFFICES ASSUME NEW b \in late PROVE FALSE
    OBVIOUS
  <2>1. b \in Batches /\ stored[b] = 0
    BY DEF IngestionInv, IngestionTypes, Stock
  <2>2. QED  BY <2>1, RowsPositive DEF AllStored
<1>2. ASSUME NEW w \in Workers, ServiceStores(w) PROVE FALSE
  <2>1. requests[w].batch # 0 /\ requests[w].kept = Undecided
    BY <1>2 DEF ServiceStores
  <2>2. requests[w].batch \in Batches /\ stored[requests[w].batch] = 0
    BY <2>1, Flights DEF IngestionInv, Custody
  <2>3. QED  BY <2>2, RowsPositive DEF AllStored
<1>3. QED  BY <1>1, <1>2

\* A phase that ingested without a failure has stored what it was to store.
LEMMA IngestionDone ==
    ASSUME IngestionInv, step \notin Sending, NEW p \in Phases, ~IngestionFails(p)
    PROVE  /\ \A b \in BatchesOf(p) : stored[b] = RowsOf(b)
           /\ counters[p].confirmed = TotalRows(p)
<1> DEFINE c == counters[p]
<1>1. c \in CounterType /\ stored \in [Batches -> Nat] /\ Ledger(p, c, {}, stored)
  BY Flights DEF IngestionInv, IngestionTypes, Ledgers
<1>2. c.started = BatchCount(p) /\ c.attempted = TotalRows(p)
      /\ ~(c.rejected > 0) /\ ~(c.indeterminate > 0)
  BY DEF IngestionFails
<1> HIDE DEF c
<1>3. c.rejected \in Nat /\ c.indeterminate \in Nat
  BY <1>1 DEF CounterType
<1>4. c.rejected = 0 /\ c.indeterminate = 0
  BY <1>2, <1>3
<1>5. \A b \in Batches : stored[b] <= RowsOf(b)
  BY DEF IngestionInv, Stock
<1>6. (\A b \in BatchesOf(p) : stored[b] = RowsOf(b)) /\ c.confirmed = c.attempted
  BY <1>1, <1>2, <1>4, <1>5, LedgerComplete
<1>7. QED  BY <1>2, <1>6 DEF c

\* Without a failure of either phase every batch is stored.
LEMMA AllDone ==
    ASSUME IngestionInv, step \notin Sending, \A p \in Phases : ~IngestionFails(p)
    PROVE  AllStored
<1>1. \A p \in Phases : \A b \in BatchesOf(p) : stored[b] = RowsOf(b)
  BY IngestionDone
<1>2. \A b \in Batches : b \in BatchesOf("warmup") \/ b \in BatchesOf("measured")
  BY Numbering
<1>3. QED  BY <1>1, <1>2 DEF AllStored, Phases

\* An open loop that did not fail has answered every tick of the measurement.
LEMMA AggregationDone ==
    ASSUME SchedulerInv, scheduler.stage = "stopped", ~aborted, ~AggregationFails
    PROVE  Deadline(scheduler.successful) >= scheduler.end /\ AggregationIsComplete
<1>1. /\ scheduler.scheduled \in Nat /\ scheduler.started \in Nat /\ scheduler.missed \in Nat
      /\ scheduler.completed \in Nat /\ scheduler.successful \in Nat
      /\ scheduler.scheduled = scheduler.started + scheduler.missed
      /\ scheduler.scheduled = scheduler.tick
  BY DEF SchedulerInv, SchedulerTypes, SchedulerType, CountersAdd, LoopInv
<1>2. /\ scheduler.successful >= 1 /\ scheduler.successful = scheduler.completed
      /\ scheduler.missed = 0 /\ scheduler.completed = scheduler.started
      /\ ~scheduler.drainTimedOut
  BY <1>1 DEF AggregationFails
<1>3. scheduler.scheduled = scheduler.successful /\ scheduler.tick = scheduler.successful
  BY <1>1, <1>2
<1>4. Deadline(scheduler.tick) >= scheduler.end
  BY DEF SchedulerInv, LoopInv, Complete
<1>5. QED  BY <1>1, <1>2, <1>3, <1>4 DEF AggregationIsComplete

\* What Assess finds is so: a run without a failure has earned it.
LEMMA AssessKeeps ==
    ASSUME SchedulerInv, IngestionInv, Judgement, Assess PROVE Judgement'
<1>1. /\ step = "assess" /\ step' = "down" /\ failed' = (WorkloadFails \/ aborted)
      /\ report' = [report EXCEPT !.verified = Verified]
      /\ UNCHANGED <<aborted, clock, scheduler, project, requests, counters, stored, late, freshness>>
  BY DEF Assess, schedulerVars, ingestion, running
<1>2. /\ step \notin Sending /\ step \in Reckoning /\ step \notin Judged
      /\ step' \notin Reckoning /\ step' \in Judged
  BY <1>1 DEF Sending, Reckoning, Judged
<1>3. report = NoReport /\ scheduler.stage = "stopped"
  BY <1>2 DEF Judgement
<1>4. Verified \in SUBSET {"REL-001", "PERF-006"}
  BY DEF Verified, Requirements
<1>5. /\ report' \in ReportType /\ report'.verified = Verified /\ report'.exit = 1
  BY <1>1, <1>3, <1>4, NoReportIs DEF ReportType
<1>6. "REL-001" \in Verified => AllStored
  <2>1. "REL-001" \in Verified => \A p \in Phases : ~IngestionFails(p)
    BY DEF Verified, Requirements, IngestionIsComplete
  <2>2. QED  BY <1>2, <2>1, AllDone
<1>7. AllStored' <=> AllStored
  BY <1>1 DEF AllStored
<1>8. ASSUME ~failed' PROVE Earned'
  <2>1. /\ ~aborted /\ \A p \in Phases : ~IngestionFails(p)
        /\ ~AggregationFails /\ freshness = "visible" /\ Reconciled
    BY <1>1, <1>8 DEF WorkloadFails
  <2>2. AllStored /\ \A p \in Phases : counters[p].confirmed = TotalRows(p)
    BY <1>2, <2>1, AllDone, IngestionDone
  <2>3. Deadline(scheduler.successful) >= scheduler.end /\ AggregationIsComplete
    BY <1>3, <2>1, AggregationDone
  <2>4. Requirements \subseteq Verified
    BY <2>1, <2>2, <2>3 DEF Verified, Requirements, IngestionIsComplete
  <2>5. QED  BY <1>1, <1>3, <1>5, <1>7, <2>1, <2>2, <2>3, <2>4 DEF Earned, Deadline
<1>9. QED  BY <1>1, <1>2, <1>5, <1>6, <1>7, <1>8 DEF Judgement

\* The exit code is 0 only for a run without a failure and without remains.
LEMMA PublishKeeps == ASSUME Judgement, Publish PROVE Judgement'
<1>1. /\ step = "publish" /\ step' = "done"
      /\ UNCHANGED <<aborted, clock, scheduler, project, stored, freshness, failed>>
      /\ report' \in {report, [report EXCEPT !.outcome = Outcome,
                                              !.exit = IF Outcome = "passed" THEN 0 ELSE 1]}
  BY DEF Publish, schedulerVars, ingestion, running
<1>2. /\ step \in Judged /\ step' \in Judged /\ step' \notin Reckoning /\ step # "done"
  BY <1>1 DEF Judged, Reckoning
<1>3. report \in ReportType /\ report.exit # 0
  BY <1>2 DEF Judgement
<1>4. /\ Outcome \in {"none", "passed", "failed"}
      /\ Outcome = "passed" => ~failed /\ ~project
  BY DEF Outcome, CleanupPassed
<1>5. /\ report' \in ReportType /\ report'.verified = report.verified
      /\ report'.exit = 0 => ~failed /\ ~project
  <2> DEFINE exit == IF Outcome = "passed" THEN 0 ELSE 1
             o == Outcome
  <2>1. exit \in {0, 1} /\ (exit = 0 => o = "passed") /\ o \in {"none", "passed", "failed"}
    BY <1>4
  <2>2. report' = report \/ report' = [report EXCEPT !.outcome = o, !.exit = exit]
    BY <1>1
  <2> HIDE DEF exit, o
  <2>3. CASE report' = report
    BY <1>3, <2>3
  <2>4. CASE report' = [report EXCEPT !.outcome = o, !.exit = exit]
    <3>1. report' \in ReportType /\ report'.verified = report.verified /\ report'.exit = exit
      BY <1>3, <2>1, <2>4 DEF ReportType
    <3>2. QED  BY <1>4, <2>1, <3>1 DEF o
  <2>5. QED  BY <2>2, <2>3, <2>4
<1>6. ~failed => Earned'
  BY <1>1, <1>2, <1>5 DEF Judgement, Earned, AllStored, Deadline
<1>7. "REL-001" \in report.verified => AllStored'
  BY <1>1 DEF Judgement, AllStored
<1>8. QED  BY <1>1, <1>2, <1>5, <1>6, <1>7 DEF Judgement

\* Every step of the run keeps what is known of its judgement.
LEMMA JudgementKept ==
    ASSUME SchedulerInv, IngestionInv, Judgement, [Next]_vars PROVE Judgement'
<1>1. CASE KillCommand
  BY <1>1, QuietKeeps DEF KillCommand, schedulerVars, ingestion, running, ending, AllStored
<1>2. ASSUME NEW ok \in BOOLEAN, CommandEnds(ok) PROVE Judgement'
  <2>1. UNCHANGED <<scheduler, freshness, report, stored>>
    BY <1>2, CommandEndsIs DEF ingestion
  <2>2. CASE GoesOn \/ Fails
    BY <2>1, <2>2, GoesOnKeeps, FailsKeeps
  <2>3. CASE \/ step = "down" /\ step' = "verify" /\ UNCHANGED failed
             \/ step = "verify" /\ step' = "publish" /\ UNCHANGED failed
    BY <2>1, <2>3, CleanupKeeps
  <2>4. QED  BY <1>2, <2>2, <2>3, CommandEndsIs
<1>3. CASE CheckPort \/ Healthy \/ NotHealthy \/ AggregationWarmup \/ SamplingEnds
  BY <1>3, ChecksAre, GoesOnKeeps, FailsKeeps
<1>4. CASE FreshnessKnown
  BY <1>4, FreshnessKnownIs, GoesOnKeeps
<1>5. CASE BeginWarmup \/ Measure \/ PhaseEnds \/ MeasuringEnds
  <2>1. /\ step \in {"warmup", "measure", "warming", "measuring"}
        /\ step' \in {"warming", "measuring", "aggregationWarmup", "stopping"}
        /\ report' = report
    BY <1>5 DEF BeginWarmup, Measure, PhaseEnds, MeasuringEnds, ending
  <2>2. step \notin Judged /\ step' \notin Judged /\ step' \notin Reckoning
    BY <2>1 DEF Judged, Reckoning
  <2>3. QED  BY <2>1, <2>2, UnjudgedKeeps
<1>6. CASE SchedulerStopped
  <2>1. /\ step = "stopping" /\ step' = "sampling" /\ scheduler'.stage = "stopped"
        /\ report' = report
    BY <1>6 DEF SchedulerStopped, ending, schedulerVars
  <2>2. step \notin Judged /\ step' \notin Judged
    BY <2>1 DEF Judged
  <2>3. QED  BY <2>1, <2>2, UnjudgedKeeps
<1>7. CASE Assess
  BY <1>7, AssessKeeps
<1>8. CASE Publish
  BY <1>8, PublishKeeps
<1>9. CASE Schedule
  <2>1. scheduler.stage # "stopped"
    BY <1>9, StoppedStays
  <2>2. step' = step /\ UNCHANGED <<report, failed, project, freshness, stored>>
    BY <1>9 DEF Schedule, ingestion, running, ending
  <2>3. QED  BY <2>1, <2>2, QuietKeeps DEF AllStored
<1>10. CASE SamplerFails \/ SamplerEnds
  BY <1>10, QuietKeeps DEF SamplerFails, SamplerEnds, schedulerVars, ingestion, ending, AllStored
<1>11. ASSUME NEW outcome \in ProbeOutcomes, ProbeSettles(outcome) PROVE Judgement'
  BY <1>11, QuietKeeps DEF ProbeSettles, schedulerVars, ingestion, ending, AllStored
<1>12. ASSUME NEW s \in Signals, Signal(s) PROVE Judgement'
  BY <1>12, QuietKeeps DEF Signal, ingestion, running, ending, AllStored
<1>13. ASSUME NEW s \in Signals, Kill(s) PROVE Judgement'
  <2>1. step' = "killed" /\ report' = NoReport
    BY <1>13 DEF Kill
  <2>2. step' \notin Judged /\ step' \notin Reckoning
    BY <2>1 DEF Judged, Reckoning
  <2>3. QED  BY <2>1, <2>2, NoReportIs DEF Judgement
<1>14. ASSUME NEW w \in Workers, ServiceStores(w) PROVE Judgement'
  <2>1. ~AllStored
    BY <1>14, StoredStays
  <2>2. step' = step /\ UNCHANGED <<report, failed, project, scheduler, freshness>>
    BY <1>14 DEF ServiceStores, schedulerVars, running, ending
  <2>3. QED  BY <2>1, <2>2, QuietKeeps
<1>15. ASSUME NEW b \in Batches, ServiceStoresLate(b) PROVE Judgement'
  <2>1. ~AllStored
    BY <1>15, StoredStays DEF ServiceStoresLate
  <2>2. step' = step /\ UNCHANGED <<report, failed, project, scheduler, freshness>>
    BY <1>15 DEF ServiceStoresLate, schedulerVars, running, ending
  <2>3. QED  BY <2>1, <2>2, QuietKeeps
<1>16. ASSUME NEW w \in Workers, NEW success \in BOOLEAN, RequestSettles(w, success)
       PROVE  Judgement'
  <2>1. requests[w].batch # 0
    BY <1>16 DEF RequestSettles
  <2>2. step \in Sending
    BY <2>1, Flights
  <2>3. step \notin Judged
    BY <2>2 DEF Sending, Judged
  <2>4. step' = step /\ UNCHANGED <<report, failed, project, scheduler, stored>>
    BY <1>16 DEF RequestSettles, schedulerVars, ending
  <2>5. QED  BY <2>3, <2>4, QuietKeeps DEF AllStored
<1>17. CASE UNCHANGED vars
  BY <1>17, QuietKeeps DEF vars, schedulerVars, ingestion, running, ending, AllStored
<1>18. QED
  BY <1>1, <1>2, <1>3, <1>4, <1>5, <1>6, <1>7, <1>8, <1>9, <1>10, <1>11, <1>12, <1>13, <1>14,
     <1>15, <1>16, <1>17 DEF Next, Progress

-----------------------------------------------------------------------------
LoadInv == SchedulerInv /\ IngestionInv /\ Judgement

\* What holds of the scheduler, of ingestion and of the judgement holds of
\* every run of runManagedLoadGenerator.
THEOREM LoadInvariance == Spec => []LoadInv
<1>1. Init => LoadInv
  <2>1. Init => SchedulerInit
    BY DEF Init, SchedulerInit
  <2>2. QED  BY <2>1, SchedulerInitInvariant, IngestionInit, JudgementInit DEF LoadInv
<1>2. LoadInv /\ [Next]_vars => LoadInv'
  BY SchedulerKept, IngestionKept, JudgementKept DEF LoadInv
<1>3. QED  BY <1>1, <1>2, PTL DEF Spec

\* The accounts of both phases balance all the time.
THEOREM BalanceCorrect == Spec => []AccountsBalance
<1>1. LoadInv => AccountsBalance
  <2> SUFFICES ASSUME LoadInv PROVE AccountsBalance
    OBVIOUS
  <2>1. ASSUME NEW p \in Phases
        PROVE  /\ counters[p].started = counters[p].completed + Cardinality(InFlight(p))
               /\ counters[p].attempted = counters[p].confirmed + counters[p].rejected
                      + counters[p].indeterminate + RowsIn(InFlight(p))
               /\ counters[p].confirmed <= SumFunctionOnSet(stored, BatchesOf(p))
    <3>1. /\ counters[p] \in CounterType /\ stored \in [Batches -> Nat]
          /\ Ledger(p, counters[p], InFlight(p), stored)
      BY DEF LoadInv, IngestionInv, IngestionTypes, Ledgers
    <3>2. QED  BY <3>1, LedgerBalances
  <2>2. Unique /\ CountersAdd
    BY DEF LoadInv, IngestionInv, SchedulerInv
  <2>3. QED  BY <2>1, <2>2 DEF AccountsBalance, Unique
<1>2. QED  BY <1>1, LoadInvariance, PTL

\* Exit code 0 and the verdict REL-001 are earned.
THEOREM PassedCorrect == Spec => []PassedIsEarned
<1>1. LoadInv => PassedIsEarned
  <2> SUFFICES ASSUME LoadInv PROVE PassedIsEarned
    OBVIOUS
  <2>1. "REL-001" \in report.verified => AllStored
    BY DEF LoadInv, Judgement
  <2>2. ASSUME report.exit = 0
        PROVE  /\ AllStored /\ late = {}
               /\ Deadline(scheduler.successful) >= scheduler.end
               /\ freshness = "visible"
               /\ ~project
               /\ Requirements \subseteq report.verified
    <3>1. step \in Judged /\ ~failed /\ ~project
      BY <2>2 DEF LoadInv, Judgement, Judged
    <3>2. Earned
      BY <3>1 DEF LoadInv, Judgement
    <3>3. late = {}
      BY <3>2, StoredStays DEF LoadInv, Earned
    <3>4. QED  BY <3>1, <3>2, <3>3 DEF Earned
  <2>3. QED  BY <2>1, <2>2 DEF PassedIsEarned
<1>2. QED  BY <1>1, LoadInvariance, PTL

\* Every tick is counted in the run as in the scheduler alone.
THEOREM TicksOfRun == Spec => []EveryTickCounted
<1>1. LoadInv => EveryTickCounted
  BY DEF LoadInv, SchedulerInv, LoopInv, Complete, LastDueBy, EveryTickCounted
<1>2. QED  BY <1>1, LoadInvariance, PTL
=============================================================================
