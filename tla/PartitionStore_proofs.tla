------------------------- MODULE PartitionStore_proofs -------------------------
(***************************************************************************)
(* Proofs about PartitionStore, for any insert statements, any sizes of    *)
(* days, batches and retention, and any skew of the clocks.                *)
(*                                                                         *)
(* DefaultStaysClear is not inductive: an insert brings rows to the        *)
(* default partition that it routed there earlier.  RouteInv and TxnInv    *)
(* say what an open insert may still bring, and that the lock of an attach *)
(* keeps out all that would be in its way.                                 *)
(***************************************************************************)
EXTENDS PartitionStore, FiniteSetTheorems, WellFoundedInduction, TLAPS

Preparation == [kind : {"preparation"}, todo : (SUBSET Day) \ {{}}]

Retention ==
    [kind : {"retention"}, reference : FirstTick - MaxSkew .. LastTick + MaxSkew,
     call : {"ensure", "drop", "delete"}, offset : 0 .. 2]

TypeInv ==
    /\ now \in FirstTick .. LastTick
    /\ partitions \subseteq Day
    /\ contents \in [Day \cup {Default} -> SUBSET Row]
    /\ \A d \in Day : \A r \in contents[d] : d \in partitions /\ DayOf(r) = d
    /\ stage \in [Statement -> {"new", "open", "stored", "committed", "aborted"}]
    /\ seen \in [Statement -> SUBSET Day]
    /\ run = NoRun \/ run \in Preparation \/ run \in Retention
    /\ txn \in [stage : {"none", "locked", "moved"}, day : Day, moved : SUBSET Row]
    /\ cutoff \in Nat
    /\ failures \in 0 .. MaxFailures

\* What an open insert saw is still there; what it has stored and not yet
\* committed in the default partition has no other partition to go to.
RouteInv ==
    \A s \in Statement :
        /\ stage[s] \in {"open", "stored"} => seen[s] \subseteq partitions
        /\ stage[s] = "stored" => \A r \in ToDefault(s) : DayOf(r) \notin partitions

\* A partition that is being attached is new, its rows come from the default
\* partition, and no insert can bring one there before the attach has ended.
TxnInv ==
    txn.stage # "none" =>
        /\ run # NoRun
        /\ run.kind = "retention" => run.call = "ensure"
        /\ txn.day \notin partitions
        /\ txn.moved \subseteq contents[Default]
        /\ \A r \in txn.moved : DayOf(r) = txn.day
        /\ \A s \in Statement : stage[s] = "stored" => ToDefault(s) = {}

IInv == TypeInv /\ RouteInv /\ TxnInv /\ DefaultStaysClear

-----------------------------------------------------------------------------
(* Days and least members. *)

\* A day has the ticks from its start to before the start of the next.
LEMMA DayFacts ==
    ASSUME NEW t \in Int
    PROVE  /\ DayOfTick(t) \in Int
           /\ DayOfTick(t) * TicksPerDay <= t
           /\ t < (DayOfTick(t) + 1) * TicksPerDay
BY ClockAssumption DEF DayOfTick

LEMMA DayUnique ==
    ASSUME NEW t \in Int, NEW d \in Int, d * TicksPerDay <= t, t < (d + 1) * TicksPerDay
    PROVE  DayOfTick(t) = d
BY ClockAssumption DEF DayOfTick

LEMMA DayMonotone ==
    ASSUME NEW t \in Int, NEW u \in Int, t <= u
    PROVE  DayOfTick(t) <= DayOfTick(u)
BY ClockAssumption DEF DayOfTick

LEMMA RowTimes ==
    ASSUME NEW r \in Row
    PROVE  TimeOf(r) \in Int /\ DayOf(r) \in Int
BY CarriesAssumption, DayFacts DEF Row, DayOf

LEMMA DaysAreNaturals ==
    /\ Day \subseteq Nat
    /\ Default \notin Day
    /\ DayOfTick(LastTick + MaxSkew) \in Int
    /\ 0 \in Day
<1>1. LastTick + MaxSkew \in Nat
  BY ClockAssumption
<1>2. DayOfTick(0) = 0
  BY ClockAssumption, DayUnique
<1>3. DayOfTick(LastTick + MaxSkew) \in Int /\ 0 <= DayOfTick(LastTick + MaxSkew)
  BY <1>1, <1>2, DayFacts, DayMonotone
<1>4. QED  BY <1>3, DefaultAssumption DEF Day

\* The days that a plan or an ensure call may name.
LEMMA PlannedDays ==
    ASSUME NEW t \in FirstTick - MaxSkew .. LastTick + MaxSkew
    PROVE  Plan(t) \subseteq Day /\ \A k \in 0 .. 2 : DayOfTick(t) + k \in Day
<1>1. t \in Int /\ t >= RetentionDays * TicksPerDay /\ t <= LastTick + MaxSkew
  BY ClockAssumption
<1>2. DayOfTick(RetentionDays * TicksPerDay) = RetentionDays
  BY ClockAssumption, DayUnique
<1>3. RetentionDays \in Nat /\ RetentionDays * TicksPerDay \in Int /\ LastTick + MaxSkew \in Int
  BY ClockAssumption
<1>4. DayOfTick(t) \in Int /\ RetentionDays <= DayOfTick(t)
  BY <1>1, <1>2, <1>3, DayFacts, DayMonotone
<1>5. DayOfTick(t) <= DayOfTick(LastTick + MaxSkew) /\ DayOfTick(LastTick + MaxSkew) \in Int
  BY <1>1, <1>3, DayFacts, DayMonotone
<1>6. QED  BY <1>3, <1>4, <1>5 DEF Plan, Day

\* A nonempty set of naturals has a least member: of the intervals from 0 to
\* a member one contains no other, because finite sets are well-founded.
LEMMA LeastMember ==
    ASSUME NEW S \in SUBSET Nat, S # {}
    PROVE  Min(S) \in S
<1> DEFINE W == {0 .. n : n \in S}
<1>1. W \subseteq FiniteSubsetsOf(Nat) /\ W # {}
  <2>1. ASSUME NEW n \in S PROVE 0 .. n \in FiniteSubsetsOf(Nat)
    <3>1. IsFiniteSet(0 .. n)
      BY FS_Interval
    <3>2. QED  BY <3>1 DEF FiniteSubsetsOf
  <2>2. QED  BY <2>1
<1>2. PICK x \in W : \A y \in W : ~ (<<y, x>> \in StrictSubsetOrdering(Nat))
  BY <1>1, FS_StrictSubsetOrderingWellFounded, WFMin
<1>3. PICK m \in S : x = 0 .. m
  OBVIOUS
<1>4. \A y \in S : m <= y
  <2> SUFFICES ASSUME NEW y \in S, y < m PROVE FALSE
    OBVIOUS
  <2>1. 0 .. y \subseteq 0 .. m /\ m \notin 0 .. y /\ m \in 0 .. m
    OBVIOUS
  <2>2. <<0 .. y, 0 .. m>> \in StrictSubsetOrdering(Nat)
    BY <2>1 DEF StrictSubsetOrdering
  <2>3. QED  BY <1>2, <1>3, <2>2
<1>5. QED  BY <1>4 DEF Min

-----------------------------------------------------------------------------
(* The invariant is established and preserved. *)

LEMMA InitInvariant == Init => IInv
<1> SUFFICES ASSUME Init PROVE IInv
  OBVIOUS
<1>1. TypeInv
  BY ClockAssumption, DaysAreNaturals DEF Init, TypeInv, NoTxn
<1>2. RouteInv /\ TxnInv /\ DefaultStaysClear
  BY DEF Init, RouteInv, TxnInv, DefaultStaysClear, NoTxn
<1>3. QED  BY <1>1, <1>2 DEF IInv

\* A step that changes only the clock, the counters and the run, and the run
\* only when it attaches nothing.
LEMMA RunOnly ==
    ASSUME IInv, UNCHANGED <<partitions, contents, stage, seen, txn>>,
           now' \in FirstTick .. LastTick, cutoff' \in Nat, failures' \in 0 .. MaxFailures,
           run' = NoRun \/ run' \in Preparation \/ run' \in Retention,
           txn.stage # "none" => run' = run
    PROVE  IInv'
<1> USE DEF IInv
<1>1. TypeInv'
  BY DEF TypeInv
<1>2. RouteInv'
  BY DEF RouteInv, ToDefault
<1>3. TxnInv'
  BY DEF TxnInv, ToDefault
<1>4. DefaultStaysClear'
  BY DEF DefaultStaysClear, Misplaced
<1>5. QED  BY <1>1, <1>2, <1>3, <1>4

\* A step of an insert that changes no partition: what it routes with may
\* only shrink, except when it begins.
LEMMA InsertOnly ==
    ASSUME IInv, UNCHANGED <<now, partitions, contents, maintenanceVars>>,
           NEW s \in Statement, NEW x \in {"open", "stored", "aborted"}, NEW S \in SUBSET Day,
           stage' = [stage EXCEPT ![s] = x], seen' = [seen EXCEPT ![s] = S],
           x \in {"open", "stored"} => S \subseteq partitions,
           x = "stored" => /\ S = seen[s]
                           /\ \A r \in ToDefault(s) : DayOf(r) \notin partitions
                           /\ txn.stage # "none" => ToDefault(s) = {}
    PROVE  IInv'
<1> USE DEF IInv
<1>1. /\ stage'[s] = x /\ seen'[s] = S
      /\ \A t \in Statement : t # s => stage'[t] = stage[t] /\ seen'[t] = seen[t]
      /\ \A t \in Statement : t # s => ToDefault(t)' = ToDefault(t)
      /\ x = "stored" => ToDefault(s)' = ToDefault(s)
  BY DEF TypeInv, ToDefault
<1>2. TypeInv'
  BY DEF TypeInv, maintenanceVars
<1>3. RouteInv'
  BY <1>1 DEF RouteInv
<1>4. TxnInv'
  BY <1>1 DEF TxnInv, maintenanceVars
<1>5. DefaultStaysClear'
  BY DEF DefaultStaysClear, Misplaced, maintenanceVars
<1>6. QED  BY <1>2, <1>3, <1>4, <1>5

LEMMA StatementInvariant ==
    ASSUME IInv, NEW s \in Statement, Open(s) \/ Store(s) \/ Abort(s)
    PROVE  IInv'
<1>1. CASE Open(s)
  <2>1. partitions \in SUBSET Day
    BY DEF IInv, TypeInv
  <2>2. QED  BY <1>1, <2>1, InsertOnly DEF Open
<1>2. CASE Store(s)
  <2>1. seen[s] \in SUBSET Day /\ seen' = [seen EXCEPT ![s] = seen[s]]
    BY <1>2 DEF IInv, TypeInv, Store
  <2>2. seen[s] \subseteq partitions
    BY <1>2 DEF IInv, RouteInv, Store
  <2>3. txn.stage # "none" => ToDefault(s) = {}
    BY <1>2 DEF Store, DefaultLocked
  <2>4. QED  BY <1>2, <2>1, <2>2, <2>3, InsertOnly DEF Store
<1>3. CASE Abort(s)
  <2>1. {} \in SUBSET Day
    OBVIOUS
  <2>2. /\ stage' = [stage EXCEPT ![s] = "aborted"] /\ seen' = [seen EXCEPT ![s] = {}]
        /\ UNCHANGED <<now, partitions, contents, maintenanceVars>>
    BY <1>3 DEF Abort
  <2>3. QED  BY <2>1, <2>2, InsertOnly
<1>4. QED  BY <1>1, <1>2, <1>3

\* A row that a statement commits lands in the partition of its day, or in
\* the default one when its day still has none.
LEMMA CommitPlaces ==
    ASSUME IInv, NEW s \in Statement, stage[s] = "stored", NEW r \in Carries[s]
    PROVE  /\ r \in Row
           /\ r \in ToDefault(s) => PartitionFor(s, r) = Default /\ DayOf(r) \notin partitions
           /\ r \notin ToDefault(s) =>
                /\ PartitionFor(s, r) = DayOf(r) /\ DayOf(r) # Default
                /\ DayOf(r) \in Day /\ DayOf(r) \in partitions
<1>1. r \in Row
  BY DEF Row
<1>2. r \notin ToDefault(s) => DayOf(r) \in seen[s]
  BY DEF ToDefault
<1>3. seen[s] \subseteq partitions /\ partitions \subseteq Day
  BY DEF IInv, RouteInv, TypeInv
<1>4. \A q \in ToDefault(s) : DayOf(q) \notin partitions
  BY DEF IInv, RouteInv
<1>5. QED  BY <1>1, <1>2, <1>3, <1>4, DaysAreNaturals DEF PartitionFor

LEMMA CommitInvariant ==
    ASSUME IInv, NEW s \in Statement, Commit(s)
    PROVE  IInv'
<1> USE DEF IInv
<1> DEFINE Into(p) == {r \in Carries[s] : PartitionFor(s, r) = p}
<1>1. /\ stage[s] = "stored"
      /\ stage' = [stage EXCEPT ![s] = "committed"] /\ seen' = [seen EXCEPT ![s] = {}]
      /\ contents' = [p \in DOMAIN contents |-> contents[p] \cup Into(p)]
      /\ UNCHANGED <<now, partitions, run, txn, cutoff, failures>>
  BY DEF Commit, maintenanceVars
<1>2. /\ DOMAIN contents = Day \cup {Default}
      /\ \A p \in Day \cup {Default} : contents[p] \subseteq Row /\ Into(p) \subseteq Row
  BY DEF TypeInv, Row
<1>3. \A d \in Day : \A r \in Into(d) : d \in partitions /\ DayOf(r) = d
  BY <1>1, CommitPlaces, DaysAreNaturals
<1>4. \A r \in Into(Default) : r \in ToDefault(s) /\ DayOf(r) \notin partitions
  BY <1>1, CommitPlaces
<1>5. txn.stage # "none" => Into(Default) = {}
  BY <1>1, <1>4 DEF TxnInv
<1>6. contents' \in [Day \cup {Default} -> SUBSET Row]
  BY <1>1, <1>2
<1>7. \A p \in Day \cup {Default} : contents'[p] = contents[p] \cup Into(p)
  BY <1>1, <1>2
<1> HIDE DEF Into
<1>8. TypeInv'
  <2>1. \A d \in Day : \A r \in contents'[d] : d \in partitions' /\ DayOf(r) = d
    BY <1>1, <1>3, <1>7 DEF TypeInv
  <2>2. stage' \in [Statement -> {"new", "open", "stored", "committed", "aborted"}]
    BY <1>1 DEF TypeInv
  <2>3. seen' \in [Statement -> SUBSET Day]
    BY <1>1 DEF TypeInv
  <2>4. QED  BY <1>1, <1>6, <2>1, <2>2, <2>3 DEF TypeInv
<1>9. /\ stage'[s] = "committed"
      /\ \A t \in Statement : t # s =>
           stage'[t] = stage[t] /\ seen'[t] = seen[t] /\ ToDefault(t)' = ToDefault(t)
  BY <1>1 DEF TypeInv, ToDefault
<1>10. RouteInv'
  BY <1>1, <1>9 DEF RouteInv
<1>11. TxnInv'
  BY <1>1, <1>7, <1>9 DEF TxnInv
<1>12. DefaultStaysClear'
  <2>1. \A r \in contents'[Default] : DayOf(r) \notin partitions'
    BY <1>1, <1>4, <1>7 DEF DefaultStaysClear
  <2>2. txn.stage = "moved" => contents'[Default] = contents[Default]
    BY <1>5, <1>7
  <2>3. QED  BY <1>1, <2>1, <2>2 DEF DefaultStaysClear, Misplaced
<1>13. QED  BY <1>8, <1>10, <1>11, <1>12

\* A run that has a call of retention is one of retention.
LEMMA RetentionRun ==
    ASSUME TypeInv, NEW call, IsRetention(call)
    PROVE  run \in Retention /\ run.call = call
BY DEF TypeInv, IsRetention, Preparation

LEMMA NextDayInDays ==
    ASSUME TypeInv, run # NoRun
    PROVE  NextDay \in Day
<1>1. CASE run \in Preparation
  <2>1. run.todo \in SUBSET Nat /\ run.todo # {} /\ run.todo \subseteq Day
    BY <1>1, DaysAreNaturals DEF Preparation
  <2>2. Min(run.todo) \in run.todo
    BY <2>1, LeastMember
  <2>3. QED  BY <1>1, <2>1, <2>2 DEF NextDay, Preparation
<1>2. CASE run \in Retention
  <2>1. EnsuredDay \in Day
    BY <1>2, PlannedDays DEF Retention, EnsuredDay
  <2>2. QED  BY <1>2, <2>1 DEF NextDay, Retention
<1>3. QED  BY <1>1, <1>2 DEF TypeInv

LEMMA AfterAttachType ==
    ASSUME TypeInv, run # NoRun
    PROVE  AfterAttach = NoRun \/ AfterAttach \in Preparation \/ AfterAttach \in Retention
<1>1. CASE run \in Preparation
  <2>1. run.kind = "preparation" /\ run.todo \in SUBSET Day /\ run.todo # {}
    BY <1>1 DEF Preparation
  <2>2. CASE run.todo = {txn.day}
    BY <2>1, <2>2 DEF AfterAttach
  <2>3. CASE run.todo # {txn.day}
    <3>1. run.todo \ {txn.day} \in (SUBSET Day) \ {{}}
      BY <2>1, <2>3
    <3>2. [run EXCEPT !.todo = @ \ {txn.day}] \in Preparation
      BY <1>1, <3>1 DEF Preparation
    <3>3. QED  BY <2>1, <2>3, <3>2 DEF AfterAttach
  <2>4. QED  BY <2>2, <2>3
<1>2. CASE run \in Retention
  BY <1>2 DEF AfterAttach, AfterEnsure, Retention
<1>3. QED  BY <1>1, <1>2 DEF TypeInv

\* Steps that touch neither a row nor a partition.
LEMMA QuietInvariant ==
    ASSUME IInv,
           \/ Tick \/ Begin \/ EnsureExists \/ Raise \/ NothingToDrop \/ UNCHANGED vars
    PROVE  IInv'
<1> USE DEF IInv
<1>1. /\ now \in FirstTick .. LastTick /\ cutoff \in Nat /\ failures \in 0 .. MaxFailures
      /\ run = NoRun \/ run \in Preparation \/ run \in Retention
      /\ run = NoRun => txn.stage = "none"
      /\ txn = NoTxn => txn.stage = "none"
  BY DEF TypeInv, TxnInv, NoTxn
<1>2. CASE Tick
  <2>1. now' \in FirstTick .. LastTick
    BY <1>1, <1>2, ClockAssumption DEF Tick
  <2>2. QED  BY <1>1, <1>2, <2>1, RunOnly DEF Tick
<1>3. ASSUME NEW skew \in -MaxSkew .. MaxSkew, BeginRetention(skew) PROVE IInv'
  <2>1. now + skew \in FirstTick - MaxSkew .. LastTick + MaxSkew
    BY <1>1, ClockAssumption
  <2>2. run' \in Retention
    BY <1>3, <2>1 DEF BeginRetention, Retention
  <2>3. QED  BY <1>1, <1>3, <2>2, RunOnly DEF BeginRetention, insertVars
<1>4. CASE BeginPreparation
  <2>1. PICK skew \in -MaxSkew .. MaxSkew :
          /\ Plan(now + skew) \ partitions # {}
          /\ run' = [kind |-> "preparation", todo |-> Plan(now + skew) \ partitions]
    BY <1>4 DEF BeginPreparation
  <2>2. now + skew \in FirstTick - MaxSkew .. LastTick + MaxSkew
    BY <1>1, ClockAssumption
  <2>3. Plan(now + skew) \subseteq Day
    BY <2>2, PlannedDays
  <2>4. run' \in Preparation
    BY <2>1, <2>3 DEF Preparation
  <2>5. QED  BY <1>1, <1>4, <2>4, RunOnly DEF BeginPreparation, insertVars
<1>5. CASE EnsureExists
  <2>1. run \in Retention
    BY <1>5, RetentionRun DEF EnsureExists
  <2>2. AfterEnsure \in Retention
    BY <2>1 DEF AfterEnsure, Retention
  <2>3. QED  BY <1>1, <1>5, <2>2, RunOnly DEF EnsureExists, insertVars
<1>6. CASE Raise
  BY <1>1, <1>6, RunOnly DEF Raise, insertVars
<1>7. CASE NothingToDrop
  <2>1. run \in Retention /\ run.call = "drop"
    BY <1>7, RetentionRun DEF NothingToDrop
  <2>2. [run EXCEPT !.call = "delete"] \in Retention
    BY <2>1 DEF Retention
  <2>3. txn.stage = "none"
    BY <2>1 DEF TxnInv, Retention
  <2>4. QED  BY <1>1, <1>7, <2>2, <2>3, RunOnly DEF NothingToDrop, insertVars
<1>8. CASE UNCHANGED vars
  BY <1>1, <1>8, RunOnly DEF vars
<1>9. QED  BY <1>2, <1>3, <1>4, <1>5, <1>6, <1>7, <1>8 DEF Begin

\* The transaction that attaches a partition begins, moves rows, or fails.
LEMMA TxnInvariant ==
    ASSUME IInv, LockDefault \/ Move \/ Fail
    PROVE  IInv'
<1> USE DEF IInv
<1>1. UNCHANGED <<now, partitions, contents, stage, seen, cutoff>>
  BY DEF LockDefault, Move, Fail, insertVars
<1>2. RouteInv'
  BY <1>1 DEF RouteInv, ToDefault
<1>3. \A r \in contents'[Default] : DayOf(r) \notin partitions'
  BY <1>1 DEF DefaultStaysClear
<1>4. \A s \in Statement : ToDefault(s)' = ToDefault(s)
  BY <1>1 DEF ToDefault
<1>5. CASE LockDefault
  <2>1. /\ run # NoRun /\ run' = run /\ failures' = failures
        /\ run.kind = "retention" => run.call = "ensure"
        /\ NextDay \notin partitions
        /\ \A s \in Statement : stage[s] = "stored" => ToDefault(s) = {}
        /\ txn' = [stage |-> "locked", day |-> NextDay, moved |-> {}]
    BY <1>5 DEF LockDefault, IsRetention
  <2>2. NextDay \in Day
    BY <2>1, NextDayInDays
  <2>3. TypeInv'
    BY <1>1, <2>1, <2>2 DEF TypeInv
  <2>4. TxnInv'
    BY <1>1, <1>4, <2>1 DEF TxnInv
  <2>5. DefaultStaysClear'
    BY <1>3, <2>1 DEF DefaultStaysClear
  <2>6. QED  BY <1>2, <2>3, <2>4, <2>5
<1>6. CASE Move
  <2>1. /\ txn.stage = "locked" /\ run' = run /\ failures' = failures
        /\ txn' = [txn EXCEPT !.stage = "moved", !.moved = Overlap(txn.day)]
    BY <1>6 DEF Move
  <2>2. /\ txn'.stage = "moved" /\ txn'.day = txn.day /\ txn'.moved = Overlap(txn.day)
    BY <2>1 DEF TypeInv
  <2>3. txn.day \in Int
    <3>1. txn.day \in Day
      BY DEF TypeInv
    <3>2. txn.day \in Nat
      BY <3>1, DaysAreNaturals, Zenon
    <3>3. QED  BY <3>2
  <2>4. contents[Default] \subseteq Row
    BY DEF TypeInv
  \* The range of the day's ticks is exactly what its partition accepts.
  <2>5. Overlap(txn.day) = {r \in contents[Default] : DayOf(r) = txn.day}
    <3>1. ASSUME NEW r \in contents[Default]
          PROVE  DayOf(r) = txn.day <=>
                   txn.day * TicksPerDay <= TimeOf(r) /\ TimeOf(r) < (txn.day + 1) * TicksPerDay
      <4>1. TimeOf(r) \in Int
        BY <2>4, RowTimes
      <4>2. QED  BY <2>3, <4>1, DayFacts, DayUnique DEF DayOf
    <3>2. QED  BY <3>1 DEF Overlap
  <2>6. TypeInv'
    <3>1. txn' \in [stage : {"none", "locked", "moved"}, day : Day, moved : SUBSET Row]
      BY <2>1, <2>4, <2>5 DEF TypeInv
    <3>2. QED  BY <1>1, <2>1, <3>1 DEF TypeInv
  <2>7. TxnInv'
    BY <1>1, <1>4, <2>1, <2>2, <2>5 DEF TxnInv
  <2>8. Misplaced' = {}
    BY <1>1, <2>2, <2>5 DEF Misplaced
  <2>9. QED  BY <1>2, <1>3, <2>6, <2>7, <2>8 DEF DefaultStaysClear
<1>7. CASE Fail
  <2>1. run' = NoRun /\ txn' = NoTxn /\ failures' = failures + 1 /\ failures < MaxFailures
    BY <1>7 DEF Fail
  <2>2. TypeInv'
    BY <1>1, <2>1, DaysAreNaturals, ClockAssumption DEF TypeInv, NoTxn
  <2>3. TxnInv' /\ DefaultStaysClear'
    BY <1>3, <2>1 DEF TxnInv, DefaultStaysClear, NoTxn
  <2>4. QED  BY <1>2, <2>2, <2>3
<1>8. QED  BY <1>5, <1>6, <1>7

LEMMA AttachInvariant ==
    ASSUME IInv, Attach
    PROVE  IInv'
<1> USE DEF IInv
<1>1. /\ txn.stage = "moved" /\ Misplaced = {}
      /\ partitions' = partitions \cup {txn.day}
      /\ contents' = [contents EXCEPT ![Default] = @ \ txn.moved, ![txn.day] = txn.moved]
      /\ run' = AfterAttach /\ txn' = NoTxn
      /\ UNCHANGED <<now, stage, seen, cutoff, failures>>
  BY DEF Attach, insertVars
<1>2. /\ run # NoRun /\ txn.day \notin partitions
      /\ txn.moved \subseteq contents[Default]
      /\ \A r \in txn.moved : DayOf(r) = txn.day
      /\ \A s \in Statement : stage[s] = "stored" => ToDefault(s) = {}
  BY <1>1 DEF TxnInv
<1>3. txn.day \in Day /\ txn.moved \subseteq Row /\ txn.day # Default
  BY DaysAreNaturals DEF TypeInv
<1>4. /\ contents' \in [Day \cup {Default} -> SUBSET Row]
      /\ contents'[Default] = contents[Default] \ txn.moved
      /\ contents'[txn.day] = txn.moved
      /\ \A d \in Day : d # txn.day => contents'[d] = contents[d]
  BY <1>1, <1>3, DaysAreNaturals DEF TypeInv
<1>5. TypeInv'
  <2>1. \A d \in Day : \A r \in contents'[d] : d \in partitions' /\ DayOf(r) = d
    BY <1>1, <1>2, <1>4 DEF TypeInv
  <2>2. txn' \in [stage : {"none", "locked", "moved"}, day : Day, moved : SUBSET Row]
    BY <1>1, DaysAreNaturals DEF NoTxn
  <2>3. run' = NoRun \/ run' \in Preparation \/ run' \in Retention
    BY <1>1, <1>2, AfterAttachType
  <2>4. partitions' \subseteq Day
    BY <1>1, <1>3 DEF TypeInv
  <2>5. QED  BY <1>1, <1>4, <2>1, <2>2, <2>3, <2>4 DEF TypeInv
<1>6. \A s \in Statement : ToDefault(s)' = ToDefault(s)
  BY <1>1 DEF ToDefault
<1>7. RouteInv'
  BY <1>1, <1>2, <1>6 DEF RouteInv
<1>8. TxnInv'
  BY <1>1 DEF TxnInv, NoTxn
<1>9. DefaultStaysClear'
  <2>1. \A r \in contents'[Default] : DayOf(r) # txn.day
    BY <1>1, <1>4 DEF Misplaced
  <2>2. \A r \in contents'[Default] : DayOf(r) \notin partitions'
    BY <1>1, <1>4, <2>1 DEF DefaultStaysClear
  <2>3. QED  BY <1>1, <2>2 DEF DefaultStaysClear, NoTxn
<1>10. QED  BY <1>5, <1>7, <1>8, <1>9

\* The cutoff of a run is a number, and the latest one never goes back.
LEMMA CutoffFacts ==
    ASSUME TypeInv, run \in Retention, WorkedWith
    PROVE  Cutoff \in Int /\ cutoff' \in Nat /\ cutoff' >= cutoff /\ cutoff' >= Cutoff
<1>1. Cutoff \in Int
  <2>1. run.reference \in Int
    BY ClockAssumption DEF Retention
  <2>2. QED  BY <2>1, ClockAssumption DEF Cutoff
<1>2. cutoff \in Nat
  BY DEF TypeInv
<1>3. QED  BY <1>1, <1>2 DEF WorkedWith

\* What is dropped is a partition whose rows are all older than the cutoff.
LEMMA DroppedDay ==
    ASSUME IInv, Drop
    PROVE  /\ Min(Expired) \in Day /\ Min(Expired) \in partitions
           /\ \A r \in contents[Min(Expired)] : TimeOf(r) < Cutoff
<1>1. partitions \subseteq Day
  BY DEF IInv, TypeInv
<1>2. Expired \subseteq Nat /\ Expired # {}
  BY <1>1, DaysAreNaturals DEF Expired, Drop
<1>3. Min(Expired) \in Expired
  BY <1>2, LeastMember
<1> DEFINE d == Min(Expired)
<1> HIDE DEF d
<1>4. d \in partitions /\ d \in Day /\ d \in Nat /\ (d + 1) * TicksPerDay <= Cutoff
  BY <1>1, <1>2, <1>3 DEF Expired, d
<1>5. run \in Retention
  BY RetentionRun DEF Drop, IInv
<1>6. Cutoff \in Int
  BY <1>5, CutoffFacts DEF IInv, Drop
<1>7. ASSUME NEW r \in contents[d] PROVE TimeOf(r) < Cutoff
  <2>1. r \in Row /\ DayOf(r) = d
    BY <1>4, <1>7 DEF IInv, TypeInv
  <2>2. TimeOf(r) \in Int
    BY <2>1, RowTimes
  <2>3. TimeOf(r) < (d + 1) * TicksPerDay
    BY <2>1, <2>2, DayFacts DEF DayOf
  <2>4. (d + 1) * TicksPerDay \in Int
    BY <1>4, ClockAssumption
  <2>5. QED  BY <1>4, <1>6, <2>2, <2>3, <2>4
<1>8. QED  BY <1>4, <1>7 DEF d

\* Steps that take rows away: every partition keeps a part of its rows, a
\* partition that goes has none left, and no insert has it in its routes.
LEMMA RemovalInvariant ==
    ASSUME IInv, UNCHANGED <<now, stage, seen, txn, failures>>,
           txn.stage = "none", cutoff' \in Nat,
           run' = NoRun \/ run' \in Preparation \/ run' \in Retention,
           partitions' \subseteq partitions,
           contents' \in [Day \cup {Default} -> SUBSET Row],
           \A p \in Day \cup {Default} : contents'[p] \subseteq contents[p],
           \A d \in partitions \ partitions' : contents'[d] = {},
           \A s \in Statement : stage[s] \in {"open", "stored"} => seen[s] \subseteq partitions'
    PROVE  IInv'
<1> USE DEF IInv
<1>1. TypeInv'
  <2>1. \A d \in Day : \A r \in contents'[d] : d \in partitions' /\ DayOf(r) = d
    BY DEF TypeInv
  <2>2. QED  BY <2>1 DEF TypeInv
<1>2. \A s \in Statement : ToDefault(s)' = ToDefault(s)
  BY DEF ToDefault
<1>3. RouteInv'
  BY <1>2 DEF RouteInv
<1>4. TxnInv'
  BY DEF TxnInv
<1>5. DefaultStaysClear'
  BY DEF DefaultStaysClear
<1>6. QED  BY <1>1, <1>3, <1>4, <1>5

LEMMA DropInvariant ==
    ASSUME IInv, Drop
    PROVE  IInv'
<1> DEFINE d == Min(Expired)
<1>1. /\ partitions' = partitions \ {d}
      /\ contents' = [contents EXCEPT ![d] = {}]
      /\ run' = run \/ run' = [run EXCEPT !.call = "delete"]
      /\ \A s \in Statement : stage[s] \notin {"open", "stored"}
      /\ WorkedWith /\ UNCHANGED <<now, stage, seen, txn, failures>>
  BY DEF Drop, insertVars
<1>2. d \in Day
  BY DroppedDay
<1> HIDE DEF d
<1>3. run \in Retention /\ run.call = "drop"
  BY RetentionRun DEF Drop, IInv
<1>4. cutoff' \in Nat
  BY <1>1, <1>3, CutoffFacts DEF IInv
<1>5. run' \in Retention
  BY <1>1, <1>3 DEF Retention
<1>6. txn.stage = "none"
  BY <1>3 DEF IInv, TypeInv, TxnInv, Retention
<1>7. /\ contents' \in [Day \cup {Default} -> SUBSET Row]
      /\ contents'[d] = {}
      /\ \A p \in Day \cup {Default} : contents'[p] \subseteq contents[p]
  BY <1>1, <1>2 DEF IInv, TypeInv
<1>8. QED  BY <1>1, <1>4, <1>5, <1>6, <1>7, RemovalInvariant

LEMMA DeleteInvariant ==
    ASSUME IInv, Delete
    PROVE  IInv'
<1>1. PICK V \in Victims :
        /\ contents' = [contents EXCEPT ![Default] = @ \ V]
        /\ run' = run \/ run' = NoRun
  BY DEF Delete
<1>2. WorkedWith /\ UNCHANGED <<now, partitions, stage, seen, txn, failures>>
  BY DEF Delete, insertVars
<1>3. run \in Retention /\ run.call = "delete"
  BY RetentionRun DEF Delete, IInv
<1>4. cutoff' \in Nat
  BY <1>2, <1>3, CutoffFacts DEF IInv
<1>5. txn.stage = "none"
  BY <1>3 DEF IInv, TypeInv, TxnInv, Retention
<1>6. /\ contents' \in [Day \cup {Default} -> SUBSET Row]
      /\ \A p \in Day \cup {Default} : contents'[p] \subseteq contents[p]
  BY <1>1 DEF IInv, TypeInv
<1>7. \A s \in Statement : stage[s] \in {"open", "stored"} => seen[s] \subseteq partitions'
  BY <1>2 DEF IInv, RouteInv
<1>8. QED  BY <1>1, <1>2, <1>3, <1>4, <1>5, <1>6, <1>7, RemovalInvariant

-----------------------------------------------------------------------------

LEMMA StepInvariant == IInv /\ [Next]_vars => IInv'
<1> SUFFICES ASSUME IInv, [Next]_vars PROVE IInv'
  OBVIOUS
<1>1. ASSUME NEW s \in Statement, Open(s) \/ End(s) PROVE IInv'
  BY <1>1, StatementInvariant, CommitInvariant DEF End
<1>2. CASE Tick \/ Begin \/ UNCHANGED vars
  BY <1>2, QuietInvariant
<1>3. CASE RunStep
  BY <1>3, QuietInvariant, TxnInvariant, AttachInvariant, DropInvariant, DeleteInvariant DEF RunStep
<1>4. CASE Fail
  BY <1>4, TxnInvariant
<1>5. QED  BY <1>1, <1>2, <1>3, <1>4 DEF Next

\* The invariant, for all inserts, runs, clocks and failures.
THEOREM Invariance == Spec => []IInv
BY InitInvariant, StepInvariant, PTL DEF Spec

\* Types; each row of a day's partition is of that day.
THEOREM TypeCorrect == Spec => []TypeOK
<1>1. ASSUME IInv PROVE TypeOK
  BY <1>1 DEF IInv, TypeInv, TypeOK, Preparation, Retention
<1>2. QED  BY <1>1, Invariance, PTL

\* The default partition never has a row of a day that has a partition or is
\* being given one, whatever an insert saw when it began.
THEOREM DefaultCorrect == Spec => []DefaultStaysClear
<1>1. IInv => DefaultStaysClear
  BY DEF IInv
<1>2. QED  BY <1>1, Invariance, PTL

-----------------------------------------------------------------------------
(* The partitions together are a LogStore. *)

Rows == UNION {contents[p] : p \in DOMAIN contents}

LEMMA TableSteps ==
    /\ Table!Init <=> Accepted = {} /\ Rows = {} /\ cutoff = 0
    /\ Table!Insert <=>
         \E rows \in SUBSET (Row \ Accepted) :
            Accepted' = Accepted \cup rows /\ Rows' = Rows \cup rows /\ cutoff' = cutoff
    /\ Table!Expire <=>
         /\ cutoff' \in Nat /\ cutoff' >= cutoff
         /\ \E gone \in SUBSET {r \in Rows : TimeOf(r) < cutoff'} : Rows' = Rows \ gone
         /\ Accepted' = Accepted
    /\ Table!Next <=> Table!Insert \/ Table!Expire
    /\ UNCHANGED Table!vars <=> Accepted' = Accepted /\ Rows' = Rows /\ cutoff' = cutoff
BY DEF Table!Init, Table!Insert, Table!Expire, Table!Next, Table!vars, Rows

LEMMA RefinesInit == Init => Table!Init
<1> SUFFICES ASSUME Init PROVE Table!Init
  OBVIOUS
<1>1. Accepted = {} /\ Rows = {} /\ cutoff = 0
  BY DEF Init, Accepted, Rows
<1>2. QED  BY <1>1, TableSteps

\* Steps that change no row but move some between partitions do not show.
LEMMA AcceptedSame ==
    ASSUME TypeInv,
           \A s \in Statement : stage'[s] = "committed" <=> stage[s] = "committed"
    PROVE  Accepted' = Accepted
BY DEF Accepted

LEMMA RefinesCommit ==
    ASSUME IInv, NEW s \in Statement, Commit(s)
    PROVE  Table!Insert
<1>1. /\ stage[s] = "stored"
      /\ stage' = [stage EXCEPT ![s] = "committed"]
      /\ contents' = [p \in DOMAIN contents |->
                        contents[p] \cup {r \in Carries[s] : PartitionFor(s, r) = p}]
      /\ cutoff' = cutoff
  BY DEF Commit, maintenanceVars
<1>2. Accepted' = Accepted \cup Carries[s]
  <2>1. \A t \in Statement : stage'[t] = "committed" <=> t = s \/ stage[t] = "committed"
    BY <1>1 DEF IInv, TypeInv
  <2>2. QED  BY <2>1 DEF Accepted
<1>3. Carries[s] \in SUBSET (Row \ Accepted)
  BY <1>1, CarriesAssumption DEF Row, Accepted
<1>4. Rows' = Rows \cup Carries[s]
  <2>1. DOMAIN contents = Day \cup {Default} /\ DOMAIN contents' = DOMAIN contents
    BY <1>1 DEF IInv, TypeInv
  <2>2. \A r \in Carries[s] : PartitionFor(s, r) \in DOMAIN contents
    BY <1>1, <2>1, CommitPlaces
  <2>3. \A p \in DOMAIN contents :
          contents'[p] = contents[p] \cup {r \in Carries[s] : PartitionFor(s, r) = p}
    BY <1>1
  <2>4. Rows' \subseteq Rows \cup Carries[s]
    BY <2>1, <2>3 DEF Rows
  <2>5. Rows \subseteq Rows'
    BY <2>1, <2>3 DEF Rows
  <2>6. ASSUME NEW r \in Carries[s] PROVE r \in Rows'
    <3>1. r \in contents'[PartitionFor(s, r)]
      BY <2>2, <2>3
    <3>2. QED  BY <2>1, <2>2, <3>1 DEF Rows
  <2>7. QED  BY <2>4, <2>5, <2>6
<1>5. QED  BY <1>1, <1>2, <1>3, <1>4, TableSteps

LEMMA RefinesAttach ==
    ASSUME IInv, Attach
    PROVE  UNCHANGED Table!vars
<1>1. /\ txn.stage = "moved"
      /\ contents' = [contents EXCEPT ![Default] = @ \ txn.moved, ![txn.day] = txn.moved]
      /\ UNCHANGED <<stage, cutoff>>
  BY DEF Attach, insertVars
<1>2. txn.moved \subseteq contents[Default] /\ txn.day \notin partitions
  BY <1>1 DEF IInv, TxnInv
<1>3. txn.day \in Day /\ txn.day # Default
  BY DaysAreNaturals DEF IInv, TypeInv
<1>4. contents[txn.day] = {}
  BY <1>2, <1>3 DEF IInv, TypeInv
<1>5. DOMAIN contents = Day \cup {Default} /\ DOMAIN contents' = DOMAIN contents
  BY <1>1 DEF IInv, TypeInv
<1>6. /\ contents'[Default] = contents[Default] \ txn.moved
      /\ contents'[txn.day] = txn.moved
      /\ \A p \in DOMAIN contents : p # Default /\ p # txn.day => contents'[p] = contents[p]
  BY <1>1, <1>3, <1>5
<1>7. Rows' = Rows
  <2>1. ASSUME NEW r \in Rows PROVE r \in Rows'
    <3>1. PICK p \in DOMAIN contents : r \in contents[p]
      BY DEF Rows
    <3>2. \E q \in DOMAIN contents : r \in contents'[q]
      BY <1>3, <1>4, <1>5, <1>6, <3>1
    <3>3. QED  BY <1>5, <3>2 DEF Rows
  <2>2. ASSUME NEW r \in Rows' PROVE r \in Rows
    <3>1. PICK p \in DOMAIN contents : r \in contents'[p]
      BY <1>5 DEF Rows
    <3>2. \E q \in DOMAIN contents : r \in contents[q]
      BY <1>2, <1>3, <1>5, <1>6, <3>1
    <3>3. QED  BY <3>2 DEF Rows
  <2>3. QED  BY <2>1, <2>2
<1>8. Accepted' = Accepted
  BY <1>1 DEF Accepted
<1>9. QED  BY <1>1, <1>7, <1>8, TableSteps

\* When one partition loses rows older than the cutoff and no other changes,
\* the table loses none but such rows.
LEMMA RefinesRemoval ==
    ASSUME IInv, NEW p \in Day \cup {Default},
           DOMAIN contents' = DOMAIN contents,
           \A q \in DOMAIN contents : q # p => contents'[q] = contents[q],
           contents'[p] \subseteq contents[p],
           \A r \in contents[p] \ contents'[p] : TimeOf(r) < cutoff',
           stage' = stage, cutoff' \in Nat, cutoff' >= cutoff
    PROVE  Table!Expire
<1>1. DOMAIN contents = Day \cup {Default}
  BY DEF IInv, TypeInv
<1>2. \A q \in DOMAIN contents : contents'[q] \subseteq contents[q]
  OBVIOUS
<1>3. Rows' \subseteq Rows
  BY <1>2 DEF Rows
<1>4. ASSUME NEW r \in Rows, r \notin Rows' PROVE TimeOf(r) < cutoff'
  <2>1. PICK q \in DOMAIN contents : r \in contents[q]
    BY DEF Rows
  <2>2. r \notin contents'[q]
    BY <1>4, <2>1 DEF Rows
  <2>3. q = p /\ r \in contents[p] \ contents'[p]
    BY <2>1, <2>2
  <2>4. QED  BY <2>3
<1> DEFINE gone == Rows \ Rows'
<1>5. gone \in SUBSET {r \in Rows : TimeOf(r) < cutoff'} /\ Rows' = Rows \ gone
  BY <1>3, <1>4
<1> HIDE DEF gone
<1>6. Accepted' = Accepted
  BY DEF Accepted
<1>7. QED  BY <1>5, <1>6, TableSteps

LEMMA RefinesDrop ==
    ASSUME IInv, Drop
    PROVE  Table!Expire
<1>1. /\ contents' = [contents EXCEPT ![Min(Expired)] = {}]
      /\ WorkedWith /\ stage' = stage
  BY DEF Drop, insertVars
<1>2. Min(Expired) \in Day /\ \A r \in contents[Min(Expired)] : TimeOf(r) < Cutoff
  BY DroppedDay
<1>3. run \in Retention
  BY RetentionRun DEF Drop, IInv
<1>4. Cutoff \in Int /\ cutoff' \in Nat /\ cutoff' >= cutoff /\ cutoff' >= Cutoff
  BY <1>1, <1>3, CutoffFacts DEF IInv
<1>5. ASSUME NEW r \in contents[Min(Expired)] PROVE TimeOf(r) < cutoff'
  <2>1. r \in Row
    BY <1>2, <1>5 DEF IInv, TypeInv
  <2>2. TimeOf(r) \in Int
    BY <2>1, RowTimes
  <2>3. TimeOf(r) < Cutoff
    BY <1>2, <1>5
  <2>4. QED  BY <1>4, <2>2, <2>3
<1> DEFINE d == Min(Expired)
<1> HIDE DEF d
<1>6. /\ DOMAIN contents = Day \cup {Default} /\ DOMAIN contents' = DOMAIN contents
      /\ d \in Day /\ contents'[d] = {}
      /\ \A q \in DOMAIN contents : q # d => contents'[q] = contents[q]
  BY <1>1, <1>2 DEF IInv, TypeInv, d
<1>7. \A r \in contents[d] \ contents'[d] : TimeOf(r) < cutoff'
  BY <1>5 DEF d
<1>8. QED  BY <1>1, <1>4, <1>6, <1>7, RefinesRemoval

LEMMA RefinesDelete ==
    ASSUME IInv, Delete
    PROVE  Table!Expire
<1>1. PICK V \in Victims : contents' = [contents EXCEPT ![Default] = @ \ V]
  BY DEF Delete
<1>2. WorkedWith /\ stage' = stage
  BY DEF Delete, insertVars
<1>3. run \in Retention
  BY RetentionRun DEF Delete, IInv
<1>4. Cutoff \in Int /\ cutoff' \in Nat /\ cutoff' >= cutoff /\ cutoff' >= Cutoff
  BY <1>2, <1>3, CutoffFacts DEF IInv
<1>5. V \subseteq {r \in contents[Default] : TimeOf(r) < Cutoff}
  BY DEF Victims
<1>6. /\ DOMAIN contents = Day \cup {Default} /\ DOMAIN contents' = DOMAIN contents
      /\ contents'[Default] = contents[Default] \ V
      /\ \A q \in DOMAIN contents : q # Default => contents'[q] = contents[q]
  BY <1>1 DEF IInv, TypeInv
<1>7. ASSUME NEW r \in contents[Default] \ contents'[Default] PROVE TimeOf(r) < cutoff'
  <2>1. r \in Row /\ TimeOf(r) < Cutoff
    BY <1>5, <1>6 DEF IInv, TypeInv
  <2>2. TimeOf(r) \in Int
    BY <2>1, RowTimes
  <2>3. QED  BY <1>4, <2>1, <2>2
<1>8. QED  BY <1>2, <1>4, <1>6, <1>7, RefinesRemoval

LEMMA RefinesStep ==
    ASSUME IInv, [Next]_vars
    PROVE  [Table!Next]_Table!vars
<1>1. ASSUME NEW s \in Statement, NEW x \in {"open", "stored", "aborted"},
             stage[s] # "committed", stage' = [stage EXCEPT ![s] = x],
             UNCHANGED <<contents, cutoff>>
      PROVE  UNCHANGED Table!vars
  <2>1. \A t \in Statement : stage'[t] = "committed" <=> stage[t] = "committed"
    BY <1>1 DEF IInv, TypeInv
  <2>2. QED  BY <1>1, <2>1, AcceptedSame, TableSteps DEF IInv, Rows
<1>2. ASSUME NEW s \in Statement, Open(s) \/ Store(s) \/ Abort(s)
      PROVE  UNCHANGED Table!vars
  BY <1>1, <1>2 DEF Open, Store, Abort, maintenanceVars
<1>3. ASSUME UNCHANGED <<contents, stage, cutoff>>
      PROVE  UNCHANGED Table!vars
  BY <1>3, TableSteps DEF Accepted, Rows
<1>4. CASE Tick \/ Begin \/ Fail \/ UNCHANGED vars
  BY <1>3, <1>4 DEF Tick, Begin, BeginPreparation, BeginRetention, Fail, insertVars, vars
<1>5. CASE EnsureExists \/ LockDefault \/ Move \/ Raise \/ NothingToDrop
  BY <1>3, <1>5 DEF EnsureExists, LockDefault, Move, Raise, NothingToDrop, insertVars
<1>6. CASE Attach \/ Drop \/ Delete
  BY <1>6, RefinesAttach, RefinesDrop, RefinesDelete, TableSteps
<1>7. ASSUME NEW s \in Statement, Commit(s) PROVE Table!Next
  BY <1>7, RefinesCommit, TableSteps
<1>8. QED
  BY <1>2, <1>4, <1>5, <1>6, <1>7 DEF Next, End, RunStep

\* Whatever maintenance does beside running inserts, and wherever it fails,
\* the rows of all partitions together behave as one table.
THEOREM Refinement == Spec => KeepsRows
<1>1. IInv /\ [Next]_vars => [Table!Next]_Table!vars
  BY RefinesStep
<1>2. QED  BY <1>1, RefinesInit, Invariance, PTL DEF Spec, KeepsRows, Table!Spec

\* A committed row that retention has not reached is in some partition.
THEOREM RowsKept == Spec => []Table!Kept
<1>1. Table!Kept <=> \A r \in Accepted : TimeOf(r) >= cutoff => r \in Rows
  BY DEF Table!Kept, Rows
<1>2. Table!Init => Table!Kept
  BY <1>1, TableSteps
<1>3. IInv /\ IInv' /\ Table!Kept /\ [Table!Next]_Table!vars => Table!Kept'
  <2> SUFFICES ASSUME IInv, IInv', Table!Kept, [Table!Next]_Table!vars PROVE Table!Kept'
    OBVIOUS
  <2>1. Accepted' \subseteq Row /\ cutoff \in Nat /\ cutoff' \in Nat
    BY DEF IInv, TypeInv, Accepted, Row
  <2>2. \A r \in Accepted' : TimeOf(r) \in Int
    BY <2>1, RowTimes
  <2>3. (Table!Kept)' <=> \A r \in Accepted' : TimeOf(r) >= cutoff' => r \in Rows'
    BY DEF Table!Kept, Rows
  <2>4. CASE Table!Insert
    BY <1>1, <2>3, <2>4, TableSteps
  <2>5. CASE Table!Expire
    BY <1>1, <2>1, <2>2, <2>3, <2>5, TableSteps
  <2>6. CASE UNCHANGED Table!vars
    BY <1>1, <2>3, <2>6, TableSteps
  <2>7. QED  BY <2>4, <2>5, <2>6, TableSteps
<1>4. QED  BY <1>2, <1>3, Refinement, Invariance, PTL DEF KeepsRows, Table!Spec

=============================================================================
