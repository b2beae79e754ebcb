----------------------- MODULE BatchedIngestion_proofs ------------------------
(* Proofs of the safety of BatchedIngestion, for any calls, records and     *)
(* limits that meet the assumptions of that module.                         *)
EXTENDS BatchedIngestion, FiniteSetTheorems, FunctionTheorems, SequenceTheorems, TLAPS

-------------------------------------------------------------------------------
(* The queue as a set of calls. *)

LEMMA RangeFinite ==
    ASSUME NEW S, NEW s \in Seq(S)
    PROVE  Range(s) \subseteq S /\ IsFiniteSet(Range(s))
<1>1. s \in [1..Len(s) -> S] /\ Len(s) \in Nat
  BY LenProperties
<1>2. s \in Surjection(1..Len(s), Range(s))
  BY <1>1, Fun_RangeProperties
<1>3. IsFiniteSet(1..Len(s))
  BY <1>1, FS_Interval
<1>4. IsFiniteSet(Range(s))
  BY <1>2, <1>3, FS_Surjection
<1>5. QED
  BY <1>1, <1>4 DEF Range

LEMMA RangeAppend ==
    ASSUME NEW S, NEW s \in Seq(S), NEW e \in S
    PROVE  Range(Append(s, e)) = Range(s) \cup {e}
<1> DEFINE t == Append(s, e)
<1>1. /\ Len(s) \in Nat /\ DOMAIN s = 1..Len(s) /\ DOMAIN t = 1..(Len(s) + 1)
      /\ t[Len(s) + 1] = e
      /\ \A i \in 1..Len(s) : t[i] = s[i]
  OBVIOUS
<1> HIDE DEF t
<1>2. Range(t) \subseteq Range(s) \cup {e}
  <2> SUFFICES ASSUME NEW i \in DOMAIN t PROVE t[i] \in Range(s) \cup {e}
    BY DEF Range
  <2>1. i \in 1..Len(s) \/ i = Len(s) + 1
    BY <1>1
  <2>2. QED
    BY <1>1, <2>1 DEF Range
<1>3. Range(s) \subseteq Range(t) /\ e \in Range(t)
  <2>1. 1..Len(s) \subseteq DOMAIN t /\ Len(s) + 1 \in DOMAIN t
    BY <1>1
  <2>2. QED
    BY <1>1, <2>1 DEF Range
<1>4. Range(t) = Range(s) \cup {e}
  BY <1>2, <1>3
<1>5. QED
  BY <1>4 DEF t

LEMMA RangeEmpty == Range(<<>>) = {}
BY DEF Range

LEMMA SmallSet ==
    ASSUME NEW S, \A x, y \in S : x = y
    PROVE  Cardinality(S) = IF S = {} THEN 0 ELSE 1
<1>1. CASE S = {}
  BY <1>1, FS_EmptySet
<1>2. CASE S # {}
  <2>1. PICK x \in S : TRUE
    BY <1>2
  <2>2. S = {x}
    BY <2>1
  <2>3. Cardinality({x}) = 1
    BY FS_Singleton
  <2>4. QED
    BY <1>2, <2>2, <2>3
<1>3. QED
  BY <1>1, <1>2

(* Cutting a queue of distinct calls gives two disjoint queues. *)
Distinct(s) == \A i, j \in 1..Len(s) : s[i] = s[j] => i = j

LEMMA Cut ==
    ASSUME NEW S, NEW s \in Seq(S), NEW k \in 1..Len(s)
    PROVE  LET p == SubSeq(s, 1, k)
               q == SubSeq(s, k + 1, Len(s))
           IN  /\ p \in Seq(S) /\ Len(p) = k
               /\ q \in Seq(S) /\ Len(q) = Len(s) - k
               /\ Range(s) = Range(p) \cup Range(q)
               /\ s[1] \in Range(p)
               /\ Distinct(s) => Distinct(q) /\ Range(p) \cap Range(q) = {}
<1> DEFINE p == SubSeq(s, 1, k)
           q == SubSeq(s, k + 1, Len(s))
<1>1. Len(s) \in Nat /\ k \in Nat /\ k <= Len(s) /\ \A i \in 1..Len(s) : s[i] \in S
  BY LenProperties, ElementOfSeq
<1>2. /\ p \in Seq(S) /\ Len(p) = k
      /\ \A i \in 1..k : p[i] = s[i]
  BY <1>1, SubSeqProperties
<1>3. /\ q \in Seq(S) /\ Len(q) = Len(s) - k
      /\ \A i \in 1..Len(s) - k : q[i] = s[i + k]
  BY <1>1, SubSeqProperties
<1>4. DOMAIN p = 1..k /\ DOMAIN q = 1..Len(s) - k /\ DOMAIN s = 1..Len(s)
  BY <1>2, <1>3, LenProperties
<1>5. Range(p) = {s[i] : i \in 1..k}
  BY <1>2, <1>4 DEF Range
<1>6. Range(q) = {s[i] : i \in k + 1..Len(s)}
  <2>1. Range(q) = {s[i + k] : i \in 1..Len(s) - k}
    BY <1>3, <1>4 DEF Range
  <2>2. \A i \in 1..Len(s) - k : i + k \in k + 1..Len(s)
    BY <1>1
  <2>3. \A i \in k + 1..Len(s) : i - k \in 1..Len(s) - k /\ (i - k) + k = i
    BY <1>1
  <2>4. QED
    BY <2>1, <2>2, <2>3
<1>7. Range(s) = Range(p) \cup Range(q)
  <2>1. Range(s) = {s[i] : i \in 1..Len(s)}
    BY <1>4 DEF Range
  <2>2. \A i \in 1..Len(s) : i \in 1..k \/ i \in k + 1..Len(s)
    BY <1>1
  <2>3. 1..k \subseteq 1..Len(s) /\ k + 1..Len(s) \subseteq 1..Len(s)
    BY <1>1
  <2>4. QED
    BY <1>5, <1>6, <2>1, <2>2, <2>3
<1>8. s[1] \in Range(p)
  BY <1>1, <1>5
<1>9. Distinct(s) => Distinct(q) /\ Range(p) \cap Range(q) = {}
  <2> SUFFICES ASSUME Distinct(s)
               PROVE  Distinct(q) /\ Range(p) \cap Range(q) = {}
    OBVIOUS
  <2>1. Distinct(q)
    <3>1. \A i, j \in 1..Len(s) - k : s[i + k] = s[j + k] => i + k = j + k
      <4>1. \A i \in 1..Len(s) - k : i + k \in 1..Len(s)
        BY <1>1
      <4>2. QED
        BY <4>1 DEF Distinct
    <3>2. \A i, j \in 1..Len(s) - k : i + k = j + k => i = j
      BY <1>1
    <3>3. QED
      BY <1>3, <3>1, <3>2 DEF Distinct
  <2>2. Range(p) \cap Range(q) = {}
    <3>1. \A i \in 1..k, j \in k + 1..Len(s) : s[i] # s[j]
      BY <1>1 DEF Distinct
    <3>2. QED
      BY <1>5, <1>6, <3>1
  <2>3. QED
    BY <2>1, <2>2
<1>10. QED
  BY <1>2, <1>3, <1>7, <1>8, <1>9

-------------------------------------------------------------------------------
(* Counting rows. *)

LEMMA RowsFinite ==
    ASSUME NEW R \in SUBSET Request, IsFiniteSet(R)
    PROVE  IsFiniteSet(RowsOf(R)) /\ RowCount(R) \in Nat
<1> DEFINE f == [r \in R |-> Records[r]]
           T == {Records[r] : r \in R}
<1>1. f \in Surjection(R, T)
  BY DEF Surjection
<1>2. IsFiniteSet(T)
  BY <1>1, FS_Surjection
<1>3. \A A \in T : IsFiniteSet(A)
  BY RecordsAssumption
<1>4. IsFiniteSet(UNION T)
  BY <1>2, <1>3, FS_UNION
<1>5. QED
  BY <1>4, FS_CardinalityType DEF RowsOf, RowCount

LEMMA RowsAdd ==
    ASSUME NEW A \in SUBSET Request, IsFiniteSet(A),
           NEW B \in SUBSET Request, IsFiniteSet(B),
           A \cap B = {}
    PROVE  RowCount(A \cup B) = RowCount(A) + RowCount(B)
<1>1. IsFiniteSet(RowsOf(A)) /\ IsFiniteSet(RowsOf(B))
  BY RowsFinite
<1>2. RowsOf(A \cup B) = RowsOf(A) \cup RowsOf(B)
  BY DEF RowsOf
<1>3. RowsOf(A) \cap RowsOf(B) = {}
  BY RecordsAssumption DEF RowsOf
<1>4. /\ Cardinality(RowsOf(A)) \in Nat
      /\ Cardinality(RowsOf(B)) \in Nat
      /\ Cardinality(RowsOf(A) \cap RowsOf(B)) = 0
  BY <1>1, <1>3, FS_CardinalityType, FS_EmptySet
<1>5. Cardinality(RowsOf(A) \cup RowsOf(B))
        = Cardinality(RowsOf(A)) + Cardinality(RowsOf(B))
            - Cardinality(RowsOf(A) \cap RowsOf(B))
  BY <1>1, FS_Union
<1>6. Cardinality(RowsOf(A) \cup RowsOf(B)) = Cardinality(RowsOf(A)) + Cardinality(RowsOf(B))
  BY <1>4, <1>5
<1>7. QED
  BY <1>2, <1>6, Zenon DEF RowCount

LEMMA RowsOfNone == RowCount({}) = 0
BY FS_EmptySet DEF RowCount, RowsOf

-------------------------------------------------------------------------------
(* The inductive invariant.  Custody says where each call is: a waiting     *)
(* call is queued or in one statement.  LoopEnabled and ClosedTimer say     *)
(* what the flush loop and the timer may assume.                            *)

Custody ==
    /\ Distinct(pending)
    /\ \A r \in Range(pending) : outcome[r] = "waiting" /\ Records[r] # {}
    /\ \A w \in writes :
         /\ w.batch # {}
         /\ \A r \in w.batch : outcome[r] = "waiting" /\ r \notin Range(pending)
    /\ \A v, w \in writes : v.batch \cap w.batch # {} => v = w
    /\ \A r \in Request :
         outcome[r] = "waiting" => r \in Range(pending) \/ \E w \in writes : r \in w.batch

Counted == IsFiniteSet(writes) /\ WritesCounted

LoopEnabled == starting => CanStart(pending, activeWrites)

ClosedTimer == closed /\ scheduledFlush # "none" => pending # <<>> /\ ~ starting

Flushing == LoopEnabled /\ NoLostWakeup /\ FullQueueFlushesNow /\ ClosedTimer

Sizes == QueuedRowsExact /\ QueueBounded /\ BatchWithinLimit

IInv ==
    /\ TypeOK
    /\ Custody
    /\ Counted
    /\ Flushing
    /\ Sizes
    /\ CloseMeansDrained


LEMMA InitIInv == Init => IInv
<1> SUFFICES ASSUME Init PROVE IInv
  OBVIOUS
<1> USE DEF Init
<1>1. TypeOK
  <2>1. pending \in Seq(Request)
    BY EmptySeq
  <2>2. QED
    BY <2>1 DEF TypeOK
<1>2. Custody
  BY RangeEmpty DEF Custody, Distinct
<1>3. Counted
  BY FS_EmptySet, LimitsAssumption DEF Counted, WritesCounted
<1>4. Flushing
  BY DEF Flushing, LoopEnabled, NoLostWakeup, FullQueueFlushesNow, ClosedTimer, CanStart
<1>5. Sizes
  <2>1. QueuedRowsExact
    BY RangeEmpty, RowsOfNone, Zenon DEF QueuedRowsExact
  <2>2. QueueBounded
    BY LimitsAssumption DEF QueueBounded
  <2>3. BatchWithinLimit
    BY DEF BatchWithinLimit
  <2>4. QED
    BY <2>1, <2>2, <2>3 DEF Sizes
<1>6. CloseMeansDrained
  BY DEF CloseMeansDrained
<1>7. QED
  BY <1>1, <1>2, <1>3, <1>4, <1>5, <1>6 DEF IInv

LEMMA NoRowsNoQueue ==
    ASSUME TypeOK, Custody, QueuedRowsExact, queuedRows = 0
    PROVE  Len(pending) = 0
<1>1. Range(pending) \subseteq Request /\ IsFiniteSet(Range(pending))
  BY RangeFinite DEF TypeOK
<1>2. IsFiniteSet(RowsOf(Range(pending)))
  BY <1>1, RowsFinite
<1>3. RowsOf(Range(pending)) = {}
  BY <1>2, FS_EmptySet DEF QueuedRowsExact, RowCount
<1>4. \A r \in Range(pending) : Records[r] = {}
  BY <1>3 DEF RowsOf
<1>5. Range(pending) = {}
  BY <1>4 DEF Custody
<1>6. DOMAIN pending = 1..Len(pending) /\ Len(pending) \in Nat
  BY LenProperties DEF TypeOK
<1>7. \A i \in 1..Len(pending) : pending[i] \in Range(pending)
  BY <1>6 DEF Range
<1>8. QED
  BY <1>5, <1>6, <1>7

-------------------------------------------------------------------------------
(* One lemma per action. *)

(* The calls that only answer the caller leave the coordinator alone. *)
LEMMA AnswerStep ==
    ASSUME IInv, NEW r \in Request, ~ starting,
           InsertNothing(r) \/ InsertRefused(r)
    PROVE  IInv'
<1> USE DEF IInv
<1>1. /\ outcome[r] = "new"
      /\ \E a \in {"ok", "refused"} : outcome' = [outcome EXCEPT ![r] = a]
      /\ UNCHANGED <<coordinatorVars, writes, finishing, closer, databaseVars>>
  BY DEF InsertNothing, InsertRefused
<1> USE DEF coordinatorVars, databaseVars
<1>2. TypeOK'
  BY <1>1 DEF TypeOK, Write
<1>3. \A s \in Request : outcome'[s] = "waiting" <=> outcome[s] = "waiting"
  BY <1>1 DEF TypeOK
<1>4. /\ pending' = pending
      /\ Range(pending) \subseteq Request
      /\ writes' = writes
      /\ \A w \in writes : w.batch \subseteq Request
  BY <1>1, RangeFinite DEF TypeOK, Write
<1>5. Custody'
  BY <1>3, <1>4 DEF Custody
<1>6. Counted'
  BY <1>1 DEF Counted, WritesCounted
<1>7. Flushing'
  BY <1>1 DEF Flushing, LoopEnabled, NoLostWakeup, FullQueueFlushesNow, ClosedTimer, CanStart
<1>8. Sizes'
  BY <1>1 DEF Sizes, QueuedRowsExact, QueueBounded, BatchWithinLimit
<1>9. CloseMeansDrained'
  BY <1>1, <1>3 DEF CloseMeansDrained, Drained
<1>10. QED
  BY <1>2, <1>5, <1>6, <1>7, <1>8, <1>9

LEMMA AdmitStep ==
    ASSUME IInv, NEW r \in Request, ~ starting, InsertAdmitted(r)
    PROVE  IInv'
<1> USE DEF IInv, InsertAdmitted
<1>1. /\ pending' = Append(pending, r)
      /\ pending' \in Seq(Request)
      /\ Len(pending') = Len(pending) + 1
      /\ Len(pending) \in Nat
      /\ pending' # <<>>
  BY DEF TypeOK
<1>2. Range(pending') = Range(pending) \cup {r}
  BY <1>1, RangeAppend DEF TypeOK
<1>3. Range(pending) \subseteq Request /\ IsFiniteSet(Range(pending)) /\ r \notin Range(pending)
  BY RangeFinite DEF TypeOK, Custody
<1>4. RowCount({r}) \in Nat /\ RowCount(Range(pending')) = RowCount(Range(pending)) + RowCount({r})
  <2>1. IsFiniteSet({r})
    BY FS_Singleton
  <2>2. QED
    BY <1>2, <1>3, <2>1, RowsAdd, RowsFinite
<1>5. TypeOK'
  <2>1. scheduledFlush' \in {"none", "delayed", "now"} /\ starting' \in BOOLEAN
    BY DEF TypeOK, ScheduleFlush, FlushDelay
  <2>2. queuedRows' \in Nat
    BY <1>4 DEF TypeOK
  <2>3. QED
    BY <1>1, <2>1, <2>2 DEF TypeOK, Write, databaseVars
<1>6. Custody'
  <2>1. Distinct(pending')
    <3>1. \A i \in 1..Len(pending) : pending'[i] = pending[i] /\ pending[i] # r
      BY <1>1, <1>3, LenProperties DEF TypeOK, Range
    <3>2. pending'[Len(pending) + 1] = r
      BY <1>1 DEF TypeOK
    <3>3. \A i \in 1..Len(pending') : i \in 1..Len(pending) \/ i = Len(pending) + 1
      BY <1>1
    <3>4. QED
      BY <3>1, <3>2, <3>3 DEF Custody, Distinct
  <2>2. \A s \in Range(pending') : outcome'[s] = "waiting" /\ Records[s] # {}
    <3>1. outcome' = [outcome EXCEPT ![r] = "waiting"] /\ Records[r] # {}
      OBVIOUS
    <3>2. \A s \in Range(pending) : outcome[s] = "waiting" /\ Records[s] # {}
      BY DEF Custody
    <3>3. outcome \in [Request -> {"new", "waiting", "ok", "failed", "refused"}]
      BY DEF TypeOK
    <3>4. QED
      BY <1>2, <1>3, <3>1, <3>2, <3>3
  <2>3. \A w \in writes : w.batch \subseteq Request /\ r \notin w.batch
    BY DEF TypeOK, Write, Custody
  <2>4. \A w \in writes' : \A s \in w.batch : outcome'[s] = "waiting" /\ s \notin Range(pending')
    BY <1>2, <2>3 DEF TypeOK, Custody
  <2>5. \A s \in Request : outcome'[s] = "waiting" =>
                              s \in Range(pending') \/ \E w \in writes' : s \in w.batch
    BY <1>2 DEF TypeOK, Custody
  <2>6. QED
    BY <2>1, <2>2, <2>4, <2>5 DEF Custody
<1>7. Counted'
  BY DEF Counted, WritesCounted
<1>8. Flushing'
  BY <1>1, LimitsAssumption
  DEF Flushing, LoopEnabled, NoLostWakeup, FullQueueFlushesNow, ClosedTimer, CanStart,
      ScheduleFlush, FlushDelay, Counted, WritesCounted, TypeOK
<1>9. Sizes'
  <2>1. QueuedRowsExact'
    BY <1>4 DEF Sizes, QueuedRowsExact
  <2>2. QueueBounded'
    <3>1. CASE queuedRows = 0
      BY <1>1, <3>1, NoRowsNoQueue DEF Sizes, QueueBounded
    <3>2. CASE queuedRows > 0
      BY <1>4, <3>2, LimitsAssumption DEF OverLimit, QueueBounded, TypeOK
    <3>3. QED
      BY <3>1, <3>2 DEF TypeOK
  <2>3. BatchWithinLimit'
    BY DEF Sizes, BatchWithinLimit
  <2>4. QED
    BY <2>1, <2>2, <2>3 DEF Sizes
<1>10. CloseMeansDrained'
  BY DEF CloseMeansDrained
<1>11. QED
  BY <1>5, <1>6, <1>7, <1>8, <1>9, <1>10

LEMMA TimerStep ==
    ASSUME IInv, TimerFires
    PROVE  IInv'
<1> USE DEF IInv, TimerFires, writeVars, databaseVars
<1>1. TypeOK'
  BY DEF TypeOK, Write, CanStart
<1>2. Custody'
  BY DEF Custody, Distinct
<1>3. Counted'
  BY DEF Counted, WritesCounted
<1>4. Flushing'
  BY DEF Flushing, LoopEnabled, NoLostWakeup, FullQueueFlushesNow, ClosedTimer, CanStart
<1>5. Sizes'
  BY DEF Sizes, QueuedRowsExact, QueueBounded, BatchWithinLimit
<1>6. CloseMeansDrained'
  BY DEF CloseMeansDrained, Drained
<1>7. QED
  BY <1>1, <1>2, <1>3, <1>4, <1>5, <1>6

LEMMA CloseStep ==
    ASSUME IInv, NEW c \in Closer, Close(c)
    PROVE  IInv'
<1> USE DEF IInv, Close, databaseVars
<1>1. TypeOK'
  BY DEF TypeOK, Write, CanStart
<1>2. Custody'
  BY DEF Custody, Distinct
<1>3. Counted'
  BY DEF Counted, WritesCounted
<1>4. Flushing'
  <2>1. CASE closed /\ Drained
    BY <2>1 DEF Flushing, LoopEnabled, NoLostWakeup, FullQueueFlushesNow, ClosedTimer, CanStart
  <2>2. CASE ~ (closed /\ Drained)
    BY <2>2 DEF Flushing, LoopEnabled, NoLostWakeup, FullQueueFlushesNow, ClosedTimer, CanStart
  <2>3. QED
    BY <2>1, <2>2
<1>5. Sizes'
  BY DEF Sizes, QueuedRowsExact, QueueBounded, BatchWithinLimit
<1>6. CloseMeansDrained'
  <2>1. CASE Drained
    <3>1. closed' /\ Drained'
      BY <2>1 DEF Drained
    <3>2. scheduledFlush' = "none"
      BY <2>1 DEF Flushing, ClosedTimer, Drained
    <3>3. Range(pending) = {} /\ writes = {}
      <4>1. Range(pending) = {}
        BY <2>1, RangeEmpty DEF Drained
      <4>2. Cardinality(writes) = 0
        BY <2>1, FS_CardinalityType DEF Counted, WritesCounted, Drained, TypeOK
      <4>3. QED
        BY <4>1, <4>2, FS_EmptySet DEF Counted
    <3>4. \A r \in Request : outcome'[r] # "waiting"
      BY <3>3 DEF Custody
    <3>5. QED
      BY <3>1, <3>2, <3>4 DEF CloseMeansDrained
  <2>2. CASE ~ Drained
    <3>1. ~ \E d \in Closer : closer[d] = "done"
      BY <2>2 DEF CloseMeansDrained
    <3>2. \A d \in Closer : closer'[d] # "done"
      BY <2>2, <3>1 DEF TypeOK
    <3>3. QED
      BY <3>2 DEF CloseMeansDrained
  <2>3. QED
    BY <2>1, <2>2
<1>7. QED
  BY <1>1, <1>2, <1>3, <1>4, <1>5, <1>6

LEMMA StartStep ==
    ASSUME IInv, StartNextWrite
    PROVE  IInv'
<1> USE DEF IInv, databaseVars
<1>1. PICK k \in 1..Len(pending) :
        /\ StopsAfter(k)
        /\ pending' = Suffix(k)
        /\ queuedRows' = queuedRows - RowCount(Range(Prefix(k)))
        /\ writes' = writes \cup {[batch |-> Range(Prefix(k)), stage |-> "sent"]}
  BY DEF StartNextWrite
<1> DEFINE taken == Range(Prefix(k))
           w0 == [batch |-> taken, stage |-> "sent"]
<1>2. /\ Prefix(k) \in Seq(Request) /\ Len(Prefix(k)) = k
      /\ pending' \in Seq(Request) /\ Len(pending') = Len(pending) - k
      /\ Range(pending) = taken \cup Range(pending')
      /\ taken # {}
      /\ Distinct(pending')
      /\ taken \cap Range(pending') = {}
  BY <1>1, Cut DEF TypeOK, Custody, Prefix, Suffix
<1>3. /\ taken \subseteq Request /\ IsFiniteSet(taken)
      /\ Range(pending') \subseteq Request /\ IsFiniteSet(Range(pending'))
  BY <1>2, RangeFinite
<1>4. /\ RowCount(taken) \in Nat
      /\ RowCount(Range(pending')) \in Nat
      /\ RowCount(Range(pending)) = RowCount(taken) + RowCount(Range(pending'))
  BY <1>2, <1>3, RowsFinite, RowsAdd
<1>5. queuedRows' \in Nat /\ queuedRows' = RowCount(Range(pending')) /\ queuedRows' <= queuedRows
  BY <1>1, <1>4 DEF Sizes, QueuedRowsExact, TypeOK
<1>6. activeWrites' = activeWrites + 1 /\ activeWrites < MaxConcurrentWrites
  BY DEF StartNextWrite, Flushing, LoopEnabled, CanStart
<1>7. /\ starting' = (CanStart(pending', activeWrites') /\ (closed \/ queuedRows' >= MaxBatchRows))
      /\ IF starting' THEN UNCHANGED scheduledFlush ELSE ScheduleFlush(FlushDelay)
      /\ UNCHANGED <<closed, finishing, outcome, closer, copies, orphans>>
  BY DEF StartNextWrite
<1>8. TypeOK'
  <2>1. starting' \in BOOLEAN /\ scheduledFlush' \in {"none", "delayed", "now"}
    BY <1>7 DEF TypeOK, ScheduleFlush, FlushDelay, CanStart
  <2>2. writes' \subseteq Write
    BY <1>1, <1>3 DEF TypeOK, Write
  <2>3. QED
    BY <1>2, <1>5, <1>6, <1>7, <2>1, <2>2 DEF TypeOK
<1>9. \A w \in writes : w.batch \cap taken = {} /\ w # w0
  BY <1>2 DEF Custody
<1>10. Custody'
  <2>1. \A r \in Range(pending') : outcome'[r] = "waiting" /\ Records[r] # {}
    BY <1>2, <1>7 DEF Custody
  <2>2. \A r \in taken : outcome'[r] = "waiting"
    BY <1>2, <1>7 DEF Custody
  <2>3. \A w \in writes' :
          /\ w.batch # {}
          /\ \A r \in w.batch : outcome'[r] = "waiting" /\ r \notin Range(pending')
    BY <1>1, <1>2, <1>7, <2>2 DEF Custody
  <2>4. \A v, w \in writes' : v.batch \cap w.batch # {} => v = w
    BY <1>1, <1>9 DEF Custody
  <2>5. \A r \in Request : outcome'[r] = "waiting" =>
                              r \in Range(pending') \/ \E w \in writes' : r \in w.batch
    <3>1. w0 \in writes' /\ w0.batch = taken /\ writes \subseteq writes'
      BY <1>1
    <3>2. QED
      BY <1>2, <1>7, <3>1 DEF Custody
  <2>6. QED
    BY <1>2, <2>1, <2>3, <2>4, <2>5 DEF Custody
<1>11. Counted'
  <2>1. IsFiniteSet(writes') /\ Cardinality(writes') = Cardinality(writes) + 1
    BY <1>1, <1>9, FS_AddElement DEF Counted
  <2>2. Cardinality(writes) \in Nat
    BY FS_CardinalityType DEF Counted
  <2>3. QED
    BY <1>6, <1>7, <2>1, <2>2, LimitsAssumption DEF Counted, WritesCounted, TypeOK
<1>12. Flushing'
  <2>1. LoopEnabled'
    BY <1>7 DEF LoopEnabled, CanStart
  <2>2. CASE starting'
    <3>1. starting /\ scheduledFlush' = scheduledFlush /\ closed' = closed
      BY <1>7, <2>2 DEF StartNextWrite
    <3>2. NoLostWakeup' /\ FullQueueFlushesNow'
      BY <2>2 DEF NoLostWakeup, FullQueueFlushesNow
    <3>3. ClosedTimer'
      BY <3>1 DEF Flushing, ClosedTimer
    <3>4. QED
      BY <2>1, <3>2, <3>3 DEF Flushing
  <2>3. CASE ~ starting'
    <3>1. ScheduleFlush(FlushDelay)
      BY <1>7, <2>3
    <3>2. NoLostWakeup' /\ FullQueueFlushesNow'
      BY <1>7, <2>3, <3>1, LimitsAssumption, <1>6
      DEF NoLostWakeup, FullQueueFlushesNow, CanStart, ScheduleFlush, FlushDelay, TypeOK
    <3>3. ClosedTimer'
      BY <1>7, <2>3, <3>1, LimitsAssumption, <1>6
      DEF ClosedTimer, Flushing, CanStart, ScheduleFlush, FlushDelay, TypeOK, StartNextWrite
    <3>4. QED
      BY <2>1, <3>2, <3>3 DEF Flushing
  <2>4. QED
    BY <2>2, <2>3
<1>13. Sizes'
  <2>1. QueuedRowsExact'
    BY <1>5 DEF QueuedRowsExact
  <2>2. QueueBounded'
    <3>1. CASE Len(pending') = 0
      <4>1. pending' = <<>>
        BY <1>2, <3>1, EmptySeq
      <4>2. queuedRows' = 0
        BY <1>5, <4>1, RangeEmpty, RowsOfNone
      <4>3. QED
        BY <4>2, LimitsAssumption DEF QueueBounded
    <3>2. CASE Len(pending') # 0
      <4>1. Len(pending) \in Nat /\ Len(pending) # 1
        <5>1. Len(pending) \in Nat
          BY LenProperties DEF TypeOK
        <5>2. k \in 1..Len(pending) /\ Len(pending') = Len(pending) - k
          BY <1>1, <1>2
        <5>3. QED
          BY <3>2, <5>1, <5>2
      <4>2. ~ (queuedRows > MaxQueuedRows)
        BY <4>1 DEF Sizes, QueueBounded
      <4>3. QED
        BY <1>5, <4>2, LimitsAssumption DEF QueueBounded, TypeOK
    <3>3. QED
      BY <3>1, <3>2
  <2>3. RowCount(taken) <= MaxBatchRows \/ Cardinality(taken) = 1
    <3>1. CASE k = 1
      <4>1. \A x, y \in taken : x = y
        BY <1>2, <3>1, LenProperties DEF Range
      <4>2. QED
        BY <1>2, <4>1, SmallSet
    <3>2. CASE k > 1
      BY <1>1, <3>2 DEF StopsAfter
    <3>3. QED
      BY <3>1, <3>2
  <2>4. BatchWithinLimit'
    BY <1>1, <2>3 DEF Sizes, BatchWithinLimit
  <2>5. QED
    BY <2>1, <2>2, <2>4 DEF Sizes
<1>14. CloseMeansDrained'
  <2>1. ~ \E c \in Closer : closer[c] = "done"
    BY <1>2 DEF CloseMeansDrained, Drained, StartNextWrite, Flushing, LoopEnabled, CanStart
  <2>2. QED
    BY <1>7, <2>1 DEF CloseMeansDrained
<1>15. QED
  BY <1>8, <1>10, <1>11, <1>12, <1>13, <1>14

(* The end of a statement: its calls are answered, its slot is kept until  *)
(* the finally callback.                                                   *)
LEMMA SettleStep ==
    ASSUME IInv, NEW w \in writes, NEW a \in {"ok", "failed"}, SettleWrite(w, a),
           copies' = copies, orphans' \in SUBSET SUBSET Request
    PROVE  IInv'
<1> USE DEF IInv, SettleWrite, coordinatorVars
<1>1. w.batch \subseteq Request /\ \A v \in writes : v.batch \subseteq Request
  BY DEF TypeOK, Write
<1>2. TypeOK'
  BY DEF TypeOK
<1>3. \A r \in Request : outcome'[r] = "waiting" <=> outcome[r] = "waiting" /\ r \notin w.batch
  OBVIOUS
<1>4. Range(pending) \subseteq Request
  BY RangeFinite DEF TypeOK
<1>5. \A v \in writes' : v \in writes /\ v # w /\ v.batch \cap w.batch = {}
  BY DEF Custody
<1>6. Custody'
  <2>1. \A r \in Range(pending') : outcome'[r] = "waiting" /\ Records[r] # {}
    BY <1>3, <1>4 DEF Custody
  <2>2. \A v \in writes' :
          /\ v.batch # {}
          /\ \A r \in v.batch : outcome'[r] = "waiting" /\ r \notin Range(pending')
    BY <1>1, <1>3, <1>5 DEF Custody
  <2>3. \A r \in Request : outcome'[r] = "waiting" =>
                              r \in Range(pending') \/ \E v \in writes' : r \in v.batch
    <3> SUFFICES ASSUME NEW r \in Request, outcome'[r] = "waiting", r \notin Range(pending)
                 PROVE  \E v \in writes' : r \in v.batch
      OBVIOUS
    <3>1. PICK v \in writes : r \in v.batch
      BY <1>3 DEF Custody
    <3>2. v # w
      BY <1>3, <3>1
    <3>3. QED
      BY <3>1, <3>2
  <2>4. QED
    BY <1>5, <2>1, <2>2, <2>3 DEF Custody, Distinct
<1>7. Counted'
  <2>1. IsFiniteSet(writes') /\ Cardinality(writes') = Cardinality(writes) - 1
    BY FS_RemoveElement DEF Counted
  <2>2. Cardinality(writes) \in Nat
    BY FS_CardinalityType DEF Counted
  <2>3. QED
    BY <2>1, <2>2 DEF Counted, WritesCounted, TypeOK
<1>8. Flushing'
  BY DEF Flushing, LoopEnabled, NoLostWakeup, FullQueueFlushesNow, ClosedTimer, CanStart
<1>9. Sizes'
  BY <1>5 DEF Sizes, QueuedRowsExact, QueueBounded, BatchWithinLimit
<1>10. CloseMeansDrained'
  BY <1>3 DEF CloseMeansDrained, Drained
<1>11. QED
  BY <1>2, <1>6, <1>7, <1>8, <1>9, <1>10

LEMMA FinishStep ==
    ASSUME IInv, FinishWrite
    PROVE  IInv'
<1> USE DEF IInv, FinishWrite, databaseVars
<1>1. /\ activeWrites' \in Nat /\ activeWrites' = activeWrites - 1
      /\ activeWrites' < MaxConcurrentWrites
      /\ finishing' \in Nat /\ activeWrites > 0
      /\ activeWrites' = Cardinality(writes) + finishing'
  <2>1. Cardinality(writes) \in Nat
    BY FS_CardinalityType DEF Counted
  <2>2. QED
    BY <2>1, LimitsAssumption DEF Counted, WritesCounted, TypeOK
<1>2. TypeOK'
  BY <1>1 DEF TypeOK, ScheduleFlush, FlushDelay, SettleClose
<1>3. Custody'
  BY DEF Custody, Distinct
<1>4. Counted'
  BY <1>1, LimitsAssumption DEF Counted, WritesCounted
<1>5. Flushing'
  BY <1>1, LimitsAssumption
  DEF Flushing, LoopEnabled, NoLostWakeup, FullQueueFlushesNow, ClosedTimer, CanStart,
      ScheduleFlush, FlushDelay, TypeOK
<1>6. Sizes'
  BY DEF Sizes, QueuedRowsExact, QueueBounded, BatchWithinLimit
<1>7. CloseMeansDrained'
  <2>1. ~ \E c \in Closer : closer[c] = "done"
    BY <1>1 DEF CloseMeansDrained, Drained, TypeOK
  <2>2. CASE closed /\ pending = <<>> /\ activeWrites' = 0
    <3>1. scheduledFlush' = "none"
      BY <2>2 DEF ScheduleFlush, Flushing, ClosedTimer
    <3>2. Range(pending) = {}
      BY <2>2, RangeEmpty
    <3>3. writes = {}
      <4>1. Cardinality(writes) \in Nat
        BY FS_CardinalityType DEF Counted
      <4>2. Cardinality(writes) = 0
        BY <1>1, <2>2, <4>1
      <4>3. QED
        BY <4>2, FS_EmptySet DEF Counted
    <3>4. \A r \in Request : outcome'[r] # "waiting"
      BY <3>2, <3>3 DEF Custody
    <3>5. QED
      BY <2>2, <3>1, <3>4 DEF CloseMeansDrained, Drained
  <2>3. CASE ~ (closed /\ pending = <<>> /\ activeWrites' = 0)
    BY <2>1, <2>3 DEF CloseMeansDrained, SettleClose
  <2>4. QED
    BY <2>2, <2>3
<1>8. QED
  BY <1>2, <1>3, <1>4, <1>5, <1>6, <1>7

(* The database steps change no queue, no counter and no answer. *)
LEMMA CommitStep ==
    ASSUME IInv, NEW w \in writes, Commit(w)
    PROVE  IInv'
<1> USE DEF IInv, Commit, coordinatorVars
<1> DEFINE w1 == [w EXCEPT !.stage = "stored"]
<1>1. /\ w \in Write
      /\ w1 \in Write /\ w1.batch = w.batch /\ w1 # w
      /\ writes' = (writes \ {w}) \cup {w1}
  BY DEF TypeOK, Write
<1>2. \A v \in writes' : \E u \in writes :
         /\ u.batch = v.batch
         /\ v = w1 <=> u = w
         /\ v # w1 => u = v
  <2> SUFFICES ASSUME NEW v \in writes'
               PROVE  \E u \in writes : /\ u.batch = v.batch
                                        /\ v = w1 <=> u = w
                                        /\ v # w1 => u = v
    OBVIOUS
  <2>1. CASE v = w1
    BY <1>1, <2>1
  <2>2. CASE v # w1
    BY <1>1, <2>2
  <2>3. QED
    BY <2>1, <2>2
<1>3. TypeOK'
  <2>1. writes' \subseteq Write
    BY <1>1 DEF TypeOK
  <2>2. copies' \in [Request -> Nat]
    BY DEF TypeOK, StoreRows
  <2>3. QED
    BY <2>1, <2>2 DEF TypeOK
<1>4. Custody'
  <2>1. \A v \in writes' :
          /\ v.batch # {}
          /\ \A r \in v.batch : outcome'[r] = "waiting" /\ r \notin Range(pending')
    BY <1>2 DEF Custody
  <2>2. \A u, v \in writes' : u.batch \cap v.batch # {} => u = v
    BY <1>2 DEF Custody
  <2>3. \A r \in Request : outcome'[r] = "waiting" =>
                              r \in Range(pending') \/ \E v \in writes' : r \in v.batch
    BY <1>1 DEF Custody
  <2>4. QED
    BY <2>1, <2>2, <2>3 DEF Custody, Distinct
<1>5. Counted'
  <2>1. w1 \notin writes
    <3>1. w.batch \cap w1.batch # {}
      BY <1>1 DEF Custody
    <3>2. QED
      BY <1>1, <3>1 DEF Custody
  <2>2. /\ IsFiniteSet(writes \ {w})
        /\ Cardinality(writes \ {w}) = Cardinality(writes) - 1
    BY FS_RemoveElement DEF Counted
  <2>3. /\ IsFiniteSet(writes')
        /\ Cardinality(writes') = Cardinality(writes \ {w}) + 1
    BY <1>1, <2>1, <2>2, FS_AddElement
  <2>4. Cardinality(writes) \in Nat
    BY FS_CardinalityType DEF Counted
  <2>5. QED
    BY <2>2, <2>3, <2>4 DEF Counted, WritesCounted
<1>6. Flushing'
  BY DEF Flushing, LoopEnabled, NoLostWakeup, FullQueueFlushesNow, ClosedTimer, CanStart
<1>7. Sizes'
  BY <1>2 DEF Sizes, QueuedRowsExact, QueueBounded, BatchWithinLimit
<1>8. CloseMeansDrained'
  BY DEF CloseMeansDrained, Drained
<1>9. QED
  BY <1>3, <1>4, <1>5, <1>6, <1>7, <1>8

LEMMA OrphanStep ==
    ASSUME IInv, NEW B \in orphans, LateCommit(B) \/ LateAbort(B)
    PROVE  IInv'
<1> USE DEF IInv, coordinatorVars, writeVars
<1>1. /\ UNCHANGED <<coordinatorVars, writeVars>>
      /\ orphans' = orphans \ {B}
      /\ copies' = copies \/ StoreRows(B)
  BY DEF LateCommit, LateAbort
<1>2. TypeOK'
  BY <1>1 DEF TypeOK, StoreRows
<1>3. Custody' /\ Counted'
  BY <1>1 DEF Custody, Distinct, Counted, WritesCounted
<1>4. Flushing'
  BY <1>1 DEF Flushing, LoopEnabled, NoLostWakeup, FullQueueFlushesNow, ClosedTimer, CanStart
<1>5. Sizes' /\ CloseMeansDrained'
  BY <1>1 DEF Sizes, QueuedRowsExact, QueueBounded, BatchWithinLimit, CloseMeansDrained, Drained
<1>6. QED
  BY <1>2, <1>3, <1>4, <1>5

-------------------------------------------------------------------------------

LEMMA NextIInv == IInv /\ [Next]_vars => IInv'
<1> SUFFICES ASSUME IInv, [Next]_vars PROVE IInv'
  OBVIOUS
<1>1. ASSUME NEW r \in Request, Insert(r) PROVE IInv'
  BY <1>1, AnswerStep, AdmitStep DEF Insert
<1>2. ASSUME NEW c \in Closer, Close(c) PROVE IInv'
  BY <1>2, CloseStep
<1>3. CASE TimerFires
  BY <1>3, TimerStep
<1>4. CASE StartNextWrite
  BY <1>4, StartStep
<1>5. CASE FinishWrite
  BY <1>5, FinishStep
<1>6. ASSUME NEW w \in writes, WriteSucceeds(w) PROVE IInv'
  <2>1. orphans' \in SUBSET SUBSET Request /\ copies' = copies /\ SettleWrite(w, "ok")
    BY <1>6 DEF WriteSucceeds, databaseVars, IInv, TypeOK
  <2>2. QED
    BY <2>1, SettleStep
<1>7. ASSUME NEW w \in writes, WriteFails(w) PROVE IInv'
  <2>1. /\ SettleWrite(w, "failed") /\ copies' = copies
        /\ orphans' = orphans \/ orphans' = orphans \cup {w.batch}
    BY <1>7 DEF WriteFails
  <2>2. orphans \subseteq SUBSET Request /\ w \in Write
    BY DEF IInv, TypeOK
  <2>3. orphans' \in SUBSET SUBSET Request
    BY <2>1, <2>2 DEF Write
  <2>4. QED
    BY <2>1, <2>3, SettleStep
<1>8. ASSUME NEW w \in writes, Commit(w) PROVE IInv'
  BY <1>8, CommitStep
<1>9. ASSUME NEW B \in orphans, LateCommit(B) \/ LateAbort(B) PROVE IInv'
  BY <1>9, OrphanStep
<1>10. CASE UNCHANGED vars
  <2> USE <1>10 DEF vars, coordinatorVars, writeVars, databaseVars, IInv
  <2>1. TypeOK'
    BY DEF TypeOK
  <2>2. Custody' /\ Counted'
    BY DEF Custody, Distinct, Counted, WritesCounted
  <2>3. Flushing'
    BY DEF Flushing, LoopEnabled, NoLostWakeup, FullQueueFlushesNow, ClosedTimer, CanStart
  <2>4. Sizes' /\ CloseMeansDrained'
    BY DEF Sizes, QueuedRowsExact, QueueBounded, BatchWithinLimit, CloseMeansDrained, Drained
  <2>5. QED
    BY <2>1, <2>2, <2>3, <2>4
<1>11. QED
  BY <1>1, <1>2, <1>3, <1>4, <1>5, <1>6, <1>7, <1>8, <1>9, <1>10 DEF Next

THEOREM Invariance == Spec => []IInv
BY InitIInv, NextIInv, PTL DEF Spec

-------------------------------------------------------------------------------
(* The theorems a reader should know of. *)

(* Every variable keeps its type, and no counter drops below zero. *)
THEOREM TypeCorrect == Spec => []TypeOK
<1>1. IInv => TypeOK
  BY DEF IInv
<1>2. QED
  BY <1>1, Invariance, PTL

(* The counters are exact, and the queue, the batches and the statements   *)
(* in flight are within their limits.                                      *)
THEOREM LimitsCorrect == Spec => []LimitsKept
<1>1. IInv => LimitsKept
  BY DEF IInv, Sizes, Counted, LimitsKept
<1>2. QED
  BY <1>1, Invariance, PTL

(* A queue that could be flushed has a timer, and an immediate one when it *)
(* holds a full batch or is being drained.                                 *)
THEOREM WakeupCorrect == Spec => []NeverStranded
<1>1. IInv => NeverStranded
  BY DEF IInv, Flushing, NeverStranded
<1>2. QED
  BY <1>1, Invariance, PTL

(* close() resolves only once everything admitted is answered. *)
THEOREM CloseCorrect == Spec => []CloseMeansDrained
<1>1. IInv => CloseMeansDrained
  BY DEF IInv
<1>2. QED
  BY <1>1, Invariance, PTL

(* No call is lost, sent twice, split over two statements or settled twice. *)
LEMMA CustodyHolds == TypeOK /\ Custody => HeldExactlyOnce
<1> SUFFICES ASSUME TypeOK, Custody, NEW r \in Request
             PROVE  Cardinality({i \in DOMAIN pending : pending[i] = r})
                      + Cardinality({w \in writes : r \in w.batch})
                        = IF outcome[r] = "waiting" THEN 1 ELSE 0
  BY DEF HeldExactlyOnce
<1> DEFINE P == {i \in DOMAIN pending : pending[i] = r}
           W == {w \in writes : r \in w.batch}
<1>1. P # {} <=> r \in Range(pending)
  BY DEF Range
<1>2. \A i, j \in P : i = j
  BY LenProperties DEF TypeOK, Custody, Distinct
<1>3. \A v, w \in W : v = w
  BY DEF Custody
<1>4. P # {} => W = {} /\ outcome[r] = "waiting"
  BY <1>1 DEF Custody
<1>5. W # {} => P = {} /\ outcome[r] = "waiting"
  BY <1>1 DEF Custody
<1>6. outcome[r] = "waiting" => P # {} \/ W # {}
  BY <1>1 DEF Custody
<1>7. Cardinality(P) = IF P = {} THEN 0 ELSE 1
  BY <1>2, SmallSet
<1>8. Cardinality(W) = IF W = {} THEN 0 ELSE 1
  BY <1>3, SmallSet
<1>9. QED
  BY <1>4, <1>5, <1>6, <1>7, <1>8

THEOREM CustodyCorrect == Spec => []HeldExactlyOnce
<1>1. IInv => HeldExactlyOnce
  BY CustodyHolds DEF IInv
<1>2. QED
  BY <1>1, Invariance, PTL

-------------------------------------------------------------------------------
(* The coordinator and its statements implement DurableIngestion.         *)

(* What the table holds of each call: nothing before its statement commits, *)
(* one copy afterwards.  A statement that the client has given up on is     *)
(* either over or still an orphan, whose calls nobody else will store.      *)
Delivery ==
    /\ \A w \in writes : \A r \in w.batch : copies[r] = IF w.stage = "stored" THEN 1 ELSE 0
    /\ \A B \in orphans : \A r \in B : outcome[r] = "failed" /\ copies[r] = 0
    /\ \A A, B \in orphans : A \cap B # {} => A = B
    /\ \A r \in Request : outcome[r] \in {"new", "refused"} => copies[r] = 0
    /\ \A r \in Range(pending) : copies[r] = 0
    /\ \A r \in Request : outcome[r] = "ok" /\ r \notin Empty => copies[r] = 1
    /\ \A r \in Request : copies[r] \in {0, 1}

RInv == IInv /\ Delivery

(* The facts about the types and the whereabouts of calls that every case  *)
(* below uses.                                                             *)
LEMMA Places ==
    ASSUME IInv
    PROVE  /\ Range(pending) \subseteq Request
           /\ \A r \in Range(pending) : outcome[r] = "waiting"
           /\ \A w \in writes :
                /\ w.batch \subseteq Request
                /\ w.stage \in {"sent", "stored"}
                /\ \A r \in w.batch : outcome[r] = "waiting" /\ r \notin Range(pending)
           /\ \A v, w \in writes : v.batch \cap w.batch # {} => v = w
           /\ \A B \in orphans : B \subseteq Request
           /\ copies \in [Request -> Nat]
           /\ outcome \in [Request -> {"new", "waiting", "ok", "failed", "refused"}]
<1>1. Range(pending) \subseteq Request
  BY RangeFinite DEF IInv, TypeOK
<1>2. QED
  BY <1>1 DEF IInv, TypeOK, Write, Custody

LEMMA InitRefines == Init => Delivery /\ Service!Init
BY RangeEmpty DEF Init, Delivery, Service!Init

-------------------------------------------------------------------------------
(* Each action keeps Delivery and is a step of the service or changes      *)
(* nothing the service shows.                                              *)

LEMMA InsertRefines ==
    ASSUME RInv, NEW r \in Request, Insert(r)
    PROVE  Delivery' /\ Service!Next
<1> USE Places DEF RInv
<1>1. /\ outcome[r] = "new"
      /\ UNCHANGED <<writes, copies, orphans>>
  BY DEF Insert, InsertNothing, InsertRefused, InsertAdmitted, databaseVars
<1>2. \A w \in writes : r \notin w.batch
  BY <1>1
<1>3. copies[r] = 0 /\ \A B \in orphans : r \notin B
  BY <1>1 DEF Delivery
<1>4. CASE InsertNothing(r)
  <2>1. /\ outcome' = [outcome EXCEPT ![r] = "ok"]
        /\ r \in Empty
        /\ pending' = pending
    BY <1>4 DEF InsertNothing, Empty, coordinatorVars
  <2>2. Service!AnswerEmpty(r)
    BY <1>1, <2>1 DEF Service!AnswerEmpty
  <2>3. Delivery'
    BY <1>1, <1>2, <1>3, <2>1 DEF Delivery
  <2>4. QED
    BY <2>2, <2>3 DEF Service!Next
<1>5. CASE InsertRefused(r)
  <2>1. outcome' = [outcome EXCEPT ![r] = "refused"] /\ pending' = pending
    BY <1>5 DEF InsertRefused, coordinatorVars
  <2>2. Service!Refuse(r)
    BY <1>1, <2>1 DEF Service!Refuse
  <2>3. Delivery'
    BY <1>1, <1>2, <1>3, <2>1 DEF Delivery
  <2>4. QED
    BY <2>2, <2>3 DEF Service!Next
<1>6. CASE InsertAdmitted(r)
  <2>1. outcome' = [outcome EXCEPT ![r] = "waiting"] /\ pending' = Append(pending, r)
    BY <1>6 DEF InsertAdmitted
  <2>2. Range(pending') = Range(pending) \cup {r}
    BY <2>1, RangeAppend DEF IInv, TypeOK
  <2>3. Service!Admit(r)
    BY <1>1, <2>1 DEF Service!Admit
  <2>4. Delivery'
    BY <1>1, <1>2, <1>3, <2>1, <2>2 DEF Delivery
  <2>5. QED
    BY <2>3, <2>4 DEF Service!Next
<1>7. QED
  BY <1>4, <1>5, <1>6 DEF Insert

(* Taking a batch moves calls that are not stored from the queue to a      *)
(* statement that has stored nothing.                                      *)
LEMMA StartRefines ==
    ASSUME RInv, StartNextWrite
    PROVE  Delivery' /\ UNCHANGED <<outcome, copies>>
<1> USE Places DEF RInv
<1>1. PICK k \in 1..Len(pending) :
        /\ pending' = Suffix(k)
        /\ writes' = writes \cup {[batch |-> Range(Prefix(k)), stage |-> "sent"]}
  BY DEF StartNextWrite
<1>2. Range(pending) = Range(Prefix(k)) \cup Range(pending')
  BY <1>1, Cut DEF IInv, TypeOK, Prefix, Suffix
<1>3. UNCHANGED <<outcome, copies, orphans>>
  BY DEF StartNextWrite, databaseVars
<1>4. \A w \in writes' : \A r \in w.batch : copies[r] = IF w.stage = "stored" THEN 1 ELSE 0
  BY <1>1, <1>2 DEF Delivery
<1>5. QED
  BY <1>2, <1>3, <1>4 DEF Delivery

LEMMA SucceedRefines ==
    ASSUME RInv, NEW w \in writes, WriteSucceeds(w)
    PROVE  Delivery' /\ Service!Next
<1> USE Places DEF RInv, WriteSucceeds, SettleWrite, databaseVars, coordinatorVars
<1>1. \A r \in w.batch : copies[r] = 1
  BY DEF Delivery
<1>2. outcome' = [r \in Request |-> IF r \in w.batch THEN "ok" ELSE outcome[r]]
  OBVIOUS
<1>3. Service!Acknowledge(w.batch)
  BY <1>1, <1>2 DEF Service!Acknowledge
<1>4. \A B \in orphans : B \cap w.batch = {}
  BY DEF Delivery
<1>5. Delivery'
  BY <1>1, <1>2, <1>4 DEF Delivery
<1>6. QED
  BY <1>3, <1>5 DEF Service!Next

LEMMA FailRefines ==
    ASSUME RInv, NEW w \in writes, WriteFails(w)
    PROVE  Delivery' /\ Service!Next
<1> USE Places DEF RInv
<1>1. /\ outcome' = [r \in Request |-> IF r \in w.batch THEN "failed" ELSE outcome[r]]
      /\ copies' = copies
      /\ writes' = writes \ {w}
      /\ pending' = pending
      /\ orphans' = orphans \/ (w.stage = "sent" /\ orphans' = orphans \cup {w.batch})
  BY DEF WriteFails, SettleWrite, coordinatorVars
<1>2. Service!GiveUp(w.batch)
  BY <1>1 DEF Service!GiveUp
<1>3. \A B \in orphans : B \cap w.batch = {}
  BY DEF Delivery
<1>4. \A B \in orphans' : \A r \in B : outcome'[r] = "failed" /\ copies'[r] = 0
  <2>1. \A B \in orphans : \A r \in B : outcome'[r] = "failed" /\ copies'[r] = 0
    BY <1>1, <1>3 DEF Delivery
  <2>2. \A r \in w.batch : outcome'[r] = "failed" /\ (w.stage = "sent" => copies'[r] = 0)
    BY <1>1 DEF Delivery
  <2>3. QED
    BY <1>1, <2>1, <2>2
<1>5. \A A, B \in orphans' : A \cap B # {} => A = B
  BY <1>1, <1>3 DEF Delivery
<1>6. Delivery'
  BY <1>1, <1>4, <1>5 DEF Delivery
<1>7. QED
  BY <1>2, <1>6 DEF Service!Next

(* A statement commits, whether somebody waits for it or not. *)
LEMMA StoreRefines ==
    ASSUME RInv, NEW B \in SUBSET Request, StoreRows(B), UNCHANGED outcome,
           \A r \in B : outcome[r] \in {"waiting", "failed"} /\ copies[r] = 0
    PROVE  Service!Next
<1>1. Service!Store(B)
  BY Places DEF StoreRows, RInv, Service!Store
<1>2. QED
  BY <1>1 DEF Service!Next

LEMMA CommitRefines ==
    ASSUME RInv, NEW w \in writes, Commit(w)
    PROVE  Delivery' /\ Service!Next
<1> USE Places DEF RInv
<1>1. /\ w.stage = "sent"
      /\ writes' = (writes \ {w}) \cup {[w EXCEPT !.stage = "stored"]}
      /\ StoreRows(w.batch)
      /\ UNCHANGED <<outcome, orphans, pending>>
  BY DEF Commit, coordinatorVars
<1>2. \A r \in w.batch : outcome[r] = "waiting" /\ copies[r] = 0
  BY <1>1 DEF Delivery
<1>3. Service!Next
  BY <1>1, <1>2, StoreRefines
<1>4. \A r \in Request : copies'[r] = IF r \in w.batch THEN 1 ELSE copies[r]
  BY <1>1, <1>2 DEF StoreRows
<1>5. \A v \in writes' : \A r \in v.batch : copies'[r] = IF v.stage = "stored" THEN 1 ELSE 0
  <2>1. ASSUME NEW v \in writes, v # w, NEW r \in v.batch
        PROVE  copies'[r] = IF v.stage = "stored" THEN 1 ELSE 0
    <3>1. r \in Request /\ r \notin w.batch
      BY <2>1
    <3>2. QED
      BY <1>4, <2>1, <3>1 DEF Delivery
  <2>2. /\ [w EXCEPT !.stage = "stored"].batch = w.batch
        /\ [w EXCEPT !.stage = "stored"].stage = "stored"
    BY DEF IInv, TypeOK, Write
  <2>3. \A r \in w.batch : copies'[r] = 1
    BY <1>4
  <2>4. QED
    BY <1>1, <2>1, <2>2, <2>3
<1>6. \A C \in orphans : C \cap w.batch = {}
  BY <1>2 DEF Delivery
<1>7. Delivery'
  BY <1>1, <1>2, <1>4, <1>5, <1>6 DEF Delivery
<1>8. QED
  BY <1>3, <1>7

LEMMA OrphanRefines ==
    ASSUME RInv, NEW B \in orphans, LateCommit(B) \/ LateAbort(B)
    PROVE  Delivery' /\ (Service!Next \/ UNCHANGED <<outcome, copies>>)
<1> USE Places DEF RInv
<1>1. /\ UNCHANGED <<outcome, pending, writes>>
      /\ orphans' = orphans \ {B}
  BY DEF LateCommit, LateAbort, coordinatorVars, writeVars
<1>2. \A r \in B : outcome[r] = "failed" /\ copies[r] = 0
  BY DEF Delivery
<1>3. CASE LateAbort(B)
  BY <1>1, <1>3 DEF LateAbort, Delivery
<1>4. CASE LateCommit(B)
  <2>1. StoreRows(B)
    BY <1>4 DEF LateCommit
  <2>2. Service!Next
    BY <1>1, <1>2, <2>1, StoreRefines
  <2>3. \A r \in Request : copies'[r] = IF r \in B THEN 1 ELSE copies[r]
    BY <1>2, <2>1 DEF StoreRows
  <2>4. \A w \in writes : B \cap w.batch = {}
    BY <1>2
  <2>5. \A C \in orphans' : C \cap B = {}
    BY <1>1 DEF Delivery
  <2>6. Delivery'
    BY <1>1, <1>2, <2>3, <2>4, <2>5 DEF Delivery
  <2>7. QED
    BY <2>2, <2>6
<1>5. QED
  BY <1>3, <1>4

LEMMA StutterRefines ==
    ASSUME RInv, UNCHANGED <<pending, writes, outcome, copies, orphans>>
    PROVE  Delivery'
BY DEF RInv, Delivery

-------------------------------------------------------------------------------

LEMMA StepRefines == RInv /\ [Next]_vars => RInv' /\ [Service!Next]_(Service!vars)
<1> SUFFICES ASSUME RInv, [Next]_vars
             PROVE  Delivery' /\ [Service!Next]_(Service!vars)
  BY NextIInv DEF RInv
<1> USE DEF Service!vars
<1>1. ASSUME NEW r \in Request, Insert(r)
      PROVE  Delivery' /\ [Service!Next]_(Service!vars)
  BY <1>1, InsertRefines
<1>2. ASSUME NEW c \in Closer, Close(c)
      PROVE  Delivery' /\ [Service!Next]_(Service!vars)
  BY <1>2, StutterRefines DEF Close, databaseVars
<1>3. CASE TimerFires
  BY <1>3, StutterRefines DEF TimerFires, writeVars, databaseVars
<1>4. CASE StartNextWrite
  BY <1>4, StartRefines
<1>5. CASE FinishWrite
  BY <1>5, StutterRefines DEF FinishWrite, databaseVars
<1>6. ASSUME NEW w \in writes, Commit(w) \/ WriteSucceeds(w) \/ WriteFails(w)
      PROVE  Delivery' /\ [Service!Next]_(Service!vars)
  BY <1>6, CommitRefines, SucceedRefines, FailRefines
<1>7. ASSUME NEW B \in orphans, LateCommit(B) \/ LateAbort(B)
      PROVE  Delivery' /\ [Service!Next]_(Service!vars)
  BY <1>7, OrphanRefines
<1>8. CASE UNCHANGED vars
  BY <1>8, StutterRefines DEF vars, coordinatorVars, writeVars, databaseVars
<1>9. QED
  BY <1>1, <1>2, <1>3, <1>4, <1>5, <1>6, <1>7, <1>8 DEF Next

(* The coordinator, with its statements, implements the abstract ingestion *)
(* service.                                                                *)
THEOREM Refinement == Spec => KeepsPromise
<1>1. Init => RInv /\ Service!Init
  BY InitIInv, InitRefines DEF RInv
<1>2. QED
  BY <1>1, StepRefines, PTL DEF Spec, KeepsPromise, Service!Spec

(* An acknowledged call is in the table exactly once, and a refused one is *)
(* not in it.                                                              *)
THEOREM AcknowledgedIsDurable == Spec => []Service!Durable
<1>1. Init => RInv
  BY InitIInv, InitRefines DEF RInv
<1>2. RInv => Service!Durable
  BY DEF RInv, Delivery, Service!Durable
<1>3. QED
  BY <1>1, <1>2, StepRefines, PTL DEF Spec
===============================================================================
