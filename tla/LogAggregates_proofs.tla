-------------------------- MODULE LogAggregates_proofs --------------------------
(***************************************************************************)
(* Proofs about LogAggregates, for any number of concurrent statements.    *)
(*                                                                         *)
(* CountsExact is not inductive: what a commit adds was computed when its  *)
(* statement wrote the count.  RunInv says that this count is still right, *)
(* because no other statement can have written the same group since        *)
(* (LockInv), and that a statement has written all its groups when none is *)
(* left in its plan.                                                       *)
(*                                                                         *)
(* AnswersExact follows from CountsExact, from what retention may have     *)
(* taken away (LogsInv) and from the arithmetic of buckets: a sum of       *)
(* counts is the number of rows that were counted (SumOfCounts), and a     *)
(* bound on whole minutes cannot part a row from its minute (MinuteBound). *)
(***************************************************************************)
EXTENDS LogAggregates, FiniteSetTheorems, FunctionTheorems, SequenceTheorems,
        WellFoundedInduction, TLAPS

Committed == {s \in Statement : stage[s] = "committed"}
CommittedRecords == UNION {Carries[s] : s \in Committed}
CommittedOf(g) == {r \in CommittedRecords : GroupOf(r) = g}
RecordsOf(s, g) == {r \in Carries[s] : GroupOf(r) = g}

TypeInv ==
    /\ stage \in [Statement -> {"new", "running", "committed", "aborted"}]
    /\ DOMAIN plan = Statement
    /\ DOMAIN written = Statement
    /\ logs \subseteq CommittedRecords
    /\ cutoff \in 0 .. LastTick
    /\ IsFiniteSet(CommittedRecords)

\* A running statement has its groups in its plan or has written them, with
\* the count that holds when it commits; another has neither.
RunInv ==
    \A s \in Statement :
        /\ stage[s] # "running" => plan[s] = <<>> /\ DOMAIN written[s] = {}
        /\ stage[s] = "running" =>
             /\ plan[s] \in Seq(GroupsOf(s))
             /\ DOMAIN written[s] \cup {plan[s][k] : k \in 1 .. Len(plan[s])} = GroupsOf(s)
             /\ \A g \in DOMAIN written[s] : written[s][g] = CountOf(g) + GroupCount(s, g)

LockInv == \A s, t \in Statement : s # t => DOMAIN written[s] \cap DOMAIN written[t] = {}

IInv == TypeInv /\ RunInv /\ LockInv /\ CountsExact

-----------------------------------------------------------------------------
\* What CountsExact says of a single group.
LEMMA CountsFacts ==
    ASSUME CountsExact
    PROVE  /\ DOMAIN counts = {GroupOf(r) : r \in CommittedRecords}
           /\ \A g \in DOMAIN counts : counts[g] = Cardinality(CommittedOf(g))
           /\ \A g : CountOf(g) = Cardinality(CommittedOf(g))
<1>1. counts = [g \in {GroupOf(r) : r \in CommittedRecords} |-> Cardinality(CommittedOf(g))]
  BY DEF CountsExact, CommittedRecords, Committed, CommittedOf
<1>2. ASSUME NEW g, g \notin DOMAIN counts
      PROVE  CountOf(g) = Cardinality(CommittedOf(g))
  <2>1. CommittedOf(g) = {}
    BY <1>1, <1>2 DEF CommittedOf
  <2>2. QED  BY <1>2, <2>1, FS_EmptySet DEF CountOf
<1>3. ASSUME NEW g, g \in DOMAIN counts
      PROVE  CountOf(g) = Cardinality(CommittedOf(g))
  BY <1>1, <1>3 DEF CountOf
<1>4. QED  BY <1>1, <1>2, <1>3

\* A statement has finitely many groups, and its sorted plan has them all.
LEMMA GroupsFinite ==
    ASSUME NEW s \in Statement
    PROVE  IsFiniteSet(GroupsOf(s))
<1> DEFINE f == [r \in Carries[s] |-> GroupOf(r)]
<1>1. f \in Surjection(Carries[s], GroupsOf(s))
  BY DEF Surjection, GroupsOf
<1>2. QED  BY <1>1, CarriesAssumption, FS_Surjection

LEMMA PlanComplete ==
    ASSUME NEW s \in Statement, NEW q \in SortedGroups(s)
    PROVE  /\ q \in Seq(GroupsOf(s))
           /\ {q[k] : k \in 1 .. Len(q)} = GroupsOf(s)
<1> DEFINE n == Cardinality(GroupsOf(s))
<1>1. n \in Nat /\ IsFiniteSet(GroupsOf(s))
  BY GroupsFinite, FS_CardinalityType
<1>2. q \in [1 .. n -> GroupsOf(s)] /\ \A i, j \in 1 .. n : i # j => q[i] # q[j]
  BY DEF SortedGroups, SetToSeqs
<1>3. q \in Seq(GroupsOf(s)) /\ Len(q) = n
  BY <1>1, <1>2
<1>4. q \in Injection(1 .. n, GroupsOf(s))
  BY <1>2 DEF Injection, IsInjective
<1>5. Cardinality(1 .. n) = n
  BY <1>1, FS_Interval
<1>6. q \in Surjection(1 .. n, GroupsOf(s))
  BY <1>1, <1>4, <1>5, FS_Injection
<1>7. {q[k] : k \in 1 .. n} = GroupsOf(s)
  BY <1>2, <1>6 DEF Surjection
<1>8. QED  BY <1>3, <1>7

\* A plan is its first group and the rest.
LEMMA PlanSplit ==
    ASSUME NEW S, NEW q \in Seq(S), q # <<>>
    PROVE  {q[k] : k \in 1 .. Len(q)} = {Head(q)} \cup {Tail(q)[k] : k \in 1 .. Len(Tail(q))}
<1>1. Len(q) \in Nat \ {0} /\ Head(q) = q[1] /\ Len(Tail(q)) = Len(q) - 1
  OBVIOUS
<1>2. \A k \in 1 .. Len(q) - 1 : Tail(q)[k] = q[k + 1]
  OBVIOUS
<1>3. ASSUME NEW k \in 1 .. Len(q), k # 1
      PROVE  k - 1 \in 1 .. Len(q) - 1 /\ q[k] = Tail(q)[k - 1]
  BY <1>1, <1>2, <1>3
<1>4. QED  BY <1>1, <1>2, <1>3

LEMMA InitInvariant == Init => IInv
<1> SUFFICES ASSUME Init PROVE IInv
  OBVIOUS
<1>1. CommittedRecords = {}
  BY DEF Init, CommittedRecords, Committed
<1>2. TypeInv
  BY <1>1, FS_EmptySet, TicksAssumption DEF Init, TypeInv
<1>3. \A s \in Statement : plan[s] = <<>> /\ DOMAIN written[s] = {} /\ stage[s] = "new"
  BY DEF Init, NoCounts
<1>4. RunInv /\ LockInv
  BY <1>3 DEF RunInv, LockInv
<1>5. CountsExact
  <2>1. counts = [g \in {} |-> 0]
    BY DEF Init, NoCounts
  <2>2. {GroupOf(r) : r \in CommittedRecords} = {}
    BY <1>1
  <2>3. [g \in {GroupOf(r) : r \in CommittedRecords} |-> Cardinality(CommittedOf(g))] = [g \in {} |-> 0]
    BY <2>2
  <2>4. QED  BY <2>1, <2>3 DEF CountsExact, CommittedRecords, Committed, CommittedOf
<1>6. QED  BY <1>2, <1>4, <1>5 DEF IInv

-----------------------------------------------------------------------------
(* The invariant is preserved by every action. *)

\* A statement that starts or ends otherwise than by committing changes
\* neither the committed records nor what CountsExact says of them.
LEMMA CommittedSame ==
    ASSUME TypeInv, NEW s \in Statement, stage[s] # "committed",
           NEW x \in {"new", "running", "aborted"},
           stage' = [stage EXCEPT ![s] = x]
    PROVE  /\ stage' \in [Statement -> {"new", "running", "committed", "aborted"}]
           /\ Committed' = Committed
           /\ CommittedRecords' = CommittedRecords
<1>1. stage' \in [Statement -> {"new", "running", "committed", "aborted"}]
  BY DEF TypeInv
<1>2. \A t \in Statement : stage'[t] = "committed" <=> stage[t] = "committed"
  BY DEF TypeInv
<1>3. Committed' = Committed
  BY <1>2 DEF Committed
<1>4. QED  BY <1>1, <1>3 DEF CommittedRecords

LEMMA CountsSame ==
    ASSUME CountsExact, Committed' = Committed, counts' = counts
    PROVE  CountsExact'
BY DEF CountsExact, Committed

LEMMA BeginInvariant ==
    ASSUME IInv, NEW s \in Statement, Begin(s)
    PROVE  IInv'
<1> USE DEF IInv
<1>1. PICK q \in SortedGroups(s) : plan' = [plan EXCEPT ![s] = q]
  BY DEF Begin
<1>2. stage[s] = "new" /\ stage' = [stage EXCEPT ![s] = "running"]
  BY DEF Begin
<1>3. /\ stage' \in [Statement -> {"new", "running", "committed", "aborted"}]
      /\ Committed' = Committed
      /\ CommittedRecords' = CommittedRecords
  BY <1>2, CommittedSame
<1>4. TypeInv'
  BY <1>1, <1>3 DEF TypeInv, Begin
<1>5. RunInv'
  <2>1. q \in Seq(GroupsOf(s)) /\ {q[k] : k \in 1 .. Len(q)} = GroupsOf(s)
    BY <1>1, PlanComplete
  <2>2. DOMAIN written[s] = {}
    BY <1>2 DEF RunInv
  <2>3. plan'[s] = q /\ stage'[s] = "running" /\ written' = written /\ counts' = counts
    BY <1>1, <1>2 DEF TypeInv, Begin
  <2>4. ASSUME NEW t \in Statement, t # s
        PROVE  stage'[t] = stage[t] /\ plan'[t] = plan[t]
    BY <1>1, <1>2, <2>4 DEF TypeInv
  <2>5. \A g : CountOf(g)' = CountOf(g)
    BY <2>3 DEF CountOf
  <2>6. ASSUME NEW t \in Statement
        PROVE  /\ stage'[t] # "running" => plan'[t] = <<>> /\ DOMAIN written'[t] = {}
               /\ stage'[t] = "running" =>
                    /\ plan'[t] \in Seq(GroupsOf(t))
                    /\ DOMAIN written'[t] \cup {plan'[t][k] : k \in 1 .. Len(plan'[t])} = GroupsOf(t)
                    /\ \A g \in DOMAIN written'[t] : written'[t][g] = CountOf(g)' + GroupCount(t, g)
    <3>1. CASE t = s
      BY <2>1, <2>2, <2>3, <3>1
    <3>2. CASE t # s
      BY <2>3, <2>4, <2>5, <3>2 DEF RunInv
    <3>3. QED  BY <3>1, <3>2
  <2>7. QED  BY <2>6 DEF RunInv
<1>6. LockInv'
  BY DEF LockInv, Begin
<1>7. CountsExact'
  BY <1>3, CountsSame DEF Begin
<1>8. QED  BY <1>4, <1>5, <1>6, <1>7

LEMMA UpsertInvariant ==
    ASSUME IInv, NEW s \in Statement, Upsert(s)
    PROVE  IInv'
<1> USE DEF IInv
<1> DEFINE g == Head(plan[s])
<1> DEFINE new == Raised(written[s], g, CountOf(g) + GroupCount(s, g))
<1>1. /\ plan[s] # <<>>
      /\ written' = [written EXCEPT ![s] = new]
      /\ plan' = [plan EXCEPT ![s] = Tail(plan[s])]
      /\ stage' = stage /\ logs' = logs /\ counts' = counts /\ cutoff' = cutoff
  BY DEF Upsert
<1>2. \A t \in Statement : t # s => g \notin DOMAIN written[t]
  BY DEF Upsert, WaitsFor, Holds
<1>3. stage[s] = "running" /\ plan[s] \in Seq(GroupsOf(s))
  BY <1>1 DEF RunInv
<1>4. /\ DOMAIN new = DOMAIN written[s] \cup {g}
      /\ new[g] = CountOf(g) + GroupCount(s, g)
      /\ \A h \in DOMAIN written[s] : h # g => new[h] = written[s][h]
  BY DEF Raised
<1> HIDE DEF g, new
<1>5. /\ written'[s] = new /\ plan'[s] = Tail(plan[s])
      /\ \A t \in Statement : t # s => written'[t] = written[t] /\ plan'[t] = plan[t]
  BY <1>1 DEF TypeInv
<1>6. Committed' = Committed /\ CommittedRecords' = CommittedRecords
  BY <1>1 DEF Committed, CommittedRecords
<1>7. TypeInv'
  BY <1>1, <1>6 DEF TypeInv
<1>8. RunInv'
  <2>1. \A h : CountOf(h)' = CountOf(h)
    BY <1>1 DEF CountOf
  <2>2. Tail(plan[s]) \in Seq(GroupsOf(s))
    BY <1>1, <1>3
  <2>3. {plan[s][k] : k \in 1 .. Len(plan[s])} =
          {g} \cup {Tail(plan[s])[k] : k \in 1 .. Len(Tail(plan[s]))}
    BY <1>1, <1>3, PlanSplit DEF g
  <2>4. DOMAIN new \cup {Tail(plan[s])[k] : k \in 1 .. Len(Tail(plan[s]))} = GroupsOf(s)
    <3>1. DOMAIN written[s] \cup {plan[s][k] : k \in 1 .. Len(plan[s])} = GroupsOf(s)
      BY <1>3 DEF RunInv
    <3>2. QED  BY <1>4, <2>3, <3>1
  <2>5. \A h \in DOMAIN new : new[h] = CountOf(h) + GroupCount(s, h)
    BY <1>3, <1>4 DEF RunInv
  <2>6. ASSUME NEW t \in Statement
        PROVE  /\ stage'[t] # "running" => plan'[t] = <<>> /\ DOMAIN written'[t] = {}
               /\ stage'[t] = "running" =>
                    /\ plan'[t] \in Seq(GroupsOf(t))
                    /\ DOMAIN written'[t] \cup {plan'[t][k] : k \in 1 .. Len(plan'[t])} = GroupsOf(t)
                    /\ \A h \in DOMAIN written'[t] : written'[t][h] = CountOf(h)' + GroupCount(t, h)
    <3>1. CASE t = s
      <4>1. stage'[t] = "running"
        BY <1>1, <1>3, <3>1
      <4>2. plan'[t] \in Seq(GroupsOf(t))
        BY <1>5, <2>2, <3>1
      <4>3. DOMAIN written'[t] \cup {plan'[t][k] : k \in 1 .. Len(plan'[t])} = GroupsOf(t)
        BY <1>5, <2>4, <3>1
      <4>4. \A h \in DOMAIN written'[t] : written'[t][h] = CountOf(h)' + GroupCount(t, h)
        BY <1>5, <2>1, <2>5, <3>1
      <4>5. QED  BY <4>1, <4>2, <4>3, <4>4
    <3>2. CASE t # s
      BY <1>1, <1>5, <2>1, <3>2 DEF RunInv
    <3>3. QED  BY <3>1, <3>2
  <2>7. QED  BY <2>6 DEF RunInv
<1>9. LockInv'
  BY <1>2, <1>4, <1>5 DEF LockInv
<1>10. CountsExact'
  BY <1>1, <1>6, CountsSame
<1>11. QED  BY <1>7, <1>8, <1>9, <1>10

\* What the records of a committing statement add to the count of a group.
LEMMA CommittedGrows ==
    ASSUME TypeInv, NEW s \in Statement, stage[s] # "committed",
           NEW g
    PROVE  LET both == CommittedOf(g) \cup RecordsOf(s, g) IN
             /\ IsFiniteSet(CommittedRecords \cup Carries[s])
             /\ Cardinality(both) = Cardinality(CommittedOf(g)) + GroupCount(s, g)
<1>1. IsFiniteSet(CommittedRecords) /\ IsFiniteSet(Carries[s])
  BY CarriesAssumption DEF TypeInv
<1>2. IsFiniteSet(CommittedOf(g)) /\ IsFiniteSet(RecordsOf(s, g))
  BY <1>1, FS_Subset DEF CommittedOf, RecordsOf
<1>3. CommittedOf(g) \cap RecordsOf(s, g) = {}
  <2>1. \A t \in Committed : Carries[t] \cap Carries[s] = {}
    BY CarriesAssumption DEF Committed
  <2>2. QED  BY <2>1 DEF CommittedOf, RecordsOf, CommittedRecords
<1>4. Cardinality(CommittedOf(g) \cup RecordsOf(s, g)) =
        Cardinality(CommittedOf(g)) + Cardinality(RecordsOf(s, g)) - 0
  BY <1>2, <1>3, FS_Union, FS_EmptySet
<1>5. Cardinality(CommittedOf(g)) \in Nat /\ Cardinality(RecordsOf(s, g)) \in Nat
  BY <1>2, FS_CardinalityType
<1>6. GroupCount(s, g) = Cardinality(RecordsOf(s, g))
  BY DEF GroupCount, RecordsOf
<1>7. IsFiniteSet(CommittedRecords \cup Carries[s])
  BY <1>1, FS_Union
<1>8. Cardinality(CommittedOf(g) \cup RecordsOf(s, g)) = Cardinality(CommittedOf(g)) + GroupCount(s, g)
  BY <1>4, <1>5, <1>6
<1>9. QED  BY <1>7, <1>8

LEMMA CommitInvariant ==
    ASSUME IInv, NEW s \in Statement, Commit(s)
    PROVE  IInv'
<1> USE DEF IInv
<1>1. /\ stage[s] = "running" /\ plan[s] = <<>>
      /\ stage' = [stage EXCEPT ![s] = "committed"]
      /\ written' = [written EXCEPT ![s] = NoCounts]
      /\ logs' = logs \cup Carries[s]
      /\ counts' = Replaced(counts, written[s])
      /\ plan' = plan /\ cutoff' = cutoff
  BY DEF Commit
<1>2. /\ stage' \in [Statement -> {"new", "running", "committed", "aborted"}]
      /\ \A t \in Statement : stage'[t] = IF t = s THEN "committed" ELSE stage[t]
  BY <1>1 DEF TypeInv
<1>3. CommittedRecords' = CommittedRecords \cup Carries[s]
  <2>1. Committed' = Committed \cup {s}
    BY <1>2 DEF Committed
  <2>2. QED  BY <2>1 DEF CommittedRecords
<1>4. \A g : CommittedOf(g)' = CommittedOf(g) \cup RecordsOf(s, g)
  BY <1>3 DEF CommittedOf, RecordsOf
<1>5. \A g : Cardinality(CommittedOf(g)') = Cardinality(CommittedOf(g)) + GroupCount(s, g)
  <2>1. TAKE g
  <2>2. Cardinality(CommittedOf(g) \cup RecordsOf(s, g)) = Cardinality(CommittedOf(g)) + GroupCount(s, g)
    BY <1>1, CommittedGrows
  <2>3. QED  BY <1>4, <2>2
<1>6. /\ DOMAIN written[s] = GroupsOf(s)
      /\ \A g \in GroupsOf(s) : written[s][g] = CountOf(g) + GroupCount(s, g)
  <2>1. DOMAIN written[s] \cup {plan[s][k] : k \in 1 .. Len(plan[s])} = GroupsOf(s)
    BY <1>1 DEF RunInv
  <2>2. {plan[s][k] : k \in 1 .. Len(plan[s])} = {}
    BY <1>1
  <2>3. DOMAIN written[s] = GroupsOf(s)
    BY <2>1, <2>2
  <2>4. QED  BY <1>1, <2>3 DEF RunInv
<1>7. /\ DOMAIN counts' = DOMAIN counts \cup GroupsOf(s)
      /\ \A g \in GroupsOf(s) : counts'[g] = written[s][g]
      /\ \A g \in DOMAIN counts : g \notin GroupsOf(s) => counts'[g] = counts[g]
  BY <1>1, <1>6 DEF Replaced
<1>8. CountsExact'
  <2>1. DOMAIN counts = {GroupOf(r) : r \in CommittedRecords}
    BY CountsFacts
  <2>2. DOMAIN counts' = {GroupOf(r) : r \in CommittedRecords'}
    BY <1>3, <1>7, <2>1 DEF GroupsOf
  <2>3. ASSUME NEW g \in GroupsOf(s)
        PROVE  counts'[g] = Cardinality(CommittedOf(g)')
    <3>1. CountOf(g) = Cardinality(CommittedOf(g))
      BY CountsFacts
    <3>2. QED  BY <1>5, <1>6, <1>7, <3>1
  <2>4. ASSUME NEW g \in DOMAIN counts, g \notin GroupsOf(s)
        PROVE  counts'[g] = Cardinality(CommittedOf(g)')
    <3>1. RecordsOf(s, g) = {}
      BY <2>4 DEF RecordsOf, GroupsOf
    <3>2. CommittedOf(g)' = CommittedOf(g)
      BY <1>4, <3>1
    <3>3. counts[g] = Cardinality(CommittedOf(g))
      BY CountsFacts
    <3>4. QED  BY <1>7, <2>4, <3>2, <3>3
  <2>5. \A g \in DOMAIN counts' : counts'[g] = Cardinality(CommittedOf(g)')
    BY <1>7, <2>3, <2>4
  <2>6. counts' = [g \in DOMAIN counts' |-> counts'[g]]
    BY <1>1 DEF Replaced
  <2>7. counts' = [g \in {GroupOf(r) : r \in CommittedRecords'} |-> Cardinality(CommittedOf(g)')]
    BY <2>2, <2>5, <2>6
  <2>8. QED  BY <2>7 DEF CountsExact, CommittedRecords, Committed, CommittedOf
<1>9. TypeInv'
  <2>1. IsFiniteSet(CommittedRecords')
    BY <1>1, <1>3, CommittedGrows
  <2>2. logs' \subseteq CommittedRecords'
    BY <1>1, <1>3 DEF TypeInv
  <2>3. DOMAIN plan' = Statement /\ DOMAIN written' = Statement /\ cutoff' \in 0 .. LastTick
    BY <1>1 DEF TypeInv
  <2>4. QED  BY <1>2, <2>1, <2>2, <2>3 DEF TypeInv
<1>10. /\ DOMAIN written'[s] = {}
       /\ \A t \in Statement : t # s => written'[t] = written[t]
  BY <1>1 DEF TypeInv, NoCounts
<1>11. LockInv'
  BY <1>10 DEF LockInv
<1>12. RunInv'
  \* The commit adds to no count that another statement has based its own on.
  <2>1. ASSUME NEW t \in Statement, t # s, NEW g \in DOMAIN written[t]
        PROVE  CountOf(g)' = CountOf(g)
    <3>1. g \notin GroupsOf(s)
      BY <1>6, <2>1 DEF LockInv
    <3>2. QED  BY <1>7, <3>1 DEF CountOf
  <2>2. ASSUME NEW t \in Statement
        PROVE  /\ stage'[t] # "running" => plan'[t] = <<>> /\ DOMAIN written'[t] = {}
               /\ stage'[t] = "running" =>
                    /\ plan'[t] \in Seq(GroupsOf(t))
                    /\ DOMAIN written'[t] \cup {plan'[t][k] : k \in 1 .. Len(plan'[t])} = GroupsOf(t)
                    /\ \A g \in DOMAIN written'[t] : written'[t][g] = CountOf(g)' + GroupCount(t, g)
    <3>1. CASE t = s
      BY <1>1, <1>2, <1>10, <3>1
    <3>2. CASE t # s
      BY <1>1, <1>2, <1>10, <2>1, <3>2 DEF RunInv
    <3>3. QED  BY <3>1, <3>2
  <2>3. QED  BY <2>2 DEF RunInv
<1>13. QED  BY <1>8, <1>9, <1>11, <1>12

LEMMA AbortInvariant ==
    ASSUME IInv, NEW s \in Statement, Abort(s)
    PROVE  IInv'
<1> USE DEF IInv
<1>1. /\ stage[s] = "running" /\ stage' = [stage EXCEPT ![s] = "aborted"]
      /\ plan' = [plan EXCEPT ![s] = <<>>]
      /\ written' = [written EXCEPT ![s] = NoCounts]
      /\ logs' = logs /\ counts' = counts /\ cutoff' = cutoff
  BY DEF Abort
<1>2. /\ stage' \in [Statement -> {"new", "running", "committed", "aborted"}]
      /\ Committed' = Committed
      /\ CommittedRecords' = CommittedRecords
  BY <1>1, CommittedSame
<1>3. TypeInv'
  BY <1>1, <1>2 DEF TypeInv
<1>4. /\ stage'[s] = "aborted" /\ plan'[s] = <<>> /\ DOMAIN written'[s] = {}
      /\ \A t \in Statement : t # s =>
           stage'[t] = stage[t] /\ plan'[t] = plan[t] /\ written'[t] = written[t]
  BY <1>1 DEF TypeInv, NoCounts
<1>5. \A g : CountOf(g)' = CountOf(g)
  BY <1>1 DEF CountOf
<1>6. RunInv'
  <2>1. ASSUME NEW t \in Statement
        PROVE  /\ stage'[t] # "running" => plan'[t] = <<>> /\ DOMAIN written'[t] = {}
               /\ stage'[t] = "running" =>
                    /\ plan'[t] \in Seq(GroupsOf(t))
                    /\ DOMAIN written'[t] \cup {plan'[t][k] : k \in 1 .. Len(plan'[t])} = GroupsOf(t)
                    /\ \A g \in DOMAIN written'[t] : written'[t][g] = CountOf(g)' + GroupCount(t, g)
    <3>1. CASE t = s
      BY <1>4, <3>1
    <3>2. CASE t # s
      BY <1>4, <1>5, <3>2 DEF RunInv
    <3>3. QED  BY <3>1, <3>2
  <2>2. QED  BY <2>1 DEF RunInv
<1>7. LockInv'
  BY <1>4 DEF LockInv
<1>8. CountsExact'
  BY <1>1, <1>2, CountsSame
<1>9. QED  BY <1>3, <1>6, <1>7, <1>8

\* Retention and stuttering leave the statements and the counts alone.
LEMMA OthersInvariant ==
    ASSUME IInv, UNCHANGED <<stage, plan, written, counts>>,
           logs' \subseteq logs, cutoff' \in 0 .. LastTick
    PROVE  IInv'
<1> USE DEF IInv
<1>1. Committed' = Committed /\ CommittedRecords' = CommittedRecords
  BY DEF Committed, CommittedRecords
<1>2. TypeInv'
  BY <1>1 DEF TypeInv
<1>3. \A g : CountOf(g)' = CountOf(g)
  BY DEF CountOf
<1>4. RunInv'
  BY <1>3 DEF RunInv
<1>5. LockInv'
  BY DEF LockInv
<1>6. CountsExact'
  BY <1>1, CountsSame
<1>7. QED  BY <1>2, <1>4, <1>5, <1>6

-----------------------------------------------------------------------------
\* The invariant, for every set of statements and whatever they carry.
THEOREM Invariance == Spec => []IInv
<1>1. IInv /\ [Next]_vars => IInv'
  <2> SUFFICES ASSUME IInv, [Next]_vars PROVE IInv'
    OBVIOUS
  <2>1. ASSUME NEW s \in Statement, Begin(s) PROVE IInv'
    BY <2>1, BeginInvariant
  <2>2. ASSUME NEW s \in Statement, Upsert(s) PROVE IInv'
    BY <2>2, UpsertInvariant
  <2>3. ASSUME NEW s \in Statement, Commit(s) PROVE IInv'
    BY <2>3, CommitInvariant
  <2>4. ASSUME NEW s \in Statement, Abort(s) PROVE IInv'
    BY <2>4, AbortInvariant
  <2>5. ASSUME NEW c \in 0 .. LastTick, Expire(c) PROVE IInv'
    BY <2>5, OthersInvariant DEF Expire
  <2>6. CASE UNCHANGED vars
    BY <2>6, OthersInvariant DEF vars, IInv, TypeInv
  <2>7. QED  BY <2>1, <2>2, <2>3, <2>4, <2>5, <2>6 DEF Next
<1>2. QED  BY <1>1, InitInvariant, PTL DEF Spec

\* The counts are those of the statements that committed: no upsert of
\* concurrent statements is lost and no aborted one leaves a count behind.
THEOREM CountsCorrect == Spec => []CountsExact
<1>1. IInv => CountsExact
  BY DEF IInv
<1>2. QED  BY <1>1, Invariance, PTL

\* Two statements never hold the row of one group at the same time.
THEOREM LocksExclusive == Spec => []LockInv
<1>1. IInv => LockInv
  BY DEF IInv
<1>2. QED  BY <1>1, Invariance, PTL

\* Every plan stays within the groups of its statement, only committed rows
\* are stored, and a count that is read is never zero.
THEOREM TypeCorrect == Spec => []TypeOK
<1>1. ASSUME IInv PROVE TypeOK
  <2> USE <1>1 DEF IInv
  <2>1. \A s \in Statement : Range(plan[s]) \cup DOMAIN written[s] \subseteq GroupsOf(s)
    <3>1. ASSUME NEW s \in Statement, stage[s] # "running"
          PROVE  Range(plan[s]) \cup DOMAIN written[s] \subseteq GroupsOf(s)
      <4>1. plan[s] = <<>> /\ DOMAIN written[s] = {}
        BY <3>1 DEF RunInv
      <4>2. QED  BY <4>1 DEF Range
    <3>2. ASSUME NEW s \in Statement, stage[s] = "running"
          PROVE  Range(plan[s]) \cup DOMAIN written[s] \subseteq GroupsOf(s)
      <4>1. plan[s] \in Seq(GroupsOf(s)) /\ DOMAIN written[s] \subseteq GroupsOf(s)
        BY <3>2 DEF RunInv
      <4>2. QED  BY <4>1 DEF Range
    <3>3. QED  BY <3>1, <3>2
  <2>2. logs \subseteq UNION {Carries[s] : s \in Statement}
    BY DEF TypeInv, CommittedRecords, Committed
  <2>3. DOMAIN counts = {GroupOf(r) : r \in CommittedRecords}
    BY CountsFacts
  <2>4. DOMAIN counts \subseteq Group
    BY <2>3 DEF Group, GroupsOf, CommittedRecords, Committed
  <2>5. ASSUME NEW g \in DOMAIN counts
        PROVE  counts[g] \in Nat \ {0}
    <3>1. CommittedOf(g) # {}
      BY <2>3 DEF CommittedOf
    <3>2. IsFiniteSet(CommittedOf(g))
      BY FS_Subset DEF CommittedOf, TypeInv
    <3>3. Cardinality(CommittedOf(g)) \in Nat \ {0}
      BY <3>1, <3>2, FS_CardinalityType, FS_EmptySet
    <3>4. QED  BY <3>3, CountsFacts
  <2>6. QED  BY <2>1, <2>2, <2>4, <2>5 DEF TypeOK, TypeInv
<1>2. QED  BY <1>1, Invariance, PTL

-----------------------------------------------------------------------------
(* Deadlocks: statements upsert in the order of the sort, and only         *)
(* finitely many run at a time.                                            *)

\* What a statement has still to upsert is sorted, and none of it is to come
\* before what the statement has written.
OrderInv ==
    \A s \in Statement :
        /\ \A i, j \in 1 .. Len(plan[s]) :
             i < j => plan[s][i] # plan[s][j] /\ ~ Before(plan[s][j], plan[s][i])
        /\ \A g \in DOMAIN written[s] : \A k \in 1 .. Len(plan[s]) :
             plan[s][k] # g /\ ~ Before(plan[s][k], g)

Running == {s \in Statement : stage[s] = "running"}

DInv == OrderInv /\ IsFiniteSet(Running)

LEMMA SortedPlan ==
    ASSUME NEW s \in Statement, NEW q \in SortedGroups(s)
    PROVE  /\ q \in Seq(GroupsOf(s))
           /\ \A i, j \in 1 .. Len(q) : i < j => q[i] # q[j] /\ ~ Before(q[j], q[i])
<1> DEFINE n == Cardinality(GroupsOf(s))
<1>1. n \in Nat
  BY GroupsFinite, FS_CardinalityType
<1>2. q \in [1 .. n -> GroupsOf(s)] /\ \A i, j \in 1 .. n : i # j => q[i] # q[j]
  BY DEF SortedGroups, SetToSeqs
<1>3. \A i, j \in 1 .. n : i < j => ~ Before(q[j], q[i])
  BY <1>2 DEF SortedGroups
<1>4. q \in Seq(GroupsOf(s)) /\ Len(q) = n
  BY <1>1, <1>2
<1>5. QED  BY <1>1, <1>2, <1>3, <1>4

LEMMA OrderStep ==
    ASSUME IInv, OrderInv, [Next]_vars
    PROVE  OrderInv'
<1> DEFINE Ordered(s, q, W) ==
      /\ \A i, j \in 1 .. Len(q) : i < j => q[i] # q[j] /\ ~ Before(q[j], q[i])
      /\ \A g \in W : \A k \in 1 .. Len(q) : q[k] # g /\ ~ Before(q[k], g)
<1>1. \A s \in Statement : Ordered(s, plan[s], DOMAIN written[s])
  BY DEF OrderInv
<1>2. SUFFICES \A s \in Statement : Ordered(s, plan'[s], DOMAIN written'[s])
  BY DEF OrderInv
<1>3. DOMAIN plan = Statement /\ DOMAIN written = Statement
  BY DEF IInv, TypeInv
<1>4. ASSUME NEW t \in Statement, NEW q, NEW W,
             \A s \in Statement : s # t => plan'[s] = plan[s] /\ written'[s] = written[s],
             plan'[t] = q, DOMAIN written'[t] = W, Ordered(t, q, W)
      PROVE  \A s \in Statement : Ordered(s, plan'[s], DOMAIN written'[s])
  <2> HIDE DEF Ordered
  <2>1. QED  BY <1>1, <1>4
<1>5. ASSUME NEW t \in Statement, Begin(t)
      PROVE  \A s \in Statement : Ordered(s, plan'[s], DOMAIN written'[s])
  <2>1. PICK q \in SortedGroups(t) : plan' = [plan EXCEPT ![t] = q]
    BY <1>5 DEF Begin
  <2>2. written' = written /\ DOMAIN written[t] = {}
    BY <1>5 DEF Begin, IInv, RunInv
  <2>3. Ordered(t, q, {})
    BY SortedPlan
  <2>4. /\ plan'[t] = q /\ DOMAIN written'[t] = {}
        /\ \A s \in Statement : s # t => plan'[s] = plan[s] /\ written'[s] = written[s]
    BY <1>3, <2>1, <2>2
  <2> HIDE DEF Ordered
  <2>5. QED  BY <1>4, <2>3, <2>4
<1>6. ASSUME NEW t \in Statement, Upsert(t)
      PROVE  \A s \in Statement : Ordered(s, plan'[s], DOMAIN written'[s])
  <2> DEFINE q == plan[t]
             new == Raised(written[t], Head(q), CountOf(Head(q)) + GroupCount(t, Head(q)))
  <2>1. /\ q # <<>> /\ plan' = [plan EXCEPT ![t] = Tail(q)]
        /\ written' = [written EXCEPT ![t] = new]
    BY <1>6 DEF Upsert
  <2>2. DOMAIN new = DOMAIN written[t] \cup {Head(q)}
    BY DEF Raised
  <2>3. q \in Seq(GroupsOf(t))
    BY <2>1 DEF IInv, RunInv
  <2>4. Ordered(t, q, DOMAIN written[t])
    BY <1>1
  <2> HIDE DEF q, new
  <2>5. /\ Len(q) \in Nat \ {0} /\ Head(q) = q[1] /\ Len(Tail(q)) = Len(q) - 1
        /\ \A k \in 1 .. Len(Tail(q)) : Tail(q)[k] = q[k + 1] /\ k + 1 \in 1 .. Len(q)
    BY <2>1, <2>3
  <2>6. \A i, j \in 1 .. Len(Tail(q)) :
          i < j => Tail(q)[i] # Tail(q)[j] /\ ~ Before(Tail(q)[j], Tail(q)[i])
    BY <2>4, <2>5
  <2>7. \A k \in 1 .. Len(Tail(q)) : Tail(q)[k] # Head(q) /\ ~ Before(Tail(q)[k], Head(q))
    BY <2>4, <2>5
  <2>8. \A g \in DOMAIN written[t] : \A k \in 1 .. Len(Tail(q)) :
          Tail(q)[k] # g /\ ~ Before(Tail(q)[k], g)
    BY <2>4, <2>5
  <2>9. Ordered(t, Tail(q), DOMAIN new)
    BY <2>2, <2>6, <2>7, <2>8
  <2>10. /\ plan'[t] = Tail(q) /\ DOMAIN written'[t] = DOMAIN new
         /\ \A s \in Statement : s # t => plan'[s] = plan[s] /\ written'[s] = written[s]
    BY <1>3, <2>1
  <2> HIDE DEF Ordered
  <2>11. QED  BY <1>4, <2>9, <2>10
<1>7. ASSUME NEW t \in Statement, Commit(t) \/ Abort(t)
      PROVE  \A s \in Statement : Ordered(s, plan'[s], DOMAIN written'[s])
  <2>1. /\ plan'[t] = <<>> /\ DOMAIN written'[t] = {}
        /\ \A s \in Statement : s # t => plan'[s] = plan[s] /\ written'[s] = written[s]
    BY <1>3, <1>7 DEF Commit, Abort, NoCounts
  <2>2. Ordered(t, <<>>, {})
    OBVIOUS
  <2> HIDE DEF Ordered
  <2>3. QED  BY <1>4, <2>1, <2>2
<1>8. ASSUME UNCHANGED <<plan, written>>
      PROVE  \A s \in Statement : Ordered(s, plan'[s], DOMAIN written'[s])
  <2> HIDE DEF Ordered
  <2>1. QED  BY <1>1, <1>8
<1> HIDE DEF Ordered
<1>9. QED  BY <1>5, <1>6, <1>7, <1>8 DEF Next, Expire, vars

LEMMA RunningStep ==
    ASSUME IInv, IsFiniteSet(Running), [Next]_vars
    PROVE  IsFiniteSet(Running')
<1>1. ASSUME NEW s \in Statement, Begin(s) PROVE IsFiniteSet(Running')
  <2>1. Running' = Running \cup {s}
    BY <1>1 DEF Begin, Running, IInv, TypeInv
  <2>2. QED  BY <2>1, FS_AddElement
<1>2. ASSUME NEW s \in Statement, Commit(s) \/ Abort(s) PROVE IsFiniteSet(Running')
  <2>1. Running' \subseteq Running
    BY <1>2 DEF Commit, Abort, Running, IInv, TypeInv
  <2>2. QED  BY <2>1, FS_Subset
<1>3. ASSUME UNCHANGED stage PROVE IsFiniteSet(Running')
  BY <1>3 DEF Running
<1>4. QED  BY <1>1, <1>2, <1>3 DEF Next, Upsert, Expire, vars

\* The comparison of the sort is a strict order on the groups.
LEMMA BeforeOrders ==
    ASSUME NEW g \in Group, NEW h \in Group, NEW k \in Group
    PROVE  ~ Before(g, g) /\ (Before(g, h) /\ Before(h, k) => Before(g, k))
<1>1. \A x \in Group : x.minute \in Int /\ Rank[x.service] \in Nat /\ Rank[x.level] \in Nat
  <2> TAKE x \in Group
  <2>1. PICK s \in Statement : \E r \in Carries[s] : x = GroupOf(r)
    BY DEF Group, GroupsOf
  <2>2. PICK r \in Carries[s] : x = GroupOf(r)
    BY <2>1
  <2>3. MinuteOf(r.sentAt) \in Int
    BY RecordsAssumption, TicksAssumption DEF MinuteOf
  <2>4. QED  BY <2>2, <2>3, RecordsAssumption DEF GroupOf
<1>2. QED  BY <1>1 DEF Before

\* In a finite set there is no endless ascent: of the sets of members above a
\* member, one contains no other.
LEMMA NoEndlessAscent ==
    ASSUME NEW S, IsFiniteSet(S), S # {}, NEW R,
           \A x, y, z \in S : <<x, y>> \in R /\ <<y, z>> \in R => <<x, z>> \in R,
           \A x \in S : <<x, x>> \notin R
    PROVE  \E x \in S : \A y \in S : <<x, y>> \notin R
<1> DEFINE Above(x) == {y \in S : <<x, y>> \in R}
           W == {Above(x) : x \in S}
<1>1. W \subseteq FiniteSubsetsOf(S) /\ W # {}
  <2>1. ASSUME NEW x \in S PROVE Above(x) \in FiniteSubsetsOf(S)
    <3>1. Above(x) \in SUBSET S
      OBVIOUS
    <3>2. IsFiniteSet(Above(x))
      BY <3>1, FS_Subset
    <3>3. QED  BY <3>1, <3>2 DEF FiniteSubsetsOf
  <2> HIDE DEF Above
  <2>2. QED  BY <2>1
<1>2. PICK u \in W : \A v \in W : ~ (<<v, u>> \in StrictSubsetOrdering(S))
  BY <1>1, FS_StrictSubsetOrderingWellFounded, WFMin
<1>3. PICK x \in S : u = Above(x)
  OBVIOUS
<1>4. ASSUME NEW y \in S, <<x, y>> \in R PROVE FALSE
  <2>1. Above(y) \subseteq Above(x) /\ y \in Above(x) /\ y \notin Above(y)
    BY <1>4
  <2>2. <<Above(y), Above(x)>> \in StrictSubsetOrdering(S)
    BY <2>1 DEF StrictSubsetOrdering
  <2>3. QED  BY <1>2, <1>3, <2>2
<1>5. QED  BY <1>4

\* Every circle of waiting statements has two that wait for groups which the
\* sort does not tell apart.
THEOREM DeadlockCorrect == Spec => []DeadlockNeedsTie
<1>1. Init => DInv
  <2>1. ASSUME Init PROVE Running = {} /\ OrderInv
    BY <2>1 DEF Init, Running, OrderInv, NoCounts
  <2>2. QED  BY <2>1, FS_EmptySet DEF DInv
<1>2. IInv /\ DInv /\ [Next]_vars => DInv'
  BY OrderStep, RunningStep DEF DInv
<1>3. ASSUME IInv, DInv PROVE DeadlockNeedsTie
  <2> SUFFICES ASSUME NEW S \in SUBSET Statement, S # {},
                      \A s \in S : \E t \in S : WaitsFor(s, t),
                      \A s, t \in S : LET g == Head(plan[s]) h == Head(plan[t]) IN
                                       g = h \/ Before(g, h) \/ Before(h, g)
               PROVE  FALSE
    BY DEF DeadlockNeedsTie
  <2> DEFINE next(s) == Head(plan[s])
             R == {z \in S \X S : Before(next(z[1]), next(z[2]))}
  <2>1. \A s \in S : plan[s] # <<>>
    BY DEF WaitsFor
  <2>2. S \subseteq Running
    BY <1>3, <2>1 DEF Running, IInv, RunInv
  <2>3. IsFiniteSet(S)
    BY <1>3, <2>2, FS_Subset DEF DInv
  <2>4. ASSUME NEW s \in S
        PROVE  /\ plan[s] \in Seq(GroupsOf(s)) /\ next(s) = plan[s][1] /\ 1 \in 1 .. Len(plan[s])
               /\ next(s) \in Group
    <3>1. plan[s] \in Seq(GroupsOf(s))
      BY <1>3, <2>2 DEF Running, IInv, RunInv
    <3>2. next(s) = plan[s][1] /\ 1 \in 1 .. Len(plan[s])
      BY <2>1, <3>1
    <3>3. next(s) \in GroupsOf(s)
      BY <3>1, <3>2
    <3>4. QED  BY <3>1, <3>2, <3>3 DEF Group
  \* Who waits for t waits for a group that t wrote, before the one t is at.
  <2>5. ASSUME NEW s \in S, NEW t \in S, WaitsFor(s, t)
        PROVE  Before(next(s), next(t))
    <3>1. next(s) \in DOMAIN written[t]
      BY <2>5 DEF WaitsFor, Holds
    <3>2. next(t) # next(s) /\ ~ Before(next(t), next(s))
      BY <1>3, <2>4, <3>1 DEF DInv, OrderInv
    <3>3. QED  BY <3>2
  <2> HIDE DEF next
  <2>6. \A x, y \in S : <<x, y>> \in R <=> Before(next(x), next(y))
    OBVIOUS
  <2> HIDE DEF R
  <2>7. \A x, y, z \in S : <<x, y>> \in R /\ <<y, z>> \in R => <<x, z>> \in R
    BY <2>4, <2>6, BeforeOrders
  <2>8. \A x \in S : <<x, x>> \notin R
    BY <2>4, <2>6, BeforeOrders
  <2>9. PICK x \in S : \A y \in S : <<x, y>> \notin R
    BY <2>3, <2>7, <2>8, NoEndlessAscent
  <2>10. QED  BY <2>5, <2>6, <2>9
<1>4. QED  BY <1>1, <1>2, <1>3, Invariance, PTL DEF Spec

-----------------------------------------------------------------------------
(***************************************************************************)
(* Sums over finite sets: what SumFunctionOnSet computes.                  *)
(***************************************************************************)
Picked(s) == CHOOSE x \in s : TRUE

\* g has the sum of f over each subset of S.
IsTotals(g, f, S) ==
    g = [s \in SUBSET S |-> IF s = {} THEN 0 ELSE f[Picked(s)] + g[s \ {Picked(s)}]]

\* The fold of the library, with its maps opened up.
LEMMA TotalIsChosen ==
    ASSUME NEW f, NEW S
    PROVE  SumFunctionOnSet(f, S) = (CHOOSE g : IsTotals(g, f, S))[S]
BY DEF SumFunctionOnSet, FoldFunctionOnSet, MapThenFoldSet, IsTotals, Picked

\* What holds of a set as soon as it holds of its proper subsets holds of
\* every finite set.
LEMMA SubsetInduction ==
    ASSUME NEW S, IsFiniteSet(S), NEW A \in SUBSET SUBSET S,
           \A T \in SUBSET S : (\A U \in SUBSET T : U # T => U \in A) => T \in A
    PROVE  A = SUBSET S
<1> DEFINE B == (SUBSET S) \ A
<1> SUFFICES ASSUME B # {} PROVE FALSE
  OBVIOUS
<1>1. B \subseteq FiniteSubsetsOf(S)
  BY FS_FiniteSubsetsOfFinite
<1>2. PICK T \in B : \A U \in B : ~ (<<U, T>> \in StrictSubsetOrdering(S))
  <2> HIDE DEF B
  <2>1. QED  BY <1>1, FS_StrictSubsetOrderingWellFounded, WFMin
<1>3. ASSUME NEW U \in SUBSET T, U # T PROVE U \in A
  BY <1>2, <1>3 DEF StrictSubsetOrdering
<1>4. QED  BY <1>2, <1>3

\* The choice that the fold makes.
LEMMA PickedIn == ASSUME NEW s, s # {} PROVE Picked(s) \in s
BY DEF Picked

\* One step of a table of sums.
LEMMA TotalsStep ==
    ASSUME NEW f, NEW S, NEW g, IsTotals(g, f, S), NEW s \in SUBSET S
    PROVE  /\ s = {} => g[s] = 0
           /\ s # {} => g[s] = f[Picked(s)] + g[s \ {Picked(s)}]
BY DEF IsTotals

\* Two tables agree on the sets that both have.
LEMMA TotalsAgree ==
    ASSUME NEW f, NEW S, NEW R, NEW g, NEW h, IsTotals(g, f, S), IsTotals(h, f, R),
           NEW T, T \subseteq S \cap R, IsFiniteSet(T)
    PROVE  g[T] = h[T]
<1> DEFINE A == {s \in SUBSET T : g[s] = h[s]}
<1>1. ASSUME NEW s \in SUBSET T, \A u \in SUBSET s : u # s => u \in A
      PROVE  s \in A
  <2>0. s \in SUBSET S /\ s \in SUBSET R
    OBVIOUS
  <2>1. CASE s = {}
    <3>1. g[s] = 0
      BY <2>0, <2>1, TotalsStep
    <3>2. h[s] = 0
      BY <2>0, <2>1, TotalsStep
    <3>3. QED  BY <3>1, <3>2
  <2>2. CASE s # {}
    <3> DEFINE u == s \ {Picked(s)}
    <3>1. g[s] = f[Picked(s)] + g[u] /\ h[s] = f[Picked(s)] + h[u]
      BY <2>2, TotalsStep
    <3>2. u \in A
      BY <1>1, <2>2, PickedIn
    <3>3. QED  BY <3>1, <3>2
  <2>3. QED  BY <2>1, <2>2
<1>2. A = SUBSET T
  <2> HIDE DEF A
  <2>1. A \in SUBSET SUBSET T
    BY DEF A
  <2>2. QED  BY <1>1, <2>1, SubsetInduction
<1>3. QED  BY <1>2

\* There is a table of the sums over the subsets of a finite set.
LEMMA TotalsExist ==
    ASSUME NEW f, NEW S, IsFiniteSet(S)
    PROVE  \E g : IsTotals(g, f, S)
<1> DEFINE A == {T \in SUBSET S : \E g : IsTotals(g, f, T)}
<1>1. ASSUME NEW T \in SUBSET S, \A U \in SUBSET T : U # T => U \in A
      PROVE  T \in A
  <2> DEFINE G(u) == CHOOSE g : IsTotals(g, f, u)
             g == [s \in SUBSET T |->
                     IF s = {} THEN 0
                     ELSE f[Picked(s)] + G(s \ {Picked(s)})[s \ {Picked(s)}]]
  <2>1. \A U \in SUBSET T : U # T => IsTotals(G(U), f, U)
    BY <1>1
  <2> HIDE DEF G
  <2>2. ASSUME NEW U \in SUBSET T, U # T PROVE g[U] = G(U)[U]
    <3>1. CASE U = {}
      <4> DEFINE k == G(U)
      <4>1. g[U] = 0
        BY <3>1
      <4>2. IsTotals(k, f, U) /\ U \in SUBSET U
        BY <2>1, <2>2
      <4> HIDE DEF k, g
      <4>3. k[U] = 0
        BY ONLY <3>1, <4>2, TotalsStep
      <4>4. QED  BY <4>1, <4>3 DEF k
    <3>2. CASE U # {}
      <4> DEFINE v == U \ {Picked(U)}
      <4>1. g[U] = f[Picked(U)] + G(v)[v]
        BY <3>2
      <4> HIDE DEF g
      <4>2. v \in SUBSET U /\ v # T /\ v \in SUBSET T
        BY <2>2, <3>2, PickedIn
      <4>3. IsTotals(G(U), f, U) /\ IsTotals(G(v), f, v)
        BY <2>1, <2>2, <4>2
      <4>4. G(U)[U] = f[Picked(U)] + G(U)[v]
        BY <3>2, <4>3, TotalsStep
      <4>5. IsFiniteSet(v)
        BY <4>2, FS_Subset
      <4>6. G(U)[v] = G(v)[v]
        BY <4>2, <4>3, <4>5, TotalsAgree
      <4>7. QED  BY <4>1, <4>4, <4>6
    <3>3. QED  BY <3>1, <3>2
  <2>3. ASSUME NEW s \in SUBSET T, s # {}
        PROVE  g[s \ {Picked(s)}] = G(s \ {Picked(s)})[s \ {Picked(s)}]
    <3> HIDE DEF g
    <3>1. s \ {Picked(s)} \in SUBSET T /\ s \ {Picked(s)} # T
      BY <2>3, PickedIn
    <3>2. QED  BY <2>2, <3>1
  <2>4. g = [s \in SUBSET T |-> IF s = {} THEN 0 ELSE f[Picked(s)] + g[s \ {Picked(s)}]]
    BY <2>3
  <2> HIDE DEF g
  <2>5. IsTotals(g, f, T)
    BY <2>4 DEF IsTotals
  <2>6. QED  BY <2>5
<1>2. A = SUBSET S
  <2> HIDE DEF A
  <2>1. A \in SUBSET SUBSET S
    BY DEF A
  <2>2. QED  BY <1>1, <2>1, SubsetInduction
<1>3. QED  BY <1>2

\* The sum is computed one element at a time.
LEMMA TotalStep ==
    ASSUME NEW f, NEW S, IsFiniteSet(S)
    PROVE  /\ S = {} => SumFunctionOnSet(f, S) = 0
           /\ S # {} => SumFunctionOnSet(f, S) = f[Picked(S)] + SumFunctionOnSet(f, S \ {Picked(S)})
<1> DEFINE R == S \ {Picked(S)}
           g == CHOOSE g : IsTotals(g, f, S)
           h == CHOOSE h : IsTotals(h, f, R)
<1>1. IsFiniteSet(R) /\ R \in SUBSET S
  BY FS_Subset
<1>2. IsTotals(g, f, S) /\ IsTotals(h, f, R)
  BY <1>1, TotalsExist
<1>3. SumFunctionOnSet(f, S) = g[S] /\ SumFunctionOnSet(f, R) = h[R]
  BY TotalIsChosen
<1> HIDE DEF g, h
<1>4. g[R] = h[R]
  BY <1>1, <1>2, TotalsAgree
<1>5. QED  BY <1>2, <1>3, <1>4, TotalsStep

-----------------------------------------------------------------------------
(***************************************************************************)
(* Buckets: multiples of a width.                                          *)
(***************************************************************************)
\* Of two multiples the greater is greater by a width at least.
LEMMA Multiples ==
    ASSUME NEW w \in Nat \ {0}, NEW a \in Int, NEW b \in Int, a < b
    PROVE  a * w + w <= b * w
<1> DEFINE d == b - a - 1
<1>1. d \in Nat /\ b = a + d + 1
  OBVIOUS
<1>2. d * w \in Nat /\ a * w \in Int
  BY <1>1
<1>3. b * w = a * w + d * w + w
  BY <1>1
<1> HIDE DEF d
<1>4. QED  BY <1>2, <1>3

\* The multiple that a quotient stands for is the last one up to t.
LEMMA Floor ==
    ASSUME NEW w \in Nat \ {0}, NEW t \in Nat
    PROVE  /\ t \div w \in Nat
           /\ (t \div w) * w <= t
           /\ t < (t \div w) * w + w
<1>1. t \div w \in Nat
  OBVIOUS
<1>2. (t \div w) * w <= t
  OBVIOUS
<1>3. t < (t \div w) * w + w
  OBVIOUS
<1>4. QED  BY <1>1, <1>2, <1>3

LEMMA FloorUnique ==
    ASSUME NEW w \in Nat \ {0}, NEW t \in Nat, NEW k \in Int,
           k * w <= t, t < k * w + w
    PROVE  k = t \div w
<1> DEFINE f == t \div w
           fw == f * w
           kw == k * w
<1>1. f \in Int /\ fw \in Int /\ kw \in Int /\ fw <= t /\ t < fw + w
  BY Floor
<1>2. k < f => kw + w <= fw
  BY <1>1, Multiples
<1>3. f < k => fw + w <= kw
  BY <1>1, Multiples
<1>4. kw <= t /\ t < kw + w
  OBVIOUS
<1> HIDE DEF f, fw, kw
<1>5. k = f
  BY <1>1, <1>2, <1>3, <1>4
<1>6. QED  BY <1>5 DEF f

\* A number without remainder is a multiple, and a multiple has none.
LEMMA MultipleOf ==
    ASSUME NEW w \in Nat \ {0}, NEW x \in Nat
    PROVE  /\ x % w = 0 => x = (x \div w) * w
           /\ \A k \in Nat : x = k * w => x % w = 0
<1>1. ASSUME x % w = 0 PROVE x = (x \div w) * w
  BY <1>1
<1>2. ASSUME NEW k \in Nat, x = k * w PROVE x % w = 0
  BY <1>2
<1>3. QED  BY <1>1, <1>2

\* A bound on whole minutes is on the same side of a time and of its minute.
LEMMA MinuteBound ==
    ASSUME NEW t \in Nat, NEW x \in Nat, x % MinuteTicks = 0
    PROVE  /\ MinuteOf(t) \in Nat /\ MinuteOf(t) <= t
           /\ x <= MinuteOf(t) <=> x <= t
<1> DEFINE d == t \div MinuteTicks
           j == x \div MinuteTicks
           dm == d * MinuteTicks
           jm == j * MinuteTicks
<1>1. d \in Nat /\ dm \in Nat /\ dm <= t /\ t < dm + MinuteTicks
  BY Floor, TicksAssumption
<1>2. j \in Nat /\ x = jm
  BY Floor, MultipleOf, TicksAssumption
<1>3. d < j => dm + MinuteTicks <= jm
  BY <1>1, <1>2, Multiples, TicksAssumption
<1>4. j < d => jm + MinuteTicks <= dm
  BY <1>1, <1>2, Multiples, TicksAssumption
<1>5. j = d => jm = dm
  OBVIOUS
<1>6. MinuteOf(t) = dm
  BY DEF MinuteOf
<1>7. MinuteTicks \in Nat
  BY TicksAssumption
<1> HIDE DEF d, j, dm, jm
<1>8. QED  BY <1>1, <1>2, <1>3, <1>4, <1>5, <1>6, <1>7

LEMMA WidthType == ASSUME NEW q \in Query PROVE Width(q) \in Nat \ {0}
<1>1. q.bucket \in Nat \ {0} /\ MinuteTicks \in Nat \ {0}
  BY QueryAssumption, TicksAssumption
<1>2. QED  BY <1>1 DEF Width

\* A time and its minute are in one bucket.
LEMMA MinuteBucket ==
    ASSUME NEW t \in Nat, NEW q \in Query
    PROVE  MinuteOf(t) \div Width(q) = t \div Width(q)
<1> DEFINE w == Width(q)
           k == t \div w
           kw == k * w
           m == MinuteOf(t)
<1>1. w \in Nat \ {0}
  BY WidthType
<1>2. k \in Nat /\ kw \in Nat /\ kw <= t /\ t < kw + w
  BY <1>1, Floor
<1>3. kw % MinuteTicks = 0
  <2>1. q.bucket \in Nat /\ MinuteTicks \in Nat \ {0}
    BY QueryAssumption, TicksAssumption
  <2>2. k * q.bucket \in Nat /\ kw = (k * q.bucket) * MinuteTicks
    BY <1>2, <2>1 DEF Width
  <2> HIDE DEF kw, k
  <2>3. QED  BY <1>2, <2>1, <2>2, MultipleOf
<1> HIDE DEF kw, m, w
<1>4. m \in Nat /\ m <= t /\ kw <= m
  BY <1>2, <1>3, MinuteBound DEF m
<1>5. kw <= m /\ m < kw + w
  BY <1>1, <1>2, <1>4
<1> HIDE DEF k
<1>6. k = m \div w
  BY <1>1, <1>2, <1>4, <1>5, FloorUnique DEF kw
<1>7. QED  BY <1>6 DEF k, m, w

-----------------------------------------------------------------------------
(***************************************************************************)
(* Answers.                                                                *)
(***************************************************************************)
\* Retention alone takes rows away, and only such as are before its cutoff.
LogsInv == \A r \in CommittedRecords : r \notin logs => r.storedAt < cutoff

\* Storing a timestamp at microseconds does not move it to another minute.
RoundingKeepsMinute ==
    \A s \in Statement : \A r \in Carries[s] : MinuteOf(r.storedAt) = MinuteOf(r.sentAt)

\* The rows that a query is about.
Wanted(q) == {r \in logs : Selects(q, r.storedAt, r) /\ (q.hasText => r.matches)}
WantedAt(q, k) == {r \in Wanted(q) : KeyOf(q, r.storedAt, r) = k}

LEMMA LogsStep ==
    ASSUME IInv, LogsInv, [Next]_vars
    PROVE  LogsInv'
<1>1. ASSUME NEW s \in Statement, Commit(s) PROVE LogsInv'
  <2>1. Committed' = Committed \cup {s}
    BY <1>1 DEF Commit, Committed, IInv, TypeInv
  <2>2. CommittedRecords' = CommittedRecords \cup Carries[s]
    BY <2>1 DEF CommittedRecords
  <2>3. logs' = logs \cup Carries[s] /\ cutoff' = cutoff
    BY <1>1 DEF Commit
  <2>4. QED  BY <2>2, <2>3 DEF LogsInv
<1>2. ASSUME NEW s \in Statement, Begin(s) \/ Upsert(s) \/ Abort(s) PROVE LogsInv'
  <2>1. Committed' = Committed
    BY <1>2 DEF Begin, Upsert, Abort, Committed, IInv, TypeInv
  <2>2. CommittedRecords' = CommittedRecords /\ logs' = logs /\ cutoff' = cutoff
    BY <1>2, <2>1 DEF CommittedRecords, Begin, Upsert, Abort
  <2>3. QED  BY <2>2 DEF LogsInv
<1>3. ASSUME NEW c \in 0 .. LastTick, Expire(c) PROVE LogsInv'
  <2>1. /\ c >= cutoff /\ cutoff' = c
        /\ \A r \in logs : r \notin logs' => r.storedAt < c
    BY <1>3 DEF Expire
  <2>2. CommittedRecords' = CommittedRecords
    BY <1>3 DEF Expire, CommittedRecords, Committed
  <2>3. \A r \in CommittedRecords : r.storedAt \in Nat
    BY RecordsAssumption DEF CommittedRecords, Committed
  <2>4. cutoff \in Nat /\ c \in Nat
    BY TicksAssumption DEF IInv, TypeInv
  <2>5. ASSUME NEW r \in CommittedRecords, r \notin logs' PROVE r.storedAt < c
    <3>1. CASE r \in logs
      BY <2>1, <2>5, <3>1
    <3>2. CASE r \notin logs
      BY <2>1, <2>3, <2>4, <3>2 DEF LogsInv
    <3>3. QED  BY <3>1, <3>2
  <2>6. QED  BY <2>1, <2>2, <2>5 DEF LogsInv
<1>4. CASE UNCHANGED vars
  BY <1>4 DEF vars, LogsInv, CommittedRecords, Committed
<1>5. QED  BY <1>1, <1>2, <1>3, <1>4 DEF Next

LEMMA LogsFacts ==
    ASSUME IInv
    PROVE  /\ IsFiniteSet(logs)
           /\ \A r \in logs : r.storedAt \in Nat
<1>1. logs \subseteq CommittedRecords /\ IsFiniteSet(CommittedRecords)
  BY DEF IInv, TypeInv
<1>2. IsFiniteSet(logs)
  BY <1>1, FS_Subset
<1>3. QED  BY <1>1, <1>2, RecordsAssumption DEF CommittedRecords, Committed

\* What is promised is one count for each bucket and group value of a wanted
\* row: the buckets that are half-open intervals are those that KeyOf tells.
LEMMA RawExact ==
    ASSUME IInv, NEW q \in Query
    PROVE  RawAnswer(q) = Promised(q)
<1> DEFINE W == Width(q)
           starts == {start \in 0 .. LastTick : start % W = 0}
           Rows(start, value) ==
               {r \in logs :
                   /\ Selects(q, r.storedAt, r)
                   /\ q.hasText => r.matches
                   /\ start <= r.storedAt /\ r.storedAt < start + W
                   /\ GroupValue(q, r) = value}
           keys == {k \in starts \X {GroupValue(q, r) : r \in logs} :
                       Cardinality(Rows(k[1], k[2])) > 0}
           wanted == {KeyOf(q, r.storedAt, r) : r \in Wanted(q)}
<1>1. Promised(q) = [k \in keys |-> Cardinality(Rows(k[1], k[2]))]
  BY DEF Promised
<1>2. RawAnswer(q) = [k \in wanted |-> Cardinality(WantedAt(q, k))]
  BY DEF RawAnswer, Wanted, WantedAt
<1>3. W \in Nat \ {0} /\ LastTick \in Nat /\ q.until \in 0 .. LastTick
  BY WidthType, QueryAssumption, TicksAssumption
<1>4. \A r \in logs : r.storedAt \in Nat
  BY LogsFacts
<1>5. ASSUME NEW start \in starts, NEW value
      PROVE  Rows(start, value) = WantedAt(q, <<start, value>>)
  <2>1. ASSUME NEW t \in Nat
        PROVE  start <= t /\ t < start + W <=> (t \div W) * W = start
    <3>1. start \in Nat /\ start = (start \div W) * W /\ start \div W \in Int
      <4>1. start \in Nat /\ start % W = 0
        BY <1>3
      <4> HIDE DEF W
      <4>2. QED  BY <1>3, <4>1, Floor, MultipleOf
    <3>2. (t \div W) * W <= t /\ t < (t \div W) * W + W
      BY <1>3, Floor
    <3>3. start <= t /\ t < start + W => start \div W = t \div W
      BY <1>3, <3>1, FloorUnique
    <3>4. QED  BY <3>1, <3>2, <3>3
  <2>2. \A r \in logs : (start <= r.storedAt /\ r.storedAt < start + W /\ GroupValue(q, r) = value
                           <=> KeyOf(q, r.storedAt, r) = <<start, value>>)
    BY <1>4, <2>1 DEF KeyOf
  <2>3. QED  BY <2>2 DEF WantedAt, Wanted
<1>6. ASSUME NEW k PROVE Cardinality(WantedAt(q, k)) > 0 <=> WantedAt(q, k) # {}
  <2>1. IsFiniteSet(WantedAt(q, k))
    BY LogsFacts, FS_Subset DEF WantedAt, Wanted
  <2>2. QED  BY <2>1, FS_EmptySet, FS_CardinalityType
<1>7. ASSUME NEW r \in Wanted(q)
      PROVE  KeyOf(q, r.storedAt, r) \in starts \X {GroupValue(q, x) : x \in logs}
  <2> DEFINE t == r.storedAt
             start == (t \div W) * W
  <2>1. r \in logs /\ t \in Nat /\ t < q.until
    BY <1>4 DEF Wanted, Selects
  <2>2. t \div W \in Nat /\ start \in Nat /\ start <= t
    BY <1>3, <2>1, Floor
  <2>3. start % W = 0
    BY <1>3, <2>2, MultipleOf
  <2>4. start \in 0 .. LastTick
    <3> HIDE DEF start, t
    <3>1. QED  BY <1>3, <2>1, <2>2
  <2>5. QED  BY <2>1, <2>3, <2>4 DEF KeyOf
<1> HIDE DEF starts, Rows, W
<1>8. \A k \in starts \X {GroupValue(q, x) : x \in logs} :
          k = <<k[1], k[2]>> /\ Rows(k[1], k[2]) = WantedAt(q, k)
  BY <1>5
<1>9. keys = wanted
  <2>1. \A k : k \in wanted <=> WantedAt(q, k) # {}
    BY DEF WantedAt
  <2>2. ASSUME NEW k \in keys PROVE k \in wanted
    BY <1>6, <1>8, <2>1
  <2>3. ASSUME NEW k \in wanted PROVE k \in keys
    <3>1. k \in starts \X {GroupValue(q, x) : x \in logs}
      BY <1>7
    <3>2. Cardinality(Rows(k[1], k[2])) > 0
      BY <1>6, <1>8, <2>1, <3>1
    <3>3. QED  BY <3>1, <3>2
  <2> HIDE DEF keys, wanted
  <2>4. QED  BY <2>2, <2>3
<1>10. \A k \in keys : Cardinality(Rows(k[1], k[2])) = Cardinality(WantedAt(q, k))
  BY <1>8
<1> HIDE DEF keys, wanted
<1>11. QED  BY <1>1, <1>2, <1>9, <1>10

\* The counts of some groups add up to the number of their records.
LEMMA SumOfCounts ==
    ASSUME IInv, NEW T, T \subseteq DOMAIN counts
    PROVE  SumFunctionOnSet(counts, T) = Cardinality({r \in CommittedRecords : GroupOf(r) \in T})
<1> DEFINE Of(U) == {r \in CommittedRecords : GroupOf(r) \in U}
           A == {U \in SUBSET T : SumFunctionOnSet(counts, U) = Cardinality(Of(U))}
<1>1. IsFiniteSet(CommittedRecords)
  BY DEF IInv, TypeInv
<1>2. /\ DOMAIN counts = {GroupOf(r) : r \in CommittedRecords}
      /\ \A g \in DOMAIN counts : counts[g] = Cardinality(CommittedOf(g))
  BY CountsFacts DEF IInv
<1>3. IsFiniteSet(T)
  <2> DEFINE f == [r \in CommittedRecords |-> GroupOf(r)]
  <2>1. f \in Surjection(CommittedRecords, DOMAIN counts)
    BY <1>2 DEF Surjection
  <2>2. IsFiniteSet(DOMAIN counts)
    BY <1>1, <2>1, FS_Surjection
  <2>3. QED  BY <2>2, FS_Subset
<1>4. ASSUME NEW U \in SUBSET T, \A V \in SUBSET U : V # U => V \in A
      PROVE  U \in A
  <2>1. IsFiniteSet(U)
    BY <1>3, FS_Subset
  <2>2. CASE U = {}
    <3>1. SumFunctionOnSet(counts, U) = 0
      BY ONLY <2>1, <2>2, TotalStep
    <3>2. Of(U) = {}
      BY <2>2
    <3>3. QED  BY <3>1, <3>2, FS_EmptySet
  <2>3. CASE U # {}
    <3> DEFINE p == Picked(U)
               V == U \ {p}
    <3>1. p \in U
      BY <2>3, PickedIn
    <3>2. SumFunctionOnSet(counts, U) = counts[p] + SumFunctionOnSet(counts, V)
      BY <2>1, <2>3, TotalStep
    <3>3. V \in A
      BY <1>4, <3>1
    <3>4. counts[p] = Cardinality(CommittedOf(p))
      BY <1>2, <3>1
    <3>5. Of(U) = CommittedOf(p) \cup Of(V) /\ CommittedOf(p) \cap Of(V) = {}
      BY <3>1 DEF CommittedOf
    <3>6. IsFiniteSet(CommittedOf(p)) /\ IsFiniteSet(Of(V))
      BY <1>1, FS_Subset DEF CommittedOf
    <3>7. Cardinality(Of(U)) = Cardinality(CommittedOf(p)) + Cardinality(Of(V)) - 0
      <4> HIDE DEF Of, V, p
      <4>1. QED  BY <3>5, <3>6, FS_Union, FS_EmptySet
    <3>8. Cardinality(CommittedOf(p)) \in Nat /\ Cardinality(Of(V)) \in Nat
      BY <3>6, FS_CardinalityType
    <3>9. SumFunctionOnSet(counts, V) = Cardinality(Of(V))
      BY <3>3
    <3> HIDE DEF p, V, Of
    <3>10. SumFunctionOnSet(counts, U) = Cardinality(Of(U))
      BY <3>2, <3>4, <3>7, <3>8, <3>9
    <3>11. QED  BY <3>10
  <2>4. QED  BY <2>2, <2>3
<1>5. A = SUBSET T
  <2> HIDE DEF A
  <2>1. A \in SUBSET SUBSET T
    BY DEF A
  <2>2. QED  BY <1>3, <1>4, <2>1, SubsetInduction
<1>6. QED  BY <1>5

\* The two ways to answer agree on whole minutes that retention has not
\* reached: log-aggregation-repository.ts may take the counts whenever the
\* query has no filter on messages or attributes.
LEMMA RollupIsRaw ==
    ASSUME IInv, LogsInv, RoundingKeepsMinute,
           NEW q \in Query, CanUseRollup(q), OnMinutes(q), q.since >= cutoff
    PROVE  RollupAnswer(q) = RawAnswer(q)
<1> DEFINE KeyOfGroup(g) == KeyOf(q, g.minute, g)
           selected == {g \in DOMAIN counts : Selects(q, g.minute, g)}
           At(k) == {g \in selected : KeyOfGroup(g) = k}
           keys == {KeyOfGroup(g) : g \in selected}
           wanted == {KeyOf(q, r.storedAt, r) : r \in Wanted(q)}
<1>1. RollupAnswer(q) = [k \in keys |-> SumFunctionOnSet(counts, At(k))]
  BY DEF RollupAnswer
<1>2. RawAnswer(q) = [k \in wanted |-> Cardinality(WantedAt(q, k))]
  BY DEF RawAnswer, Wanted, WantedAt
<1>3. /\ q.since \in Nat /\ q.until \in Nat /\ cutoff \in Nat
      /\ q.since % MinuteTicks = 0 /\ q.until % MinuteTicks = 0
  BY QueryAssumption, TicksAssumption DEF OnMinutes, IInv, TypeInv
<1>4. ASSUME NEW r \in CommittedRecords
      PROVE  /\ r.storedAt \in Nat
             /\ Selects(q, GroupOf(r).minute, GroupOf(r)) <=> Selects(q, r.storedAt, r)
             /\ KeyOfGroup(GroupOf(r)) = KeyOf(q, r.storedAt, r)
  <2> DEFINE t == r.storedAt
             m == MinuteOf(t)
  <2>1. t \in Nat /\ MinuteOf(r.sentAt) = m
    BY RecordsAssumption DEF CommittedRecords, Committed, RoundingKeepsMinute
  <2>2. GroupOf(r).minute = m /\ GroupOf(r).service = r.service /\ GroupOf(r).level = r.level
    BY <2>1 DEF GroupOf
  <2>3. m \in Nat /\ (q.since <= m <=> q.since <= t) /\ (q.until <= m <=> q.until <= t)
    BY <1>3, <2>1, MinuteBound
  <2>4. m \div Width(q) = t \div Width(q)
    BY <2>1, MinuteBucket
  <2>5. GroupValue(q, GroupOf(r)) = GroupValue(q, r)
    BY <2>2 DEF GroupValue
  <2> HIDE DEF t, m
  <2>6. Selects(q, m, GroupOf(r)) <=> Selects(q, t, r)
    BY <1>3, <2>1, <2>2, <2>3 DEF Selects
  <2>7. KeyOf(q, m, GroupOf(r)) = KeyOf(q, t, r)
    BY <2>4, <2>5 DEF KeyOf
  <2>8. QED  BY <2>1, <2>2, <2>6, <2>7 DEF t
<1>5. Wanted(q) = {r \in CommittedRecords : Selects(q, r.storedAt, r)}
  <2>1. \A r \in CommittedRecords : Selects(q, r.storedAt, r) => r \in logs
    BY <1>3, <1>4 DEF Selects, LogsInv
  <2>2. logs \subseteq CommittedRecords
    BY DEF IInv, TypeInv
  <2>3. QED  BY <2>1, <2>2 DEF Wanted, CanUseRollup
<1>6. DOMAIN counts = {GroupOf(r) : r \in CommittedRecords}
  BY CountsFacts DEF IInv
<1>7. selected = {GroupOf(r) : r \in Wanted(q)}
  BY <1>4, <1>5, <1>6
<1>8. keys = wanted
  <2>1. \A r \in Wanted(q) : KeyOfGroup(GroupOf(r)) = KeyOf(q, r.storedAt, r)
    BY <1>4, <1>5
  <2> HIDE DEF selected, KeyOfGroup
  <2>2. QED  BY <1>7, <2>1
<1>9. ASSUME NEW k PROVE SumFunctionOnSet(counts, At(k)) = Cardinality(WantedAt(q, k))
  <2>1. SumFunctionOnSet(counts, At(k)) = Cardinality({r \in CommittedRecords : GroupOf(r) \in At(k)})
    BY SumOfCounts
  <2>2. {r \in CommittedRecords : GroupOf(r) \in At(k)} = WantedAt(q, k)
    <3>1. \A r \in CommittedRecords : GroupOf(r) \in selected <=> r \in Wanted(q)
      BY <1>4, <1>5, <1>6
    <3>2. \A r \in CommittedRecords : KeyOfGroup(GroupOf(r)) = KeyOf(q, r.storedAt, r)
      BY <1>4
    <3> HIDE DEF selected, KeyOfGroup
    <3>3. Wanted(q) \subseteq CommittedRecords
      BY <1>5
    <3>4. QED  BY <3>1, <3>2, <3>3 DEF WantedAt
  <2>3. QED  BY <2>1, <2>2
<1> HIDE DEF keys, wanted, At
<1>10. QED  BY <1>1, <1>2, <1>8, <1>9

\* Where storing a timestamp does not move it to another minute, an
\* aggregation over whole minutes that retention has not reached is answered
\* as promised at every moment, from the counts as well as from the rows.
THEOREM AnswersCorrect ==
    ASSUME RoundingKeepsMinute
    PROVE  Spec => []AnswersExact
<1>1. Init => LogsInv
  BY DEF Init, LogsInv, CommittedRecords, Committed
<1>2. IInv /\ LogsInv /\ [Next]_vars => LogsInv'
  BY LogsStep
<1>3. IInv /\ LogsInv => AnswersExact
  <2> SUFFICES ASSUME IInv, LogsInv, NEW q \in Query, OnMinutes(q), q.since >= cutoff
               PROVE  Answer(q) = Promised(q)
    BY DEF AnswersExact
  <2>1. RawAnswer(q) = Promised(q)
    BY RawExact
  <2>2. CanUseRollup(q) => RollupAnswer(q) = RawAnswer(q)
    BY RollupIsRaw
  <2>3. QED  BY <2>1, <2>2 DEF Answer
<1>4. QED  BY <1>1, <1>2, <1>3, Invariance, PTL DEF Spec

=============================================================================
