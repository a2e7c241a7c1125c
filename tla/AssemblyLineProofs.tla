------------------------- MODULE AssemblyLineProofs -------------------------
(***************************************************************************)
(* The safety of barrier.c, dining_philosophers.c and of assembly_line.c,  *)
(* which composes them, for any number of stages and rounds.               *)
(*                                                                         *)
(* Barrier.  The strengthening is InPhase: the sleepers are exactly one    *)
(* arrival ahead of everybody else.  The last arrival finds                *)
(* count + 1 = Total, so all the others sleep, nobody of the last round is *)
(* still leaving, and all have arrived equally often.                      *)
(*                                                                         *)
(* Philosophers.  ForksAgree is inductive.  In a circle everybody who is   *)
(* waited for has one fork and wants another; the second fork of an odd    *)
(* philosopher is its own, which only an even right neighbour could hold   *)
(* as a first fork, and so on: parity breaks every circle, also for an odd *)
(* number of philosophers.                                                 *)
(*                                                                         *)
(* Assembly line.  It behaves like a barrier and like a table, so that     *)
(* both results hold inside it; MealsFit ties a stage's meals to its       *)
(* arrivals.                                                               *)
(***************************************************************************)
EXTENDS AssemblyLine, PthreadTheorems
-----------------------------------------------------------------------------
InPhase == \E r \in Nat : \A t \in Threads :
    arrivals[t] = IF pc[t] = "asleep" THEN r + 1 ELSE r

BarrierInv == TypeOK /\ CountAgrees /\ InPhase

\* The invariant in the form the provers use it.
LEMMA BarrierFacts ==
    ASSUME BarrierInv
    PROVE  /\ TypeOK /\ CountAgrees /\ InPhase
           /\ Typed(Threads, Labels, pc)
           /\ count \in Nat /\ Total \in Nat \ {0}
           /\ arrivals \in [Threads -> Nat]
<1>1. TypeOK /\ CountAgrees /\ InPhase BY DEF BarrierInv
<1> QED BY <1>1, BarrierAssumption DEF TypeOK, Typed

\* When count + 1 reaches the total, everybody but the caller is asleep.
LEMMA LastArrival ==
    ASSUME BarrierInv, NEW t \in Threads, pc[t] # "asleep", ~MustWait
    PROVE  \A u \in Threads : u # t => pc[u] = "asleep"
<1> DEFINE S == ThreadsAt(pc, "asleep")
           T == Threads \ {t}
<1>1. S \subseteq T BY BarrierFacts DEF ThreadsAt, Typed
<1>2. IsFiniteSet(T) /\ Cardinality(T) = Total - 1
  BY FS_RemoveElement, BarrierAssumption
<1>3. Cardinality(S) = count BY BarrierFacts DEF CountAgrees, NumAt
<1>4. count = Total - 1
  BY BarrierFacts, BarrierAssumption DEF TypeOK, MustWait
<1>5. S = T BY <1>1, <1>2, <1>3, <1>4, FS_Subset
<1> QED BY <1>5 DEF ThreadsAt

\* An arrival that is not the last one.
LEMMA SleepKeeps ==
    ASSUME BarrierInv, NEW t \in Threads, Arrive(t), MustWait
    PROVE  BarrierInv'
<1>1. /\ pc[t] = "out" /\ pc' = [pc EXCEPT ![t] = "asleep"]
      /\ arrivals[t] < MaxRounds /\ arrivals' = [arrivals EXCEPT ![t] = @ + 1]
      /\ count' = count + 1 /\ count + 1 < Total
  BY DEF Arrive, MustWait
<1>2. Moves(Threads, Labels, pc, pc', t, "out", "asleep")
  BY <1>1, BarrierFacts DEF Moves, Labels
<1>3. TypeOK'
  BY <1>1, BarrierFacts, BarrierAssumption DEF TypeOK, Labels
<1>4. CountAgrees' BY <1>1, <1>2, BarrierFacts, MoveNum DEF CountAgrees
<1>5. InPhase'
  <2>1. PICK r \in Nat : \A u \in Threads :
            arrivals[u] = IF pc[u] = "asleep" THEN r + 1 ELSE r
    BY BarrierFacts DEF InPhase
  <2>2. \A u \in Threads : arrivals'[u] = IF pc'[u] = "asleep" THEN r + 1 ELSE r
    BY <1>1, <2>1, BarrierFacts DEF TypeOK
  <2> QED BY <2>2 DEF InPhase
<1> QED BY <1>3, <1>4, <1>5 DEF BarrierInv

\* The last arrival starts the next phase.
LEMMA ReleaseKeeps ==
    ASSUME BarrierInv, NEW t \in Threads, Arrive(t), ~MustWait
    PROVE  BarrierInv'
<1>1. /\ pc[t] = "out" /\ pc' = CondBroadcast(pc, "asleep", "woken")
      /\ arrivals[t] < MaxRounds /\ arrivals' = [arrivals EXCEPT ![t] = @ + 1]
      /\ count' = 0
  BY DEF Arrive, ReleaseAll
<1>2. "woken" \in Labels BY DEF Labels
<1>3. /\ Typed(Threads, Labels, pc') /\ NumAt(pc', "asleep") = 0
      /\ \A u \in Threads : pc'[u] = IF pc[u] = "asleep" THEN "woken" ELSE pc[u]
  BY <1>1, <1>2, BarrierFacts, BroadcastNum
<1>4. TypeOK'
  BY <1>1, <1>3, BarrierFacts, BarrierAssumption DEF TypeOK, Typed
<1>5. CountAgrees' BY <1>1, <1>3 DEF CountAgrees
<1>6. InPhase'
  <2>1. PICK r \in Nat : \A u \in Threads :
            arrivals[u] = IF pc[u] = "asleep" THEN r + 1 ELSE r
    BY BarrierFacts DEF InPhase
  <2>2. \A u \in Threads : u # t => pc[u] = "asleep" BY <1>1, LastArrival
  <2>3. \A u \in Threads : arrivals'[u] = r + 1 /\ pc'[u] # "asleep"
    BY <1>1, <1>3, <2>1, <2>2, BarrierFacts DEF TypeOK
  <2>4. r + 1 \in Nat OBVIOUS
  <2> QED BY <2>3, <2>4 DEF InPhase
<1> QED BY <1>4, <1>5, <1>6 DEF BarrierInv

\* A woken thread returns.
LEMMA LeaveKeeps ==
    ASSUME BarrierInv, NEW t \in Threads, Leave(t)
    PROVE  BarrierInv'
<1>1. /\ pc[t] = "woken" /\ pc' = [pc EXCEPT ![t] = "out"]
      /\ UNCHANGED <<count, arrivals>>
  BY DEF Leave
<1>2. Moves(Threads, Labels, pc, pc', t, "woken", "out")
  BY <1>1, BarrierFacts DEF Moves, Labels
<1>3. TypeOK' BY <1>1, BarrierFacts DEF TypeOK, Labels
<1>4. CountAgrees' BY <1>1, <1>2, BarrierFacts, MoveNum DEF CountAgrees
<1>5. InPhase' BY <1>1, BarrierFacts DEF InPhase, TypeOK
<1> QED BY <1>3, <1>4, <1>5 DEF BarrierInv

\* barrier_init: everybody is outside, in round 0.
LEMMA BarrierInitInv == Init => BarrierInv
<1> SUFFICES ASSUME Init PROVE BarrierInv
  OBVIOUS
<1>1. TypeOK BY BarrierAssumption DEF Init, TypeOK, Labels
<1>2. Typed(Threads, Labels, pc) BY <1>1, BarrierAssumption DEF TypeOK, Typed
<1>3. \A u \in Threads : pc[u] # "asleep" /\ arrivals[u] = 0 BY DEF Init
<1>4. NumAt(pc, "asleep") = 0 BY <1>2, <1>3, NumZero
<1> QED BY <1>1, <1>3, <1>4 DEF BarrierInv, CountAgrees, InPhase, Init

\* Every call and every return of barrier_wait keeps the invariant.
LEMMA BarrierStepKeeps == BarrierInv /\ [Next]_vars => BarrierInv'
<1> SUFFICES ASSUME BarrierInv, [Next]_vars PROVE BarrierInv'
  OBVIOUS
<1>1. CASE UNCHANGED vars
  BY <1>1 DEF vars, BarrierInv, TypeOK, CountAgrees, InPhase
<1>2. CASE Next
  BY <1>2, SleepKeeps, ReleaseKeeps, LeaveKeeps DEF Next
<1> QED BY <1>1, <1>2

\* The inductive invariant holds in every reachable state.
LEMMA BarrierInvariance == Spec => []BarrierInv
BY BarrierInitInv, BarrierStepKeeps, PTL DEF Spec

\* Two threads of one phase differ by at most one arrival, and the one that is
\* ahead sleeps.
LEMMA InPhaseImplies == BarrierInv => NoEarlyRelease
BY BarrierFacts DEF InPhase, NoEarlyRelease

\* The count of barrier.c stays below its total.
THEOREM BarrierTypeCorrect == Spec => []TypeOK
BY BarrierInvariance, PTL DEF BarrierInv

\* The count is always the number of sleepers.
THEOREM CountAlwaysAgrees == Spec => []CountAgrees
BY BarrierInvariance, PTL DEF BarrierInv

\* barrier_wait is a barrier, round after round, when only the broadcast of
\* the last arrival wakes the waiters.
THEOREM BarrierHolds == Spec => []NoEarlyRelease
BY BarrierInvariance, InPhaseImplies, PTL
-----------------------------------------------------------------------------
DiningInv == DiningTypeOK /\ ForksAgree

\* The right neighbour, without the modulus.
LEMMA RightValue ==
    ASSUME NEW p \in Philosophers
    PROVE  /\ Right(p) = IF p = N - 1 THEN 0 ELSE p + 1
           /\ Right(p) \in Philosophers
<1>1. CASE p = N - 1
  <2>1. N % N = 0 BY DiningAssumption
  <2> QED BY <1>1, <2>1, DiningAssumption DEF Right, Philosophers
<1>2. CASE p # N - 1
  <2>1. p + 1 \in 0..(N - 1) BY <1>2, DiningAssumption DEF Philosophers
  <2>2. (p + 1) % N = p + 1 BY <2>1, DiningAssumption
  <2> QED BY <1>2, <2>1, <2>2 DEF Right, Philosophers
<1> QED BY <1>1, <1>2

\* Parity, as the provers know it.
LEMMA Parity ==
    ASSUME NEW p \in Philosophers
    PROVE  (p % 2 = 0 \/ p % 2 = 1) /\ (p % 2 = 0 => (p + 1) % 2 = 1)
           /\ (p % 2 = 1 => (p + 1) % 2 = 0)
BY DiningAssumption DEF Philosophers

\* The two forks are p and its right neighbour, in one order or the other.
LEMMA ForksOf ==
    ASSUME NEW p \in Philosophers
    PROVE  /\ First(p) \in Philosophers /\ Second(p) \in Philosophers
           /\ {First(p), Second(p)} = {p, Right(p)}
BY RightValue DEF First, Second

\* Each step changes the owner of one fork and what its philosopher holds alike.
LEMMA DiningStepKeeps ==
    ASSUME N > 1, DiningInv, [DiningNext]_table
    PROVE  DiningInv'
<1>0. DiningTypeOK /\ ForksAgree BY DEF DiningInv
<1>1. ASSUME NEW p \in Philosophers, Eat(p) PROVE DiningInv'
  <2>1. DiningTypeOK' BY <1>0, <1>1 DEF DiningTypeOK, Eat
  <2>2. \A q \in Philosophers : Holds(q)' = Holds(q)
    BY <1>0, <1>1 DEF DiningTypeOK, Eat, Holds
  <2> QED BY <1>0, <1>1, <2>1, <2>2 DEF DiningInv, ForksAgree, Eat
<1>2. ASSUME NEW p \in Philosophers, TakeFirst(p) PROVE DiningInv'
  <2>0. First(p) \in Philosophers BY ForksOf
  <2>1. DiningTypeOK' BY <1>0, <1>2, <2>0 DEF DiningTypeOK, TakeFirst
  <2>2. /\ Holds(p) = {} /\ Holds(p)' = {First(p)}
        /\ \A q \in Philosophers : q # p => Holds(q)' = Holds(q)
    BY <1>0, <1>2, <2>0 DEF DiningTypeOK, TakeFirst, Holds
  <2>3. \A q \in Philosophers : q # Nobody BY DiningAssumption DEF Philosophers, Nobody
  <2>4. ForksAgree'
    BY <1>0, <1>2, <2>0, <2>2, <2>3 DEF ForksAgree, TakeFirst, DiningTypeOK
  <2> QED BY <2>1, <2>4 DEF DiningInv
<1>3. ASSUME NEW p \in Philosophers, TakeSecond(p) PROVE DiningInv'
  <2>0. Second(p) \in Philosophers /\ {First(p), Second(p)} = {p, Right(p)}
        /\ Right(p) \in Philosophers /\ First(p) \in Philosophers
    BY ForksOf, RightValue
  <2>1. DiningTypeOK' BY <1>0, <1>3, <2>0 DEF DiningTypeOK, TakeSecond
  <2>2. /\ Holds(p) = {First(p)} /\ Holds(p)' = {p, Right(p)}
        /\ \A q \in Philosophers : q # p => Holds(q)' = Holds(q)
    BY <1>0, <1>3, <2>0 DEF DiningTypeOK, TakeSecond, Holds
  <2>3. \A q \in Philosophers : q # Nobody BY DiningAssumption DEF Philosophers, Nobody
  <2>4. ForksAgree'
    BY <1>0, <1>3, <2>0, <2>2, <2>3 DEF ForksAgree, TakeSecond, DiningTypeOK
  <2> QED BY <2>1, <2>4 DEF DiningInv
<1>4. ASSUME NEW p \in Philosophers, PutOwn(p) PROVE DiningInv'
  <2>0. Right(p) \in Philosophers /\ Right(p) # p
    BY RightValue, DiningAssumption DEF Philosophers
  <2>1. DiningTypeOK' BY <1>0, <1>4 DEF DiningTypeOK, PutOwn
  <2>2. /\ Holds(p) = {p, Right(p)} /\ Holds(p)' = {Right(p)}
        /\ \A q \in Philosophers : q # p => Holds(q)' = Holds(q)
    BY <1>0, <1>4, <2>0 DEF DiningTypeOK, PutOwn, Holds
  <2>3. \A q \in Philosophers : q # Nobody BY DiningAssumption DEF Philosophers, Nobody
  <2>4. ForksAgree'
    BY <1>0, <1>4, <2>0, <2>2, <2>3 DEF ForksAgree, PutOwn, DiningTypeOK
  <2> QED BY <2>1, <2>4 DEF DiningInv
<1>5. ASSUME NEW p \in Philosophers, PutRight(p) PROVE DiningInv'
  <2>0. Right(p) \in Philosophers BY RightValue
  <2>1. DiningTypeOK' BY <1>0, <1>5 DEF DiningTypeOK, PutRight
  <2>2. /\ Holds(p) = {Right(p)} /\ Holds(p)' = {}
        /\ \A q \in Philosophers : q # p => Holds(q)' = Holds(q)
    BY <1>0, <1>5, <2>0 DEF DiningTypeOK, PutRight, Holds
  <2>3. \A q \in Philosophers : q # Nobody BY DiningAssumption DEF Philosophers, Nobody
  <2>4. ForksAgree'
    BY <1>0, <1>5, <2>0, <2>2, <2>3 DEF ForksAgree, PutRight, DiningTypeOK
  <2> QED BY <2>1, <2>4 DEF DiningInv
<1>6. CASE UNCHANGED table
  BY <1>0, <1>6 DEF table, DiningInv, DiningTypeOK, ForksAgree, Holds
<1> QED BY <1>1, <1>2, <1>3, <1>4, <1>5, <1>6 DEF DiningNext

\* dining_philosophers_init: no fork is taken.
LEMMA DiningInitInv == DiningInit => DiningInv
<1> SUFFICES ASSUME DiningInit PROVE DiningInv
  OBVIOUS
<1>1. \A q \in Philosophers : q # Nobody BY DiningAssumption DEF Philosophers, Nobody
<1> QED BY <1>1 DEF DiningInit, DiningInv, DiningTypeOK, ForksAgree, Holds

\* A fork has one owner, so two neighbours cannot both hold the one they share.
LEMMA NeighboursFromForks == DiningInv => NeighboursExclusive
<1> SUFFICES ASSUME DiningInv, NEW p \in Philosophers, Right(p) # p,
                    doing[p] = "eating", doing[Right(p)] = "eating"
             PROVE  FALSE
  BY DEF NeighboursExclusive
<1>1. Right(p) \in Philosophers BY RightValue
<1>2. Right(p) \in Holds(p) /\ Right(p) \in Holds(Right(p)) BY <1>1 DEF Holds
<1> QED BY <1>1, <1>2 DEF DiningInv, ForksAgree

\* A waiting philosopher q that has a fork wants one that no other such
\* philosopher can have as its first: the heart of the argument.
LEMMA ParityBreaksTheCircle ==
    ASSUME N > 1,
           NEW S \in SUBSET Philosophers,
           \A q \in S : \E r \in S : First(r) = Second(q)
    PROVE  S = {}
<1>1. ASSUME NEW q \in S, q % 2 = 1 PROVE FALSE
  <2>1. PICK r \in S : First(r) = q BY <1>1 DEF Second
  <2>2. CASE r % 2 = 0 BY <1>1, <2>1, <2>2 DEF First
  <2>3. CASE r % 2 = 1
    <3>1. Right(r) = q BY <2>1, <2>3 DEF First
    <3>2. r + 1 = q \/ q = 0 BY <3>1, RightValue
    <3> QED BY <1>1, <2>3, <3>2, Parity
  <2> QED BY <2>2, <2>3, Parity
<1>2. ASSUME NEW q \in S, q % 2 = 0 PROVE FALSE
  <2>1. PICK r \in S : First(r) = Right(q) BY <1>2 DEF Second
  <2>2. r % 2 = 0 BY <1>1, Parity
  <2>3. r = Right(q) BY <2>1, <2>2 DEF First
  <2>4. r = 0 BY <1>2, <2>2, <2>3, RightValue, Parity
  <2>5. PICK s \in S : First(s) = Right(r) BY <2>2 DEF Second
  <2>6. s % 2 = 0 BY <1>1, Parity
  <2>7. s = 1 BY <2>4, <2>5, <2>6, RightValue, DiningAssumption DEF First
  <2> QED BY <2>6, <2>7
<1> QED BY <1>1, <1>2, Parity

\* Everybody in a circle who is waited for holds its first fork and wants its
\* second, so parity applies.
LEMMA NoCircle == N > 1 /\ DiningInv => NoCircularWait
<1> SUFFICES ASSUME N > 1, DiningInv, NEW D \in SUBSET Philosophers, D # {},
                    \A p \in D : \E q \in D : WaitsFor(p, q)
             PROVE  FALSE
  BY DEF NoCircularWait
<1> DEFINE S == {q \in D : doing[q] = "second"}
<1>1. ASSUME NEW p \in D, NEW q \in D, WaitsFor(p, q)
      PROVE  doing[q] = "second" /\ (doing[p] = "second" => First(q) = Second(p))
  <2>1. \E f \in Philosophers : owner[f] = q /\ (doing[p] = "second" => f = Second(p))
    BY <1>1, ForksOf DEF WaitsFor
  <2>2. PICK f \in Philosophers : owner[f] = q /\ (doing[p] = "second" => f = Second(p))
    BY <2>1
  <2>3. f \in Holds(q) BY <2>2 DEF DiningInv, ForksAgree
  <2>4. doing[q] = "first" \/ doing[q] = "second" BY DEF WaitsFor
  <2> QED BY <2>2, <2>3, <2>4 DEF Holds
<1>2. \A q \in S : \E r \in S : First(r) = Second(q) BY <1>1
<1>3. S # {} BY <1>1
<1>4. S \in SUBSET Philosophers OBVIOUS
<1> QED BY <1>2, <1>3, <1>4, ParityBreaksTheCircle

\* The inductive invariant holds in every reachable state.
LEMMA DiningInvariance == ASSUME N > 1 PROVE DiningSpec => []DiningInv
<1>1. DiningInv /\ [DiningNext]_table => DiningInv' BY DiningStepKeeps
<1> QED BY <1>1, DiningInitInv, PTL DEF DiningSpec

\* Every fork belongs to a philosopher or to nobody.
THEOREM DiningTypeCorrect == ASSUME N > 1 PROVE DiningSpec => []DiningTypeOK
BY DiningInvariance, PTL DEF DiningInv

\* The forks that dining_philosophers_eat locked are the ones that
\* dining_philosophers_done unlocks, whatever happens in between.
THEOREM ForksAlwaysAgree == ASSUME N > 1 PROVE DiningSpec => []ForksAgree
BY DiningInvariance, PTL DEF DiningInv

\* Neighbours never eat at the same time.
THEOREM NeighboursAreExclusive == ASSUME N > 1 PROVE DiningSpec => []NeighboursExclusive
BY DiningInvariance, NeighboursFromForks, PTL

\* The lock order of dining_philosophers_eat admits no deadlock, for any number
\* of philosophers but one.
THEOREM DeadlockFree == ASSUME N > 1 PROVE DiningSpec => []NoCircularWait
<1>1. DiningInv => NoCircularWait BY NoCircle
<1> QED BY <1>1, DiningInvariance, PTL
-----------------------------------------------------------------------------
(***************************************************************************)
(* assembly_line.c                                                         *)
(***************************************************************************)
LineLabels == {"barrier", "read", "write", "table"}

\* A stage beyond the barrier is outside barrier_wait and one meal behind its
\* arrivals; so is one that has arrived and not returned yet.
MealsFit == \A s \in Stages :
    /\ at[s] # "barrier" => pc[s] = "out"
    /\ meals[s] = IF at[s] = "barrier" /\ pc[s] = "out" THEN arrivals[s] ELSE arrivals[s] - 1

LineInv ==
    /\ BarrierInv
    /\ at \in [Stages -> LineLabels] /\ meals \in [Stages -> Nat]
    /\ MealsFit

\* What stage_thread does at the barrier is a step of barrier.c.
LEMMA LineStepIsBarrierStep == [LineNext]_lineVars => [Next]_vars
<1> SUFFICES ASSUME [LineNext]_lineVars PROVE [Next]_vars
  OBVIOUS
<1>1. ASSUME NEW s \in Stages, BarrierWait(s) PROVE Next
  BY <1>1 DEF BarrierWait, Next, Stages
<1>2. ASSUME NEW s \in Stages, Load(s) \/ Store(s) \/ Dine(s) \/ Finish(s)
      PROVE  UNCHANGED vars
  BY <1>2 DEF Load, Store, Dine, Finish, barrier, vars
<1>3. CASE Process \/ GetResult BY <1>3 DEF Process, GetResult, barrier, vars
<1>4. CASE UNCHANGED lineVars BY <1>4 DEF lineVars, barrier, vars
<1> QED BY <1>1, <1>2, <1>3, <1>4 DEF LineNext, Stage

\* What stage_thread does at the table is a step of dining_philosophers.c.
LEMMA LineStepIsDiningStep == [LineNext]_lineVars => [DiningNext]_table
<1> SUFFICES ASSUME [LineNext]_lineVars PROVE [DiningNext]_table
  OBVIOUS
<1>0. Stages = Philosophers BY LineAssumption DEF Stages
<1>1. ASSUME NEW s \in Stages, Store(s) \/ Dine(s) \/ Finish(s) PROVE DiningNext
  BY <1>0, <1>1 DEF Store, Dine, Finish, DiningNext
<1>2. ASSUME NEW s \in Stages, BarrierWait(s) \/ Load(s) PROVE UNCHANGED table
  BY <1>2 DEF BarrierWait, Load
<1>3. CASE Process \/ GetResult BY <1>3 DEF Process, GetResult
<1>4. CASE UNCHANGED lineVars BY <1>4 DEF lineVars
<1> QED BY <1>1, <1>2, <1>3, <1>4 DEF LineNext, Stage

\* Inside the assembly line barrier.c behaves as it does on its own.
THEOREM LineIsBarrier == LineSpec => Spec
<1>1. LineInit => Init BY DEF LineInit
<1> QED BY <1>1, LineStepIsBarrierStep, PTL DEF LineSpec, Spec

\* Inside the assembly line dining_philosophers.c behaves as it does on its own.
THEOREM LineIsTable == LineSpec => DiningSpec
<1>1. LineInit => DiningInit BY DEF LineInit
<1> QED BY <1>1, LineStepIsDiningStep, PTL DEF LineSpec, DiningSpec

\* So what is proved of the two holds in assembly_line.c too, where a stage is
\* at the barrier or at the table: the barrier opens for all stages only, and
\* the forks are exclusive and never waited for in a circle.
THEOREM LineKeepsBoth ==
    ASSUME N > 1
    PROVE  LineSpec => [](NoEarlyRelease /\ NeighboursExclusive /\ NoCircularWait)
BY LineIsBarrier, LineIsTable, BarrierHolds, NeighboursAreExclusive, DeadlockFree, PTL

\* A call or a return of barrier_wait.
LEMMA BarrierWaitFits ==
    ASSUME LineInv, NEW s \in Stages, BarrierWait(s)
    PROVE  MealsFit' /\ at' \in [Stages -> LineLabels]
<1>0. s \in Threads /\ Stages = Threads BY DEF Stages
<1>1. /\ at[s] = "barrier" /\ UNCHANGED meals
      /\ at' = [at EXCEPT ![s] = IF pc'[s] = "out" THEN "read" ELSE "barrier"]
  BY DEF BarrierWait
<1>2. at' \in [Stages -> LineLabels] BY <1>1 DEF LineInv, LineLabels
<1>3. /\ at'[s] = IF pc'[s] = "out" THEN "read" ELSE "barrier"
      /\ \A u \in Stages : u # s => at'[u] = at[u]
  BY <1>1 DEF LineInv
<1>4. /\ TypeOK /\ Typed(Threads, Labels, pc) /\ arrivals \in [Threads -> Nat]
  BY BarrierFacts DEF LineInv
<1>5. CASE Leave(s)
  <2>1. /\ pc[s] = "woken" /\ pc'[s] = "out" /\ arrivals' = arrivals
        /\ \A u \in Threads : u # s => pc'[u] = pc[u]
    BY <1>0, <1>4, <1>5 DEF Leave, TypeOK
  <2>2. MealsFit' BY <1>0, <1>1, <1>3, <2>1 DEF LineInv, MealsFit
  <2> QED BY <1>2, <2>2
<1>6. CASE Arrive(s)
  <2>1. /\ pc[s] = "out" /\ arrivals'[s] = arrivals[s] + 1
        /\ \A u \in Threads : u # s => arrivals'[u] = arrivals[u]
    BY <1>0, <1>4, <1>6 DEF Arrive
  <2>2. \/ pc'[s] = "asleep" /\ \A u \in Threads : u # s => pc'[u] = pc[u]
        \/ \A u \in Threads : pc'[u] = IF pc[u] = "asleep" THEN "woken" ELSE pc[u]
    <3>1. CASE pc' = [pc EXCEPT ![s] = "asleep"] BY <1>0, <1>4, <3>1 DEF Typed
    <3>2. CASE ReleaseAll BY <1>4, <3>2 DEF ReleaseAll, CondBroadcast, Typed
    <3> QED BY <1>6, <3>1, <3>2 DEF Arrive
  <2>3. meals[s] = arrivals[s] /\ arrivals[s] \in Nat
    BY <1>0, <1>1, <1>4, <2>1 DEF LineInv, MealsFit
  <2>4. (arrivals[s] + 1) - 1 = arrivals[s] BY <2>3
  <2>5. \A u \in Stages : u # s =>
           /\ at'[u] = at[u] /\ meals'[u] = meals[u] /\ arrivals'[u] = arrivals[u]
           /\ pc'[u] = "out" <=> pc[u] = "out"
    BY <1>0, <1>1, <1>3, <2>1, <2>2
  <2>6. MealsFit'
    BY <1>0, <1>1, <1>3, <2>1, <2>2, <2>3, <2>4, <2>5 DEF LineInv, MealsFit
  <2> QED BY <1>2, <2>6
<1> QED BY <1>5, <1>6 DEF BarrierWait

\* The rest of the loop of stage_thread leaves the barrier alone.
LEMMA RoundFits ==
    ASSUME LineInv, NEW s \in Stages, Load(s) \/ Store(s) \/ Dine(s) \/ Finish(s)
    PROVE  /\ MealsFit' /\ at' \in [Stages -> LineLabels] /\ meals' \in [Stages -> Nat]
<1>0. Stages = Threads BY DEF Stages
<1>1. UNCHANGED <<pc, arrivals>> BY DEF Load, Store, Dine, Finish, barrier
<1>2. CASE Load(s) \/ Store(s) \/ Dine(s)
  <2>1. /\ at[s] # "barrier" /\ UNCHANGED meals
        /\ \/ at' = [at EXCEPT ![s] = "write"]
           \/ at' = [at EXCEPT ![s] = "table"]
           \/ at' = at
    BY <1>2 DEF Load, Store, Dine
  <2>2. at' \in [Stages -> LineLabels] /\ meals' \in [Stages -> Nat]
    BY <2>1 DEF LineInv, LineLabels
  <2>3. \A u \in Stages : at'[u] = "barrier" <=> at[u] = "barrier"
    BY <2>1 DEF LineInv
  <2> QED BY <1>1, <2>1, <2>2, <2>3 DEF LineInv, MealsFit
<1>3. CASE Finish(s)
  <2>1. /\ at[s] = "table" /\ at' = [at EXCEPT ![s] = "barrier"]
        /\ meals' = [meals EXCEPT ![s] = @ + 1]
    BY <1>3 DEF Finish
  <2>2. /\ at' \in [Stages -> LineLabels] /\ meals' \in [Stages -> Nat]
        /\ at'[s] = "barrier" /\ meals'[s] = meals[s] + 1
        /\ \A u \in Stages : u # s => at'[u] = at[u] /\ meals'[u] = meals[u]
    BY <2>1 DEF LineInv, LineLabels
  <2>3. arrivals \in [Threads -> Nat] BY BarrierFacts DEF LineInv
  <2>4. pc[s] = "out" /\ meals[s] = arrivals[s] - 1 BY <2>1 DEF LineInv, MealsFit
  <2>5. meals'[s] = arrivals[s] BY <1>0, <2>2, <2>3, <2>4
  <2> QED BY <1>1, <2>2, <2>4, <2>5 DEF LineInv, MealsFit
<1> QED BY <1>2, <1>3

\* Every step of the stages and of the event loop keeps the invariant.
LEMMA LineStepKeeps == LineInv /\ [LineNext]_lineVars => LineInv'
<1> SUFFICES ASSUME LineInv, [LineNext]_lineVars PROVE LineInv'
  OBVIOUS
<1>1. BarrierInv' BY LineStepIsBarrierStep, BarrierStepKeeps DEF LineInv
<1>2. ASSUME NEW s \in Stages, BarrierWait(s) PROVE LineInv'
  <2>1. UNCHANGED meals BY <1>2 DEF BarrierWait
  <2> QED BY <1>1, <1>2, <2>1, BarrierWaitFits DEF LineInv
<1>3. ASSUME NEW s \in Stages, Load(s) \/ Store(s) \/ Dine(s) \/ Finish(s) PROVE LineInv'
  BY <1>1, <1>3, RoundFits DEF LineInv
<1>4. CASE UNCHANGED <<pc, arrivals, at, meals>> BY <1>1, <1>4 DEF LineInv, MealsFit
<1>5. CASE Process \/ GetResult BY <1>4, <1>5 DEF Process, GetResult, barrier
<1>6. CASE UNCHANGED lineVars BY <1>4, <1>6 DEF lineVars, barrier
<1> QED BY <1>2, <1>3, <1>5, <1>6 DEF LineNext, Stage

\* Stages of one phase are at most one meal apart.
LEMMA LineInvInStep == LineInv => InStep
<1> SUFFICES ASSUME LineInv, NEW s \in Stages, NEW u \in Stages, at[s] # "barrier"
             PROVE  meals[u] \in {arrivals[s] - 1, arrivals[s]}
  BY DEF InStep
<1>1. PICK r \in Nat : \A t \in Threads :
          arrivals[t] = IF pc[t] = "asleep" THEN r + 1 ELSE r
  BY BarrierFacts DEF LineInv, InPhase
<1>2. pc[s] = "out" BY DEF LineInv, MealsFit
<1>3. arrivals[s] = r BY <1>1, <1>2 DEF Stages
<1>4. arrivals[u] = IF pc[u] = "asleep" THEN r + 1 ELSE r BY <1>1 DEF Stages
<1>5. meals[u] = IF at[u] = "barrier" /\ pc[u] = "out" THEN arrivals[u] ELSE arrivals[u] - 1
  BY DEF LineInv, MealsFit
<1>6. at[u] # "barrier" => pc[u] = "out" BY DEF LineInv, MealsFit
<1> QED BY <1>3, <1>4, <1>5, <1>6

\* assembly_line_init: every stage is before its first barrier.
LEMMA LineInitInv == LineInit => LineInv
<1> SUFFICES ASSUME LineInit PROVE LineInv
  OBVIOUS
<1>1. BarrierInv BY BarrierInitInv DEF LineInit
<1>2. \A s \in Stages : pc[s] = "out" /\ arrivals[s] = 0 /\ at[s] = "barrier" /\ meals[s] = 0
  BY DEF LineInit, Init, Stages
<1>3. at \in [Stages -> LineLabels] /\ meals \in [Stages -> Nat]
  BY DEF LineInit, LineLabels
<1> QED BY <1>1, <1>2, <1>3 DEF LineInv, MealsFit

\* The stages of assembly_line.c stay in step for any number of them: nobody
\* starts a round while another is more than one behind.
THEOREM StagesInStep == LineSpec => []InStep
BY LineInitInv, LineStepKeeps, LineInvInStep, PTL DEF LineSpec
==============================================================================
