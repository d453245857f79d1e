----------------------- MODULE MigrationRunnerProofs -----------------------
(* The lock keeps deployers apart, a migration in one transaction is       *)
(* applied if and only if it is recorded, and an update that succeeds has  *)
(* met its goal: proved for any number of deployers, whatever migrations   *)
(* each of them finds in its files.                                        *)
EXTENDS MigrationRunner, SequenceTheorems, FiniteSetTheorems, WellFoundedInduction, TLAPS

Unstarted == {"idle", "locking", "planning"}
Pcs == Unstarted \cup {"running", "releasing", "closing"}

\* The types the argument needs; of plans and goals it needs none.
Shape ==
  /\ deployment \in Deployments
  /\ holder \in Runners \cup {NoRunner}
  /\ pc \in [Runners -> Pcs]
  /\ next = [r \in Runners |-> next[r]]
  /\ plan = [r \in Runners |-> plan[r]]

\* A plan is either at the first statement of its first step or past the last,
\* if no statement of that step suppresses transactions: all of it is one batch.
Boundary(n, steps) ==
  \A m \in Migrations :
    steps # <<>> /\ Transactional(m) /\ Head(steps).migration = m
      => n = 1 \/ n = Len(Suppressed[m]) + 2

AtBatchBoundary(r) ==
  /\ pc[r] \in Unstarted => next[r] = 1
  /\ Boundary(next[r], plan[r])

RInv == Shape /\ \A r \in Runners : AtBatchBoundary(r)

\* What is recorded of migration m is what is applied of it.
Exact(m, applied, recorded) ==
  Objects(m) \cap applied = IF m \in recorded THEN Objects(m) ELSE {}

-----------------------------------------------------------------------------
(* The executor *)

\* Without suppressed statements, a step has one batch: every statement on the
\* schema, and the one on the history.
LEMMA OneBatch ==
  ASSUME NEW m \in Migrations, Transactional(m), NEW step, step.migration = m
  PROVE  /\ Len(Statements(step)) = Len(Suppressed[m]) + 1
         /\ \A i \in 1 .. Len(Suppressed[m]) + 1 : Statements(step)[i] = FALSE
         /\ LastOfBatch(step, 1) = Len(Suppressed[m]) + 1
<1> DEFINE flags == Suppressed[m]
           n == Len(flags)
           ordered == IF step.direction = "up" THEN flags ELSE Reverse(flags)
<1>1. flags \in Seq(BOOLEAN) /\ n \in Nat
  BY MigrationRunnerAssumption
<1>2. \A i \in 1 .. n : flags[i] = FALSE
  BY <1>1 DEF Transactional
<1>3. Reverse(flags) \in Seq(BOOLEAN) /\ Len(Reverse(flags)) = n
      /\ \A i \in 1 .. n : Reverse(flags)[i] = FALSE
  BY <1>1, <1>2 DEF Reverse
<1>4. ordered \in Seq(BOOLEAN) /\ Len(ordered) = n /\ \A i \in 1 .. n : ordered[i] = FALSE
  BY <1>1, <1>2, <1>3
<1>5. Statements(step) = Append(ordered, FALSE)
  BY DEF Statements
<1>6. /\ Len(Statements(step)) = n + 1
      /\ \A i \in 1 .. n + 1 : Statements(step)[i] = FALSE
  <2> HIDE DEF ordered
  <2> QED BY <1>1, <1>4, <1>5
<1>7. LastOfBatch(step, 1) = n + 1
  <2> DEFINE K == {k \in 1 .. Len(Statements(step)) : \A j \in 1 .. k : ~Statements(step)[j]}
  <2>1. K = 1 .. n + 1
    BY <1>1, <1>6
  <2>2. LastOfBatch(step, 1) = Max(K)
    BY DEF LastOfBatch
  <2>3. n + 1 \in K /\ \A y \in K : n + 1 >= y
    BY <2>1, <1>1
  <2>4. ASSUME NEW x \in K, \A y \in K : x >= y PROVE x = n + 1
    <3>1. x \in Int /\ x <= n + 1
      BY <2>1, <1>1
    <3>2. x >= n + 1
      BY <2>3, <2>4
    <3> QED BY <3>1, <3>2, <1>1
  <2> HIDE DEF K
  <2>5. Max(K) = n + 1
    BY <2>3, <2>4, Zenon DEF Max
  <2> QED BY <2>2, <2>5
<1> QED BY <1>6, <1>7

\* The objects and the rows that the statements I of a step are about.
Touched(step, I) == {Object(step, i) : i \in {j \in I : ~OnHistory(step, j)}}
Rows(step, I) == {step.migration : i \in {j \in I : OnHistory(step, j)}}

\* The objects of a whole step, in either direction, are those of its migration.
LEMMA WholeStep ==
  ASSUME NEW m \in Migrations, Transactional(m), NEW step, step.migration = m
  PROVE  /\ Touched(step, 1 .. Len(Suppressed[m]) + 1) = Objects(m)
         /\ Rows(step, 1 .. Len(Suppressed[m]) + 1) = {m}
<1> DEFINE n == Len(Suppressed[m])
           I == 1 .. n + 1
<1>1. n \in Nat
  BY MigrationRunnerAssumption
<1>2. \A i \in I : OnHistory(step, i) <=> i = n + 1
  BY OneBatch DEF OnHistory
<1>3. {j \in I : ~OnHistory(step, j)} = 1 .. n
  BY <1>1, <1>2
<1>4. {j \in I : OnHistory(step, j)} = {n + 1}
  BY <1>1, <1>2
<1>5. {Object(step, i) : i \in 1 .. n} = Objects(m)
  <2>1. CASE step.direction = "up"
    BY <2>1 DEF Object, Objects
  <2>2. CASE step.direction # "up"
    <3>1. \A i \in 1 .. n : Object(step, i) = <<m, n + 1 - i>>
      BY <2>2 DEF Object
    <3>2. \A i \in 1 .. n : n + 1 - i \in 1 .. n /\ n + 1 - (n + 1 - i) = i
      BY <1>1
    <3>3. ASSUME NEW x \in Objects(m) PROVE x \in {Object(step, i) : i \in 1 .. n}
      <4>1. PICK i \in 1 .. n : x = <<m, i>>
        BY DEF Objects
      <4>2. x = Object(step, n + 1 - i)
        BY <4>1, <3>1, <3>2
      <4> QED BY <4>2, <3>2
    <3>4. ASSUME NEW i \in 1 .. n PROVE Object(step, i) \in Objects(m)
      BY <3>1, <3>2 DEF Objects
    <3> QED BY <3>3, <3>4
  <2> QED BY <2>1, <2>2
<1> QED BY <1>3, <1>4, <1>5 DEF Touched, Rows

\* A runner inside a step without suppressed statements sends all of it.
LEMMA WholeBatch ==
  ASSUME NEW r \in Runners, NEW m \in Migrations, Transactional(m),
         AtBatchBoundary(r), InStep(r), Current(r).migration = m
  PROVE  Batch(r) = 1 .. Len(Suppressed[m]) + 1
<1> DEFINE step == Current(r)
<1>1. Len(Suppressed[m]) \in Nat
  BY MigrationRunnerAssumption
<1>2. /\ Len(Statements(step)) = Len(Suppressed[m]) + 1
      /\ \A i \in 1 .. Len(Suppressed[m]) + 1 : Statements(step)[i] = FALSE
      /\ LastOfBatch(step, 1) = Len(Suppressed[m]) + 1
  BY OneBatch, Zenon
<1>3. next[r] = 1
  <2>1. next[r] = 1 \/ next[r] = Len(Suppressed[m]) + 2
    BY DEF AtBatchBoundary, Boundary, InStep, Running, Current
  <2>2. next[r] <= Len(Statements(step))
    BY DEF InStep
  <2> QED BY <1>1, <1>2, <2>1, <2>2
<1>4. Statements(step)[1] = FALSE
  BY <1>1, <1>2
<1> QED BY <1>2, <1>3, <1>4 DEF Batch

LEMMA MaxOfInterval == \A n \in Nat : Max(1 .. n + 1) = n + 1
<1> SUFFICES ASSUME NEW n \in Nat PROVE Max(1 .. n + 1) = n + 1
  OBVIOUS
<1> DEFINE K == 1 .. n + 1
<1>1. n + 1 \in K /\ \A y \in K : n + 1 >= y
  OBVIOUS
<1>2. ASSUME NEW x \in K, \A y \in K : x >= y PROVE x = n + 1
  BY <1>1, <1>2
<1> HIDE DEF K
<1>3. Max(K) = n + 1
  BY <1>1, <1>2, Zenon DEF Max
<1> QED BY <1>3 DEF K

\* A batch of any step leaves every transactional migration exact: it is the
\* whole of this migration, or nothing of it.
LEMMA BatchIsExact ==
  ASSUME NEW r \in Runners, NEW m \in Migrations, Transactional(m),
         AtBatchBoundary(r), InStep(r), Effects(Current(r), Batch(r)),
         Exact(m, schema, history)
  PROVE  Exact(m, schema', history')
<1> DEFINE step == Current(r)
           objects == Touched(step, Batch(r))
           rows == Rows(step, Batch(r))
<1>1. \/ schema' = schema \cup objects /\ history' = history \cup rows
      \/ schema' = schema \ objects /\ history' = history \ rows
  BY DEF Effects, Touched, Rows
<1>2. CASE step.migration = m
  <2>2. Batch(r) = 1 .. Len(Suppressed[m]) + 1
    BY <1>2, WholeBatch
  <2>3. objects = Objects(m) /\ rows = {m}
    BY <1>2, <2>2, WholeStep, Zenon
  <2> QED BY <1>1, <2>3 DEF Exact
<1>3. CASE step.migration # m
  <2>1. Objects(m) \cap objects = {}
    BY <1>3 DEF Touched, Objects, Object
  <2>2. m \notin rows
    BY <1>3 DEF Rows
  <2> QED BY <1>1, <2>1, <2>2 DEF Exact
<1> QED BY <1>2, <1>3

-----------------------------------------------------------------------------
(* The calls of a runner stay at the boundaries of their batches *)

LEMMA InitRInv == Init => RInv
<1> SUFFICES ASSUME Init PROVE RInv
  OBVIOUS
<1>1. Shape
  BY DEF Init, Shape, Pcs, Unstarted
<1>2. ASSUME NEW r \in Runners PROVE AtBatchBoundary(r)
  BY DEF Init, AtBatchBoundary, Boundary
<1> QED BY <1>1, <1>2 DEF RInv

\* Runner r goes to p, with statement n of the plan steps next.
Moves(r, p, n, steps) ==
  /\ p \in Pcs
  /\ pc' = [pc EXCEPT ![r] = p]
  /\ next' = [next EXCEPT ![r] = n]
  /\ plan' = [plan EXCEPT ![r] = steps]
  /\ deployment' = deployment
  /\ holder' \in Runners \cup {NoRunner}

\* It keeps the invariant if that is a boundary.
LEMMA MoveKeepsRInv ==
  ASSUME RInv, NEW r \in Runners, NEW p, NEW n, NEW steps,
         Moves(r, p, n, steps), Boundary(n, steps), p \in Unstarted => n = 1
  PROVE  RInv'
<1>1. Shape'
  BY DEF RInv, Shape, Moves
<1>2. /\ pc'[r] = p /\ next'[r] = n /\ plan'[r] = steps
      /\ \A q \in Runners : q # r => pc'[q] = pc[q] /\ next'[q] = next[q] /\ plan'[q] = plan[q]
  BY DEF RInv, Shape, Moves
<1>3. ASSUME NEW q \in Runners PROVE AtBatchBoundary(q)'
  <2>1. CASE q = r
    BY <1>2, <2>1 DEF AtBatchBoundary, Boundary, Transactional
  <2>2. CASE q # r
    BY <1>2, <2>2 DEF RInv, AtBatchBoundary, Boundary, Transactional
  <2> QED BY <2>1, <2>2
<1> QED BY <1>1, <1>3 DEF RInv

\* A step that leaves plan and statement alone: what was a boundary is one
\* wherever the runner goes, unless it goes back to the start.
Walks(r, p) ==
  /\ p \in Pcs /\ Goes(r, p)
  /\ next' = next /\ plan' = plan /\ deployment' = deployment
  /\ holder' \in Runners \cup {NoRunner}

LEMMA GoKeepsRInv ==
  ASSUME RInv, NEW r \in Runners, NEW p, Walks(r, p),
         p \in Unstarted => pc[r] \in Unstarted
  PROVE  RInv'
<1>1. Moves(r, p, next[r], plan[r])
  BY DEF RInv, Shape, Moves, Walks, Goes
<1>2. Boundary(next[r], plan[r]) /\ (p \in Unstarted => next[r] = 1)
  BY DEF RInv, AtBatchBoundary
<1> QED BY <1>1, <1>2, MoveKeepsRInv

\* What goes wrong or ends a call: nothing is run, and the lock may change hands.
LEMMA GoingSteps ==
  ASSUME RInv, NEW r \in Runners,
         \/ Lock(r) \/ LockFails(r) \/ PlanIsRefused(r) \/ ExecuteFails(r)
         \/ PlanIsDone(r) \/ Release(r) \/ ReleaseFails(r)
  PROVE  RInv'
<1>0. holder \in Runners \cup {NoRunner}
  BY DEF RInv, Shape
<1>1. CASE Lock(r)
  <2>1. pc[r] \in Unstarted
    BY <1>1 DEF Lock, Unstarted
  <2>2. Walks(r, "running") \/ Walks(r, "planning")
    BY <1>0, <1>1 DEF Lock, Started, Goes, Walks, Pcs, Unstarted, progress
  <2> QED BY <2>1, <2>2, GoKeepsRInv
<1>2. CASE LockFails(r)
  <2>1. Walks(r, "closing")
    BY <1>0, <1>2 DEF LockFails, Walks, Pcs
  <2> QED BY <2>1, GoKeepsRInv DEF Unstarted
<1>3. CASE PlanIsRefused(r) \/ ExecuteFails(r) \/ PlanIsDone(r)
  <2>1. Walks(r, "releasing")
    BY <1>0, <1>3 DEF PlanIsRefused, ExecuteFails, PlanIsDone, Walks, Pcs, progress
  <2> QED BY <2>1, GoKeepsRInv DEF Unstarted
<1>4. CASE Release(r) \/ ReleaseFails(r)
  <2>1. Walks(r, "closing")
    BY <1>0, <1>4 DEF Release, ReleaseFails, Walks, Pcs, progress
  <2> QED BY <2>1, GoKeepsRInv DEF Unstarted
<1> QED BY <1>1, <1>2, <1>3, <1>4

\* What starts, plans, ends or abandons a call is at the first statement.
LEMMA StartingSteps ==
  ASSUME RInv, NEW r \in Runners, Call(r) \/ Plan(r) \/ SessionEnds(r) \/ Crash(r)
  PROVE  RInv'
<1>0. holder \in Runners \cup {NoRunner}
  BY DEF RInv, Shape
<1>1. CASE Call(r) \/ Plan(r)
  <2>1. next[r] = 1
    BY <1>1 DEF Call, Plan, RInv, AtBatchBoundary, Unstarted
  <2>2. next' = [next EXCEPT ![r] = 1]
    BY <1>1, <2>1 DEF Call, Plan, RInv, Shape
  <2>3. PICK steps : plan' = [plan EXCEPT ![r] = steps]
    <3>1. CASE Plan(r)
      BY <3>1 DEF Plan
    <3>2. CASE Call(r)
      <4>1. plan = [plan EXCEPT ![r] = plan[r]]
        BY DEF RInv, Shape
      <4> QED BY <3>2, <4>1 DEF Call, CallUpdate, CallDirect
    <3> QED BY <1>1, <3>1, <3>2
  <2>4. PICK p \in {"locking", "running"} : pc' = [pc EXCEPT ![r] = p]
    BY <1>1 DEF Call, Plan, Goes
  <2>5. Moves(r, p, 1, steps)
    BY <1>0, <1>1, <2>2, <2>3, <2>4 DEF Call, Plan, Moves, Pcs, Unstarted
  <2>6. Boundary(1, steps)
    BY DEF Boundary
  <2> QED BY <2>5, <2>6, MoveKeepsRInv
<1>2. CASE SessionEnds(r) \/ Crash(r)
  <2>1. Moves(r, "idle", 1, <<>>)
    BY <1>0, <1>2 DEF SessionEnds, Crash, LosesLock, Over, Goes, Moves, Pcs, Unstarted
  <2>2. Boundary(1, <<>>)
    BY DEF Boundary
  <2> QED BY <2>1, <2>2, MoveKeepsRInv
<1> QED BY <1>1, <1>2

\* The executor goes from one boundary to the next.
LEMMA RunningSteps ==
  ASSUME RInv, NEW r \in Runners, Execute(r) \/ StepIsDone(r)
  PROVE  RInv'
<1>1. pc' = [pc EXCEPT ![r] = "running"] /\ UNCHANGED <<holder, deployment>>
  BY DEF Execute, StepIsDone, InStep, Running, RInv, Shape
<1>2. holder' \in Runners \cup {NoRunner} /\ "running" \in Pcs
  BY <1>1 DEF RInv, Shape, Pcs
<1>3. CASE StepIsDone(r)
  <2>1. Moves(r, "running", 1, Tail(plan[r]))
    BY <1>1, <1>2, <1>3 DEF StepIsDone, Moves
  <2>2. Boundary(1, Tail(plan[r]))
    BY DEF Boundary
  <2> QED BY <2>1, <2>2, MoveKeepsRInv DEF Unstarted
<1>4. CASE Execute(r)
  <2>1. Moves(r, "running", Max(Batch(r)) + 1, plan[r])
    BY <1>1, <1>2, <1>4 DEF Execute, RInv, Shape, Moves
  <2>2. ASSUME NEW m \in Migrations, Transactional(m), Current(r).migration = m
        PROVE  Max(Batch(r)) + 1 = Len(Suppressed[m]) + 2
    <3>1. Batch(r) = 1 .. Len(Suppressed[m]) + 1
      BY <1>4, <2>2, WholeBatch DEF Execute, RInv
    <3>2. Len(Suppressed[m]) \in Nat
      BY MigrationRunnerAssumption
    <3> QED BY <3>1, <3>2, MaxOfInterval
  <2>3. Boundary(Max(Batch(r)) + 1, plan[r])
    BY <2>2 DEF Boundary, Current
  <2> QED BY <2>1, <2>3, MoveKeepsRInv DEF Unstarted
<1> QED BY <1>3, <1>4

LEMMA NextRInv == RInv /\ [Next]_vars => RInv'
<1> SUFFICES ASSUME RInv, [Next]_vars PROVE RInv'
  OBVIOUS
<1>1. CASE UNCHANGED vars
  BY <1>1 DEF vars, progress, RInv, Shape, AtBatchBoundary, Boundary, Transactional
<1>2. ASSUME NEW r \in Runners,
             Call(r) \/ Proceeds(r) \/ LockFails(r) \/ ReleaseFails(r) \/ Crash(r)
      PROVE  RInv'
  BY <1>2, GoingSteps, StartingSteps, RunningSteps DEF Proceeds
<1> QED BY <1>1, <1>2 DEF Next

-----------------------------------------------------------------------------
(* Whatever fails or crashes, and however many deployers race without a    *)
(* lock, a migration none of whose statements suppresses transactions is   *)
(* in the schema, whole, if and only if its row is in the history          *)
(* (migration-executor.ts:97).                                             *)
THEOREM AppliedIffRecorded == Spec => []HistoryIsExact
<1>1. Init => HistoryIsExact
  BY DEF Init, HistoryIsExact
<1>2. RInv /\ HistoryIsExact /\ [Next]_vars => HistoryIsExact'
  <2> SUFFICES ASSUME RInv, HistoryIsExact, [Next]_vars,
                      NEW m \in Migrations, Transactional(m)
               PROVE  Exact(m, schema', history')
    BY DEF HistoryIsExact, Exact, Transactional, Objects
  <2>1. Exact(m, schema, history)
    BY DEF HistoryIsExact, Exact
  <2>2. CASE UNCHANGED database
    BY <2>1, <2>2 DEF database, Exact
  <2>3. ASSUME NEW r \in Runners, InStep(r), Effects(Current(r), Batch(r))
        PROVE  Exact(m, schema', history')
    BY <2>1, <2>3, BatchIsExact DEF RInv
  <2>4. ASSUME NEW r \in Runners, Execute(r) \/ ExecuteFails(r)
        PROVE  Exact(m, schema', history')
    BY <2>2, <2>3, <2>4 DEF Execute, ExecuteFails
  <2>5. UNCHANGED database \/ \E r \in Runners : Execute(r) \/ ExecuteFails(r)
    <3>1. CASE UNCHANGED vars
      BY <3>1 DEF vars, database
    <3>2. ASSUME NEW r \in Runners,
                 Call(r) \/ Proceeds(r) \/ LockFails(r) \/ ReleaseFails(r) \/ Crash(r)
          PROVE  UNCHANGED database \/ Execute(r) \/ ExecuteFails(r)
      BY <3>2 DEF Proceeds, Call, Lock, LockFails, Plan, PlanIsRefused, StepIsDone,
                  PlanIsDone, Release, ReleaseFails, SessionEnds, Over, Crash
    <3> QED BY <3>1, <3>2 DEF Next
  <2> QED BY <2>2, <2>4, <2>5
<1> QED BY <1>1, <1>2, InitRInv, NextRInv, PTL DEF Spec

(* The deployer that plans or runs holds the provider's lock, and so is    *)
(* alone, also when acquisitions, releases and processes fail              *)
(* (migration-update-lock.ts:35).                                          *)
THEOREM OneDeployerAtATime == Spec => []RunnersExclude
<1>1. Init => RunnersExclude
  BY DEF Init, RunnersExclude
<1>2. RInv /\ RunnersExclude /\ [Next]_vars => RunnersExclude'
  <2> SUFFICES ASSUME RInv, RunnersExclude, [Next]_vars, deployment'.locks,
                      NEW q \in Runners, pc'[q] \in {"planning", "running"}
               PROVE  holder' = q
    BY DEF RunnersExclude
  <2>0. /\ UNCHANGED deployment
        /\ deployment.locks
        /\ \A r \in Runners : pc[r] \in {"planning", "running"} => holder = r
        /\ pc \in [Runners -> Pcs] /\ q # NoRunner
    <3>1. UNCHANGED deployment
      BY DEF Next, vars, Proceeds, Call, Lock, LockFails, Plan, PlanIsRefused, Execute,
             ExecuteFails, StepIsDone, PlanIsDone, Release, ReleaseFails, SessionEnds,
             Over, Crash
    <3> QED BY <3>1, MigrationRunnerAssumption DEF RunnersExclude, RInv, Shape
  <2>1. CASE UNCHANGED vars
    BY <2>0, <2>1 DEF vars
  <2>2. ASSUME NEW r \in Runners, Lock(r) \/ LockFails(r)
        PROVE  holder' = q
    <3>1. holder = NoRunner \/ (holder' = holder /\ LockFails(r))
      BY <2>0, <2>2 DEF Lock, LockFails
    <3>2. q # r => pc[q] \in {"planning", "running"}
      BY <2>0, <2>2 DEF Lock, LockFails, Started, Goes
    <3>3. LockFails(r) => pc'[r] = "closing"
      BY <2>0 DEF LockFails, Goes
    <3>4. Lock(r) => holder' = r
      BY <2>0 DEF Lock
    <3> QED BY <2>0, <2>2, <3>1, <3>2, <3>3, <3>4
  <2>3. ASSUME NEW r \in Runners, Release(r) \/ SessionEnds(r) \/ Crash(r)
        PROVE  holder' = q
    <3>1. pc'[r] \in {"closing", "idle"} /\ (q # r => pc[q] = pc'[q])
      BY <2>0, <2>3 DEF Release, SessionEnds, Crash, Over, Goes
    <3>2. q # r /\ holder = q
      BY <2>0, <3>1
    <3> QED BY <2>3, <3>2 DEF Release, SessionEnds, Crash, LosesLock
  <2>4. ASSUME NEW r \in Runners,
               \/ Call(r) \/ Plan(r) \/ PlanIsRefused(r) \/ Execute(r) \/ ExecuteFails(r)
               \/ StepIsDone(r) \/ PlanIsDone(r) \/ ReleaseFails(r)
        PROVE  holder' = q
    <3>1. UNCHANGED holder
      BY <2>4 DEF Call, Plan, PlanIsRefused, Execute, ExecuteFails, StepIsDone,
                  PlanIsDone, ReleaseFails
    <3>2. pc[q] \in {"planning", "running"}
      BY <2>0, <2>4 DEF Call, Plan, PlanIsRefused, Execute, ExecuteFails, StepIsDone,
                  PlanIsDone, ReleaseFails, Goes
    <3> QED BY <2>0, <3>1, <3>2
  <2> QED BY <2>1, <2>2, <2>3, <2>4 DEF Next, Proceeds
<1> QED BY <1>1, <1>2, InitRInv, NextRInv, PTL DEF Spec

-----------------------------------------------------------------------------
(* Finite sets of numbers, in order                                        *)

LEMMA LeastElement ==
  ASSUME NEW T, T \subseteq Nat, T # {}
  PROVE  \E x \in T : \A y \in T : x <= y
<1> DEFINE R == OpToRel(<, Nat)
<1>1. IsWellFoundedOn(R, Nat)
  BY NatLessThanWellFounded
<1>2. \A x, y \in Nat : <<y, x>> \in R <=> y < x
  BY DEF OpToRel
<1> HIDE DEF R
<1>3. PICK x \in T : \A y \in T : ~ (<<y, x>> \in R)
  BY <1>1, WFMin
<1>4. \A y \in T : y \in Nat /\ ~(y < x)
  BY <1>2, <1>3
<1>5. \A y \in T : x <= y
  BY <1>4
<1> QED
  BY <1>5

\* A finite set of numbers has a largest one: a smallest counterexample would
\* be one after it loses an element.
LEMMA LargestElement ==
  ASSUME NEW T, T \subseteq Nat, T # {}, IsFiniteSet(T)
  PROVE  Max(T) \in T /\ \A y \in T : Max(T) >= y
<1> DEFINE HasLargest(S) == \E x \in S : \A y \in S : x >= y
           Bad == {n \in Nat : \E S \in SUBSET T : Cardinality(S) = n /\ S # {} /\ ~HasLargest(S)}
<1>1. \A S \in SUBSET T : IsFiniteSet(S) /\ Cardinality(S) \in Nat
  BY FS_Subset, FS_CardinalityType
<1>2. Bad = {}
  <2> SUFFICES ASSUME Bad # {} PROVE FALSE
    OBVIOUS
  <2>0. Bad \subseteq Nat
    OBVIOUS
  <2>1. PICK n \in Bad : \A k \in Bad : n <= k
    <3> HIDE DEF Bad
    <3> QED
      BY <2>0, LeastElement
  <2>2. PICK S \in SUBSET T : Cardinality(S) = n /\ S # {} /\ ~HasLargest(S)
    BY <2>1
  <2>3. PICK x : x \in S
    BY <2>2
  <2> DEFINE U == S \ {x}
  <2>4. U \in SUBSET T /\ x \in Nat
    BY <2>3
  <2>5. Cardinality(U) = n - 1 /\ n \in Nat
    BY <1>1, <2>1, <2>2, <2>3, FS_RemoveElement
  <2>6. U = {} \/ HasLargest(U)
    <3> SUFFICES ASSUME U # {}, ~HasLargest(U) PROVE FALSE
      BY Zenon
    <3>1. Cardinality(U) \in Bad
      BY <1>1, <2>4
    <3>2. n <= Cardinality(U)
      <4> HIDE DEF Bad, U
      <4> QED
        BY <2>1, <3>1
    <3> HIDE DEF Bad, U
    <3> QED
      BY <2>5, <3>2
  <2>7. CASE U = {}
    <3>1. S = {x}
      BY <2>3, <2>7
    <3> QED
      BY <2>2, <2>4, <3>1
  <2>8. CASE HasLargest(U)
    <3>1. PICK z \in U : \A y \in U : z >= y
      BY <2>8
    <3>2. z \in Nat /\ z \in S
      BY <2>4, <3>1
    <3>3. CASE z >= x
      <4>1. \A y \in S : z >= y
        BY <3>1, <3>3
      <4> QED
        BY <2>2, <3>2, <4>1
    <3>4. CASE x >= z
      <4>1. ASSUME NEW y \in S PROVE x >= y
        <5>1. CASE y = x
          BY <5>1, <2>4
        <5>2. CASE y \in U
          <6>1. y \in Nat /\ z >= y
            BY <5>2, <2>4, <3>1
          <6> QED
            BY <3>2, <3>4, <6>1, <2>4
        <5> QED
          BY <5>1, <5>2
      <4> QED
        BY <2>2, <2>3, <4>1
    <3> QED
      BY <2>4, <3>2, <3>3, <3>4
  <2> QED
    BY <2>6, <2>7, <2>8
<1>3. HasLargest(T)
  <2>1. Cardinality(T) \in Nat
    BY <1>1
  <2>2. Cardinality(T) \notin Bad
    BY <1>2
  <2> QED
    BY <2>1, <2>2
<1>4. \E m \in T : \A y \in T : m >= y
  BY <1>3
<1> QED
  BY <1>4, Zenon DEF Max

\* s lists S from the smallest to the largest.
Sorts(s, S) ==
  /\ s \in [1 .. Cardinality(S) -> S]
  /\ \A i, j \in 1 .. Cardinality(S) : i < j => s[i] < s[j]

LEMMA SortedExists ==
  ASSUME NEW T, T \subseteq Nat, IsFiniteSet(T)
  PROVE  \E s : Sorts(s, T)
<1> DEFINE Bad == {n \in Nat : \E S \in SUBSET T : Cardinality(S) = n /\ ~\E s : Sorts(s, S)}
<1>1. \A S \in SUBSET T : IsFiniteSet(S) /\ Cardinality(S) \in Nat
  BY FS_Subset, FS_CardinalityType
<1>2. Bad = {}
  <2> SUFFICES ASSUME Bad # {} PROVE FALSE
    OBVIOUS
  <2>0. Bad \subseteq Nat
    OBVIOUS
  <2>1. PICK n \in Bad : \A k \in Bad : n <= k
    <3> HIDE DEF Bad
    <3> QED
      BY <2>0, LeastElement
  <2>2. PICK S \in SUBSET T : Cardinality(S) = n /\ ~\E s : Sorts(s, S)
    BY <2>1
  <2>3. n \in Nat /\ IsFiniteSet(S)
    BY <1>1, <2>1
  <2>4. S # {}
    <3> SUFFICES ASSUME S = {} PROVE FALSE
      OBVIOUS
    <3>1. Cardinality(S) = 0
      BY FS_EmptySet
    <3>2. Sorts([i \in 1 .. 0 |-> 0], S)
      BY <3>1 DEF Sorts
    <3> QED
      BY <2>2, <3>2
  <2> DEFINE x == Max(S)
             U == S \ {x}
  <2>5. x \in S /\ \A y \in S : x >= y
    BY <2>3, <2>4, LargestElement
  <2>6. Cardinality(U) = n - 1 /\ n - 1 \in Nat
    <3>1. Cardinality(U) = n - 1
      BY <2>2, <2>3, <2>5, FS_RemoveElement
    <3>2. Cardinality(U) \in Nat
      BY <1>1
    <3> QED
      BY <3>1, <3>2
  <2> HIDE DEF x
  <2>7. \A y \in U : y < x
    BY <2>5
  <2>8. PICK s : Sorts(s, U)
    <3>1. n - 1 \notin Bad
      BY <2>1, <2>3
    <3> QED
      BY <2>6, <3>1
  <2> DEFINE t == [i \in 1 .. n |-> IF i = n THEN x ELSE s[i]]
  <2>9. /\ s \in [1 .. n - 1 -> U]
        /\ \A i, j \in 1 .. n - 1 : i < j => s[i] < s[j]
    BY <2>6, <2>8 DEF Sorts
  <2>10. \A i \in 1 .. n - 1 : s[i] \in U /\ s[i] < x
    BY <2>7, <2>9
  <2>11. t \in [1 .. n -> S]
    BY <2>3, <2>5, <2>10
  <2>12. ASSUME NEW i \in 1 .. n, NEW j \in 1 .. n, i < j PROVE t[i] < t[j]
    <3>1. i \in 1 .. n - 1 /\ t[i] = s[i]
      BY <2>3, <2>12
    <3>2. CASE j = n
      BY <2>10, <3>1, <3>2
    <3>3. CASE j # n
      <4>1. j \in 1 .. n - 1 /\ t[j] = s[j]
        BY <2>3, <3>3
      <4> QED
        BY <2>9, <2>12, <3>1, <4>1
    <3> QED
      BY <3>2, <3>3
  <2>13. Sorts(t, S)
    <3> HIDE DEF t
    <3> QED
      BY <2>2, <2>11, <2>12 DEF Sorts
  <2> QED
    BY <2>2, <2>13
<1>3. Cardinality(T) \in Nat /\ Cardinality(T) \notin Bad
  BY <1>1, <1>2
<1> QED
  BY <1>3

LEMMA OrderedSorts ==
  ASSUME NEW S, S \subseteq Nat, IsFiniteSet(S)
  PROVE  /\ Len(Ordered(S)) \in Nat /\ Ordered(S) \in Seq(S)
         /\ \A i, j \in 1 .. Len(Ordered(S)) : i < j => Ordered(S)[i] < Ordered(S)[j]
         /\ S = {Ordered(S)[i] : i \in 1 .. Len(Ordered(S))}
<1> DEFINE n == Cardinality(S)
           s == Ordered(S)
<1>0. n \in Nat
  BY FS_CardinalityType
<1>1. Sorts(s, S)
  <2>1. \E t \in [1 .. n -> S] : \A i, j \in DOMAIN t : i < j => t[i] < t[j]
    <3>1. PICK t : Sorts(t, S)
      BY SortedExists
    <3> QED
      BY <3>1 DEF Sorts
  <2>2. s \in [1 .. n -> S] /\ \A i, j \in DOMAIN s : i < j => s[i] < s[j]
    BY <2>1, Zenon DEF Ordered
  <2> QED
    BY <2>2 DEF Sorts
<1>2. /\ s \in [1 .. n -> S]
      /\ \A i, j \in 1 .. n : i < j => s[i] < s[j]
  BY <1>1 DEF Sorts
<1> HIDE DEF s, n
<1>3. s \in Seq(S) /\ Len(s) = n
  BY <1>0, <1>2
<1>4. s \in Injection(1 .. n, S)
  <2>1. ASSUME NEW i \in 1 .. n, NEW j \in 1 .. n, s[i] = s[j] PROVE i = j
    <3>1. s[i] \in Nat /\ s[j] \in Nat
      BY <1>2
    <3>2. CASE i < j
      BY <1>2, <2>1, <3>1, <3>2
    <3>3. CASE j < i
      BY <1>2, <2>1, <3>1, <3>3
    <3> QED
      BY <1>0, <3>2, <3>3
  <2> QED
    BY <1>2, <2>1 DEF Injection, IsInjective
<1>5. IsFiniteSet(1 .. n) /\ Cardinality(1 .. n) = n
  <2>1. IsFiniteSet(1 .. n) /\ Cardinality(1 .. n) = IF 1 > n THEN 0 ELSE n - 1 + 1
    BY <1>0, FS_Interval
  <2> QED
    BY <1>0, <2>1
<1>6. s \in Surjection(1 .. n, S)
  BY <1>4, <1>5, FS_Injection DEF n
<1>7. \A y \in S : \E i \in 1 .. n : s[i] = y
  BY <1>6 DEF Surjection
<1>8. S = {s[i] : i \in 1 .. n}
  BY <1>2, <1>7
<1> QED
  BY <1>0, <1>2, <1>3, <1>8 DEF s

-----------------------------------------------------------------------------
(* Plans *)

\* The steps list the migrations of S, each once, in direction d, in the order
\* in which that direction takes them.
Lists(steps, S, d) ==
  /\ steps \in Seq(Step)
  /\ \A i \in 1 .. Len(steps) : steps[i].direction = d
  /\ S = {steps[i].migration : i \in 1 .. Len(steps)}
  /\ \A i, j \in 1 .. Len(steps) :
       i < j => IF d = "up" THEN steps[i].migration < steps[j].migration
                            ELSE steps[j].migration < steps[i].migration

\* Nothing of the project that sorts before a recorded migration is missing.
Closed(r, h) ==
  h \subseteq Project[r] /\ \A m \in Project[r], x \in h : m <= x => m \in h

\* The steps take the history from h to g.
Leads(r, steps, h, g) ==
  /\ Closed(r, h) /\ Closed(r, g)
  /\ \E S \in SUBSET Migrations :
       \/ Lists(steps, S, "up") /\ h \cap S = {} /\ g = h \cup S
       \/ Lists(steps, S, "down") /\ g \cap S = {} /\ h = g \cup S

LEMMA MigrationSets ==
  ASSUME NEW S, S \subseteq Migrations
  PROVE  S \subseteq Nat /\ 0 \notin S /\ IsFiniteSet(S)
BY MigrationRunnerAssumption, FS_Subset

LEMMA UpwardsLists ==
  ASSUME NEW S, S \subseteq Migrations
  PROVE  Lists(Upwards(S), S, "up")
<1> DEFINE s == Ordered(S)
           n == Len(s)
           u == Upwards(S)
<1>1. /\ n \in Nat /\ s \in Seq(S)
      /\ \A i, j \in 1 .. n : i < j => s[i] < s[j]
      /\ S = {s[i] : i \in 1 .. n}
  BY MigrationSets, OrderedSorts
<1>2. u = [i \in 1 .. n |-> [migration |-> s[i], direction |-> "up"]]
  BY DEF Upwards
<1> HIDE DEF s, n, u
<1>3. \A i \in 1 .. n : s[i] \in Migrations
  BY <1>1
<1>4. \A i \in 1 .. n : [migration |-> s[i], direction |-> "up"] \in Step
  BY <1>3 DEF Step
<1>5. u \in Seq(Step) /\ Len(u) = n
  BY <1>1, <1>2, <1>4
<1>6. \A i \in 1 .. n : u[i].migration = s[i] /\ u[i].direction = "up"
  BY <1>2
<1>7. S = {u[i].migration : i \in 1 .. n}
  BY <1>1, <1>6
<1>8. \A i, j \in 1 .. n : i < j => u[i].migration < u[j].migration
  BY <1>1, <1>6
<1>9. Lists(u, S, "up")
  BY <1>5, <1>6, <1>7, <1>8 DEF Lists
<1> QED
  BY <1>9 DEF u

LEMMA DownwardsLists ==
  ASSUME NEW S, S \subseteq Migrations
  PROVE  Lists(Downwards(S), S, "down")
<1> DEFINE s == Ordered(S)
           n == Len(s)
           v == [i \in 1 .. n |-> [migration |-> s[i], direction |-> "down"]]
           u == Downwards(S)
<1>1. /\ n \in Nat /\ s \in Seq(S)
      /\ \A i, j \in 1 .. n : i < j => s[i] < s[j]
      /\ S = {s[i] : i \in 1 .. n}
  BY MigrationSets, OrderedSorts
<1>2. u = [i \in 1 .. Len(v) |-> v[Len(v) - i + 1]]
  BY DEF Downwards, Reverse
<1>3. v = [i \in 1 .. n |-> [migration |-> s[i], direction |-> "down"]]
  OBVIOUS
<1> HIDE DEF s, n, u, v
<1>4. Len(v) = n
  BY <1>1, <1>3
<1>5. \A i \in 1 .. n : n - i + 1 \in 1 .. n /\ n - (n - i + 1) + 1 = i
  BY <1>1
<1>6. \A i \in 1 .. n : s[i] \in Migrations
  BY <1>1
<1>7. \A i \in 1 .. n : u[i] = [migration |-> s[n - i + 1], direction |-> "down"]
  BY <1>2, <1>3, <1>4, <1>5
<1>8. u \in Seq(Step) /\ Len(u) = n
  <2>1. ASSUME NEW i \in 1 .. n PROVE u[i] \in Step
    <3>1. s[n - i + 1] \in Migrations
      BY <1>5, <1>6
    <3>2. [migration |-> s[n - i + 1], direction |-> "down"] \in Step
      BY <3>1 DEF Step
    <3>3. u[i] = [migration |-> s[n - i + 1], direction |-> "down"]
      BY <1>7
    <3> QED
      BY <3>2, <3>3
  <2>2. u = [i \in 1 .. n |-> u[i]]
    BY <1>2, <1>4
  <2> QED
    BY <1>1, <2>1, <2>2
<1>9. ASSUME NEW i \in 1 .. n
      PROVE  u[i].migration = s[n - i + 1] /\ u[i].direction = "down"
  <2>1. u[i] = [migration |-> s[n - i + 1], direction |-> "down"]
    BY <1>7
  <2> QED
    BY <2>1
<1>10. S = {u[i].migration : i \in 1 .. n}
  <2>1. ASSUME NEW i \in 1 .. n PROVE s[i] \in {u[j].migration : j \in 1 .. n}
    <3>1. n - i + 1 \in 1 .. n /\ n - (n - i + 1) + 1 = i
      BY <1>5
    <3>2. u[n - i + 1].migration = s[i]
      BY <1>9, <3>1
    <3> QED
      BY <3>1, <3>2
  <2>2. ASSUME NEW i \in 1 .. n PROVE u[i].migration \in S
    BY <1>1, <1>5, <1>9
  <2> QED
    BY <1>1, <2>1, <2>2
<1>11. ASSUME NEW i \in 1 .. n, NEW j \in 1 .. n, i < j
       PROVE  u[j].migration < u[i].migration
  <2>1. n - j + 1 < n - i + 1
    BY <1>1, <1>11
  <2>2. s[n - j + 1] < s[n - i + 1]
    BY <1>1, <1>5, <2>1
  <2> QED
    BY <1>9, <2>2
<1>12. Lists(u, S, "down")
  BY <1>8, <1>9, <1>10, <1>11 DEF Lists
<1> QED
  BY <1>12 DEF u

\* The first step of a plan is the outermost migration, and the rest is a plan
\* for the others.
LEMMA RestOfPlan ==
  ASSUME NEW steps, NEW S, S \subseteq Migrations, NEW d \in {"up", "down"},
         Lists(steps, S, d), steps # <<>>
  PROVE  LET m == Head(steps).migration IN
         /\ m \in S /\ Head(steps).direction = d
         /\ \A x \in S : IF d = "up" THEN m <= x ELSE x <= m
         /\ Lists(Tail(steps), S \ {m}, d)
<1> DEFINE n == Len(steps)
           m == steps[1].migration
           t == Tail(steps)
<1>1. /\ steps \in Seq(Step)
      /\ \A i \in 1 .. n : steps[i].direction = d
      /\ S = {steps[i].migration : i \in 1 .. n}
      /\ \A i, j \in 1 .. n :
           i < j => IF d = "up" THEN steps[i].migration < steps[j].migration
                                ELSE steps[j].migration < steps[i].migration
  BY DEF Lists
<1>2. n \in Nat \ {0} /\ Head(steps) = steps[1]
  BY <1>1
<1>3. t \in Seq(Step) /\ Len(t) = n - 1 /\ \A i \in 1 .. n - 1 : t[i] = steps[i + 1]
  BY <1>1
<1>4. S \subseteq Nat
  BY MigrationSets
<1> HIDE DEF n, t, m
<1>5. 1 \in 1 .. n /\ \A i \in 1 .. n - 1 : i + 1 \in 1 .. n /\ 1 < i + 1
  BY <1>2
<1>6. \A i \in 1 .. n : i # 1 => i - 1 \in 1 .. n - 1 /\ t[i - 1] = steps[i] /\ 1 < i
  BY <1>2, <1>3
<1>7. m \in S /\ Head(steps).direction = d /\ Head(steps).migration = m
  BY <1>1, <1>2, <1>5 DEF m
<1>8. \A i \in 1 .. n : i # 1 => IF d = "up" THEN m < steps[i].migration
                                            ELSE steps[i].migration < m
  BY <1>1, <1>5, <1>6 DEF m
<1>9. \A i \in 1 .. n : steps[i].migration \in Nat
  BY <1>1, <1>4
<1>10. \A x \in S : IF d = "up" THEN m <= x ELSE x <= m
  <2>1. ASSUME NEW i \in 1 .. n
        PROVE  IF d = "up" THEN m <= steps[i].migration ELSE steps[i].migration <= m
    <3>1. CASE i = 1
      BY <1>9, <3>1 DEF m
    <3>2. CASE i # 1
      <4>1. m \in Nat /\ steps[i].migration \in Nat
        BY <1>4, <1>7, <1>9
      <4> QED
        BY <1>8, <3>2, <4>1
    <3> QED
      BY <3>1, <3>2
  <2> QED
    BY <1>1, <2>1
<1>11. S \ {m} = {t[i].migration : i \in 1 .. n - 1}
  <2>1. ASSUME NEW x \in S \ {m} PROVE x \in {t[i].migration : i \in 1 .. n - 1}
    <3>1. PICK i \in 1 .. n : x = steps[i].migration
      BY <1>1
    <3>2. i # 1
      BY <3>1 DEF m
    <3> QED
      BY <1>6, <3>1, <3>2
  <2>2. ASSUME NEW i \in 1 .. n - 1 PROVE t[i].migration \in S \ {m}
    <3>1. t[i] = steps[i + 1] /\ i + 1 \in 1 .. n /\ i + 1 # 1
      BY <1>2, <1>3, <1>5
    <3>2. t[i].migration \in S
      BY <1>1, <3>1
    <3>3. IF d = "up" THEN m < t[i].migration ELSE t[i].migration < m
      BY <1>8, <3>1
    <3>4. m \in Nat /\ t[i].migration \in Nat
      BY <1>4, <1>7, <3>2
    <3>5. t[i].migration # m
      BY <3>3, <3>4
    <3> QED
      BY <3>2, <3>5
  <2> QED
    BY <2>1, <2>2
<1>12. \A i \in 1 .. n - 1 : t[i].direction = d
  BY <1>1, <1>3, <1>5
<1>13. ASSUME NEW i \in 1 .. n - 1, NEW j \in 1 .. n - 1, i < j
       PROVE  IF d = "up" THEN t[i].migration < t[j].migration
                          ELSE t[j].migration < t[i].migration
  <2>1. i + 1 \in 1 .. n /\ j + 1 \in 1 .. n /\ i + 1 < j + 1
    BY <1>5, <1>13
  <2> QED
    BY <1>1, <1>3, <2>1
<1>14. Lists(t, S \ {m}, d)
  BY <1>3, <1>11, <1>12, <1>13 DEF Lists
<1> QED
  BY <1>7, <1>10, <1>14, Zenon DEF t

\* What a step does to the history when it is recorded.
Recorded(step, h) ==
  IF step.direction = "up" THEN h \cup {step.migration} ELSE h \ {step.migration}

LEMMA StepLeadsOn ==
  ASSUME NEW r \in Runners, NEW steps, NEW h, NEW g, Leads(r, steps, h, g), steps # <<>>
  PROVE  Leads(r, Tail(steps), Recorded(Head(steps), h), g)
<1> DEFINE m == Head(steps).migration
           k == Recorded(Head(steps), h)
<1>0. Project[r] \subseteq Nat /\ h \subseteq Project[r] /\ g \subseteq Project[r]
  BY MigrationRunnerAssumption DEF Leads, Closed
<1>1. PICK S \in SUBSET Migrations :
        \/ Lists(steps, S, "up") /\ h \cap S = {} /\ g = h \cup S
        \/ Lists(steps, S, "down") /\ g \cap S = {} /\ h = g \cup S
  BY DEF Leads
<1>2. CASE Lists(steps, S, "up") /\ h \cap S = {} /\ g = h \cup S
  <2>1. /\ m \in S /\ Head(steps).direction = "up"
        /\ \A x \in S : m <= x
        /\ Lists(Tail(steps), S \ {m}, "up")
    BY <1>2, RestOfPlan
  <2>2. k = h \cup {m}
    BY <2>1 DEF Recorded
  <2>3. ASSUME NEW p \in Project[r], NEW x \in k, p <= x PROVE p \in k
    <3>1. CASE x \in h
      BY <2>2, <2>3, <3>1 DEF Leads, Closed
    <3>2. CASE x = m
      <4>1. p \in g
        BY <1>2, <2>1, <2>3, <3>2 DEF Leads, Closed
      <4>2. CASE p \in S
        <5>1. m <= p /\ m \in Nat /\ p \in Nat
          BY <1>0, <1>2, <2>1, <4>2
        <5>2. p = m
          BY <2>3, <3>2, <5>1
        <5> QED
          BY <2>2, <5>2
      <4> QED
        BY <1>2, <2>2, <4>1, <4>2
    <3> QED
      BY <2>2, <3>1, <3>2
  <2>4. Closed(r, k)
    BY <1>0, <1>2, <2>1, <2>2, <2>3 DEF Closed
  <2>5. k \cap (S \ {m}) = {} /\ g = k \cup (S \ {m}) /\ S \ {m} \in SUBSET Migrations
    BY <1>2, <2>1, <2>2
  <2> QED
    BY <2>1, <2>4, <2>5 DEF Leads
<1>3. CASE Lists(steps, S, "down") /\ g \cap S = {} /\ h = g \cup S
  <2>1. /\ m \in S /\ Head(steps).direction = "down"
        /\ \A x \in S : x <= m
        /\ Lists(Tail(steps), S \ {m}, "down")
    BY <1>3, RestOfPlan
  <2>2. k = h \ {m}
    BY <2>1 DEF Recorded
  <2>3. ASSUME NEW p \in Project[r], NEW x \in k, p <= x PROVE p \in k
    <3>1. p \in h
      BY <2>2, <2>3 DEF Leads, Closed
    <3>2. SUFFICES ASSUME p = m PROVE FALSE
      BY <2>2, <3>1
    <3>3. CASE x \in g
      <4>1. m \in g
        BY <2>3, <3>2, <3>3 DEF Leads, Closed
      <4> QED
        BY <1>3, <2>1, <4>1
    <3>4. CASE x \in S
      <4>1. x <= m /\ m <= x /\ m \in Nat /\ x \in Nat
        BY <1>0, <1>3, <2>1, <2>3, <3>2, <3>4
      <4>2. x = m
        BY <4>1
      <4> QED
        BY <2>2, <4>2
    <3> QED
      BY <1>3, <2>2, <3>3, <3>4
  <2>4. Closed(r, k)
    BY <1>0, <2>2, <2>3 DEF Closed
  <2>5. g \cap (S \ {m}) = {} /\ k = g \cup (S \ {m}) /\ S \ {m} \in SUBSET Migrations
    BY <1>3, <2>1, <2>2
  <2> QED
    BY <2>1, <2>4, <2>5 DEF Leads
<1> QED
  BY <1>1, <1>2, <1>3

LEMMA PlanIsOver ==
  ASSUME NEW r, NEW h, NEW g, Leads(r, <<>>, h, g)
  PROVE  h = g
<1>1. PICK S \in SUBSET Migrations :
        /\ \E d \in {"up", "down"} : Lists(<<>>, S, d)
        /\ g = h \cup S \/ h = g \cup S
  BY DEF Leads
<1>2. S = {}
  BY <1>1 DEF Lists
<1> QED
  BY <1>1, <1>2

Top(h) == IF h = {} THEN 0 ELSE Max(h)

\* What is closed is all of the project up to its newest migration.
LEMMA ClosedIsAPrefix ==
  ASSUME NEW r \in Runners, NEW h, Closed(r, h)
  PROVE  Top(h) \in Nat /\ h = {m \in Project[r] : m <= Top(h)}
<1>1. h \subseteq Migrations /\ h \subseteq Project[r] /\ Project[r] \subseteq Migrations
  BY MigrationRunnerAssumption DEF Closed
<1>2. h \subseteq Nat /\ IsFiniteSet(h) /\ Project[r] \subseteq Nat \ {0}
  BY <1>1, MigrationSets, MigrationRunnerAssumption
<1>3. CASE h = {}
  BY <1>2, <1>3 DEF Top
<1>4. CASE h # {}
  <2>1. Top(h) \in h /\ \A x \in h : Top(h) >= x
    BY <1>2, <1>4, LargestElement DEF Top
  <2> QED
    BY <1>1, <1>2, <2>1 DEF Closed
<1> QED
  BY <1>3, <1>4

\* A plan leads from a history that fits the project to any goal.
LEMMA PlanLeads ==
  ASSUME NEW r \in Runners, HistoryIsKnown(r), Skipped(r) = {},
         NEW g, Closed(r, g)
  PROVE  Leads(r, SelectRange(Project[r], From, Top(g)), history, g)
<1> DEFINE P == Project[r]
           to == Top(g)
<1>1. P \subseteq Nat \ {0} /\ P \subseteq Migrations /\ history \subseteq P
  BY MigrationRunnerAssumption DEF HistoryIsKnown
<1>2. IsFiniteSet(history) /\ history \subseteq Nat
  BY <1>1, MigrationSets
<1>3. From \in Nat /\ (\A x \in history : From >= x) /\ (history # {} => From \in history)
  <2>1. CASE history = {}
    BY <2>1 DEF From
  <2>2. CASE history # {}
    BY <1>2, <2>2, LargestElement DEF From
  <2> QED
    BY <2>1, <2>2
<1>4. Closed(r, history)
  <2>1. ASSUME NEW m \in P, NEW x \in history, m <= x PROVE m \in history
    <3>1. m \in Nat /\ x \in Nat /\ m <= From /\ From \in history
      BY <1>1, <1>2, <1>3, <2>1
    <3>2. SUFFICES ASSUME m \notin history PROVE m < From
      BY DEF Skipped
    <3> QED
      BY <1>3, <3>1, <3>2
  <2> QED
    BY <1>1, <2>1 DEF Closed
<1>5. history = {m \in P : m <= From}
  <2>1. Top(history) = From
    BY DEF Top, From
  <2> QED
    BY <1>4, <2>1, ClosedIsAPrefix
<1>6. to \in Nat /\ g = {m \in P : m <= to}
  BY ClosedIsAPrefix
<1> HIDE DEF to
<1>7. CASE From <= to
  <2> DEFINE S == {m \in P : From < m /\ m <= to}
  <2>1. Lists(Upwards(S), S, "up") /\ S \in SUBSET Migrations
    BY <1>1, UpwardsLists
  <2>2. history \cap S = {} /\ g = history \cup S
    BY <1>1, <1>3, <1>5, <1>6, <1>7
  <2>3. SelectRange(P, From, to) = Upwards(S)
    BY <1>7 DEF SelectRange
  <2> QED
    BY <1>4, <2>1, <2>2, <2>3 DEF Leads, to
<1>8. CASE ~(From <= to)
  <2> DEFINE S == {m \in P : to < m /\ m <= From}
  <2>1. Lists(Downwards(S), S, "down") /\ S \in SUBSET Migrations
    BY <1>1, DownwardsLists
  <2>2. g \cap S = {} /\ history = g \cup S
    BY <1>1, <1>3, <1>5, <1>6, <1>8
  <2>3. SelectRange(P, From, to) = Downwards(S)
    BY <1>8 DEF SelectRange
  <2> QED
    BY <1>4, <2>1, <2>2, <2>3 DEF Leads, to
<1> QED
  BY <1>7, <1>8

-----------------------------------------------------------------------------
(* The executor and the plan *)

LEMMA StatementsOfStep ==
  ASSUME NEW step \in Step
  PROVE  LET n == Len(Suppressed[step.migration]) IN
         /\ n \in Nat /\ Len(Statements(step)) = n + 1
         /\ \A i \in 1 .. n + 1 : Statements(step)[i] \in BOOLEAN
<1> DEFINE flags == Suppressed[step.migration]
           n == Len(flags)
           ordered == IF step.direction = "up" THEN flags ELSE Reverse(flags)
<1>1. flags \in Seq(BOOLEAN) /\ n \in Nat
  <2>1. step.migration \in Migrations
    BY DEF Step
  <2>2. flags \in Seq(BOOLEAN)
    BY <2>1, MigrationRunnerAssumption
  <2> QED
    BY <2>2
<1>2. Reverse(flags) \in Seq(BOOLEAN) /\ Len(Reverse(flags)) = n
  BY <1>1 DEF Reverse
<1>3. ordered \in Seq(BOOLEAN) /\ Len(ordered) = n
  BY <1>1, <1>2
<1>4. Statements(step) = Append(ordered, FALSE)
  BY DEF Statements
<1> HIDE DEF ordered, n
<1>5. Statements(step) \in Seq(BOOLEAN) /\ Len(Statements(step)) = n + 1
  BY <1>1, <1>3, <1>4
<1> QED
  BY <1>1, <1>5 DEF n

\* A batch has a last statement, which is one of the step.
LEMMA LastOfBatchExists ==
  ASSUME NEW r \in Runners, plan \in [Runners -> Seq(Step)],
         next \in [Runners -> Nat \ {0}], InStep(r)
  PROVE  /\ Current(r) \in Step
         /\ Batch(r) \subseteq 1 .. Len(Statements(Current(r)))
         /\ Max(Batch(r)) \in Batch(r)
         /\ \A y \in Batch(r) : Max(Batch(r)) >= y
<1> DEFINE step == Current(r)
           N == Len(Statements(step))
           i == next[r]
           K == {k \in i .. N : \A j \in i .. k : ~Statements(step)[j]}
<1>1. step \in Step /\ i \in Nat \ {0} /\ i <= N
  <2>1. plan[r] \in Seq(Step) /\ plan[r] # <<>>
    BY DEF InStep, Running
  <2> QED
    BY <2>1 DEF InStep, Current
<1>2. N \in Nat
  BY <1>1, StatementsOfStep
<1> HIDE DEF step, N, i
<1>3. Batch(r) = IF Statements(step)[i] THEN {i} ELSE i .. Max(K)
  BY DEF Batch, LastOfBatch, step, N, i
<1>4. Batch(r) \subseteq 1 .. N /\ Batch(r) # {} /\ IsFiniteSet(Batch(r))
  <2>1. CASE Statements(step)[i]
    <3>1. Batch(r) = {i}
      BY <1>3, <2>1
    <3>2. IsFiniteSet({i})
      BY FS_Singleton
    <3>3. i \in 1 .. N
      BY <1>1, <1>2
    <3> QED
      BY <3>1, <3>2, <3>3
  <2>2. CASE ~Statements(step)[i]
    <3>1. i \in K /\ K \subseteq Nat /\ K \subseteq i .. N
      BY <1>1, <1>2, <2>2
    <3>2. IsFiniteSet(K)
      <4>1. IsFiniteSet(i .. N)
        BY <1>1, <1>2, FS_Interval
      <4> QED
        BY <3>1, <4>1, FS_Subset
    <3> DEFINE b == Max(K)
    <3>3. b \in K
      BY <3>1, <3>2, LargestElement
    <3> HIDE DEF b
    <3>4. b \in Nat /\ i <= b /\ b <= N
      BY <3>1, <3>3
    <3>5. IsFiniteSet(i .. b)
      BY <1>1, <3>4, FS_Interval
    <3>6. Batch(r) = i .. b
      BY <1>3, <2>2 DEF b
    <3>7. i .. b \subseteq 1 .. N /\ i \in i .. b
      BY <1>1, <1>2, <3>4
    <3> QED
      BY <3>5, <3>6, <3>7
  <2> QED
    BY <2>1, <2>2
<1>5. Batch(r) \subseteq Nat
  BY <1>2, <1>4
<1>6. Max(Batch(r)) \in Batch(r) /\ \A y \in Batch(r) : Max(Batch(r)) >= y
  BY <1>4, <1>5, LargestElement
<1> QED
  BY <1>1, <1>4, <1>6 DEF step, N

\* The history changes with the last statement of the step, and with no other;
\* every object belongs to a migration.
LEMMA EffectsOfBatch ==
  ASSUME NEW r \in Runners, plan \in [Runners -> Seq(Step)],
         next \in [Runners -> Nat \ {0}], InStep(r),
         Effects(Current(r), Batch(r)),
         schema \subseteq UNION {Objects(m) : m \in Migrations}
  PROVE  /\ history' = IF Max(Batch(r)) = Len(Statements(Current(r)))
                         THEN Recorded(Current(r), history) ELSE history
         /\ schema' \subseteq UNION {Objects(m) : m \in Migrations}
<1> DEFINE step == Current(r)
           N == Len(Statements(step))
           I == Batch(r)
           objects == Touched(step, I)
           rows == Rows(step, I)
<1>1. step \in Step /\ I \subseteq 1 .. N /\ Max(I) \in I /\ \A y \in I : Max(I) >= y
  BY LastOfBatchExists
<1>2. N \in Nat /\ N = Len(Suppressed[step.migration]) + 1
      /\ Len(Suppressed[step.migration]) \in Nat
  BY <1>1, StatementsOfStep
<1>3. IF step.direction = "up"
        THEN schema' = schema \cup objects /\ history' = history \cup rows
        ELSE schema' = schema \ objects /\ history' = history \ rows
  BY DEF Effects, Touched, Rows
<1>4. rows = IF Max(I) = N THEN {step.migration} ELSE {}
  <2> DEFINE top == Max(I)
  <2>0. I \subseteq 1 .. N /\ top \in I /\ (\A y \in I : top >= y) /\ N \in Nat
    BY <1>1, <1>2
  <2> HIDE DEF I, step, N, top
  <2>1. N \in I <=> top = N
    <3>1. top \in Nat /\ top <= N
      BY <2>0
    <3>2. ASSUME N \in I PROVE top = N
      <4>1. top >= N
        BY <2>0, <3>2
      <4> QED
        BY <2>0, <3>1, <4>1
    <3> QED
      BY <2>0, <3>2
  <2>2. {j \in I : OnHistory(step, j)} = IF N \in I THEN {N} ELSE {}
    BY DEF OnHistory, N
  <2> QED
    BY <2>1, <2>2 DEF Rows, top
<1>5. objects \subseteq Objects(step.migration)
  <2> HIDE DEF I, step
  <2>1. ASSUME NEW i \in I, ~OnHistory(step, i) PROVE Object(step, i) \in Objects(step.migration)
    <3> DEFINE n == Len(Suppressed[step.migration])
    <3>1. i \in 1 .. N /\ i # N /\ N = n + 1 /\ n \in Nat
      BY <1>1, <1>2, <2>1 DEF OnHistory
    <3> HIDE DEF n, N
    <3>2. i \in 1 .. n /\ n + 1 - i \in 1 .. n
      BY <3>1
    <3> QED
      BY <3>2 DEF Object, Objects, n
  <2> QED
    BY <2>1 DEF Touched
<1>6. step.migration \in Migrations
  BY <1>1 DEF Step
<1>7. history' = IF Max(I) = N THEN Recorded(step, history) ELSE history
  <2> HIDE DEF step, I, N, objects, rows
  <2> QED
    BY <1>3, <1>4 DEF Recorded
<1>8. schema' \subseteq UNION {Objects(m) : m \in Migrations}
  <2> HIDE DEF step, I, N, objects, rows
  <2> QED
    BY <1>3, <1>5, <1>6
<1> QED
  BY <1>7, <1>8

-----------------------------------------------------------------------------
(* Well-typed deployers *)

LEMMA PlansAreSteps ==
  ASSUME NEW r \in Runners, NEW a, NEW b
  PROVE  SelectRange(Project[r], a, b) \in Seq(Step)
<1>1. Project[r] \subseteq Migrations
  BY MigrationRunnerAssumption
<1> DEFINE U == {m \in Project[r] : a < m /\ m <= b}
           D == {m \in Project[r] : b < m /\ m <= a}
<1>2. Upwards(U) \in Seq(Step)
  BY <1>1, UpwardsLists DEF Lists
<1>3. Downwards(D) \in Seq(Step)
  BY <1>1, DownwardsLists DEF Lists
<1> QED
  BY <1>2, <1>3 DEF SelectRange

LEMMA InitTypeOK == Init => TypeOK
<1> SUFFICES ASSUME Init PROVE TypeOK
  OBVIOUS
<1>1. MaxCalls \in Nat /\ \A r \in Runners : <<>> \in Seq(Step)
  BY MigrationRunnerAssumption
<1> QED
  BY <1>1 DEF Init, TypeOK, NoGoal

\* A step of runner r in general: what it may do to the variables.
Typed(r) ==
  /\ UNCHANGED deployment /\ holder' \in Runners \cup {NoRunner}
  /\ \E p \in Pcs : pc' = [pc EXCEPT ![r] = p]
  /\ \E steps \in Seq(Step) : plan' = [plan EXCEPT ![r] = steps]
  /\ \E n \in Nat \ {0} : next' = [next EXCEPT ![r] = n]
  /\ \E g \in SUBSET (Migrations \cup {0}) : goal' = [goal EXCEPT ![r] = g]
  /\ \E f \in BOOLEAN : failed' = [failed EXCEPT ![r] = f]

LEMMA Unmoved ==
  ASSUME TypeOK, NEW r \in Runners
  PROVE  /\ pc = [pc EXCEPT ![r] = pc[r]] /\ pc[r] \in Pcs
         /\ plan = [plan EXCEPT ![r] = plan[r]] /\ plan[r] \in Seq(Step)
         /\ next = [next EXCEPT ![r] = next[r]] /\ next[r] \in Nat \ {0}
         /\ goal = [goal EXCEPT ![r] = goal[r]] /\ goal[r] \in SUBSET (Migrations \cup {0})
         /\ failed = [failed EXCEPT ![r] = failed[r]] /\ failed[r] \in BOOLEAN
         /\ holder \in Runners \cup {NoRunner}
<1>1. pc \in [Runners -> Pcs] /\ plan \in [Runners -> Seq(Step)]
  BY DEF TypeOK, Pcs, Unstarted
<1>2. /\ next \in [Runners -> Nat \ {0}] /\ goal \in [Runners -> SUBSET (Migrations \cup {0})]
      /\ failed \in [Runners -> BOOLEAN] /\ holder \in Runners \cup {NoRunner}
  BY DEF TypeOK
<1>3. pc = [pc EXCEPT ![r] = pc[r]] /\ pc[r] \in Pcs
  BY <1>1
<1>4. plan = [plan EXCEPT ![r] = plan[r]] /\ plan[r] \in Seq(Step)
  BY <1>1
<1>5. next = [next EXCEPT ![r] = next[r]] /\ next[r] \in Nat \ {0}
  BY <1>2
<1>6. goal = [goal EXCEPT ![r] = goal[r]] /\ goal[r] \in SUBSET (Migrations \cup {0})
  BY <1>2
<1>7. failed = [failed EXCEPT ![r] = failed[r]] /\ failed[r] \in BOOLEAN
  BY <1>2
<1> QED
  BY <1>2, <1>3, <1>4, <1>5, <1>6, <1>7

\* How runner r moves in each of its steps.
LEMMA StepsAreTyped ==
  ASSUME TypeOK, NEW r \in Runners,
         Call(r) \/ Proceeds(r) \/ LockFails(r) \/ ReleaseFails(r) \/ Crash(r)
  PROVE  Typed(r)
<1>1. /\ pc = [pc EXCEPT ![r] = pc[r]] /\ pc[r] \in Pcs
      /\ plan = [plan EXCEPT ![r] = plan[r]] /\ plan[r] \in Seq(Step)
      /\ next = [next EXCEPT ![r] = next[r]] /\ next[r] \in Nat \ {0}
      /\ goal = [goal EXCEPT ![r] = goal[r]] /\ goal[r] \in SUBSET (Migrations \cup {0})
      /\ failed = [failed EXCEPT ![r] = failed[r]] /\ failed[r] \in BOOLEAN
      /\ holder \in Runners \cup {NoRunner}
  BY Unmoved
<1>2. UNCHANGED deployment
  BY DEF Proceeds, Call, Lock, LockFails, Plan, PlanIsRefused, Execute, ExecuteFails,
         StepIsDone, PlanIsDone, Release, ReleaseFails, SessionEnds, Over, Crash
<1>3. holder' \in Runners \cup {NoRunner}
  BY <1>1 DEF Proceeds, Call, Lock, LockFails, Plan, PlanIsRefused, Execute,
         ExecuteFails, StepIsDone, PlanIsDone, Release, ReleaseFails, SessionEnds,
         LosesLock, Crash
<1>4. \E p \in Pcs : pc' = [pc EXCEPT ![r] = p]
  <2>1. CASE Execute(r) \/ StepIsDone(r)
    BY <1>1, <2>1 DEF Execute, StepIsDone
  <2>2. CASE Call(r) \/ Lock(r) \/ LockFails(r) \/ Plan(r) \/ PlanIsRefused(r)
    BY <2>2 DEF Call, Lock, Started, LockFails, Plan, PlanIsRefused, Goes, Pcs, Unstarted
  <2>3. CASE \/ ExecuteFails(r) \/ PlanIsDone(r) \/ Release(r) \/ ReleaseFails(r)
             \/ SessionEnds(r) \/ Crash(r)
    BY <2>3 DEF ExecuteFails, PlanIsDone, Release, ReleaseFails, SessionEnds, Crash,
                Over, Goes, Pcs, Unstarted
  <2> QED
    BY <2>1, <2>2, <2>3 DEF Proceeds
<1>5. \E steps \in Seq(Step) : plan' = [plan EXCEPT ![r] = steps]
  <2>1. CASE Call(r)
    <3>1. ASSUME NEW m \in Project[r], NEW d \in {"up", "down"},
                 CallDirect(r, [migration |-> m, direction |-> d])
          PROVE  \E steps \in Seq(Step) : plan' = [plan EXCEPT ![r] = steps]
      <4>1. [migration |-> m, direction |-> d] \in Step
        BY MigrationRunnerAssumption DEF Step
      <4>2. <<[migration |-> m, direction |-> d]>> \in Seq(Step)
        BY <4>1
      <4> QED
        BY <3>1, <4>2 DEF CallDirect
    <3>2. ASSUME NEW target, CallUpdate(r, target) PROVE plan' = plan
      BY <3>2 DEF CallUpdate
    <3> QED
      BY <1>1, <2>1, <3>1, <3>2 DEF Call
  <2>2. CASE Plan(r)
    BY <2>2, PlansAreSteps DEF Plan
  <2>3. CASE StepIsDone(r)
    <3>1. Tail(plan[r]) \in Seq(Step)
      BY <1>1, <2>3 DEF StepIsDone, Running
    <3> QED
      BY <2>3, <3>1 DEF StepIsDone
  <2>4. CASE SessionEnds(r) \/ Crash(r)
    <3>1. plan' = [plan EXCEPT ![r] = <<>>]
      BY <2>4 DEF SessionEnds, Crash, Over
    <3>2. <<>> \in Seq(Step)
      OBVIOUS
    <3> QED
      BY <3>1, <3>2
  <2>5. CASE \/ Lock(r) \/ LockFails(r) \/ PlanIsRefused(r) \/ Execute(r) \/ ExecuteFails(r)
             \/ PlanIsDone(r) \/ Release(r) \/ ReleaseFails(r)
    BY <1>1, <2>5 DEF Lock, LockFails, PlanIsRefused, Execute, ExecuteFails, PlanIsDone,
                      Release, ReleaseFails, progress
  <2> QED
    BY <2>1, <2>2, <2>3, <2>4, <2>5 DEF Proceeds
<1>6. \E n \in Nat \ {0} : next' = [next EXCEPT ![r] = n]
  <2>1. CASE Execute(r)
    <3>1. Max(Batch(r)) \in Nat
      <4>1. /\ Current(r) \in Step
            /\ Batch(r) \subseteq 1 .. Len(Statements(Current(r))) /\ Max(Batch(r)) \in Batch(r)
        BY <2>1, LastOfBatchExists DEF Execute, TypeOK
      <4>2. Len(Statements(Current(r))) \in Nat
        BY <4>1, StatementsOfStep
      <4> QED
        BY <4>1, <4>2
    <3>2. Max(Batch(r)) + 1 \in Nat \ {0}
      BY <3>1
    <3> QED
      BY <2>1, <3>2 DEF Execute
  <2>2. CASE SessionEnds(r) \/ Crash(r) \/ StepIsDone(r)
    BY <2>2 DEF SessionEnds, Crash, Over, StepIsDone
  <2>3. CASE \/ Call(r) \/ Lock(r) \/ LockFails(r) \/ Plan(r) \/ PlanIsRefused(r)
             \/ ExecuteFails(r) \/ PlanIsDone(r) \/ Release(r) \/ ReleaseFails(r)
    BY <1>1, <2>3 DEF Call, Lock, LockFails, Plan, PlanIsRefused, ExecuteFails,
                      PlanIsDone, Release, ReleaseFails, progress
  <2> QED
    BY <2>1, <2>2, <2>3 DEF Proceeds
<1>7. \E g \in SUBSET (Migrations \cup {0}) : goal' = [goal EXCEPT ![r] = g]
  <2>1. CASE Call(r)
    <3>1. ASSUME NEW target, CallUpdate(r, target)
          PROVE  \E g \in SUBSET (Migrations \cup {0}) : goal' = [goal EXCEPT ![r] = g]
      <4>1. {m \in Project[r] : m <= target} \in SUBSET (Migrations \cup {0})
        BY MigrationRunnerAssumption
      <4> QED
        BY <3>1, <4>1 DEF CallUpdate
    <3>2. ASSUME NEW step, CallDirect(r, step) PROVE goal' = goal
      BY <3>2 DEF CallDirect
    <3> QED
      BY <1>1, <2>1, <3>1, <3>2 DEF Call
  <2>2. CASE SessionEnds(r) \/ Crash(r)
    BY <2>2 DEF SessionEnds, Crash, Over, NoGoal
  <2>3. CASE \/ Lock(r) \/ LockFails(r) \/ Plan(r) \/ PlanIsRefused(r) \/ Execute(r)
             \/ ExecuteFails(r) \/ StepIsDone(r) \/ PlanIsDone(r) \/ Release(r) \/ ReleaseFails(r)
    BY <1>1, <2>3 DEF Lock, LockFails, Plan, PlanIsRefused, Execute, ExecuteFails,
                      StepIsDone, PlanIsDone, Release, ReleaseFails, progress
  <2> QED
    BY <2>1, <2>2, <2>3 DEF Proceeds
<1>8. \E f \in BOOLEAN : failed' = [failed EXCEPT ![r] = f]
  <2>1. CASE \/ LockFails(r) \/ PlanIsRefused(r) \/ ExecuteFails(r) \/ ReleaseFails(r)
             \/ SessionEnds(r) \/ Crash(r)
    BY <2>1 DEF LockFails, PlanIsRefused, ExecuteFails, ReleaseFails, SessionEnds, Crash,
                Over, Fails
  <2>2. CASE \/ Call(r) \/ Lock(r) \/ Plan(r) \/ Execute(r) \/ StepIsDone(r)
             \/ PlanIsDone(r) \/ Release(r)
    BY <1>1, <2>2 DEF Call, Lock, Plan, Execute, StepIsDone, PlanIsDone, Release, progress
  <2> QED
    BY <2>1, <2>2 DEF Proceeds
<1> QED
  BY <1>2, <1>3, <1>4, <1>5, <1>6, <1>7, <1>8 DEF Typed

\* Such a step keeps the types, with the database in its own.
LEMMA TypedKeepsTypeOK ==
  ASSUME TypeOK, NEW r \in Runners, Typed(r), history' \subseteq Migrations,
         schema' \subseteq UNION {Objects(m) : m \in Migrations},
         calls' \in [Runners -> 0 .. MaxCalls]
  PROVE  TypeOK'
<1>1. PICK p \in Pcs, steps \in Seq(Step), n \in Nat \ {0},
           g \in SUBSET (Migrations \cup {0}), f \in BOOLEAN :
        /\ pc' = [pc EXCEPT ![r] = p] /\ plan' = [plan EXCEPT ![r] = steps]
        /\ next' = [next EXCEPT ![r] = n] /\ goal' = [goal EXCEPT ![r] = g]
        /\ failed' = [failed EXCEPT ![r] = f]
  BY DEF Typed
<1>2. pc' \in [Runners -> Pcs] /\ failed' \in [Runners -> BOOLEAN]
  BY <1>1 DEF TypeOK, Pcs, Unstarted
<1>3. plan' \in [Runners -> Seq(Step)]
  BY <1>1 DEF TypeOK
<1>4. next' \in [Runners -> Nat \ {0}]
  BY <1>1 DEF TypeOK
<1>5. goal' \in [Runners -> SUBSET (Migrations \cup {0})]
  BY <1>1 DEF TypeOK
<1>6. deployment' \in Deployments /\ holder' \in Runners \cup {NoRunner}
  BY DEF TypeOK, Typed
<1> QED
  BY <1>2, <1>3, <1>4, <1>5, <1>6 DEF TypeOK, Pcs, Unstarted, Objects

LEMMA CallsStayBounded ==
  ASSUME TypeOK, NEW r \in Runners,
         Call(r) \/ Proceeds(r) \/ LockFails(r) \/ ReleaseFails(r) \/ Crash(r)
  PROVE  calls' \in [Runners -> 0 .. MaxCalls]
<1>1. calls \in [Runners -> 0 .. MaxCalls] /\ MaxCalls \in Nat
  BY MigrationRunnerAssumption DEF TypeOK
<1>2. CASE Call(r)
  <2>1. calls' = [calls EXCEPT ![r] = calls[r] + 1] /\ calls[r] < MaxCalls
    BY <1>2 DEF Call
  <2>2. calls[r] + 1 \in 0 .. MaxCalls
    BY <1>1, <2>1
  <2> QED
    BY <1>1, <2>1, <2>2
<1>3. CASE Proceeds(r) \/ LockFails(r) \/ ReleaseFails(r) \/ Crash(r)
  <2>1. calls' = calls
    BY <1>3 DEF Proceeds, Lock, LockFails, Plan, PlanIsRefused, Execute, ExecuteFails,
                StepIsDone, PlanIsDone, Release, ReleaseFails, SessionEnds, Over, Crash
  <2> QED
    BY <1>1, <2>1
<1> QED
  BY <1>2, <1>3

\* The batch that a step commits, if it commits one.
Commits(r) == InStep(r) /\ Effects(Current(r), Batch(r))

LEMMA OnlyBatchesChangeTheDatabase ==
  ASSUME NEW r \in Runners,
         Call(r) \/ Proceeds(r) \/ LockFails(r) \/ ReleaseFails(r) \/ Crash(r)
  PROVE  UNCHANGED database \/ Commits(r)
BY DEF Proceeds, Call, Lock, LockFails, Plan, PlanIsRefused, StepIsDone, PlanIsDone,
       Release, ReleaseFails, SessionEnds, Over, Crash, Execute, ExecuteFails, Commits

LEMMA CommitsKeepTypes ==
  ASSUME TypeOK, NEW r \in Runners, Commits(r)
  PROVE  /\ history' = IF Max(Batch(r)) = Len(Statements(Current(r)))
                         THEN Recorded(Current(r), history) ELSE history
         /\ history' \subseteq Migrations
         /\ schema' \subseteq UNION {Objects(m) : m \in Migrations}
<1>0. /\ plan \in [Runners -> Seq(Step)] /\ next \in [Runners -> Nat \ {0}]
      /\ schema \subseteq UNION {Objects(m) : m \in Migrations}
      /\ history \subseteq Migrations
      /\ InStep(r) /\ Effects(Current(r), Batch(r))
  BY DEF TypeOK, Commits
<1>1. /\ history' = IF Max(Batch(r)) = Len(Statements(Current(r)))
                      THEN Recorded(Current(r), history) ELSE history
      /\ schema' \subseteq UNION {Objects(m) : m \in Migrations}
  BY <1>0, EffectsOfBatch
<1>2. Current(r).migration \in Migrations
  BY <1>0, LastOfBatchExists DEF Step
<1> QED
  BY <1>0, <1>1, <1>2 DEF Recorded

LEMMA NextTypeOK == TypeOK /\ [Next]_vars => TypeOK'
<1> SUFFICES ASSUME TypeOK, [Next]_vars PROVE TypeOK'
  OBVIOUS
<1>1. CASE UNCHANGED vars
  BY <1>1 DEF vars, progress, TypeOK
<1>2. ASSUME NEW r \in Runners,
             Call(r) \/ Proceeds(r) \/ LockFails(r) \/ ReleaseFails(r) \/ Crash(r)
      PROVE  TypeOK'
  <2>1. Typed(r) /\ calls' \in [Runners -> 0 .. MaxCalls]
    BY <1>2, StepsAreTyped, CallsStayBounded
  <2>2. CASE UNCHANGED database
    <3>1. /\ history' \subseteq Migrations
          /\ schema' \subseteq UNION {Objects(m) : m \in Migrations}
      BY <2>2 DEF database, TypeOK
    <3> QED
      BY <2>1, <3>1, TypedKeepsTypeOK
  <2>3. CASE Commits(r)
    BY <2>1, <2>3, CommitsKeepTypes, TypedKeepsTypeOK
  <2> QED
    BY <1>2, <2>2, <2>3, OnlyBatchesChangeTheDatabase
<1> QED
  BY <1>1, <1>2 DEF Next

-----------------------------------------------------------------------------
(* Deployers on their way to a goal *)

\* The steps that are not recorded yet: the current one stays until its last
\* statement has run.
Remaining(r) ==
  IF plan[r] # <<>> /\ next[r] > Len(Statements(Head(plan[r]))) THEN Tail(plan[r])
                                                                ELSE plan[r]

\* A call that has a goal is on its way to it, and has one unless it was apply()
\* or revert().
OnCourse(r) ==
  /\ pc[r] = "idle" => goal[r] = NoGoal
  /\ goal[r] # NoGoal => Closed(r, goal[r])
  /\ pc[r] = "planning" => goal[r] # NoGoal
  /\ ~deployment.direct /\ pc[r] \in {"locking", "planning", "running"} => goal[r] # NoGoal
  /\ deployment.locks /\ pc[r] = "running" /\ goal[r] # NoGoal
       => Leads(r, Remaining(r), history, goal[r])

\* The same of the next state.
LEMMA OnCourseNext ==
  ASSUME NEW r \in Runners
  PROVE  OnCourse(r)' <=>
         /\ pc'[r] = "idle" => goal'[r] = NoGoal
         /\ goal'[r] # NoGoal => Closed(r, goal'[r])
         /\ pc'[r] = "planning" => goal'[r] # NoGoal
         /\ ~deployment'.direct /\ pc'[r] \in {"locking", "planning", "running"}
              => goal'[r] # NoGoal
         /\ deployment'.locks /\ pc'[r] = "running" /\ goal'[r] # NoGoal
              => Leads(r, Remaining(r)', history', goal'[r])
BY DEF OnCourse, NoGoal, Closed, Leads, Lists

SomebodysHistory ==
  deployment.locks /\ ~deployment.direct => \E r \in Runners : Closed(r, history)

Agreement ==
  TypeOK /\ RunnersExclude /\ SomebodysHistory /\ \A r \in Runners : OnCourse(r)

LEMMA AgreementImpliesDeployersAgree == Agreement => DeployersAgree
<1> SUFFICES ASSUME Agreement PROVE DeployersAgree
  OBVIOUS
<1>1. ASSUME NEW r \in Runners, deployment.locks, pc[r] = "running", plan[r] = <<>>,
             goal[r] # NoGoal
      PROVE  history = goal[r]
  <2>1. Leads(r, <<>>, history, goal[r])
    BY <1>1 DEF Agreement, OnCourse, Remaining
  <2> QED
    BY <2>1, PlanIsOver
<1>2. ASSUME deployment.locks, ~deployment.direct
      PROVE  \E r \in Runners : history = {m \in Project[r] : m <= From}
  <2>1. PICK r \in Runners : Closed(r, history)
    BY <1>2 DEF Agreement, SomebodysHistory
  <2>2. Top(history) = From
    BY DEF Top, From
  <2> QED
    BY <2>1, <2>2, ClosedIsAPrefix
<1> QED
  BY <1>1, <1>2 DEF DeployersAgree, SuccessMeansTarget, HistoryIsAPrefix, Agreement

LEMMA InitAgreement ==
  ASSUME Runners # {}
  PROVE  Init => Agreement
<1> SUFFICES ASSUME Init PROVE Agreement
  OBVIOUS
<1>1. RunnersExclude
  BY DEF Init, RunnersExclude
<1>2. SomebodysHistory
  BY DEF Init, SomebodysHistory, Closed
<1>3. \A r \in Runners : OnCourse(r)
  BY DEF Init, OnCourse
<1> QED
  BY <1>1, <1>2, <1>3, InitTypeOK DEF Agreement

\* Runner r moves alone.
Alone(r) ==
  /\ UNCHANGED deployment
  /\ \A q \in Runners \ {r} :
       pc'[q] = pc[q] /\ plan'[q] = plan[q] /\ next'[q] = next[q] /\ goal'[q] = goal[q]

LEMMA TypedIsAlone ==
  ASSUME TypeOK, NEW r \in Runners, Typed(r)
  PROVE  Alone(r)
BY DEF TypeOK, Typed, Alone

\* The others are not disturbed: who runs under a lock runs alone.
LEMMA OthersStayOnCourse ==
  ASSUME Agreement, NEW r \in Runners, Alone(r), history' = history \/ pc[r] = "running",
         NEW q \in Runners, q # r
  PROVE  OnCourse(q)'
<1>1. /\ pc'[q] = pc[q] /\ plan'[q] = plan[q] /\ next'[q] = next[q] /\ goal'[q] = goal[q]
      /\ deployment' = deployment
  BY DEF Alone
<1>2. OnCourse(q)
  BY DEF Agreement
<1>3. deployment.locks /\ pc[q] = "running" => history' = history
  BY DEF Agreement, RunnersExclude
<1>4. Remaining(q)' = Remaining(q)
  BY <1>1 DEF Remaining, Statements
<1>5. deployment.locks /\ pc[q] = "running" /\ goal[q] # NoGoal
        => Leads(q, Remaining(q)', history', goal'[q])
  BY <1>1, <1>2, <1>3, <1>4 DEF OnCourse
<1> QED
  BY <1>1, <1>2, <1>5, OnCourseNext DEF OnCourse

\* The current step is recorded with its last statement.
LEMMA CommitLeadsOn ==
  ASSUME TypeOK, NEW r \in Runners, Commits(r), NEW g, Leads(r, Remaining(r), history, g)
  PROVE  /\ Remaining(r) = plan[r]
         /\ IF Max(Batch(r)) = Len(Statements(Current(r)))
              THEN Leads(r, Tail(plan[r]), history', g)
              ELSE Leads(r, plan[r], history', g)
<1>0. /\ plan \in [Runners -> Seq(Step)] /\ next \in [Runners -> Nat \ {0}] /\ InStep(r)
  BY DEF TypeOK, Commits
<1>1. plan[r] # <<>> /\ Current(r) = Head(plan[r]) /\ Current(r) \in Step
  BY <1>0, LastOfBatchExists DEF InStep, Running, Current
<1>2. next[r] <= Len(Statements(Head(plan[r]))) /\ next[r] \in Nat
      /\ Len(Statements(Head(plan[r]))) \in Nat
  <2>1. Len(Statements(Current(r))) \in Nat
    BY <1>1, StatementsOfStep
  <2>2. next[r] <= Len(Statements(Current(r))) /\ next[r] \in Nat
    BY <1>0 DEF InStep
  <2> QED
    BY <1>1, <2>1, <2>2
<1>3. Remaining(r) = plan[r]
  <2>1. ~(next[r] > Len(Statements(Head(plan[r]))))
    BY <1>2
  <2> QED
    BY <2>1 DEF Remaining
<1>4. Leads(r, plan[r], history, g)
  BY <1>3
<1>5. Leads(r, Tail(plan[r]), Recorded(Current(r), history), g)
  BY <1>1, <1>4, StepLeadsOn
<1>6. history' = IF Max(Batch(r)) = Len(Statements(Current(r)))
                   THEN Recorded(Current(r), history) ELSE history
  BY CommitsKeepTypes
<1> QED
  BY <1>3, <1>4, <1>5, <1>6

LEMMA CommitKeepsSomebodysHistory ==
  ASSUME Agreement, NEW r \in Runners, Commits(r), UNCHANGED deployment
  PROVE  SomebodysHistory'
<1> SUFFICES ASSUME deployment.locks, ~deployment.direct PROVE Closed(r, history')
  BY DEF SomebodysHistory, Closed
<1>1. pc[r] = "running" /\ TypeOK /\ OnCourse(r)
  BY DEF Commits, InStep, Running, Agreement
<1>2. Leads(r, Remaining(r), history, goal[r])
  BY <1>1 DEF OnCourse
<1>3. Leads(r, Tail(plan[r]), history', goal[r]) \/ Leads(r, plan[r], history', goal[r])
  BY <1>1, <1>2, CommitLeadsOn
<1> QED
  BY <1>3 DEF Leads

\* The statement after the batch.
LEMMA RemainingAfterBatch ==
  ASSUME TypeOK, NEW r \in Runners, Execute(r)
  PROVE  Remaining(r)' = IF Max(Batch(r)) = Len(Statements(Current(r)))
                           THEN Tail(plan[r]) ELSE plan[r]
<1> DEFINE top == Max(Batch(r))
           N == Len(Statements(Current(r)))
<1>0. plan \in [Runners -> Seq(Step)] /\ next \in [Runners -> Nat \ {0}] /\ InStep(r)
  BY DEF TypeOK, Execute
<1>1. /\ Current(r) \in Step /\ Batch(r) \subseteq 1 .. N /\ top \in Batch(r)
  BY <1>0, LastOfBatchExists
<1>2. N \in Nat
  BY <1>1, StatementsOfStep
<1>3. next'[r] = top + 1 /\ plan' = plan
  BY <1>0 DEF Execute
<1>4. plan[r] # <<>> /\ Current(r) = Head(plan[r])
  BY <1>0 DEF InStep, Running, Current
<1>5. Len(Statements(Head(plan[r])))' = N
  BY <1>3, <1>4 DEF Statements
<1> HIDE DEF top, N
<1>6. top + 1 > N <=> top = N
  BY <1>1, <1>2
<1>7. Remaining(r)' = IF top + 1 > N THEN Tail(plan[r]) ELSE plan[r]
  BY <1>3, <1>4, <1>5 DEF Remaining
<1> QED
  BY <1>6, <1>7 DEF top, N

LEMMA ExecuteStaysOnCourse ==
  ASSUME Agreement, NEW r \in Runners, Execute(r)
  PROVE  OnCourse(r)'
<1>1. pc[r] = "running" /\ TypeOK /\ OnCourse(r) /\ Commits(r)
  BY DEF Execute, Commits, InStep, Running, Agreement
<1>2. UNCHANGED <<deployment, pc, goal>>
  BY DEF Execute
<1>3. ASSUME deployment.locks, goal[r] # NoGoal
      PROVE  Leads(r, Remaining(r)', history', goal[r])
  <2>1. Leads(r, Remaining(r), history, goal[r])
    BY <1>1, <1>3 DEF OnCourse
  <2> QED
    BY <1>1, <2>1, CommitLeadsOn, RemainingAfterBatch
<1> QED
  BY <1>1, <1>2, <1>3, OnCourseNext DEF OnCourse

\* Past its last statement, a step was not among the remaining ones any more.
LEMMA StepIsDoneStaysOnCourse ==
  ASSUME Agreement, NEW r \in Runners, StepIsDone(r)
  PROVE  OnCourse(r)'
<1>1. pc[r] = "running" /\ TypeOK /\ OnCourse(r) /\ plan[r] # <<>> /\ ~InStep(r)
  BY DEF StepIsDone, Running, Agreement
<1>2. UNCHANGED <<deployment, pc, goal, history>>
  BY DEF StepIsDone, database
<1>3. plan[r] \in Seq(Step) /\ next[r] \in Nat /\ next'[r] = 1 /\ plan'[r] = Tail(plan[r])
  BY <1>1 DEF StepIsDone, TypeOK
<1>4. Tail(plan[r]) \in Seq(Step) /\ Head(plan[r]) \in Step
  BY <1>1, <1>3
<1>5. Remaining(r) = Tail(plan[r])
  <2>1. ~(next[r] <= Len(Statements(Head(plan[r]))))
    BY <1>1 DEF InStep, Running, Current
  <2>2. Len(Statements(Head(plan[r]))) \in Nat
    BY <1>4, StatementsOfStep
  <2>3. next[r] > Len(Statements(Head(plan[r])))
    BY <1>3, <2>1, <2>2
  <2> QED
    BY <1>1, <2>3 DEF Remaining
<1>6. Remaining(r)' = Tail(plan[r])
  <2> DEFINE rest == Tail(plan[r])
  <2>1. rest # <<>> => Head(rest) \in Step
    BY <1>4
  <2>2. rest # <<>> => ~(1 > Len(Statements(Head(rest))))
    <3> SUFFICES ASSUME rest # <<>> PROVE ~(1 > Len(Statements(Head(rest))))
      OBVIOUS
    <3> DEFINE n == Len(Suppressed[Head(rest).migration])
               N == Len(Statements(Head(rest)))
    <3>1. n \in Nat /\ N = n + 1
      BY <2>1, StatementsOfStep
    <3> HIDE DEF n, N
    <3>2. ~(1 > N)
      BY <3>1
    <3> QED
      BY <3>2 DEF N
  <2> HIDE DEF rest
  <2>3. plan'[r] = rest
    BY <1>3 DEF rest
  <2>4. Remaining(r)' = IF rest # <<>> /\ 1 > Len(Statements(Head(rest)))
                          THEN Tail(rest) ELSE rest
    BY <1>3, <2>3 DEF Remaining, Statements
  <2>5. Remaining(r)' = rest
    BY <2>2, <2>4
  <2> QED
    BY <2>5 DEF rest
<1>7. deployment.locks /\ goal[r] # NoGoal => Leads(r, Remaining(r)', history, goal[r])
  BY <1>1, <1>5, <1>6 DEF OnCourse
<1> QED
  BY <1>1, <1>2, <1>7, OnCourseNext DEF OnCourse

\* A plan is made of the history as it is.
LEMMA PlanStaysOnCourse ==
  ASSUME Agreement, RInv, NEW r \in Runners, Plan(r)
  PROVE  OnCourse(r)'
<1> DEFINE steps == SelectRange(Project[r], From, Top(goal[r]))
<1>1. pc[r] = "planning" /\ TypeOK /\ OnCourse(r)
  BY DEF Plan, Agreement
<1>0. next[r] = 1
  BY <1>1 DEF RInv, AtBatchBoundary, Unstarted
<1>2. UNCHANGED <<deployment, goal, history, next>> /\ pc'[r] = "running" /\ plan'[r] = steps
  BY <1>1 DEF Plan, Goes, database, Top, TypeOK
<1>3. goal[r] # NoGoal /\ Closed(r, goal[r])
  BY <1>1 DEF OnCourse
<1>4. Leads(r, steps, history, goal[r])
  BY <1>3, PlanLeads DEF Plan
<1> HIDE DEF steps
<1>5. steps \in Seq(Step)
  BY <1>4 DEF Leads, Lists
<1>6. Remaining(r)' = steps
  <2>1. steps # <<>> => ~(1 > Len(Statements(Head(steps))))
    <3> SUFFICES ASSUME steps # <<>> PROVE ~(1 > Len(Statements(Head(steps))))
      OBVIOUS
    <3>1. Head(steps) \in Step
      BY <1>5
    <3> DEFINE n == Len(Suppressed[Head(steps).migration])
               N == Len(Statements(Head(steps)))
    <3>2. n \in Nat /\ N = n + 1
      BY <3>1, StatementsOfStep
    <3> HIDE DEF n, N
    <3>3. ~(1 > N)
      BY <3>2
    <3> QED
      BY <3>3 DEF N
  <2>2. Remaining(r)' = IF steps # <<>> /\ 1 > Len(Statements(Head(steps)))
                          THEN Tail(steps) ELSE steps
    BY <1>0, <1>2 DEF Remaining, Statements
  <2> QED
    BY <2>1, <2>2
<1> QED
  BY <1>2, <1>3, <1>4, <1>6, OnCourseNext

LEMMA CallStaysOnCourse ==
  ASSUME Agreement, NEW r \in Runners, Call(r)
  PROVE  OnCourse(r)'
<1>1. pc[r] = "idle" /\ TypeOK /\ goal[r] = NoGoal
  BY DEF Call, Agreement, OnCourse
<1>2. pc'[r] = "locking" /\ deployment' = deployment
  BY <1>1 DEF Call, Goes, TypeOK
<1>3. (goal'[r] # NoGoal /\ Closed(r, goal'[r])) \/ (goal'[r] = NoGoal /\ deployment.direct)
  <2>0. {0, Latest(r)} \cup Project[r] \subseteq Nat
    <3>1. Project[r] \subseteq Migrations
      BY MigrationRunnerAssumption
    <3>2. Project[r] \subseteq Nat /\ IsFiniteSet(Project[r])
      BY <3>1, MigrationSets
    <3>3. Latest(r) \in Nat
      BY <3>2, LargestElement DEF Latest
    <3> QED
      BY <3>2, <3>3
  <2>1. ASSUME NEW target \in {0, Latest(r)} \cup Project[r], CallUpdate(r, target)
        PROVE  goal'[r] # NoGoal /\ Closed(r, goal'[r])
    <3>1. goal'[r] = {m \in Project[r] : m <= target}
      BY <1>1, <2>1 DEF CallUpdate, TypeOK
    <3>2. Project[r] \subseteq Nat \ {0}
      BY MigrationRunnerAssumption
    <3>3. goal'[r] # NoGoal
      BY <3>1, <3>2 DEF NoGoal
    <3>4. Closed(r, goal'[r])
      BY <2>0, <3>1, <3>2 DEF Closed
    <3> QED
      BY <3>3, <3>4
  <2>2. ASSUME NEW step, CallDirect(r, step) PROVE goal'[r] = NoGoal /\ deployment.direct
    BY <1>1, <2>2 DEF CallDirect
  <2> QED
    BY <2>1, <2>2 DEF Call
<1> QED
  BY <1>2, <1>3 DEF OnCourse, NoGoal, Closed

\* What goes wrong or ends a call leaves the goal, or gives it up.
LEMMA OtherStepsStayOnCourse ==
  ASSUME Agreement, NEW r \in Runners,
         \/ Lock(r) \/ LockFails(r) \/ PlanIsRefused(r) \/ ExecuteFails(r) \/ PlanIsDone(r)
         \/ Release(r) \/ ReleaseFails(r) \/ SessionEnds(r) \/ Crash(r)
  PROVE  OnCourse(r)'
<1>1. TypeOK /\ OnCourse(r)
  BY DEF Agreement
<1>2. CASE Lock(r)
  <2>1. /\ pc[r] = "locking" /\ goal' = goal /\ deployment' = deployment
        /\ pc'[r] = IF goal[r] = NoGoal THEN "running" ELSE "planning"
    BY <1>1, <1>2 DEF Lock, Started, Goes, TypeOK, progress
  <2> QED
    BY <1>1, <2>1 DEF OnCourse, NoGoal, Closed
<1>3. CASE \/ LockFails(r) \/ PlanIsRefused(r) \/ ExecuteFails(r) \/ PlanIsDone(r)
           \/ Release(r) \/ ReleaseFails(r)
  <2>1. goal' = goal /\ deployment' = deployment /\ pc'[r] \in {"releasing", "closing"}
    BY <1>1, <1>3 DEF LockFails, PlanIsRefused, ExecuteFails, PlanIsDone, Release,
                      ReleaseFails, Goes, TypeOK, progress
  <2> QED
    BY <1>1, <2>1 DEF OnCourse, NoGoal, Closed
<1>4. CASE SessionEnds(r) \/ Crash(r)
  <2>1. goal'[r] = NoGoal /\ pc'[r] = "idle"
    BY <1>1, <1>4 DEF SessionEnds, Crash, Over, Goes, TypeOK
  <2> QED
    BY <2>1 DEF OnCourse, NoGoal
<1> QED
  BY <1>2, <1>3, <1>4

LEMMA NextAgreement == RInv /\ RunnersExclude' /\ Agreement /\ [Next]_vars => Agreement'
<1> SUFFICES ASSUME RInv, RunnersExclude', Agreement, [Next]_vars PROVE Agreement'
  OBVIOUS
<1>0. TypeOK'
  BY NextTypeOK DEF Agreement
<1>1. CASE UNCHANGED vars
  <2>1. UNCHANGED <<deployment, pc, history, goal, plan, next>>
    BY <1>1 DEF vars, database, progress
  <2>2. SomebodysHistory'
    BY <2>1 DEF Agreement, SomebodysHistory, Closed
  <2>3. ASSUME NEW r \in Runners PROVE OnCourse(r)'
    <3>1. Remaining(r)' = Remaining(r)
      BY <2>1 DEF Remaining, Statements
    <3>2. OnCourse(r)
      BY DEF Agreement
    <3> QED
      BY <2>1, <3>1, <3>2, OnCourseNext DEF OnCourse
  <2> QED
    BY <1>0, <2>2, <2>3 DEF Agreement
<1>2. ASSUME NEW r \in Runners,
             Call(r) \/ Proceeds(r) \/ LockFails(r) \/ ReleaseFails(r) \/ Crash(r)
      PROVE  Agreement'
  <2>1. Typed(r) /\ Alone(r)
    BY <1>2, StepsAreTyped, TypedIsAlone DEF Agreement
  <2>2. history' = history \/ Commits(r)
    BY <1>2, OnlyBatchesChangeTheDatabase DEF database
  <2>3. history' = history \/ pc[r] = "running"
    BY <2>2 DEF Commits, InStep, Running
  <2>4. \A q \in Runners : q # r => OnCourse(q)'
    BY <2>1, <2>3, OthersStayOnCourse
  <2>5. OnCourse(r)'
    <3>1. CASE Call(r)
      BY <3>1, CallStaysOnCourse
    <3>2. CASE Plan(r)
      BY <3>2, PlanStaysOnCourse
    <3>3. CASE Execute(r)
      BY <3>3, ExecuteStaysOnCourse
    <3>4. CASE StepIsDone(r)
      BY <3>4, StepIsDoneStaysOnCourse
    <3> QED
      BY <1>2, <3>1, <3>2, <3>3, <3>4, OtherStepsStayOnCourse DEF Proceeds
  <2>6. SomebodysHistory'
    <3>1. CASE history' = history
      BY <2>1, <3>1 DEF Agreement, SomebodysHistory, Closed, Alone
    <3>2. CASE Commits(r)
      BY <2>1, <3>2, CommitKeepsSomebodysHistory DEF Alone
    <3> QED
      BY <2>2, <3>1, <3>2
  <2> QED
    BY <1>0, <2>4, <2>5, <2>6 DEF Agreement
<1> QED
  BY <1>1, <1>2 DEF Next

(* If there is a deployer at all: under the lock, an update that succeeds  *)
(* has brought the history exactly to its target, and what is recorded is  *)
(* at any time a prefix of one of the projects, whatever fails, crashes or *)
(* loses its answer in between (migration-update-plan.ts:28).              *)
THEOREM DeployersMeetTheirGoals ==
  ASSUME Runners # {}
  PROVE  Spec => []DeployersAgree
<1>1. Init => Agreement
  BY InitAgreement
<1> QED
  BY <1>1, AgreementImpliesDeployersAgree, InitRInv, NextRInv, NextAgreement,
     OneDeployerAtATime, PTL DEF Spec
=============================================================================
