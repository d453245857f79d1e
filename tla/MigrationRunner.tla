--------------------------- MODULE MigrationRunner ---------------------------
(***************************************************************************)
(* Deployers that migrate one database: update(), apply() and revert() of  *)
(* the migration runner, the provider lock they take on a pinned session,  *)
(* the plan they make of the recorded history, and the executor, which     *)
(* batches the statements of a migration into transactions around those    *)
(* that must run outside of one.  A deployer may crash at any moment, any  *)
(* command may fail, and an answer may be lost after its command took      *)
(* effect.                                                                 *)
(*                                                                         *)
(* A batch is one step: nobody reads its uncommitted effects, a failure    *)
(* inside of it rolls it back, and the databases without a migration lock  *)
(* have a single writer.  Statement i of migration m creates an object     *)
(* <<m, i>>; its counterpart in the down direction drops it.  Migration    *)
(* ids are numbers in the order in which they sort.                        *)
(***************************************************************************)
EXTENDS Integers, Sequences, FiniteSets, SequencesExt, FiniteSetsExt

CONSTANTS
  Runners,
  Migrations,  \* ids of the migrations that exist in some project
  Project,     \* the migrations that each runner finds in its files
  Suppressed,  \* per migration: which of its statements suppress transactions
  Deployments, \* the cases to look at: does the provider have a lock, are
               \* apply() and revert() called besides update()
  MaxCalls,    \* bound on the calls of each runner
  NoRunner

ASSUME MigrationRunnerAssumption ==
  /\ Migrations \subseteq Nat \ {0} /\ IsFiniteSet(Migrations)
  /\ Project \in [Runners -> SUBSET Migrations]
  /\ Suppressed \in [Migrations -> Seq(BOOLEAN)]
  /\ Deployments \subseteq [locks : BOOLEAN, direct : BOOLEAN]
  /\ MaxCalls \in Nat
  /\ NoRunner \notin Runners

VARIABLES
  deployment,
  holder,   \* the session that holds the provider lock
  history,  \* ids in the history table
  schema,   \* objects in the database
  pc,
  plan,     \* steps still to run, the current one first
  next,     \* the statement of the current step that is next
  goal,     \* history that the call promises on success
  failed,   \* the call is rejecting
  calls

vars == <<deployment, holder, history, schema, pc, plan, next, goal, failed, calls>>
database == <<history, schema>>
progress == <<plan, next, goal, failed>>

Objects(m) == {<<m, i>> : i \in 1 .. Len(Suppressed[m])}

Step == [migration : Migrations, direction : {"up", "down"}]
NoGoal == {0}

Init ==
  /\ deployment \in Deployments
  /\ holder = NoRunner
  /\ history = {} /\ schema = {}
  /\ pc = [r \in Runners |-> "idle"]
  /\ plan = [r \in Runners |-> <<>>]
  /\ next = [r \in Runners |-> 1]
  /\ goal = [r \in Runners |-> NoGoal]
  /\ failed = [r \in Runners |-> FALSE]
  /\ calls = [r \in Runners |-> 0]

----------------------------------------------------------------------------
\* Planning

\* The members of S from the smallest to the largest.
Ordered(S) == CHOOSE s \in [1 .. Cardinality(S) -> S] :
                \A i, j \in DOMAIN s : i < j => s[i] < s[j]

Upwards(S) == [i \in 1 .. Len(Ordered(S)) |->
                 [migration |-> Ordered(S)[i], direction |-> "up"]]
Downwards(S) == Reverse([i \in 1 .. Len(Ordered(S)) |->
                 [migration |-> Ordered(S)[i], direction |-> "down"]])

From == IF history = {} THEN 0 ELSE Max(history)

\* Migrations after from, up to and with the target; or back down to it.
SelectRange(S, from, to) ==
  IF from <= to THEN Upwards({m \in S : from < m /\ m <= to})
                ELSE Downwards({m \in S : to < m /\ m <= from})

\* Every recorded migration is still in the files.
HistoryIsKnown(r) == history \subseteq Project[r]

\* A pending migration that sorts before the newest one would be skipped.
SkipsNothing(r) == {}
Skipped(r) == {m \in Project[r] \ history : m < From}

Latest(r) == IF Project[r] = {} THEN 0 ELSE Max(Project[r])

----------------------------------------------------------------------------
\* The call and its lock

Fails(r) == failed' = [failed EXCEPT ![r] = TRUE]
Goes(r, to) == pc' = [pc EXCEPT ![r] = to]

\* update() plans under the lock; apply() and revert() know what they run.
CallUpdate(r, target) ==
  /\ goal' = [goal EXCEPT ![r] = {m \in Project[r] : m <= target}]
  /\ UNCHANGED plan

CallDirect(r, step) ==
  /\ deployment.direct
  /\ plan' = [plan EXCEPT ![r] = <<step>>]
  /\ UNCHANGED goal

Call(r) ==
  /\ pc[r] = "idle" /\ calls[r] < MaxCalls
  /\ calls' = [calls EXCEPT ![r] = @ + 1]
  /\ \/ \E target \in {0, Latest(r)} \cup Project[r] : CallUpdate(r, target)
     \/ \E m \in Project[r], d \in {"up", "down"} :
          CallDirect(r, [migration |-> m, direction |-> d])
  /\ Goes(r, "locking")
  /\ UNCHANGED <<deployment, holder, database, next, failed>>

Started(r) == Goes(r, IF goal[r] = NoGoal THEN "running" ELSE "planning")

\* The statement waits for as long as another session holds the lock.
Lock(r) ==
  /\ pc[r] = "locking"
  /\ IF deployment.locks THEN holder = NoRunner /\ holder' = r ELSE UNCHANGED holder
  /\ Started(r)
  /\ UNCHANGED <<deployment, database, progress, calls>>

\* The provider refuses, or the answer or the signal comes too late: then the
\* session has the lock, and the runner does not know.
LockFails(r) ==
  /\ pc[r] = "locking" /\ deployment.locks
  /\ \/ holder = NoRunner /\ holder' = r
     \/ UNCHANGED holder
  /\ Goes(r, "closing") /\ Fails(r)
  /\ UNCHANGED <<deployment, database, plan, next, goal, calls>>

Plan(r) ==
  /\ pc[r] = "planning"
  /\ HistoryIsKnown(r) /\ Skipped(r) = {}
  /\ plan' = [plan EXCEPT ![r] =
       SelectRange(Project[r], From, IF goal[r] = {} THEN 0 ELSE Max(goal[r]))]
  /\ Goes(r, "running")
  /\ UNCHANGED <<deployment, holder, database, next, goal, failed, calls>>

\* The history cannot be read or does not fit, or the plan loses data and the
\* caller did not allow that.
PlanIsRefused(r) ==
  /\ pc[r] = "planning"
  /\ Goes(r, "releasing") /\ Fails(r)
  /\ UNCHANGED <<deployment, holder, database, plan, next, goal, calls>>

----------------------------------------------------------------------------
\* The executor

Current(r) == Head(plan[r])

\* The statements of the step, true where a transaction is suppressed; the one
\* on the history table comes last.
Statements(step) ==
  LET flags == Suppressed[step.migration] IN
  Append(IF step.direction = "up" THEN flags ELSE Reverse(flags), FALSE)

\* The object that statement i of the step is about.
Object(step, i) ==
  LET n == Len(Suppressed[step.migration]) IN
  <<step.migration, IF step.direction = "up" THEN i ELSE n + 1 - i>>

OnHistory(step, i) == i = Len(Statements(step))

OneByOne(step, i) == i

LastOfBatch(step, i) ==
  Max({k \in i .. Len(Statements(step)) :
         \A j \in i .. k : ~Statements(step)[j]})

\* An object is not created twice, nor one that is missing dropped.  A history
\* row is not inserted twice, whereas deleting a missing one is no error.
Accepted(step, I) ==
  \A i \in I :
    IF OnHistory(step, i)
      THEN step.direction = "up" => step.migration \notin history
      ELSE (Object(step, i) \in schema) <=> (step.direction = "down")

Effects(step, I) ==
  LET objects == {Object(step, i) : i \in {j \in I : ~OnHistory(step, j)}}
      rows == {step.migration : i \in {j \in I : OnHistory(step, j)}}
  IN IF step.direction = "up"
       THEN schema' = schema \cup objects /\ history' = history \cup rows
       ELSE schema' = schema \ objects /\ history' = history \ rows

\* The statements that are sent next: one that suppresses transactions alone,
\* the others together in a transaction.
Batch(r) ==
  LET step == Current(r) IN
  IF Statements(step)[next[r]] THEN {next[r]}
                               ELSE next[r] .. LastOfBatch(step, next[r])

Running(r) == pc[r] = "running" /\ plan[r] # <<>>
InStep(r) == Running(r) /\ next[r] <= Len(Statements(Current(r)))

Execute(r) ==
  /\ InStep(r)
  /\ Accepted(Current(r), Batch(r))
  /\ Effects(Current(r), Batch(r))
  /\ next' = [next EXCEPT ![r] = Max(Batch(r)) + 1]
  /\ UNCHANGED <<deployment, holder, pc, plan, goal, failed, calls>>

\* Refused or rolled back as a whole; or done, with the answer lost.
ExecuteFails(r) ==
  /\ InStep(r)
  /\ \/ UNCHANGED database
     \/ Accepted(Current(r), Batch(r)) /\ Effects(Current(r), Batch(r))
  /\ Goes(r, "releasing") /\ Fails(r)
  /\ UNCHANGED <<deployment, holder, plan, next, goal, calls>>

StepIsDone(r) ==
  /\ Running(r) /\ ~InStep(r)
  /\ plan' = [plan EXCEPT ![r] = Tail(@)]
  /\ next' = [next EXCEPT ![r] = 1]
  /\ UNCHANGED <<deployment, holder, database, pc, goal, failed, calls>>

PlanIsDone(r) ==
  /\ pc[r] = "running" /\ plan[r] = <<>>
  /\ Goes(r, "releasing")
  /\ UNCHANGED <<deployment, holder, database, progress, calls>>

\* The release is only sent for a lock that the runner knows it has.
Release(r) ==
  /\ pc[r] = "releasing"
  /\ holder' = IF holder = r THEN NoRunner ELSE holder
  /\ Goes(r, "closing")
  /\ UNCHANGED <<deployment, database, progress, calls>>

ReleaseFails(r) ==
  /\ pc[r] = "releasing" /\ deployment.locks
  /\ Goes(r, "closing") /\ Fails(r)
  /\ UNCHANGED <<deployment, holder, database, plan, next, goal, calls>>

\* The session of a call that failed is destroyed, and the server gives back
\* what it had locked; so it does when the process dies.
KeepsLock(r) == UNCHANGED holder
LosesLock(r) == holder' = IF holder = r THEN NoRunner ELSE holder

Over(r) ==
  /\ Goes(r, "idle")
  /\ plan' = [plan EXCEPT ![r] = <<>>]
  /\ next' = [next EXCEPT ![r] = 1]
  /\ goal' = [goal EXCEPT ![r] = NoGoal]
  /\ failed' = [failed EXCEPT ![r] = FALSE]
  /\ UNCHANGED <<deployment, database, calls>>

SessionEnds(r) ==
  /\ pc[r] = "closing"
  /\ IF failed[r] THEN LosesLock(r) ELSE UNCHANGED holder
  /\ Over(r)

Crash(r) == pc[r] # "idle" /\ LosesLock(r) /\ Over(r)

Proceeds(r) ==
  \/ Lock(r) \/ Plan(r) \/ PlanIsRefused(r) \/ Execute(r) \/ ExecuteFails(r)
  \/ StepIsDone(r) \/ PlanIsDone(r) \/ Release(r) \/ SessionEnds(r)

Next ==
  \E r \in Runners :
    Call(r) \/ Proceeds(r) \/ LockFails(r) \/ ReleaseFails(r) \/ Crash(r)

Spec == Init /\ [][Next]_vars

\* The server and the process answer; SF because a lock that others take and
\* give back again is free again and again.
FairSpec == Spec /\ \A r \in Runners : SF_vars(Proceeds(r))

----------------------------------------------------------------------------
\* Every variable ranges over what the code may put into it.
TypeOK ==
  /\ deployment \in Deployments /\ holder \in Runners \cup {NoRunner}
  /\ history \subseteq Migrations
  /\ schema \subseteq UNION {Objects(m) : m \in Migrations}
  /\ pc \in [Runners -> {"idle", "locking", "planning", "running", "releasing", "closing"}]
  /\ plan \in [Runners -> Seq(Step)]
  /\ next \in [Runners -> Nat \ {0}]
  /\ goal \in [Runners -> SUBSET (Migrations \cup {0})]
  /\ failed \in [Runners -> BOOLEAN]
  /\ calls \in [Runners -> 0 .. MaxCalls]

Transactional(m) == \A i \in 1 .. Len(Suppressed[m]) : ~Suppressed[m][i]

\* A migration without suppressed statements is applied and recorded together
\* or not at all: across failures, lost answers, crashes, and deployers that
\* race each other without a lock.
HistoryIsExact ==
  \A m \in Migrations :
    Transactional(m) =>
      Objects(m) \cap schema = IF m \in history THEN Objects(m) ELSE {}

\* The provider lock is held by the runner that works, from before it reads the
\* history until it has nothing left to execute.
RunnersExclude ==
  deployment.locks => \A r \in Runners : pc[r] \in {"planning", "running"} => holder = r

\* An update that succeeds has brought the history exactly to its target: no
\* migration of the project below it is missing, and nothing above is left; all
\* of it in a well-typed state.
SuccessMeansTarget ==
  /\ TypeOK
  /\ \A r \in Runners :
       deployment.locks /\ pc[r] = "running" /\ plan[r] = <<>> /\ goal[r] # NoGoal
         => history = goal[r]

\* Deployers with different projects refuse each other's history rather than
\* mix: what is recorded is always a prefix of somebody's project.
HistoryIsAPrefix ==
  deployment.locks /\ ~deployment.direct =>
    \E r \in Runners : history = {m \in Project[r] : m <= From}

\* So the deployers agree on where the database stands: each success is at its
\* target, and what lies between two of them is never a mixture of projects.
DeployersAgree == SuccessMeansTarget /\ HistoryIsAPrefix

\* Whatever fails or dies, the lock becomes free and the call ends.
CallsEnd ==
  \A r \in Runners : pc[r] # "idle" ~> pc[r] = "idle"
=============================================================================
