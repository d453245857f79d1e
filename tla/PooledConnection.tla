-------------------------- MODULE PooledConnection --------------------------
(***************************************************************************)
(* The connection of one DbContext to PostgreSQL or MySQL: transaction()   *)
(* and session() over a pool of clients, the BEGIN, SAVEPOINT, RELEASE,    *)
(* ROLLBACK TO, COMMIT and ROLLBACK they send, the failures of each, and   *)
(* the server that executes them.                                          *)
(*                                                                         *)
(* The operation guard admits one chain at a time, so one chain calls.     *)
(* A statement that writes is a member of Writes.                          *)
(***************************************************************************)
EXTENDS Integers, Sequences, FiniteSets, SequencesExt, FiniteSetsExt

CONSTANTS
  Clients,    \* physical connections of the pool
  Writes,     \* statements that write, each sent once
  MaxDepth,   \* bound on the nesting of transaction() and session()
  MaxStack,   \* bound on the native savepoints, those left behind included
  Providers,  \* the servers that are looked at: "postgres", "mysql"
  Sessions,   \* the application calls session()
  Catches,    \* a work function may go on after a statement that failed, or
              \* in a transaction that the server has rolled back
  NoClient

ASSUME PooledConnectionAssumption ==
  /\ MaxDepth \in Nat /\ MaxStack \in Nat
  /\ Providers \subseteq {"postgres", "mysql"}
  /\ {Sessions, Catches} \subseteq BOOLEAN
  /\ NoClient \notin Clients

VARIABLES
  provider,
  pool,              \* idle clients
  stack,             \* native transaction of each client: its root, its savepoints
  aborted,           \* clients whose transaction only accepts a rollback
  dead,              \* clients whose socket is gone
  gone,              \* clients that were destroyed
  durable,           \* writes that are committed
  activeClient,
  transactionDepth,
  outcomeUnknown,    \* TransactionUsability
  failure,           \* EnclosingTransactionState: kind of the recorded error
  calls,             \* the calls the chain is inside of, outermost first
  pc,                \* the command that is awaited, or "app"
  error,             \* the error under way
  unsafe,            \* clients declared not to be reused
  verdict            \* what the caller was told of each write

poolVars == <<provider, pool, gone>>
server == <<poolVars, stack, aborted, dead, durable>>
vars == <<server, activeClient, transactionDepth, outcomeUnknown, failure,
          calls, pc, error, unsafe, verdict>>

\* "cleanup" and "savepoint" compromise the enclosing transaction, "rollback",
\* "unknown" and "begin" the client.
ErrorKind == {"plain", "begin", "savepoint", "cleanup", "rollback", "unknown"}
Error == [kind : ErrorKind, recorded : BOOLEAN]
Plain == [kind |-> "plain", recorded |-> FALSE]

Call == [kind : {"session", "root", "savepoint"}, depth : Nat, owns : BOOLEAN,
         kept : SUBSET Writes]
Savepoint == [name : Nat, writes : SUBSET Writes]

Commands == {"begin", "savepoint", "release", "rollbackTo", "releaseAfter",
             "commit", "rollback"}

Postgres == provider = "postgres"

TypeOK ==
  /\ provider \in Providers
  /\ pool \subseteq Clients
  /\ stack \in [Clients -> Seq(Savepoint)]
  /\ aborted \subseteq Clients
  /\ dead \subseteq Clients
  /\ gone \subseteq Clients
  /\ durable \subseteq Writes
  /\ activeClient \in Clients \cup {NoClient}
  /\ transactionDepth \in Nat
  /\ outcomeUnknown \in BOOLEAN
  /\ failure \in {"none", "savepoint", "cleanup"}
  /\ calls \in Seq(Call)
  /\ pc \in Commands \cup {"app", "connecting", "unwinding", "resolved", "rejected"}
  /\ error \in Error
  /\ unsafe \subseteq Clients
  /\ verdict \in [Writes -> {"none", "open", "resolved", "rejected", "unknown"}]

Init ==
  /\ provider \in Providers
  /\ pool = Clients
  /\ stack = [c \in Clients |-> <<>>]
  /\ aborted = {}
  /\ dead = {}
  /\ gone = {}
  /\ durable = {}
  /\ activeClient = NoClient
  /\ transactionDepth = 0
  /\ outcomeUnknown = FALSE
  /\ failure = "none"
  /\ calls = <<>>
  /\ pc = "app"
  /\ error = Plain
  /\ unsafe = {}
  /\ verdict = [w \in Writes |-> "none"]

-----------------------------------------------------------------------------
(* The server: what each command does to the native transaction s *)

Root == [name |-> 0, writes |-> {}]

AllWrites(s) == UNION {s[i].writes : i \in DOMAIN s}

\* The latest savepoint of that name, or 0.
Named(s, n) == LET at == {i \in 2..Len(s) : s[i].name = n}
               IN  IF at = {} THEN 0 ELSE Max(at)

\* Frames i and above become part of the frame below them.
Merged(s, i) ==
  [SubSeq(s, 1, i - 1) EXCEPT ![i - 1].writes = @ \cup AllWrites(SubSeq(s, i, Len(s)))]

\* MySQL forgets an older savepoint of the same name, PostgreSQL hides it.
WithSavepoint(s, n) ==
  LET i == Named(s, n)
      forgotten == [SubSeq(s, 1, i - 1) \o SubSeq(s, i + 1, Len(s))
                      EXCEPT ![i - 1].writes = @ \cup s[i].writes]
  IN  Append(IF Postgres \/ i = 0 THEN s ELSE forgotten, [name |-> n, writes |-> {}])

\* The savepoint itself survives a rollback to it.
RolledBackTo(s, n) ==
  LET i == Named(s, n) IN [SubSeq(s, 1, i) EXCEPT ![i].writes = {}]

Depth == Last(calls).depth

Accepts(command) ==
  LET s == stack[activeClient]
      open == activeClient \notin aborted
  IN  CASE command = "begin" -> open
        [] command = "savepoint" -> open /\ (s # <<>> \/ ~Postgres)
        [] command \in {"release", "releaseAfter"} -> open /\ Named(s, Depth) # 0
        [] command = "rollbackTo" -> Named(s, Depth) # 0
        [] OTHER -> TRUE

\* The client's transaction after the command.
After(command) ==
  LET s == stack[activeClient]
  IN  CASE command = "begin" -> IF s # <<>> /\ Postgres THEN s ELSE <<Root>>
        [] command = "savepoint" -> IF s = <<>> THEN s ELSE WithSavepoint(s, Depth)
        [] command \in {"release", "releaseAfter"} -> Merged(s, Named(s, Depth))
        [] command = "rollbackTo" -> RolledBackTo(s, Depth)
        [] OTHER -> <<>>

\* COMMIT; MySQL's BEGIN commits an open transaction.  The COMMIT of an aborted
\* PostgreSQL transaction rolls it back, and succeeds.
Committed(command) ==
  IF activeClient \notin aborted
     /\ (command = "commit" \/ (command = "begin" /\ ~Postgres))
    THEN AllWrites(stack[activeClient]) ELSE {}

Executes(command) ==
  /\ Accepts(command)
  /\ stack' = [stack EXCEPT ![activeClient] = After(command)]
  /\ durable' = durable \cup Committed(command)
  /\ aborted' = IF command \in {"rollbackTo", "commit", "rollback"}
                  THEN aborted \ {activeClient} ELSE aborted

Succeeds(command) ==
  /\ activeClient \notin dead
  /\ Executes(command)

\* An error in a PostgreSQL transaction aborts it, but for a failed rollback.
\* A command can also have run although its answer is an error or a timeout.
Refused(command) ==
  \/ /\ aborted' = IF Postgres /\ stack[activeClient] # <<>>
                      /\ command \notin {"rollback", "rollbackTo", "commit"}
                     THEN aborted \cup {activeClient} ELSE aborted
     /\ UNCHANGED <<stack, durable>>
  \/ activeClient \notin dead /\ Executes(command)

SocketDies ==
  /\ activeClient \in Clients \ dead
  /\ dead' = dead \cup {activeClient}
  /\ stack' = [stack EXCEPT ![activeClient] = <<>>]
  /\ aborted' = aborted \ {activeClient}
  /\ UNCHANGED <<poolVars, durable, activeClient, transactionDepth, outcomeUnknown,
                 failure, calls, pc, error, unsafe, verdict>>

-----------------------------------------------------------------------------
(* Giving the client back, and leaving a call *)

\* release() keeps the physical connection, release(true) and destroy() end it;
\* the drivers drop a dead one by themselves.
Releases(destroy) ==
  IF destroy \/ activeClient \in dead
    THEN /\ gone' = gone \cup {activeClient}
         /\ stack' = [stack EXCEPT ![activeClient] = <<>>]
         /\ aborted' = aborted \ {activeClient}
         /\ UNCHANGED pool
    ELSE pool' = pool \cup {activeClient} /\ UNCHANGED <<gone, stack, aborted>>

ClientIsKept == UNCHANGED activeClient

ClientIsForgotten == activeClient' = NoClient

Told(S, word) == verdict' = [w \in Writes |-> IF w \in S THEN word ELSE verdict[w]]

Leaves == calls' = Front(calls)

\* The caller gets an error: it goes on, or lets the error through.
Rejects(e) ==
  /\ error' = e
  /\ pc' \in IF Len(calls) = 1 THEN {"app"} ELSE {"app", "unwinding"}

Resolves ==
  /\ error' = Plain
  /\ pc' = "app"

-----------------------------------------------------------------------------
(* Calls *)

Enter(kind, owns) ==
  calls' = Append(calls, [kind |-> kind, depth |-> transactionDepth, owns |-> owns,
                          kept |-> {}])

CallTransaction ==
  /\ pc = "app"
  /\ ~outcomeUnknown
  /\ Len(calls) < MaxDepth
  /\ \/ /\ transactionDepth > 0
        /\ Len(stack[activeClient]) < MaxStack
        /\ Enter("savepoint", FALSE)
        /\ transactionDepth' = transactionDepth + 1
        /\ pc' = "savepoint"
        /\ UNCHANGED failure
     \/ /\ transactionDepth = 0
        /\ activeClient # NoClient
        /\ Enter("root", FALSE)
        /\ transactionDepth' = 1
        /\ failure' = "none"
        /\ pc' = "begin"
     \/ /\ transactionDepth = 0
        /\ activeClient = NoClient
        /\ Enter("root", TRUE)
        /\ pc' = "connecting"
        /\ UNCHANGED <<transactionDepth, failure>>
  /\ UNCHANGED <<server, activeClient, outcomeUnknown, error, unsafe, verdict>>

CallSession ==
  /\ pc = "app"
  /\ Sessions
  /\ ~outcomeUnknown
  /\ activeClient = NoClient
  /\ Enter("session", TRUE)
  /\ pc' = "connecting"
  /\ UNCHANGED <<server, activeClient, transactionDepth, outcomeUnknown, failure,
                 error, unsafe, verdict>>

Connected(c) ==
  /\ pc = "connecting"
  /\ c \in pool
  /\ pool' = pool \ {c}
  /\ activeClient' = c
  /\ IF Last(calls).kind = "session"
       THEN pc' = "app" /\ UNCHANGED <<transactionDepth, failure>>
       ELSE pc' = "begin" /\ transactionDepth' = 1 /\ failure' = "none"
  /\ UNCHANGED <<provider, stack, aborted, dead, gone, durable, outcomeUnknown, calls, error,
                 unsafe, verdict>>

\* No connection, or the signal was aborted while it was awaited.
ConnectFails ==
  /\ pc = "connecting"
  /\ Leaves
  /\ Rejects(Plain)
  /\ UNCHANGED <<server, activeClient, transactionDepth, outcomeUnknown, failure,
                 unsafe, verdict>>

InTransaction == transactionDepth > 0

\* A statement of the work function.  Outside a native transaction it commits
\* by itself.
Statement(w) ==
  /\ pc = "app"
  /\ activeClient \in Clients \ (dead \cup aborted)
  /\ ~outcomeUnknown
  /\ verdict[w] = "none"
  /\ IF stack[activeClient] = <<>>
       THEN durable' = durable \cup {w} /\ UNCHANGED stack
       ELSE /\ stack' = [stack EXCEPT
                       ![activeClient][Len(stack[activeClient])].writes = @ \cup {w}]
            /\ UNCHANGED durable
  /\ IF InTransaction
       THEN /\ Told({w}, "open")
            /\ calls' = [calls EXCEPT ![Len(calls)].kept = @ \cup {w}]
       ELSE Told({w}, "resolved") /\ UNCHANGED calls
  /\ UNCHANGED <<poolVars, aborted, dead, activeClient, transactionDepth,
                 outcomeUnknown, failure, pc, error, unsafe>>

\* The statement fails, and the work function lets the error through unless it
\* Catches.  The victim of a deadlock loses its whole transaction on MySQL,
\* savepoints included.
StatementFails ==
  /\ pc = "app"
  /\ activeClient # NoClient
  /\ ~outcomeUnknown
  /\ aborted' = IF Postgres /\ stack[activeClient] # <<>>
                  THEN aborted \cup {activeClient} ELSE aborted
  /\ \/ UNCHANGED stack
     \/ ~Postgres /\ stack' = [stack EXCEPT ![activeClient] = <<>>]
  /\ error' = Plain
  /\ pc' \in IF Catches THEN {"app", "unwinding"} ELSE {"unwinding"}
  /\ UNCHANGED <<poolVars, dead, durable, activeClient, transactionDepth,
                 outcomeUnknown, failure, calls, unsafe, verdict>>

-----------------------------------------------------------------------------
(* The root transaction *)

Answers(command) == pc = command

\* An abort of the signal between two commands leaves with a plain error.
Begun ==
  /\ Answers("begin")
  /\ Succeeds("begin")
  /\ error' = Plain
  /\ pc' \in {"app", "rollback"}
  /\ UNCHANGED <<poolVars, dead, activeClient, transactionDepth, outcomeUnknown,
                 failure, calls, unsafe, verdict>>

\* The transaction was never started: there is nothing to roll back.
BeginFails ==
  /\ Answers("begin")
  /\ Refused("begin")
  /\ error' = [kind |-> "begin", recorded |-> FALSE]
  /\ pc' = "rejected"
  /\ UNCHANGED <<poolVars, dead, activeClient, transactionDepth, outcomeUnknown,
                 failure, calls, unsafe, verdict>>

\* runRootWork: a recorded failure replaces the result of the work.
RootError(e) ==
  IF failure = "none" THEN e ELSE [kind |-> failure, recorded |-> TRUE]

RootWorkReturns ==
  /\ pc = "app"
  /\ calls # <<>> /\ Last(calls).kind = "root"
  /\ \/ failure = "none" /\ pc' = "commit" /\ UNCHANGED error
     \/ pc' = "rollback" /\ error' = RootError(Plain)
  /\ UNCHANGED <<server, activeClient, transactionDepth, outcomeUnknown, failure,
                 calls, unsafe, verdict>>

RootWorkThrows ==
  /\ pc = "unwinding"
  /\ calls # <<>> /\ Last(calls).kind = "root"
  /\ pc' = "rollback"
  /\ error' = RootError(error)
  /\ UNCHANGED <<server, activeClient, transactionDepth, outcomeUnknown, failure,
                 calls, unsafe, verdict>>

CommitSucceeds ==
  /\ Answers("commit")
  /\ Succeeds("commit")
  /\ pc' = "resolved"
  /\ UNCHANGED <<poolVars, dead, activeClient, transactionDepth, outcomeUnknown,
                 failure, calls, error, unsafe, verdict>>

\* 40001 and 40P01 prove that the transaction was aborted; any other failure
\* leaves its outcome open.
CommitFails ==
  /\ Answers("commit")
  /\ \/ /\ activeClient \notin dead
        /\ stack' = [stack EXCEPT ![activeClient] = <<>>]
        /\ aborted' = aborted \ {activeClient}
        /\ error' = Plain
        /\ UNCHANGED durable
     \/ Refused("commit") /\ error' = [kind |-> "unknown", recorded |-> FALSE]
  /\ pc' = "rollback"
  /\ UNCHANGED <<poolVars, dead, activeClient, transactionDepth, outcomeUnknown,
                 failure, calls, unsafe, verdict>>

RolledBack ==
  /\ Answers("rollback")
  /\ Succeeds("rollback")
  /\ pc' = "rejected"
  /\ UNCHANGED <<poolVars, dead, activeClient, transactionDepth, outcomeUnknown,
                 failure, calls, error, unsafe, verdict>>

\* The clean-up error replaces the primary one, and still tells an unknown
\* outcome.
RollbackFails ==
  /\ Answers("rollback")
  /\ Refused("rollback")
  /\ error' = IF error.kind = "unknown" THEN error ELSE [error EXCEPT !.kind = "rollback"]
  /\ pc' = "rejected"
  /\ UNCHANGED <<poolVars, dead, activeClient, transactionDepth, outcomeUnknown,
                 failure, calls, unsafe, verdict>>

MakesUnsafeUnknown(e) == e.kind = "unknown"

\* observeFailure: the client is not to be used again.
MakesUnsafe(e) == e.kind \in {"unknown", "rollback", "begin"}

\* The finally of the root: only its owner gives the client back.
LeavesRoot(destroy) ==
  /\ transactionDepth' = 0
  /\ failure' = "none"
  /\ Leaves
  /\ IF Last(calls).owns
       THEN ClientIsForgotten /\ Releases(destroy) /\ UNCHANGED unsafe
       ELSE /\ unsafe' = IF destroy THEN unsafe \cup {activeClient} ELSE unsafe
            /\ UNCHANGED <<activeClient, pool, gone, stack, aborted>>
  /\ UNCHANGED <<provider, dead, durable>>

RootResolves ==
  /\ pc = "resolved"
  /\ LeavesRoot(FALSE)
  /\ Told(Last(calls).kept, "resolved")
  /\ Resolves
  /\ UNCHANGED outcomeUnknown

RootRejects ==
  /\ pc = "rejected"
  /\ outcomeUnknown' = (error.kind = "unknown")
  /\ LeavesRoot(MakesUnsafe(error))
  /\ Told(Last(calls).kept, IF error.kind = "unknown" THEN "unknown" ELSE "rejected")
  /\ Rejects([error EXCEPT !.recorded = FALSE])

-----------------------------------------------------------------------------
(* Savepoints *)

SavepointSet ==
  /\ Answers("savepoint")
  /\ Succeeds("savepoint")
  /\ error' = Plain
  /\ pc' \in {"app", "rollbackTo"}
  /\ UNCHANGED <<poolVars, dead, activeClient, transactionDepth, outcomeUnknown,
                 failure, calls, unsafe, verdict>>

CompromisesUnlessCleanUp(e) == e.kind = "savepoint"

\* compromisesEnclosingTransaction
Compromises(e) == e.kind \in {"savepoint", "cleanup"}

LeavesSavepoint == transactionDepth' = transactionDepth - 1

\* The transaction is gone from the server while its client is well.
IsGone == stack[activeClient] = <<>> /\ activeClient \notin dead

NestedRejects(e) ==
  /\ LeavesSavepoint
  /\ Leaves
  /\ Told(Last(calls).kept, "rejected")
  /\ Rejects(e)
  /\ IsGone /\ ~Catches => pc' = "unwinding"

\* observeNestedFailure: the first compromising error makes the root unusable.
Observed(e) ==
  IF failure = "none" /\ Compromises(e)
    THEN failure' = e.kind /\ NestedRejects([e EXCEPT !.recorded = TRUE])
    ELSE UNCHANGED failure /\ NestedRejects(e)

\* markRecovered: the rollback to this savepoint undid what was recorded.
Recovered(e) ==
  /\ failure' = IF e.recorded THEN "none" ELSE failure
  /\ NestedRejects([e EXCEPT !.recorded = FALSE])

SavepointFails ==
  /\ Answers("savepoint")
  /\ Refused("savepoint")
  /\ Observed([kind |-> "savepoint", recorded |-> FALSE])
  /\ UNCHANGED <<poolVars, dead, activeClient, outcomeUnknown, unsafe>>

NestedWorkReturns ==
  /\ pc = "app"
  /\ calls # <<>> /\ Last(calls).kind = "savepoint"
  /\ error' = Plain
  /\ pc' \in {"release", "rollbackTo"}
  /\ UNCHANGED <<server, activeClient, transactionDepth, outcomeUnknown, failure,
                 calls, unsafe, verdict>>

NestedWorkThrows ==
  /\ pc = "unwinding"
  /\ calls # <<>> /\ Last(calls).kind = "savepoint"
  /\ pc' = "rollbackTo"
  /\ UNCHANGED <<server, activeClient, transactionDepth, outcomeUnknown, failure,
                 calls, error, unsafe, verdict>>

Released ==
  /\ Answers("release")
  /\ Succeeds("release")
  /\ Resolves
  /\ LeavesSavepoint
  /\ calls' = [Front(calls) EXCEPT ![Len(calls) - 1].kept = @ \cup Last(calls).kept]
  /\ UNCHANGED <<poolVars, dead, activeClient, outcomeUnknown, failure, unsafe, verdict>>

ReleaseFails ==
  /\ Answers("release")
  /\ Refused("release")
  /\ error' = Plain
  /\ pc' = "rollbackTo"
  /\ UNCHANGED <<poolVars, dead, activeClient, transactionDepth, outcomeUnknown,
                 failure, calls, unsafe, verdict>>

\* PostgreSQL then releases the savepoint, MySQL leaves it where it is.
RolledBackToSavepoint ==
  /\ Answers("rollbackTo")
  /\ Succeeds("rollbackTo")
  /\ IF Postgres
       THEN /\ pc' = "releaseAfter"
            /\ UNCHANGED <<transactionDepth, failure, calls, error, verdict>>
       ELSE Recovered(error)
  /\ UNCHANGED <<poolVars, dead, activeClient, outcomeUnknown, unsafe>>

ReleasedAfter ==
  /\ Answers("releaseAfter")
  /\ Succeeds("releaseAfter")
  /\ Recovered(error)
  /\ UNCHANGED <<poolVars, dead, activeClient, outcomeUnknown, unsafe>>

CleanUpFails(command) ==
  /\ Answers(command)
  /\ Refused(command)
  /\ Observed([kind |-> "cleanup", recorded |-> FALSE])
  /\ UNCHANGED <<poolVars, dead, activeClient, outcomeUnknown, unsafe>>

-----------------------------------------------------------------------------
(* session() *)

SessionEnds ==
  /\ calls # <<>> /\ Last(calls).kind = "session"
  /\ \/ pc = "app" /\ Releases(FALSE) /\ Resolves
     \/ pc \in {"app", "unwinding"} /\ Releases(TRUE) /\ Rejects(error)
  /\ ClientIsForgotten
  /\ Leaves
  /\ UNCHANGED <<provider, dead, durable, transactionDepth, outcomeUnknown, failure,
                 unsafe, verdict>>

-----------------------------------------------------------------------------

AnswerArrives ==
  \/ \E c \in Clients : Connected(c)
  \/ ConnectFails
  \/ Begun \/ BeginFails
  \/ CommitSucceeds \/ CommitFails
  \/ RolledBack \/ RollbackFails
  \/ RootResolves \/ RootRejects
  \/ SavepointSet \/ SavepointFails
  \/ Released \/ ReleaseFails
  \/ RolledBackToSavepoint \/ ReleasedAfter
  \/ \E command \in {"rollbackTo", "releaseAfter"} : CleanUpFails(command)

WorkEnds ==
  \/ RootWorkReturns \/ RootWorkThrows
  \/ NestedWorkReturns \/ NestedWorkThrows
  \/ SessionEnds

Next ==
  \/ CallTransaction
  \/ CallSession
  \/ \E w \in Writes : Statement(w)
  \/ StatementFails
  \/ AnswerArrives
  \/ WorkEnds
  \/ SocketDies

Spec == Init /\ [][Next]_vars

\* The driver answers every command and a work function ends.
Fairness ==
  /\ WF_vars(AnswerArrives)
  /\ \A n \in 1..MaxDepth : SF_vars(WorkEnds /\ Len(calls) = n)

FairSpec == Spec /\ Fairness

-----------------------------------------------------------------------------
(* Properties *)

\* "Use transaction() when several saves or raw commands must commit together":
\* the writes of a transaction() that resolved are committed.
ResolvedIsDurable == \A w \in Writes : verdict[w] = "resolved" => w \in durable

\* The writes of a transaction() that rejected, at any depth, are not committed,
\* and neither are those of one whose work still runs.
RejectedIsGone ==
  \A w \in Writes :
    verdict[w] = "rejected" \/ (verdict[w] = "open" /\ pc = "app") => w \notin durable

\* What transaction() tells its caller is what the server did, through nested
\* scopes whose errors are caught or let through, clean-ups that fail, sockets
\* that die and savepoint names that are used again.  It is given up for a client
\* that session() goes on with after TransactionUsability has condemned it.
VerdictIsTrue == unsafe = {} => ResolvedIsDurable /\ RejectedIsGone

\* A client waits in the pool without a transaction, unless it is one that
\* session() should not have given back, and no client is lost, in a well-typed
\* state.
IdleClientsAreClean ==
  /\ TypeOK
  /\ \A c \in pool \ unsafe : stack[c] = <<>> /\ c \notin aborted
  /\ Clients \ (pool \cup gone) \subseteq {activeClient}

\* Every call gives its client back.
ClientsComeBack == activeClient # NoClient ~> activeClient = NoClient
=============================================================================
