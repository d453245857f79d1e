----------------------------- MODULE DataSource -----------------------------
(***************************************************************************)
(* An application-scoped EntityKitDataSource: the contexts that lease a    *)
(* connection from it, the operations that executeWithRetry() runs again   *)
(* after a transient failure, and its disposal (packages/core/src/storage).*)
(* Below it is either the source of a server's pool, where a commit may    *)
(* lose its verdict, or the SQLite source that keeps up to MaxIdle native  *)
(* handles for the next lease (sqlite-reusable-connection-source.ts).      *)
(*                                                                         *)
(* The callback that executeWithRetry() is given is any program: it leases *)
(* contexts, runs statements and transactions on them, and settles as it   *)
(* likes, or with a lease still out.  Some callbacks are careful (below):  *)
(* for those alone a retry is harmless.                                    *)
(*                                                                         *)
(* JavaScript runs one continuation at a time: an action is what happens   *)
(* between two awaits.  Giving a lease back takes up to three of them, and *)
(* another lease, retry or disposal may run in between.                    *)
(***************************************************************************)
EXTENDS Integers, Sequences, FiniteSets, SequencesExt

CONSTANTS
  Contexts,     \* contexts the application leases for itself, one after another
  Operations,   \* calls of executeWithRetry(); each attempt leases a context
  Handles,      \* native SQLite handles; a closed one may be opened anew
  MaxIdle,      \* maxIdleConnections
  MaxAttempts,  \* retryPolicy.maxAttempts
  MaxLeases,    \* bound: leases a context or an attempt takes
  MaxWork,      \* bound: statements, streams and transactions of a lease
  LeavesOpen,   \* a stream of a transaction may still be open when it ends
  NoHandle,
  NoOwner

Owners == Contexts \cup Operations

ASSUME SettingsAssumption ==
  /\ Contexts \cap Operations = {} /\ NoOwner \notin Owners
  /\ NoHandle \notin Handles
  /\ IsFiniteSet(Owners)
  /\ Cardinality(Owners) + MaxIdle <= Cardinality(Handles)
  /\ MaxIdle \in Nat /\ MaxAttempts \in Nat \ {0}
  /\ MaxLeases \in Nat /\ MaxWork \in Nat /\ LeavesOpen \in BOOLEAN

VARIABLES
  provider,         \* which kind of source the application configured
  idle,             \* SqliteReusableConnectionSource.idle
  active,           \* SqliteReusableConnectionSource.active
  handles,          \* what each native handle carries
  careful,          \* operations with a careful callback (see Careful)
  leases,           \* the lease of each owner
  taken,            \* leases an owner has taken (an operation: this attempt)
  activeLeases,     \* EntityKitDataSource.activeLeases
  activeOperations, \* EntityKitDataSource.activeOperations
  operations,       \* where each executeWithRetry() is
  aborted,          \* operations whose signal has fired
  applied,          \* attempts of an operation that left something durable
  disposal          \* disposePromise of the data source

vars == <<provider, idle, active, handles, careful, leases, taken, activeLeases,
          activeOperations, operations, aborted, applied, disposal>>
givenVars  == <<provider, careful>>
sourceVars == <<idle, active, handles>>
countVars  == <<taken, activeLeases, activeOperations, disposal>>

Settlements == {"resolved", "transient", "permanent", "unknown"}
Settings == {"raw", "scoped"}       \* session state a handle may carry

TypeOK ==
  /\ provider \in {"sqlite", "server"}
  /\ idle \in Seq(Handles) /\ active \in Nat
  /\ handles \in [Handles -> [open : BOOLEAN, transaction : BOOLEAN,
                              settings : SUBSET Settings,
                              cursor : Owners \cup {NoOwner}]]
  /\ leases \in [Owners ->
       [pc : {"none", "ready", "transaction", "streaming", "closing", "released"},
        handle : Handles \cup {NoHandle}, reusable : BOOLEAN,
        outcomeUnknown : BOOLEAN, reading : BOOLEAN, scoped : BOOLEAN,
        work : 0..MaxWork]]
  /\ careful \in SUBSET Operations
  /\ taken \in [Owners -> 0..MaxLeases]
  /\ activeLeases \in Nat /\ activeOperations \in Nat
  /\ operations \in [Operations ->
       [pc : {"idle", "loop", "attempting", "delaying", "done"},
        attempt : 1..MaxAttempts, heard : Settlements \cup {"none"}, left : BOOLEAN]]
  /\ aborted \in SUBSET Operations
  /\ applied \in [Operations -> Nat]
  /\ disposal \in {"none", "closing", "done", "failed", "refused"}

Disposed   == disposal # "none"
FreshHandle == [open |-> TRUE, transaction |-> FALSE, settings |-> {}, cursor |-> NoOwner]
ClosedHandle == [FreshHandle EXCEPT !.open = FALSE]
NoLease == [pc |-> "none", handle |-> NoHandle, reusable |-> TRUE,
            outcomeUnknown |-> FALSE, reading |-> FALSE, scoped |-> FALSE, work |-> 0]

Init ==
  /\ provider \in {"sqlite", "server"}
  /\ idle = <<>> /\ active = 0
  /\ handles = [h \in Handles |-> ClosedHandle]
  /\ leases = [x \in Owners |-> NoLease]
  /\ careful \in SUBSET Operations
  /\ taken = [x \in Owners |-> 0]
  /\ activeLeases = 0 /\ activeOperations = 0
  /\ operations = [o \in Operations |-> [pc |-> "idle", attempt |-> 1,
                                        heard |-> "none", left |-> FALSE]]
  /\ aborted = {} /\ applied = [o \in Operations |-> 0]
  /\ disposal = "none"

-----------------------------------------------------------------------------
(* Taking a lease.                                                         *)

(* What executeWithRetry() asks for is "retry-safe work"                   *)
(* (entity-kit-data-source-types.ts:44): the work of a careful callback.   *)
(* A careful callback runs one transaction per attempt, asks it for no     *)
(* option that SQLite has to reset, leaves nothing durable outside it, and *)
(* settles as it did.  heard is what that transaction came to; a careful   *)
(* callback begins nothing after it has heard, and has given its leases    *)
(* back when it settles.                                                   *)
Careful(x, condition) == x \in careful => condition
HasHeard(x) == x \in Operations /\ operations[x].heard # "none"

(* A context is leased by the application or by the attempt of a retry.    *)
WantsLease(x) ==
  /\ taken[x] < MaxLeases
  /\ x \in Operations => operations[x].pc = "attempting"
  /\ Careful(x, ~HasHeard(x))

(* What idle.pop() leaves for the others.                                  *)
StillIdle == Front(idle)

(* new SqliteDatabaseConnection(): any handle that is not open will do.    *)
NewHandle == CHOOSE h \in Handles : ~handles[h].open

(* A file that cannot be opened throws before anything is counted.         *)
CreateConnection(x) ==
  /\ leases[x].pc = "none" /\ WantsLease(x) /\ ~Disposed
  /\ activeLeases' = activeLeases + 1
  /\ taken' = [taken EXCEPT ![x] = @ + 1]
  /\ \/ /\ provider = "server"
        /\ leases' = [leases EXCEPT ![x] = [NoLease EXCEPT !.pc = "ready"]]
        /\ UNCHANGED sourceVars
     \/ /\ provider = "sqlite" /\ idle # <<>>
        /\ leases' = [leases EXCEPT ![x] =
                        [NoLease EXCEPT !.pc = "ready", !.handle = Last(idle)]]
        /\ idle' = StillIdle /\ active' = active + 1 /\ UNCHANGED handles
     \/ /\ provider = "sqlite" /\ idle = <<>>
        /\ \E h \in Handles :
             /\ h = NewHandle
             /\ leases' = [leases EXCEPT ![x] =
                             [NoLease EXCEPT !.pc = "ready", !.handle = h]]
             /\ handles' = [handles EXCEPT ![h] = FreshHandle]
        /\ active' = active + 1 /\ UNCHANGED idle
  /\ UNCHANGED <<givenVars, activeOperations, operations, aborted, applied, disposal>>

-----------------------------------------------------------------------------
(* Working with it.                                                        *)

MayWork(x) ==
  leases[x].work < MaxWork /\ ~leases[x].outcomeUnknown /\ ~leases[x].reading

(* What the transaction of a retried operation came to.                    *)
Hears(x, verdict) ==
  operations' = IF x \in Operations
                THEN [operations EXCEPT ![x].heard = verdict] ELSE operations

(* The same, and the attempt has left something durable.                   *)
HearsDurable(x, verdict) ==
  /\ operations' = IF x \in Operations
                   THEN [operations EXCEPT ![x].heard = verdict, ![x].left = TRUE]
                   ELSE operations
  /\ applied' = IF x \in Operations /\ ~operations[x].left
                THEN [applied EXCEPT ![x] = @ + 1] ELSE applied

(* A statement outside of a transaction may write, and is durable at once. *)
Writes(x) ==
  \/ UNCHANGED <<operations, applied>>
  \/ /\ x \in Operations \ careful /\ leases[x].pc = "ready"
     /\ provider = "sqlite" => ~handles[leases[x].handle].transaction
     /\ HearsDurable(x, operations[x].heard)

(* query(): on SQLite, SQL that may change the session retires the handle, *)
(* and so does a failure; the work may catch it and go on.                 *)
Query(x) ==
  /\ leases[x].pc \in {"ready", "transaction"} /\ MayWork(x)
  /\ \E classified, fails \in BOOLEAN :
       /\ leases' = [leases EXCEPT ![x].work = @ + 1,
                                   ![x].reusable = @ /\ classified /\ ~fails]
       /\ handles' = IF classified \/ provider = "server" THEN handles
                     ELSE [handles EXCEPT ![leases[x].handle].settings = @ \cup {"raw"}]
  /\ Writes(x)
  /\ UNCHANGED <<givenVars, idle, active, countVars, aborted>>

(* stream(): alone it holds the guard until it ends; in a transaction it   *)
(* holds back the queries of that transaction only.                        *)
OpenStream(x) ==
  /\ provider = "sqlite" /\ leases[x].pc \in {"ready", "transaction"} /\ MayWork(x)
  /\ \E classified \in BOOLEAN :
       /\ leases' = [leases EXCEPT ![x].work = @ + 1,
                                   ![x].reusable = @ /\ classified,
                                   ![x].reading = TRUE,
                                   ![x].pc = IF @ = "ready" THEN "streaming" ELSE @]
       /\ handles' = [handles EXCEPT
            ![leases[x].handle].cursor = x,
            ![leases[x].handle].settings = IF classified THEN @ ELSE @ \cup {"raw"}]
  /\ Writes(x)
  /\ UNCHANGED <<givenVars, idle, active, countVars, aborted>>

StreamEnds(x) ==
  /\ leases[x].reading /\ leases[x].pc \in {"streaming", "transaction"}
  /\ \E fails \in BOOLEAN :
       leases' = [leases EXCEPT ![x].reading = FALSE, ![x].reusable = @ /\ ~fails,
                                ![x].pc = IF @ = "streaming" THEN "ready" ELSE @]
  /\ handles' = [handles EXCEPT ![leases[x].handle].cursor = NoOwner]
  /\ UNCHANGED <<givenVars, idle, active, countVars, operations, aborted, applied>>

-----------------------------------------------------------------------------
(* A transaction.                                                          *)

(* SqliteTransactionRunner applies the options before "begin" and resets   *)
(* them on every way out, "begin" refused included.                        *)
BeginSqlite(x) ==
  LET h == leases[x].handle IN
  \E scoped, begun, resets \in BOOLEAN :
    /\ Careful(x, ~scoped)
    /\ handles[h].transaction => ~begun
    /\ handles' = [handles EXCEPT
         ![h].transaction = @ \/ begun,
         ![h].settings = IF scoped /\ (begun \/ ~resets) THEN @ \cup {"scoped"} ELSE @]
    /\ leases' = [leases EXCEPT ![x].work = @ + 1, ![x].reusable = @ /\ begun,
                                ![x].scoped = scoped /\ begun,
                                ![x].pc = IF begun THEN "transaction" ELSE @]
    /\ IF begun THEN UNCHANGED operations
       ELSE \E verdict \in {"transient", "permanent"} : Hears(x, verdict)

BeginTransaction(x) ==
  /\ leases[x].pc = "ready" /\ MayWork(x) /\ Careful(x, ~HasHeard(x))
  /\ \/ provider = "sqlite" /\ BeginSqlite(x)
     \/ /\ provider = "server"
        /\ leases' = [leases EXCEPT ![x].work = @ + 1, ![x].pc = "transaction"]
        /\ UNCHANGED <<handles, operations>>
  /\ UNCHANGED <<givenVars, idle, active, countVars, aborted, applied>>

(* "commit", or the rollback of what failed, then the resets.  An iterator *)
(* left open still sits on the handle; only the guard forgets it.          *)
(* A rollback that fails leaves the native transaction open although       *)
(* isInTransaction is false again.                                         *)
(* A reset that fails after "commit" is thrown as it is, and may be one of *)
(* the errors that are retried.                                            *)
EndSqlite(x) ==
  LET h == leases[x].handle IN
  \E committed, rolledBack, resets \in BOOLEAN :
    /\ ~leases[x].scoped => resets
    /\ handles' = [handles EXCEPT
         ![h].transaction = ~committed /\ ~rolledBack,
         ![h].settings = IF leases[x].scoped /\ resets THEN @ \ {"scoped"} ELSE @]
    /\ leases' = [leases EXCEPT ![x].pc = "ready", ![x].reading = FALSE,
                                ![x].scoped = FALSE,
                                ![x].reusable = @ /\ committed /\ resets]
    /\ \/ committed /\ resets /\ HearsDurable(x, "resolved")
       \/ /\ committed /\ ~resets
          /\ \E verdict \in {"transient", "permanent"} : HearsDurable(x, verdict)
       \/ /\ ~committed /\ UNCHANGED applied
          /\ \E verdict \in {"transient", "permanent"} : Hears(x, verdict)

(* What a server's client can tell of its transaction; when the commit is  *)
(* lost on the way, the guarded connection refuses everything else.        *)
EndServer(x) ==
  /\ leases' = [leases EXCEPT ![x].pc = "ready"]
  /\ \/ HearsDurable(x, "resolved")
     \/ /\ \E verdict \in {"transient", "permanent"} : Hears(x, verdict)
        /\ UNCHANGED applied
  /\ UNCHANGED handles

LosesVerdict(x) ==
  /\ leases' = [leases EXCEPT ![x].pc = "ready", ![x].outcomeUnknown = TRUE]
  /\ \/ HearsDurable(x, "unknown")
     \/ Hears(x, "unknown") /\ UNCHANGED applied
  /\ UNCHANGED handles

EndTransaction(x) ==
  /\ leases[x].pc = "transaction"
  /\ leases[x].reading => LeavesOpen
  /\ \/ provider = "sqlite" /\ EndSqlite(x)
     \/ provider = "server" /\ (EndServer(x) \/ LosesVerdict(x))
  /\ UNCHANGED <<givenVars, idle, active, countVars, aborted>>

-----------------------------------------------------------------------------
(* Giving it back.                                                         *)

(* dispose() of the lease: refused while the guard is held.  The handle    *)
(* goes back to the idle ones only if nothing of this lease is left on it. *)
KeptWhateverHappened(x) == Len(idle) < MaxIdle
Kept(x) == leases[x].reusable /\ Len(idle) < MaxIdle

ReturnLease(x) ==
  /\ leases[x].pc = "ready"
  /\ \/ /\ provider = "server"
        /\ leases' = [leases EXCEPT ![x].pc = "released"]
        /\ UNCHANGED sourceVars
     \/ /\ provider = "sqlite" /\ Kept(x)
        /\ idle' = Append(idle, leases[x].handle) /\ active' = active - 1
        /\ leases' = [leases EXCEPT ![x].pc = "released", ![x].handle = NoHandle]
        /\ UNCHANGED handles
     \/ /\ provider = "sqlite" /\ ~Kept(x)
        /\ handles' = [handles EXCEPT ![leases[x].handle] = ClosedHandle]
        /\ leases' = [leases EXCEPT ![x].pc = "closing", ![x].handle = NoHandle]
        /\ UNCHANGED <<idle, active>>
  /\ UNCHANGED <<givenVars, countVars, operations, aborted, applied>>

(* A bug to tell apart: the count survives a handle that fails to close.   *)
CloseMayKeepCount(x) ==
  /\ leases[x].pc = "closing"
  /\ active' \in {active, active - 1}
  /\ leases' = [leases EXCEPT ![x].pc = "released"]
  /\ UNCHANGED <<givenVars, idle, handles, countVars, operations, aborted, applied>>

(* The source counts the closed handle off even if closing threw.          *)
CloseSettles(x) ==
  /\ leases[x].pc = "closing"
  /\ active' = active - 1
  /\ leases' = [leases EXCEPT ![x].pc = "released"]
  /\ UNCHANGED <<givenVars, idle, handles, countVars, operations, aborted, applied>>

(* The finally of DataSourceConnectionLease.dispose().                     *)
ReleaseLease(x) ==
  /\ leases[x].pc = "released"
  /\ leases' = [leases EXCEPT ![x] = NoLease]
  /\ activeLeases' = activeLeases - 1
  /\ UNCHANGED <<givenVars, sourceVars, taken, activeOperations, operations,
                 aborted, applied, disposal>>

-----------------------------------------------------------------------------
(* executeWithRetry().                                                     *)

Execute(o) ==
  /\ operations[o].pc = "idle" /\ ~Disposed
  /\ activeOperations' = activeOperations + 1
  /\ operations' = [operations EXCEPT ![o].pc = "loop"]
  /\ UNCHANGED <<givenVars, sourceVars, leases, taken, activeLeases, aborted,
                 applied, disposal>>

Leaves(o) ==
  /\ operations' = [operations EXCEPT ![o].pc = "done"]
  /\ activeOperations' = activeOperations - 1

StartAttempt(o) ==
  /\ operations[o].pc = "loop"
  /\ \/ (Disposed \/ o \in aborted) /\ Leaves(o) /\ UNCHANGED taken
     \/ /\ ~Disposed /\ o \notin aborted
        /\ operations' = [operations EXCEPT ![o].pc = "attempting",
                                            ![o].heard = "none", ![o].left = FALSE]
        /\ taken' = [taken EXCEPT ![o] = 0]
        /\ UNCHANGED activeOperations
  /\ UNCHANGED <<givenVars, sourceVars, leases, activeLeases, aborted, applied, disposal>>

MayRetryUnknown(o, verdict) ==
  operations[o].attempt < MaxAttempts /\ verdict \in {"transient", "unknown"}

MayRetry(o, verdict) ==
  /\ verdict # "unknown"
  /\ operations[o].attempt < MaxAttempts
  /\ verdict = "transient"

(* What the callback returns or throws: a careful one settles as its       *)
(* transaction did, and as it likes when it ran none.                      *)
MaySettle(o) ==
  IF o \in careful /\ HasHeard(o) THEN {operations[o].heard} ELSE Settlements

AttemptSettles(o) ==
  /\ operations[o].pc = "attempting" /\ Careful(o, leases[o].pc = "none")
  /\ \E verdict \in MaySettle(o) :
       \/ /\ MayRetry(o, verdict) /\ o \notin aborted
          /\ operations' = [operations EXCEPT ![o].pc = "delaying"]
          /\ UNCHANGED activeOperations
       \/ (~MayRetry(o, verdict) \/ o \in aborted) /\ Leaves(o)
  /\ UNCHANGED <<givenVars, sourceVars, leases, taken, activeLeases, aborted,
                 applied, disposal>>

DelayEnds(o) ==
  /\ operations[o].pc = "delaying"
  /\ \/ o \in aborted /\ Leaves(o)
     \/ /\ o \notin aborted
        /\ operations' = [operations EXCEPT ![o].pc = "loop", ![o].attempt = @ + 1]
        /\ UNCHANGED activeOperations
  /\ UNCHANGED <<givenVars, sourceVars, leases, taken, activeLeases, aborted,
                 applied, disposal>>

(* The signal of the retry; it does not reach into an attempt.             *)
Abort(o) ==
  /\ o \notin aborted /\ operations[o].pc \in {"loop", "attempting", "delaying"}
  /\ aborted' = aborted \cup {o}
  /\ UNCHANGED <<givenVars, sourceVars, leases, countVars, operations, applied>>

-----------------------------------------------------------------------------
(* dispose() of the data source.                                           *)

MayDispose == activeLeases = 0 /\ activeOperations = 0

(* Once the data source believes itself unused it disposes of its source,  *)
(* which has a count of its own; whatever that answers is kept for good.   *)
DisposeSource ==
  /\ disposal = "none" /\ MayDispose
  /\ \/ /\ provider = "server" /\ disposal' = "closing"
        /\ UNCHANGED sourceVars
     \/ /\ provider = "sqlite" /\ active > 0 /\ disposal' = "refused"
        /\ UNCHANGED sourceVars
     \/ /\ provider = "sqlite" /\ active = 0 /\ disposal' = "closing"
        /\ handles' = [h \in Handles |-> IF h \in ToSet(idle) THEN ClosedHandle ELSE handles[h]]
        /\ idle' = <<>> /\ UNCHANGED active
  /\ UNCHANGED <<givenVars, leases, taken, activeLeases, activeOperations,
                 operations, aborted, applied>>

DisposeSettles ==
  /\ disposal = "closing" /\ disposal' \in {"done", "failed"}
  /\ UNCHANGED <<givenVars, sourceVars, leases, taken, activeLeases,
                 activeOperations, operations, aborted, applied>>

-----------------------------------------------------------------------------
Uses(x) ==
  \/ CreateConnection(x) \/ Query(x) \/ OpenStream(x) \/ BeginTransaction(x)
Finishes(x) ==
  \/ StreamEnds(x) \/ EndTransaction(x) \/ ReturnLease(x)
  \/ CloseSettles(x) \/ ReleaseLease(x)
Retries(o) ==
  Execute(o) \/ StartAttempt(o) \/ AttemptSettles(o) \/ DelayEnds(o)

Next ==
  \/ \E x \in Owners : Uses(x) \/ Finishes(x)
  \/ \E o \in Operations : Retries(o) \/ Abort(o)
  \/ DisposeSource
  \/ DisposeSettles

Spec == Init /\ [][Next]_vars

(* Contexts are disposed on every path and work comes to an end; attempts  *)
(* go on until their verdict; the application shuts its source down.       *)
FairSpec ==
  /\ Spec
  /\ \A x \in Owners : WF_vars(Finishes(x))
  /\ \A o \in Operations : WF_vars(Retries(o) \/ CreateConnection(o))
  /\ WF_vars(DisposeSource) /\ WF_vars(DisposeSettles)

-----------------------------------------------------------------------------
(* Properties.                                                             *)

(* Disposal waits for everyone: once the data source has been disposed of  *)
(* no lease is out, no retry is under way that would lease again, and the  *)
(* source below, which counts for itself, had no reason to refuse - a      *)
(* refusal would be remembered, and the idle handles never closed; all of  *)
(* it in a well-typed state.                                               *)
(* (entity-kit-data-source.ts:121, sqlite-reusable-connection-source.ts:41)*)
DisposedMeansUnused ==
  /\ TypeOK
  /\ Disposed =>
       /\ \A x \in Owners : leases[x].pc = "none"
       /\ \A o \in Operations : operations[o].pc \in {"idle", "done"}
       /\ disposal # "refused"
       /\ \A h \in Handles : ~handles[h].open

Exclusive ==
  /\ \A x, y \in Owners :
       x # y /\ leases[x].handle # NoHandle => leases[x].handle # leases[y].handle
  /\ IsInjective(idle)
  /\ \A x \in Owners : leases[x].handle \notin ToSet(idle)
  /\ \A x \in Owners : leases[x].handle # NoHandle =>
       handles[leases[x].handle].cursor \in {x, NoOwner}

IdleHandlesAreClean == \A h \in ToSet(idle) : handles[h] = FreshHandle

(* "Every live lease exclusively owns a native handle": nobody else holds  *)
(* it, it is not idle meanwhile, and nobody else reads rows from it.  One  *)
(* that waits for the next lease is open, in no transaction, and carries   *)
(* no setting of the lease before: a failed rollback, a failed reset and   *)
(* unclassified SQL have all retired it.  And a disposal has outlived them *)
(* all.                                                                    *)
(* (sqlite-reusable-connection-source.ts:7, sqlite-reused-connection.ts:67) *)
LeasesOwnHandles == Exclusive /\ IdleHandlesAreClean /\ DisposedMeansUnused

(* "It never retries an unknown transaction outcome" (API.md:75): the *)
(* work of an operation becomes durable at most once, if its callback is   *)
(* careful.  A careful transaction that failed left nothing behind, and    *)
(* one whose outcome is unknown is not run again.  For other callbacks the *)
(* loop promises nothing: one that throws a transient error after it has   *)
(* committed is run again, and what it committed is applied again.         *)
(* (entity-kit-data-source.ts:98-107)                                      *)
AppliedAtMostOnce == \A o \in careful : applied[o] <= 1

(* No way through leases and retries loses a count: a source that the      *)
(* application wants to dispose of is disposed of in the end.              *)
(* (data-source-connection-lease.ts:70, entity-kit-data-source.ts:111)     *)
ShutdownEnds == <>[](disposal \in {"done", "failed"})
=============================================================================
