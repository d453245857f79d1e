--------------------------- MODULE OperationGuard ---------------------------
(***************************************************************************)
(* The guards that let one operation at a time onto the connection of a    *)
(* context, and the lazy loads that queue up for it.  Whether a call       *)
(* belongs to the operation that has the guard is decided by one async     *)
(* local store, shared by all guards: work inherits the scopes it was      *)
(* started in, also when nobody awaits it and the scope has ended since.   *)
(*                                                                         *)
(* Code: packages/core/src/storage/{exclusive-operation-guard,             *)
(* guarded-database-connection}.ts, core/{lazy-load-scheduler,             *)
(* lazy-navigation-coordinator}.ts.                                        *)
(*                                                                         *)
(* A chain is a line of execution of the application; it goes on while     *)
(* what it awaits does, and a chain it starts without awaiting is one of   *)
(* its own.  A load is a chain of the scheduler with a single query.  What *)
(* a refused call throws changes nothing here and is left out.             *)
(***************************************************************************)
EXTENDS Naturals, Sequences, FiniteSets, SequencesExt

CONSTANTS
  Guards,     \* one for each context
  Lazy,       \* the guard of the context that loads lazily
  Chains,
  Loads,      \* navigations of tracked entities
  Streams,
  MaxScopes,  \* bound on operations that are not nested; a load finds room for its own
  MaxDepth,   \* bound on the nesting of calls in a chain
  Budget,     \* maxPerContext of lazy loading
  None        \* no token; no load

ASSUME OperationGuardAssumption ==
  /\ Lazy \in Guards
  /\ {MaxScopes, Budget} \subseteq Nat /\ MaxDepth \in Nat \ {0}
  /\ Chains \cap Loads = {}
  /\ (Streams \cup {None}) \cap 0 .. MaxScopes = {}
  /\ None \notin Streams \cup Loads

VARIABLES
  token,     \* activeToken of each guard: a scope, a stream that owns it, or None
  scopes,    \* the operation scopes there have been
  live,      \* the chains that run
  base,      \* the store in which a chain or load was started; 0 if there was none
  inherited, \* history: the scopes in whose work it was started
  frames,    \* the guarded calls that each of them is inside of
  streams,   \* the streams that are open, and the scope each has borrowed or 0
  queue,     \* loads that wait or run: the promises behind `tail`
  loaded,    \* navigations that are loaded
  count,     \* lazyLoadCount
  waiting    \* the load whose result a chain awaits

storeVars == <<live, base, inherited>>
loadVars == <<queue, loaded, count, waiting>>
vars == <<token, scopes, storeVars, frames, streams, loadVars>>

Actors == Chains \cup Loads
Scopes == 1 .. MaxScopes
Scope == [guard : Guards, parent : 0 .. MaxScopes, active : BOOLEAN, querying : BOOLEAN]
Frame == [kind : {"work", "query"}, guard : Guards, scope : Scopes, owns : BOOLEAN]
Stream == [guard : Guards, scope : 0 .. MaxScopes]

TypeOK ==
  /\ token \in [Guards -> Scopes \cup Streams \cup {None}]
  /\ scopes \in Seq(Scope) /\ Len(scopes) <= MaxScopes
  /\ live \subseteq Chains
  /\ base \in [Actors -> 0 .. MaxScopes]
  /\ inherited \in [Actors -> SUBSET Scopes]
  /\ frames \in [Actors -> Seq(Frame)]
  /\ DOMAIN streams \subseteq Streams /\ \A s \in DOMAIN streams : streams[s] \in Stream
  /\ queue \in Seq(Loads)
  /\ loaded \subseteq Loads
  /\ count \in 0 .. Budget
  /\ waiting \in [Chains -> Loads \cup {None}]

Init ==
  /\ token = [g \in Guards |-> None]
  /\ scopes = <<>>
  /\ live = {}
  /\ base = [a \in Actors |-> 0]
  /\ inherited = [a \in Actors |-> {}]
  /\ frames = [a \in Actors |-> <<>>]
  /\ streams = <<>>
  /\ queue = <<>> /\ loaded = {} /\ count = 0
  /\ waiting = [c \in Chains |-> None]

-----------------------------------------------------------------------------
(* The async local store                                                   *)

\* The calls of a that run in a scope of their own.
Owning(a) == {i \in DOMAIN frames[a] : frames[a][i].owns}

\* What getStore() returns to a.
Store(a) == IF Owning(a) = {} THEN base[a] ELSE frames[a][Max(Owning(a))].scope

PathWhileActive(i) ==
  LET path[k \in 0 .. Len(scopes)] ==
        IF k = 0 \/ ~scopes[k].active THEN {} ELSE {k} \cup path[scopes[k].parent]
  IN  path[i]

\* The scope i and its parents, as the scopes hold them.
Path(i) ==
  LET path[k \in 0 .. Len(scopes)] ==
        IF k = 0 THEN {} ELSE {k} \cup path[scopes[k].parent]
  IN  path[i]

Visible(a) == Path(Store(a))

\* currentScope: the operation that has the guard, if a is part of it.
Joins(a, g) == token[g] \in Visible(a)

\* activeParentScope: expired scopes are skipped.
ActiveParent(a) ==
  LET up[k \in 0 .. Len(scopes)] ==
        IF k = 0 \/ scopes[k].active THEN k ELSE up[scopes[k].parent]
  IN  up[Store(a)]

\* Everything in whose work a runs, its own calls and those it was started in.
Under(a) == inherited[a] \cup {frames[a][i].scope : i \in Owning(a)}

-----------------------------------------------------------------------------
(* Chains                                                                  *)

\* The chain runs code of the application.
Runs(c) ==
  /\ c \in live
  /\ waiting[c] = None
  /\ frames[c] # <<>> => Last(frames[c]).kind = "work"

Begins(c, store, scopesAround) ==
  /\ live' = live \cup {c}
  /\ base' = [base EXCEPT ![c] = store]
  /\ inherited' = [inherited EXCEPT ![c] = scopesAround]
  /\ UNCHANGED <<token, scopes, frames, streams, loadVars>>

Start(c) == c \notin live /\ Begins(c, 0, {})

\* Work is started and not awaited: it keeps the store of the one who started it.
Fork(p, c) ==
  /\ Runs(p) /\ c \notin live
  /\ Under(p) # {}
  /\ Begins(c, Store(p), Under(p))

Finish(c) ==
  /\ Runs(c) /\ frames[c] = <<>>
  /\ live' = live \ {c}
  /\ base' = [base EXCEPT ![c] = 0]
  /\ inherited' = [inherited EXCEPT ![c] = {}]
  /\ UNCHANGED <<token, scopes, frames, streams, loadVars>>

-----------------------------------------------------------------------------
(* run() and runQuery()                                                    *)

Entered(a, kind, g, scope, owns) ==
  frames' = [frames EXCEPT
    ![a] = Append(@, [kind |-> kind, guard |-> g, scope |-> scope, owns |-> owns])]

IgnoresQuery(scope) == TRUE
NoQuery(scope) == ~scopes[scope].querying

Querying(scope, flag) == [scopes EXCEPT ![scope].querying = flag]

\* The call is part of the operation that has the guard: its work just runs.
EntersNested(a, kind, g) ==
  /\ Joins(a, g)
  /\ kind = "query" => NoQuery(token[g])
  /\ scopes' = IF kind = "query" THEN Querying(token[g], TRUE) ELSE scopes
  /\ Entered(a, kind, g, token[g], FALSE)
  /\ UNCHANGED token

\* The guard is free: the call becomes an operation with a scope of its own.
EntersAlone(a, kind, g) ==
  LET new == Len(scopes) + 1
  IN  /\ token[g] = None
      /\ token' = [token EXCEPT ![g] = new]
      /\ scopes' = Append(scopes, [guard |-> g, parent |-> ActiveParent(a),
                                   active |-> TRUE, querying |-> kind = "query"])
      /\ Entered(a, kind, g, new, TRUE)

\* Bound: every load that waits may still need a scope.
Room == Len(scopes) + Len(queue) < MaxScopes

\* transaction(), session() and query() of the guarded connection.
Call(c, kind, g) ==
  /\ Runs(c)
  /\ Len(frames[c]) < MaxDepth
  /\ EntersNested(c, kind, g) \/ (Room /\ EntersAlone(c, kind, g))
  /\ UNCHANGED <<storeVars, streams, loadVars>>

\* The finally blocks: a query gives back the connection of its scope, an
\* operation the guard.
Ends(scope, owns, query) ==
  LET s == scopes[scope]
  IN  scopes' = [scopes EXCEPT ![scope] =
        [s EXCEPT !.active = @ /\ ~owns, !.querying = @ /\ ~query]]

Leaves(a) ==
  LET f == Last(frames[a])
  IN  /\ Ends(f.scope, f.owns, f.kind = "query")
      /\ token' = IF f.owns THEN [token EXCEPT ![f.guard] = None] ELSE token
      /\ frames' = [frames EXCEPT ![a] = Front(@)]

\* The work or the statement ends, with a result or an error; work that it has
\* started and does not await goes on.
Return(c) ==
  /\ c \in live /\ waiting[c] = None /\ frames[c] # <<>>
  /\ Leaves(c)
  /\ UNCHANGED <<storeVars, streams, loadVars>>

-----------------------------------------------------------------------------
(* stream()                                                                *)

Opened(s, g, scope) ==
  streams' = [x \in DOMAIN streams \cup {s} |->
               IF x = s THEN [guard |-> g, scope |-> scope] ELSE streams[x]]

\* The first next(): the stream joins the operation of its reader, or has the
\* guard itself, with a scope that nobody can join.
OpenStream(c, s, g) ==
  /\ Runs(c) /\ s \notin DOMAIN streams
  /\ \/ /\ Joins(c, g) /\ NoQuery(token[g])
        /\ scopes' = Querying(token[g], TRUE)
        /\ Opened(s, g, token[g])
        /\ UNCHANGED token
     \/ /\ token[g] = None
        /\ token' = [token EXCEPT ![g] = s]
        /\ Opened(s, g, 0)
        /\ UNCHANGED scopes
  /\ UNCHANGED <<storeVars, frames, loadVars>>

\* The rows are at their end, the reader leaves, or reading fails; this may come
\* after the operation that the stream has joined.
CloseStream(s) ==
  /\ s \in DOMAIN streams
  /\ IF streams[s].scope = 0
       THEN token' = [token EXCEPT ![streams[s].guard] = None] /\ UNCHANGED scopes
       ELSE scopes' = Querying(streams[s].scope, FALSE) /\ UNCHANGED token
  /\ streams' = [x \in DOMAIN streams \ {s} |-> streams[x]]
  /\ UNCHANGED <<storeVars, frames, loadVars>>

-----------------------------------------------------------------------------
(* Lazy loads                                                              *)

\* lazy(entity).navigation: a load under way is shared, and a new one waits for
\* all that are.  It will run in the store of the one who asked first.
Request(c, n) ==
  /\ Runs(c) /\ n \notin loaded
  /\ waiting' = [waiting EXCEPT ![c] = n]
  /\ \/ n \in Range(queue) /\ UNCHANGED <<base, inherited, queue, count>>
     \/ /\ n \notin Range(queue)
        /\ count < Budget /\ Room
        /\ count' = count + 1
        /\ queue' = Append(queue, n)
        /\ base' = [base EXCEPT ![n] = Store(c)]
        /\ inherited' = [inherited EXCEPT ![n] = Under(c)]
  /\ UNCHANGED <<token, scopes, live, frames, streams, loaded>>

Turn(n) == queue # <<>> /\ n = Head(queue)

StartLoad(n) ==
  /\ Turn(n) /\ frames[n] = <<>>
  /\ EntersNested(n, "query", Lazy) \/ EntersAlone(n, "query", Lazy)
  /\ UNCHANGED <<storeVars, streams, loadVars>>

\* `tail` has come to the load behind it, whatever became of this one.
PassesOn == queue' = Tail(queue)

\* All who await the load go on.
Settles(n, isLoaded) ==
  /\ PassesOn
  /\ waiting' = [c \in Chains |-> IF waiting[c] = n THEN None ELSE waiting[c]]
  /\ loaded' = IF isLoaded THEN loaded \cup {n} ELSE loaded
  /\ count' = IF isLoaded THEN count ELSE count - 1
  /\ base' = [base EXCEPT ![n] = 0]
  /\ inherited' = [inherited EXCEPT ![n] = {}]
  /\ UNCHANGED <<live, streams>>

WaitsForTheGuard(n) == FALSE

\* The load is not part of what has the guard, or that has a query or stream open.
Refused(n) ==
  /\ ~(Joins(n, Lazy) /\ NoQuery(token[Lazy]))
  /\ token[Lazy] # None

LoadIsRefused(n) ==
  /\ Turn(n) /\ frames[n] = <<>> /\ Refused(n)
  /\ Settles(n, FALSE)
  /\ UNCHANGED <<token, scopes, frames>>

LoadEnds(n) ==
  /\ frames[n] # <<>>
  /\ Leaves(n)
  /\ \E isLoaded \in BOOLEAN : Settles(n, isLoaded)

-----------------------------------------------------------------------------

LoadStep(n) == StartLoad(n) \/ LoadIsRefused(n) \/ LoadEnds(n)

Next ==
  \/ \E c \in Chains :
       \/ Start(c) \/ Finish(c) \/ Return(c)
       \/ \E p \in Chains : Fork(p, c)
       \/ \E g \in Guards, kind \in {"work", "query"} : Call(c, kind, g)
       \/ \E g \in Guards, s \in Streams : OpenStream(c, s, g)
       \/ \E n \in Loads : Request(c, n)
  \/ \E s \in Streams : CloseStream(s)
  \/ \E n \in Loads : LoadStep(n)

Spec == Init /\ [][Next]_vars

\* The scheduler goes on with its loads, and their statements return.  Nothing
\* is asked of the application, which may stay in a transaction for ever.
Fairness == \A n \in Loads : WF_vars(LoadStep(n))

FairSpec == Spec /\ Fairness

-----------------------------------------------------------------------------
(* Properties                                                              *)

\* Work is part of the operation that has the guard if and only if it was
\* started in that operation: work left over from an earlier operation, of this
\* guard or another, is not taken in by the current one, and work inside of it
\* is not refused, whatever expired scopes lie in between.
WorkKeepsItsScope ==
  \A a \in Actors, g \in Guards :
    token[g] \in Scopes => (Joins(a, g) <=> token[g] \in Under(a))

Calls == {x \in Actors \X (1 .. MaxDepth) : x[2] <= Len(frames[x[1]])}
CallOf(x) == frames[x[1]][x[2]]

\* What the operation that has guard g has in flight on its connection.
InFlight(g) ==
  {x \in Calls : CallOf(x).guard = g /\ CallOf(x).kind = "query" /\ CallOf(x).scope = token[g]}
  \cup {s \in DOMAIN streams : streams[s].guard = g /\ token[g] \in {s, streams[s].scope}}

\* A guard is held by one call or stream, from its start to its end, and gives
\* the connection to one query or stream at a time; lazy loads take turns.
OneQueryAtATime ==
  /\ TypeOK
  /\ \A g \in Guards : Cardinality(InFlight(g)) <= 1
  /\ \A g \in Guards : token[g] # None =>
       \/ token[g] \in DOMAIN streams /\ streams[token[g]].guard = g
       \/ \E x \in Calls : CallOf(x).owns /\ CallOf(x).guard = g /\ CallOf(x).scope = token[g]
  /\ \A x \in Calls : CallOf(x).owns => token[CallOf(x).guard] = CallOf(x).scope
  /\ \A n \in Loads : frames[n] # <<>> => n = Head(queue)

\* The budget counts the loads that have succeeded or are under way, each once: a
\* load that fails or is refused gives its place back, one that is shared takes no
\* second one, and whoever awaits a navigation awaits a load that is in the queue.
LoadsAreCounted ==
  /\ count = Cardinality(loaded) + Len(queue)
  /\ \A i, j \in 1 .. Len(queue) : queue[i] = queue[j] => i = j
  /\ \A i \in 1 .. Len(queue) : queue[i] \notin loaded
  /\ \A c \in Chains : waiting[c] # None => \E i \in 1 .. Len(queue) : queue[i] = waiting[c]

\* Whoever awaits a navigation gets an answer, also when loads before it fail or
\* are refused, and from within the very operation that has the guard.
NobodyWaitsForever == \A c \in Chains : waiting[c] # None ~> waiting[c] = None

=============================================================================
