---------------------------- MODULE ClientLeases ----------------------------
(***************************************************************************)
(* The clients of one PostgreSQL pool and the operations that check them   *)
(* out: buffered queries, row streams that own a client and a read-only    *)
(* transaction, and pinned sessions whose work streams and queries on the  *)
(* client of the session.  The AbortSignal of an operation may fire before *)
(* it starts, in the queue of the pool, between the delivery of a client   *)
(* and its first use, while a command is on the server, while the consumer *)
(* holds a row and during the clean-up.                                    *)
(*                                                                         *)
(* Every operation has a connection of its own, so the operation guard of  *)
(* a connection refuses none of them.                                      *)
(***************************************************************************)
EXTENDS Integers, Sequences, FiniteSets, SequencesExt

CONSTANTS
  Clients,       \* connections the pool may open
  Queries,       \* buffered queries
  Streams,       \* row streams outside of a session
  Sessions,      \* sessions, each with at most one stream and one query
  Cancellable,   \* operations that were given a signal
  SessionSignal, \* the stream of a session was given the signal as well
  Catches,       \* the work of a session may go on after its stream failed
  MaxFetches,    \* bound on the batches that a consumer reads
  NoClient

Operations == Queries \cup Streams \cup Sessions

ASSUME ClientLeasesAssumption ==
  /\ Queries \cap Streams = {} /\ Sessions \cap (Queries \cup Streams) = {}
  /\ Cancellable \subseteq Operations
  /\ {SessionSignal, Catches} \subseteq BOOLEAN
  /\ MaxFetches \in Nat \ {0}
  /\ NoClient \notin Clients

VARIABLES
  queue,         \* acquisitions that wait for the pool, canceled ones included
  idle,          \* clients in the pool
  client,        \* the client each operation has checked out
  inTransaction, \* clients with a transaction open on the server
  broken,        \* checked-out clients that reported an error event
  sent,          \* the client that executes a command of the operation
  aborted,       \* operations whose signal has fired
  pc,
  stream,        \* locals of the stream generator of each operation
  used,          \* commands a session's work has spent: "stream", "query"
  outcome

vars == <<queue, idle, client, inTransaction, broken, sent, aborted, pc,
          stream, used, outcome>>
poolVars == <<queue, idle, client, inTransaction, broken>>

NewStream == [started |-> FALSE, declared |-> FALSE, released |-> FALSE,
              safe |-> FALSE, fetches |-> 0, primary |-> "none",
              cleanup |-> FALSE]

Init ==
  /\ queue = <<>>
  /\ idle = Clients
  /\ client = [o \in Operations |-> NoClient]
  /\ inTransaction = {} /\ broken = {}
  /\ sent = [o \in Operations |-> NoClient]
  /\ aborted = {}
  /\ pc = [o \in Operations |-> "new"]
  /\ stream = [o \in Operations |-> NewStream]
  /\ used = [o \in Operations |-> {}]
  /\ outcome = [o \in Operations |-> "none"]

----------------------------------------------------------------------------
\* The pool and the client wrapper

\* release() takes a clean client back; a client that is destroyed, or that
\* reported an error, is replaced by a new one, and its commands reject.
Destroys(o, really) == really \/ client[o] \in broken

Release(o, destroys) ==
  LET c == client[o] IN
  /\ idle' = idle \cup {c}
  /\ client' = [client EXCEPT ![o] = NoClient]
  /\ inTransaction' = IF Destroys(o, destroys) THEN inTransaction \ {c}
                                               ELSE inTransaction
  /\ broken' = broken \ {c}

Keep == UNCHANGED <<idle, client, inTransaction, broken>>

Settles(o, result) ==
  /\ pc' = [pc EXCEPT ![o] = "settled"]
  /\ outcome' = [outcome EXCEPT ![o] = result]

\* A released or a broken client throws before anything reaches the server.
CanSend(o) == client[o] # NoClient /\ client[o] \notin broken

Sends(o, at) ==
  /\ CanSend(o)
  /\ sent' = [sent EXCEPT ![o] = client[o]]
  /\ pc' = [pc EXCEPT ![o] = at]

\* The command of o is answered, and nothing else is sent for the moment.
Answered(o) == sent' = [sent EXCEPT ![o] = NoClient]

SocketDies(o) ==
  /\ client[o] # NoClient /\ client[o] \notin broken
  /\ broken' = broken \cup {client[o]}
  /\ inTransaction' = inTransaction \ {client[o]}
  /\ UNCHANGED <<queue, idle, client, sent, aborted, pc, stream, used, outcome>>

\* An operation whose signal has fired already executes nothing.
Start(o) ==
  /\ pc[o] = "new"
  /\ IF o \in aborted
       THEN Settles(o, "canceled") /\ UNCHANGED queue
       ELSE /\ queue' = Append(queue, o)
            /\ pc' = [pc EXCEPT ![o] = "connecting"]
            /\ UNCHANGED outcome
  /\ Keep /\ UNCHANGED <<sent, aborted, stream, used>>

\* A client that arrives after the cancellation goes straight back.
StillWanted(o) == pc[o] = "connecting"

IsDropped(c) == idle' = idle \ {c} /\ UNCHANGED client

GoesBack(c) == UNCHANGED <<idle, client>>

Deliver(c) ==
  /\ queue # <<>> /\ c \in idle
  /\ LET o == Head(queue) IN
       IF StillWanted(o)
         THEN /\ idle' = idle \ {c}
              /\ client' = [client EXCEPT ![o] = c]
              /\ pc' = [pc EXCEPT ![o] = "connected"]
         ELSE GoesBack(c) /\ UNCHANGED pc
  /\ queue' = Tail(queue)
  /\ UNCHANGED <<inTransaction, broken, sent, aborted, stream, used, outcome>>

ConnectFails(o) ==
  /\ \E i \in 1 .. Len(queue) :
       queue[i] = o /\ queue' = RemoveAt(queue, i)
  /\ IF StillWanted(o) THEN Settles(o, "failed") ELSE UNCHANGED <<pc, outcome>>
  /\ Keep /\ UNCHANGED <<sent, aborted, stream, used>>

----------------------------------------------------------------------------
\* Buffered queries

\* The signal is looked at again between the delivery and the command.
QueryStarts(o) ==
  /\ o \in Queries /\ pc[o] = "connected"
  /\ IF o \in aborted \/ ~CanSend(o)
       THEN /\ Release(o, FALSE)
            /\ Settles(o, IF o \in aborted THEN "canceled" ELSE "failed")
            /\ UNCHANGED sent
       ELSE Sends(o, "querying") /\ Keep /\ UNCHANGED outcome
  /\ UNCHANGED <<queue, aborted, stream, used>>

\* A command can only succeed on a client that was not taken away meanwhile.
Answers(o, at) == pc[o] = at /\ sent[o] # NoClient
Succeeds(o) == sent[o] = client[o] /\ client[o] \notin broken

QueryAnswered(o) ==
  /\ o \in Queries /\ Answers(o, "querying") /\ Answered(o)
  /\ \/ Succeeds(o) /\ pc' = [pc EXCEPT ![o] = "answered"]
     \/ pc' = [pc EXCEPT ![o] = "rejected"]
  /\ UNCHANGED <<poolVars, aborted, stream, used, outcome>>

\* The finally of the query: an abort listener that fired has released already.
GivesBack(o) ==
  IF client[o] = NoClient THEN Keep ELSE Release(o, FALSE)

QueryEnds(o) ==
  /\ pc[o] \in {"answered", "rejected"}
  /\ GivesBack(o)
  /\ Settles(o, IF o \in aborted THEN "canceled"
                ELSE IF pc[o] = "answered" THEN "ok" ELSE "failed")
  /\ UNCHANGED <<queue, sent, aborted, stream, used>>

----------------------------------------------------------------------------
\* Row streams

Signalled(o) == o \in aborted /\ (o \in Sessions => SessionSignal)
StreamError(o) == IF Signalled(o) THEN "canceled" ELSE "failed"

EndsTransaction(o, s) ==
  IF ~s.released /\ s.started /\ CanSend(o)
    THEN Sends(o, "ending") /\ stream' = [stream EXCEPT ![o] = s]
    ELSE /\ pc' = [pc EXCEPT ![o] = "leaving"]
         /\ stream' = [stream EXCEPT ![o] =
              [s EXCEPT !.cleanup = @ \/ (~s.released /\ s.started)]]
         /\ Answered(o)

\* The cursor is closed unless the server refused something before.
Cleans(o, s) ==
  IF ~s.released /\ s.declared /\ s.primary # "failed"
    THEN IF CanSend(o)
           THEN Sends(o, "closing") /\ stream' = [stream EXCEPT ![o] = s]
           ELSE EndsTransaction(o, [s EXCEPT !.cleanup = TRUE])
    ELSE EndsTransaction(o, s)

StreamsOn(o, s, at) ==
  IF CanSend(o) /\ ~Signalled(o)
    THEN Sends(o, at) /\ stream' = [stream EXCEPT ![o] = s]
    ELSE Cleans(o, [s EXCEPT !.primary = StreamError(o)])

StreamStarts(o) ==
  /\ \/ o \in Streams /\ pc[o] = "connected"
     \/ o \in Sessions /\ pc[o] = "working" /\ "stream" \notin used[o]
  /\ StreamsOn(o, stream[o], "beginning")
  /\ used' = [used EXCEPT ![o] = @ \cup {"stream"}]
  /\ UNCHANGED <<poolVars, aborted, outcome>>

StreamBegun(o) ==
  /\ Answers(o, "beginning") /\ Succeeds(o)
  /\ inTransaction' = inTransaction \cup {client[o]}
  /\ StreamsOn(o, [stream[o] EXCEPT !.started = TRUE], "declaring")
  /\ UNCHANGED <<queue, idle, client, broken, aborted, used, outcome>>

Declared(o) ==
  /\ Answers(o, "declaring") /\ Succeeds(o)
  /\ StreamsOn(o, [stream[o] EXCEPT !.declared = TRUE], "fetching")
  /\ UNCHANGED <<poolVars, aborted, used, outcome>>

Fetched(o) ==
  /\ Answers(o, "fetching") /\ Succeeds(o)
  /\ pc' = [pc EXCEPT ![o] = "yielding"] /\ Answered(o)
  /\ stream' = [stream EXCEPT ![o].fetches = @ + 1]
  /\ UNCHANGED <<poolVars, aborted, used, outcome>>

\* BEGIN, DECLARE or FETCH rejects.  The transaction, if any, stays open.
StreamRejected(o) ==
  /\ \E at \in {"beginning", "declaring", "fetching"} : Answers(o, at)
  /\ LET s == [stream[o] EXCEPT !.primary = StreamError(o)] IN
       Cleans(o, s)
  /\ UNCHANGED <<poolVars, aborted, used, outcome>>

\* The consumer asks for more than the batch it was given ...
ConsumerReads(o) ==
  /\ pc[o] = "yielding" /\ stream[o].fetches < MaxFetches
  /\ StreamsOn(o, stream[o], "fetching")
  /\ UNCHANGED <<poolVars, aborted, used, outcome>>

\* ... reads the last row ...
RowsEnd(o) ==
  /\ pc[o] = "yielding"
  /\ Cleans(o, [stream[o] EXCEPT !.primary = IF Signalled(o) THEN "canceled" ELSE "none"])
  /\ UNCHANGED <<poolVars, aborted, used, outcome>>

\* ... or leaves the loop: the generator only runs its finally.
ConsumerReturns(o) ==
  /\ pc[o] = "yielding"
  /\ Cleans(o, stream[o])
  /\ UNCHANGED <<poolVars, aborted, used, outcome>>

CursorClosed(o) ==
  /\ Answers(o, "closing")
  /\ \/ Succeeds(o) /\ EndsTransaction(o, stream[o])
     \/ EndsTransaction(o, [stream[o] EXCEPT !.cleanup = TRUE])
  /\ UNCHANGED <<poolVars, aborted, used, outcome>>

TransactionEnded(o) ==
  /\ Answers(o, "ending") /\ Answered(o)
  /\ \/ /\ Succeeds(o)
        /\ inTransaction' = inTransaction \ {client[o]}
        /\ stream' = [stream EXCEPT ![o].safe = TRUE]
     \/ /\ stream' = [stream EXCEPT ![o].cleanup = TRUE]
        /\ UNCHANGED inTransaction
  /\ pc' = [pc EXCEPT ![o] = "leaving"]
  /\ UNCHANGED <<queue, idle, client, broken, aborted, used, outcome>>

StreamResult(s) == IF s.cleanup THEN "failed"
                   ELSE IF s.primary = "none" THEN "ok" ELSE s.primary

\* The finally of the lease: a client is only reused after a clean end.
LeavesWithSafe(o) ==
  IF stream[o].released \/ ~stream[o].safe THEN Keep ELSE Release(o, FALSE)

LeavesStream(o) ==
  IF stream[o].released THEN Keep ELSE Release(o, ~stream[o].safe)

StreamEnds(o) ==
  /\ o \in Streams /\ pc[o] = "leaving"
  /\ LeavesStream(o)
  /\ Settles(o, StreamResult(stream[o]))
  /\ UNCHANGED <<queue, sent, aborted, stream, used>>

----------------------------------------------------------------------------
\* Pinned sessions

SessionStarts(o) ==
  /\ o \in Sessions /\ pc[o] = "connected"
  /\ IF o \in aborted
       THEN Release(o, TRUE) /\ Settles(o, "canceled")
       ELSE Keep /\ pc' = [pc EXCEPT ![o] = "working"] /\ UNCHANGED outcome
  /\ UNCHANGED <<queue, sent, aborted, stream, used>>

\* The client goes back, or is destroyed when the work threw.  A client that
\* its stream has released already makes this throw instead.
Closes(o, completed, result) ==
  IF client[o] = NoClient
    THEN Keep /\ Settles(o, "failed")
    ELSE Release(o, ~completed) /\ Settles(o, result)

SessionStreamEnds(o) ==
  /\ o \in Sessions /\ pc[o] = "leaving"
  /\ LET result == StreamResult(stream[o]) IN
       \/ /\ result # "ok"
          /\ Closes(o, FALSE, result)
       \/ /\ result = "ok" \/ Catches
          /\ pc' = [pc EXCEPT ![o] = "working"]
          /\ Keep /\ UNCHANGED outcome
  /\ UNCHANGED <<queue, sent, aborted, stream, used>>

SessionQueries(o) ==
  /\ o \in Sessions /\ pc[o] = "working" /\ "query" \notin used[o]
  /\ used' = [used EXCEPT ![o] = @ \cup {"query"}]
  /\ IF CanSend(o)
       THEN Sends(o, "asking") /\ Keep /\ UNCHANGED outcome
       ELSE Closes(o, FALSE, "failed") /\ UNCHANGED sent
  /\ UNCHANGED <<queue, aborted, stream>>

SessionAnswered(o) ==
  /\ Answers(o, "asking") /\ Answered(o)
  /\ \/ Succeeds(o) /\ pc' = [pc EXCEPT ![o] = "working"]
                    /\ Keep /\ UNCHANGED outcome
     \/ Closes(o, FALSE, "failed")
  /\ UNCHANGED <<queue, aborted, stream, used>>

SessionEnds(o) ==
  /\ o \in Sessions /\ pc[o] = "working"
  /\ \/ Closes(o, TRUE, "ok")
     \/ Closes(o, FALSE, "failed")
  /\ UNCHANGED <<queue, sent, aborted, stream, used>>

----------------------------------------------------------------------------
\* The signal

\* The queue answers at once, and so does the query that is on the server.
AbortsQueued(o) ==
  /\ pc[o] = "connecting"
  /\ Settles(o, "canceled") /\ Keep /\ UNCHANGED <<sent, stream>>

AbortsQuery(o) ==
  /\ o \in Queries /\ pc[o] = "querying"
  /\ Release(o, TRUE) /\ Settles(o, "canceled") /\ Answered(o)
  /\ UNCHANGED stream

AbortsAnswered(o) ==
  /\ o \in Queries /\ pc[o] \in {"answered", "rejected"}
  /\ Release(o, TRUE) /\ UNCHANGED <<pc, outcome, sent, stream>>

\* A stream destroys its client and lets the pending command reject.
StreamsRows(o) == pc[o] = "yielding" /\ (o \in Sessions => SessionSignal)

Streaming(o) == pc[o] \in {"beginning", "declaring", "fetching", "yielding"}
                  /\ (o \in Sessions => SessionSignal)

AbortsStream(o) ==
  /\ Streaming(o)
  /\ Release(o, TRUE)
  /\ stream' = [stream EXCEPT ![o].released = TRUE]
  /\ UNCHANGED <<pc, outcome, sent>>

\* Nobody listens: before the start, right after the delivery, in the work of
\* a session and during the clean-up of a stream.
AbortsUnheard(o) ==
  /\ pc[o] \notin {"connecting", "querying", "answered", "rejected", "settled"}
  /\ ~Streaming(o)
  /\ Keep /\ UNCHANGED <<pc, outcome, sent, stream>>

Abort(o) ==
  /\ o \in Cancellable \ aborted
  /\ aborted' = aborted \cup {o}
  /\ \/ AbortsQueued(o) \/ AbortsQuery(o) \/ AbortsAnswered(o)
     \/ AbortsStream(o) \/ AbortsUnheard(o)
  /\ UNCHANGED <<queue, used>>

Proceeds(o) ==
  \/ Start(o) \/ QueryStarts(o) \/ QueryAnswered(o) \/ QueryEnds(o)
  \/ StreamStarts(o) \/ StreamBegun(o) \/ Declared(o) \/ Fetched(o)
  \/ StreamRejected(o) \/ ConsumerReads(o) \/ RowsEnd(o) \/ ConsumerReturns(o)
  \/ CursorClosed(o) \/ TransactionEnded(o) \/ StreamEnds(o)
  \/ SessionStarts(o) \/ SessionStreamEnds(o) \/ SessionQueries(o)
  \/ SessionAnswered(o) \/ SessionEnds(o)

Next ==
  \/ \E o \in Operations : Proceeds(o) \/ Abort(o) \/ ConnectFails(o) \/ SocketDies(o)
  \/ \E c \in Clients : Deliver(c)

Spec == Init /\ [][Next]_vars

\* The pool serves, the server answers or rejects, the consumer reads on or
\* leaves and the work of a session ends.  Nothing has to fail.
FairSpec ==
  /\ Spec
  /\ WF_vars(\E c \in Clients : Deliver(c))
  /\ \A o \in Operations : WF_vars(Proceeds(o))

----------------------------------------------------------------------------
\* Every variable ranges over what the code may put into it.
TypeOK ==
  /\ queue \in Seq(Operations)
  /\ idle \subseteq Clients /\ inTransaction \subseteq Clients /\ broken \subseteq Clients
  /\ client \in [Operations -> Clients \cup {NoClient}]
  /\ sent \in [Operations -> Clients \cup {NoClient}]
  /\ aborted \subseteq Cancellable
  /\ pc \in [Operations -> {"new", "connecting", "connected", "querying",
       "answered", "rejected", "beginning", "declaring", "fetching", "yielding",
       "closing", "ending", "leaving", "working", "asking", "settled"}]
  /\ used \in [Operations -> SUBSET {"stream", "query"}]
  /\ outcome \in [Operations -> {"none", "ok", "failed", "canceled"}]
  /\ stream \in [Operations ->
       [started : BOOLEAN, declared : BOOLEAN, released : BOOLEAN,
        safe : BOOLEAN, fetches : 0 .. MaxFetches,
        primary : {"none", "failed", "canceled"}, cleanup : BOOLEAN]]

\* A client is either in the pool or checked out by exactly one operation that
\* has not settled: whatever the moment of a cancellation, no client is lost,
\* held twice or given back while its holder still counts on it, and what the
\* pool hands out next has no transaction of somebody else open; all of it in a
\* well-typed state.
ClientsAccounted ==
  /\ TypeOK
  /\ \A c \in Clients :
       Cardinality({o \in Operations : client[o] = c}) = IF c \in idle THEN 0 ELSE 1
  /\ \A o \in Operations :
       pc[o] \in {"new", "connecting", "settled"} => client[o] = NoClient
  /\ idle \cap inTransaction = {}

\* A canceled operation waits neither for the pool nor for the server: whatever
\* it has on the server rejects.  Excepted are the commands of a session, and the
\* clean-up of a stream, whose CLOSE, COMMIT and ROLLBACK are sent after the
\* listener of the signal is gone (postgres-row-stream.ts:69).
CanceledWaitsForNobody ==
  \A o \in aborted :
    /\ pc[o] # "connecting"
    /\ o \notin Sessions /\ pc[o] \notin {"closing", "ending"} => sent[o] = NoClient \/ ~Succeeds(o)

\* Whoever waits for the pool has a place in its queue, one only and from the
\* moment it asks: places of canceled waiters, which the pool still serves, are
\* passed over and never taken for those of others.
WaitersStandInTheQueue ==
  /\ \A i, j \in 1 .. Len(queue) : queue[i] = queue[j] => i = j
  /\ \A o \in Operations : pc[o] = "new" => \A i \in 1 .. Len(queue) : queue[i] # o
  /\ \A o \in Operations : pc[o] = "connecting" => \E i \in 1 .. Len(queue) : queue[i] = o

\* An operation that queues behind canceled ones is served, canceled or
\* refused by the pool, however the holders of the clients end.
WaitersAreServed ==
  \A o \in Operations : pc[o] = "connecting" ~> pc[o] # "connecting"

=============================================================================
