------------------------- MODULE ClientLeasesProofs -------------------------
(***************************************************************************)
(* What ClientLeases promises for any number of clients, queries, streams  *)
(* and sessions, wherever the signals fire and the sockets die: no client  *)
(* of the pool is lost, held twice or handed out with a transaction of     *)
(* somebody else open, and a canceled operation waits for nobody.          *)
(*                                                                         *)
(* Neither follows from itself: that a client may go back to the pool when *)
(* its stream ends rests on what the stream remembers of the transaction   *)
(* it opened, and that nobody releases the same client twice on which      *)
(* steps of an operation still listen to its signal.  LInv says for every  *)
(* operation what its step allows of the rest of its state.                *)
(***************************************************************************)
EXTENDS ClientLeases, FiniteSetTheorems, SequenceTheorems, TLAPS

StreamingPcs == {"beginning", "declaring", "fetching", "yielding"}
EndingPcs == {"closing", "ending", "leaving"}

StreamLocals ==
  [started : BOOLEAN, declared : BOOLEAN, released : BOOLEAN,
   safe : BOOLEAN, fetches : 0 .. MaxFetches,
   primary : {"none", "failed", "canceled"}, cleanup : BOOLEAN]

\* Queries do not stream, streams do not query, and only a session does work.
Stages(o) ==
  /\ o \in Queries =>
       pc[o] \notin StreamingPcs \cup EndingPcs \cup {"working", "asking"}
  /\ o \in Streams =>
       pc[o] \notin {"querying", "answered", "rejected", "working", "asking"}
  /\ o \in Sessions => pc[o] \notin {"querying", "answered", "rejected"}

\* An operation on its way has a client, unless its signal took it away.
Holds(o) ==
  /\ pc[o] \in {"new", "connecting", "settled"} => client[o] = NoClient
  /\ pc[o] \notin {"new", "connecting", "settled"} /\ client[o] = NoClient =>
       o \in aborted /\ (stream[o].released \/ pc[o] \in {"answered", "rejected"})
  /\ stream[o].released => client[o] = NoClient

Commands(o) ==
  sent[o] # NoClient =>
    pc[o] \in {"querying", "beginning", "declaring", "fetching", "closing",
               "ending", "asking"}

Locals(o) ==
  /\ "stream" \notin used[o] => stream[o] = NewStream
  /\ pc[o] \in {"new", "connecting", "connected"} => "stream" \notin used[o]
  /\ pc[o] \in StreamingPcs \cup EndingPcs => "stream" \in used[o]
  /\ stream[o].safe => pc[o] \in {"leaving", "working", "asking", "settled"}
  /\ pc[o] \in {"beginning", "declaring", "fetching"} =>
       stream[o].fetches < MaxFetches

\* A transaction is open only where the stream will still end it or will
\* report that it could not.
Opened(o) ==
  client[o] \in inTransaction =>
    /\ stream[o].started
    /\ pc[o] \in {"declaring", "fetching", "yielding"} \cup EndingPcs
    /\ pc[o] = "leaving" => ~stream[o].safe /\ StreamResult(stream[o]) # "ok"

\* What the listeners of a signal that has fired have done.
Heard(o) ==
  o \in aborted =>
    /\ pc[o] \notin {"connecting", "querying"}
    /\ pc[o] \in {"answered", "rejected"} => client[o] = NoClient
    /\ Streaming(o) => client[o] = NoClient

Fits(o) ==
  Stages(o) /\ Holds(o) /\ Commands(o) /\ Locals(o) /\ Opened(o) /\ Heard(o)

\* Every client is in the pool or with one operation.
Apart ==
  /\ \A o \in Operations : client[o] \notin idle
  /\ \A o, o2 \in Operations :
       client[o] = client[o2] /\ client[o] # NoClient => o = o2
  /\ \A c \in Clients : c \in idle \/ \E o \in Operations : client[o] = c
  /\ idle \cap inTransaction = {}

LInv == TypeOK /\ Apart /\ \A o \in Operations : Fits(o)

\* A step leaves alone what belongs to another operation.
Spares(o) ==
  /\ client'[o] = client[o] /\ pc'[o] = pc[o] /\ sent'[o] = sent[o]
  /\ stream'[o] = stream[o] /\ used'[o] = used[o]
  /\ o \in aborted' <=> o \in aborted
  /\ client[o] \in inTransaction' => client[o] \in inTransaction

-----------------------------------------------------------------------------

(* A step that fits the operation it is of and spares the others.          *)
LEMMA OneMoves ==
  ASSUME LInv, TypeOK', Apart', NEW o \in Operations, Fits(o)',
         \A o2 \in Operations \ {o} : Spares(o2)
  PROVE  LInv'
<1>1. SUFFICES ASSUME NEW o2 \in Operations \ {o} PROVE Fits(o2)'
  BY DEF LInv
<1>2. Fits(o2) /\ Spares(o2)
  BY DEF LInv
<1>3. Stages(o2)' /\ Commands(o2)' /\ Locals(o2)'
  BY <1>2 DEF Fits, Spares, Stages, Commands, Locals
<1>4. Holds(o2)'
  BY <1>2 DEF Fits, Spares, Holds
<1>5. Opened(o2)'
  BY <1>2 DEF Fits, Spares, Opened
<1>6. Heard(o2)'
  BY <1>2 DEF Fits, Spares, Heard, Streaming
<1> QED  BY <1>3, <1>4, <1>5, <1>6 DEF Fits

(* Giving a client back to the pool keeps the clients apart.               *)
LEMMA ReleaseKeepsApart ==
  ASSUME LInv, NEW o \in Operations, NEW destroys \in BOOLEAN,
         Release(o, destroys), client[o] # NoClient,
         client[o] \in inTransaction => destroys
  PROVE  /\ Apart'
         /\ idle' \subseteq Clients /\ inTransaction' \subseteq Clients
         /\ broken' \subseteq Clients
         /\ client' \in [Operations -> Clients \cup {NoClient}]
         /\ client'[o] = NoClient
         /\ inTransaction' \subseteq inTransaction
         /\ \A o2 \in Operations \ {o} : client'[o2] = client[o2]
<1> DEFINE c == client[o]
<1>1. c \in Clients /\ TypeOK /\ Apart /\ NoClient \notin Clients
  BY ClientLeasesAssumption DEF LInv, TypeOK
<1>2. /\ idle' = idle \cup {c} /\ broken' = broken \ {c}
      /\ client' = [client EXCEPT ![o] = NoClient]
      /\ inTransaction' \subseteq inTransaction
      /\ c \notin inTransaction'
  BY DEF Release, Destroys
<1>3. /\ client' \in [Operations -> Clients \cup {NoClient}]
      /\ client'[o] = NoClient
      /\ \A o2 \in Operations \ {o} : client'[o2] = client[o2]
  BY <1>1, <1>2 DEF TypeOK
<1>4. \A o1 \in Operations : client'[o1] \notin idle'
  BY <1>1, <1>2, <1>3 DEF Apart, TypeOK
<1>5. \A o1, o2 \in Operations :
        client'[o1] = client'[o2] /\ client'[o1] # NoClient => o1 = o2
  BY <1>1, <1>3 DEF Apart
<1>6. \A d \in Clients : d \in idle' \/ \E o1 \in Operations : client'[o1] = d
  BY <1>1, <1>2, <1>3 DEF Apart
<1>7. idle' \cap inTransaction' = {}
  BY <1>1, <1>2 DEF Apart
<1> QED  BY <1>1, <1>2, <1>3, <1>4, <1>5, <1>6, <1>7 DEF Apart, TypeOK

(* An operation that holds no client settles.                              *)
LEMMA SettlesWithout ==
  ASSUME LInv, NEW o \in Operations, NEW result \in {"ok", "failed", "canceled"},
         Keep, client[o] = NoClient, Settles(o, result),
         sent' = sent \/ sent' = [sent EXCEPT ![o] = NoClient],
         sent'[o] = NoClient,
         queue' \in Seq(Operations),
         aborted' \subseteq Cancellable,
         \A o2 \in Operations \ {o} : o2 \in aborted' <=> o2 \in aborted,
         used' \in [Operations -> SUBSET {"stream", "query"}],
         \A o2 \in Operations \ {o} : used'[o2] = used[o2],
         used'[o] \in {used[o], used[o] \cup {"query"}},
         UNCHANGED stream
  PROVE  LInv'
<1>1. TypeOK /\ Apart /\ Fits(o)
  BY DEF LInv
<1>2. TypeOK' /\ Apart'
  BY <1>1 DEF TypeOK, Settles, Keep, Apart
<1>3. pc'[o] = "settled" /\ \A o2 \in Operations \ {o} : pc'[o2] = pc[o2]
  BY <1>1 DEF TypeOK, Settles
<1>4. Fits(o)'
  <2>1. Stages(o)' /\ Commands(o)' /\ Heard(o)'
    BY <1>3 DEF Stages, StreamingPcs, EndingPcs, Commands, Heard, Streaming
  <2>2. Holds(o)' /\ Locals(o)'
    BY <1>1, <1>3 DEF Fits, Holds, Locals, StreamingPcs, EndingPcs, Keep
  <2>3. Opened(o)'
    BY <1>1, ClientLeasesAssumption DEF Opened, Keep, TypeOK
  <2> QED  BY <2>1, <2>2, <2>3, <1>3 DEF Fits, Heard, Streaming
<1>5. \A o2 \in Operations \ {o} : Spares(o2)
  BY <1>1, <1>3 DEF Spares, TypeOK, Keep
<1> QED  BY <1>2, <1>4, <1>5, OneMoves

(* An operation that settles and gives its client back, destroyed if it    *)
(* may have a transaction open, leaves everything in order.                *)
LEMMA SettlesAndReleases ==
  ASSUME LInv, NEW o \in Operations, NEW destroys \in BOOLEAN,
         NEW result \in {"ok", "failed", "canceled"},
         Release(o, destroys), client[o] # NoClient,
         client[o] \in inTransaction => destroys,
         Settles(o, result),
         sent' = sent \/ sent' = [sent EXCEPT ![o] = NoClient],
         sent'[o] = NoClient,
         aborted' \subseteq Cancellable,
         \A o2 \in Operations \ {o} : o2 \in aborted' <=> o2 \in aborted,
         used' \in [Operations -> SUBSET {"stream", "query"}],
         \A o2 \in Operations \ {o} : used'[o2] = used[o2],
         used'[o] \in {used[o], used[o] \cup {"query"}},
         UNCHANGED <<queue, stream>>
  PROVE  LInv'
<1>1. TypeOK
  BY DEF LInv
<1>2. /\ Apart'
      /\ idle' \subseteq Clients /\ inTransaction' \subseteq Clients
      /\ broken' \subseteq Clients
      /\ client' \in [Operations -> Clients \cup {NoClient}]
      /\ client'[o] = NoClient
      /\ inTransaction' \subseteq inTransaction
      /\ \A o2 \in Operations \ {o} : client'[o2] = client[o2]
  BY ReleaseKeepsApart
<1>3. TypeOK'
  BY <1>1, <1>2 DEF TypeOK, Settles
<1>4. pc'[o] = "settled" /\ \A o2 \in Operations \ {o} : pc'[o2] = pc[o2]
  BY <1>1 DEF TypeOK, Settles
<1>5. Fits(o)'
  <2>1. Fits(o) /\ NoClient \notin inTransaction'
    BY <1>2, ClientLeasesAssumption DEF LInv
  <2>2. Stages(o)' /\ Commands(o)' /\ Heard(o)'
    BY <1>4, <1>2 DEF Stages, StreamingPcs, EndingPcs, Commands, Heard, Streaming
  <2>3. Holds(o)' /\ Locals(o)'
    BY <1>2, <1>4, <2>1 DEF Fits, Holds, Locals, StreamingPcs, EndingPcs
  <2>4. Opened(o)'
    BY <1>2, <2>1 DEF Opened
  <2> QED  BY <2>2, <2>3, <2>4 DEF Fits
<1>6. \A o2 \in Operations \ {o} : Spares(o2)
  BY <1>1, <1>2, <1>4 DEF Spares, TypeOK
<1> QED  BY <1>3, <1>2, <1>5, <1>6, OneMoves

(* At the start all clients are in the pool.                               *)
LEMMA InitHolds == Init => LInv
<1> SUFFICES ASSUME Init PROVE LInv
  OBVIOUS
<1>1. NewStream \in StreamLocals
  BY ClientLeasesAssumption DEF NewStream, StreamLocals
<1>2. TypeOK
  BY <1>1 DEF Init, TypeOK, StreamLocals
<1>3. Apart
  BY ClientLeasesAssumption DEF Init, Apart
<1>4. ASSUME NEW o \in Operations PROVE Fits(o)
  <2>1. Stages(o) /\ Commands(o) /\ Heard(o)
    BY DEF Init, Stages, StreamingPcs, EndingPcs, Commands, Heard
  <2>2. Holds(o) /\ Locals(o) /\ Opened(o)
    BY DEF Init, Holds, Locals, Opened, StreamingPcs, EndingPcs, NewStream
  <2> QED  BY <2>1, <2>2 DEF Fits
<1> QED  BY <1>2, <1>3, <1>4 DEF LInv

(* A socket that dies takes the transaction with it.                       *)
LEMMA SocketSafe ==
  ASSUME LInv, NEW o \in Operations, SocketDies(o)
  PROVE  LInv'
<1>1. TypeOK /\ Apart /\ \A o2 \in Operations : Fits(o2)
  BY DEF LInv
<1>2. TypeOK' /\ Apart'
  BY <1>1 DEF SocketDies, TypeOK, Apart
<1>3. Fits(o)'
  BY <1>1 DEF SocketDies, Fits, Stages, Holds, Commands, Locals, Opened, Heard,
              Streaming
<1>4. \A o2 \in Operations \ {o} : Spares(o2)
  BY DEF SocketDies, Spares
<1> QED  BY <1>2, <1>3, <1>4, OneMoves

LEMMA StartSafe ==
  ASSUME LInv, NEW o \in Operations, Start(o)
  PROVE  LInv'
<1>1. TypeOK /\ Apart /\ Fits(o) /\ pc[o] = "new" /\ Keep
      /\ UNCHANGED <<sent, aborted, stream, used>>
  BY DEF LInv, Start
<1>2. client[o] = NoClient /\ sent[o] = NoClient
  BY <1>1 DEF Fits, Holds, Commands
<1>3. CASE o \in aborted
  <2>1. Settles(o, "canceled") /\ UNCHANGED queue
    BY <1>3 DEF Start
  <2> QED  BY <2>1, <1>1, <1>2, SettlesWithout DEF TypeOK
<1>4. CASE o \notin aborted
  <2>1. queue' = Append(queue, o) /\ pc' = [pc EXCEPT ![o] = "connecting"]
        /\ UNCHANGED outcome
    BY <1>4 DEF Start
  <2>2. queue' \in Seq(Operations)
    BY <2>1, <1>1 DEF TypeOK
  <2>3. TypeOK' /\ Apart'
    BY <2>1, <2>2, <1>1 DEF TypeOK, Apart, Keep
  <2>4. Fits(o)'
    <3>1. pc'[o] = "connecting"
      BY <2>1, <1>1 DEF TypeOK
    <3>2. Stages(o)' /\ Commands(o)' /\ Heard(o)'
      BY <3>1, <1>1, <1>2, <1>4 DEF Stages, StreamingPcs, EndingPcs, Commands,
         Heard, Streaming
    <3>3. Holds(o)' /\ Locals(o)'
      BY <3>1, <1>1, <1>2 DEF Fits, Holds, Locals, StreamingPcs, EndingPcs,
         Keep, NewStream
    <3>4. Opened(o)'
      BY <1>1, <1>2, ClientLeasesAssumption DEF Opened, Keep, TypeOK
    <3> QED  BY <3>2, <3>3, <3>4 DEF Fits
  <2>5. \A o2 \in Operations \ {o} : Spares(o2)
    BY <2>1, <1>1 DEF Spares, Keep, TypeOK
  <2> QED  BY <2>3, <2>4, <2>5, OneMoves
<1> QED  BY <1>3, <1>4

LEMMA DeliverSafe ==
  ASSUME LInv, NEW c \in Clients, Deliver(c)
  PROVE  LInv'
<1>1. /\ TypeOK /\ Apart /\ queue # <<>> /\ c \in idle
      /\ queue' = Tail(queue)
      /\ UNCHANGED <<inTransaction, broken, sent, aborted, stream, used, outcome>>
  BY DEF LInv, Deliver
<1>0. Head(queue) \in Operations /\ queue' \in Seq(Operations)
  BY <1>1 DEF TypeOK
<1>2. PICK o \in Operations : o = Head(queue)
  BY <1>0
<1>3. Fits(o)
  BY <1>2 DEF LInv
<1>4. CASE StillWanted(o)
  <2>1. /\ idle' = idle \ {c} /\ client' = [client EXCEPT ![o] = c]
        /\ pc' = [pc EXCEPT ![o] = "connected"]
    BY <1>2, <1>4 DEF Deliver
  <2>2. pc[o] = "connecting" /\ client[o] = NoClient /\ sent[o] = NoClient
    BY <1>4, <1>3 DEF StillWanted, Fits, Holds, Commands
  <2>3. client'[o] = c /\ pc'[o] = "connected"
        /\ \A o2 \in Operations \ {o} : client'[o2] = client[o2] /\ pc'[o2] = pc[o2]
    BY <2>1, <1>1, <1>2 DEF TypeOK
  <2>4. TypeOK'
    BY <2>1, <1>1, <1>0 DEF TypeOK
  <2>5. Apart'
    <3>1. \A o1 \in Operations : client'[o1] \notin idle'
      BY <2>1, <2>3, <1>1 DEF Apart
    <3>2. \A o1, o2 \in Operations :
            client'[o1] = client'[o2] /\ client'[o1] # NoClient => o1 = o2
      BY <2>3, <1>1 DEF Apart
    <3>3. \A d \in Clients : d \in idle' \/ \E o1 \in Operations : client'[o1] = d
      <4> SUFFICES ASSUME NEW d \in Clients, d \notin idle'
                   PROVE  \E o1 \in Operations : client'[o1] = d
        OBVIOUS
      <4>1. CASE d = c
        BY <4>1, <2>3, <1>2
      <4>2. CASE d # c
        <5>1. PICK o1 \in Operations : client[o1] = d
          BY <4>2, <2>1, <1>1 DEF Apart
        <5>2. o1 # o
          BY <5>1, <2>2, ClientLeasesAssumption
        <5> QED  BY <5>1, <5>2, <2>3
      <4> QED  BY <4>1, <4>2
    <3>4. idle' \cap inTransaction' = {}
      BY <2>1, <1>1 DEF Apart
    <3> QED  BY <3>1, <3>2, <3>3, <3>4 DEF Apart
  <2>6. Fits(o)'
    <3>1. c # NoClient /\ c \notin inTransaction'
      BY <1>1, ClientLeasesAssumption DEF Apart
    <3>2. Stages(o)' /\ Commands(o)' /\ Heard(o)'
      BY <2>3, <2>2, <1>1 DEF Stages, StreamingPcs, EndingPcs, Commands, Heard,
         Streaming
    <3>3. Holds(o)' /\ Locals(o)'
      BY <2>3, <2>2, <1>1, <1>3, <3>1 DEF Fits, Holds, Locals, StreamingPcs,
         EndingPcs, NewStream
    <3>4. Opened(o)'
      BY <3>1, <2>3 DEF Opened
    <3> QED  BY <3>2, <3>3, <3>4 DEF Fits
  <2>7. \A o2 \in Operations \ {o} : Spares(o2)
    BY <2>3, <1>1 DEF Spares
  <2> QED  BY <2>4, <2>5, <2>6, <2>7, <1>2, OneMoves
<1>5. CASE ~StillWanted(o)
  <2>1. UNCHANGED <<idle, client, pc>>
    BY <1>2, <1>5 DEF Deliver, GoesBack
  <2>2. TypeOK' /\ Apart'
    BY <2>1, <1>1, <1>0 DEF TypeOK, Apart
  <2>3. Fits(o)'
    BY <2>1, <1>1, <1>3 DEF Fits, Stages, Holds, Commands, Locals, Opened, Heard,
       Streaming
  <2>4. \A o2 \in Operations \ {o} : Spares(o2)
    BY <2>1, <1>1 DEF Spares
  <2> QED  BY <2>2, <2>3, <2>4, <1>2, OneMoves
<1> QED  BY <1>4, <1>5

LEMMA ConnectFailsSafe ==
  ASSUME LInv, NEW o \in Operations, ConnectFails(o)
  PROVE  LInv'
<1>1. TypeOK /\ Apart /\ Fits(o) /\ Keep /\ UNCHANGED <<sent, aborted, stream, used>>
  BY DEF LInv, ConnectFails
<1>2. queue' \in Seq(Operations)
  <2>1. PICK i \in 1 .. Len(queue) : queue' = RemoveAt(queue, i)
    BY DEF ConnectFails
  <2>2. queue \in Seq(Operations)
    BY <1>1 DEF TypeOK
  <2>3. queue' = SubSeq(queue, 1, i - 1) \o SubSeq(queue, i + 1, Len(queue))
    BY <2>1 DEF RemoveAt
  <2>4. /\ SubSeq(queue, 1, i - 1) \in Seq(Operations)
        /\ SubSeq(queue, i + 1, Len(queue)) \in Seq(Operations)
    BY <2>2
  <2> QED  BY <2>3, <2>4
<1>3. CASE StillWanted(o)
  <2>1. Settles(o, "failed") /\ pc[o] = "connecting"
    BY <1>3 DEF ConnectFails, StillWanted
  <2>2. client[o] = NoClient /\ sent[o] = NoClient
    BY <2>1, <1>1 DEF Fits, Holds, Commands
  <2> QED  BY <2>1, <2>2, <1>1, <1>2, SettlesWithout DEF TypeOK
<1>4. CASE ~StillWanted(o)
  <2>1. UNCHANGED <<pc, outcome>>
    BY <1>4 DEF ConnectFails
  <2>2. TypeOK' /\ Apart'
    BY <2>1, <1>1, <1>2 DEF TypeOK, Apart, Keep
  <2>3. Fits(o)'
    BY <2>1, <1>1 DEF Fits, Stages, Holds, Commands, Locals, Opened, Heard,
       Streaming, Keep
  <2>4. \A o2 \in Operations \ {o} : Spares(o2)
    BY <2>1, <1>1 DEF Spares, Keep
  <2> QED  BY <2>2, <2>3, <2>4, OneMoves
<1> QED  BY <1>3, <1>4

-----------------------------------------------------------------------------

LEMMA QueryStartsSafe ==
  ASSUME LInv, NEW o \in Operations, QueryStarts(o)
  PROVE  LInv'
<1>1. /\ TypeOK /\ Apart /\ Fits(o) /\ o \in Queries /\ pc[o] = "connected"
      /\ UNCHANGED <<queue, aborted, stream, used>>
  BY DEF LInv, QueryStarts
<1>2. /\ sent[o] = NoClient /\ "stream" \notin used[o]
      /\ stream[o] = NewStream /\ client[o] \notin inTransaction
  BY <1>1 DEF Fits, Commands, Locals, Opened, EndingPcs
<1>3. client[o] # NoClient
  BY <1>1, <1>2 DEF Fits, Holds, NewStream
<1>4. CASE o \in aborted \/ ~CanSend(o)
  <2>1. /\ Release(o, FALSE) /\ UNCHANGED sent
        /\ \E result \in {"ok", "failed", "canceled"} : Settles(o, result)
    BY <1>4 DEF QueryStarts
  <2> QED  BY <2>1, <1>1, <1>2, <1>3, SettlesAndReleases DEF TypeOK
<1>5. CASE ~(o \in aborted \/ ~CanSend(o))
  <2>1. Sends(o, "querying") /\ Keep /\ UNCHANGED outcome
    BY <1>5 DEF QueryStarts
  <2>2. /\ pc'[o] = "querying" /\ sent'[o] = client[o]
        /\ \A o2 \in Operations \ {o} : pc'[o2] = pc[o2] /\ sent'[o2] = sent[o2]
    BY <2>1, <1>1 DEF Sends, TypeOK
  <2>3. TypeOK' /\ Apart'
    BY <2>1, <1>1 DEF TypeOK, Apart, Keep, Sends
  <2>4. Fits(o)'
    <3>1. Stages(o)' /\ Commands(o)' /\ Heard(o)'
      BY <2>2, <1>1, <1>5, ClientLeasesAssumption DEF Stages, StreamingPcs,
         EndingPcs, Commands, Heard, Streaming
    <3>2. Holds(o)' /\ Locals(o)' /\ Opened(o)'
      BY <2>1, <2>2, <1>1, <1>2, <1>3 DEF Holds, Locals, Opened, StreamingPcs,
         EndingPcs, NewStream, Keep
    <3> QED  BY <3>1, <3>2 DEF Fits
  <2>5. \A o2 \in Operations \ {o} : Spares(o2)
    BY <2>1, <2>2, <1>1 DEF Spares, Keep
  <2> QED  BY <2>3, <2>4, <2>5, OneMoves
<1> QED  BY <1>4, <1>5

LEMMA QueryAnsweredSafe ==
  ASSUME LInv, NEW o \in Operations, QueryAnswered(o)
  PROVE  LInv'
<1>1. /\ TypeOK /\ Apart /\ Fits(o) /\ o \in Queries /\ pc[o] = "querying"
      /\ sent' = [sent EXCEPT ![o] = NoClient]
      /\ UNCHANGED <<poolVars, aborted, stream, used, outcome>>
  BY DEF LInv, QueryAnswered, Answers, Answered
<1>2. PICK at \in {"answered", "rejected"} : pc' = [pc EXCEPT ![o] = at]
  BY DEF QueryAnswered
<1>3. o \notin aborted /\ client[o] \notin inTransaction
  BY <1>1 DEF Fits, Heard, Opened, EndingPcs
<1>4. /\ pc'[o] = at /\ sent'[o] = NoClient
      /\ \A o2 \in Operations \ {o} : pc'[o2] = pc[o2] /\ sent'[o2] = sent[o2]
  BY <1>1, <1>2 DEF TypeOK
<1>5. TypeOK' /\ Apart'
  BY <1>1, <1>2 DEF TypeOK, Apart, poolVars
<1>6. Fits(o)'
  <2>1. Stages(o)' /\ Commands(o)' /\ Heard(o)'
    BY <1>4, <1>1, <1>3, ClientLeasesAssumption DEF Stages, StreamingPcs,
       EndingPcs, Commands, Heard, Streaming
  <2>2. Holds(o)' /\ Locals(o)' /\ Opened(o)'
    BY <1>4, <1>1, <1>3 DEF Fits, Holds, Locals, Opened, StreamingPcs,
       EndingPcs, poolVars
  <2> QED  BY <2>1, <2>2 DEF Fits
<1>7. \A o2 \in Operations \ {o} : Spares(o2)
  BY <1>1, <1>4 DEF Spares, poolVars
<1> QED  BY <1>5, <1>6, <1>7, OneMoves

LEMMA QueryEndsSafe ==
  ASSUME LInv, NEW o \in Operations, QueryEnds(o)
  PROVE  LInv'
<1>1. /\ TypeOK /\ Apart /\ Fits(o) /\ pc[o] \in {"answered", "rejected"}
      /\ UNCHANGED <<queue, sent, aborted, stream, used>>
  BY DEF LInv, QueryEnds
<1>2. sent[o] = NoClient /\ client[o] \notin inTransaction
  BY <1>1 DEF Fits, Commands, Opened, EndingPcs
<1>3. PICK result \in {"ok", "failed", "canceled"} : Settles(o, result)
  BY DEF QueryEnds
<1>4. CASE client[o] = NoClient
  <2>1. Keep
    BY <1>4 DEF QueryEnds, GivesBack
  <2> QED  BY <2>1, <1>1, <1>2, <1>3, <1>4, SettlesWithout DEF TypeOK
<1>5. CASE client[o] # NoClient
  <2>1. Release(o, FALSE)
    BY <1>5 DEF QueryEnds, GivesBack
  <2> QED  BY <2>1, <1>1, <1>2, <1>3, <1>5, SettlesAndReleases DEF TypeOK
<1> QED  BY <1>4, <1>5

-----------------------------------------------------------------------------

(* A step of a stream that leaves the pool alone, but for the transaction  *)
(* it may open or end, fits where what it remembers is true.               *)
LEMMA StreamMoves ==
  ASSUME LInv, NEW o \in Streams \cup Sessions,
         NEW at \in StreamingPcs \cup EndingPcs, NEW s \in StreamLocals,
         pc' = [pc EXCEPT ![o] = at],
         stream' = [stream EXCEPT ![o] = s],
         \/ sent' = [sent EXCEPT ![o] = NoClient]
         \/ sent' = [sent EXCEPT ![o] = client[o]] /\ at \notin {"yielding", "leaving"},
         UNCHANGED <<queue, idle, client, broken, aborted, outcome>>,
         used' \in [Operations -> SUBSET {"stream", "query"}],
         "stream" \in used'[o],
         \A o2 \in Operations \ {o} : used'[o2] = used[o2],
         inTransaction' \subseteq inTransaction \cup ({client[o]} \ {NoClient}),
         client[o] \in inTransaction' =>
           /\ s.started /\ at # "beginning"
           /\ at = "leaving" => ~s.safe /\ StreamResult(s) # "ok",
         client[o] = NoClient => o \in aborted /\ s.released,
         s.released => client[o] = NoClient,
         s.safe => at = "leaving",
         at \in {"beginning", "declaring", "fetching"} => s.fetches < MaxFetches,
         at \in StreamingPcs /\ Signalled(o) => client[o] = NoClient
  PROVE  LInv'
<1>0. o \in Operations /\ o \notin Queries
  BY ClientLeasesAssumption DEF Operations
<1>1. TypeOK /\ Apart
  BY DEF LInv
<1>2. /\ pc'[o] = at /\ stream'[o] = s
      /\ \A o2 \in Operations \ {o} :
           pc'[o2] = pc[o2] /\ sent'[o2] = sent[o2] /\ stream'[o2] = stream[o2]
  BY <1>0, <1>1 DEF TypeOK
<1>3. sent'[o] # NoClient => at \notin {"yielding", "leaving"}
  BY <1>0, <1>1 DEF TypeOK
<1>4. inTransaction' \subseteq Clients
  BY <1>0, <1>1 DEF TypeOK
<1>5. TypeOK'
  <2>1. stream' \in [Operations -> StreamLocals]
    BY <1>0, <1>1 DEF TypeOK, StreamLocals
  <2>2. sent' \in [Operations -> Clients \cup {NoClient}]
    BY <1>0, <1>1 DEF TypeOK
  <2>3. pc' \in [Operations -> {"new", "connecting", "connected", "querying",
         "answered", "rejected", "beginning", "declaring", "fetching", "yielding",
         "closing", "ending", "leaving", "working", "asking", "settled"}]
    BY <1>0, <1>1 DEF TypeOK, StreamingPcs, EndingPcs
  <2> QED  BY <2>1, <2>2, <2>3, <1>1, <1>4 DEF TypeOK, StreamLocals
<1>6. Apart'
  BY <1>0, <1>1 DEF Apart
<1>7. Fits(o)'
  <2>1. Stages(o)'
    BY <1>0, <1>2 DEF Stages, StreamingPcs, EndingPcs
  <2>2. Commands(o)'
    BY <1>2, <1>3 DEF Commands, StreamingPcs, EndingPcs
  <2>3. Heard(o)'
    BY <1>2 DEF Heard, StreamingPcs, EndingPcs, Streaming, Signalled
  <2>4. Holds(o)'
    BY <1>2 DEF Holds, StreamingPcs, EndingPcs
  <2>5. Locals(o)'
    BY <1>2 DEF Locals, StreamingPcs, EndingPcs
  <2>6. Opened(o)'
    BY <1>2 DEF Opened, StreamingPcs, EndingPcs
  <2> QED  BY <2>1, <2>2, <2>3, <2>4, <2>5, <2>6 DEF Fits
<1>8. ASSUME NEW o2 \in Operations \ {o} PROVE Spares(o2)
  <2>1. client[o2] \in inTransaction' => client[o2] \in inTransaction
    BY <1>0, <1>1 DEF Apart
  <2> QED  BY <2>1, <1>2 DEF Spares
<1> QED  BY <1>0, <1>5, <1>6, <1>7, <1>8, OneMoves

\* What the clean-up of a stream does to the stream alone.
EndsWith(o, s, at, t) ==
  /\ pc' = [pc EXCEPT ![o] = at]
  /\ stream' = [stream EXCEPT ![o] = t]
  /\ \/ sent' = [sent EXCEPT ![o] = NoClient]
     \/ sent' = [sent EXCEPT ![o] = client[o]] /\ at # "leaving"
  /\ t.started = s.started /\ t.released = s.released /\ t.safe = s.safe
  /\ at = "leaving" /\ s.started /\ ~s.released => t.cleanup

(* The clean-up goes on with the cursor, with the transaction or leaves,   *)
(* and when it leaves a transaction behind it says so.                     *)
LEMMA TransactionCleanup ==
  ASSUME NEW o, NEW s \in StreamLocals, EndsTransaction(o, s)
  PROVE  \E at \in EndingPcs : \E t \in StreamLocals : EndsWith(o, s, at, t)
<1>1. CASE ~s.released /\ s.started /\ CanSend(o)
  <2>1. EndsWith(o, s, "ending", s)
    BY <1>1 DEF EndsTransaction, EndsWith, Sends
  <2> QED  BY <2>1 DEF EndingPcs
<1>2. CASE ~(~s.released /\ s.started /\ CanSend(o))
  <2> DEFINE t == [s EXCEPT !.cleanup = @ \/ (~s.released /\ s.started)]
  <2>1. /\ pc' = [pc EXCEPT ![o] = "leaving"] /\ stream' = [stream EXCEPT ![o] = t]
        /\ sent' = [sent EXCEPT ![o] = NoClient]
    BY <1>2 DEF EndsTransaction, Answered
  <2>2. /\ t \in StreamLocals /\ t.started = s.started /\ t.released = s.released
        /\ t.safe = s.safe /\ (s.started /\ ~s.released => t.cleanup)
    BY DEF StreamLocals
  <2> HIDE DEF t
  <2>3. EndsWith(o, s, "leaving", t)
    BY <2>1, <2>2 DEF EndsWith
  <2> QED  BY <2>2, <2>3 DEF EndingPcs
<1> QED  BY <1>1, <1>2

LEMMA Cleanup ==
  ASSUME NEW o, NEW s \in StreamLocals, Cleans(o, s)
  PROVE  \E at \in EndingPcs : \E t \in StreamLocals : EndsWith(o, s, at, t)
<1>1. CASE EndsTransaction(o, s)
  BY <1>1, TransactionCleanup
<1>2. CASE EndsTransaction(o, [s EXCEPT !.cleanup = TRUE])
  <2> DEFINE u == [s EXCEPT !.cleanup = TRUE]
  <2>1. /\ u \in StreamLocals /\ u.started = s.started /\ u.released = s.released
        /\ u.safe = s.safe
    BY DEF StreamLocals
  <2>2. EndsTransaction(o, u)
    BY <1>2
  <2> HIDE DEF u
  <2>3. PICK at \in EndingPcs, t \in StreamLocals : EndsWith(o, u, at, t)
    BY <2>1, <2>2, TransactionCleanup
  <2>4. EndsWith(o, s, at, t)
    BY <2>1, <2>3 DEF EndsWith
  <2> QED  BY <2>4
<1>3. CASE Sends(o, "closing") /\ stream' = [stream EXCEPT ![o] = s]
  <2>1. EndsWith(o, s, "closing", s)
    BY <1>3 DEF EndsWith, Sends
  <2> QED  BY <2>1 DEF EndingPcs
<1> QED  BY <1>1, <1>2, <1>3 DEF Cleans

(* The clean-up of a stream, from wherever it begins.                      *)
LEMMA CleanupSafe ==
  ASSUME LInv, NEW o \in Streams \cup Sessions, NEW s \in StreamLocals,
         Cleans(o, s) \/ EndsTransaction(o, s),
         UNCHANGED <<queue, idle, client, broken, aborted, outcome>>,
         used' \in [Operations -> SUBSET {"stream", "query"}],
         "stream" \in used'[o],
         \A o2 \in Operations \ {o} : used'[o2] = used[o2],
         inTransaction' \subseteq inTransaction \cup ({client[o]} \ {NoClient}),
         client[o] \in inTransaction' => s.started,
         client[o] = NoClient => o \in aborted /\ s.released,
         s.released => client[o] = NoClient,
         ~s.safe
  PROVE  LInv'
<1>1. PICK at \in EndingPcs, t \in StreamLocals : EndsWith(o, s, at, t)
  BY Cleanup, TransactionCleanup
<1>2. TypeOK /\ o \in Operations
  BY DEF LInv, Operations
<1>3. client[o] \in inTransaction' => client[o] # NoClient
  BY <1>2, ClientLeasesAssumption DEF TypeOK
<1>4. client[o] \in inTransaction' =>
        t.started /\ (at = "leaving" => ~t.safe /\ StreamResult(t) # "ok")
  BY <1>1, <1>3 DEF EndsWith, StreamResult
<1>5. /\ pc' = [pc EXCEPT ![o] = at] /\ stream' = [stream EXCEPT ![o] = t]
      /\ \/ sent' = [sent EXCEPT ![o] = NoClient]
         \/ sent' = [sent EXCEPT ![o] = client[o]] /\ at \notin {"yielding", "leaving"}
      /\ client[o] = NoClient => o \in aborted /\ t.released
      /\ t.released => client[o] = NoClient
      /\ ~t.safe
  BY <1>1 DEF EndsWith, EndingPcs
<1>6. at \in StreamingPcs \cup EndingPcs /\ at \notin StreamingPcs
      /\ at \notin {"beginning", "declaring", "fetching"}
  BY DEF StreamingPcs, EndingPcs
<1> QED  BY <1>4, <1>5, <1>6, StreamMoves

(* A stream that sends its next command, or cleans up instead.             *)
LEMMA StreamsOnSafe ==
  ASSUME LInv, NEW o \in Streams \cup Sessions, NEW s \in StreamLocals,
         NEW at \in {"beginning", "declaring", "fetching"},
         StreamsOn(o, s, at),
         UNCHANGED <<queue, idle, client, broken, aborted, outcome>>,
         used' \in [Operations -> SUBSET {"stream", "query"}],
         "stream" \in used'[o],
         \A o2 \in Operations \ {o} : used'[o2] = used[o2],
         inTransaction' \subseteq inTransaction \cup ({client[o]} \ {NoClient}),
         client[o] \in inTransaction' => s.started /\ at # "beginning",
         client[o] = NoClient => o \in aborted /\ s.released,
         s.released => client[o] = NoClient,
         ~s.safe,
         s.fetches < MaxFetches
  PROVE  LInv'
<1>1. CASE CanSend(o) /\ ~Signalled(o)
  <2>1. /\ sent' = [sent EXCEPT ![o] = client[o]] /\ pc' = [pc EXCEPT ![o] = at]
        /\ stream' = [stream EXCEPT ![o] = s]
    BY <1>1 DEF StreamsOn, Sends
  <2>2. /\ at \in StreamingPcs \cup EndingPcs
        /\ at \notin {"yielding", "leaving"} /\ at # "leaving"
    BY DEF StreamingPcs, EndingPcs
  <2> QED  BY <2>1, <2>2, <1>1, StreamMoves
<1>2. CASE ~(CanSend(o) /\ ~Signalled(o))
  <2> DEFINE u == [s EXCEPT !.primary = StreamError(o)]
  <2>1. /\ u \in StreamLocals /\ u.started = s.started /\ u.released = s.released
        /\ u.safe = s.safe
    BY DEF StreamLocals, StreamError
  <2>2. Cleans(o, u)
    BY <1>2 DEF StreamsOn
  <2> HIDE DEF u
  <2> QED  BY <2>1, <2>2, CleanupSafe
<1> QED  BY <1>1, <1>2

(* What is known of an operation that streams.                             *)
LEMMA StreamingKnown ==
  ASSUME LInv, NEW o \in Operations, pc[o] \in StreamingPcs \cup EndingPcs
  PROVE  /\ o \in Streams \cup Sessions
         /\ stream[o] \in StreamLocals
         /\ used \in [Operations -> SUBSET {"stream", "query"}]
         /\ "stream" \in used[o]
         /\ client[o] \in inTransaction => stream[o].started /\ pc[o] # "beginning"
         /\ client[o] = NoClient => o \in aborted /\ stream[o].released
         /\ stream[o].released => client[o] = NoClient
         /\ pc[o] # "leaving" => ~stream[o].safe
         /\ pc[o] \in {"beginning", "declaring", "fetching"} =>
              stream[o].fetches < MaxFetches
         /\ client[o] # NoClient => client[o] \notin idle /\ client[o] \in Clients
<1>1. TypeOK /\ Apart /\ Fits(o)
  BY DEF LInv
<1>2. o \in Streams \cup Sessions
  BY <1>1 DEF Fits, Stages, Operations
<1>3. stream[o] \in StreamLocals /\ used \in [Operations -> SUBSET {"stream", "query"}]
  BY <1>1 DEF TypeOK, StreamLocals
<1>4. "stream" \in used[o]
  BY <1>1 DEF Fits, Locals
<1>5. client[o] \in inTransaction => stream[o].started /\ pc[o] # "beginning"
  BY <1>1 DEF Fits, Opened, EndingPcs
<1>6. /\ client[o] = NoClient => o \in aborted /\ stream[o].released
      /\ stream[o].released => client[o] = NoClient
  BY <1>1 DEF Fits, Holds, StreamingPcs, EndingPcs
<1>7. pc[o] # "leaving" => ~stream[o].safe
  BY <1>1 DEF Fits, Locals, StreamingPcs, EndingPcs
<1>8. pc[o] \in {"beginning", "declaring", "fetching"} => stream[o].fetches < MaxFetches
  BY <1>1 DEF Fits, Locals
<1>9. client[o] # NoClient => client[o] \notin idle /\ client[o] \in Clients
  BY <1>1 DEF Apart, TypeOK
<1> QED  BY <1>2, <1>3, <1>4, <1>5, <1>6, <1>7, <1>8, <1>9

LEMMA StreamStartsSafe ==
  ASSUME LInv, NEW o \in Operations, StreamStarts(o)
  PROVE  LInv'
<1>1. TypeOK /\ Fits(o) /\ Apart
  BY DEF LInv
<1>2. /\ StreamsOn(o, stream[o], "beginning")
      /\ used' = [used EXCEPT ![o] = @ \cup {"stream"}]
      /\ UNCHANGED <<poolVars, aborted, outcome>>
      /\ o \in Streams \cup Sessions
      /\ pc[o] \in {"connected", "working"} /\ "stream" \notin used[o]
  BY <1>1 DEF StreamStarts, Fits, Locals
<1>3. stream[o] = NewStream /\ NewStream \in StreamLocals
      /\ client[o] \notin inTransaction
  BY <1>1, <1>2, ClientLeasesAssumption DEF Fits, Locals, NewStream, StreamLocals,
     Opened, EndingPcs
<1>4. client[o] # NoClient
  BY <1>1, <1>2, <1>3 DEF Fits, Holds, NewStream
<1>5. /\ used' \in [Operations -> SUBSET {"stream", "query"}] /\ "stream" \in used'[o]
      /\ \A o2 \in Operations \ {o} : used'[o2] = used[o2]
  BY <1>1, <1>2 DEF TypeOK
<1>6. ~NewStream.released /\ ~NewStream.safe /\ NewStream.fetches < MaxFetches
  BY ClientLeasesAssumption DEF NewStream
<1>7. UNCHANGED <<queue, idle, client, broken, aborted, outcome>>
      /\ inTransaction' = inTransaction
  BY <1>2 DEF poolVars
<1> QED  BY <1>2, <1>3, <1>4, <1>5, <1>6, <1>7, StreamsOnSafe

LEMMA StreamBegunSafe ==
  ASSUME LInv, NEW o \in Operations, StreamBegun(o)
  PROVE  LInv'
<1>1. /\ pc[o] = "beginning" /\ client[o] # NoClient
      /\ inTransaction' = inTransaction \cup {client[o]}
      /\ UNCHANGED <<queue, idle, client, broken, aborted, used, outcome>>
  BY DEF StreamBegun, Answers, Succeeds
<1> DEFINE s == [stream[o] EXCEPT !.started = TRUE]
<1>2. /\ o \in Streams \cup Sessions /\ stream[o] \in StreamLocals
      /\ used \in [Operations -> SUBSET {"stream", "query"}] /\ "stream" \in used[o]
      /\ stream[o].released => client[o] = NoClient
      /\ ~stream[o].safe /\ stream[o].fetches < MaxFetches
  BY <1>1, StreamingKnown DEF StreamingPcs, EndingPcs
<1>3. /\ s \in StreamLocals /\ s.started /\ s.released = stream[o].released
      /\ s.safe = stream[o].safe /\ s.fetches = stream[o].fetches
  BY <1>2 DEF StreamLocals
<1>4. StreamsOn(o, s, "declaring")
  BY DEF StreamBegun
<1> HIDE DEF s
<1> QED  BY <1>1, <1>2, <1>3, <1>4, StreamsOnSafe

LEMMA DeclaredSafe ==
  ASSUME LInv, NEW o \in Operations, Declared(o)
  PROVE  LInv'
<1>1. /\ pc[o] = "declaring"
      /\ UNCHANGED <<queue, idle, client, broken, aborted, used, outcome, inTransaction>>
  BY DEF Declared, Answers, poolVars
<1> DEFINE s == [stream[o] EXCEPT !.declared = TRUE]
<1>2. /\ o \in Streams \cup Sessions /\ stream[o] \in StreamLocals
      /\ used \in [Operations -> SUBSET {"stream", "query"}] /\ "stream" \in used[o]
      /\ client[o] \in inTransaction => stream[o].started
      /\ client[o] = NoClient => o \in aborted /\ stream[o].released
      /\ stream[o].released => client[o] = NoClient
      /\ ~stream[o].safe /\ stream[o].fetches < MaxFetches
  BY <1>1, StreamingKnown DEF StreamingPcs, EndingPcs
<1>3. /\ s \in StreamLocals /\ s.started = stream[o].started
      /\ s.released = stream[o].released
      /\ s.safe = stream[o].safe /\ s.fetches = stream[o].fetches
  BY <1>2 DEF StreamLocals
<1>4. StreamsOn(o, s, "fetching")
  BY DEF Declared
<1> HIDE DEF s
<1> QED  BY <1>1, <1>2, <1>3, <1>4, StreamsOnSafe

LEMMA FetchedSafe ==
  ASSUME LInv, NEW o \in Operations, Fetched(o)
  PROVE  LInv'
<1>1. /\ pc[o] = "fetching" /\ client[o] # NoClient
      /\ UNCHANGED <<queue, idle, client, broken, aborted, used, outcome, inTransaction>>
      /\ pc' = [pc EXCEPT ![o] = "yielding"]
      /\ sent' = [sent EXCEPT ![o] = NoClient]
      /\ stream' = [stream EXCEPT ![o].fetches = @ + 1]
  BY DEF Fetched, Answers, Succeeds, Answered, poolVars
<1> DEFINE s == [stream[o] EXCEPT !.fetches = @ + 1]
<1>2. /\ o \in Streams \cup Sessions /\ stream[o] \in StreamLocals
      /\ used \in [Operations -> SUBSET {"stream", "query"}] /\ "stream" \in used[o]
      /\ client[o] \in inTransaction => stream[o].started
      /\ stream[o].released => client[o] = NoClient
      /\ ~stream[o].safe /\ stream[o].fetches < MaxFetches
  BY <1>1, StreamingKnown DEF StreamingPcs, EndingPcs
<1>3. /\ s \in StreamLocals /\ s.started = stream[o].started
      /\ s.released = stream[o].released /\ s.safe = stream[o].safe
  BY <1>2, ClientLeasesAssumption DEF StreamLocals
<1>4. stream' = [stream EXCEPT ![o] = s]
  BY <1>1
<1> HIDE DEF s
<1>5. ~Signalled(o)
  BY <1>1 DEF LInv, Fits, Heard, Streaming, Signalled
<1> QED  BY <1>1, <1>2, <1>3, <1>4, <1>5, StreamMoves DEF StreamingPcs, EndingPcs

LEMMA StreamRejectedSafe ==
  ASSUME LInv, NEW o \in Operations, StreamRejected(o)
  PROVE  LInv'
<1>1. /\ pc[o] \in {"beginning", "declaring", "fetching"}
      /\ UNCHANGED <<queue, idle, client, broken, aborted, used, outcome, inTransaction>>
  BY DEF StreamRejected, Answers, poolVars
<1> DEFINE s == [stream[o] EXCEPT !.primary = StreamError(o)]
<1>2. /\ o \in Streams \cup Sessions /\ stream[o] \in StreamLocals
      /\ used \in [Operations -> SUBSET {"stream", "query"}] /\ "stream" \in used[o]
      /\ client[o] \in inTransaction => stream[o].started
      /\ client[o] = NoClient => o \in aborted /\ stream[o].released
      /\ stream[o].released => client[o] = NoClient
      /\ ~stream[o].safe
  BY <1>1, StreamingKnown DEF StreamingPcs, EndingPcs
<1>3. /\ s \in StreamLocals /\ s.started = stream[o].started
      /\ s.released = stream[o].released /\ s.safe = stream[o].safe
  BY <1>2 DEF StreamLocals, StreamError
<1>4. Cleans(o, s)
  BY DEF StreamRejected
<1> HIDE DEF s
<1> QED  BY <1>1, <1>2, <1>3, <1>4, CleanupSafe

LEMMA ConsumerSafe ==
  ASSUME LInv, NEW o \in Operations,
         ConsumerReads(o) \/ RowsEnd(o) \/ ConsumerReturns(o)
  PROVE  LInv'
<1>1. /\ pc[o] = "yielding"
      /\ UNCHANGED <<queue, idle, client, broken, aborted, used, outcome, inTransaction>>
  BY DEF ConsumerReads, RowsEnd, ConsumerReturns, poolVars
<1>2. /\ o \in Streams \cup Sessions /\ stream[o] \in StreamLocals
      /\ used \in [Operations -> SUBSET {"stream", "query"}] /\ "stream" \in used[o]
      /\ client[o] \in inTransaction => stream[o].started
      /\ client[o] = NoClient => o \in aborted /\ stream[o].released
      /\ stream[o].released => client[o] = NoClient
      /\ ~stream[o].safe
  BY <1>1, StreamingKnown DEF StreamingPcs, EndingPcs
<1>3. CASE ConsumerReads(o)
  <2>1. StreamsOn(o, stream[o], "fetching") /\ stream[o].fetches < MaxFetches
    BY <1>3 DEF ConsumerReads
  <2> QED  BY <2>1, <1>1, <1>2, StreamsOnSafe
<1>4. CASE RowsEnd(o)
  <2> DEFINE s == [stream[o] EXCEPT !.primary =
                     IF Signalled(o) THEN "canceled" ELSE "none"]
  <2>1. /\ s \in StreamLocals /\ s.started = stream[o].started
        /\ s.released = stream[o].released /\ s.safe = stream[o].safe
    BY <1>2 DEF StreamLocals
  <2>2. Cleans(o, s)
    BY <1>4 DEF RowsEnd
  <2> HIDE DEF s
  <2> QED  BY <2>1, <2>2, <1>1, <1>2, CleanupSafe
<1>5. CASE ConsumerReturns(o)
  <2>1. Cleans(o, stream[o])
    BY <1>5 DEF ConsumerReturns
  <2> QED  BY <2>1, <1>1, <1>2, CleanupSafe
<1> QED  BY <1>3, <1>4, <1>5

LEMMA CursorClosedSafe ==
  ASSUME LInv, NEW o \in Operations, CursorClosed(o)
  PROVE  LInv'
<1>1. /\ pc[o] = "closing"
      /\ UNCHANGED <<queue, idle, client, broken, aborted, used, outcome, inTransaction>>
  BY DEF CursorClosed, Answers, poolVars
<1>2. /\ o \in Streams \cup Sessions /\ stream[o] \in StreamLocals
      /\ used \in [Operations -> SUBSET {"stream", "query"}] /\ "stream" \in used[o]
      /\ client[o] \in inTransaction => stream[o].started
      /\ client[o] = NoClient => o \in aborted /\ stream[o].released
      /\ stream[o].released => client[o] = NoClient
      /\ ~stream[o].safe
  BY <1>1, StreamingKnown DEF StreamingPcs, EndingPcs
<1>3. CASE EndsTransaction(o, stream[o])
  BY <1>1, <1>2, <1>3, CleanupSafe
<1>4. CASE EndsTransaction(o, [stream[o] EXCEPT !.cleanup = TRUE])
  <2> DEFINE s == [stream[o] EXCEPT !.cleanup = TRUE]
  <2>1. /\ s \in StreamLocals /\ s.started = stream[o].started
        /\ s.released = stream[o].released /\ s.safe = stream[o].safe
    BY <1>2 DEF StreamLocals
  <2>2. EndsTransaction(o, s)
    BY <1>4
  <2> HIDE DEF s
  <2> QED  BY <2>1, <2>2, <1>1, <1>2, CleanupSafe
<1> QED  BY <1>3, <1>4 DEF CursorClosed

LEMMA TransactionEndedSafe ==
  ASSUME LInv, NEW o \in Operations, TransactionEnded(o)
  PROVE  LInv'
<1>1. /\ pc[o] = "ending"
      /\ UNCHANGED <<queue, idle, client, broken, aborted, used, outcome>>
      /\ pc' = [pc EXCEPT ![o] = "leaving"]
      /\ sent' = [sent EXCEPT ![o] = NoClient]
  BY DEF TransactionEnded, Answers, Answered
<1>2. /\ o \in Streams \cup Sessions /\ stream[o] \in StreamLocals
      /\ used \in [Operations -> SUBSET {"stream", "query"}] /\ "stream" \in used[o]
      /\ client[o] \in inTransaction => stream[o].started
      /\ client[o] = NoClient => o \in aborted /\ stream[o].released
      /\ stream[o].released => client[o] = NoClient
      /\ ~stream[o].safe
  BY <1>1, StreamingKnown DEF StreamingPcs, EndingPcs
<1>3. CASE /\ inTransaction' = inTransaction \ {client[o]}
           /\ stream' = [stream EXCEPT ![o].safe = TRUE]
  <2> DEFINE s == [stream[o] EXCEPT !.safe = TRUE]
  <2>1. /\ s \in StreamLocals /\ s.started = stream[o].started
        /\ s.released = stream[o].released
    BY <1>2 DEF StreamLocals
  <2>2. stream' = [stream EXCEPT ![o] = s]
    BY <1>3
  <2> HIDE DEF s
  <2> QED  BY <2>1, <2>2, <1>1, <1>2, <1>3, StreamMoves DEF StreamingPcs, EndingPcs
<1>4. CASE /\ stream' = [stream EXCEPT ![o].cleanup = TRUE]
           /\ UNCHANGED inTransaction
  <2> DEFINE s == [stream[o] EXCEPT !.cleanup = TRUE]
  <2>1. /\ s \in StreamLocals /\ s.started = stream[o].started
        /\ s.released = stream[o].released /\ s.safe = stream[o].safe /\ s.cleanup
    BY <1>2 DEF StreamLocals
  <2>2. stream' = [stream EXCEPT ![o] = s]
    BY <1>4
  <2> HIDE DEF s
  <2>3. StreamResult(s) # "ok"
    BY <2>1 DEF StreamResult
  <2> QED  BY <2>1, <2>2, <2>3, <1>1, <1>2, <1>4, StreamMoves DEF StreamingPcs, EndingPcs
<1> QED  BY <1>3, <1>4 DEF TransactionEnded

LEMMA StreamEndsSafe ==
  ASSUME LInv, NEW o \in Operations, StreamEnds(o)
  PROVE  LInv'
<1>1. /\ TypeOK /\ Fits(o) /\ pc[o] = "leaving" /\ stream[o] \in StreamLocals
      /\ UNCHANGED <<queue, sent, aborted, stream, used>>
      /\ Settles(o, StreamResult(stream[o]))
  BY DEF LInv, StreamEnds, TypeOK, StreamLocals
<1>2. StreamResult(stream[o]) \in {"ok", "failed", "canceled"}
  BY <1>1 DEF StreamResult, StreamLocals
<1>3. sent[o] = NoClient
  BY <1>1 DEF Fits, Commands
<1>4. CASE stream[o].released
  <2>1. Keep /\ client[o] = NoClient
    BY <1>1, <1>4 DEF StreamEnds, LeavesStream, Fits, Holds
  <2> QED  BY <2>1, <1>1, <1>2, <1>3, SettlesWithout DEF TypeOK
<1>5. CASE ~stream[o].released
  <2>1. Release(o, ~stream[o].safe) /\ client[o] # NoClient
    BY <1>1, <1>5 DEF StreamEnds, LeavesStream, Fits, Holds
  <2>2. client[o] \in inTransaction => ~stream[o].safe
    BY <1>1 DEF Fits, Opened
  <2>3. (~stream[o].safe) \in BOOLEAN
    OBVIOUS
  <2> QED  BY <2>1, <2>2, <2>3, <1>1, <1>2, <1>3, SettlesAndReleases DEF TypeOK
<1> QED  BY <1>4, <1>5

-----------------------------------------------------------------------------

(* A session that ends: its client goes back, or went back already.        *)
LEMMA ClosesSafe ==
  ASSUME LInv, NEW o \in Operations, NEW completed \in BOOLEAN,
         NEW result \in {"ok", "failed", "canceled"},
         Closes(o, completed, result),
         client[o] \in inTransaction => ~completed,
         sent' = sent \/ sent' = [sent EXCEPT ![o] = NoClient],
         sent'[o] = NoClient,
         used' \in [Operations -> SUBSET {"stream", "query"}],
         \A o2 \in Operations \ {o} : used'[o2] = used[o2],
         used'[o] \in {used[o], used[o] \cup {"query"}},
         UNCHANGED <<queue, aborted, stream>>
  PROVE  LInv'
<1>1. TypeOK
  BY DEF LInv
<1>2. CASE client[o] = NoClient
  <2>1. Keep /\ Settles(o, "failed")
    BY <1>2 DEF Closes
  <2> QED  BY <2>1, <1>1, <1>2, SettlesWithout DEF TypeOK
<1>3. CASE client[o] # NoClient
  <2>1. Release(o, ~completed) /\ Settles(o, result)
    BY <1>3 DEF Closes
  <2>2. (~completed) \in BOOLEAN
    OBVIOUS
  <2>3. /\ aborted' \subseteq Cancellable
        /\ \A o2 \in Operations \ {o} : o2 \in aborted' <=> o2 \in aborted
    BY <1>1 DEF TypeOK
  <2>4. client[o] \in inTransaction => ~completed
    OBVIOUS
  <2> QED  BY <2>1, <2>2, <2>3, <2>4, <1>3, SettlesAndReleases
<1> QED  BY <1>2, <1>3

(* A session between two pieces of its work.                               *)
LEMMA WorksOn ==
  ASSUME LInv, NEW o \in Sessions, NEW at \in {"working", "asking"},
         pc' = [pc EXCEPT ![o] = at],
         \/ sent' = [sent EXCEPT ![o] = NoClient]
         \/ sent' = sent /\ sent[o] = NoClient
         \/ sent' = [sent EXCEPT ![o] = client[o]] /\ at = "asking",
         Keep, UNCHANGED <<queue, aborted, stream, outcome>>,
         used' = used \/ used' = [used EXCEPT ![o] = @ \cup {"query"}],
         pc[o] \notin {"new", "connecting", "settled"},
         client[o] \notin inTransaction
  PROVE  LInv'
<1>1. TypeOK /\ Apart /\ o \in Operations /\ Fits(o)
  BY DEF LInv, Operations
<1>2. /\ pc'[o] = at /\ (sent'[o] # NoClient => at = "asking")
      /\ \A o2 \in Operations \ {o} :
           pc'[o2] = pc[o2] /\ sent'[o2] = sent[o2] /\ used'[o2] = used[o2]
      /\ "stream" \in used'[o] <=> "stream" \in used[o]
  BY <1>1 DEF TypeOK
<1>3. TypeOK'
  <2>1. /\ pc' \in [Operations -> {"new", "connecting", "connected", "querying",
            "answered", "rejected", "beginning", "declaring", "fetching", "yielding",
            "closing", "ending", "leaving", "working", "asking", "settled"}]
        /\ sent' \in [Operations -> Clients \cup {NoClient}]
    <3>1. client[o] \in Clients \cup {NoClient}
      BY <1>1 DEF TypeOK
    <3> QED  BY <1>1, <3>1 DEF TypeOK
  <2>2. used' \in [Operations -> SUBSET {"stream", "query"}]
    <3>1. used \in [Operations -> SUBSET {"stream", "query"}]
      BY <1>1 DEF TypeOK
    <3>2. used[o] \cup {"query"} \in SUBSET {"stream", "query"}
      BY <1>1, <3>1
    <3> QED  BY <1>1, <3>1, <3>2
  <2>3. UNCHANGED <<queue, idle, inTransaction, broken, client, aborted, outcome, stream>>
    BY DEF Keep
  <2> QED  BY <2>1, <2>2, <2>3, <1>1 DEF TypeOK
<1>4. Apart'
  BY <1>1 DEF Apart, Keep
<1>5. Fits(o)'
  <2>1. Stages(o)' /\ Commands(o)'
    BY <1>1, <1>2, ClientLeasesAssumption DEF Stages, StreamingPcs, EndingPcs, Commands
  <2>2. Heard(o)'
    BY <1>2 DEF Heard, Streaming
  <2>3. Holds(o)'
    BY <1>1, <1>2, ClientLeasesAssumption DEF Fits, Stages, Holds, Keep
  <2>4. Locals(o)'
    BY <1>1, <1>2, ClientLeasesAssumption DEF Fits, Stages, Locals, StreamingPcs, EndingPcs
  <2>5. Opened(o)'
    BY DEF Opened, Keep
  <2> QED  BY <2>1, <2>2, <2>3, <2>4, <2>5 DEF Fits
<1>6. \A o2 \in Operations \ {o} : Spares(o2)
  BY <1>1, <1>2 DEF Spares, Keep
<1> QED  BY <1>1, <1>3, <1>4, <1>5, <1>6, OneMoves

LEMMA SessionStartsSafe ==
  ASSUME LInv, NEW o \in Operations, SessionStarts(o)
  PROVE  LInv'
<1>1. /\ TypeOK /\ Fits(o) /\ o \in Sessions /\ pc[o] = "connected"
      /\ UNCHANGED <<queue, sent, aborted, stream, used>>
  BY DEF LInv, SessionStarts
<1>2. /\ sent[o] = NoClient /\ client[o] \notin inTransaction
      /\ stream[o] = NewStream
  BY <1>1 DEF Fits, Commands, Opened, EndingPcs, Locals
<1>3. client[o] # NoClient
  BY <1>1, <1>2 DEF Fits, Holds, NewStream
<1>4. CASE o \in aborted
  <2>1. Release(o, TRUE) /\ Settles(o, "canceled")
    BY <1>4 DEF SessionStarts
  <2> QED  BY <2>1, <1>1, <1>2, <1>3, SettlesAndReleases DEF TypeOK
<1>5. CASE o \notin aborted
  <2>1. Keep /\ pc' = [pc EXCEPT ![o] = "working"] /\ UNCHANGED outcome
    BY <1>5 DEF SessionStarts
  <2> QED  BY <2>1, <1>1, <1>2, WorksOn
<1> QED  BY <1>4, <1>5

LEMMA SessionStreamEndsSafe ==
  ASSUME ~Catches, LInv, NEW o \in Operations, SessionStreamEnds(o)
  PROVE  LInv'
<1>1. /\ TypeOK /\ Fits(o) /\ o \in Sessions /\ pc[o] = "leaving"
      /\ stream[o] \in StreamLocals
      /\ UNCHANGED <<queue, sent, aborted, stream, used>>
  BY DEF LInv, SessionStreamEnds, TypeOK, StreamLocals
<1>2. StreamResult(stream[o]) \in {"ok", "failed", "canceled"}
  BY <1>1 DEF StreamResult, StreamLocals
<1>3. sent[o] = NoClient
  BY <1>1 DEF Fits, Commands
<1>4. CASE StreamResult(stream[o]) # "ok"
  <2>1. Closes(o, FALSE, StreamResult(stream[o]))
    BY <1>4 DEF SessionStreamEnds
  <2> QED  BY <2>1, <1>1, <1>2, <1>3, ClosesSafe DEF TypeOK
<1>5. CASE StreamResult(stream[o]) = "ok"
  <2>1. pc' = [pc EXCEPT ![o] = "working"] /\ Keep /\ UNCHANGED outcome
    BY <1>5 DEF SessionStreamEnds
  <2>2. client[o] \notin inTransaction
    BY <1>1, <1>5 DEF Fits, Opened
  <2> QED  BY <2>1, <2>2, <1>1, <1>3, WorksOn
<1> QED  BY <1>4, <1>5

LEMMA SessionQueriesSafe ==
  ASSUME LInv, NEW o \in Operations, SessionQueries(o)
  PROVE  LInv'
<1>1. /\ TypeOK /\ Fits(o) /\ o \in Sessions /\ pc[o] = "working"
      /\ used' = [used EXCEPT ![o] = @ \cup {"query"}]
      /\ UNCHANGED <<queue, aborted, stream>>
  BY DEF LInv, SessionQueries
<1>2. sent[o] = NoClient /\ client[o] \notin inTransaction
  BY <1>1 DEF Fits, Commands, Opened, EndingPcs
<1>3. CASE CanSend(o)
  <2>1. Sends(o, "asking") /\ Keep /\ UNCHANGED outcome
    BY <1>3 DEF SessionQueries
  <2> QED  BY <2>1, <1>1, <1>2, WorksOn DEF Sends
<1>4. CASE ~CanSend(o)
  <2>1. Closes(o, FALSE, "failed") /\ UNCHANGED sent
    BY <1>4 DEF SessionQueries
  <2>2. /\ used' \in [Operations -> SUBSET {"stream", "query"}]
        /\ \A o2 \in Operations \ {o} : used'[o2] = used[o2]
        /\ used'[o] = used[o] \cup {"query"}
    BY <1>1 DEF TypeOK
  <2> QED  BY <2>1, <2>2, <1>1, <1>2, ClosesSafe
<1> QED  BY <1>3, <1>4

LEMMA SessionAnsweredSafe ==
  ASSUME LInv, NEW o \in Operations, SessionAnswered(o)
  PROVE  LInv'
<1>1. /\ TypeOK /\ Fits(o) /\ pc[o] = "asking"
      /\ sent' = [sent EXCEPT ![o] = NoClient]
      /\ UNCHANGED <<queue, aborted, stream, used>>
  BY DEF LInv, SessionAnswered, Answers, Answered
<1>2. /\ o \in Sessions /\ client[o] \notin inTransaction /\ sent'[o] = NoClient
  BY <1>1 DEF Fits, Stages, Opened, EndingPcs, Operations, TypeOK
<1>3. CASE pc' = [pc EXCEPT ![o] = "working"] /\ Keep /\ UNCHANGED outcome
  BY <1>1, <1>2, <1>3, WorksOn
<1>4. CASE Closes(o, FALSE, "failed")
  BY <1>1, <1>2, <1>4, ClosesSafe DEF TypeOK
<1> QED  BY <1>3, <1>4 DEF SessionAnswered

LEMMA SessionEndsSafe ==
  ASSUME LInv, NEW o \in Operations, SessionEnds(o)
  PROVE  LInv'
<1>1. /\ TypeOK /\ Fits(o) /\ pc[o] = "working"
      /\ UNCHANGED <<queue, sent, aborted, stream, used>>
  BY DEF LInv, SessionEnds
<1>2. client[o] \notin inTransaction /\ sent[o] = NoClient
  BY <1>1 DEF Fits, Opened, EndingPcs, Commands
<1>3. CASE Closes(o, TRUE, "ok")
  BY <1>1, <1>2, <1>3, ClosesSafe DEF TypeOK
<1>4. CASE Closes(o, FALSE, "failed")
  BY <1>1, <1>2, <1>4, ClosesSafe DEF TypeOK
<1> QED  BY <1>3, <1>4 DEF SessionEnds

-----------------------------------------------------------------------------

(* Whenever a signal fires, whoever listens leaves the pool in order.      *)
LEMMA AbortSafe ==
  ASSUME LInv, NEW o \in Operations, Abort(o)
  PROVE  LInv'
<1>1. /\ TypeOK /\ Apart /\ Fits(o) /\ o \in Cancellable /\ o \notin aborted
      /\ aborted' = aborted \cup {o} /\ UNCHANGED <<queue, used>>
      /\ aborted' \subseteq Cancellable
      /\ \A o2 \in Operations \ {o} : o2 \in aborted' <=> o2 \in aborted
  BY DEF LInv, Abort, TypeOK
<1>2. CASE AbortsQueued(o)
  <2>1. /\ pc[o] = "connecting" /\ Settles(o, "canceled") /\ Keep
        /\ UNCHANGED <<sent, stream>>
    BY <1>2 DEF AbortsQueued
  <2>2. client[o] = NoClient /\ sent[o] = NoClient
    BY <2>1, <1>1 DEF Fits, Holds, Commands
  <2> QED  BY <2>1, <2>2, <1>1, SettlesWithout DEF TypeOK
<1>3. CASE AbortsQuery(o)
  <2>1. /\ pc[o] = "querying" /\ Release(o, TRUE) /\ Settles(o, "canceled")
        /\ sent' = [sent EXCEPT ![o] = NoClient] /\ UNCHANGED stream
    BY <1>3 DEF AbortsQuery, Answered
  <2>2. client[o] # NoClient /\ sent'[o] = NoClient
    BY <2>1, <1>1 DEF Fits, Holds, TypeOK
  <2> QED  BY <2>1, <2>2, <1>1, SettlesAndReleases DEF TypeOK
<1>4. CASE AbortsAnswered(o)
  <2>1. /\ o \in Queries /\ pc[o] \in {"answered", "rejected"} /\ Release(o, TRUE)
        /\ UNCHANGED <<pc, outcome, sent, stream>>
    BY <1>4 DEF AbortsAnswered
  <2>2. client[o] # NoClient /\ ~stream[o].released
    BY <2>1, <1>1 DEF Fits, Holds
  <2>3. /\ Apart'
        /\ idle' \subseteq Clients /\ inTransaction' \subseteq Clients
        /\ broken' \subseteq Clients
        /\ client' \in [Operations -> Clients \cup {NoClient}]
        /\ client'[o] = NoClient
        /\ inTransaction' \subseteq inTransaction
        /\ \A o2 \in Operations \ {o} : client'[o2] = client[o2]
    BY <2>1, <2>2, ReleaseKeepsApart
  <2>4. TypeOK'
    BY <2>1, <2>3, <1>1 DEF TypeOK
  <2>5. Fits(o)'
    <3>1. NoClient \notin inTransaction'
      BY <2>3, ClientLeasesAssumption
    <3>2. Stages(o)' /\ Commands(o)' /\ Locals(o)'
      BY <2>1, <1>1 DEF Fits, Stages, Commands, Locals
    <3>3. Holds(o)' /\ Heard(o)' /\ Opened(o)'
      BY <2>1, <2>3, <3>1, <1>1 DEF Holds, Heard, Opened, Streaming
    <3> QED  BY <3>2, <3>3 DEF Fits
  <2>6. \A o2 \in Operations \ {o} : Spares(o2)
    BY <2>1, <2>3, <1>1 DEF Spares
  <2> QED  BY <2>3, <2>4, <2>5, <2>6, OneMoves
<1>5. CASE AbortsStream(o)
  <2>1. /\ Streaming(o) /\ pc[o] \in StreamingPcs /\ Release(o, TRUE)
        /\ stream' = [stream EXCEPT ![o].released = TRUE]
        /\ UNCHANGED <<pc, outcome, sent>>
    BY <1>5 DEF AbortsStream, Streaming, StreamingPcs
  <2>2. client[o] # NoClient
    BY <2>1, <1>1, StreamingKnown
  <2>3. /\ Apart'
        /\ idle' \subseteq Clients /\ inTransaction' \subseteq Clients
        /\ broken' \subseteq Clients
        /\ client' \in [Operations -> Clients \cup {NoClient}]
        /\ client'[o] = NoClient
        /\ inTransaction' \subseteq inTransaction
        /\ \A o2 \in Operations \ {o} : client'[o2] = client[o2]
    BY <2>1, <2>2, ReleaseKeepsApart
  <2> DEFINE s == [stream[o] EXCEPT !.released = TRUE]
  <2>4. stream[o] \in StreamLocals
    BY <1>1 DEF TypeOK, StreamLocals
  <2>5. /\ s \in StreamLocals /\ s.released /\ s.safe = stream[o].safe
        /\ s.fetches = stream[o].fetches
    BY <2>4 DEF StreamLocals
  <2>6. stream' = [stream EXCEPT ![o] = s]
    BY <2>1
  <2> HIDE DEF s
  <2>7. stream'[o] = s /\ \A o2 \in Operations \ {o} : stream'[o2] = stream[o2]
    BY <2>6, <1>1 DEF TypeOK
  <2>8. TypeOK'
    <3>1. stream' \in [Operations -> StreamLocals]
      BY <2>5, <2>6, <1>1 DEF TypeOK, StreamLocals
    <3> QED  BY <3>1, <2>1, <2>3, <1>1 DEF TypeOK, StreamLocals
  <2>9. Fits(o)'
    <3>1. NoClient \notin inTransaction'
      BY <2>3, ClientLeasesAssumption
    <3>2. Stages(o)' /\ Commands(o)' /\ Heard(o)'
      BY <2>1, <2>3, <1>1 DEF Fits, Stages, Commands, Heard, StreamingPcs
    <3>3. Locals(o)'
      BY <2>1, <2>5, <2>7, <1>1 DEF Fits, Locals, StreamingPcs
    <3>4. Holds(o)' /\ Opened(o)'
      BY <2>1, <2>3, <2>5, <2>7, <3>1, <1>1 DEF Holds, Opened, StreamingPcs
    <3> QED  BY <3>2, <3>3, <3>4 DEF Fits
  <2>10. \A o2 \in Operations \ {o} : Spares(o2)
    BY <2>1, <2>3, <2>7, <1>1 DEF Spares
  <2> QED  BY <2>3, <2>8, <2>9, <2>10, OneMoves
<1>6. CASE AbortsUnheard(o)
  <2>1. /\ pc[o] \notin {"connecting", "querying", "answered", "rejected", "settled"}
        /\ ~Streaming(o) /\ Keep /\ UNCHANGED <<pc, outcome, sent, stream>>
    BY <1>6 DEF AbortsUnheard
  <2>2. TypeOK' /\ Apart'
    BY <2>1, <1>1 DEF TypeOK, Apart, Keep
  <2>3. Fits(o)'
    <3>1. Stages(o)' /\ Commands(o)' /\ Locals(o)' /\ Opened(o)'
      BY <2>1, <1>1 DEF Fits, Stages, Commands, Locals, Opened, Keep
    <3>2. Holds(o)' /\ Heard(o)'
      BY <2>1, <1>1 DEF Fits, Holds, Heard, Streaming, Keep
    <3> QED  BY <3>1, <3>2 DEF Fits
  <2>4. \A o2 \in Operations \ {o} : Spares(o2)
    BY <2>1, <1>1 DEF Spares, Keep
  <2> QED  BY <2>2, <2>3, <2>4, OneMoves
<1> QED  BY <1>2, <1>3, <1>4, <1>5, <1>6 DEF Abort

-----------------------------------------------------------------------------

(* Every step keeps the invariant.                                         *)
LEMMA LInductive ==
  ASSUME ~Catches
  PROVE  LInv /\ [Next]_vars => LInv'
<1> SUFFICES ASSUME LInv, [Next]_vars PROVE LInv'
  OBVIOUS
<1>1. ASSUME NEW o \in Operations, Proceeds(o) PROVE LInv'
  BY <1>1, StartSafe, QueryStartsSafe, QueryAnsweredSafe, QueryEndsSafe,
     StreamStartsSafe, StreamBegunSafe, DeclaredSafe, FetchedSafe,
     StreamRejectedSafe, ConsumerSafe, CursorClosedSafe, TransactionEndedSafe,
     StreamEndsSafe, SessionStartsSafe, SessionStreamEndsSafe,
     SessionQueriesSafe, SessionAnsweredSafe, SessionEndsSafe DEF Proceeds
<1>2. ASSUME NEW o \in Operations, Abort(o) \/ ConnectFails(o) \/ SocketDies(o)
      PROVE  LInv'
  BY <1>2, AbortSafe, ConnectFailsSafe, SocketSafe
<1>3. ASSUME NEW c \in Clients, Deliver(c) PROVE LInv'
  BY <1>3, DeliverSafe
<1>4. CASE UNCHANGED vars
  BY <1>4 DEF vars, LInv, TypeOK, Apart, Fits, Stages, Holds, Commands, Locals,
     Opened, Heard, Streaming
<1> QED  BY <1>1, <1>2, <1>3, <1>4 DEF Next

LEMMA LInvariant ==
  ASSUME ~Catches
  PROVE  Spec => []LInv
<1>1. LInv /\ [Next]_vars => LInv'
  BY LInductive
<1> QED  BY <1>1, InitHolds, PTL DEF Spec

(* No client of the pool is lost or held twice, none is held by an         *)
(* operation that does not run, and none is handed out with a transaction  *)
(* of somebody else open: for any number of clients and operations, given  *)
(* that a session whose stream failed does not go on (a session that       *)
(* catches the failure may return its client with the transaction open).   *)
THEOREM ClientsNeverLeak ==
  ASSUME ~Catches
  PROVE  Spec => []ClientsAccounted
<1>1. LInv => ClientsAccounted
  <2> SUFFICES ASSUME LInv PROVE ClientsAccounted
    OBVIOUS
  <2>1. TypeOK /\ Apart /\ \A o \in Operations : Holds(o)
    BY DEF LInv, Fits
  <2>2. ASSUME NEW c \in Clients
        PROVE  Cardinality({o \in Operations : client[o] = c}) =
                 IF c \in idle THEN 0 ELSE 1
    <3>1. CASE c \in idle
      <4>1. {o \in Operations : client[o] = c} = {}
        BY <2>1, <3>1 DEF Apart
      <4> QED  BY <4>1, <3>1, FS_EmptySet
    <3>2. CASE c \notin idle
      <4>1. PICK o \in Operations : client[o] = c
        BY <2>1, <3>2 DEF Apart
      <4>2. {o2 \in Operations : client[o2] = c} = {o}
        BY <2>1, <4>1, ClientLeasesAssumption DEF Apart
      <4> QED  BY <4>2, <3>2, FS_Singleton
    <3> QED  BY <3>1, <3>2
  <2> QED  BY <2>1, <2>2 DEF ClientsAccounted, Holds, Apart
<1> QED  BY <1>1, LInvariant, PTL

(* A canceled operation waits neither for the pool nor, outside of a       *)
(* session and of the clean-up of its stream, for an answer of the server, *)
(* wherever in its course the signal found it.                             *)
THEOREM CancellationIsPrompt ==
  ASSUME ~Catches
  PROVE  Spec => []CanceledWaitsForNobody
<1>1. LInv => CanceledWaitsForNobody
  <2> SUFFICES ASSUME LInv, NEW o \in aborted
               PROVE  /\ pc[o] # "connecting"
                      /\ o \notin Sessions /\ pc[o] \notin {"closing", "ending"} =>
                           sent[o] = NoClient \/ ~Succeeds(o)
    BY DEF CanceledWaitsForNobody
  <2>1. TypeOK
    BY DEF LInv
  <2>2. CASE o \in Operations
    <3>1. Fits(o)
      BY <2>2 DEF LInv
    <3> QED
      BY <2>2, <3>1 DEF Fits, Stages, StreamingPcs, EndingPcs, Operations, Commands,
         Heard, Streaming, Succeeds
  <2> QED  BY <2>1, <2>2, ClientLeasesAssumption DEF TypeOK
<1> QED  BY <1>1, LInvariant, PTL

-----------------------------------------------------------------------------
(* The queue of the pool.  What follows needs no session to end.           *)

Line ==
  /\ queue \in Seq(Operations) /\ pc = [o \in Operations |-> pc[o]]
  /\ WaitersStandInTheQueue

\* A step of an operation that neither joins nor leaves the queue.
StandsStill(o) ==
  /\ queue' = queue /\ pc' = [x \in Operations |-> pc'[x]]
  /\ \A x \in Operations \ {o} : pc'[x] = pc[x]
  /\ pc'[o] = pc[o] \/ pc'[o] \notin {"new", "connecting"}

(* Most steps do not touch the queue, and send no operation back to it.    *)
LEMMA StepsStandStill ==
  ASSUME Line, NEW o \in Operations, ~Start(o),
         Proceeds(o) \/ Abort(o) \/ SocketDies(o)
  PROVE  StandsStill(o)
<1>1. pc = [x \in Operations |-> pc[x]]
  BY DEF Line
<1>2. ASSUME NEW at \in {"connected", "querying", "answered", "rejected", "beginning",
                         "declaring", "fetching", "yielding", "closing", "ending",
                         "leaving", "working", "asking", "settled"},
             pc' = [pc EXCEPT ![o] = at], queue' = queue
      PROVE  StandsStill(o)
  BY <1>1, <1>2 DEF StandsStill
<1>3. ASSUME pc' = pc, queue' = queue
      PROVE  StandsStill(o)
  BY <1>1, <1>3 DEF StandsStill
<1>4. ASSUME NEW s, EndsTransaction(o, s), queue' = queue
      PROVE  StandsStill(o)
  <2>1. \/ pc' = [pc EXCEPT ![o] = "ending"]
        \/ pc' = [pc EXCEPT ![o] = "leaving"]
    BY <1>4 DEF EndsTransaction, Sends
  <2> QED
    BY <1>2, <1>4, <2>1
<1>5. ASSUME NEW s, Cleans(o, s), queue' = queue
      PROVE  StandsStill(o)
  <2>1. CASE pc' = [pc EXCEPT ![o] = "closing"]
    BY <1>2, <1>5, <2>1
  <2>2. CASE EndsTransaction(o, [s EXCEPT !.cleanup = TRUE])
    BY <1>4, <1>5, <2>2
  <2>3. CASE EndsTransaction(o, s)
    BY <1>4, <1>5, <2>3
  <2> QED
    BY <1>5, <2>1, <2>2, <2>3 DEF Cleans, Sends
<1>6. ASSUME NEW s, NEW at \in {"beginning", "declaring", "fetching"},
             StreamsOn(o, s, at), queue' = queue
      PROVE  StandsStill(o)
  <2>1. CASE pc' = [pc EXCEPT ![o] = at]
    BY <1>2, <1>6, <2>1
  <2>2. CASE Cleans(o, [s EXCEPT !.primary = StreamError(o)])
    BY <1>5, <1>6, <2>2
  <2> QED
    BY <1>6, <2>1, <2>2 DEF StreamsOn, Sends
<1>7. ASSUME NEW result, Settles(o, result), queue' = queue
      PROVE  StandsStill(o)
  BY <1>2, <1>7 DEF Settles
<1>8. ASSUME NEW completed, NEW result, Closes(o, completed, result), queue' = queue
      PROVE  StandsStill(o)
  BY <1>7, <1>8 DEF Closes
<1>9. CASE QueryStarts(o)
  <2>1. queue' = queue
    BY <1>9 DEF QueryStarts
  <2> QED
    BY <1>2, <1>7, <1>9, <2>1 DEF QueryStarts, Sends
<1>10. CASE QueryAnswered(o)
  BY <1>2, <1>10 DEF QueryAnswered, poolVars
<1>11. CASE QueryEnds(o)
  BY <1>7, <1>11 DEF QueryEnds
<1>12. CASE StreamStarts(o)
  BY <1>6, <1>12 DEF StreamStarts, poolVars
<1>13. CASE StreamBegun(o)
  BY <1>6, <1>13 DEF StreamBegun
<1>14. CASE Declared(o)
  BY <1>6, <1>14 DEF Declared, poolVars
<1>15. CASE Fetched(o)
  BY <1>2, <1>15 DEF Fetched, poolVars
<1>16. CASE StreamRejected(o)
  BY <1>5, <1>16 DEF StreamRejected, poolVars
<1>17. CASE ConsumerReads(o)
  BY <1>6, <1>17 DEF ConsumerReads, poolVars
<1>18. CASE RowsEnd(o) \/ ConsumerReturns(o)
  BY <1>5, <1>18 DEF RowsEnd, ConsumerReturns, poolVars
<1>19. CASE CursorClosed(o)
  BY <1>4, <1>19 DEF CursorClosed, poolVars
<1>20. CASE TransactionEnded(o)
  BY <1>2, <1>20 DEF TransactionEnded
<1>21. CASE StreamEnds(o)
  BY <1>7, <1>21 DEF StreamEnds
<1>22. CASE SessionStarts(o)
  BY <1>2, <1>7, <1>22 DEF SessionStarts
<1>23. CASE SessionStreamEnds(o)
  BY <1>2, <1>8, <1>23 DEF SessionStreamEnds
<1>24. CASE SessionQueries(o)
  BY <1>2, <1>8, <1>24 DEF SessionQueries, Sends
<1>25. CASE SessionAnswered(o)
  BY <1>2, <1>8, <1>25 DEF SessionAnswered
<1>26. CASE SessionEnds(o)
  BY <1>8, <1>26 DEF SessionEnds
<1>27. CASE Abort(o)
  <2>1. queue' = queue /\ (pc' = pc \/ pc' = [pc EXCEPT ![o] = "settled"])
    BY <1>27 DEF Abort, AbortsQueued, AbortsQuery, AbortsAnswered, AbortsStream,
                 AbortsUnheard, Settles
  <2> QED
    BY <1>2, <1>3, <2>1
<1>28. CASE SocketDies(o)
  BY <1>3, <1>28 DEF SocketDies
<1> QED
  BY <1>9, <1>10, <1>11, <1>12, <1>13, <1>14, <1>15, <1>16, <1>17, <1>18, <1>19,
     <1>20, <1>21, <1>22, <1>23, <1>24, <1>25, <1>26, <1>27, <1>28 DEF Proceeds

(* Who asks for a client goes to the end of the queue.                     *)
LEMMA StartingQueues ==
  ASSUME Line, NEW o \in Operations, Start(o)
  PROVE  Line'
<1>1. /\ queue \in Seq(Operations) /\ pc = [x \in Operations |-> pc[x]] /\ pc[o] = "new"
      /\ \A i \in 1 .. Len(queue) : queue[i] # o
  BY DEF Line, WaitersStandInTheQueue, Start
<1>2. CASE queue' = queue /\ pc' = [pc EXCEPT ![o] = "settled"]
  <2>1. pc'[o] = "settled" /\ \A x \in Operations \ {o} : pc'[x] = pc[x]
    BY <1>1, <1>2
  <2> QED
    BY <1>1, <1>2, <2>1 DEF Line, WaitersStandInTheQueue
<1>3. CASE queue' = Append(queue, o) /\ pc' = [pc EXCEPT ![o] = "connecting"]
  <2>1. pc'[o] = "connecting" /\ \A x \in Operations \ {o} : pc'[x] = pc[x]
    BY <1>1, <1>3
  <2>2. /\ queue' \in Seq(Operations) /\ Len(queue') = Len(queue) + 1
        /\ queue'[Len(queue) + 1] = o
        /\ \A i \in 1 .. Len(queue) : queue'[i] = queue[i]
        /\ 1 .. Len(queue') = (1 .. Len(queue)) \cup {Len(queue) + 1}
    BY <1>1, <1>3
  <2>3. \A i, j \in 1 .. Len(queue') : queue'[i] = queue'[j] => i = j
    BY <1>1, <2>2 DEF Line, WaitersStandInTheQueue
  <2>4. \A x \in Operations : pc'[x] = "new" => \A i \in 1 .. Len(queue') : queue'[i] # x
    BY <2>1, <2>2 DEF Line, WaitersStandInTheQueue
  <2>5. \A x \in Operations :
          pc'[x] = "connecting" => \E i \in 1 .. Len(queue') : queue'[i] = x
    BY <2>1, <2>2 DEF Line, WaitersStandInTheQueue
  <2> QED
    BY <1>1, <1>3, <2>2, <2>3, <2>4, <2>5 DEF Line, WaitersStandInTheQueue
<1> QED
  BY <1>2, <1>3 DEF Start, Settles

(* A sequence without one of its elements.                                 *)
LEMMA RemovedAt ==
  ASSUME NEW S, NEW s \in Seq(S), NEW k \in 1 .. Len(s)
  PROVE  /\ RemoveAt(s, k) \in Seq(S) /\ Len(RemoveAt(s, k)) = Len(s) - 1
         /\ \A i \in 1 .. k - 1 : RemoveAt(s, k)[i] = s[i]
         /\ \A i \in k .. Len(s) - 1 : RemoveAt(s, k)[i] = s[i + 1]
<1> DEFINE n == Len(s)
           before == SubSeq(s, 1, k - 1)
           after == SubSeq(s, k + 1, n)
<1>1. n \in Nat /\ k \in Nat /\ 1 <= k /\ k <= n /\ \A i \in 1 .. n : s[i] \in S
  OBVIOUS
<1>2. RemoveAt(s, k) = before \o after
  BY DEF RemoveAt
<1> HIDE DEF n
<1>3. /\ before \in Seq(S) /\ Len(before) = k - 1
      /\ \A i \in 1 .. k - 1 : before[i] = s[i]
  <2>1. 1 \in Int /\ k - 1 \in Int /\ \A i \in 1 .. k - 1 : s[i] \in S
    BY <1>1
  <2> QED
    BY <1>1, <2>1, SubSeqProperties
<1>4. /\ after \in Seq(S) /\ Len(after) = n - k
      /\ \A i \in 1 .. n - k : after[i] = s[k + i]
  <2>1. k + 1 \in Int /\ n \in Int /\ \A i \in k + 1 .. n : s[i] \in S
    BY <1>1
  <2>2. /\ after \in Seq(S)
        /\ Len(after) = IF k + 1 <= n THEN n - (k + 1) + 1 ELSE 0
        /\ \A i \in 1 .. n - (k + 1) + 1 : after[i] = s[k + 1 + i - 1]
    BY <2>1, SubSeqProperties
  <2> HIDE DEF after
  <2>3. Len(after) = n - k
    BY <1>1, <2>2
  <2>4. ASSUME NEW i \in 1 .. n - k PROVE after[i] = s[k + i]
    <3>1. i \in 1 .. n - (k + 1) + 1 /\ k + 1 + i - 1 = k + i
      BY <1>1
    <3> QED
      BY <2>2, <3>1
  <2> QED
    BY <2>2, <2>3, <2>4
<1> HIDE DEF before, after
<1>5. /\ before \o after \in Seq(S)
      /\ Len(before \o after) = Len(before) + Len(after)
      /\ \A i \in 1 .. Len(before) + Len(after) :
           (before \o after)[i] = IF i <= Len(before) THEN before[i] ELSE after[i - Len(before)]
  BY <1>3, <1>4, ConcatProperties
<1>6. ASSUME NEW i \in 1 .. k - 1 PROVE RemoveAt(s, k)[i] = s[i]
  <2>1. i \in 1 .. Len(before) + Len(after) /\ i <= Len(before)
    BY <1>1, <1>3, <1>4
  <2> QED
    BY <1>2, <1>3, <1>5, <2>1
<1>7. ASSUME NEW i \in k .. n - 1 PROVE RemoveAt(s, k)[i] = s[i + 1]
  <2>1. /\ i \in 1 .. Len(before) + Len(after) /\ ~(i <= Len(before))
        /\ i - Len(before) \in 1 .. n - k /\ k + (i - Len(before)) = i + 1
    BY <1>1, <1>3, <1>4
  <2>2. (before \o after)[i] = after[i - Len(before)]
    BY <1>5, <2>1
  <2>3. after[i - Len(before)] = s[k + (i - Len(before))]
    BY <1>4, <2>1
  <2> QED
    BY <1>2, <2>1, <2>2, <2>3
<1>8. Len(RemoveAt(s, k)) = n - 1
  BY <1>1, <1>2, <1>3, <1>4, <1>5
<1> QED
  BY <1>2, <1>5, <1>6, <1>7, <1>8 DEF n

(* Whoever leaves the queue no longer waits, and the others keep their     *)
(* places behind one another.                                              *)
LEMMA LeavingTheQueue ==
  ASSUME Line, NEW k \in 1 .. Len(queue), queue' = RemoveAt(queue, k),
         pc' = [x \in Operations |-> pc'[x]],
         pc'[queue[k]] \notin {"new", "connecting"},
         \A x \in Operations : x # queue[k] => pc'[x] = pc[x]
  PROVE  Line'
<1> DEFINE n == Len(queue)
           At(i) == IF i < k THEN i ELSE i + 1
<1>1. queue \in Seq(Operations) /\ n \in Nat /\ k \in 1 .. n
  BY DEF Line
<1>2. /\ queue' \in Seq(Operations) /\ Len(queue') = n - 1
      /\ \A i \in 1 .. n - 1 : queue'[i] = queue[At(i)]
  <2>1. /\ queue' \in Seq(Operations) /\ Len(queue') = n - 1
        /\ \A i \in 1 .. k - 1 : queue'[i] = queue[i]
        /\ \A i \in k .. n - 1 : queue'[i] = queue[i + 1]
    BY <1>1, RemovedAt
  <2> HIDE DEF n
  <2>2. ASSUME NEW i \in 1 .. n - 1 PROVE queue'[i] = queue[At(i)]
    <3>1. CASE i < k
      <4>1. i \in 1 .. k - 1 /\ At(i) = i
        BY <1>1, <3>1
      <4> QED
        BY <2>1, <4>1
    <3>2. CASE ~(i < k)
      <4>1. i \in k .. n - 1 /\ At(i) = i + 1
        BY <1>1, <3>2
      <4> QED
        BY <2>1, <4>1
    <3> QED
      BY <3>1, <3>2
  <2> QED
    BY <2>1, <2>2
<1>3. /\ \A i \in 1 .. n - 1 : At(i) \in 1 .. n /\ At(i) # k
      /\ \A i, j \in 1 .. n - 1 : At(i) = At(j) => i = j
      /\ \A j \in 1 .. n : j # k => \E i \in 1 .. n - 1 : At(i) = j
  <2>1. \A j \in 1 .. n : j < k => j \in 1 .. n - 1 /\ At(j) = j
    BY <1>1
  <2>2. \A j \in 1 .. n : k < j => j - 1 \in 1 .. n - 1 /\ At(j - 1) = j
    BY <1>1
  <2>3. \A j \in 1 .. n : j # k => j < k \/ k < j
    BY <1>1
  <2> QED
    BY <1>1, <2>1, <2>2, <2>3
<1> HIDE DEF At, n
<1>4. /\ \A i, j \in 1 .. n : queue[i] = queue[j] => i = j
      /\ \A x \in Operations : pc[x] = "new" => \A i \in 1 .. n : queue[i] # x
      /\ \A x \in Operations : pc[x] = "connecting" => \E i \in 1 .. n : queue[i] = x
  BY DEF Line, WaitersStandInTheQueue, n
<1>5. \A i, j \in 1 .. n - 1 : queue'[i] = queue'[j] => i = j
  BY <1>2, <1>3, <1>4
<1>6. \A x \in Operations : pc'[x] = "new" => \A i \in 1 .. n - 1 : queue'[i] # x
  BY <1>2, <1>3, <1>4
<1>7. \A x \in Operations : pc'[x] = "connecting" => \E i \in 1 .. n - 1 : queue'[i] = x
  <2> SUFFICES ASSUME NEW x \in Operations, pc'[x] = "connecting"
               PROVE  \E i \in 1 .. n - 1 : queue'[i] = x
    OBVIOUS
  <2>1. x # queue[k] /\ pc[x] = "connecting"
    OBVIOUS
  <2>2. PICK j \in 1 .. n : queue[j] = x
    BY <1>4, <2>1
  <2> QED
    BY <1>2, <1>3, <2>1, <2>2
<1> QED
  BY <1>2, <1>5, <1>6, <1>7 DEF Line, WaitersStandInTheQueue

(* A waiter is served, or refused, or was canceled and is thrown away.     *)
LEMMA DeliveringKeepsTheLine ==
  ASSUME Line, NEW c \in Clients, Deliver(c)
  PROVE  Line'
<1>1. queue \in Seq(Operations) /\ queue # <<>> /\ pc = [x \in Operations |-> pc[x]]
  BY DEF Deliver, Line
<1>2. 1 \in 1 .. Len(queue) /\ queue[1] \in Operations /\ Head(queue) = queue[1]
  BY <1>1
<1>3. queue' = RemoveAt(queue, 1)
  <2>1. queue' = Tail(queue)
    BY DEF Deliver
  <2>2. RemoveAt(queue, 1) = SubSeq(queue, 1, 0) \o SubSeq(queue, 2, Len(queue))
    BY <1>1, <1>2 DEF RemoveAt
  <2>3. SubSeq(queue, 1, 0) = <<>> /\ SubSeq(queue, 2, Len(queue)) = Tail(queue)
    BY <1>1
  <2>4. \A tail \in Seq(Operations) : <<>> \o tail = tail
    OBVIOUS
  <2>5. Tail(queue) \in Seq(Operations)
    BY <1>1
  <2>6. RemoveAt(queue, 1) = Tail(queue)
    BY <2>2, <2>3, <2>4, <2>5, Zenon
  <2> QED
    BY <2>1, <2>6
<1>4. pc[queue[1]] # "new"
  BY <1>2 DEF Line, WaitersStandInTheQueue
<1>5. CASE StillWanted(queue[1])
  <2>1. pc' = [pc EXCEPT ![queue[1]] = "connected"]
    BY <1>2, <1>5 DEF Deliver
  <2>2. /\ pc'[queue[1]] = "connected" /\ pc' = [x \in Operations |-> pc'[x]]
        /\ \A x \in Operations : x # queue[1] => pc'[x] = pc[x]
    BY <1>1, <1>2, <2>1
  <2> QED
    BY <1>2, <1>3, <2>2, LeavingTheQueue
<1>6. CASE ~StillWanted(queue[1])
  <2>1. pc' = pc /\ pc[queue[1]] # "connecting"
    BY <1>2, <1>6 DEF Deliver, StillWanted
  <2> QED
    BY <1>1, <1>2, <1>3, <1>4, <2>1, LeavingTheQueue
<1> QED
  BY <1>5, <1>6

\* The pool refuses one operation, which leaves the queue, and answers nobody else.
LEMMA RefusingKeepsTheLine ==
  ASSUME Line, NEW o \in Operations, ConnectFails(o)
  PROVE  Line'
<1>1. PICK k \in 1 .. Len(queue) : queue[k] = o /\ queue' = RemoveAt(queue, k)
  BY DEF ConnectFails
<1>2. pc = [x \in Operations |-> pc[x]] /\ pc[o] # "new"
  BY <1>1 DEF Line, WaitersStandInTheQueue
<1>3. CASE StillWanted(o)
  <2>1. pc' = [pc EXCEPT ![o] = "settled"]
    BY <1>3 DEF ConnectFails, Settles
  <2>2. /\ pc'[o] = "settled" /\ pc' = [x \in Operations |-> pc'[x]]
        /\ \A x \in Operations : x # o => pc'[x] = pc[x]
    BY <1>2, <2>1
  <2> QED
    BY <1>1, <2>2, LeavingTheQueue
<1>4. CASE ~StillWanted(o)
  <2>1. pc' = pc /\ pc[o] # "connecting"
    BY <1>4 DEF ConnectFails, StillWanted
  <2> QED
    BY <1>1, <1>2, <2>1, LeavingTheQueue
<1> QED
  BY <1>3, <1>4

(* Whoever waits for the pool has one place in its queue, whatever the     *)
(* operations before it come to, so that each client that comes back       *)
(* brings it nearer: the safe half of WaitersAreServed, for any number of  *)
(* operations, and also where a session goes on after its stream failed.   *)
THEOREM WaitersAreQueued == Spec => []WaitersStandInTheQueue
<1>1. Init => Line
  BY DEF Init, Line, WaitersStandInTheQueue
<1>2. Line /\ [Next]_vars => Line'
  <2> SUFFICES ASSUME Line, [Next]_vars PROVE Line'
    OBVIOUS
  <2>1. ASSUME NEW o \in Operations, Proceeds(o) \/ Abort(o) \/ SocketDies(o), ~Start(o)
        PROVE  Line'
    <3>1. StandsStill(o)
      BY <2>1, StepsStandStill
    <3> QED
      BY <3>1 DEF StandsStill, Line, WaitersStandInTheQueue
  <2>2. ASSUME NEW o \in Operations, Start(o) PROVE Line'
    BY <2>2, StartingQueues
  <2>3. ASSUME NEW o \in Operations, ConnectFails(o) PROVE Line'
    BY <2>3, RefusingKeepsTheLine
  <2>4. ASSUME NEW c \in Clients, Deliver(c) PROVE Line'
    BY <2>4, DeliveringKeepsTheLine
  <2>5. CASE UNCHANGED vars
    BY <2>5 DEF vars, Line, WaitersStandInTheQueue
  <2> QED
    BY <2>1, <2>2, <2>3, <2>4, <2>5 DEF Next
<1>3. Line => WaitersStandInTheQueue
  BY DEF Line
<1> QED
  BY <1>1, <1>2, <1>3, PTL DEF Spec

=============================================================================
