-------------------------- MODULE DataSourceProofs --------------------------
(* Proofs about DataSource for any number of contexts, operations, handles *)
(* and attempts: however often executeWithRetry() tries again, the work of *)
(* an operation whose callback is careful becomes durable at most once;    *)
(* and a native SQLite handle has one owner, is as new when it waits for   *)
(* the next, and does not outlive the source.                              *)
EXTENDS DataSource, SequenceTheorems, FiniteSetTheorems, TLAPS

(* The types the argument needs; what the handles carry does not matter.   *)
OperationRecords ==
  [pc : {"idle", "loop", "attempting", "delaying", "done"}, attempt : Nat,
   heard : Settlements \cup {"none"}, left : BOOLEAN]
LeaseRecords ==
  [pc : {"none", "ready", "transaction", "streaming", "closing", "released"},
   handle : Handles \cup {NoHandle}, reusable : BOOLEAN,
   outcomeUnknown : BOOLEAN, reading : BOOLEAN, scoped : BOOLEAN, work : Nat]

(* A careful attempt leases only while it runs, and its transaction has no *)
(* options to reset and has heard of no other; what it left it has heard   *)
(* of, as resolved or unknown; and nothing has been applied but what the   *)
(* attempt that runs, or the last one, has left.                           *)
LeasedWhileAttempting(r, q) == r.pc # "none" => q.pc = "attempting"
OneTransaction(r, q) == r.pc = "transaction" => q.heard = "none" /\ ~q.left
LeftIsHeard(q) == q.left => q.heard \in {"resolved", "unknown"}
AppliedIsLeft(q, n) ==
  /\ q.pc \in {"idle", "loop", "delaying"} => n = 0
  /\ q.pc = "attempting" => n = IF q.left THEN 1 ELSE 0
  /\ q.pc = "done" => n <= 1
Sound(r, q, n) ==
  /\ LeasedWhileAttempting(r, q) /\ ~r.scoped
  /\ OneTransaction(r, q) /\ LeftIsHeard(q) /\ AppliedIsLeft(q, n)

RetryInv ==
  /\ careful \in SUBSET Operations
  /\ operations \in [Operations -> OperationRecords]
  /\ applied \in [Operations -> Nat]
  /\ leases \in [Owners -> LeaseRecords]
  /\ idle \in Seq(Handles \cup {NoHandle})
  /\ \A o \in careful : Sound(leases[o], operations[o], applied[o])

LEMMA InitRetryInv == Init => RetryInv
<1> SUFFICES ASSUME Init PROVE RetryInv
  OBVIOUS
<1>1. NoLease \in LeaseRecords /\ NoLease.pc = "none" /\ ~NoLease.scoped
  BY DEF LeaseRecords, NoLease
<1>2. leases \in [Owners -> LeaseRecords] /\ idle \in Seq(Handles \cup {NoHandle})
  BY <1>1 DEF Init
<1>3. /\ operations \in [Operations -> OperationRecords] /\ applied \in [Operations -> Nat]
      /\ careful \in SUBSET Operations
  BY DEF Init, OperationRecords, Settlements
<1>4. ASSUME NEW o \in careful PROVE Sound(leases[o], operations[o], applied[o])
  <2>0. o \in Operations /\ o \in Owners
    BY <1>3 DEF Owners
  <2>1. leases[o] = NoLease /\ applied[o] = 0
    BY <2>0 DEF Init
  <2>2. operations[o].heard = "none" /\ ~operations[o].left /\ operations[o].pc = "idle"
    BY <2>0 DEF Init
  <2> QED
    BY <1>1, <2>1, <2>2 DEF Sound, LeasedWhileAttempting, OneTransaction,
         LeftIsHeard, AppliedIsLeft
<1> QED BY <1>2, <1>3, <1>4 DEF RetryInv

-----------------------------------------------------------------------------
(* A step of one owner: what it makes of its lease, of its operation and   *)
(* of what was applied.                                                    *)

Told(x, q, n) ==
  /\ operations' = IF x \in Operations THEN [operations EXCEPT ![x] = q] ELSE operations
  /\ applied' = IF x \in Operations THEN [applied EXCEPT ![x] = n] ELSE applied

LEMMA OwnStep ==
  ASSUME RetryInv, NEW x \in Owners, NEW r \in LeaseRecords, NEW q \in OperationRecords,
         NEW n \in Nat, UNCHANGED careful, idle' \in Seq(Handles \cup {NoHandle}),
         leases' = [leases EXCEPT ![x] = r], Told(x, q, n), x \in careful => Sound(r, q, n)
  PROVE  RetryInv'
<1>1. /\ operations' \in [Operations -> OperationRecords] /\ applied' \in [Operations -> Nat]
      /\ leases' \in [Owners -> LeaseRecords] /\ careful' \in SUBSET Operations
  BY DEF RetryInv, Told
<1>2. ASSUME NEW o \in careful PROVE Sound(leases'[o], operations'[o], applied'[o])
  <2>0. o \in Operations /\ o \in Owners
    BY DEF RetryInv, Owners
  <2>1. CASE o = x
    <3>1. leases'[o] = r /\ operations'[o] = q /\ applied'[o] = n
      BY <2>0, <2>1 DEF RetryInv, Told
    <3> QED BY <2>1, <3>1
  <2>2. CASE o # x
    <3>1. leases'[o] = leases[o] /\ operations'[o] = operations[o] /\ applied'[o] = applied[o]
      BY <2>0, <2>2 DEF RetryInv, Told
    <3> QED BY <3>1 DEF RetryInv
  <2> QED BY <2>1, <2>2
<1>3. \A o \in careful' : Sound(leases'[o], operations'[o], applied'[o])
  BY <1>2
<1> QED BY <1>1, <1>3 DEF RetryInv

LEMMA SomeRecord ==
  [pc |-> "idle", attempt |-> 1, heard |-> "none", left |-> FALSE] \in OperationRecords
BY DEF OperationRecords

(* A step that says nothing, one that hears of a transaction, and one that *)
(* leaves something durable.                                               *)
LEMMA Silence ==
  ASSUME RetryInv, NEW x, UNCHANGED <<operations, applied>>
  PROVE  \E q \in OperationRecords, n \in Nat :
           /\ Told(x, q, n)
           /\ x \in Operations => q = operations[x] /\ n = applied[x]
<1>1. CASE x \in Operations
  <2>1. /\ operations[x] \in OperationRecords /\ applied[x] \in Nat
        /\ Told(x, operations[x], applied[x])
    BY <1>1 DEF RetryInv, Told
  <2> QED BY <2>1
<1>2. CASE x \notin Operations
  BY <1>2, SomeRecord DEF Told
<1> QED BY <1>1, <1>2

LEMMA Hearing ==
  ASSUME RetryInv, NEW x, NEW v \in Settlements, Hears(x, v), UNCHANGED applied
  PROVE  \E q \in OperationRecords, n \in Nat :
           /\ Told(x, q, n)
           /\ x \in Operations => /\ q.pc = operations[x].pc /\ q.heard = v
                                  /\ q.left = operations[x].left /\ n = applied[x]
<1>1. CASE x \in Operations
  <2> DEFINE q == [operations[x] EXCEPT !.heard = v]
  <2>0. operations[x] \in OperationRecords /\ applied[x] \in Nat
    BY <1>1 DEF RetryInv
  <2>1. /\ q \in OperationRecords /\ q.pc = operations[x].pc /\ q.heard = v
        /\ q.left = operations[x].left
    BY <2>0 DEF OperationRecords
  <2>2. Told(x, q, applied[x])
    BY <1>1 DEF RetryInv, Told, Hears
  <2> HIDE DEF q
  <2> QED BY <2>0, <2>1, <2>2
<1>2. CASE x \notin Operations
  BY <1>2, SomeRecord DEF Told, Hears
<1> QED BY <1>1, <1>2

LEMMA Leaving ==
  ASSUME RetryInv, NEW x, NEW v \in Settlements \cup {"none"}, HearsDurable(x, v)
  PROVE  \E q \in OperationRecords, n \in Nat :
           /\ Told(x, q, n)
           /\ x \in Operations =>
                /\ q.pc = operations[x].pc /\ q.heard = v /\ q.left
                /\ n = IF operations[x].left THEN applied[x] ELSE applied[x] + 1
<1>1. CASE x \in Operations
  <2> DEFINE q == [operations[x] EXCEPT !.heard = v, !.left = TRUE]
             n == IF operations[x].left THEN applied[x] ELSE applied[x] + 1
  <2>0. operations[x] \in OperationRecords /\ applied[x] \in Nat
    BY <1>1 DEF RetryInv
  <2>1. q \in OperationRecords /\ q.pc = operations[x].pc /\ q.heard = v /\ q.left
    BY <2>0 DEF OperationRecords
  <2>2. operations' = [operations EXCEPT ![x] = q]
    BY <1>1 DEF RetryInv, HearsDurable, OperationRecords
  <2>3. applied' = [applied EXCEPT ![x] = n] /\ n \in Nat
    <3>1. CASE operations[x].left
      BY <1>1, <2>0, <3>1 DEF RetryInv, HearsDurable
    <3>2. CASE ~operations[x].left
      BY <1>1, <2>0, <3>2 DEF RetryInv, HearsDurable
    <3> QED BY <3>1, <3>2
  <2> HIDE DEF q
  <2> QED BY <1>1, <2>1, <2>2, <2>3 DEF Told
<1>2. CASE x \notin Operations
  BY <1>2, SomeRecord DEF Told, HearsDurable
<1> QED BY <1>1, <1>2

(* What a careful operation writes, it writes in its transaction.          *)
LEMMA Writing ==
  ASSUME RetryInv, NEW x, Writes(x)
  PROVE  \E q \in OperationRecords, n \in Nat :
           Told(x, q, n) /\ (x \in careful => q = operations[x] /\ n = applied[x])
<1>1. CASE UNCHANGED <<operations, applied>>
  BY <1>1, Silence DEF RetryInv
<1>2. CASE x \in Operations \ careful /\ HearsDurable(x, operations[x].heard)
  <2>1. operations[x].heard \in Settlements \cup {"none"}
    BY <1>2 DEF RetryInv, OperationRecords
  <2>2. \E q \in OperationRecords, n \in Nat : Told(x, q, n)
    BY <1>2, <2>1, Leaving
  <2> QED BY <1>2, <2>2
<1> QED BY <1>1, <1>2 DEF Writes

-----------------------------------------------------------------------------
(* The steps that take, use and give back a lease: none of them moves it   *)
(* into or out of a transaction, nor has a careful one anything to tell.   *)

LEMMA QuietStep ==
  ASSUME RetryInv, NEW x \in Owners, NEW r \in LeaseRecords, UNCHANGED careful,
         leases' = [leases EXCEPT ![x] = r], idle' \in Seq(Handles \cup {NoHandle}),
         Writes(x), x \in careful => operations[x].pc = "attempting",
         r.pc = "transaction" => leases[x].pc = "transaction",
         r.scoped => leases[x].scoped
  PROVE  RetryInv'
<1>1. PICK q \in OperationRecords, n \in Nat :
        Told(x, q, n) /\ (x \in careful => q = operations[x] /\ n = applied[x])
  BY Writing
<1>2. x \in careful => Sound(r, q, n)
  BY <1>1 DEF RetryInv, Sound, LeasedWhileAttempting, OneTransaction
<1> QED BY <1>1, <1>2, OwnStep

LEMMA CreateConnectionStep ==
  ASSUME RetryInv, NEW x \in Owners, CreateConnection(x) PROVE RetryInv'
<1>1. PICK r \in LeaseRecords : leases' = [leases EXCEPT ![x] = r] /\ r.pc = "ready" /\ ~r.scoped
  <2>0. /\ [NoLease EXCEPT !.pc = "ready"] \in LeaseRecords
        /\ [NoLease EXCEPT !.pc = "ready"].pc = "ready"
        /\ ~[NoLease EXCEPT !.pc = "ready"].scoped
        /\ \A h \in Handles \cup {NoHandle} :
             /\ [NoLease EXCEPT !.pc = "ready", !.handle = h] \in LeaseRecords
             /\ [NoLease EXCEPT !.pc = "ready", !.handle = h].pc = "ready"
             /\ ~[NoLease EXCEPT !.pc = "ready", !.handle = h].scoped
    BY DEF NoLease, LeaseRecords
  <2>1. CASE provider = "server"
    BY <2>0, <2>1 DEF CreateConnection
  <2>2. CASE provider # "server" /\ idle # <<>>
    <3>1. Last(idle) \in Handles \cup {NoHandle}
      <4>1. Len(idle) \in Nat /\ Len(idle) # 0
        BY <2>2, EmptySeq, LenProperties DEF RetryInv
      <4> QED BY <4>1 DEF RetryInv, Last
    <3> DEFINE r == [NoLease EXCEPT !.pc = "ready", !.handle = Last(idle)]
    <3>2. r \in LeaseRecords /\ r.pc = "ready" /\ ~r.scoped
      BY <2>0, <3>1
    <3>3. leases' = [leases EXCEPT ![x] = r]
      BY <2>2 DEF CreateConnection
    <3> HIDE DEF r
    <3> QED BY <3>2, <3>3
  <2>3. CASE provider # "server" /\ idle = <<>>
    <3>1. PICK h \in Handles :
            leases' = [leases EXCEPT ![x] = [NoLease EXCEPT !.pc = "ready", !.handle = h]]
      BY <2>3 DEF CreateConnection
    <3> DEFINE r == [NoLease EXCEPT !.pc = "ready", !.handle = h]
    <3>2. r \in LeaseRecords /\ r.pc = "ready" /\ ~r.scoped
      BY <2>0
    <3>3. leases' = [leases EXCEPT ![x] = r]
      BY <3>1
    <3> HIDE DEF r
    <3> QED BY <3>2, <3>3
  <2> QED BY <2>1, <2>2, <2>3
<1>2. UNCHANGED careful /\ Writes(x)
  BY DEF CreateConnection, givenVars, Writes
<1>3. x \in careful => operations[x].pc = "attempting"
  BY DEF CreateConnection, WantsLease, RetryInv
<1>4. idle' \in Seq(Handles \cup {NoHandle})
  <2>1. CASE idle' = idle
    BY <2>1 DEF RetryInv
  <2>2. CASE idle # <<>> /\ idle' = SubSeq(idle, 1, Len(idle) - 1)
    <3>1. Len(idle) \in Nat /\ Len(idle) # 0
      BY <2>2, EmptySeq, LenProperties DEF RetryInv
    <3>2. \A i \in 1..(Len(idle) - 1) : idle[i] \in Handles \cup {NoHandle}
      BY <3>1 DEF RetryInv
    <3> QED BY <2>2, <3>1, <3>2, SubSeqProperties DEF RetryInv
  <2> QED BY <2>1, <2>2 DEF CreateConnection, StillIdle, Front, sourceVars
<1> QED BY <1>1, <1>2, <1>3, <1>4, QuietStep

LEMMA QuietSteps ==
  ASSUME RetryInv, NEW x \in Owners,
         \/ Query(x) \/ OpenStream(x) \/ StreamEnds(x)
         \/ ReturnLease(x) \/ CloseSettles(x) \/ ReleaseLease(x)
  PROVE  RetryInv'
<1>0. leases[x].pc # "none" /\ leases[x] \in LeaseRecords
  BY DEF RetryInv, Query, OpenStream, StreamEnds, ReturnLease, CloseSettles, ReleaseLease
<1>1. x \in careful => operations[x].pc = "attempting"
  BY <1>0 DEF RetryInv, Sound, LeasedWhileAttempting
<1>3. UNCHANGED careful /\ Writes(x)
  BY DEF Query, OpenStream, StreamEnds, ReturnLease, CloseSettles, ReleaseLease,
         Writes, givenVars, countVars, sourceVars
<1>4. idle' \in Seq(Handles \cup {NoHandle})
  <2>1. CASE UNCHANGED idle
    BY <2>1 DEF RetryInv
  <2>2. CASE idle' = Append(idle, leases[x].handle)
    BY <1>0, <2>2, AppendProperties DEF RetryInv, LeaseRecords
  <2> QED BY <1>0, <2>1, <2>2 DEF Query, OpenStream, StreamEnds, ReturnLease, CloseSettles,
             ReleaseLease, countVars, sourceVars, LeaseRecords
<1>5. PICK r \in LeaseRecords : /\ leases' = [leases EXCEPT ![x] = r]
                                /\ r.pc = "transaction" => leases[x].pc = "transaction"
                                /\ r.scoped => leases[x].scoped
  <2>1. CASE Query(x)
    <3>1. PICK classified, fails \in BOOLEAN :
            leases' = [leases EXCEPT ![x].work = @ + 1, ![x].reusable = @ /\ classified /\ ~fails]
      BY <2>1 DEF Query
    <3> DEFINE r == [leases[x] EXCEPT !.work = @ + 1, !.reusable = @ /\ classified /\ ~fails]
    <3>2. leases' = [leases EXCEPT ![x] = r]
      BY <1>0, <3>1 DEF RetryInv, LeaseRecords
    <3>3. leases[x].work + 1 \in Nat /\ (leases[x].reusable /\ classified /\ ~fails) \in BOOLEAN
      BY <1>0 DEF LeaseRecords
    <3>4. \A w \in Nat, b \in BOOLEAN :
            /\ [leases[x] EXCEPT !.work = w, !.reusable = b] \in LeaseRecords
            /\ [leases[x] EXCEPT !.work = w, !.reusable = b].pc = leases[x].pc
            /\ [leases[x] EXCEPT !.work = w, !.reusable = b].scoped = leases[x].scoped
      BY <1>0 DEF LeaseRecords
    <3>5. r \in LeaseRecords /\ r.pc = leases[x].pc /\ r.scoped = leases[x].scoped
      BY <3>3, <3>4, Zenon
    <3> QED BY <3>2, <3>5
  <2>2. CASE OpenStream(x)
    <3>1. PICK classified \in BOOLEAN :
            leases' = [leases EXCEPT ![x].work = @ + 1, ![x].reusable = @ /\ classified,
                                     ![x].reading = TRUE,
                                     ![x].pc = IF @ = "ready" THEN "streaming" ELSE @]
      BY <2>2 DEF OpenStream
    <3> DEFINE r == [leases[x] EXCEPT !.work = @ + 1, !.reusable = @ /\ classified,
                                      !.reading = TRUE,
                                      !.pc = IF @ = "ready" THEN "streaming" ELSE @]
    <3>2. leases' = [leases EXCEPT ![x] = r]
      BY <1>0, <3>1 DEF RetryInv, LeaseRecords
    <3>3. leases[x].work + 1 \in Nat /\ (leases[x].reusable /\ classified) \in BOOLEAN
      BY <1>0 DEF LeaseRecords
    <3>4. \A w \in Nat, b \in BOOLEAN, p \in {"streaming", leases[x].pc} :
            /\ [leases[x] EXCEPT !.work = w, !.reusable = b, !.reading = TRUE, !.pc = p] \in LeaseRecords
            /\ [leases[x] EXCEPT !.work = w, !.reusable = b, !.reading = TRUE, !.pc = p].pc = p
            /\ [leases[x] EXCEPT !.work = w, !.reusable = b, !.reading = TRUE, !.pc = p].scoped
                  = leases[x].scoped
      BY <1>0 DEF LeaseRecords
    <3>5. (IF leases[x].pc = "ready" THEN "streaming" ELSE leases[x].pc) \in {"streaming", leases[x].pc}
      OBVIOUS
    <3>6. r \in LeaseRecords /\ r.pc \in {"streaming", leases[x].pc} /\ r.scoped = leases[x].scoped
      BY <3>3, <3>4, <3>5, Zenon
    <3> QED BY <3>2, <3>6
  <2>3. CASE StreamEnds(x)
    <3>1. PICK fails \in BOOLEAN :
            leases' = [leases EXCEPT ![x].reading = FALSE, ![x].reusable = @ /\ ~fails,
                                     ![x].pc = IF @ = "streaming" THEN "ready" ELSE @]
      BY <2>3 DEF StreamEnds
    <3> DEFINE r == [leases[x] EXCEPT !.reading = FALSE, !.reusable = @ /\ ~fails,
                                      !.pc = IF @ = "streaming" THEN "ready" ELSE @]
    <3>2. leases' = [leases EXCEPT ![x] = r]
      BY <1>0, <3>1 DEF RetryInv, LeaseRecords
    <3>3. /\ r \in LeaseRecords /\ r.scoped = leases[x].scoped
          /\ r.pc = "transaction" => leases[x].pc = "transaction"
      BY <1>0 DEF LeaseRecords
    <3> QED BY <3>2, <3>3
  <2>4. CASE ReturnLease(x)
    <3>1. PICK p \in {"released", "closing"}, h \in {leases[x].handle, NoHandle} :
            leases' = [leases EXCEPT ![x] = [leases[x] EXCEPT !.pc = p, !.handle = h]]
      BY <1>0, <2>4 DEF ReturnLease, RetryInv, LeaseRecords
    <3>2. [leases[x] EXCEPT !.pc = p, !.handle = h] \in LeaseRecords
      BY <1>0 DEF LeaseRecords
    <3> QED BY <1>0, <3>1, <3>2 DEF LeaseRecords
  <2>5. CASE CloseSettles(x)
    <3> DEFINE r == [leases[x] EXCEPT !.pc = "released"]
    <3>1. leases' = [leases EXCEPT ![x] = r]
      BY <2>5 DEF CloseSettles, RetryInv
    <3>2. r \in LeaseRecords /\ r.pc = "released" /\ r.scoped = leases[x].scoped
      BY <1>0 DEF LeaseRecords
    <3> QED BY <3>1, <3>2
  <2>6. CASE ReleaseLease(x)
    <3>1. NoLease \in LeaseRecords /\ NoLease.pc = "none" /\ ~NoLease.scoped
      BY DEF NoLease, LeaseRecords
    <3> QED BY <2>6, <3>1 DEF ReleaseLease
  <2> QED BY <2>1, <2>2, <2>3, <2>4, <2>5, <2>6
<1> QED BY <1>1, <1>3, <1>4, <1>5, QuietStep

-----------------------------------------------------------------------------
(* The steps of a transaction.                                             *)

LEMMA BeginStep ==
  ASSUME RetryInv, NEW x \in Owners, BeginTransaction(x) PROVE RetryInv'
<1>0. /\ leases[x] \in LeaseRecords /\ leases[x].pc = "ready"
      /\ UNCHANGED <<idle, applied, careful>> /\ idle' \in Seq(Handles \cup {NoHandle})
  BY DEF BeginTransaction, RetryInv, countVars, givenVars
<1>1. x \in careful => /\ operations[x].pc = "attempting"
                       /\ operations[x].heard = "none" /\ ~operations[x].left
                       /\ applied[x] = 0 /\ ~leases[x].scoped
  BY <1>0 DEF RetryInv, Sound, LeasedWhileAttempting, LeftIsHeard, AppliedIsLeft,
       BeginTransaction, Careful, HasHeard
<1>2. CASE provider = "server" /\ leases' = [leases EXCEPT ![x].work = @ + 1, ![x].pc = "transaction"]
           /\ UNCHANGED operations
  <2> DEFINE w == leases[x].work + 1
             r == [leases[x] EXCEPT !.work = w, !.pc = "transaction"]
  <2>1. leases' = [leases EXCEPT ![x] = r]
    BY <1>0, <1>2 DEF RetryInv, LeaseRecords
  <2>2. r \in LeaseRecords /\ r.pc = "transaction" /\ r.scoped = leases[x].scoped
    <3>1. w \in Nat
      BY <1>0 DEF LeaseRecords
    <3> HIDE DEF w
    <3> QED BY <1>0, <3>1 DEF LeaseRecords
  <2>3. PICK q \in OperationRecords, n \in Nat :
          Told(x, q, n) /\ (x \in Operations => q = operations[x] /\ n = applied[x])
    BY <1>0, <1>2, Silence
  <2> HIDE DEF r
  <2>4. x \in careful => Sound(r, q, n)
    BY <1>1, <2>2, <2>3 DEF Sound, LeasedWhileAttempting, OneTransaction, LeftIsHeard,
         AppliedIsLeft, RetryInv
  <2> QED BY <1>0, <2>1, <2>2, <2>3, <2>4, OwnStep
<1>3. CASE BeginSqlite(x)
  <2>1. PICK scoped \in BOOLEAN, begun \in BOOLEAN :
          /\ Careful(x, ~scoped)
          /\ leases' = [leases EXCEPT ![x].work = @ + 1, ![x].reusable = @ /\ begun,
                                      ![x].scoped = scoped /\ begun,
                                      ![x].pc = IF begun THEN "transaction" ELSE @]
          /\ IF begun THEN UNCHANGED operations
             ELSE \E verdict \in {"transient", "permanent"} : Hears(x, verdict)
    BY <1>3 DEF BeginSqlite
  <2> DEFINE p == IF begun THEN "transaction" ELSE "ready"
             w == leases[x].work + 1
             b == leases[x].reusable /\ begun
             c == scoped /\ begun
             r == [leases[x] EXCEPT !.work = w, !.reusable = b, !.scoped = c, !.pc = p]
  <2>2. leases' = [leases EXCEPT ![x] = r]
    BY <1>0, <2>1 DEF RetryInv, LeaseRecords
  <2>3. /\ p \in {"ready", "transaction"} /\ w \in Nat /\ b \in BOOLEAN /\ c \in BOOLEAN
        /\ x \in careful => ~c
    BY <1>0, <2>1 DEF LeaseRecords, Careful
  <2>5. r \in LeaseRecords /\ r.pc = p /\ r.scoped = c
    <3> DEFINE R(v, d, e, k) ==
                 [leases[x] EXCEPT !.work = v, !.reusable = d, !.scoped = e, !.pc = k]
    <3>1. \A v \in Nat, d, e \in BOOLEAN, k \in {"ready", "transaction"} :
            R(v, d, e, k) \in LeaseRecords /\ R(v, d, e, k).pc = k /\ R(v, d, e, k).scoped = e
      <4> HIDE DEF R
      <4> SUFFICES ASSUME NEW v \in Nat, NEW d \in BOOLEAN, NEW e \in BOOLEAN,
                          NEW k \in {"ready", "transaction"}
                   PROVE  /\ R(v, d, e, k) \in LeaseRecords
                          /\ R(v, d, e, k).pc = k /\ R(v, d, e, k).scoped = e
        OBVIOUS
      <4>1. R(v, d, e, k).pc = k /\ R(v, d, e, k).scoped = e
        BY <1>0 DEF LeaseRecords, R
      <4>2. R(v, d, e, k) \in LeaseRecords
        BY <1>0 DEF LeaseRecords, R
      <4> QED BY <4>1, <4>2
    <3> HIDE DEF p, w, b, c
    <3>2. r = R(w, b, c, p)
      OBVIOUS
    <3> HIDE DEF r, R
    <3>3. R(w, b, c, p) \in LeaseRecords /\ R(w, b, c, p).pc = p /\ R(w, b, c, p).scoped = c
      BY <2>3, <3>1
    <3> QED BY <3>2, <3>3
  <2>6. CASE begun
    <3>1. UNCHANGED operations
      BY <2>1, <2>6, Zenon
    <3>2. PICK q \in OperationRecords, n \in Nat :
            Told(x, q, n) /\ (x \in Operations => q = operations[x] /\ n = applied[x])
      BY <1>0, <3>1, Silence
    <3> HIDE DEF p, c, r
    <3>3. x \in careful => Sound(r, q, n)
      BY <1>1, <2>3, <2>5, <3>2 DEF Sound, LeasedWhileAttempting, OneTransaction, LeftIsHeard,
           AppliedIsLeft, RetryInv
    <3> QED BY <1>0, <2>2, <2>5, <3>2, <3>3, OwnStep
  <2>7. CASE ~begun
    <3>0. p = "ready"
      BY <2>7
    <3>1. PICK v \in Settlements : Hears(x, v)
      <4>1. \E v \in {"transient", "permanent"} : Hears(x, v)
        BY <2>1, <2>7, Zenon
      <4> QED BY <4>1 DEF Settlements
    <3>2. PICK q \in OperationRecords, n \in Nat :
           /\ Told(x, q, n)
           /\ x \in Operations => /\ q.pc = operations[x].pc /\ q.heard = v
                                  /\ q.left = operations[x].left /\ n = applied[x]
      BY <1>0, <3>1, Hearing
    <3> HIDE DEF p, c, r
    <3>3. x \in careful => Sound(r, q, n)
      BY <1>1, <2>3, <2>5, <3>0, <3>2 DEF Sound, LeasedWhileAttempting, OneTransaction,
           LeftIsHeard, AppliedIsLeft, RetryInv
    <3> QED BY <1>0, <2>2, <2>5, <3>2, <3>3, OwnStep
  <2> QED BY <2>6, <2>7
<1> QED BY <1>2, <1>3 DEF BeginTransaction

(* What a transaction that ends tells and leaves: what left something is   *)
(* resolved or unknown, unless there was an option to reset.               *)
LEMMA EndTells ==
  ASSUME RetryInv, NEW x \in Owners, EndTransaction(x)
  PROVE  \E q \in OperationRecords, n \in Nat :
           /\ Told(x, q, n)
           /\ x \in Operations =>
                /\ q.pc = operations[x].pc /\ q.heard \in Settlements
                /\ \/ q.left = operations[x].left /\ n = applied[x]
                   \/ /\ q.left /\ (q.heard \in {"resolved", "unknown"} \/ leases[x].scoped)
                      /\ n = IF operations[x].left THEN applied[x] ELSE applied[x] + 1
<1>1. \/ \E v \in Settlements : Hears(x, v) /\ UNCHANGED applied
      \/ \E v \in Settlements : /\ HearsDurable(x, v)
                                /\ v \in {"resolved", "unknown"} \/ leases[x].scoped
  <2>1. CASE EndSqlite(x)
    <3>1. PICK committed \in BOOLEAN, resets \in BOOLEAN :
            /\ ~leases[x].scoped => resets
            /\ \/ committed /\ resets /\ HearsDurable(x, "resolved")
               \/ /\ committed /\ ~resets
                  /\ \E verdict \in {"transient", "permanent"} : HearsDurable(x, verdict)
               \/ /\ ~committed /\ UNCHANGED applied
                  /\ \E verdict \in {"transient", "permanent"} : Hears(x, verdict)
      BY <2>1 DEF EndSqlite
    <3> QED BY <3>1 DEF Settlements
  <2>2. CASE EndServer(x)
    BY <2>2 DEF EndServer, Settlements
  <2>3. CASE LosesVerdict(x)
    BY <2>3 DEF LosesVerdict, Settlements
  <2> QED BY <2>1, <2>2, <2>3 DEF EndTransaction
<1>2. ASSUME NEW v \in Settlements, Hears(x, v), UNCHANGED applied
      PROVE  \E q \in OperationRecords, n \in Nat :
               /\ Told(x, q, n)
               /\ x \in Operations =>
                    /\ q.pc = operations[x].pc /\ q.heard \in Settlements
                    /\ q.left = operations[x].left /\ n = applied[x]
  BY <1>2, Hearing
<1>3. ASSUME NEW v \in Settlements, HearsDurable(x, v),
             v \in {"resolved", "unknown"} \/ leases[x].scoped
      PROVE  \E q \in OperationRecords, n \in Nat :
               /\ Told(x, q, n)
               /\ x \in Operations =>
                    /\ q.pc = operations[x].pc /\ q.heard \in Settlements
                    /\ q.left /\ (q.heard \in {"resolved", "unknown"} \/ leases[x].scoped)
                    /\ n = IF operations[x].left THEN applied[x] ELSE applied[x] + 1
  <2>1. PICK q \in OperationRecords, n \in Nat :
           /\ Told(x, q, n)
           /\ x \in Operations =>
                /\ q.pc = operations[x].pc /\ q.heard = v /\ q.left
                /\ n = IF operations[x].left THEN applied[x] ELSE applied[x] + 1
    BY <1>3, Leaving
  <2> QED BY <1>3, <2>1
<1>4. CASE \E v \in Settlements : Hears(x, v) /\ UNCHANGED applied
  <2>1. PICK q \in OperationRecords, n \in Nat :
          /\ Told(x, q, n)
          /\ x \in Operations =>
               /\ q.pc = operations[x].pc /\ q.heard \in Settlements
               /\ q.left = operations[x].left /\ n = applied[x]
    BY <1>2, <1>4
  <2> QED BY <2>1
<1>5. CASE \E v \in Settlements : /\ HearsDurable(x, v)
                                  /\ v \in {"resolved", "unknown"} \/ leases[x].scoped
  <2>1. PICK q \in OperationRecords, n \in Nat :
          /\ Told(x, q, n)
          /\ x \in Operations =>
               /\ q.pc = operations[x].pc /\ q.heard \in Settlements
               /\ q.left /\ (q.heard \in {"resolved", "unknown"} \/ leases[x].scoped)
               /\ n = IF operations[x].left THEN applied[x] ELSE applied[x] + 1
    BY <1>3, <1>5
  <2> QED BY <2>1
<1> QED BY <1>1, <1>4, <1>5

LEMMA EndStep ==
  ASSUME RetryInv, NEW x \in Owners, EndTransaction(x) PROVE RetryInv'
<1>0. /\ leases[x] \in LeaseRecords /\ leases[x].pc = "transaction"
      /\ UNCHANGED <<idle, careful>> /\ idle' \in Seq(Handles \cup {NoHandle})
  BY DEF EndTransaction, RetryInv, givenVars
<1>1. x \in careful => /\ operations[x].pc = "attempting" /\ ~leases[x].scoped
                       /\ ~operations[x].left /\ applied[x] = 0
  BY <1>0 DEF RetryInv, Sound, LeasedWhileAttempting, OneTransaction, AppliedIsLeft
<1>2. PICK r \in LeaseRecords : /\ leases' = [leases EXCEPT ![x] = r] /\ r.pc = "ready"
                                /\ r.scoped => leases[x].scoped
  <2>1. CASE EndSqlite(x)
    <3>1. PICK committed, resets \in BOOLEAN :
            leases' = [leases EXCEPT ![x].pc = "ready", ![x].reading = FALSE,
                                     ![x].scoped = FALSE,
                                     ![x].reusable = @ /\ committed /\ resets]
      BY <2>1 DEF EndSqlite
    <3> DEFINE b == leases[x].reusable /\ committed /\ resets
               r == [leases[x] EXCEPT !.pc = "ready", !.reading = FALSE, !.scoped = FALSE,
                                      !.reusable = b]
    <3>2. b \in BOOLEAN
      BY <1>0 DEF LeaseRecords
    <3>3. leases' = [leases EXCEPT ![x] = r]
      BY <1>0, <3>1 DEF RetryInv, LeaseRecords
    <3> HIDE DEF b
    <3>4. r \in LeaseRecords /\ r.pc = "ready" /\ ~r.scoped
      BY <1>0, <3>2 DEF LeaseRecords
    <3> HIDE DEF r
    <3> QED BY <3>3, <3>4
  <2>2. CASE EndServer(x)
    <3> DEFINE r == [leases[x] EXCEPT !.pc = "ready"]
    <3>1. leases' = [leases EXCEPT ![x] = r]
      BY <1>0, <2>2 DEF EndServer, RetryInv
    <3>2. r \in LeaseRecords /\ r.pc = "ready" /\ r.scoped = leases[x].scoped
      BY <1>0 DEF LeaseRecords
    <3> HIDE DEF r
    <3> QED BY <3>1, <3>2
  <2>3. CASE LosesVerdict(x)
    <3> DEFINE r == [leases[x] EXCEPT !.pc = "ready", !.outcomeUnknown = TRUE]
    <3>1. leases' = [leases EXCEPT ![x] = r]
      BY <1>0, <2>3 DEF LosesVerdict, RetryInv
    <3>2. r \in LeaseRecords /\ r.pc = "ready" /\ r.scoped = leases[x].scoped
      BY <1>0 DEF LeaseRecords
    <3> HIDE DEF r
    <3> QED BY <3>1, <3>2
  <2> QED BY <2>1, <2>2, <2>3 DEF EndTransaction
<1>3. PICK q \in OperationRecords, n \in Nat :
        /\ Told(x, q, n)
        /\ x \in Operations =>
             /\ q.pc = operations[x].pc /\ q.heard \in Settlements
             /\ \/ q.left = operations[x].left /\ n = applied[x]
                \/ /\ q.left /\ (q.heard \in {"resolved", "unknown"} \/ leases[x].scoped)
                   /\ n = IF operations[x].left THEN applied[x] ELSE applied[x] + 1
  BY EndTells
<1>4. x \in careful => Sound(r, q, n)
  BY <1>1, <1>2, <1>3 DEF RetryInv, Sound, LeasedWhileAttempting, OneTransaction,
       LeftIsHeard, AppliedIsLeft
<1> QED BY <1>0, <1>2, <1>3, <1>4, OwnStep

-----------------------------------------------------------------------------
(* The steps of executeWithRetry() itself.                                 *)

LEMMA RetryStep ==
  ASSUME RetryInv, NEW o \in Operations, NEW q \in OperationRecords,
         UNCHANGED <<leases, applied, idle, careful>>,
         operations' = [operations EXCEPT ![o] = q],
         o \in careful => Sound(leases[o], q, applied[o])
  PROVE  RetryInv'
<1>1. o \in Owners /\ leases[o] \in LeaseRecords /\ applied[o] \in Nat
  BY DEF RetryInv, Owners
<1>2. /\ leases' = [leases EXCEPT ![o] = leases[o]] /\ Told(o, q, applied[o])
      /\ idle' \in Seq(Handles \cup {NoHandle})
  BY DEF RetryInv, Told
<1> QED BY <1>1, <1>2, OwnStep

LEMMA RetriesStep ==
  ASSUME RetryInv, NEW o \in Operations, Retries(o) PROVE RetryInv'
<1>0. /\ operations[o] \in OperationRecords
      /\ o \in careful => Sound(leases[o], operations[o], applied[o])
  BY DEF RetryInv
<1>1. UNCHANGED <<leases, applied, idle, careful>>
  BY DEF Retries, Execute, StartAttempt, AttemptSettles, DelayEnds, sourceVars, givenVars
<1>2. PICK q \in OperationRecords :
        /\ operations' = [operations EXCEPT ![o] = q]
        /\ o \in careful => Sound(leases[o], q, applied[o])
  <2>1. CASE Execute(o)
    <3> DEFINE q == [operations[o] EXCEPT !.pc = "loop"]
    <3>1. operations' = [operations EXCEPT ![o] = q] /\ operations[o].pc = "idle"
      BY <2>1 DEF Execute, RetryInv
    <3>2. /\ q \in OperationRecords /\ q.pc = "loop" /\ q.heard = operations[o].heard
          /\ q.left = operations[o].left
      BY <1>0 DEF OperationRecords
    <3> HIDE DEF q
    <3>3. o \in careful => Sound(leases[o], q, applied[o])
      BY <1>0, <3>1, <3>2 DEF Sound, LeasedWhileAttempting, OneTransaction, LeftIsHeard,
           AppliedIsLeft
    <3> QED BY <3>1, <3>2, <3>3
  <2>2. CASE StartAttempt(o)
    <3>1. PICK p \in {"done", "attempting"}, v \in {"none", operations[o].heard},
               l \in {FALSE, operations[o].left} :
            /\ operations' = [operations EXCEPT ![o] =
                                [operations[o] EXCEPT !.pc = p, !.heard = v, !.left = l]]
            /\ operations[o].pc = "loop"
            /\ \/ v = "none" /\ l = FALSE
               \/ p = "done" /\ v = operations[o].heard /\ l = operations[o].left
      <4>1. CASE Leaves(o)
        <5>1. operations' = [operations EXCEPT ![o] =
                               [operations[o] EXCEPT !.pc = "done", !.heard = operations[o].heard,
                                                     !.left = operations[o].left]]
          BY <1>0, <4>1 DEF Leaves, RetryInv, OperationRecords
        <5> QED BY <2>2, <5>1 DEF StartAttempt
      <4>2. CASE operations' = [operations EXCEPT ![o].pc = "attempting",
                                                  ![o].heard = "none", ![o].left = FALSE]
        <5>1. operations' = [operations EXCEPT ![o] =
                               [operations[o] EXCEPT !.pc = "attempting", !.heard = "none",
                                                     !.left = FALSE]]
          BY <1>0, <4>2 DEF RetryInv, OperationRecords
        <5> QED BY <2>2, <5>1 DEF StartAttempt
      <4> QED BY <2>2, <4>1, <4>2 DEF StartAttempt
    <3> DEFINE q == [operations[o] EXCEPT !.pc = p, !.heard = v, !.left = l]
    <3>2. q \in OperationRecords /\ q.pc = p /\ q.heard = v /\ q.left = l
      BY <1>0 DEF OperationRecords
    <3>3. operations' = [operations EXCEPT ![o] = q]
      BY <3>1
    <3> HIDE DEF q
    <3>4. o \in careful => Sound(leases[o], q, applied[o])
      BY <1>0, <3>1, <3>2 DEF Sound, LeasedWhileAttempting, OneTransaction, LeftIsHeard,
           AppliedIsLeft
    <3> QED BY <3>2, <3>3, <3>4
  <2>4. CASE AttemptSettles(o)
    <3>1. PICK p \in {"delaying", "done"} :
            /\ operations' = [operations EXCEPT ![o] = [operations[o] EXCEPT !.pc = p]]
            /\ operations[o].pc = "attempting" /\ Careful(o, leases[o].pc = "none")
            /\ p = "delaying" => \E verdict \in MaySettle(o) : verdict = "transient"
      BY <2>4 DEF AttemptSettles, MayRetry, Leaves, RetryInv
    <3>2. p = "delaying" /\ o \in careful => operations[o].heard \in {"none", "transient"}
      BY <3>1 DEF MaySettle, HasHeard
    <3> DEFINE q == [operations[o] EXCEPT !.pc = p]
    <3>3. /\ q \in OperationRecords /\ q.pc = p /\ q.heard = operations[o].heard
          /\ q.left = operations[o].left
      BY <1>0 DEF OperationRecords
    <3>4. operations' = [operations EXCEPT ![o] = q]
      BY <3>1
    <3> HIDE DEF q
    <3>5. o \in careful => Sound(leases[o], q, applied[o])
      BY <1>0, <3>1, <3>2, <3>3 DEF Sound, LeasedWhileAttempting, OneTransaction, LeftIsHeard,
           AppliedIsLeft, Careful
    <3> QED BY <3>3, <3>4, <3>5
  <2>5. CASE DelayEnds(o)
    <3>1. PICK p \in {"loop", "done"}, n \in Nat :
            /\ operations[o].pc = "delaying"
            /\ operations' = [operations EXCEPT ![o] = [operations[o] EXCEPT !.pc = p, !.attempt = n]]
      <4>1. CASE Leaves(o)
        <5>1. operations' = [operations EXCEPT ![o] =
                 [operations[o] EXCEPT !.pc = "done", !.attempt = operations[o].attempt]]
          BY <1>0, <4>1 DEF Leaves, RetryInv, OperationRecords
        <5>2. operations[o].attempt \in Nat
          BY <1>0 DEF OperationRecords
        <5> QED BY <2>5, <5>1, <5>2 DEF DelayEnds
      <4>2. CASE operations' = [operations EXCEPT ![o].pc = "loop", ![o].attempt = @ + 1]
        <5>1. operations' = [operations EXCEPT ![o] =
                 [operations[o] EXCEPT !.pc = "loop", !.attempt = operations[o].attempt + 1]]
          BY <1>0, <4>2 DEF RetryInv, OperationRecords
        <5>2. operations[o].attempt + 1 \in Nat
          BY <1>0 DEF OperationRecords
        <5> QED BY <2>5, <5>1, <5>2 DEF DelayEnds
      <4> QED BY <2>5, <4>1, <4>2 DEF DelayEnds
    <3> DEFINE q == [operations[o] EXCEPT !.pc = p, !.attempt = n]
    <3>2. /\ q \in OperationRecords /\ q.pc = p /\ q.heard = operations[o].heard
          /\ q.left = operations[o].left
      BY <1>0 DEF OperationRecords
    <3>3. operations' = [operations EXCEPT ![o] = q]
      BY <3>1
    <3> HIDE DEF q
    <3>4. o \in careful => Sound(leases[o], q, applied[o])
      BY <1>0, <3>1, <3>2 DEF Sound, LeasedWhileAttempting, OneTransaction, LeftIsHeard,
           AppliedIsLeft
    <3> QED BY <3>2, <3>3, <3>4
  <2> QED BY <2>1, <2>2, <2>4, <2>5 DEF Retries
<1> QED BY <1>1, <1>2, RetryStep

LEMMA NextRetryInv == RetryInv /\ [Next]_vars => RetryInv'
<1> SUFFICES ASSUME RetryInv, [Next]_vars PROVE RetryInv'
  OBVIOUS
<1>1. ASSUME NEW x \in Owners, Uses(x) \/ Finishes(x) PROVE RetryInv'
  BY <1>1, CreateConnectionStep, QuietSteps, BeginStep, EndStep DEF Uses, Finishes
<1>2. ASSUME NEW o \in Operations, Retries(o) PROVE RetryInv'
  BY <1>2, RetriesStep
<1>3. ASSUME NEW o \in Operations, Abort(o) PROVE RetryInv'
  BY <1>3 DEF Abort, sourceVars, countVars, givenVars, RetryInv
<1>4. CASE DisposeSource
  <2>1. /\ UNCHANGED <<leases, operations, applied, careful>>
        /\ idle' = idle \/ idle' = <<>>
    BY <1>4 DEF DisposeSource, sourceVars, givenVars
  <2>2. idle' \in Seq(Handles \cup {NoHandle})
    BY <2>1, EmptySeq DEF RetryInv
  <2> QED BY <2>1, <2>2 DEF RetryInv
<1>5. CASE DisposeSettles
  BY <1>5 DEF DisposeSettles, sourceVars, givenVars, RetryInv
<1>6. CASE UNCHANGED vars
  BY <1>6 DEF vars, RetryInv
<1> QED BY <1>1, <1>2, <1>3, <1>4, <1>5, <1>6 DEF Next

(* executeWithRetry() runs a careful callback again only after a failure   *)
(* that left nothing behind, so its work becomes durable at most once,     *)
(* with any number of contexts, operations, handles and attempts, whatever *)
(* fails, whatever the callbacks that are not careful do beside it, and    *)
(* wherever the signal fires (entity-kit-data-source.ts:100).              *)
THEOREM RetriesApplyOnce == Spec => []AppliedAtMostOnce
<1>1. Init => RetryInv
  BY InitRetryInv
<1>2. RetryInv /\ [Next]_vars => RetryInv'
  BY NextRetryInv
<1>3. RetryInv => AppliedAtMostOnce
  <2> SUFFICES ASSUME RetryInv, NEW o \in careful PROVE applied[o] <= 1
    BY DEF AppliedAtMostOnce
  <2>1. o \in Operations /\ Sound(leases[o], operations[o], applied[o])
    BY DEF RetryInv
  <2>2. operations[o] \in OperationRecords /\ applied[o] \in Nat
    BY <2>1 DEF RetryInv
  <2> QED BY <2>1, <2>2 DEF Sound, AppliedIsLeft, OperationRecords
<1> QED BY <1>1, <1>2, <1>3, PTL DEF Spec
-----------------------------------------------------------------------------
(* A lease owns its handle. The invariant says of each lease what is on the  *)
(* handle it would keep, of each open handle where it is, and of each count  *)
(* what it counts.                                                           *)

(* A lease that works has a handle on SQLite and none on a server; an        *)
(* iterator is open in a stream of its own or in a transaction.              *)
Working == {"ready", "transaction", "streaming"}

Shaped(r) ==
  /\ r.handle # NoHandle <=> provider = "sqlite" /\ r.pc \in Working
  /\ r.pc = "streaming" => r.reading
  /\ r.reading => r.pc \in {"streaming", "transaction"}
  /\ r.pc = "closing" => provider = "sqlite"

(* What a lease that would keep its handle has left on it.                   *)
Fits(x, r, h) ==
  /\ h.open
  /\ h.cursor = IF r.reading THEN x ELSE NoOwner
  /\ r.reusable => "raw" \notin h.settings
  /\ r.reusable /\ ~r.scoped => "scoped" \notin h.settings
  /\ r.reusable /\ r.pc # "transaction" => ~h.transaction /\ h.settings = {}

LeaseFits(x) ==
  /\ Shaped(leases[x])
  /\ leases[x].handle # NoHandle => Fits(x, leases[x], handles[leases[x].handle])

(* Nobody shares a handle, and an open one is somebody's or idle.            *)
Apart ==
  /\ \A x, y \in Owners :
       x # y /\ leases[x].handle # NoHandle => leases[x].handle # leases[y].handle
  /\ \A i, j \in 1..Len(idle) : idle[i] = idle[j] => i = j
  /\ \A x \in Owners, i \in 1..Len(idle) : leases[x].handle # idle[i]

Known ==
  \A h \in Handles : handles[h].open =>
    \/ \E i \in 1..Len(idle) : idle[i] = h
    \/ \E x \in Owners : leases[x].handle = h

IdleClean == \A i \in 1..Len(idle) : handles[idle[i]] = FreshHandle

(* The counts are the numbers of what they count.                            *)
Leased == {x \in Owners : leases[x].pc # "none"}
Occupied == {x \in Owners : leases[x].pc \in Working \cup {"closing"}}
Trying == {o \in Operations : operations[o].pc \notin {"idle", "done"}}

Counted ==
  /\ activeLeases = Cardinality(Leased)
  /\ activeOperations = Cardinality(Trying)
  /\ provider = "sqlite" => active = Cardinality(Occupied)

DelaysForMore ==
  \A o \in Operations :
    operations[o].pc = "delaying" => operations[o].attempt < MaxAttempts

AfterDisposal ==
  Disposed =>
    activeLeases = 0 /\ activeOperations = 0 /\ idle = <<>> /\ disposal # "refused"

HInv ==
  /\ TypeOK /\ Apart /\ Known /\ IdleClean /\ Counted /\ DelaysForMore
  /\ AfterDisposal
  /\ provider = "server" => idle = <<>>
  /\ \A x \in Owners : LeaseFits(x)

(* The types of TypeOK, by name.                                             *)
HandleSet ==
  [open : BOOLEAN, transaction : BOOLEAN, settings : SUBSET Settings,
   cursor : Owners \cup {NoOwner}]
LeaseSet ==
  [pc : {"none", "ready", "transaction", "streaming", "closing", "released"},
   handle : Handles \cup {NoHandle}, reusable : BOOLEAN,
   outcomeUnknown : BOOLEAN, reading : BOOLEAN, scoped : BOOLEAN, work : 0..MaxWork]
OperationSet ==
  [pc : {"idle", "loop", "attempting", "delaying", "done"},
   attempt : 1..MaxAttempts, heard : Settlements \cup {"none"}, left : BOOLEAN]

LEMMA Types ==
  ASSUME TypeOK
  PROVE  /\ provider \in {"sqlite", "server"}
         /\ idle \in Seq(Handles) /\ Len(idle) \in Nat
         /\ \A i \in 1..Len(idle) : idle[i] \in Handles
         /\ active \in Nat /\ activeLeases \in Nat /\ activeOperations \in Nat
         /\ handles \in [Handles -> HandleSet]
         /\ leases \in [Owners -> LeaseSet]
         /\ operations \in [Operations -> OperationSet]
  BY DEF TypeOK, HandleSet, LeaseSet, OperationSet

LEMMA TypesSuffice ==
  ASSUME provider \in {"sqlite", "server"},
         idle \in Seq(Handles), active \in Nat,
         handles \in [Handles -> HandleSet], leases \in [Owners -> LeaseSet],
         careful \in SUBSET Operations, taken \in [Owners -> 0..MaxLeases],
         activeLeases \in Nat, activeOperations \in Nat,
         operations \in [Operations -> OperationSet],
         aborted \in SUBSET Operations, applied \in [Operations -> Nat],
         disposal \in {"none", "closing", "done", "failed", "refused"}
  PROVE  TypeOK
  BY DEF TypeOK, HandleSet, LeaseSet, OperationSet

(* Sets of owners are finite, and gain or lose one member at a time.         *)
LEMMA FiniteOwners ==
  /\ IsFiniteSet(Leased) /\ Cardinality(Leased) \in Nat
  /\ IsFiniteSet(Occupied) /\ Cardinality(Occupied) \in Nat
  /\ IsFiniteSet(Trying) /\ Cardinality(Trying) \in Nat
<1>1. IsFiniteSet(Owners)
  BY SettingsAssumption
<1>2. /\ Leased \in SUBSET Owners /\ Occupied \in SUBSET Owners
      /\ Trying \in SUBSET Owners
  BY DEF Leased, Occupied, Trying, Owners
<1>3. IsFiniteSet(Leased) /\ IsFiniteSet(Occupied) /\ IsFiniteSet(Trying)
  BY <1>1, <1>2, FS_Subset
<1> QED BY <1>3, FS_CardinalityType

LEMMA OneMore ==
  ASSUME NEW S, IsFiniteSet(S), NEW T, NEW x, x \notin S, T = S \cup {x}
  PROVE  Cardinality(T) = Cardinality(S) + 1
  BY FS_AddElement

LEMMA OneLess ==
  ASSUME NEW S, IsFiniteSet(S), NEW T, NEW x, x \in S, T = S \ {x}
  PROVE  Cardinality(T) = Cardinality(S) - 1
  BY FS_RemoveElement

LEMMA NoMembers ==
  /\ IsFiniteSet(Leased) /\ (Cardinality(Leased) = 0 <=> Leased = {})
  /\ IsFiniteSet(Occupied) /\ (Cardinality(Occupied) = 0 <=> Occupied = {})
  /\ IsFiniteSet(Trying) /\ (Cardinality(Trying) = 0 <=> Trying = {})
  BY FiniteOwners, FS_EmptySet

(* Somebody holds a lease, so the source has not been disposed of.           *)
LEMMA LeasedMeansLive ==
  ASSUME HInv, NEW x \in Owners, leases[x].pc # "none"
  PROVE  ~Disposed /\ activeLeases \in Nat /\ activeLeases # 0
<1>1. x \in Leased
  BY DEF Leased
<1>2. Cardinality(Leased) # 0
  BY <1>1, NoMembers
<1> QED BY <1>2 DEF HInv, AfterDisposal, Counted, TypeOK

LEMMA TryingMeansLive ==
  ASSUME HInv, NEW o \in Operations, operations[o].pc \notin {"idle", "done"}
  PROVE  ~Disposed /\ activeOperations \in Nat /\ activeOperations # 0
<1>1. o \in Trying
  BY DEF Trying
<1>2. Cardinality(Trying) # 0
  BY <1>1, NoMembers
<1> QED BY <1>2 DEF HInv, AfterDisposal, Counted, TypeOK

(* The operations of others do not count, whatever they hear.                *)
LEMMA SameTrying ==
  ASSUME \A o \in Operations : operations'[o].pc = operations[o].pc
  PROVE  Trying' = Trying
  BY DEF Trying

(* The records that handles and leases begin with.                           *)
LEMMA Blank ==
  /\ NoLease \in LeaseSet /\ FreshHandle \in HandleSet
  /\ ClosedHandle \in HandleSet /\ ~ClosedHandle.open
<1>1. 0 \in 0..MaxWork
  BY SettingsAssumption
<1>2. NoLease \in LeaseSet
  BY <1>1 DEF NoLease, LeaseSet
<1>3. FreshHandle \in HandleSet
  BY DEF FreshHandle, HandleSet
<1>4. ClosedHandle \in HandleSet
  BY DEF FreshHandle, ClosedHandle, HandleSet
<1>5. ~ClosedHandle.open
  BY DEF FreshHandle, ClosedHandle
<1> QED BY <1>2, <1>3, <1>4, <1>5

LEMMA HInit == Init => HInv
<1> SUFFICES ASSUME Init PROVE HInv
  OBVIOUS
<1>1. \A x \in Owners : leases[x] = NoLease
  BY DEF Init
<1>2. NoLease \in LeaseSet /\ ClosedHandle \in HandleSet /\ ~ClosedHandle.open
  BY Blank
<1>3. TypeOK
  <2>1. leases \in [Owners -> LeaseSet] /\ handles \in [Handles -> HandleSet]
    BY <1>2 DEF Init
  <2>2. operations \in [Operations -> OperationSet]
    BY SettingsAssumption DEF Init, OperationSet, Settlements
  <2>3. taken \in [Owners -> 0..MaxLeases]
    BY SettingsAssumption DEF Init
  <2> QED BY <2>1, <2>2, <2>3, TypesSuffice DEF Init
<1>4. Len(idle) = 0
  BY DEF Init
<1>5. Known
  BY <1>2 DEF Init, Known
<1>6. Leased = {} /\ Occupied = {} /\ Trying = {}
  BY <1>1 DEF Leased, Occupied, Trying, NoLease, Working, Init
<1>7. Counted
  BY <1>6, FS_EmptySet DEF Counted, Init
<1>8. \A x \in Owners : LeaseFits(x)
  BY <1>1 DEF NoLease, LeaseFits, Shaped, Working
<1>9. Apart /\ IdleClean
  BY <1>1, <1>4 DEF NoLease, Apart, IdleClean
<1> QED BY <1>3, <1>5, <1>7, <1>8, <1>9 DEF HInv, Init, DelaysForMore, AfterDisposal, Disposed

(* What a step hears, and what it leaves, changes no count and no attempt.   *)
LEMMA Tells ==
  ASSUME HInv, NEW x,
         \/ UNCHANGED <<operations, applied>> \/ Writes(x)
         \/ \E v \in Settlements : Hears(x, v) /\ UNCHANGED applied
         \/ \E v \in Settlements : HearsDurable(x, v)
  PROVE  /\ operations' \in [Operations -> OperationSet]
         /\ \A o \in Operations : operations'[o].pc = operations[o].pc
                                  /\ operations'[o].attempt = operations[o].attempt
         /\ applied' \in [Operations -> Nat]
<1>1. operations \in [Operations -> OperationSet] /\ applied \in [Operations -> Nat]
  BY Types DEF HInv, TypeOK
<1>2. ASSUME NEW q \in OperationSet, NEW n \in Nat, x \in Operations,
             operations' = [operations EXCEPT ![x] = q],
             q.pc = operations[x].pc, q.attempt = operations[x].attempt,
             applied' = [applied EXCEPT ![x] = n]
      PROVE  /\ operations' \in [Operations -> OperationSet]
             /\ \A o \in Operations : operations'[o].pc = operations[o].pc
                                      /\ operations'[o].attempt = operations[o].attempt
             /\ applied' \in [Operations -> Nat]
  BY <1>1, <1>2
<1>3. CASE UNCHANGED <<operations, applied>>
  BY <1>1, <1>3
<1>4. ASSUME NEW v \in Settlements, Hears(x, v), UNCHANGED applied, x \in Operations
      PROVE  \E q \in OperationSet, n \in Nat :
               /\ operations' = [operations EXCEPT ![x] = q]
               /\ q.pc = operations[x].pc /\ q.attempt = operations[x].attempt
               /\ applied' = [applied EXCEPT ![x] = n]
  <2> DEFINE q == [operations[x] EXCEPT !.heard = v]
  <2>1. q \in OperationSet /\ q.pc = operations[x].pc /\ q.attempt = operations[x].attempt
    BY <1>1, <1>4 DEF OperationSet
  <2>2. operations' = [operations EXCEPT ![x] = q]
    BY <1>1, <1>4 DEF Hears
  <2>3. applied' = [applied EXCEPT ![x] = applied[x]] /\ applied[x] \in Nat
    BY <1>1, <1>4
  <2> HIDE DEF q
  <2> QED BY <2>1, <2>2, <2>3
<1>5. ASSUME NEW v \in Settlements \cup {"none"}, HearsDurable(x, v), x \in Operations
      PROVE  \E q \in OperationSet, n \in Nat :
               /\ operations' = [operations EXCEPT ![x] = q]
               /\ q.pc = operations[x].pc /\ q.attempt = operations[x].attempt
               /\ applied' = [applied EXCEPT ![x] = n]
  <2> DEFINE q == [operations[x] EXCEPT !.heard = v, !.left = TRUE]
  <2>1. q \in OperationSet /\ q.pc = operations[x].pc /\ q.attempt = operations[x].attempt
    BY <1>1, <1>5 DEF OperationSet
  <2>2. operations' = [operations EXCEPT ![x] = q]
    BY <1>1, <1>5 DEF HearsDurable, OperationSet
  <2>3. PICK n \in Nat : applied' = [applied EXCEPT ![x] = n]
    <3>1. CASE operations[x].left
      <4>1. applied' = [applied EXCEPT ![x] = applied[x]] /\ applied[x] \in Nat
        BY <1>1, <1>5, <3>1 DEF HearsDurable
      <4> QED BY <4>1
    <3>2. CASE ~operations[x].left
      <4>1. applied' = [applied EXCEPT ![x] = applied[x] + 1]
        BY <1>5, <3>2 DEF HearsDurable
      <4>2. applied[x] + 1 \in Nat
        BY <1>1, <1>5
      <4> QED BY <4>1, <4>2
    <3> QED BY <3>1, <3>2
  <2> HIDE DEF q
  <2> QED BY <2>1, <2>2, <2>3
<1>6. CASE \E v \in Settlements : Hears(x, v) /\ UNCHANGED applied
  <2>1. CASE x \in Operations
    BY <1>2, <1>4, <1>6, <2>1
  <2>2. CASE x \notin Operations
    BY <1>3, <1>6, <2>2 DEF Hears
  <2> QED BY <2>1, <2>2
<1>7. CASE \E v \in Settlements \cup {"none"} : HearsDurable(x, v)
  <2>1. CASE x \in Operations
    BY <1>2, <1>5, <1>7, <2>1
  <2>2. CASE x \notin Operations
    BY <1>3, <1>7, <2>2 DEF HearsDurable
  <2> QED BY <2>1, <2>2
<1>8. CASE Writes(x)
  <2>1. CASE x \in Operations /\ HearsDurable(x, operations[x].heard)
    <3>1. operations[x].heard \in Settlements \cup {"none"}
      BY <1>1, <2>1 DEF OperationSet
    <3> QED BY <1>7, <2>1, <3>1
  <2> QED BY <1>3, <1>8, <2>1 DEF Writes
<1> QED BY <1>3, <1>6, <1>7, <1>8

(* A step of a lease that goes on working with its handle. Others do not     *)
(* notice: the handle is its own, and no count moves.                        *)
LEMMA WorkStep ==
  ASSUME HInv, NEW x \in Owners, NEW r \in LeaseSet, NEW h \in HandleSet,
         leases[x].pc \in Working, r.pc \in Working,
         r.handle = leases[x].handle,
         leases' = [leases EXCEPT ![x] = r],
         r.pc = "streaming" => r.reading,
         r.reading => r.pc \in {"streaming", "transaction"},
         provider = "sqlite" =>
           handles' = [handles EXCEPT ![r.handle] = h] /\ Fits(x, r, h),
         provider = "server" => handles' = handles,
         UNCHANGED <<provider, careful, idle, active, countVars, aborted>>,
         operations' \in [Operations -> OperationSet],
         \A o \in Operations : operations'[o].pc = operations[o].pc
                               /\ operations'[o].attempt = operations[o].attempt,
         applied' \in [Operations -> Nat]
  PROVE  HInv'
<1>0. /\ TypeOK /\ LeaseFits(x) /\ Apart /\ Known /\ IdleClean /\ Counted
      /\ DelaysForMore /\ AfterDisposal
      /\ provider = "server" => idle = <<>>
      /\ \A y \in Owners : LeaseFits(y)
  BY DEF HInv
<1>1. /\ provider \in {"sqlite", "server"}
      /\ handles \in [Handles -> HandleSet]
      /\ leases \in [Owners -> LeaseSet]
      /\ \A i \in 1..Len(idle) : idle[i] \in Handles
  BY <1>0, Types
<1>2. UNCHANGED <<provider, careful, idle, active, taken, activeLeases,
                  activeOperations, disposal, aborted>>
  BY DEF countVars
<1>3. provider = "sqlite" => r.handle \in Handles
  <2>1. leases[x].handle \in Handles \cup {NoHandle}
    BY <1>1 DEF LeaseSet
  <2> QED BY <1>0, <2>1 DEF LeaseFits, Shaped
<1>4. leases' \in [Owners -> LeaseSet] /\ handles' \in [Handles -> HandleSet]
  BY <1>1, <1>3
<1>5. TypeOK'
  BY <1>0, <1>2, <1>4 DEF TypeOK, HandleSet, LeaseSet, OperationSet
<1>6. /\ leases'[x] = r
      /\ \A y \in Owners : y # x => leases'[y] = leases[y]
      /\ \A y \in Owners : leases'[y].handle = leases[y].handle
  BY <1>1
<1>7. /\ \A y \in Owners : (leases'[y].pc # "none") <=> (leases[y].pc # "none")
      /\ \A y \in Owners : (leases'[y].pc \in Working \cup {"closing"})
                             <=> (leases[y].pc \in Working \cup {"closing"})
  BY <1>6 DEF Working
<1>8. Leased' = Leased /\ Occupied' = Occupied /\ Trying' = Trying
  BY <1>7, SameTrying DEF Leased, Occupied
<1>9. Counted'
  BY <1>0, <1>2, <1>8 DEF Counted
<1>10. Apart'
  BY <1>0, <1>2, <1>6 DEF Apart
<1>11. provider = "sqlite" =>
         /\ handles'[r.handle] = h
         /\ \A g \in Handles : g # r.handle => handles'[g] = handles[g]
  BY <1>1, <1>3
<1>12. IdleClean'
  <2> SUFFICES ASSUME NEW i \in 1..Len(idle)
               PROVE  handles'[idle[i]] = FreshHandle
    BY <1>2 DEF IdleClean
  <2>1. idle[i] # r.handle /\ idle[i] \in Handles
    BY <1>0, <1>1 DEF Apart
  <2>2. handles[idle[i]] = FreshHandle
    BY <1>0 DEF IdleClean
  <2> QED BY <1>1, <1>11, <2>1, <2>2
<1>13. Known'
  <2> SUFFICES ASSUME NEW g \in Handles, handles'[g].open
               PROVE  \/ \E i \in 1..Len(idle) : idle[i] = g
                      \/ \E y \in Owners : leases'[y].handle = g
    BY <1>2 DEF Known
  <2>1. CASE provider = "sqlite" /\ g = r.handle
    BY <1>6, <2>1
  <2>2. CASE ~(provider = "sqlite" /\ g = r.handle)
    <3>1. handles[g].open
      BY <1>1, <1>11, <2>2
    <3> QED BY <1>0, <1>6, <3>1 DEF Known
  <2> QED BY <2>1, <2>2
<1>14. ASSUME NEW y \in Owners PROVE LeaseFits(y)'
  <2>1. CASE y = x
    <3>1. Shaped(leases[y])'
      <4>1. Shaped(leases[x]) /\ r.pc # "closing"
        BY <1>0 DEF LeaseFits, Working
      <4>2. leases'[y] = r /\ provider' = provider
        BY <1>2, <1>6, <2>1
      <4> QED BY <4>1, <4>2 DEF Shaped
    <3>2. r.handle # NoHandle => provider = "sqlite"
      BY <1>0 DEF LeaseFits, Shaped
    <3>3. r.handle # NoHandle => Fits(x, r, handles'[r.handle])
      BY <1>11, <3>2
    <3>4. leases'[y].handle # NoHandle
            => Fits(y, leases'[y], handles'[leases'[y].handle])
      BY <1>6, <2>1, <3>3
    <3> QED BY <3>1, <3>4 DEF LeaseFits, Fits
  <2>2. CASE y # x
    <3>1. leases'[y] = leases[y] /\ LeaseFits(y)
      BY <1>0, <1>6, <2>2
    <3>2. Shaped(leases[y])'
      BY <1>2, <3>1 DEF LeaseFits, Shaped
    <3>3. ASSUME leases[y].handle # NoHandle
          PROVE  handles'[leases[y].handle] = handles[leases[y].handle]
      <4>1. leases[y].handle \in Handles /\ leases[y].handle # r.handle
        BY <1>0, <1>1, <2>2, <3>3 DEF Apart, LeaseSet
      <4> QED BY <1>1, <1>11, <4>1
    <3> QED BY <3>1, <3>2, <3>3 DEF LeaseFits, Fits
  <2> QED BY <2>1, <2>2
<1>15. DelaysForMore' /\ AfterDisposal'
  BY <1>0, <1>2 DEF DelaysForMore, AfterDisposal, Disposed
<1> QED BY <1>0, <1>2, <1>5, <1>9, <1>10, <1>12, <1>13, <1>14, <1>15 DEF HInv

(* What a working lease starts from.                                         *)
LEMMA AtWork ==
  ASSUME HInv, NEW x \in Owners, leases[x].pc \in Working
  PROVE  /\ leases[x] \in LeaseSet /\ leases[x].work \in 0..MaxWork
         /\ Shaped(leases[x])
         /\ operations \in [Operations -> OperationSet]
         /\ applied \in [Operations -> Nat]
         /\ provider \in {"sqlite", "server"}
         /\ provider = "server" =>
              leases[x].handle = NoHandle
         /\ provider = "sqlite" =>
              /\ leases[x].handle \in Handles
              /\ handles[leases[x].handle] \in HandleSet
              /\ Fits(x, leases[x], handles[leases[x].handle])
<1>1. /\ provider \in {"sqlite", "server"}
      /\ handles \in [Handles -> HandleSet]
      /\ leases \in [Owners -> LeaseSet]
      /\ operations \in [Operations -> OperationSet]
      /\ applied \in [Operations -> Nat]
  BY Types DEF HInv, TypeOK
<1>2. LeaseFits(x)
  BY DEF HInv
<1>3. leases[x] \in LeaseSet
  BY <1>1
<1>4. leases[x].work \in 0..MaxWork /\ leases[x].handle \in Handles \cup {NoHandle}
  BY <1>3 DEF LeaseSet
<1>5. (leases[x].handle # NoHandle) <=> (provider = "sqlite")
  BY <1>2 DEF LeaseFits, Shaped
<1>6. provider = "sqlite" => leases[x].handle \in Handles
  BY <1>4, <1>5
<1> QED BY <1>1, <1>2, <1>3, <1>4, <1>5, <1>6 DEF LeaseFits

LEMMA QuerySafe ==
  ASSUME HInv, NEW x \in Owners, Query(x) PROVE HInv'
<1> DEFINE l == leases[x]
           g == handles[l.handle]
<1>1. PICK classified \in BOOLEAN, fails \in BOOLEAN :
        /\ leases' = [leases EXCEPT ![x].work = @ + 1,
                                    ![x].reusable = @ /\ classified /\ ~fails]
        /\ handles' = IF classified \/ provider = "server" THEN handles
                      ELSE [handles EXCEPT ![l.handle].settings = @ \cup {"raw"}]
  BY DEF Query
<1>2. /\ l.pc \in {"ready", "transaction"} /\ l.work < MaxWork
      /\ UNCHANGED <<provider, careful, idle, active, countVars, aborted>>
  BY DEF Query, MayWork, givenVars
<1>3. l.pc \in Working
  BY <1>2 DEF Working
<1>4. /\ l \in LeaseSet /\ l.work \in 0..MaxWork /\ Shaped(l)
      /\ provider \in {"sqlite", "server"}
      /\ provider = "sqlite" =>
           l.handle \in Handles /\ g \in HandleSet /\ Fits(x, l, g)
  BY <1>3, AtWork
<1>5. /\ operations' \in [Operations -> OperationSet]
      /\ \A o \in Operations : operations'[o].pc = operations[o].pc
                               /\ operations'[o].attempt = operations[o].attempt
      /\ applied' \in [Operations -> Nat]
  BY Tells DEF Query
<1> DEFINE r == [l EXCEPT !.work = @ + 1, !.reusable = @ /\ classified /\ ~fails]
           h == IF classified THEN g ELSE [g EXCEPT !.settings = @ \cup {"raw"}]
<1>6. l.work + 1 \in 0..MaxWork
  BY <1>2, <1>4, SettingsAssumption
<1>7. /\ r \in LeaseSet /\ r.pc = l.pc /\ r.handle = l.handle
      /\ r.reading = l.reading /\ r.scoped = l.scoped
      /\ r.reusable => l.reusable /\ classified
  BY <1>4, <1>6 DEF LeaseSet
<1>8. leases' = [leases EXCEPT ![x] = r]
  BY <1>1
<1>9. /\ r.pc = "streaming" => r.reading
      /\ r.reading => r.pc \in {"streaming", "transaction"}
  BY <1>4, <1>7 DEF Shaped
<1>10. CASE provider = "server"
  <2>1. handles' = handles /\ FreshHandle \in HandleSet
    BY <1>1, <1>10, Blank
  <2> HIDE DEF r, h
  <2> QED BY <1>2, <1>3, <1>4, <1>5, <1>7, <1>8, <1>9, <1>10, <2>1, WorkStep
<1>11. CASE provider = "sqlite"
  <2>1. h \in HandleSet
    BY <1>4, <1>11 DEF HandleSet, Settings
  <2>2. Fits(x, r, h)
    <3>1. h.open = g.open /\ h.cursor = g.cursor /\ (classified => h = g)
      BY <1>4, <1>11 DEF HandleSet
    <3> QED BY <1>4, <1>7, <1>11, <3>1 DEF Fits
  <2>3. handles' = [handles EXCEPT ![l.handle] = h]
    BY <1>1, <1>11, Types DEF HInv
  <2> HIDE DEF r, h
  <2> QED BY <1>2, <1>3, <1>4, <1>5, <1>7, <1>8, <1>9, <1>11, <2>1, <2>2, <2>3, WorkStep
<1> QED BY <1>4, <1>10, <1>11

LEMMA OpenStreamSafe ==
  ASSUME HInv, NEW x \in Owners, OpenStream(x) PROVE HInv'
<1> DEFINE l == leases[x]
           g == handles[l.handle]
<1>1. PICK classified \in BOOLEAN :
        /\ leases' = [leases EXCEPT ![x].work = @ + 1,
                                    ![x].reusable = @ /\ classified,
                                    ![x].reading = TRUE,
                                    ![x].pc = IF @ = "ready" THEN "streaming" ELSE @]
        /\ handles' = [handles EXCEPT
             ![l.handle].cursor = x,
             ![l.handle].settings = IF classified THEN @ ELSE @ \cup {"raw"}]
  BY DEF OpenStream
<1>2. /\ provider = "sqlite" /\ l.pc \in {"ready", "transaction"}
      /\ l.work < MaxWork
      /\ UNCHANGED <<provider, careful, idle, active, countVars, aborted>>
  BY DEF OpenStream, MayWork, givenVars
<1>3. l.pc \in Working
  BY <1>2 DEF Working
<1>4. /\ l \in LeaseSet /\ l.work \in 0..MaxWork /\ Shaped(l)
      /\ l.handle \in Handles /\ g \in HandleSet /\ Fits(x, l, g)
  BY <1>2, <1>3, AtWork
<1>12. /\ operations' \in [Operations -> OperationSet]
       /\ \A o \in Operations : operations'[o].pc = operations[o].pc
                                /\ operations'[o].attempt = operations[o].attempt
       /\ applied' \in [Operations -> Nat]
  BY Tells DEF OpenStream
<1> DEFINE r == [l EXCEPT !.work = @ + 1, !.reusable = @ /\ classified,
                          !.reading = TRUE,
                          !.pc = IF @ = "ready" THEN "streaming" ELSE @]
           h == [g EXCEPT !.cursor = x,
                          !.settings = IF classified THEN @ ELSE @ \cup {"raw"}]
<1>5. l.work + 1 \in 0..MaxWork
  BY <1>2, <1>4, SettingsAssumption
<1>6. /\ r \in LeaseSet /\ r.handle = l.handle /\ r.reading
      /\ r.scoped = l.scoped
      /\ r.pc = IF l.pc = "ready" THEN "streaming" ELSE l.pc
      /\ r.reusable => l.reusable /\ classified
  BY <1>4, <1>5 DEF LeaseSet
<1>7. h \in HandleSet
  BY <1>4 DEF HandleSet, Settings
<1>8. Fits(x, r, h)
  <2>1. /\ h.open = g.open /\ h.cursor = x /\ h.transaction = g.transaction
        /\ classified => h.settings = g.settings
    BY <1>4 DEF HandleSet
  <2>2. r.pc # "transaction" => l.pc # "transaction"
    BY <1>6
  <2> QED BY <1>4, <1>6, <2>1, <2>2 DEF Fits
<1>9. leases' = [leases EXCEPT ![x] = r]
  BY <1>1
<1>10. handles' = [handles EXCEPT ![l.handle] = h]
  BY <1>1
<1>11. r.pc \in {"streaming", "transaction"} /\ r.pc \in Working
  BY <1>2, <1>6 DEF Working
<1> HIDE DEF r, h
<1> QED BY <1>2, <1>3, <1>4, <1>6, <1>7, <1>8, <1>9, <1>10, <1>11, <1>12, WorkStep

LEMMA StreamEndsSafe ==
  ASSUME HInv, NEW x \in Owners, StreamEnds(x) PROVE HInv'
<1> DEFINE l == leases[x]
           g == handles[l.handle]
<1>1. PICK fails \in BOOLEAN :
        leases' = [leases EXCEPT ![x].reading = FALSE, ![x].reusable = @ /\ ~fails,
                                 ![x].pc = IF @ = "streaming" THEN "ready" ELSE @]
  BY DEF StreamEnds
<1>2. /\ l.pc \in {"streaming", "transaction"} /\ l.reading
      /\ handles' = [handles EXCEPT ![l.handle].cursor = NoOwner]
      /\ UNCHANGED <<provider, careful, idle, active, countVars, operations, aborted,
                     applied>>
  BY DEF StreamEnds, givenVars
<1>3. l.pc \in Working
  BY <1>2 DEF Working
<1>4. /\ l \in LeaseSet /\ Shaped(l) /\ provider \in {"sqlite", "server"}
      /\ operations \in [Operations -> OperationSet]
      /\ applied \in [Operations -> Nat]
      /\ provider = "server" => l.handle = NoHandle
      /\ provider = "sqlite" =>
           l.handle \in Handles /\ g \in HandleSet /\ Fits(x, l, g)
  BY <1>3, AtWork
<1> DEFINE r == [l EXCEPT !.reading = FALSE, !.reusable = @ /\ ~fails,
                          !.pc = IF @ = "streaming" THEN "ready" ELSE @]
           h == [g EXCEPT !.cursor = NoOwner]
<1>5. /\ r \in LeaseSet /\ r.handle = l.handle /\ ~r.reading
      /\ r.scoped = l.scoped
      /\ r.pc = IF l.pc = "streaming" THEN "ready" ELSE l.pc
      /\ r.reusable => l.reusable
  BY <1>4 DEF LeaseSet
<1>6. provider = "sqlite" => h \in HandleSet
  BY <1>4 DEF HandleSet
<1>7. provider = "sqlite" => Fits(x, r, h)
  <2>1. provider = "sqlite" =>
          /\ h.open = g.open /\ h.cursor = NoOwner
          /\ h.transaction = g.transaction /\ h.settings = g.settings
    BY <1>4 DEF HandleSet
  <2>2. r.pc # "transaction" => l.pc # "transaction"
    BY <1>5
  <2> QED BY <1>4, <1>5, <2>1, <2>2 DEF Fits
<1>8. leases' = [leases EXCEPT ![x] = r]
  BY <1>1
<1>9. handles' = [handles EXCEPT ![l.handle] = h]
  BY <1>2
<1>10. provider = "server" => handles' = handles
  <2> SUFFICES ASSUME provider = "server" PROVE handles' = handles
    OBVIOUS
  <2>1. NoHandle \notin Handles
    BY SettingsAssumption
  <2>2. handles \in [Handles -> HandleSet]
    BY Types DEF HInv
  <2> QED BY <1>4, <1>9, <2>1, <2>2
<1>11. r.pc # "streaming" /\ r.pc \in Working
  BY <1>2, <1>5 DEF Working
<1>12. PICK k \in HandleSet : provider = "sqlite" => k = h
  <2>1. FreshHandle \in HandleSet
    BY Blank
  <2> QED BY <1>6, <2>1
<1> HIDE DEF r, h
<1> QED BY <1>2, <1>3, <1>4, <1>5, <1>7, <1>8, <1>9, <1>10, <1>11, <1>12, WorkStep

LEMMA BeginSafe ==
  ASSUME HInv, NEW x \in Owners, BeginTransaction(x) PROVE HInv'
<1> DEFINE l == leases[x]
           g == handles[l.handle]
<1>2. /\ l.pc = "ready" /\ l.work < MaxWork
      /\ UNCHANGED <<provider, careful, idle, active, countVars, aborted, applied>>
  BY DEF BeginTransaction, MayWork, givenVars
<1>3. l.pc \in Working
  BY <1>2 DEF Working
<1>4. /\ l \in LeaseSet /\ l.work \in 0..MaxWork /\ Shaped(l)
      /\ provider \in {"sqlite", "server"}
      /\ operations \in [Operations -> OperationSet]
      /\ applied \in [Operations -> Nat]
      /\ provider = "sqlite" =>
           l.handle \in Handles /\ g \in HandleSet /\ Fits(x, l, g)
  BY <1>3, AtWork
<1>5. l.work + 1 \in 0..MaxWork
  BY <1>2, <1>4, SettingsAssumption
<1>6. ~l.reading
  BY <1>2, <1>4 DEF Shaped
<1>7. CASE provider = "server"
  <2> DEFINE r == [l EXCEPT !.work = @ + 1, !.pc = "transaction"]
  <2>1. /\ r \in LeaseSet /\ r.handle = l.handle /\ r.pc = "transaction"
    BY <1>4, <1>5 DEF LeaseSet
  <2>2. /\ leases' = [leases EXCEPT ![x] = r]
        /\ UNCHANGED <<handles, operations>>
    BY <1>7 DEF BeginTransaction
  <2>3. FreshHandle \in HandleSet /\ r.pc \in Working
    BY <2>1, Blank DEF Working
  <2> HIDE DEF r
  <2> QED BY <1>2, <1>3, <1>4, <1>7, <2>1, <2>2, <2>3, WorkStep
<1>8. CASE provider = "sqlite"
  <2>0. BeginSqlite(x)
    BY <1>8 DEF BeginTransaction
  <2>1. PICK scoped \in BOOLEAN, begun \in BOOLEAN, resets \in BOOLEAN :
          /\ Careful(x, ~scoped)
          /\ g.transaction => ~begun
          /\ handles' = [handles EXCEPT
               ![l.handle].transaction = @ \/ begun,
               ![l.handle].settings =
                 IF scoped /\ (begun \/ ~resets) THEN @ \cup {"scoped"} ELSE @]
          /\ leases' = [leases EXCEPT
               ![x].work = @ + 1, ![x].reusable = @ /\ begun,
               ![x].scoped = scoped /\ begun,
               ![x].pc = IF begun THEN "transaction" ELSE @]
          /\ IF begun THEN UNCHANGED operations
             ELSE \E verdict \in {"transient", "permanent"} : Hears(x, verdict)
    BY <2>0 DEF BeginSqlite
  <2> DEFINE r == [l EXCEPT !.work = @ + 1, !.reusable = @ /\ begun,
                            !.scoped = scoped /\ begun,
                            !.pc = IF begun THEN "transaction" ELSE @]
             h == [g EXCEPT !.transaction = @ \/ begun,
                            !.settings = IF scoped /\ (begun \/ ~resets)
                                         THEN @ \cup {"scoped"} ELSE @]
  <2>2. /\ r \in LeaseSet /\ r.handle = l.handle /\ r.reading = l.reading
        /\ r.pc = IF begun THEN "transaction" ELSE "ready"
        /\ r.reusable => l.reusable /\ begun
        /\ r.scoped = (scoped /\ begun)
    BY <1>2, <1>4, <1>5 DEF LeaseSet
  <2>3. h \in HandleSet
    BY <1>4, <1>8 DEF HandleSet, Settings
  <2>4. Fits(x, r, h)
    <3>1. /\ h.open = g.open /\ h.cursor = g.cursor
          /\ "raw" \in h.settings => "raw" \in g.settings
          /\ begun /\ ~scoped => h.settings = g.settings
          /\ "scoped" \in g.settings => ~l.reusable
      BY <1>2, <1>4, <1>8 DEF HandleSet, Fits
    <3> QED BY <1>4, <1>6, <1>8, <2>2, <3>1 DEF Fits
  <2>5. leases' = [leases EXCEPT ![x] = r]
    BY <2>1
  <2>6. handles' = [handles EXCEPT ![l.handle] = h]
    BY <2>1
  <2>7. /\ operations' \in [Operations -> OperationSet]
        /\ \A o \in Operations : operations'[o].pc = operations[o].pc
                                 /\ operations'[o].attempt = operations[o].attempt
    <3>1. \/ operations' = operations
          \/ \E v \in Settlements : Hears(x, v)
      BY <2>1 DEF Settlements
    <3> QED BY <1>2, <3>1, Tells
  <2>8. r.pc \in Working /\ r.pc # "streaming" /\ ~r.reading
    BY <1>6, <2>2 DEF Working
  <2> HIDE DEF r, h
  <2> QED BY <1>2, <1>3, <1>4, <1>8, <2>2, <2>3, <2>4, <2>5, <2>6, <2>7, <2>8,
             WorkStep
<1> QED BY <1>4, <1>7, <1>8

(* Streams end before their transaction: only so is the cursor gone when the *)
(* handle may go back to the idle ones.                                      *)
LEMMA EndSafe ==
  ASSUME ~LeavesOpen, HInv, NEW x \in Owners, EndTransaction(x) PROVE HInv'
<1> DEFINE l == leases[x]
           g == handles[l.handle]
<1>2. /\ l.pc = "transaction" /\ ~l.reading
      /\ UNCHANGED <<provider, careful, idle, active, countVars, aborted>>
  BY DEF EndTransaction, givenVars
<1>3. l.pc \in Working
  BY <1>2 DEF Working
<1>4. /\ l \in LeaseSet /\ Shaped(l)
      /\ provider \in {"sqlite", "server"}
      /\ operations \in [Operations -> OperationSet]
      /\ applied \in [Operations -> Nat]
      /\ provider = "sqlite" =>
           l.handle \in Handles /\ g \in HandleSet /\ Fits(x, l, g)
  BY <1>3, AtWork
<1>5. /\ operations' \in [Operations -> OperationSet]
      /\ \A o \in Operations : operations'[o].pc = operations[o].pc
                               /\ operations'[o].attempt = operations[o].attempt
      /\ applied' \in [Operations -> Nat]
  <2>1. \/ \E v \in Settlements : Hears(x, v) /\ UNCHANGED applied
        \/ \E v \in Settlements : HearsDurable(x, v)
    BY DEF EndTransaction, EndSqlite, EndServer, LosesVerdict, Settlements
  <2> QED BY <2>1, Tells
<1>7. CASE provider = "server"
  <2>1. PICK unknown \in BOOLEAN :
          leases' = [leases EXCEPT ![x] =
            [l EXCEPT !.pc = "ready", !.outcomeUnknown = @ \/ unknown]]
    <3>1. CASE EndServer(x)
      <4>1. leases' = [leases EXCEPT ![x] = [l EXCEPT !.pc = "ready"]]
        BY <3>1 DEF EndServer
      <4>2. [l EXCEPT !.pc = "ready", !.outcomeUnknown = @ \/ FALSE]
              = [l EXCEPT !.pc = "ready"]
        BY <1>4 DEF LeaseSet
      <4> QED BY <4>1, <4>2
    <3>2. CASE LosesVerdict(x)
      <4>1. leases' = [leases EXCEPT ![x] =
              [l EXCEPT !.pc = "ready", !.outcomeUnknown = TRUE]]
        BY <3>2 DEF LosesVerdict
      <4>2. [l EXCEPT !.pc = "ready", !.outcomeUnknown = @ \/ TRUE]
              = [l EXCEPT !.pc = "ready", !.outcomeUnknown = TRUE]
        BY <1>4 DEF LeaseSet
      <4> QED BY <4>1, <4>2
    <3> QED BY <1>7, <3>1, <3>2 DEF EndTransaction
  <2> DEFINE r == [l EXCEPT !.pc = "ready", !.outcomeUnknown = @ \/ unknown]
  <2>2. /\ r \in LeaseSet /\ r.handle = l.handle /\ r.pc = "ready"
        /\ r.reading = l.reading
    BY <1>4 DEF LeaseSet
  <2>3. handles' = handles
    BY <1>7 DEF EndTransaction, EndServer, LosesVerdict
  <2>4. FreshHandle \in HandleSet /\ r.pc \in Working
    BY <2>2, Blank DEF Working
  <2>5. leases' = [leases EXCEPT ![x] = r]
    BY <2>1
  <2> HIDE DEF r
  <2> QED BY <1>2, <1>3, <1>4, <1>5, <1>7, <2>2, <2>3, <2>4, <2>5, WorkStep
<1>8. CASE provider = "sqlite"
  <2>0. EndSqlite(x)
    BY <1>8 DEF EndTransaction
  <2>1. PICK committed \in BOOLEAN, rolledBack \in BOOLEAN, resets \in BOOLEAN :
          /\ ~l.scoped => resets
          /\ handles' = [handles EXCEPT
               ![l.handle].transaction = ~committed /\ ~rolledBack,
               ![l.handle].settings = IF l.scoped /\ resets THEN @ \ {"scoped"} ELSE @]
          /\ leases' = [leases EXCEPT ![x].pc = "ready", ![x].reading = FALSE,
                                      ![x].scoped = FALSE,
                                      ![x].reusable = @ /\ committed /\ resets]
          /\ \/ committed /\ resets /\ HearsDurable(x, "resolved")
             \/ /\ committed /\ ~resets
                /\ \E verdict \in {"transient", "permanent"} : HearsDurable(x, verdict)
             \/ /\ ~committed /\ UNCHANGED applied
                /\ \E verdict \in {"transient", "permanent"} : Hears(x, verdict)
    BY <2>0 DEF EndSqlite
  <2> DEFINE r == [l EXCEPT !.pc = "ready", !.reading = FALSE, !.scoped = FALSE,
                            !.reusable = @ /\ committed /\ resets]
             h == [g EXCEPT !.transaction = ~committed /\ ~rolledBack,
                            !.settings = IF l.scoped /\ resets THEN @ \ {"scoped"} ELSE @]
  <2>2. /\ r \in LeaseSet /\ r.handle = l.handle /\ ~r.reading /\ r.pc = "ready"
        /\ r.reusable => l.reusable /\ committed /\ resets
    BY <1>4 DEF LeaseSet
  <2>3. h \in HandleSet
    BY <1>4, <1>8 DEF HandleSet, Settings
  <2>4. Fits(x, r, h)
    <3>1. /\ h.open = g.open /\ h.cursor = g.cursor
          /\ committed => ~h.transaction
          /\ h.settings = IF l.scoped /\ resets THEN g.settings \ {"scoped"} ELSE g.settings
          /\ g.settings \subseteq {"raw", "scoped"}
      BY <1>4, <1>8 DEF HandleSet, Settings
    <3>2. r.reusable => h.settings = {} /\ ~h.transaction
      BY <1>4, <1>8, <2>1, <2>2, <3>1 DEF Fits
    <3> QED BY <1>2, <1>4, <1>8, <2>2, <3>1, <3>2 DEF Fits
  <2>5. leases' = [leases EXCEPT ![x] = r]
    BY <2>1
  <2>6. handles' = [handles EXCEPT ![l.handle] = h]
    BY <2>1
  <2>7. r.pc \in Working
    BY <2>2 DEF Working
  <2> HIDE DEF r, h
  <2> QED BY <1>2, <1>3, <1>4, <1>5, <1>8, <2>2, <2>3, <2>4, <2>5, <2>6,
             <2>7, WorkStep
<1> QED BY <1>4, <1>7, <1>8

-----------------------------------------------------------------------------
(* Steps in which a handle changes hands.                                    *)

(* With no handle idle and a lease still to come, some handle is closed: the *)
(* open ones are those of the other leases, one each.                        *)
LEMMA SomeHandleIsClosed ==
  ASSUME HInv, NEW x \in Owners, leases[x].handle = NoHandle, Len(idle) = 0
  PROVE  \E h \in Handles : ~handles[h].open
<1> SUFFICES ASSUME \A h \in Handles : handles[h].open PROVE FALSE
  OBVIOUS
<1>1. \A h \in Handles : \E y \in Owners \ {x} : leases[y].handle = h
  <2> SUFFICES ASSUME NEW h \in Handles
               PROVE  \E y \in Owners \ {x} : leases[y].handle = h
    OBVIOUS
  <2>1. PICK y \in Owners : leases[y].handle = h
    BY DEF HInv, Known
  <2>2. y # x
    BY <2>1, SettingsAssumption
  <2> QED BY <2>1, <2>2
<1> DEFINE Holders == {y \in Owners \ {x} : leases[y].handle \in Handles}
           held == [y \in Holders |-> leases[y].handle]
<1>2. /\ IsFiniteSet(Owners) /\ Cardinality(Owners) \in Nat
      /\ IsFiniteSet(Owners \ {x})
      /\ Cardinality(Owners \ {x}) = Cardinality(Owners) - 1
  BY SettingsAssumption, FS_RemoveElement, FS_CardinalityType
<1>3. /\ IsFiniteSet(Holders)
      /\ Cardinality(Holders) <= Cardinality(Owners) - 1
  <2>1. Holders \in SUBSET (Owners \ {x})
    OBVIOUS
  <2> HIDE DEF Holders
  <2> QED BY <1>2, <2>1, FS_Subset
<1>4. held \in Surjection(Holders, Handles)
  <2>1. held \in [Holders -> Handles]
    OBVIOUS
  <2>2. \A h \in Handles : \E y \in Holders : held[y] = h
    BY <1>1
  <2> HIDE DEF held, Holders
  <2> QED BY <2>1, <2>2 DEF Surjection
<1>5. IsFiniteSet(Handles) /\ Cardinality(Handles) <= Cardinality(Holders)
  <2> HIDE DEF held, Holders
  <2> QED BY <1>3, <1>4, FS_Surjection
<1>6. Cardinality(Handles) \in Nat /\ Cardinality(Holders) \in Nat
  <2> HIDE DEF Holders
  <2> QED BY <1>3, <1>5, FS_CardinalityType
<1>7. Cardinality(Owners) + MaxIdle <= Cardinality(Handles) /\ MaxIdle \in Nat
  BY SettingsAssumption
<1> HIDE DEF Holders
<1> QED BY <1>2, <1>3, <1>5, <1>6, <1>7

LEMMA OthersFit ==
  ASSUME HInv, NEW x \in Owners, provider' = provider,
         \A y \in Owners : y # x => leases'[y] = leases[y],
         \A y \in Owners : y # x /\ leases[y].handle # NoHandle =>
           handles'[leases[y].handle] = handles[leases[y].handle]
  PROVE  \A y \in Owners : y # x => LeaseFits(y)'
<1> SUFFICES ASSUME NEW y \in Owners, y # x PROVE LeaseFits(y)'
  OBVIOUS
<1>1. LeaseFits(y) /\ leases'[y] = leases[y]
  BY DEF HInv
<1>2. Shaped(leases[y])'
  BY <1>1 DEF LeaseFits, Shaped
<1> QED BY <1>1, <1>2 DEF LeaseFits, Fits

LEMMA CreateSafe ==
  ASSUME HInv, NEW x \in Owners, CreateConnection(x) PROVE HInv'
<1>0. /\ TypeOK /\ LeaseFits(x) /\ Apart /\ Known /\ IdleClean /\ Counted
      /\ DelaysForMore /\ AfterDisposal
      /\ provider = "server" => idle = <<>>
  BY DEF HInv
<1>1. /\ provider \in {"sqlite", "server"}
      /\ idle \in Seq(Handles) /\ Len(idle) \in Nat
      /\ \A i \in 1..Len(idle) : idle[i] \in Handles
      /\ active \in Nat /\ activeLeases \in Nat
      /\ handles \in [Handles -> HandleSet]
      /\ leases \in [Owners -> LeaseSet]
  BY <1>0, Types
<1>2. /\ leases[x].pc = "none" /\ ~Disposed /\ WantsLease(x)
      /\ activeLeases' = activeLeases + 1
      /\ taken' = [taken EXCEPT ![x] = @ + 1]
      /\ UNCHANGED <<provider, careful, activeOperations, operations, aborted, applied,
                     disposal>>
  BY DEF CreateConnection, givenVars
<1>3. taken' \in [Owners -> 0..MaxLeases]
  <2>1. taken \in [Owners -> 0..MaxLeases] /\ MaxLeases \in Nat
    BY <1>0, SettingsAssumption DEF TypeOK
  <2>2. taken[x] < MaxLeases
    BY <1>2 DEF WantsLease
  <2>3. taken[x] + 1 \in 0..MaxLeases
    BY <2>1, <2>2
  <2> QED BY <1>2, <2>1, <2>3
<1>4. leases[x].handle = NoHandle
  BY <1>0, <1>2 DEF LeaseFits, Shaped, Working
<1> DEFINE Lent(h) == [NoLease EXCEPT !.pc = "ready", !.handle = h]
<1>5. \A h \in Handles \cup {NoHandle} :
        /\ Lent(h) \in LeaseSet /\ Lent(h).pc = "ready" /\ Lent(h).handle = h
        /\ ~Lent(h).reading
  <2>1. NoLease \in LeaseSet
    BY Blank
  <2> QED BY <2>1 DEF NoLease, LeaseSet
<1>6. /\ DelaysForMore' /\ AfterDisposal' /\ ~Disposed'
  BY <1>0, <1>2 DEF DelaysForMore, AfterDisposal, Disposed
(* Whatever handle the lease gets, the counts follow.                        *)
<1>7. ASSUME NEW h \in Handles \cup {NoHandle},
             leases' = [leases EXCEPT ![x] = Lent(h)],
             provider = "sqlite" => active' = active + 1
      PROVE  /\ Counted' /\ leases' \in [Owners -> LeaseSet]
             /\ \A y \in Owners : y # x => leases'[y] = leases[y]
             /\ leases'[x] = Lent(h)
  <2>1. /\ leases' \in [Owners -> LeaseSet] /\ leases'[x] = Lent(h)
        /\ \A y \in Owners : y # x => leases'[y] = leases[y]
    BY <1>1, <1>5, <1>7
  <2>2. /\ x \notin Leased /\ Leased' = Leased \cup {x}
        /\ x \notin Occupied /\ Occupied' = Occupied \cup {x}
    <3>1. leases'[x].pc = "ready"
      <4> HIDE DEF Lent
      <4> QED BY <1>5, <2>1
    <3> QED BY <1>2, <2>1, <3>1 DEF Leased, Occupied, Working
  <2>3. /\ Cardinality(Leased') = Cardinality(Leased) + 1
        /\ Cardinality(Occupied') = Cardinality(Occupied) + 1
    BY <2>2, FiniteOwners, OneMore
  <2>4. Trying' = Trying
    BY <1>2, SameTrying
  <2> QED BY <1>0, <1>2, <1>7, <2>1, <2>3, <2>4 DEF Counted
<1>8. CASE provider = "server"
  <2>1. /\ leases' = [leases EXCEPT ![x] = [NoLease EXCEPT !.pc = "ready"]]
        /\ UNCHANGED <<idle, active, handles>>
    BY <1>8 DEF CreateConnection, sourceVars
  <2>2. [NoLease EXCEPT !.pc = "ready"] = Lent(NoHandle)
    <3>1. NoLease \in LeaseSet
      BY Blank
    <3>2. NoLease.handle = NoHandle
      BY DEF NoLease
    <3> QED BY <3>1, <3>2 DEF LeaseSet
  <2>3. /\ Counted' /\ leases' \in [Owners -> LeaseSet]
        /\ \A y \in Owners : y # x => leases'[y] = leases[y]
        /\ leases'[x] = Lent(NoHandle)
    <3> HIDE DEF Lent
    <3> QED BY <1>7, <1>8, <2>1, <2>2
  <2>4. TypeOK'
    BY <1>0, <1>2, <1>3, <2>1, <2>3 DEF TypeOK, LeaseSet
  <2>5. \A y \in Owners : leases'[y].handle = leases[y].handle
    <3>1. Lent(NoHandle).handle = NoHandle
      BY <1>5
    <3> HIDE DEF Lent
    <3> QED BY <1>4, <2>3, <3>1
  <2>6. Apart' /\ Known' /\ IdleClean'
    BY <1>0, <2>1, <2>5 DEF Apart, Known, IdleClean
  <2>7. LeaseFits(x)'
    <3>1. ~leases'[x].reading /\ leases'[x].handle = NoHandle
          /\ leases'[x].pc = "ready"
      BY <1>5, <2>3
    <3> QED BY <1>2, <1>8, <3>1 DEF LeaseFits, Shaped, Working
  <2>8. \A y \in Owners : LeaseFits(y)'
    BY <1>2, <2>1, <2>3, <2>7, OthersFit
  <2> QED BY <1>0, <1>2, <1>6, <2>1, <2>3, <2>4, <2>6, <2>8 DEF HInv
(* A handle that nobody else has, fresh, in the hands of this lease.         *)
<1>9. ASSUME provider = "sqlite", NEW h \in Handles,
             leases' = [leases EXCEPT ![x] = Lent(h)],
             active' = active + 1,
             idle' \in Seq(Handles),
             handles' \in [Handles -> HandleSet], handles'[h] = FreshHandle,
             \A k \in Handles : k # h => handles'[k] = handles[k],
             \A y \in Owners : leases[y].handle # h,
             \A i \in 1..Len(idle)' : idle'[i] # h /\ i \in 1..Len(idle)
                                      /\ idle'[i] = idle[i],
             \A i \in 1..Len(idle) : idle[i] = h \/ i \in 1..Len(idle)'
      PROVE  HInv'
  <2>1. /\ Counted' /\ leases' \in [Owners -> LeaseSet]
        /\ \A y \in Owners : y # x => leases'[y] = leases[y]
        /\ leases'[x] = Lent(h)
    <3> HIDE DEF Lent
    <3> QED BY <1>7, <1>9
  <2>2. TypeOK'
    <3>1. active' \in Nat /\ activeLeases' \in Nat
      BY <1>1, <1>2, <1>9
    <3>2. /\ operations' \in [Operations -> OperationSet]
          /\ aborted' \in SUBSET Operations /\ applied' \in [Operations -> Nat]
          /\ disposal' \in {"none", "closing", "done", "failed", "refused"}
          /\ activeOperations' \in Nat /\ provider' \in {"sqlite", "server"}
          /\ careful' \in SUBSET Operations
      BY <1>0, <1>1, <1>2 DEF TypeOK, OperationSet
    <3> HIDE DEF Lent
    <3>3. /\ leases' \in [Owners -> LeaseSet] /\ idle' \in Seq(Handles)
          /\ handles' \in [Handles -> HandleSet]
      BY <1>9, <2>1
    <3> QED BY <1>3, <3>1, <3>2, <3>3
            DEF TypeOK, LeaseSet, HandleSet, OperationSet
  <2>3. leases'[x].handle = h /\ leases'[x].pc = "ready" /\ ~leases'[x].reading
    BY <1>5, <2>1
  <2>4. Apart'
    <3>1. \A y, z \in Owners : y # z /\ leases'[y].handle # NoHandle
                                 => leases'[y].handle # leases'[z].handle
      BY <1>0, <1>9, <2>1, <2>3 DEF Apart
    <3>2. \A i, j \in 1..Len(idle)' : idle'[i] = idle'[j] => i = j
      BY <1>0, <1>9 DEF Apart
    <3>3. \A y \in Owners, i \in 1..Len(idle)' : leases'[y].handle # idle'[i]
      BY <1>0, <1>9, <2>1, <2>3 DEF Apart
    <3> QED BY <3>1, <3>2, <3>3 DEF Apart
  <2>5. Known'
    <3> SUFFICES ASSUME NEW k \in Handles, handles'[k].open
                 PROVE  \/ \E i \in 1..Len(idle)' : idle'[i] = k
                        \/ \E y \in Owners : leases'[y].handle = k
      BY DEF Known
    <3>1. CASE k = h
      BY <2>3, <3>1
    <3>2. CASE k # h
      <4>1. handles[k].open
        BY <1>9, <3>2
      <4>2. CASE \E i \in 1..Len(idle) : idle[i] = k
        BY <1>9, <3>2, <4>2
      <4>3. CASE \E y \in Owners : leases[y].handle = k
        <5>1. PICK y \in Owners : leases[y].handle = k
          BY <4>3
        <5>2. y # x
          BY <1>4, <5>1, SettingsAssumption
        <5> QED BY <2>1, <5>1, <5>2
      <4> QED BY <1>0, <4>1, <4>2, <4>3 DEF Known
    <3> QED BY <3>1, <3>2
  <2>6. IdleClean'
    BY <1>0, <1>1, <1>9 DEF IdleClean
  <2>7. LeaseFits(x)'
    <3>1. Fits(x, leases[x], handles[leases[x].handle])'
      BY <1>9, <2>3 DEF Fits, FreshHandle
    <3>2. h # NoHandle
      BY <1>9, SettingsAssumption
    <3> QED BY <1>2, <1>9, <2>3, <3>1, <3>2 DEF LeaseFits, Shaped, Working
  <2>8. \A y \in Owners : y # x /\ leases[y].handle # NoHandle =>
          handles'[leases[y].handle] = handles[leases[y].handle]
    BY <1>1, <1>9 DEF LeaseSet
  <2>9. \A y \in Owners : LeaseFits(y)'
    BY <1>2, <2>1, <2>7, <2>8, OthersFit
  <2> QED BY <1>2, <1>6, <1>9, <2>1, <2>2, <2>4, <2>5, <2>6, <2>9 DEF HInv
<1>10. CASE provider = "sqlite" /\ idle # <<>>
  <2> DEFINE n == Len(idle)
             h == idle[n]
  <2>1. /\ leases' = [leases EXCEPT ![x] = Lent(h)]
        /\ idle' = SubSeq(idle, 1, n - 1)
        /\ active' = active + 1 /\ handles' = handles
    BY <1>10 DEF CreateConnection, Last, StillIdle, Front
  <2>2. n \in Nat /\ n # 0
    BY <1>1, <1>10, EmptySeq
  <2>3. h \in Handles /\ n \in 1..n
    BY <1>1, <2>2
  <2>4. /\ idle' \in Seq(Handles) /\ Len(idle') = n - 1
        /\ \A i \in 1..(n - 1) : idle'[i] = idle[i]
    <3>1. \A i \in 1..(n - 1) : idle[i] \in Handles
      BY <1>1, <2>2
    <3>2. n - 1 \in Int /\ 1 \in Int
      BY <2>2
    <3>3. /\ SubSeq(idle, 1, n - 1) \in Seq(Handles)
          /\ Len(SubSeq(idle, 1, n - 1)) =
               IF 1 <= n - 1 THEN (n - 1) - 1 + 1 ELSE 0
          /\ \A i \in 1..((n - 1) - 1 + 1) :
               SubSeq(idle, 1, n - 1)[i] = idle[1 + i - 1]
      BY <3>1, <3>2, SubSeqProperties
    <3>4. Len(SubSeq(idle, 1, n - 1)) = n - 1
      <4> HIDE DEF n
      <4> QED BY <2>2, <3>3
    <3>5. \A i \in 1..(n - 1) : SubSeq(idle, 1, n - 1)[i] = idle[i]
      <4> SUFFICES ASSUME NEW i \in 1..(n - 1)
                   PROVE  SubSeq(idle, 1, n - 1)[i] = idle[i]
        OBVIOUS
      <4> HIDE DEF n
      <4>1. i \in 1..((n - 1) - 1 + 1) /\ 1 + i - 1 = i
        BY <2>2
      <4> QED BY <3>3, <4>1
    <3> HIDE DEF n
    <3> QED BY <2>1, <3>3, <3>4, <3>5
  <2>5. handles[h] = FreshHandle
    BY <1>0, <2>3 DEF IdleClean
  <2>6. \A y \in Owners : leases[y].handle # h
    BY <1>0, <2>3 DEF Apart
  <2>7. \A i \in 1..(n - 1) : idle[i] # h /\ i \in 1..n
    <3> SUFFICES ASSUME NEW i \in 1..(n - 1) PROVE idle[i] # h /\ i \in 1..n
      OBVIOUS
    <3>1. i \in 1..n /\ i # n
      BY <2>2
    <3> QED BY <1>0, <2>3, <3>1 DEF Apart
  <2>8. \A i \in 1..n : idle[i] = h \/ i \in 1..(n - 1)
    <3> SUFFICES ASSUME NEW i \in 1..n, i # n PROVE i \in 1..(n - 1)
      OBVIOUS
    <3> QED BY <2>2
  <2> HIDE DEF h
  <2> QED BY <1>1, <1>9, <1>10, <2>1, <2>3, <2>4, <2>5, <2>6, <2>7, <2>8
<1>11. CASE provider = "sqlite" /\ idle = <<>>
  <2>1. Len(idle) = 0
    BY <1>11
  <2>2. ~handles[NewHandle].open /\ NewHandle \in Handles
    BY <1>4, <2>1, SomeHandleIsClosed DEF NewHandle
  <2> DEFINE h == NewHandle
  <2> HIDE DEF h
  <2>3. /\ leases' = [leases EXCEPT ![x] = Lent(h)]
        /\ handles' = [handles EXCEPT ![h] = FreshHandle]
        /\ active' = active + 1 /\ idle' = idle
    BY <1>11 DEF CreateConnection, h
  <2>4. h \in Handles /\ ~handles[h].open
    BY <2>2 DEF h
  <2>5. \A y \in Owners : leases[y].handle # h
    <3> SUFFICES ASSUME NEW y \in Owners, leases[y].handle = h PROVE FALSE
      OBVIOUS
    <3>1. h # NoHandle /\ LeaseFits(y)
      BY <2>4, SettingsAssumption DEF HInv
    <3> QED BY <2>4, <3>1 DEF LeaseFits, Fits
  <2>6. /\ handles' \in [Handles -> HandleSet] /\ handles'[h] = FreshHandle
        /\ \A k \in Handles : k # h => handles'[k] = handles[k]
    BY <1>1, <2>3, <2>4, Blank
  <2>7. /\ \A i \in 1..Len(idle)' : FALSE
        /\ \A i \in 1..Len(idle) : FALSE
    BY <2>1, <2>3
  <2> QED BY <1>1, <1>9, <1>11, <2>3, <2>4, <2>5, <2>6, <2>7
<1> QED BY <1>1, <1>8, <1>10, <1>11

(* What a lease that is out keeps: it counts, and the source is live.        *)
LEMMA Out ==
  ASSUME HInv, NEW x \in Owners, leases[x].pc # "none"
  PROVE  /\ ~Disposed /\ disposal = "none" /\ leases[x] \in LeaseSet
         /\ activeLeases \in Nat \ {0}
         /\ Cardinality(Leased \ {x}) = activeLeases - 1
         /\ leases[x].pc \in Working \cup {"closing"} /\ provider = "sqlite" =>
              active \in Nat \ {0} /\ Cardinality(Occupied \ {x}) = active - 1
<1>1. TypeOK /\ Counted
  BY DEF HInv
<1>2. /\ leases[x] \in LeaseSet /\ activeLeases \in Nat /\ active \in Nat
  BY <1>1, Types
<1>3. ~Disposed /\ disposal = "none" /\ activeLeases # 0
  BY LeasedMeansLive DEF Disposed
<1>4. Cardinality(Leased \ {x}) = activeLeases - 1
  <2>1. x \in Leased
    BY DEF Leased
  <2> QED BY <1>1, <2>1, FiniteOwners, OneLess DEF Counted
<1>5. ASSUME leases[x].pc \in Working \cup {"closing"}, provider = "sqlite"
      PROVE  active \in Nat \ {0} /\ Cardinality(Occupied \ {x}) = active - 1
  <2>1. x \in Occupied
    BY <1>5 DEF Occupied
  <2>2. Cardinality(Occupied \ {x}) = active - 1
    BY <1>1, <1>5, <2>1, FiniteOwners, OneLess DEF Counted
  <2>3. Cardinality(Occupied) # 0
    BY <2>1, NoMembers
  <2> QED BY <1>1, <1>2, <1>5, <2>2, <2>3 DEF Counted
<1> QED BY <1>2, <1>3, <1>4, <1>5

(* A lease that has no handle any more, or never had one, goes on to its end.*)
LEMMA EmptyStep ==
  ASSUME HInv, NEW x \in Owners, leases[x].pc # "none",
         NEW r \in LeaseSet, r.handle = NoHandle, ~r.reading,
         r.pc \in {"none", "released"}, leases[x].handle = NoHandle,
         leases' = [leases EXCEPT ![x] = r],
         activeLeases' = IF r.pc = "none" THEN activeLeases - 1 ELSE activeLeases,
         provider = "sqlite" =>
           active' = IF leases[x].pc = "closing" THEN active - 1 ELSE active,
         active' \in Nat,
         UNCHANGED <<provider, careful, idle, handles, taken, activeOperations,
                     operations, aborted, applied, disposal>>
  PROVE  HInv'
<1>0. /\ TypeOK /\ LeaseFits(x) /\ Apart /\ Known /\ IdleClean /\ Counted
      /\ DelaysForMore /\ AfterDisposal
      /\ provider = "server" => idle = <<>>
  BY DEF HInv
<1>1. /\ leases \in [Owners -> LeaseSet]
      /\ ~Disposed /\ activeLeases \in Nat \ {0}
      /\ Cardinality(Leased \ {x}) = activeLeases - 1
      /\ leases[x].pc \in Working \cup {"closing"} /\ provider = "sqlite" =>
           active \in Nat \ {0} /\ Cardinality(Occupied \ {x}) = active - 1
  BY <1>0, Types, Out
<1>2. /\ leases' \in [Owners -> LeaseSet] /\ leases'[x] = r
      /\ \A y \in Owners : y # x => leases'[y] = leases[y]
      /\ \A y \in Owners : leases'[y].handle = leases[y].handle
  BY <1>1
<1>3. TypeOK'
  BY <1>0, <1>1, <1>2 DEF TypeOK, LeaseSet
<1>4. Apart' /\ Known' /\ IdleClean'
  BY <1>0, <1>2 DEF Apart, Known, IdleClean
<1>5. Cardinality(Leased') = activeLeases'
  <2>1. CASE r.pc = "none"
    <3>1. Leased' = Leased \ {x}
      BY <1>2, <2>1 DEF Leased
    <3> QED BY <1>1, <2>1, <3>1
  <2>2. CASE r.pc # "none"
    <3>1. Leased' = Leased
      BY <1>2, <2>2 DEF Leased
    <3> QED BY <1>0, <2>2, <3>1 DEF Counted
  <2> QED BY <2>1, <2>2
<1>6. provider = "sqlite" => Cardinality(Occupied') = active'
  <2> SUFFICES ASSUME provider = "sqlite" PROVE Cardinality(Occupied') = active'
    OBVIOUS
  <2>1. leases[x].pc \notin Working /\ r.pc \notin Working \cup {"closing"}
    BY <1>0 DEF LeaseFits, Shaped, Working
  <2>2. CASE leases[x].pc = "closing"
    <3>1. Occupied' = Occupied \ {x}
      BY <1>2, <2>1 DEF Occupied
    <3> QED BY <1>1, <2>2, <3>1
  <2>3. CASE leases[x].pc # "closing"
    <3>1. Occupied' = Occupied
      BY <1>2, <2>1, <2>3 DEF Occupied
    <3> QED BY <1>0, <2>3, <3>1 DEF Counted
  <2> QED BY <2>2, <2>3
<1>7. Counted'
  BY <1>0, <1>5, <1>6, SameTrying DEF Counted
<1>8. LeaseFits(x)'
  <2>1. /\ leases'[x].handle = NoHandle /\ leases'[x].reading = FALSE
        /\ leases'[x].pc \notin Working /\ leases'[x].pc # "streaming"
        /\ leases'[x].pc # "closing"
    BY <1>2 DEF LeaseSet, Working
  <2> QED BY <2>1 DEF LeaseFits, Shaped
<1>9. \A y \in Owners : LeaseFits(y)'
  BY <1>2, <1>8, OthersFit
<1>10. DelaysForMore' /\ AfterDisposal'
  BY <1>0, <1>1 DEF DelaysForMore, AfterDisposal, Disposed
<1> QED BY <1>0, <1>3, <1>4, <1>7, <1>9, <1>10 DEF HInv

(* The end of a lease: with no handle, or after its handle.                  *)
LEMMA EmptySteps ==
  ASSUME HInv, NEW x \in Owners,
         \/ CloseSettles(x) \/ ReleaseLease(x)
         \/ ReturnLease(x) /\ provider = "server"
  PROVE  HInv'
<1> DEFINE l == leases[x]
<1>0. /\ l \in LeaseSet /\ active \in Nat /\ LeaseFits(x)
      /\ provider \in {"sqlite", "server"}
  BY Types DEF HInv
<1>1. CASE CloseSettles(x)
  <2>1. l.pc = "closing"
    BY <1>1 DEF CloseSettles
  <2>2. l.handle = NoHandle /\ ~l.reading
    BY <1>0, <2>1 DEF LeaseFits, Shaped, Working
  <2> DEFINE r == [l EXCEPT !.pc = "released"]
  <2>3. r \in LeaseSet /\ r.handle = NoHandle /\ ~r.reading /\ r.pc = "released"
    BY <1>0, <2>2 DEF LeaseSet
  <2>4. CASE provider = "sqlite"
    <3>1. active - 1 \in Nat
      <4>1. active \in Nat \ {0}
        BY <2>1, <2>4, Out
      <4> QED BY <4>1
    <3>2. /\ leases' = [leases EXCEPT ![x] = r] /\ active' = active - 1
          /\ UNCHANGED <<provider, careful, idle, handles, taken, activeOperations,
                         activeLeases, operations, aborted, applied, disposal>>
      BY <1>1 DEF CloseSettles, countVars, givenVars
    <3> HIDE DEF r
    <3> QED BY <2>1, <2>2, <2>3, <3>1, <3>2, EmptyStep
  <2>5. CASE provider = "server"
    BY <1>0, <2>1, <2>5 DEF LeaseFits, Shaped
  <2> QED BY <1>0, <2>4, <2>5
<1>2. CASE ReleaseLease(x)
  <2>1. l.pc = "released"
    BY <1>2 DEF ReleaseLease
  <2>2. l.handle = NoHandle
    BY <1>0, <2>1 DEF LeaseFits, Shaped, Working
  <2>3. /\ NoLease \in LeaseSet /\ NoLease.handle = NoHandle
        /\ ~NoLease.reading /\ NoLease.pc = "none"
    BY Blank DEF NoLease
  <2>4. /\ leases' = [leases EXCEPT ![x] = NoLease]
        /\ activeLeases' = activeLeases - 1
        /\ UNCHANGED <<provider, careful, idle, active, handles, taken, activeOperations,
                       operations, aborted, applied, disposal>>
    BY <1>2 DEF ReleaseLease, sourceVars, givenVars
  <2> QED BY <1>0, <2>1, <2>2, <2>3, <2>4, EmptyStep
<1>3. CASE ReturnLease(x) /\ provider = "server"
  <2>1. l.pc = "ready"
    BY <1>3 DEF ReturnLease
  <2>2. l.handle = NoHandle /\ ~l.reading
    BY <1>0, <1>3, <2>1 DEF LeaseFits, Shaped, Working
  <2> DEFINE r == [l EXCEPT !.pc = "released"]
  <2>3. r \in LeaseSet /\ r.handle = NoHandle /\ ~r.reading /\ r.pc = "released"
    BY <1>0, <2>2 DEF LeaseSet
  <2>4. /\ leases' = [leases EXCEPT ![x] = r]
        /\ UNCHANGED <<provider, careful, idle, active, handles, taken, activeOperations,
                       activeLeases, operations, aborted, applied, disposal>>
    BY <1>3 DEF ReturnLease, countVars, sourceVars, givenVars
  <2> HIDE DEF r
  <2> QED BY <1>0, <1>3, <2>1, <2>2, <2>3, <2>4, EmptyStep
<1> QED BY <1>1, <1>2, <1>3

(* A handle goes back to the idle ones, or is closed for good.               *)
LEMMA HandleLeaves ==
  ASSUME HInv, NEW x \in Owners, provider = "sqlite", leases[x].pc = "ready",
         NEW r \in LeaseSet, r.handle = NoHandle, ~r.reading,
         r.pc \in {"released", "closing"},
         leases' = [leases EXCEPT ![x] = r],
         idle' \in Seq(Handles), active' \in Nat,
         active' = IF r.pc = "closing" THEN active ELSE active - 1,
         handles' \in [Handles -> HandleSet],
         \A k \in Handles : k # leases[x].handle => handles'[k] = handles[k],
         Apart', Known', IdleClean',
         UNCHANGED <<provider, careful, taken, activeLeases, activeOperations,
                     operations, aborted, applied, disposal>>
  PROVE  HInv'
<1>0. /\ TypeOK /\ LeaseFits(x) /\ Apart /\ Counted
      /\ DelaysForMore /\ AfterDisposal
  BY DEF HInv
<1>1. /\ leases \in [Owners -> LeaseSet]
      /\ ~Disposed
      /\ active \in Nat \ {0} /\ Cardinality(Occupied \ {x}) = active - 1
  BY <1>0, Types, Out DEF Working
<1>2. /\ leases' \in [Owners -> LeaseSet] /\ leases'[x] = r
      /\ \A y \in Owners : y # x => leases'[y] = leases[y]
  BY <1>1
<1>3. TypeOK'
  BY <1>0, <1>1, <1>2 DEF TypeOK, LeaseSet, HandleSet
<1>4. Leased' = Leased
  BY <1>2 DEF Leased
<1>5. Cardinality(Occupied') = active'
  <2>1. CASE r.pc = "closing"
    <3>1. Occupied' = Occupied
      BY <1>2, <2>1 DEF Occupied, Working
    <3> QED BY <1>0, <2>1, <3>1 DEF Counted
  <2>2. CASE r.pc # "closing"
    <3>1. r.pc \notin Working \cup {"closing"}
      BY <2>2 DEF Working
    <3>2. Occupied' = Occupied \ {x}
      BY <1>2, <3>1 DEF Occupied
    <3> QED BY <1>1, <2>2, <3>2
  <2> QED BY <2>1, <2>2
<1>6. Counted'
  BY <1>0, <1>4, <1>5, SameTrying DEF Counted
<1>7. LeaseFits(x)'
  <2>1. /\ leases'[x].handle = NoHandle /\ leases'[x].reading = FALSE
        /\ leases'[x].pc \notin Working /\ leases'[x].pc # "streaming"
    BY <1>2 DEF LeaseSet, Working
  <2> QED BY <2>1 DEF LeaseFits, Shaped
<1>8. \A y \in Owners : y # x /\ leases[y].handle # NoHandle =>
        handles'[leases[y].handle] = handles[leases[y].handle]
  <2> SUFFICES ASSUME NEW y \in Owners, y # x, leases[y].handle # NoHandle
               PROVE  handles'[leases[y].handle] = handles[leases[y].handle]
    OBVIOUS
  <2>1. leases[y].handle \in Handles /\ leases[y].handle # leases[x].handle
    BY <1>0, <1>1 DEF Apart, LeaseSet
  <2> QED BY <2>1
<1>9. \A y \in Owners : LeaseFits(y)'
  BY <1>2, <1>7, <1>8, OthersFit
<1>10. DelaysForMore' /\ AfterDisposal'
  BY <1>0, <1>1 DEF DelaysForMore, AfterDisposal, Disposed
<1> QED BY <1>3, <1>6, <1>9, <1>10 DEF HInv

LEMMA ReturnSafe ==
  ASSUME HInv, NEW x \in Owners, ReturnLease(x), provider = "sqlite"
  PROVE  HInv'
<1> DEFINE l == leases[x]
           h == leases[x].handle
<1>0. /\ Apart /\ Known /\ IdleClean
  BY DEF HInv
<1>1. /\ l.pc = "ready"
      /\ UNCHANGED <<provider, careful, taken, activeLeases, activeOperations,
                     operations, aborted, applied, disposal>>
  BY DEF ReturnLease, countVars, givenVars
<1>2. l.pc \in Working
  BY <1>1 DEF Working
<1>3. /\ l \in LeaseSet /\ Shaped(l) /\ h \in Handles
      /\ handles[h] \in HandleSet /\ Fits(x, l, handles[h])
  BY <1>2, AtWork
<1>4. ~l.reading /\ h # NoHandle
  BY <1>1, <1>3, SettingsAssumption DEF Shaped
<1>5. /\ idle \in Seq(Handles) /\ Len(idle) \in Nat
      /\ \A i \in 1..Len(idle) : idle[i] \in Handles
      /\ handles \in [Handles -> HandleSet]
      /\ leases \in [Owners -> LeaseSet]
      /\ active \in Nat \ {0} /\ active - 1 \in Nat
  <2>1. TypeOK
    BY DEF HInv
  <2>2. active \in Nat \ {0}
    BY <1>2, Out DEF Working
  <2> QED BY <2>1, <2>2, Types
<1>6. CASE Kept(x)
  <2> DEFINE r == [l EXCEPT !.pc = "released", !.handle = NoHandle]
  <2>1. /\ idle' = Append(idle, h) /\ active' = active - 1
        /\ leases' = [leases EXCEPT ![x] = r]
        /\ handles' = handles
    BY <1>6 DEF ReturnLease
  <2>2. /\ r \in LeaseSet /\ r.handle = NoHandle /\ ~r.reading
        /\ r.pc = "released"
    BY <1>3, <1>4 DEF LeaseSet
  <2> HIDE DEF r
  <2>3. /\ idle' \in Seq(Handles) /\ Len(idle') = Len(idle) + 1
        /\ idle'[Len(idle) + 1] = h
        /\ \A i \in 1..Len(idle) : idle'[i] = idle[i]
    BY <1>3, <1>5, <2>1
  <2>4. \A i \in 1..Len(idle') : i = Len(idle) + 1 \/ i \in 1..Len(idle)
    BY <1>5, <2>3
  <2>5. /\ leases'[x].handle = NoHandle
        /\ \A y \in Owners : y # x => leases'[y] = leases[y]
    BY <1>5, <2>1, <2>2
  <2>6. Apart'
    <3>1. \A y, z \in Owners : y # z /\ leases'[y].handle # NoHandle
                                 => leases'[y].handle # leases'[z].handle
      BY <1>0, <2>5 DEF Apart
    <3>2. \A i \in 1..Len(idle) : h # idle[i]
      BY <1>0 DEF Apart
    <3>3. \A i, j \in 1..Len(idle') : idle'[i] = idle'[j] => i = j
      BY <1>0, <2>3, <2>4, <3>2 DEF Apart
    <3>4. \A y \in Owners : y # x => leases[y].handle # h
      BY <1>0, <1>4 DEF Apart
    <3>5. \A y \in Owners, i \in 1..Len(idle') : leases'[y].handle # idle'[i]
      <4> SUFFICES ASSUME NEW y \in Owners, NEW i \in 1..Len(idle')
                   PROVE  leases'[y].handle # idle'[i]
        OBVIOUS
      <4>1. CASE y = x
        <5>1. idle'[i] \in Handles
          BY <1>3, <1>5, <2>3, <2>4
        <5> QED BY <2>5, <4>1, <5>1, SettingsAssumption
      <4>2. CASE y # x
        BY <1>0, <2>3, <2>4, <2>5, <3>4, <4>2 DEF Apart
      <4> QED BY <4>1, <4>2
    <3> QED BY <3>1, <3>3, <3>5 DEF Apart
  <2>7. Known'
    <3> SUFFICES ASSUME NEW k \in Handles, handles[k].open
                 PROVE  \/ \E i \in 1..Len(idle') : idle'[i] = k
                        \/ \E y \in Owners : leases'[y].handle = k
      BY <2>1 DEF Known
    <3>1. /\ Len(idle) + 1 \in 1..Len(idle')
          /\ 1..Len(idle) \subseteq 1..Len(idle')
      BY <1>5, <2>3
    <3>2. CASE k = h
      BY <2>3, <3>1, <3>2
    <3>3. CASE k # h
      BY <1>0, <2>3, <2>5, <3>1, <3>3 DEF Known
    <3> QED BY <3>2, <3>3
  <2>8. IdleClean'
    <3>1. handles[h] = FreshHandle
      <4>1. /\ handles[h].open = TRUE /\ handles[h].transaction = FALSE
            /\ handles[h].settings = {} /\ handles[h].cursor = NoOwner
        BY <1>1, <1>3, <1>4, <1>6 DEF Fits, Kept, HandleSet
      <4> QED BY <1>3, <4>1 DEF FreshHandle, HandleSet
    <3> QED BY <1>0, <2>1, <2>3, <2>4, <3>1 DEF IdleClean
  <2>9. active' \in Nat /\ handles' \in [Handles -> HandleSet]
    BY <1>5, <2>1
  <2> QED BY <1>1, <2>1, <2>2, <2>3, <2>6, <2>7, <2>8, <2>9, HandleLeaves
<1>7. CASE ~Kept(x)
  <2> DEFINE r == [l EXCEPT !.pc = "closing", !.handle = NoHandle]
  <2>1. /\ idle' = idle /\ active' = active
        /\ leases' = [leases EXCEPT ![x] = r]
        /\ handles' = [handles EXCEPT ![h] = ClosedHandle]
    BY <1>7 DEF ReturnLease
  <2>2. /\ r \in LeaseSet /\ r.handle = NoHandle /\ ~r.reading
        /\ r.pc = "closing"
    BY <1>3, <1>4 DEF LeaseSet
  <2> HIDE DEF r
  <2>3. /\ leases'[x].handle = NoHandle
        /\ \A y \in Owners : y # x => leases'[y] = leases[y]
    BY <1>5, <2>1, <2>2
  <2>4. /\ handles' \in [Handles -> HandleSet] /\ ~handles'[h].open
        /\ \A k \in Handles : k # h => handles'[k] = handles[k]
    BY <1>3, <1>5, <2>1, Blank
  <2>5. Apart'
    <3>1. \A y, z \in Owners : y # z /\ leases'[y].handle # NoHandle
                                 => leases'[y].handle # leases'[z].handle
      BY <1>0, <2>3 DEF Apart
    <3>2. \A y \in Owners, i \in 1..Len(idle) : leases'[y].handle # idle[i]
      BY <1>0, <1>5, <2>3, SettingsAssumption DEF Apart
    <3> QED BY <1>0, <2>1, <3>1, <3>2 DEF Apart
  <2>6. Known'
    BY <1>0, <2>1, <2>3, <2>4 DEF Known
  <2>7. IdleClean'
    BY <1>0, <1>5, <2>1, <2>4 DEF IdleClean, Apart
  <2>8. idle' \in Seq(Handles) /\ active' \in Nat
    BY <1>5, <2>1
  <2> QED BY <1>1, <2>1, <2>2, <2>4, <2>5, <2>6, <2>7, <2>8, HandleLeaves
<1> QED BY <1>6, <1>7

-----------------------------------------------------------------------------
(* Steps of a retry touch neither leases nor handles; they count themselves. *)
LEMMA OperationStep ==
  ASSUME HInv, NEW o \in Operations, NEW q \in OperationSet,
         operations' = [operations EXCEPT ![o] = q],
         q.pc = "delaying" => q.attempt < MaxAttempts,
         taken' \in [Owners -> 0..MaxLeases],
         LET was == operations[o].pc \notin {"idle", "done"}
             is == q.pc \notin {"idle", "done"}
         IN  /\ ~was /\ is => ~Disposed /\ activeOperations' = activeOperations + 1
             /\ was /\ ~is => activeOperations' = activeOperations - 1
             /\ (was <=> is) => activeOperations' = activeOperations,
         UNCHANGED <<provider, careful, idle, active, handles, leases,
                     activeLeases, aborted, applied, disposal>>
  PROVE  HInv'
<1> DEFINE was == operations[o].pc \notin {"idle", "done"}
           is == q.pc \notin {"idle", "done"}
<1>0. /\ TypeOK /\ Apart /\ Known /\ IdleClean /\ Counted
      /\ DelaysForMore /\ AfterDisposal
      /\ provider = "server" => idle = <<>>
      /\ \A y \in Owners : LeaseFits(y)
  BY DEF HInv
<1>1. operations \in [Operations -> OperationSet] /\ activeOperations \in Nat
  BY <1>0, Types
<1>2. /\ operations' \in [Operations -> OperationSet] /\ operations'[o] = q
      /\ \A p \in Operations : p # o => operations'[p] = operations[p]
  BY <1>1
<1>3. Cardinality(Trying') = activeOperations' /\ activeOperations' \in Nat
      /\ (Disposed => activeOperations' = 0)
  <2>1. Cardinality(Trying) = activeOperations
    BY <1>0 DEF Counted
  <2>2. CASE ~was /\ is
    <3>1. o \notin Trying /\ Trying' = Trying \cup {o}
      BY <1>2, <2>2 DEF Trying
    <3>2. Cardinality(Trying') = Cardinality(Trying) + 1
      BY <3>1, FiniteOwners, OneMore
    <3> QED BY <1>1, <2>1, <2>2, <3>2
  <2>3. CASE was /\ ~is
    <3>1. o \in Trying /\ Trying' = Trying \ {o}
      BY <1>2, <2>3 DEF Trying
    <3>2. Cardinality(Trying') = Cardinality(Trying) - 1
      BY <3>1, FiniteOwners, OneLess
    <3>3. ~Disposed /\ activeOperations # 0
      BY <2>3, TryingMeansLive
    <3>4. activeOperations' = activeOperations - 1
      BY <2>3
    <3> QED BY <1>1, <2>1, <3>2, <3>3, <3>4
  <2>4. CASE was <=> is
    <3>1. Trying' = Trying
      BY <1>2, <2>4 DEF Trying
    <3>2. activeOperations' = activeOperations
      BY <2>4
    <3> QED BY <1>0, <1>1, <2>1, <3>1, <3>2 DEF AfterDisposal
  <2> QED BY <2>2, <2>3, <2>4
<1>4. Counted'
  <2>1. Leased' = Leased /\ Occupied' = Occupied
    BY DEF Leased, Occupied
  <2> QED BY <1>0, <1>3, <2>1 DEF Counted
<1>5. TypeOK'
  BY <1>0, <1>2, <1>3 DEF TypeOK, OperationSet
<1>6. DelaysForMore'
  BY <1>0, <1>2 DEF DelaysForMore
<1>7. AfterDisposal'
  BY <1>0, <1>3 DEF AfterDisposal, Disposed
<1>8. Apart' /\ Known' /\ IdleClean'
  BY <1>0 DEF Apart, Known, IdleClean
<1>9. \A y \in Owners : LeaseFits(y)'
  BY <1>0 DEF LeaseFits, Shaped, Fits
<1> QED BY <1>0, <1>4, <1>5, <1>6, <1>7, <1>8, <1>9 DEF HInv

LEMMA RetriesSafe ==
  ASSUME HInv, NEW o \in Operations, Retries(o) PROVE HInv'
<1> DEFINE q == operations[o]
<1>0. /\ operations \in [Operations -> OperationSet] /\ q \in OperationSet
      /\ activeOperations \in Nat /\ MaxAttempts \in Nat \ {0}
      /\ q.attempt \in 1..MaxAttempts
      /\ q.pc \in {"idle", "loop", "attempting", "delaying", "done"}
  BY Types, SettingsAssumption DEF HInv, OperationSet
<1>1. taken' \in [Owners -> 0..MaxLeases]
  <2>1. taken \in [Owners -> 0..MaxLeases] /\ 0 \in 0..MaxLeases
    BY SettingsAssumption DEF HInv, TypeOK
  <2>2. taken' = taken \/ taken' = [taken EXCEPT ![o] = 0]
    BY DEF Retries, Execute, StartAttempt, AttemptSettles, DelayEnds
  <2> QED BY <2>1, <2>2
<1>2. \A s \in {"loop", "delaying", "done"} :
        /\ [q EXCEPT !.pc = s] \in OperationSet
        /\ [q EXCEPT !.pc = s].pc = s
        /\ [q EXCEPT !.pc = s].attempt = q.attempt
  BY <1>0 DEF OperationSet
(* The operation leaves, from wherever it was.                               *)
<1>4. ASSUME Leaves(o), q.pc \notin {"idle", "done"},
             UNCHANGED <<provider, careful, idle, active, handles, leases,
                         activeLeases, aborted, applied, disposal>>
      PROVE  HInv'
  <2> DEFINE n == [q EXCEPT !.pc = "done"]
  <2>1. n \in OperationSet /\ n.pc = "done"
    BY <1>2
  <2>2. operations' = [operations EXCEPT ![o] = n]
        /\ activeOperations' = activeOperations - 1
    BY <1>4 DEF Leaves
  <2> HIDE DEF n
  <2> QED BY <1>1, <1>4, <2>1, <2>2, OperationStep
(* It goes on to another of its steps.                                       *)
<1>5. ASSUME NEW n \in OperationSet, n.pc \in {"loop", "attempting", "delaying"},
             q.pc \notin {"idle", "done"},
             n.pc = "delaying" => n.attempt < MaxAttempts,
             operations' = [operations EXCEPT ![o] = n],
             UNCHANGED <<provider, careful, idle, active, handles, leases,
                         activeLeases, activeOperations, aborted, applied,
                         disposal>>
      PROVE  HInv'
  BY <1>1, <1>5, OperationStep
<1>6. CASE Execute(o)
  <2> DEFINE n == [q EXCEPT !.pc = "loop"]
  <2>1. n \in OperationSet /\ n.pc = "loop"
    BY <1>2
  <2>2. /\ operations' = [operations EXCEPT ![o] = n] /\ ~Disposed
        /\ q.pc = "idle" /\ activeOperations' = activeOperations + 1
        /\ UNCHANGED <<provider, careful, idle, active, handles, leases,
                       activeLeases, aborted, applied, disposal>>
    BY <1>6 DEF Execute, sourceVars, givenVars
  <2> HIDE DEF n
  <2> QED BY <1>1, <2>1, <2>2, OperationStep
<1>7. CASE StartAttempt(o)
  <2>1. /\ q.pc = "loop"
        /\ UNCHANGED <<provider, careful, idle, active, handles, leases,
                       activeLeases, aborted, applied, disposal>>
    BY <1>7 DEF StartAttempt, sourceVars, givenVars
  <2>2. CASE Leaves(o)
    BY <1>4, <2>1, <2>2
  <2>3. CASE /\ operations' = [operations EXCEPT ![o].pc = "attempting",
                                                 ![o].heard = "none", ![o].left = FALSE]
             /\ UNCHANGED activeOperations
    <3> DEFINE n == [q EXCEPT !.pc = "attempting", !.heard = "none", !.left = FALSE]
    <3>1. n \in OperationSet /\ n.pc = "attempting"
      BY <1>0 DEF OperationSet, Settlements
    <3>2. operations' = [operations EXCEPT ![o] = n]
      BY <2>3
    <3> HIDE DEF n
    <3> QED BY <1>5, <2>1, <2>3, <3>1, <3>2
  <2> QED BY <1>7, <2>2, <2>3 DEF StartAttempt
<1>10. CASE AttemptSettles(o)
  <2>1. /\ q.pc = "attempting"
        /\ UNCHANGED <<provider, careful, idle, active, handles, leases,
                       activeLeases, aborted, applied, disposal>>
    BY <1>10 DEF AttemptSettles, sourceVars, givenVars
  <2>2. CASE Leaves(o)
    BY <1>4, <2>1, <2>2
  <2>3. CASE /\ q.attempt < MaxAttempts /\ UNCHANGED activeOperations
             /\ operations' = [operations EXCEPT ![o].pc = "delaying"]
    <3> DEFINE n == [q EXCEPT !.pc = "delaying"]
    <3>1. n \in OperationSet /\ n.pc = "delaying" /\ n.attempt = q.attempt
      BY <1>2
    <3>2. operations' = [operations EXCEPT ![o] = n] /\ q.attempt < MaxAttempts
      BY <2>3
    <3> HIDE DEF n
    <3> QED BY <1>5, <2>1, <2>3, <3>1, <3>2
  <2> QED BY <1>10, <2>2, <2>3 DEF AttemptSettles, MayRetry
<1>11. CASE DelayEnds(o)
  <2>1. /\ q.pc = "delaying" /\ q.attempt < MaxAttempts
        /\ UNCHANGED <<provider, careful, idle, active, handles, leases,
                       activeLeases, aborted, applied, disposal>>
    BY <1>11 DEF DelayEnds, sourceVars, givenVars, HInv, DelaysForMore
  <2>2. CASE Leaves(o)
    BY <1>4, <2>1, <2>2
  <2>3. CASE /\ UNCHANGED activeOperations
             /\ operations' = [operations EXCEPT ![o].pc = "loop",
                                                 ![o].attempt = @ + 1]
    <3> DEFINE n == [q EXCEPT !.pc = "loop", !.attempt = @ + 1]
    <3>1. q.attempt + 1 \in 1..MaxAttempts
      BY <1>0, <2>1
    <3>2. n \in OperationSet /\ n.pc = "loop"
      BY <1>0, <3>1 DEF OperationSet
    <3>3. operations' = [operations EXCEPT ![o] = n]
      BY <2>3
    <3> HIDE DEF n
    <3> QED BY <1>5, <2>1, <2>3, <3>2, <3>3
  <2> QED BY <1>11, <2>2, <2>3 DEF DelayEnds
<1> QED BY <1>6, <1>7, <1>10, <1>11 DEF Retries

(* With no lease out the source below has none either: it never refuses, and *)
(* the handles it closes are all there are.                                  *)
LEMMA DisposeSafe ==
  ASSUME HInv, DisposeSource PROVE HInv'
<1>0. /\ TypeOK /\ Apart /\ Known /\ IdleClean /\ Counted /\ DelaysForMore
      /\ provider = "server" => idle = <<>>
      /\ \A y \in Owners : LeaseFits(y)
  BY DEF HInv
<1>1. /\ provider \in {"sqlite", "server"} /\ idle \in Seq(Handles)
      /\ handles \in [Handles -> HandleSet] /\ active \in Nat
      /\ DOMAIN idle = 1..Len(idle)
  BY <1>0, Types, LenProperties
<1>2. /\ activeLeases = 0 /\ activeOperations = 0
      /\ UNCHANGED <<provider, careful, leases, taken, activeLeases, activeOperations,
                     operations, aborted, applied, active>>
  BY DEF DisposeSource, MayDispose, sourceVars, givenVars
<1>3. Leased = {} /\ Occupied = {}
  <2>1. Leased = {}
    BY <1>0, <1>2, NoMembers DEF Counted
  <2> QED BY <2>1 DEF Leased, Occupied, Working
<1>4. provider = "sqlite" => active = 0
  BY <1>0, <1>3, FS_EmptySet DEF Counted
<1>5. disposal' = "closing"
  BY <1>1, <1>4 DEF DisposeSource
<1>6. \A y \in Owners : leases[y].pc = "none" /\ leases[y].handle = NoHandle
  <2> SUFFICES ASSUME NEW y \in Owners
               PROVE  leases[y].pc = "none" /\ leases[y].handle = NoHandle
    OBVIOUS
  <2>1. leases[y].pc = "none"
    BY <1>3 DEF Leased
  <2>2. LeaseFits(y)
    BY <1>0
  <2> QED BY <2>1, <2>2 DEF LeaseFits, Shaped, Working
<1>7. /\ idle' = <<>> /\ handles' \in [Handles -> HandleSet]
      /\ \A h \in Handles : ~handles'[h].open
  <2>1. CASE provider = "server"
    <3>1. idle' = <<>> /\ handles' = handles
      BY <1>0, <2>1 DEF DisposeSource, sourceVars
    <3>2. Len(idle) = 0
      BY <1>0, <2>1
    <3>3. \A h \in Handles : ~handles[h].open
      <4> SUFFICES ASSUME NEW h \in Handles, handles[h].open PROVE FALSE
        OBVIOUS
      <4>1. PICK y \in Owners : leases[y].handle = h
        BY <1>0, <3>2 DEF Known
      <4> QED BY <1>6, <4>1, SettingsAssumption
    <3> QED BY <1>1, <3>1, <3>3
  <2>2. CASE provider = "sqlite"
    <3>1. /\ idle' = <<>>
          /\ handles' = [h \in Handles |->
               IF h \in ToSet(idle) THEN ClosedHandle ELSE handles[h]]
      BY <1>4, <2>2 DEF DisposeSource
    <3>2. handles' \in [Handles -> HandleSet]
      BY <1>1, <3>1, Blank
    <3>3. \A h \in Handles : ~handles'[h].open
      <4> SUFFICES ASSUME NEW h \in Handles PROVE ~handles'[h].open
        OBVIOUS
      <4>1. CASE h \in ToSet(idle)
        BY <3>1, <4>1, Blank
      <4>2. CASE h \notin ToSet(idle)
        <5>1. \A i \in 1..Len(idle) : idle[i] # h
          BY <1>1, <4>2 DEF ToSet
        <5>2. \A y \in Owners : leases[y].handle # h
          BY <1>6, SettingsAssumption
        <5>3. ~handles[h].open
          BY <1>0, <5>1, <5>2 DEF Known
        <5> QED BY <3>1, <4>2, <5>3
      <4> QED BY <4>1, <4>2
    <3> QED BY <3>1, <3>2, <3>3
  <2> QED BY <1>1, <2>1, <2>2
<1>8. Len(idle') = 0 /\ idle' \in Seq(Handles)
  BY <1>7
<1>9. TypeOK'
  BY <1>0, <1>2, <1>5, <1>7, <1>8 DEF TypeOK, HandleSet
<1>10. Apart' /\ IdleClean'
  BY <1>2, <1>6, <1>8 DEF Apart, IdleClean
<1>11. Known'
  BY <1>7 DEF Known
<1>12. Counted'
  <2>1. Leased' = Leased /\ Occupied' = Occupied /\ Trying' = Trying
    BY <1>2 DEF Leased, Occupied, Trying
  <2> QED BY <1>0, <1>2, <2>1 DEF Counted
<1>13. \A y \in Owners : LeaseFits(y)'
  <2> SUFFICES ASSUME NEW y \in Owners PROVE LeaseFits(y)'
    OBVIOUS
  <2>1. LeaseFits(y) /\ leases'[y].handle = NoHandle
    BY <1>0, <1>2, <1>6
  <2> QED BY <1>2, <2>1 DEF LeaseFits, Shaped
<1>14. DelaysForMore' /\ AfterDisposal'
  BY <1>0, <1>2, <1>5, <1>7 DEF DelaysForMore, AfterDisposal
<1> QED BY <1>7, <1>9, <1>10, <1>11, <1>12, <1>13, <1>14 DEF HInv

LEMMA QuietRest ==
  ASSUME HInv,
         \/ DisposeSettles \/ UNCHANGED vars
         \/ \E o \in Operations : Abort(o)
  PROVE  HInv'
<1>0. /\ TypeOK /\ Apart /\ Known /\ IdleClean /\ Counted /\ DelaysForMore
      /\ AfterDisposal
      /\ provider = "server" => idle = <<>>
      /\ \A y \in Owners : LeaseFits(y)
  BY DEF HInv
<1>1. /\ UNCHANGED <<provider, careful, idle, active, handles, leases, taken,
                     activeLeases, activeOperations, operations, applied>>
      /\ \/ disposal' = disposal
         \/ disposal = "closing" /\ disposal' \in {"done", "failed"}
      /\ aborted' \in SUBSET Operations
  BY <1>0 DEF DisposeSettles, Abort, vars, sourceVars, countVars, givenVars, TypeOK
<1>2. TypeOK'
  BY <1>0, <1>1 DEF TypeOK
<1>3. Apart' /\ Known' /\ IdleClean'
  BY <1>0, <1>1 DEF Apart, Known, IdleClean
<1>4. Counted'
  <2>1. Leased' = Leased /\ Occupied' = Occupied /\ Trying' = Trying
    BY <1>1 DEF Leased, Occupied, Trying
  <2> QED BY <1>0, <1>1, <2>1 DEF Counted
<1>5. \A y \in Owners : LeaseFits(y)'
  BY <1>0, <1>1 DEF LeaseFits, Shaped, Fits
<1>6. DelaysForMore' /\ AfterDisposal'
  BY <1>0, <1>1 DEF DelaysForMore, AfterDisposal, Disposed
<1> QED BY <1>0, <1>1, <1>2, <1>3, <1>4, <1>5, <1>6 DEF HInv

LEMMA HNext ==
  ASSUME ~LeavesOpen, HInv, [Next]_vars PROVE HInv'
<1>1. ASSUME NEW x \in Owners, Uses(x) PROVE HInv'
  BY <1>1, CreateSafe, QuerySafe, OpenStreamSafe, BeginSafe DEF Uses
<1>2. ASSUME NEW x \in Owners, Finishes(x) PROVE HInv'
  <2>1. CASE ReturnLease(x)
    <3>1. provider \in {"sqlite", "server"}
      BY DEF HInv, TypeOK
    <3> QED BY <2>1, <3>1, ReturnSafe, EmptySteps
  <2> QED BY <1>2, <2>1, StreamEndsSafe, EndSafe, EmptySteps DEF Finishes
<1>3. ASSUME NEW o \in Operations, Retries(o) PROVE HInv'
  BY <1>3, RetriesSafe
<1> QED BY <1>1, <1>2, <1>3, DisposeSafe, QuietRest DEF Next

LEMMA HSafe == HInv => LeasesOwnHandles
<1> SUFFICES ASSUME HInv PROVE LeasesOwnHandles
  OBVIOUS
<1>0. /\ TypeOK /\ Apart /\ Known /\ IdleClean /\ Counted /\ AfterDisposal
      /\ \A y \in Owners : LeaseFits(y)
  BY DEF HInv
<1>1. /\ DOMAIN idle = 1..Len(idle)
      /\ \A i \in 1..Len(idle) : idle[i] \in Handles
      /\ leases \in [Owners -> LeaseSet]
  BY <1>0, Types, LenProperties
<1>2. Exclusive
  <2>1. \A x \in Owners : leases[x].handle # NoHandle =>
          handles[leases[x].handle].cursor \in {x, NoOwner}
    BY <1>0 DEF LeaseFits, Fits
  <2>2. IsInjective(idle)
    BY <1>0, <1>1 DEF Apart, IsInjective
  <2>3. \A x \in Owners : leases[x].handle \notin ToSet(idle)
    BY <1>0, <1>1 DEF Apart, ToSet
  <2> QED BY <1>0, <2>1, <2>2, <2>3 DEF Exclusive, Apart
<1>3. IdleHandlesAreClean
  BY <1>0, <1>1 DEF IdleClean, IdleHandlesAreClean, ToSet
<1>4. DisposedMeansUnused
  <2> SUFFICES ASSUME Disposed
               PROVE  /\ \A x \in Owners : leases[x].pc = "none"
                      /\ \A o \in Operations : operations[o].pc \in {"idle", "done"}
                      /\ disposal # "refused"
                      /\ \A h \in Handles : ~handles[h].open
    BY <1>0 DEF DisposedMeansUnused
  <2>1. /\ activeLeases = 0 /\ activeOperations = 0 /\ idle = <<>>
        /\ disposal # "refused"
    BY <1>0 DEF AfterDisposal
  <2>2. Leased = {} /\ Trying = {}
    BY <1>0, <2>1, NoMembers DEF Counted
  <2>3. \A x \in Owners : leases[x].pc = "none"
    BY <2>2 DEF Leased
  <2>4. \A o \in Operations : operations[o].pc \in {"idle", "done"}
    BY <2>2 DEF Trying
  <2>5. \A x \in Owners : leases[x].handle = NoHandle
    BY <1>0, <2>3 DEF LeaseFits, Shaped, Working
  <2>6. Len(idle) = 0
    BY <2>1
  <2>7. \A h \in Handles : ~handles[h].open
    <3> SUFFICES ASSUME NEW h \in Handles, handles[h].open PROVE FALSE
      OBVIOUS
    <3>1. PICK y \in Owners : leases[y].handle = h
      BY <1>0, <2>6 DEF Known
    <3> QED BY <2>5, <3>1, SettingsAssumption
  <2> QED BY <2>1, <2>3, <2>4, <2>7
<1> QED BY <1>2, <1>3, <1>4 DEF LeasesOwnHandles

(* For any number of contexts, retried operations, native handles and idle   *)
(* slots, as long as streams end before the transaction they were opened in: *)
(* a lease has its handle for itself, a handle that waits for the next lease *)
(* is as a newly opened one, whatever failed in the lease before, and a      *)
(* disposal finds nothing in use and leaves nothing open.                    *)
THEOREM HandlesHaveOneOwner ==
  ASSUME ~LeavesOpen
  PROVE  Spec => []LeasesOwnHandles
<1>1. Init => HInv
  BY HInit
<1>2. HInv /\ [Next]_vars => HInv'
  BY HNext
<1>3. HInv => LeasesOwnHandles
  BY HSafe
<1> QED BY <1>1, <1>2, <1>3, PTL DEF Spec

=============================================================================
