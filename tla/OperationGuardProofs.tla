------------------------ MODULE OperationGuardProofs -------------------------
(***************************************************************************)
(* What holds of OperationGuard for any guards, chains, loads and streams, *)
(* any depth of nesting and any number of operations.                      *)
(*                                                                         *)
(* The two properties compare what the code reads from the async local     *)
(* store with what the work was started in.  They are not inductive: of a  *)
(* stale store they say nothing before its guard is taken again, nor of a  *)
(* query whose scope has lost its guard.  GInv says of each store, also    *)
(* one that is handed on, which active scopes its path leads to, and of    *)
(* each scope, also one that is over, who uses its connection.             *)
(***************************************************************************)
EXTENDS OperationGuard, FiniteSetTheorems, WellFoundedInduction, TLAPS

-----------------------------------------------------------------------------
(* Numbers *)

\* A set of numbers has a least element.
LEMMA LeastElement ==
  ASSUME NEW T, T \subseteq Nat, T # {}
  PROVE  \E x \in T : \A y \in T : x <= y
<1> DEFINE R == OpToRel(<, Nat)
<1>1. IsWellFoundedOn(R, Nat)
  BY NatLessThanWellFounded
<1>2. \A x, y \in Nat : <<y, x>> \in R <=> y < x
  BY DEF OpToRel
<1> HIDE DEF R
<1>3. PICK x \in T : \A y \in T : ~ (<<y, x>> \in R)
  BY <1>1, WFMin
<1>4. \A y \in T : y \in Nat /\ ~(y < x)
  BY <1>2, <1>3
<1>5. \A y \in T : x <= y
  BY <1>4
<1> QED
  BY <1>5

\* A set of numbers with a bound has a largest element: the one with the least
\* distance to the bound.
LEMMA LargestElement ==
  ASSUME NEW n \in Nat, NEW T, T \subseteq 0 .. n, T # {}
  PROVE  Max(T) \in T /\ \A y \in T : y <= Max(T)
<1> DEFINE D == {n - x : x \in T}
<1>1. D \subseteq Nat /\ D # {}
  <2>1. \A x \in T : x \in Nat /\ x <= n
    OBVIOUS
  <2>2. \A x \in T : n - x \in Nat
    BY <2>1
  <2>3. D \subseteq Nat
    BY <2>2
  <2>4. PICK x : x \in T
    OBVIOUS
  <2>5. n - x \in D
    BY <2>4
  <2> QED
    BY <2>3, <2>5
<1>2. PICK d \in D : \A e \in D : d <= e
  <2> HIDE DEF D
  <2> QED
    BY <1>1, LeastElement
<1>3. PICK x \in T : d = n - x
  OBVIOUS
<1>4. \A y \in T : x >= y
  <2>1. ASSUME NEW y \in T PROVE x >= y
    <3>1. n - y \in D
      OBVIOUS
    <3>2. n - x <= n - y
      BY <1>2, <1>3, <3>1
    <3>3. x \in 0 .. n /\ y \in 0 .. n
      OBVIOUS
    <3> HIDE DEF D
    <3> QED
      BY <3>2, <3>3
  <2> QED
    BY <2>1
<1>5. Max(T) \in T /\ \A y \in T : Max(T) >= y
  <2> HIDE DEF D
  <2>1. \E z \in T : \A y \in T : z >= y
    BY <1>4
  <2> QED
    BY <2>1, Zenon DEF Max
<1>6. \A y \in T : y \in Nat
  OBVIOUS
<1>7. \A y \in T : y <= Max(T)
  <2> DEFINE z == Max(T)
  <2>1. z \in T /\ \A y \in T : z >= y
    BY <1>5
  <2> HIDE DEF z, D
  <2>2. \A y \in T : y <= z
    BY <1>6, <2>1
  <2> QED
    BY <2>2 DEF z
<1> QED
  BY <1>5, <1>7

-----------------------------------------------------------------------------
(* The scopes on the way up *)

\* A scope is younger than the one it is nested in.
Nested(s) == s \in Seq(Scope) /\ \A k \in 1 .. Len(s) : s[k].parent < k

IsPath(path, s) ==
  path = [k \in 0 .. Len(s) |-> IF k = 0 THEN {} ELSE {k} \cup path[s[k].parent]]

PathIn(s) == CHOOSE path : IsPath(path, s)

\* There is such a function: the least set that holds a scope, and with every
\* scope the one it is nested in.
LEMMA PathExists ==
  ASSUME NEW s, Nested(s)
  PROVE  \E path : IsPath(path, s)
<1> DEFINE n == Len(s)
           Closed(S) == \A k \in S : s[k].parent # 0 => s[k].parent \in S
           Up(k) == {j \in 1 .. n : \A S \in SUBSET (1 .. n) : k \in S /\ Closed(S) => j \in S}
           path == [k \in 0 .. n |-> IF k = 0 THEN {} ELSE Up(k)]
<1>1. n \in Nat /\ \A k \in 1 .. n : s[k].parent \in 0 .. n /\ s[k].parent < k
  <2>1. n \in Nat /\ \A k \in 1 .. n : s[k] \in Scope
    BY DEF Nested
  <2>2. \A k \in 1 .. n : s[k].parent \in Nat
    BY <2>1 DEF Scope
  <2>3. \A k \in 1 .. n : s[k].parent < k
    BY DEF Nested
  <2> HIDE DEF n
  <2> QED
    BY <2>1, <2>2, <2>3
<1> HIDE DEF n
<1>2. ASSUME NEW k \in 1 .. n
      PROVE  Up(k) = {k} \cup path[s[k].parent]
  <2> DEFINE p == s[k].parent
             Q == {k} \cup path[p]
  <2>1. p \in 0 .. n
    BY <1>1
  <2>2. path[p] = IF p = 0 THEN {} ELSE Up(p)
    BY <2>1
  <2>3. k \in Up(k)
    OBVIOUS
  <2>4. ASSUME p # 0 PROVE Up(p) \subseteq Up(k)
    <3>1. ASSUME NEW j \in Up(p), NEW S \in SUBSET (1 .. n), k \in S, Closed(S)
          PROVE  j \in S
      BY <2>4, <3>1
    <3> QED
      BY <3>1
  <2>5. Q \subseteq Up(k)
    <3>1. path[p] \subseteq Up(k)
      <4> HIDE DEF Up, path, p
      <4> QED
        BY <2>2, <2>4
    <3> HIDE DEF Up, path, p
    <3> QED
      BY <2>3, <3>1
  <2>6. p # 0 => p \in Up(p)
    BY <2>1
  <2>7. ASSUME NEW j \in 1 .. n, NEW i \in Up(j), s[i].parent # 0
        PROVE  s[i].parent \in Up(j)
    <3>1. i \in 1 .. n /\ s[i].parent \in 1 .. n
      BY <1>1, <2>7
    <3>2. ASSUME NEW S \in SUBSET (1 .. n), j \in S, Closed(S)
          PROVE  s[i].parent \in S
      BY <2>7, <3>2
    <3> QED
      BY <3>1, <3>2
  <2>8. Q \in SUBSET (1 .. n)
    BY <2>1, <2>2
  <2>9. Closed(Q)
    <3> SUFFICES ASSUME NEW i \in Q, s[i].parent # 0
                 PROVE  s[i].parent \in Q
      OBVIOUS
    <3>1. CASE i = k
      BY <2>2, <2>6, <3>1
    <3>2. CASE i # k
      <4>1. p # 0 /\ i \in Up(p) /\ p \in 1 .. n
        BY <2>1, <2>2, <3>2
      <4>2. s[i].parent \in Up(p)
        BY <2>7, <4>1
      <4> QED
        BY <2>2, <4>1, <4>2
    <3> QED
      BY <3>1, <3>2
  <2>10. Up(k) \subseteq Q
    <3>1. k \in Q
      OBVIOUS
    <3> HIDE DEF Q, Closed
    <3> QED
      BY <2>8, <2>9, <3>1
  <2> QED
    BY <2>5, <2>10
<1>3. path = [k \in 0 .. n |-> IF k = 0 THEN {} ELSE {k} \cup path[s[k].parent]]
  <2>1. \A k \in 0 .. n : path[k] = IF k = 0 THEN {} ELSE {k} \cup path[s[k].parent]
    <3>1. ASSUME NEW k \in 0 .. n, k # 0
          PROVE  path[k] = {k} \cup path[s[k].parent]
      <4>1. k \in 1 .. n
        BY <1>1, <3>1
      <4>2. path[k] = Up(k)
        BY <3>1
      <4> QED
        BY <1>2, <4>1, <4>2
    <3>2. path[0] = {}
      BY <1>1
    <3> QED
      BY <3>1, <3>2
  <2>2. path = [k \in 0 .. n |-> path[k]]
    OBVIOUS
  <2> HIDE DEF path
  <2> QED
    BY <2>1, <2>2
<1> HIDE DEF path
<1> QED
  BY <1>3 DEF IsPath, n

\* A path leads from a scope to older ones.
LEMMA PathLeadsUp ==
  ASSUME NEW s, Nested(s)
  PROVE  /\ PathIn(s)[0] = {}
         /\ \A k \in 1 .. Len(s) : PathIn(s)[k] = {k} \cup PathIn(s)[s[k].parent]
         /\ \A k \in 1 .. Len(s) : s[k].parent \in 0 .. Len(s) /\ s[k].parent < k
         /\ \A k \in 0 .. Len(s) : PathIn(s)[k] \subseteq 1 .. k
<1> DEFINE n == Len(s)
           path == PathIn(s)
<1>1. IsPath(path, s)
  <2>1. \E f : IsPath(f, s)
    BY PathExists
  <2> QED
    BY <2>1, Zenon DEF PathIn
<1> HIDE DEF path
<1>2. n \in Nat /\ \A k \in 1 .. n : s[k] \in Scope /\ s[k].parent < k
  BY DEF Nested
<1>3. \A k \in 1 .. n : s[k].parent \in Nat
  BY <1>2 DEF Scope
<1>4. \A k \in 0 .. n : path[k] = IF k = 0 THEN {} ELSE {k} \cup path[s[k].parent]
  BY <1>1 DEF IsPath
<1> HIDE DEF n
<1>5. \A k \in 1 .. n : s[k].parent \in 0 .. n /\ s[k].parent < k
  BY <1>2, <1>3
<1>6. path[0] = {} /\ \A k \in 1 .. n : path[k] = {k} \cup path[s[k].parent]
  <2>1. 0 \in 0 .. n /\ \A k \in 1 .. n : k \in 0 .. n /\ k # 0
    BY <1>2
  <2> QED
    BY <1>4, <2>1
<1> DEFINE Bad == {k \in 0 .. n : ~(path[k] \subseteq 1 .. k)}
<1>7. Bad = {}
  <2> SUFFICES ASSUME Bad # {} PROVE FALSE
    OBVIOUS
  <2>1. Bad \subseteq Nat
    OBVIOUS
  <2>2. PICK k \in Bad : \A j \in Bad : k <= j
    <3> HIDE DEF Bad
    <3> QED
      BY <2>1, LeastElement
  <2>3. k \in 1 .. n
    BY <1>2, <1>6, <2>2
  <2>4. s[k].parent \notin Bad
    <3>1. s[k].parent \in Nat /\ s[k].parent < k /\ k \in Nat
      BY <1>5, <2>3
    <3> HIDE DEF Bad
    <3> QED
      BY <2>2, <3>1
  <2>5. path[s[k].parent] \subseteq 1 .. s[k].parent
    BY <1>5, <2>3, <2>4
  <2>6. path[k] \subseteq 1 .. k
    BY <1>5, <1>6, <2>3, <2>5
  <2> QED
    BY <2>2, <2>6
<1> QED
  BY <1>5, <1>6, <1>7 DEF n, path

\* A path stays what it is when scopes are added, and whatever becomes of the
\* scopes there are.
LEMMA PathStays ==
  ASSUME NEW s, NEW t, Nested(s), Nested(t), Len(s) <= Len(t),
         \A k \in 1 .. Len(s) : t[k].parent = s[k].parent
  PROVE  \A k \in 0 .. Len(s) : PathIn(t)[k] = PathIn(s)[k]
<1> DEFINE n == Len(s)
           f == PathIn(s)
           g == PathIn(t)
           Bad == {k \in 0 .. n : f[k] # g[k]}
<1>1. n \in Nat /\ Len(t) \in Nat
  BY DEF Nested
<1>2. /\ f[0] = {}
      /\ \A k \in 1 .. n : f[k] = {k} \cup f[s[k].parent]
      /\ \A k \in 1 .. n : s[k].parent \in 0 .. n /\ s[k].parent < k
  BY PathLeadsUp
<1>3. /\ g[0] = {}
      /\ \A k \in 1 .. n : g[k] = {k} \cup g[s[k].parent]
  <2>1. /\ g[0] = {}
        /\ \A k \in 1 .. Len(t) : g[k] = {k} \cup g[t[k].parent]
    BY PathLeadsUp
  <2>2. 1 .. n \subseteq 1 .. Len(t)
    BY <1>1
  <2> HIDE DEF g
  <2> QED
    BY <2>1, <2>2
<1> HIDE DEF n, f, g
<1>4. Bad = {}
  <2> SUFFICES ASSUME Bad # {} PROVE FALSE
    OBVIOUS
  <2>1. Bad \subseteq Nat
    OBVIOUS
  <2>2. PICK k \in Bad : \A j \in Bad : k <= j
    <3> HIDE DEF Bad
    <3> QED
      BY <2>1, LeastElement
  <2>3. k \in 1 .. n
    <3>1. k \in 0 .. n /\ f[k] # g[k]
      BY <2>2
    <3>2. k # 0
      BY <1>2, <1>3, <3>1
    <3> QED
      BY <1>1, <3>1, <3>2
  <2>4. s[k].parent \notin Bad
    <3>1. s[k].parent \in Nat /\ s[k].parent < k /\ k \in Nat
      BY <1>2, <2>3
    <3> HIDE DEF Bad
    <3> QED
      BY <2>2, <3>1
  <2>5. f[s[k].parent] = g[s[k].parent]
    BY <1>2, <2>3, <2>4
  <2> QED
    BY <1>2, <1>3, <2>2, <2>3, <2>5
<1> QED
  BY <1>4 DEF n, f, g

-----------------------------------------------------------------------------
(* The nearest scope that has not ended *)

IsUp(up, s) ==
  up = [k \in 0 .. Len(s) |-> IF k = 0 \/ s[k].active THEN k ELSE up[s[k].parent]]

UpIn(s) == CHOOSE up : IsUp(up, s)

\* There is such a function: the youngest scope on the path that is active.
LEMMA UpExists ==
  ASSUME NEW s, Nested(s)
  PROVE  \E up : IsUp(up, s)
<1> DEFINE n == Len(s)
           path == PathIn(s)
           Alive(k) == {0} \cup {j \in path[k] : s[j].active}
           up == [k \in 0 .. n |-> Max(Alive(k))]
<1>1. /\ path[0] = {}
      /\ \A k \in 1 .. n : path[k] = {k} \cup path[s[k].parent]
      /\ \A k \in 1 .. n : s[k].parent \in 0 .. n /\ s[k].parent < k
      /\ \A k \in 0 .. n : path[k] \subseteq 1 .. k
  BY PathLeadsUp
<1>2. n \in Nat
  BY DEF Nested
<1> HIDE DEF n, path
<1>3. ASSUME NEW k \in 0 .. n, k = 0 \/ s[k].active
      PROVE  Max(Alive(k)) = k
  <2>1. Alive(k) \subseteq 0 .. k /\ k \in Nat
    BY <1>1, <1>2
  <2>2. k \in Alive(k)
    <3>1. CASE k = 0
      BY <3>1
    <3>2. CASE k # 0
      <4>1. k \in 1 .. n
        BY <1>2, <3>2
      <4> QED
        BY <1>1, <1>3, <3>2, <4>1
    <3> QED
      BY <3>1, <3>2
  <2> DEFINE A == Alive(k)
  <2>3. A \subseteq 0 .. k /\ k \in A
    BY <2>1, <2>2
  <2> HIDE DEF A
  <2>4. Max(A) \in A /\ k <= Max(A)
    BY <2>1, <2>3, LargestElement
  <2>5. Max(A) = k
    BY <2>1, <2>3, <2>4
  <2> QED
    BY <2>5 DEF A
<1>4. ASSUME NEW k \in 0 .. n, ~(k = 0 \/ s[k].active)
      PROVE  Alive(k) = Alive(s[k].parent)
  <2>1. k \in 1 .. n
    BY <1>2, <1>4
  <2>2. path[k] = {k} \cup path[s[k].parent]
    BY <1>1, <2>1
  <2> QED
    BY <1>4, <2>2
<1>5. up = [k \in 0 .. n |-> IF k = 0 \/ s[k].active THEN k ELSE up[s[k].parent]]
  <2>1. ASSUME NEW k \in 0 .. n
        PROVE  up[k] = IF k = 0 \/ s[k].active THEN k ELSE up[s[k].parent]
    <3>1. CASE k = 0 \/ s[k].active
      <4>1. Max(Alive(k)) = k
        BY <1>3, <3>1
      <4> HIDE DEF Alive
      <4> QED
        BY <3>1, <4>1
    <3>2. CASE ~(k = 0 \/ s[k].active)
      <4>1. s[k].parent \in 0 .. n
        BY <1>1, <1>2, <3>2
      <4>2. Alive(k) = Alive(s[k].parent)
        BY <1>4, <3>2
      <4> HIDE DEF Alive
      <4>3. up[k] = Max(Alive(k)) /\ up[s[k].parent] = Max(Alive(s[k].parent))
        BY <4>1
      <4> QED
        BY <3>2, <4>2, <4>3
    <3> QED
      BY <3>1, <3>2
  <2>2. up = [k \in 0 .. n |-> up[k]]
    OBVIOUS
  <2> HIDE DEF up
  <2> QED
    BY <2>1, <2>2
<1> HIDE DEF up
<1> QED
  BY <1>5 DEF IsUp, n

\* Skipping expired scopes loses none that is active.
LEMMA UpKeepsTheActive ==
  ASSUME NEW s, Nested(s), NEW i \in 0 .. Len(s)
  PROVE  /\ UpIn(s)[i] \in 0 .. Len(s)
         /\ \A j \in 1 .. Len(s) : s[j].active =>
              (j \in PathIn(s)[UpIn(s)[i]] <=> j \in PathIn(s)[i])
<1> DEFINE n == Len(s)
           path == PathIn(s)
           up == UpIn(s)
           Good(k) == /\ up[k] \in 0 .. n
                      /\ \A j \in 1 .. n : s[j].active => (j \in path[up[k]] <=> j \in path[k])
           Bad == {k \in 0 .. n : ~Good(k)}
<1>1. IsUp(up, s)
  <2>1. \E f : IsUp(f, s)
    BY UpExists
  <2> QED
    BY <2>1, Zenon DEF UpIn
<1> HIDE DEF up
<1>2. \A k \in 0 .. n : up[k] = IF k = 0 \/ s[k].active THEN k ELSE up[s[k].parent]
  BY <1>1 DEF IsUp
<1>3. /\ \A k \in 1 .. n : path[k] = {k} \cup path[s[k].parent]
      /\ \A k \in 1 .. n : s[k].parent \in 0 .. n /\ s[k].parent < k
  BY PathLeadsUp
<1>4. n \in Nat
  BY DEF Nested
<1> HIDE DEF n, path
<1>5. Bad = {}
  <2> SUFFICES ASSUME Bad # {} PROVE FALSE
    OBVIOUS
  <2>1. Bad \subseteq Nat
    OBVIOUS
  <2>2. PICK k \in Bad : \A j \in Bad : k <= j
    <3> HIDE DEF Bad
    <3> QED
      BY <2>1, LeastElement
  <2>3. k \in 0 .. n /\ ~Good(k)
    BY <2>2
  <2>4. CASE k = 0 \/ s[k].active
    <3>1. up[k] = k
      BY <1>2, <2>3, <2>4
    <3> QED
      BY <2>3, <3>1
  <2>5. CASE ~(k = 0 \/ s[k].active)
    <3> DEFINE p == s[k].parent
    <3>1. k \in 1 .. n
      BY <1>4, <2>3, <2>5
    <3>2. p \in 0 .. n /\ p < k /\ p \in Nat /\ k \in Nat
      BY <1>3, <3>1
    <3>3. p \notin Bad
      <4> HIDE DEF Bad, p
      <4> QED
        BY <2>2, <3>2
    <3>4. Good(p)
      BY <3>2, <3>3
    <3>5. up[k] = up[p]
      BY <1>2, <2>3, <2>5
    <3>6. \A j \in 1 .. n : s[j].active => (j \in path[k] <=> j \in path[p])
      <4>1. path[k] = {k} \cup path[p]
        BY <1>3, <3>1
      <4> QED
        BY <2>5, <4>1
    <3> HIDE DEF p
    <3>7. Good(k)
      BY <3>4, <3>5, <3>6
    <3> QED
      BY <2>3, <3>7
  <2> QED
    BY <2>4, <2>5
<1>6. Good(i)
  BY <1>5 DEF n
<1> QED
  BY <1>6 DEF n, path, up

-----------------------------------------------------------------------------
(* The invariant *)

\* What there is to run in: the stores, the scopes around and the calls name
\* scopes that have begun.
Known ==
  /\ \A a \in Actors : base[a] \in 0 .. Len(scopes) /\ inherited[a] \subseteq 1 .. Len(scopes)
  /\ \A x \in Calls : CallOf(x).scope \in 1 .. Len(scopes)
  /\ \A s \in DOMAIN streams : streams[s].scope \in 0 .. Len(scopes)

\* The scopes in whose work call x runs: those its chain was started in, and
\* those of the operations around it.
Around(x) ==
  {CallOf(y).scope : y \in {z \in Calls : z[1] = x[1] /\ z[2] <= x[2] /\ CallOf(z).owns}}

\* Of the scopes that are active, a store leads to those in whose work it is
\* found: the store that a chain or load was started in, and the store of each
\* operation it is inside of.
StoresTell ==
  \A k \in 1 .. Len(scopes) : scopes[k].active =>
    /\ \A a \in Actors : k \in PathIn(scopes)[base[a]] <=> k \in inherited[a]
    /\ \A x \in Calls : CallOf(x).owns =>
         (k \in PathIn(scopes)[CallOf(x).scope] <=> k \in inherited[x[1]] \cup Around(x))

\* A guard and the call or stream that has it agree.
Held ==
  /\ \A g \in Guards : token[g] \in Scopes =>
       /\ token[g] \in 1 .. Len(scopes) /\ scopes[token[g]].active
       /\ \E x \in Calls : CallOf(x).owns /\ CallOf(x).guard = g /\ CallOf(x).scope = token[g]
  /\ \A g \in Guards : token[g] \in Streams =>
       token[g] \in DOMAIN streams /\ streams[token[g]] = [guard |-> g, scope |-> 0]
  /\ \A x \in Calls : CallOf(x).owns => token[CallOf(x).guard] = CallOf(x).scope
  /\ \A s \in DOMAIN streams : streams[s].scope = 0 => token[streams[s].guard] = s
  /\ \A x, y \in Calls :
       CallOf(x).owns /\ CallOf(y).owns /\ CallOf(x).scope = CallOf(y).scope => x = y

\* A scope that is queried or streamed in says so, and no two do it at a time,
\* also when the guard has long passed on.
OneUser ==
  /\ \A x \in Calls : CallOf(x).kind = "query" => scopes[CallOf(x).scope].querying
  /\ \A s \in DOMAIN streams : streams[s].scope # 0 => scopes[streams[s].scope].querying
  /\ \A x, y \in Calls :
       /\ CallOf(x).kind = "query" /\ CallOf(y).kind = "query"
       /\ CallOf(x).scope = CallOf(y).scope
       => x = y
  /\ \A s, t \in DOMAIN streams :
       streams[s].scope # 0 /\ streams[s].scope = streams[t].scope => s = t
  /\ \A x \in Calls, s \in DOMAIN streams :
       CallOf(x).kind = "query" => CallOf(x).scope # streams[s].scope

\* Only chains that run are inside of calls; of the loads only the first is,
\* with its one query.
Lines ==
  /\ \A c \in Chains : c \notin live => frames[c] = <<>>
  /\ \A c \in Chains : Len(frames[c]) <= MaxDepth
  /\ \A n \in Loads : frames[n] # <<>> =>
       queue # <<>> /\ n = Head(queue) /\ Len(frames[n]) = 1

Running == \E n \in Loads : frames[n] # <<>>

\* A load that waits has been counted, and will find room for its scope.
Counted ==
  /\ Len(queue) <= count
  /\ Len(scopes) + Len(queue) <= MaxScopes + (IF Running THEN 1 ELSE 0)

GInv ==
  TypeOK /\ Nested(scopes) /\ Known /\ StoresTell /\ Held /\ OneUser /\ Lines /\ Counted

-----------------------------------------------------------------------------
(* How a step changes the calls *)

\* The innermost call of a.
Top(a) == <<a, Len(frames[a])>>

\* A call is a place in the frames of a chain or load.
LEMMA CallsAreFrames ==
  ASSUME TypeOK
  PROVE  /\ \A x \in Calls : /\ x = <<x[1], x[2]>> /\ x[1] \in Actors
                             /\ x[2] \in 1 .. Len(frames[x[1]])
                             /\ CallOf(x) \in Frame
         /\ \A a \in Actors : frames[a] \in Seq(Frame) /\ Len(frames[a]) \in Nat
<1>1. \A a \in Actors : frames[a] \in Seq(Frame)
  BY DEF TypeOK
<1>2. \A a \in Actors : Len(frames[a]) \in Nat
  BY <1>1
<1>3. ASSUME NEW x \in Calls
      PROVE  x = <<x[1], x[2]>> /\ x[1] \in Actors /\ x[2] \in 1 .. Len(frames[x[1]])
  <2>1. x \in Actors \X (1 .. MaxDepth) /\ x[2] <= Len(frames[x[1]])
    BY <1>3 DEF Calls
  <2>2. x = <<x[1], x[2]>> /\ x[1] \in Actors /\ x[2] \in 1 .. MaxDepth
    BY <2>1
  <2> QED
    BY <1>2, <2>1, <2>2, OperationGuardAssumption
<1>4. \A x \in Calls : CallOf(x) \in Frame
  <2> SUFFICES ASSUME NEW x \in Calls PROVE CallOf(x) \in Frame
    OBVIOUS
  <2>1. frames[x[1]] \in Seq(Frame) /\ x[2] \in 1 .. Len(frames[x[1]])
    BY <1>1, <1>3
  <2>2. frames[x[1]][x[2]] \in Frame
    BY <2>1
  <2> QED
    BY <2>2 DEF CallOf
<1> QED
  BY <1>1, <1>2, <1>3, <1>4

\* A call that is entered comes on top of those that its chain is inside of.
LEMMA EnteringAddsACall ==
  ASSUME TypeOK, NEW a \in Actors, NEW f \in Frame, Len(frames[a]) < MaxDepth,
         frames' = [frames EXCEPT ![a] = Append(@, f)]
  PROVE  \E top :
         /\ top \notin Calls /\ top[1] = a
         /\ \A y \in Calls : y[1] = a => y[2] < top[2]
         /\ \A x : x \in Calls' <=> x \in Calls \/ x = top
         /\ \A x \in Calls : CallOf(x)' = CallOf(x)
         /\ CallOf(top)' = f
         /\ frames' \in [Actors -> Seq(Frame)]
         /\ Len(frames'[a]) = Len(frames[a]) + 1
         /\ \A b \in Actors : b # a => frames'[b] = frames[b]
<1> DEFINE n == Len(frames[a])
<1> PICK top : top = <<a, n + 1>>
  OBVIOUS
<1>1. /\ frames \in [Actors -> Seq(Frame)] /\ n \in Nat
      /\ \A b \in Actors : Len(frames[b]) \in Nat
  BY CallsAreFrames DEF TypeOK
<1>2. frames'[a] = Append(frames[a], f) /\ \A b \in Actors : b # a => frames'[b] = frames[b]
  BY <1>1
<1>3. /\ Append(frames[a], f) \in Seq(Frame) /\ Len(Append(frames[a], f)) = n + 1
      /\ \A i \in 1 .. n : Append(frames[a], f)[i] = frames[a][i]
      /\ Append(frames[a], f)[n + 1] = f
  BY <1>1
<1>4. frames' \in [Actors -> Seq(Frame)]
  BY <1>1, <1>3
<1>5. Len(frames'[a]) = n + 1 /\ \A b \in Actors : b # a => Len(frames'[b]) = Len(frames[b])
  BY <1>2, <1>3
<1>6. n < MaxDepth /\ MaxDepth \in Nat
  BY OperationGuardAssumption
<1>7. \A x \in Calls : x = <<x[1], x[2]>> /\ x[1] \in Actors /\ x[2] \in 1 .. Len(frames[x[1]])
  BY CallsAreFrames
<1>8. top = <<a, n + 1>> /\ top[1] = a /\ top[2] = n + 1
  OBVIOUS
<1>9. \A y \in Calls : y[1] = a => y[2] < n + 1
  BY <1>1, <1>7
<1> HIDE DEF n
<1>10. top \notin Calls
  BY <1>1, <1>8, <1>9
<1>11. ASSUME NEW x \in Calls PROVE x \in Calls'
  <2>1. x \in Actors \X (1 .. MaxDepth) /\ x[2] \in Nat /\ x[2] <= Len(frames[x[1]])
    BY <1>1, <1>7 DEF Calls
  <2>2. x[2] <= Len(frames'[x[1]])
    BY <1>1, <1>5, <1>7, <2>1 DEF n
  <2> QED
    BY <2>1, <2>2 DEF Calls
<1>12. top \in Calls'
  <2>1. top \in Actors \X (1 .. MaxDepth)
    BY <1>1, <1>6, <1>8
  <2>2. top[2] <= Len(frames'[top[1]])
    BY <1>1, <1>5, <1>8
  <2> QED
    BY <2>1, <2>2 DEF Calls
<1>13. ASSUME NEW x \in Calls', x # top PROVE x \in Calls
  <2>1. x \in Actors \X (1 .. MaxDepth) /\ x[2] <= Len(frames'[x[1]])
    BY <1>13 DEF Calls
  <2>2. x = <<x[1], x[2]>> /\ x[1] \in Actors /\ x[2] \in 1 .. MaxDepth
    BY <2>1
  <2>3. CASE x[1] = a
    <3>1. x[2] # n + 1
      BY <1>8, <1>13, <2>2, <2>3
    <3>2. x[2] <= n
      BY <1>1, <1>5, <1>6, <2>1, <2>2, <2>3, <3>1
    <3> QED
      BY <2>1, <2>3, <3>2 DEF Calls, n
  <2>4. CASE x[1] # a
    BY <1>5, <2>1, <2>2, <2>4 DEF Calls
  <2> QED
    BY <2>3, <2>4
<1>14. \A x \in Calls : CallOf(x)' = CallOf(x)
  <2> SUFFICES ASSUME NEW x \in Calls PROVE frames'[x[1]][x[2]] = frames[x[1]][x[2]]
    BY DEF CallOf
  <2>1. CASE x[1] = a
    <3>1. x[2] \in 1 .. n
      BY <1>7, <2>1 DEF n
    <3> QED
      <4>1. frames'[a][x[2]] = frames[a][x[2]]
        BY <1>2, <1>3, <3>1
      <4> QED
        BY <2>1, <4>1
  <2>2. CASE x[1] # a
    BY <1>2, <1>7, <2>2
  <2> QED
    BY <2>1, <2>2
<1>15. CallOf(top)' = f
  <2>1. frames'[a][n + 1] = f
    BY <1>2, <1>3
  <2> QED
    BY <1>8, <2>1 DEF CallOf
<1> QED
  BY <1>2, <1>4, <1>5, <1>8, <1>9, <1>10, <1>11, <1>12, <1>13, <1>14, <1>15 DEF n

\* A call that is left was the innermost.
LEMMA LeavingTakesACall ==
  ASSUME TypeOK, NEW a \in Actors, frames[a] # <<>>, Len(frames[a]) <= MaxDepth,
         frames' = [frames EXCEPT ![a] = Front(@)]
  PROVE  /\ Top(a) \in Calls /\ CallOf(Top(a)) = Last(frames[a])
         /\ \A x : x \in Calls' <=> x \in Calls /\ x # Top(a)
         /\ \A x \in Calls' : CallOf(x)' = CallOf(x)
         /\ \A y \in Calls : y[1] = a => y[2] <= Top(a)[2]
         /\ frames' \in [Actors -> Seq(Frame)]
         /\ Len(frames'[a]) = Len(frames[a]) - 1
         /\ \A b \in Actors : b # a => frames'[b] = frames[b]
<1> DEFINE n == Len(frames[a])
<1>1. /\ frames \in [Actors -> Seq(Frame)] /\ n \in Nat /\ n # 0
      /\ \A b \in Actors : Len(frames[b]) \in Nat
  <2>1. frames \in [Actors -> Seq(Frame)] /\ \A b \in Actors : Len(frames[b]) \in Nat
    BY CallsAreFrames DEF TypeOK
  <2>2. frames[a] \in Seq(Frame) /\ frames[a] # <<>>
    BY <2>1
  <2>3. Len(frames[a]) # 0
    BY <2>2
  <2> QED
    BY <2>1, <2>3
<1>2. frames'[a] = Front(frames[a]) /\ \A b \in Actors : b # a => frames'[b] = frames[b]
  BY <1>1
<1>3. /\ Front(frames[a]) \in Seq(Frame) /\ Len(Front(frames[a])) = n - 1
      /\ \A i \in 1 .. n - 1 : Front(frames[a])[i] = frames[a][i]
  <2>1. Front(frames[a]) = SubSeq(frames[a], 1, n - 1)
    BY DEF Front
  <2>2. frames[a] \in Seq(Frame) /\ n - 1 \in Nat /\ n - 1 <= n
    BY <1>1
  <2>3. \A i \in 1 .. n - 1 : frames[a][i] \in Frame
    BY <1>1, <2>2
  <2>4. SubSeq(frames[a], 1, n - 1) \in Seq(Frame) /\ Len(SubSeq(frames[a], 1, n - 1)) = n - 1
    BY <2>2, <2>3
  <2>5. \A i \in 1 .. n - 1 : SubSeq(frames[a], 1, n - 1)[i] = frames[a][i]
    BY <2>2
  <2> QED
    BY <2>1, <2>4, <2>5
<1>4. frames' \in [Actors -> Seq(Frame)]
  BY <1>1, <1>3
<1>5. Len(frames'[a]) = n - 1 /\ \A b \in Actors : b # a => Len(frames'[b]) = Len(frames[b])
  BY <1>2, <1>3
<1>6. n <= MaxDepth /\ MaxDepth \in Nat
  BY OperationGuardAssumption
<1>7. \A x \in Calls : x = <<x[1], x[2]>> /\ x[1] \in Actors /\ x[2] \in 1 .. Len(frames[x[1]])
  BY CallsAreFrames
<1>8. Top(a) = <<a, n>> /\ Top(a)[1] = a /\ Top(a)[2] = n
  BY DEF Top
<1>9. \A y \in Calls : y[1] = a => y[2] <= n
  BY <1>1, <1>7
<1>10. CallOf(Top(a)) = Last(frames[a])
  BY <1>8 DEF CallOf, Last
<1> HIDE DEF n
<1>11. Top(a) \in Calls
  <2>1. Top(a) \in Actors \X (1 .. MaxDepth)
    BY <1>1, <1>6, <1>8
  <2>2. Top(a)[2] <= Len(frames[Top(a)[1]])
    BY <1>1, <1>8 DEF n
  <2> QED
    BY <2>1, <2>2 DEF Calls
<1>12. ASSUME NEW x \in Calls, x # Top(a) PROVE x \in Calls'
  <2>1. /\ x \in Actors \X (1 .. MaxDepth) /\ x[2] \in Nat /\ x[2] <= Len(frames[x[1]])
        /\ x = <<x[1], x[2]>> /\ x[1] \in Actors
    BY <1>1, <1>7 DEF Calls
  <2>2. CASE x[1] = a
    <3>1. x[2] # n
      BY <1>8, <1>12, <2>1, <2>2
    <3>2. x[2] <= Len(frames'[a])
      BY <1>1, <1>5, <2>1, <2>2, <3>1 DEF n
    <3> QED
      BY <2>1, <2>2, <3>2 DEF Calls
  <2>3. CASE x[1] # a
    BY <1>5, <2>1, <2>3 DEF Calls
  <2> QED
    BY <2>2, <2>3
<1>13. ASSUME NEW x \in Calls' PROVE x \in Calls /\ x # Top(a)
  <2>1. x \in Actors \X (1 .. MaxDepth) /\ x[2] <= Len(frames'[x[1]])
    BY <1>13 DEF Calls
  <2>2. x = <<x[1], x[2]>> /\ x[1] \in Actors /\ x[2] \in 1 .. MaxDepth /\ x[2] \in Nat
    BY <2>1
  <2>3. CASE x[1] = a
    <3>1. x[2] <= n - 1
      BY <1>5, <2>1, <2>3
    <3>2. x[2] <= n /\ x[2] # n
      BY <1>1, <2>2, <3>1
    <3> QED
      BY <1>8, <2>1, <2>3, <3>2 DEF Calls, n
  <2>4. CASE x[1] # a
    BY <1>5, <1>8, <2>1, <2>2, <2>4 DEF Calls
  <2> QED
    BY <2>3, <2>4
<1>14. \A x \in Calls' : CallOf(x)' = CallOf(x)
  <2> SUFFICES ASSUME NEW x \in Calls' PROVE frames'[x[1]][x[2]] = frames[x[1]][x[2]]
    BY DEF CallOf
  <2>0. x \in Calls /\ x # Top(a)
    BY <1>13
  <2>1. CASE x[1] = a
    <3>1. x[2] \in 1 .. n /\ x[2] # n
      BY <1>7, <1>8, <2>0, <2>1 DEF n
    <3>2. x[2] \in 1 .. n - 1
      BY <1>1, <3>1
    <3> QED
      <4>1. frames'[a][x[2]] = frames[a][x[2]]
        BY <1>2, <1>3, <3>2
      <4> QED
        BY <2>1, <4>1
  <2>2. CASE x[1] # a
    BY <1>2, <1>7, <2>0, <2>2
  <2> QED
    BY <2>1, <2>2
<1> QED
  BY <1>2, <1>4, <1>5, <1>8, <1>9, <1>10, <1>11, <1>12, <1>13, <1>14 DEF n

\* No chain or load is inside of more calls than the bound.
LEMMA FramesAreBounded ==
  ASSUME TypeOK, Lines
  PROVE  \A a \in Actors : Len(frames[a]) <= MaxDepth
<1>1. \A a \in Actors : frames[a] = <<>> \/ Len(frames[a]) <= MaxDepth \/ Len(frames[a]) = 1
  BY DEF Lines, Actors
<1>2. MaxDepth \in Nat /\ 1 <= MaxDepth
  BY OperationGuardAssumption
<1>3. \A a \in Actors : frames[a] = <<>> => Len(frames[a]) = 0
  OBVIOUS
<1> SUFFICES ASSUME NEW a \in Actors PROVE Len(frames[a]) <= MaxDepth
  OBVIOUS
<1>4. CASE frames[a] = <<>>
  BY <1>2, <1>3, <1>4
<1>5. CASE Len(frames[a]) = 1
  BY <1>2, <1>5
<1> QED
  BY <1>1, <1>4, <1>5

-----------------------------------------------------------------------------
(* What a store tells *)

\* The two definitions of the model that follow the scopes upwards.
LEMMA PathIsPathIn == \A i : Path(i) = PathIn(scopes)[i]
  BY Zenon DEF Path, PathIn, IsPath

LEMMA ActiveParentIsUp == \A a : ActiveParent(a) = UpIn(scopes)[Store(a)]
  BY Zenon DEF ActiveParent, UpIn, IsUp

\* The current store of a chain or load leads to the active scopes in whose work
\* it is: that of its innermost operation, or the one it was started in.
LEMMA StoreTells ==
  ASSUME GInv, NEW a \in Actors
  PROVE  /\ Store(a) \in 0 .. Len(scopes)
         /\ Under(a) \subseteq 1 .. Len(scopes)
         /\ \A k \in 1 .. Len(scopes) : scopes[k].active =>
              (k \in PathIn(scopes)[Store(a)] <=> k \in Under(a))
<1> DEFINE n == Len(frames[a])
           O == Owning(a)
<1>1. n \in Nat /\ n <= MaxDepth /\ MaxDepth \in Nat
  BY CallsAreFrames, FramesAreBounded, OperationGuardAssumption DEF GInv
<1>2. DOMAIN frames[a] = 1 .. n
  BY CallsAreFrames DEF GInv
<1>3. O \subseteq 1 .. n /\ \A i \in O : frames[a][i].owns
  BY <1>2 DEF Owning
<1>4. \A i \in 1 .. n : <<a, i>> \in Calls /\ CallOf(<<a, i>>) = frames[a][i]
  <2>1. \A i \in 1 .. n : i \in 1 .. MaxDepth /\ i <= n
    BY <1>1
  <2>2. \A i \in 1 .. n : <<a, i>> \in Actors \X (1 .. MaxDepth)
    BY <2>1
  <2> QED
    BY <2>1, <2>2 DEF Calls, CallOf
<1>5. \A i \in O : frames[a][i].scope \in 1 .. Len(scopes)
  BY <1>3, <1>4 DEF GInv, Known
<1>6. inherited[a] \subseteq 1 .. Len(scopes) /\ base[a] \in 0 .. Len(scopes)
  BY DEF GInv, Known
<1>7. Under(a) = inherited[a] \cup {frames[a][i].scope : i \in O}
  BY DEF Under
<1>8. Under(a) \subseteq 1 .. Len(scopes)
  BY <1>5, <1>6, <1>7
<1>9. CASE O = {}
  <2>1. Store(a) = base[a]
    BY <1>9 DEF Store
  <2>2. Under(a) = inherited[a]
    BY <1>7, <1>9
  <2> QED
    BY <1>6, <2>1, <2>2 DEF GInv, StoresTell
<1>10. CASE O # {}
  <2> DEFINE m == Max(O)
             x == <<a, m>>
  <2>1. m \in O /\ \A i \in O : i <= m
    <3>1. O \subseteq 0 .. n
      BY <1>1, <1>3
    <3> HIDE DEF O
    <3> QED
      BY <1>1, <1>10, <3>1, LargestElement
  <2>2. Store(a) = frames[a][m].scope
    BY <1>10 DEF Store
  <2> HIDE DEF m, O
  <2>3. x \in Calls /\ CallOf(x) = frames[a][m] /\ CallOf(x).owns
    BY <1>3, <1>4, <2>1
  <2>4. Around(x) = {frames[a][i].scope : i \in O}
    <3> DEFINE Z == {z \in Calls : z[1] = x[1] /\ z[2] <= x[2] /\ CallOf(z).owns}
    <3>1. ASSUME NEW i \in O PROVE <<a, i>> \in Z
      BY <1>3, <1>4, <2>1, <3>1
    <3>2. ASSUME NEW z \in Z PROVE \E i \in O : z = <<a, i>>
      <4>1. z \in Calls /\ z[1] = a /\ CallOf(z).owns
        OBVIOUS
      <4>2. z = <<a, z[2]>> /\ z[2] \in 1 .. n
        BY <4>1, CallsAreFrames DEF GInv
      <4>3. frames[a][z[2]].owns
        BY <4>1 DEF CallOf
      <4>4. z[2] \in O
        BY <1>2, <4>2, <4>3 DEF O, Owning
      <4> QED
        BY <4>2, <4>4
    <3>3. \A i \in O : CallOf(<<a, i>>).scope = frames[a][i].scope
      BY <1>3, <1>4
    <3> HIDE DEF Z, x
    <3>4. \A z \in Z : \E i \in O : CallOf(z).scope = frames[a][i].scope
      BY <3>2, <3>3
    <3>5. \A i \in O : \E z \in Z : CallOf(z).scope = frames[a][i].scope
      BY <3>1, <3>3
    <3>6. {CallOf(z).scope : z \in Z} = {frames[a][i].scope : i \in O}
      BY <3>4, <3>5
    <3> QED
      BY <3>6 DEF Around, Z
  <2>5. \A k \in 1 .. Len(scopes) : scopes[k].active =>
          (k \in PathIn(scopes)[CallOf(x).scope] <=> k \in inherited[x[1]] \cup Around(x))
    BY <2>3 DEF GInv, StoresTell
  <2>6. x[1] = a
    OBVIOUS
  <2> HIDE DEF x
  <2>7. \A k \in 1 .. Len(scopes) : scopes[k].active =>
          (k \in PathIn(scopes)[Store(a)] <=> k \in Under(a))
    BY <1>7, <2>2, <2>3, <2>4, <2>5, <2>6
  <2> QED
    BY <1>3, <1>5, <1>8, <2>1, <2>2, <2>7
<1> QED
  BY <1>9, <1>10

\* A guard is joined from within the work of the operation that has it.
LEMMA JoiningIsBeingUnder ==
  ASSUME GInv, NEW a \in Actors, NEW g \in Guards
  PROVE  /\ token[g] \in Scopes => (Joins(a, g) <=> token[g] \in Under(a))
         /\ Joins(a, g) => token[g] \in 1 .. Len(scopes) /\ token[g] \in Scopes
                            /\ scopes[token[g]].active
<1>1. Visible(a) = PathIn(scopes)[Store(a)]
  BY PathIsPathIn DEF Visible
<1>2. token[g] \in Scopes => token[g] \in 1 .. Len(scopes) /\ scopes[token[g]].active
  BY DEF GInv, Held
<1>3. token[g] \in Scopes => (Joins(a, g) <=> token[g] \in Under(a))
  BY <1>1, <1>2, StoreTells DEF Joins
<1>4. ASSUME Joins(a, g) PROVE token[g] \in Scopes
  <2>1. Store(a) \in 0 .. Len(scopes)
    BY StoreTells
  <2>2. \A k \in 0 .. Len(scopes) : PathIn(scopes)[k] \subseteq 1 .. k
    BY PathLeadsUp DEF GInv
  <2>3. token[g] \in 1 .. Store(a)
    BY <1>1, <1>4, <2>1, <2>2 DEF Joins
  <2>4. Len(scopes) \in Nat /\ Len(scopes) <= MaxScopes /\ MaxScopes \in Nat
    BY OperationGuardAssumption DEF GInv, TypeOK
  <2> QED
    BY <2>1, <2>3, <2>4 DEF Scopes
<1> QED
  BY <1>2, <1>3, <1>4

-----------------------------------------------------------------------------
(* How a step changes the scopes *)

\* A scope is marked: nothing moves.
LEMMA MarkingAScope ==
  ASSUME Nested(scopes), NEW k \in 1 .. Len(scopes), NEW r \in Scope,
         r.parent = scopes[k].parent, scopes' = [scopes EXCEPT ![k] = r]
  PROVE  /\ Nested(scopes') /\ Len(scopes') = Len(scopes)
         /\ scopes'[k] = r
         /\ \A j \in 1 .. Len(scopes) : j # k => scopes'[j] = scopes[j]
         /\ \A j \in 0 .. Len(scopes) : PathIn(scopes')[j] = PathIn(scopes)[j]
<1>1. scopes \in Seq(Scope) /\ Len(scopes) \in Nat
  BY DEF Nested
<1>2. scopes' \in Seq(Scope) /\ Len(scopes') = Len(scopes)
  BY <1>1
<1>3. scopes'[k] = r /\ \A j \in 1 .. Len(scopes) : j # k => scopes'[j] = scopes[j]
  BY <1>1
<1>4. \A j \in 1 .. Len(scopes) : scopes'[j].parent = scopes[j].parent
  BY <1>3
<1>5. Nested(scopes')
  BY <1>2, <1>4 DEF Nested
<1>6. \A j \in 0 .. Len(scopes) : PathIn(scopes')[j] = PathIn(scopes)[j]
  <2>1. Len(scopes) <= Len(scopes')
    BY <1>1, <1>2
  <2>2. \A t : Nested(t) /\ Len(scopes) <= Len(t)
               /\ (\A j \in 1 .. Len(scopes) : t[j].parent = scopes[j].parent)
               => \A j \in 0 .. Len(scopes) : PathIn(t)[j] = PathIn(scopes)[j]
    BY PathStays, Zenon
  <2> QED
    BY <1>4, <1>5, <2>1, <2>2, Zenon
<1> QED
  BY <1>2, <1>3, <1>5, <1>6

\* A scope is added: it is the youngest.
LEMMA AddingAScope ==
  ASSUME Nested(scopes), NEW r \in Scope, r.parent \in 0 .. Len(scopes),
         scopes' = Append(scopes, r)
  PROVE  /\ Nested(scopes') /\ Len(scopes') = Len(scopes) + 1
         /\ scopes'[Len(scopes) + 1] = r
         /\ \A j \in 1 .. Len(scopes) : scopes'[j] = scopes[j]
         /\ \A j \in 0 .. Len(scopes) : PathIn(scopes')[j] = PathIn(scopes)[j]
         /\ \A j \in 0 .. Len(scopes) : PathIn(scopes)[j] \subseteq 1 .. Len(scopes)
         /\ PathIn(scopes')[Len(scopes) + 1] = {Len(scopes) + 1} \cup PathIn(scopes)[r.parent]
<1> DEFINE n == Len(scopes)
<1>1. scopes \in Seq(Scope) /\ n \in Nat
  BY DEF Nested
<1>2. scopes' \in Seq(Scope) /\ Len(scopes') = n + 1
  BY <1>1
<1>3. scopes'[n + 1] = r /\ \A j \in 1 .. n : scopes'[j] = scopes[j]
  BY <1>1
<1>4. Nested(scopes')
  <2>1. \A j \in 1 .. n : scopes[j].parent < j
    BY DEF Nested
  <2>2. r.parent < n + 1
    BY <1>1
  <2>3. ASSUME NEW j \in 1 .. Len(scopes') PROVE scopes'[j].parent < j
    <3>1. CASE j = n + 1
      BY <1>3, <2>2, <3>1
    <3>2. CASE j # n + 1
      <4>1. j \in 1 .. n
        BY <1>1, <1>2, <3>2
      <4> QED
        BY <1>3, <2>1, <4>1
    <3> QED
      BY <3>1, <3>2
  <2> QED
    BY <1>2, <2>3 DEF Nested
<1>5. \A j \in 0 .. n : PathIn(scopes')[j] = PathIn(scopes)[j]
  <2>1. Len(scopes) <= Len(scopes')
    BY <1>1, <1>2
  <2>2. \A j \in 1 .. Len(scopes) : scopes'[j].parent = scopes[j].parent
    BY <1>3
  <2> QED
    BY <1>4, <2>1, <2>2, PathStays
<1>6. PathIn(scopes')[n + 1] = {n + 1} \cup PathIn(scopes)[r.parent]
  <2>1. \A j \in 1 .. Len(scopes') : PathIn(scopes')[j] = {j} \cup PathIn(scopes')[scopes'[j].parent]
    BY <1>4, PathLeadsUp
  <2>2. n + 1 \in 1 .. Len(scopes')
    BY <1>1, <1>2
  <2> HIDE DEF n
  <2> QED
    BY <1>3, <1>5, <2>1, <2>2 DEF n
<1>7. \A j \in 0 .. n : PathIn(scopes)[j] \subseteq 1 .. n
  <2>1. \A j \in 0 .. n : PathIn(scopes)[j] \subseteq 1 .. j
    BY PathLeadsUp
  <2> HIDE DEF n
  <2>2. \A j \in 0 .. n : 1 .. j \subseteq 1 .. n
    BY <1>1
  <2> QED
    BY <2>1, <2>2
<1> QED
  BY <1>2, <1>3, <1>4, <1>5, <1>6, <1>7

-----------------------------------------------------------------------------
(* Entering the work of an operation *)

\* What the steps of calls and streams have to keep.
CInv == Nested(scopes) /\ Known /\ StoresTell /\ Held /\ OneUser

\* What an operation is around of does not change when others begin in it.
LEMMA AroundStays ==
  ASSUME NEW x \in Calls,
         \A y : y \in Calls' /\ CallOf(y)'.owns /\ y[1] = x[1] /\ y[2] <= x[2] => y \in Calls,
         \A y \in Calls : CallOf(y).owns /\ y[1] = x[1] /\ y[2] <= x[2] => y \in Calls',
         \A y \in Calls : y \in Calls' => CallOf(y)' = CallOf(y)
  PROVE  Around(x)' = Around(x)
<1> DEFINE Z == {z \in Calls : z[1] = x[1] /\ z[2] <= x[2] /\ CallOf(z).owns}
           Y == {z \in Calls' : z[1] = x[1] /\ z[2] <= x[2] /\ CallOf(z)'.owns}
<1>1. Y = Z
  <2>1. ASSUME NEW z \in Y PROVE z \in Z
    <3>1. z \in Calls
      OBVIOUS
    <3> QED
      BY <3>1
  <2>2. ASSUME NEW z \in Z PROVE z \in Y
    OBVIOUS
  <2> QED
    BY <2>1, <2>2
<1>2. \A z \in Z : CallOf(z)' = CallOf(z)
  BY <1>1
<1>3. Around(x)' = {CallOf(y)'.scope : y \in Y}
  BY DEF Around
<1>4. Around(x) = {CallOf(y).scope : y \in Z}
  BY DEF Around
<1> HIDE DEF Y, Z
<1> QED
  BY <1>1, <1>2, <1>3, <1>4

\* A call that joins the operation that has the guard is one more in its scope.
LEMMA EnteringNested ==
  ASSUME GInv, NEW a \in Actors, NEW kind \in {"work", "query"}, NEW g \in Guards,
         EntersNested(a, kind, g), Len(frames[a]) < MaxDepth,
         UNCHANGED <<base, inherited, streams>>
  PROVE  /\ CInv'
         /\ scopes' \in Seq(Scope) /\ Len(scopes') = Len(scopes)
         /\ frames' \in [Actors -> Seq(Frame)]
         /\ Len(frames'[a]) = Len(frames[a]) + 1
         /\ \A b \in Actors : b # a => frames'[b] = frames[b]
<1> DEFINE k == token[g]
           f == [kind |-> kind, guard |-> g, scope |-> k, owns |-> FALSE]
           n == Len(scopes)
<1>1. k \in 1 .. n /\ k \in Scopes /\ scopes[k].active
  BY JoiningIsBeingUnder DEF EntersNested
<1>2. /\ kind = "query" => ~scopes[k].querying
      /\ scopes' = IF kind = "query" THEN [scopes EXCEPT ![k].querying = TRUE] ELSE scopes
      /\ token' = token
  BY DEF EntersNested, NoQuery, Querying
<1>3. frames' = [frames EXCEPT ![a] = Append(@, f)]
  BY DEF EntersNested, Entered
<1>4. f \in Frame
  BY <1>1 DEF Frame
<1>5. Nested(scopes) /\ n \in Nat /\ \A j \in 1 .. n : scopes[j] \in Scope
  BY DEF GInv, Nested
<1>6. /\ Nested(scopes') /\ Len(scopes') = n
      /\ \A j \in 1 .. n : scopes'[j].active = scopes[j].active
      /\ \A j \in 1 .. n : scopes[j].querying => scopes'[j].querying
      /\ kind = "query" => scopes'[k].querying
      /\ \A j \in 0 .. n : PathIn(scopes')[j] = PathIn(scopes)[j]
  <2>1. CASE kind = "query"
    <3> DEFINE r == [scopes[k] EXCEPT !.querying = TRUE]
    <3>1. r \in Scope /\ r.parent = scopes[k].parent /\ r.active = scopes[k].active /\ r.querying
      BY <1>1, <1>5 DEF Scope
    <3>2. scopes' = [scopes EXCEPT ![k] = r]
      BY <1>2, <2>1
    <3> HIDE DEF r
    <3>3. /\ Nested(scopes') /\ Len(scopes') = n
          /\ scopes'[k] = r
          /\ \A j \in 1 .. n : j # k => scopes'[j] = scopes[j]
          /\ \A j \in 0 .. n : PathIn(scopes')[j] = PathIn(scopes)[j]
      BY <1>1, <1>5, <3>1, <3>2, MarkingAScope
    <3> QED
      BY <3>1, <3>3
  <2>2. CASE kind # "query"
    BY <1>2, <1>5, <2>2
  <2> QED
    BY <2>1, <2>2
<1>7. PICK top :
         /\ top \notin Calls /\ top[1] = a
         /\ \A y \in Calls : y[1] = a => y[2] < top[2]
         /\ \A x : x \in Calls' <=> x \in Calls \/ x = top
         /\ \A x \in Calls : CallOf(x)' = CallOf(x)
         /\ CallOf(top)' = f
         /\ frames' \in [Actors -> Seq(Frame)]
         /\ Len(frames'[a]) = Len(frames[a]) + 1
         /\ \A b \in Actors : b # a => frames'[b] = frames[b]
  <2>1. TypeOK
    BY DEF GInv
  <2> HIDE DEF f
  <2> QED
    BY <1>3, <1>4, <2>1, EnteringAddsACall
<1>8. f.kind = kind /\ f.guard = g /\ f.scope = k /\ ~f.owns
  OBVIOUS
<1> HIDE DEF f, k, n
<1>9. Known'
  <2>1. \A x \in Calls' : CallOf(x)'.scope \in 1 .. n
    BY <1>1, <1>7, <1>8 DEF GInv, Known, n
  <2> QED
    BY <1>6, <2>1 DEF GInv, Known, n
<1>10. StoresTell'
  <2>1. \A x \in Calls : CallOf(x).owns => Around(x)' = Around(x)
    <3> SUFFICES ASSUME NEW x \in Calls, CallOf(x).owns PROVE Around(x)' = Around(x)
      OBVIOUS
    <3>1. \A y : y \in Calls' /\ CallOf(y)'.owns => y \in Calls
      BY <1>7, <1>8
    <3>2. \A y \in Calls : y \in Calls' /\ CallOf(y)' = CallOf(y)
      BY <1>7
    <3> QED
      BY <3>1, <3>2, AroundStays
  <2>2. ASSUME NEW j \in 1 .. Len(scopes'), scopes'[j].active
        PROVE  /\ \A b \in Actors : j \in PathIn(scopes')[base'[b]] <=> j \in inherited'[b]
               /\ \A x \in Calls' : CallOf(x)'.owns =>
                    (j \in PathIn(scopes')[CallOf(x)'.scope] <=> j \in inherited'[x[1]] \cup Around(x)')
    <3>1. j \in 1 .. n /\ scopes[j].active
      BY <1>6, <2>2
    <3>2. \A b \in Actors : base[b] \in 0 .. n
      BY DEF GInv, Known, n
    <3>3. \A b \in Actors : j \in PathIn(scopes')[base[b]] <=> j \in inherited[b]
      BY <1>6, <3>1, <3>2 DEF GInv, StoresTell, n
    <3>4. ASSUME NEW x \in Calls', CallOf(x)'.owns
          PROVE  j \in PathIn(scopes')[CallOf(x)'.scope] <=> j \in inherited[x[1]] \cup Around(x)'
      <4>1. x \in Calls /\ CallOf(x)' = CallOf(x) /\ CallOf(x).owns
        BY <1>7, <1>8, <3>4
      <4>2. CallOf(x).scope \in 0 .. n
        <5>1. CallOf(x).scope \in 1 .. Len(scopes)
          BY <4>1 DEF GInv, Known
        <5> QED
          BY <1>5, <5>1 DEF n
      <4>3. j \in PathIn(scopes)[CallOf(x).scope] <=> j \in inherited[x[1]] \cup Around(x)
        BY <3>1, <4>1 DEF GInv, StoresTell, n
      <4> QED
        BY <1>6, <2>1, <4>1, <4>2, <4>3
    <3> QED
      BY <3>3, <3>4
  <2> QED
    BY <2>2 DEF StoresTell
<1>11. Held'
  <2>1. \A x \in Calls' : CallOf(x)'.owns => x \in Calls /\ CallOf(x)' = CallOf(x)
    BY <1>7, <1>8
  <2>2. \A x \in Calls : x \in Calls' /\ CallOf(x)' = CallOf(x)
    BY <1>7
  <2>3. \A h \in Guards : token[h] \in Scopes =>
          /\ token[h] \in 1 .. Len(scopes') /\ scopes'[token[h]].active
          /\ \E x \in Calls' : CallOf(x)'.owns /\ CallOf(x)'.guard = h /\ CallOf(x)'.scope = token[h]
    BY <1>6, <2>2 DEF GInv, Held, n
  <2>4. \A h \in Guards : token[h] \in Streams =>
          token[h] \in DOMAIN streams' /\ streams'[token[h]] = [guard |-> h, scope |-> 0]
    BY DEF GInv, Held
  <2>5. \A x \in Calls' : CallOf(x)'.owns => token[CallOf(x)'.guard] = CallOf(x)'.scope
    BY <2>1 DEF GInv, Held
  <2>6. \A s \in DOMAIN streams' : streams'[s].scope = 0 => token[streams'[s].guard] = s
    BY DEF GInv, Held
  <2>7. \A x, y \in Calls' :
          CallOf(x)'.owns /\ CallOf(y)'.owns /\ CallOf(x)'.scope = CallOf(y)'.scope => x = y
    BY <2>1 DEF GInv, Held
  <2> QED
    BY <1>2, <2>3, <2>4, <2>5, <2>6, <2>7 DEF Held
<1>12. OneUser'
  <2>1. \A x \in Calls' : (x \in Calls /\ CallOf(x)' = CallOf(x)) \/ (x = top /\ CallOf(x)' = f)
    <3> SUFFICES ASSUME NEW x \in Calls'
                 PROVE  (x \in Calls /\ CallOf(x)' = CallOf(x)) \/ (x = top /\ CallOf(x)' = f)
      OBVIOUS
    <3>1. CASE x \in Calls
      BY <1>7, <3>1
    <3>2. CASE x = top
      BY <1>7, <3>2
    <3> QED
      BY <1>7, <3>1, <3>2
  <2>2. \A x \in Calls : CallOf(x).scope \in 1 .. n
    BY DEF GInv, Known, n
  <2>3. \A s \in DOMAIN streams : streams[s].scope # 0 => streams[s].scope \in 1 .. n
    <3>1. \A s \in DOMAIN streams : streams[s].scope \in 0 .. n
      BY DEF GInv, Known, n
    <3> QED
      BY <1>5, <3>1
  <2>4. kind = "query" => \A x \in Calls : CallOf(x).kind = "query" => CallOf(x).scope # k
    BY <1>2 DEF GInv, OneUser
  <2>5. kind = "query" => \A s \in DOMAIN streams : streams[s].scope # k
    <3>1. k # 0
      BY <1>1
    <3> QED
      BY <1>2, <3>1 DEF GInv, OneUser
  <2>6. \A x \in Calls' : CallOf(x)'.kind = "query" => scopes'[CallOf(x)'.scope].querying
    BY <1>6, <1>8, <2>1, <2>2 DEF GInv, OneUser
  <2>7. \A s \in DOMAIN streams' : streams'[s].scope # 0 => scopes'[streams'[s].scope].querying
    BY <1>6, <2>3 DEF GInv, OneUser
  <2>8. \A x, y \in Calls' :
          /\ CallOf(x)'.kind = "query" /\ CallOf(y)'.kind = "query"
          /\ CallOf(x)'.scope = CallOf(y)'.scope
          => x = y
    BY <1>8, <2>1, <2>4 DEF GInv, OneUser
  <2>9. \A x \in Calls', s \in DOMAIN streams' :
          CallOf(x)'.kind = "query" => CallOf(x)'.scope # streams'[s].scope
    BY <1>8, <2>1, <2>5 DEF GInv, OneUser
  <2>10. \A s, t \in DOMAIN streams' :
           streams'[s].scope # 0 /\ streams'[s].scope = streams'[t].scope => s = t
    BY DEF GInv, OneUser
  <2> QED
    BY <2>6, <2>7, <2>8, <2>9, <2>10 DEF OneUser
<1> QED
  BY <1>6, <1>7, <1>9, <1>10, <1>11, <1>12 DEF CInv, Nested, n

-----------------------------------------------------------------------------
(* Beginning an operation *)

\* A call that finds the guard free gets it, with a scope that is new to every
\* store, nested in the one in whose work the call is made.
LEMMA EnteringAlone ==
  ASSUME GInv, NEW a \in Actors, NEW kind \in {"work", "query"}, NEW g \in Guards,
         EntersAlone(a, kind, g), Len(frames[a]) < MaxDepth, Len(scopes) < MaxScopes,
         UNCHANGED <<base, inherited, streams>>
  PROVE  /\ CInv'
         /\ token' = [token EXCEPT ![g] = Len(scopes) + 1] /\ Len(scopes) + 1 \in Scopes
         /\ scopes' \in Seq(Scope) /\ Len(scopes') = Len(scopes) + 1
         /\ frames' \in [Actors -> Seq(Frame)]
         /\ Len(frames'[a]) = Len(frames[a]) + 1
         /\ \A b \in Actors : b # a => frames'[b] = frames[b]
<1> DEFINE n == Len(scopes)
           new == n + 1
           r == [guard |-> g, parent |-> ActiveParent(a), active |-> TRUE, querying |-> kind = "query"]
           f == [kind |-> kind, guard |-> g, scope |-> new, owns |-> TRUE]
<1>1. /\ token[g] = None /\ token' = [token EXCEPT ![g] = new]
      /\ scopes' = Append(scopes, r)
      /\ frames' = [frames EXCEPT ![a] = Append(@, f)]
  BY DEF EntersAlone, Entered
<1>2. n \in Nat /\ MaxScopes \in Nat /\ new \in Nat /\ new \in Scopes /\ 0 < new
  <2>1. n \in Nat /\ MaxScopes \in Nat
    BY OperationGuardAssumption DEF GInv, Nested
  <2> QED
    BY <2>1 DEF Scopes
<1>3. ActiveParent(a) \in 0 .. n
  <2>1. Store(a) \in 0 .. n
    BY StoreTells
  <2>2. UpIn(scopes)[Store(a)] \in 0 .. n
    BY <2>1, UpKeepsTheActive DEF GInv
  <2> QED
    BY <2>2, ActiveParentIsUp
<1>4. r \in Scope
  <2>1. ActiveParent(a) \in 0 .. MaxScopes
    BY <1>2, <1>3
  <2> QED
    BY <2>1 DEF Scope
<1>5. f \in Frame
  BY <1>2 DEF Frame
<1>6. r.parent = ActiveParent(a) /\ r.active /\ (r.querying <=> kind = "query")
  OBVIOUS
<1>7. f.kind = kind /\ f.guard = g /\ f.scope = new /\ f.owns
  OBVIOUS
<1> HIDE DEF r, f
<1>8. /\ Nested(scopes') /\ Len(scopes') = n + 1
      /\ scopes'[n + 1] = r
      /\ \A j \in 1 .. n : scopes'[j] = scopes[j]
      /\ \A j \in 0 .. n : PathIn(scopes')[j] = PathIn(scopes)[j]
      /\ \A j \in 0 .. n : PathIn(scopes)[j] \subseteq 1 .. n
      /\ PathIn(scopes')[n + 1] = {n + 1} \cup PathIn(scopes)[r.parent]
  <2>1. Nested(scopes)
    BY DEF GInv
  <2> QED
    BY <1>1, <1>3, <1>4, <1>6, <2>1, AddingAScope
<1>9. PICK top :
         /\ top \notin Calls /\ top[1] = a
         /\ \A y \in Calls : y[1] = a => y[2] < top[2]
         /\ \A x : x \in Calls' <=> x \in Calls \/ x = top
         /\ \A x \in Calls : CallOf(x)' = CallOf(x)
         /\ CallOf(top)' = f
         /\ frames' \in [Actors -> Seq(Frame)]
         /\ Len(frames'[a]) = Len(frames[a]) + 1
         /\ \A b \in Actors : b # a => frames'[b] = frames[b]
  <2>1. TypeOK
    BY DEF GInv
  <2> HIDE DEF new
  <2> QED
    BY <1>1, <1>5, <2>1, EnteringAddsACall
<1>10. \A x \in Calls' : (x \in Calls /\ CallOf(x)' = CallOf(x)) \/ (x = top /\ CallOf(x)' = f)
  <2> SUFFICES ASSUME NEW x \in Calls'
               PROVE  (x \in Calls /\ CallOf(x)' = CallOf(x)) \/ (x = top /\ CallOf(x)' = f)
    OBVIOUS
  <2>1. CASE x \in Calls
    BY <1>9, <2>1
  <2>2. CASE x = top
    BY <1>9, <2>2
  <2> QED
    BY <1>9, <2>1, <2>2
<1>11. \A x \in Calls : x \in Calls' /\ CallOf(x)' = CallOf(x)
  BY <1>9
<1>12. /\ \A b \in Actors : base[b] \in 0 .. n /\ inherited[b] \subseteq 1 .. n
       /\ \A x \in Calls : CallOf(x).scope \in 1 .. n
       /\ \A s \in DOMAIN streams : streams[s].scope \in 0 .. n
  BY DEF GInv, Known
<1>13. /\ new \notin 1 .. n /\ new \notin 0 .. n /\ new # 0 /\ new \in 1 .. new
       /\ 1 .. n \subseteq 1 .. new /\ 0 .. n \subseteq 0 .. new /\ 1 .. n \subseteq 0 .. n
       /\ \A j \in 1 .. new : j # new => j \in 1 .. n
  BY <1>2
<1>14. /\ token \in [Guards -> Scopes \cup Streams \cup {None}]
       /\ None \notin Scopes /\ None \notin Streams /\ Scopes \cap Streams = {}
  <2>1. token \in [Guards -> Scopes \cup Streams \cup {None}]
    BY DEF GInv, TypeOK
  <2>2. Scopes \subseteq 0 .. MaxScopes
    BY OperationGuardAssumption DEF Scopes
  <2> QED
    BY <2>1, <2>2, OperationGuardAssumption
<1>15. token'[g] = new /\ \A h \in Guards : h # g => token'[h] = token[h]
  BY <1>1, <1>14
<1>16. top \in Calls' /\ CallOf(top)' = f /\ top \notin Calls
  BY <1>9
<1>17. Len(scopes') = new /\ scopes'[new] = r
  BY <1>8
<1>18. PathIn(scopes')[new] = {new} \cup PathIn(scopes)[ActiveParent(a)]
  BY <1>6, <1>8
<1> HIDE DEF n, new
<1>19. Known'
  <2>1. \A b \in Actors : base'[b] \in 0 .. new /\ inherited'[b] \subseteq 1 .. new
    BY <1>12, <1>13
  <2>2. \A x \in Calls' : CallOf(x)'.scope \in 1 .. new
    BY <1>7, <1>10, <1>12, <1>13
  <2>3. \A s \in DOMAIN streams' : streams'[s].scope \in 0 .. new
    BY <1>12, <1>13
  <2> QED
    BY <1>17, <2>1, <2>2, <2>3 DEF Known
<1>20. \A x \in Calls : Around(x)' = Around(x)
  <2> SUFFICES ASSUME NEW x \in Calls PROVE Around(x)' = Around(x)
    OBVIOUS
  <2>1. ASSUME NEW y, y \in Calls', y[1] = x[1], y[2] <= x[2] PROVE y \in Calls
    <3>1. CASE y = top
      <4>1. x[1] = a /\ x[2] < top[2]
        BY <1>9, <2>1, <3>1
      <4>2. x[2] \in Nat
        <5>1. x[2] \in 1 .. Len(frames[x[1]]) /\ x[1] \in Actors
          BY CallsAreFrames DEF GInv
        <5>2. Len(frames[x[1]]) \in Nat
          BY <5>1, CallsAreFrames DEF GInv
        <5> QED
          BY <5>1, <5>2
      <4>3. top[2] \in Nat
        <5>1. top \in Actors \X (1 .. MaxDepth)
          BY <1>16 DEF Calls
        <5>2. top[2] \in 1 .. MaxDepth
          BY <5>1
        <5> QED
          BY <5>2, OperationGuardAssumption
      <4> QED
        BY <2>1, <3>1, <4>1, <4>2, <4>3
    <3> QED
      BY <1>10, <2>1, <3>1
  <2> QED
    BY <1>11, <2>1, AroundStays
<1>21. ASSUME NEW j \in 1 .. n
       PROVE  j \in Around(top)' <=> j \in {frames[a][i].scope : i \in Owning(a)}
  <2> DEFINE Y == {z \in Calls' : z[1] = top[1] /\ z[2] <= top[2] /\ CallOf(z)'.owns}
  <2>1. Around(top)' = {CallOf(y)'.scope : y \in Y}
    BY DEF Around
  <2>2. ASSUME NEW y \in Y, CallOf(y)'.scope = j
        PROVE  \E i \in Owning(a) : frames[a][i].scope = j
    <3>1. y \in Calls' /\ y[1] = a /\ CallOf(y)'.owns
      BY <1>9
    <3>2. y \in Calls /\ CallOf(y)' = CallOf(y)
      BY <1>7, <1>10, <1>13, <2>2, <3>1
    <3>3. CallOf(y) = frames[a][y[2]] /\ y[2] \in 1 .. Len(frames[a])
      BY <3>1, <3>2, CallsAreFrames DEF CallOf, GInv
    <3>4. DOMAIN frames[a] = 1 .. Len(frames[a])
      BY CallsAreFrames DEF GInv
    <3> QED
      BY <2>2, <3>1, <3>2, <3>3, <3>4 DEF Owning
  <2>3. ASSUME NEW i \in Owning(a), frames[a][i].scope = j
        PROVE  \E y \in Y : CallOf(y)'.scope = j
    <3>1. frames[a] \in Seq(Frame) /\ Len(frames[a]) \in Nat /\ Len(frames[a]) <= MaxDepth
      BY CallsAreFrames, FramesAreBounded DEF GInv
    <3>2. i \in 1 .. Len(frames[a]) /\ frames[a][i].owns
      BY <3>1 DEF Owning
    <3>3. i \in 1 .. MaxDepth /\ i <= Len(frames[a])
      BY <3>1, <3>2, OperationGuardAssumption
    <3> DEFINE y == <<a, i>>
    <3>4. y \in Calls /\ CallOf(y) = frames[a][i] /\ y[1] = a /\ y[2] = i
      <4>1. y \in Actors \X (1 .. MaxDepth)
        BY <3>3
      <4> QED
        BY <3>3, <4>1 DEF Calls, CallOf
    <3> HIDE DEF y
    <3>5. y \in Calls' /\ CallOf(y)' = frames[a][i]
      BY <1>11, <3>4
    <3>6. y[2] < top[2]
      BY <1>9, <3>4
    <3>7. top[2] \in Nat /\ y[2] \in Nat
      <4>1. top \in Actors \X (1 .. MaxDepth)
        BY <1>16 DEF Calls
      <4>2. top[2] \in 1 .. MaxDepth
        BY <4>1
      <4> QED
        BY <3>3, <3>4, <4>2, OperationGuardAssumption
    <3>8. y[2] <= top[2]
      BY <3>6, <3>7
    <3>9. y \in Y
      BY <1>9, <3>2, <3>4, <3>5, <3>8
    <3> QED
      BY <2>3, <3>5, <3>9
  <2> HIDE DEF Y
  <2> QED
    BY <2>1, <2>2, <2>3
<1>22. \A x \in Around(top)' : x \in 1 .. new
  <2>1. \A z \in Calls' : CallOf(z)'.scope \in 1 .. new
    BY <1>7, <1>10, <1>12, <1>13
  <2>2. Around(top)' = {CallOf(y)'.scope : y \in {z \in Calls' : z[1] = top[1] /\ z[2] <= top[2] /\ CallOf(z)'.owns}}
    BY DEF Around
  <2> QED
    BY <2>1, <2>2
<1>23. new \in Around(top)'
  <2>1. top[2] <= top[2]
    <3>1. top \in Actors \X (1 .. MaxDepth)
      BY <1>16 DEF Calls
    <3>2. top[2] \in 1 .. MaxDepth
      BY <3>1
    <3> QED
      BY <3>2, OperationGuardAssumption
  <2> QED
    BY <1>7, <1>16, <2>1 DEF Around
<1>24. StoresTell'
  <2>1. ASSUME NEW j \in 1 .. new, scopes'[j].active, NEW b \in Actors
        PROVE  j \in PathIn(scopes')[base[b]] <=> j \in inherited[b]
    <3>1. PathIn(scopes')[base[b]] = PathIn(scopes)[base[b]] /\ PathIn(scopes)[base[b]] \subseteq 1 .. n
      BY <1>8, <1>12 DEF n
    <3>2. CASE j = new
      BY <1>12, <1>13, <3>1, <3>2
    <3>3. CASE j # new
      <4>1. j \in 1 .. n /\ scopes[j].active
        BY <1>8, <1>13, <2>1, <3>3 DEF n
      <4> QED
        BY <3>1, <4>1 DEF GInv, StoresTell, n
    <3> QED
      BY <3>2, <3>3
  <2>2. ASSUME NEW j \in 1 .. new, scopes'[j].active, NEW x \in Calls, CallOf(x).owns
        PROVE  j \in PathIn(scopes')[CallOf(x).scope] <=> j \in inherited[x[1]] \cup Around(x)
    <3>1. CallOf(x).scope \in 0 .. n
      BY <1>12, <1>13
    <3>2. /\ PathIn(scopes')[CallOf(x).scope] = PathIn(scopes)[CallOf(x).scope]
          /\ PathIn(scopes)[CallOf(x).scope] \subseteq 1 .. n
      BY <1>8, <3>1 DEF n
    <3>3. CASE j = new
      <4>1. x[1] \in Actors
        BY CallsAreFrames DEF GInv
      <4>2. new \notin inherited[x[1]]
        BY <1>12, <1>13, <4>1
      <4>3. new \notin Around(x)
        BY <1>12, <1>13 DEF Around
      <4> QED
        BY <1>13, <3>2, <3>3, <4>2, <4>3
    <3>4. CASE j # new
      <4>1. j \in 1 .. n /\ scopes[j].active
        BY <1>8, <1>13, <2>2, <3>4 DEF n
      <4> QED
        BY <2>2, <3>2, <4>1 DEF GInv, StoresTell, n
    <3> QED
      BY <3>3, <3>4
  <2>3. ASSUME NEW j \in 1 .. new, scopes'[j].active
        PROVE  j \in PathIn(scopes')[new] <=> j \in inherited[a] \cup Around(top)'
    <3>1. CASE j = new
      BY <1>18, <1>23, <3>1
    <3>2. CASE j # new
      <4>1. j \in 1 .. n /\ scopes[j].active
        BY <1>8, <1>13, <2>3, <3>2 DEF n
      <4>2. Store(a) \in 0 .. n /\ (j \in PathIn(scopes)[Store(a)] <=> j \in Under(a))
        BY <4>1, StoreTells DEF n
      <4>3. j \in PathIn(scopes)[UpIn(scopes)[Store(a)]] <=> j \in PathIn(scopes)[Store(a)]
        BY <4>1, <4>2, UpKeepsTheActive DEF GInv, n
      <4>4. j \in PathIn(scopes')[new] <=> j \in PathIn(scopes)[ActiveParent(a)]
        BY <1>18, <3>2
      <4>5. ActiveParent(a) = UpIn(scopes)[Store(a)]
        BY ActiveParentIsUp
      <4>6. j \in Under(a) <=> j \in inherited[a] \cup {frames[a][i].scope : i \in Owning(a)}
        BY DEF Under
      <4>7. j \in Around(top)' <=> j \in {frames[a][i].scope : i \in Owning(a)}
        BY <1>21, <4>1
      <4> QED
        BY <4>2, <4>3, <4>4, <4>5, <4>6, <4>7
    <3> QED
      BY <3>1, <3>2
  <2>4. ASSUME NEW j \in 1 .. new, scopes'[j].active, NEW x \in Calls', CallOf(x)'.owns
        PROVE  j \in PathIn(scopes')[CallOf(x)'.scope] <=> j \in inherited[x[1]] \cup Around(x)'
    <3>1. CASE x \in Calls
      <4>1. CallOf(x)' = CallOf(x) /\ Around(x)' = Around(x)
        BY <1>11, <1>20, <3>1
      <4> QED
        BY <2>2, <2>4, <3>1, <4>1
    <3>2. CASE x \notin Calls
      <4>1. x = top /\ CallOf(x)'.scope = new /\ x[1] = a
        BY <1>7, <1>9, <1>10, <3>2
      <4>2. j \in PathIn(scopes')[new] <=> j \in inherited[a] \cup Around(top)'
        BY <2>3, <2>4
      <4> QED
        BY <4>1, <4>2
    <3> QED
      BY <3>1, <3>2
  <2>5. Len(scopes') = new /\ base' = base /\ inherited' = inherited
    BY <1>17
  <2> QED
    BY <2>1, <2>4, <2>5 DEF StoresTell
<1>25. Held'
  <2>1. \A x \in Calls : CallOf(x).owns => CallOf(x).guard # g
    <3> SUFFICES ASSUME NEW x \in Calls, CallOf(x).owns, CallOf(x).guard = g PROVE FALSE
      OBVIOUS
    <3>1. token[g] = CallOf(x).scope
      BY DEF GInv, Held
    <3>2. CallOf(x).scope \in Scopes
      BY CallsAreFrames DEF GInv, Frame
    <3> QED
      BY <1>1, <1>14, <3>1, <3>2
  <2>2. \A x \in Calls : CallOf(x).guard \in Guards
    BY CallsAreFrames DEF GInv, Frame
  <2>3. ASSUME NEW h \in Guards, token'[h] \in Scopes
        PROVE  /\ token'[h] \in 1 .. new /\ scopes'[token'[h]].active
               /\ \E x \in Calls' : CallOf(x)'.owns /\ CallOf(x)'.guard = h /\ CallOf(x)'.scope = token'[h]
    <3>1. CASE h = g
      BY <1>6, <1>7, <1>13, <1>15, <1>16, <1>17, <3>1
    <3>2. CASE h # g
      <4>1. token'[h] = token[h]
        BY <1>15, <3>2
      <4>2. token[h] \in 1 .. n /\ scopes[token[h]].active
        BY <2>3, <4>1 DEF GInv, Held, n
      <4>3. PICK x \in Calls : CallOf(x).owns /\ CallOf(x).guard = h /\ CallOf(x).scope = token[h]
        BY <2>3, <4>1 DEF GInv, Held
      <4>4. token[h] \in 1 .. new /\ scopes'[token[h]].active
        BY <1>8, <1>13, <4>2 DEF n
      <4> QED
        BY <1>11, <4>1, <4>3, <4>4
    <3> QED
      BY <3>1, <3>2
  <2>4. \A h \in Guards : token'[h] \in Streams =>
          token'[h] \in DOMAIN streams' /\ streams'[token'[h]] = [guard |-> h, scope |-> 0]
    <3>1. new \notin Streams
      BY <1>2, <1>14
    <3> QED
      BY <1>15, <3>1 DEF GInv, Held
  <2>5. ASSUME NEW x \in Calls', CallOf(x)'.owns
        PROVE  token'[CallOf(x)'.guard] = CallOf(x)'.scope
    <3>1. CASE x \in Calls
      <4>1. CallOf(x)' = CallOf(x) /\ CallOf(x).owns
        BY <1>11, <2>5, <3>1
      <4>2. CallOf(x).guard # g /\ CallOf(x).guard \in Guards
        BY <2>1, <2>2, <3>1, <4>1
      <4>3. token[CallOf(x).guard] = CallOf(x).scope
        BY <3>1, <4>1 DEF GInv, Held
      <4> QED
        BY <1>15, <4>1, <4>2, <4>3
    <3>2. CASE x = top
      BY <1>7, <1>15, <1>16, <3>2
    <3> QED
      BY <1>10, <3>1, <3>2
  <2>6. ASSUME NEW s \in DOMAIN streams', streams'[s].scope = 0
        PROVE  token'[streams'[s].guard] = s
    <3>1. s \in DOMAIN streams /\ streams[s].scope = 0 /\ streams'[s].guard = streams[s].guard
      BY <2>6
    <3>2. token[streams[s].guard] = s
      BY <3>1 DEF GInv, Held
    <3>3. s \in Streams /\ streams[s].guard \in Guards
      BY <3>1 DEF GInv, TypeOK, Stream
    <3>4. streams[s].guard # g
      BY <1>1, <1>14, <3>2, <3>3
    <3> QED
      BY <1>15, <3>1, <3>2, <3>3, <3>4
  <2>7. ASSUME NEW x \in Calls', NEW y \in Calls', CallOf(x)'.owns, CallOf(y)'.owns,
               CallOf(x)'.scope = CallOf(y)'.scope
        PROVE  x = y
    <3>1. x \in Calls => CallOf(x)'.scope # new
      BY <1>11, <1>12, <1>13
    <3>2. y \in Calls => CallOf(y)'.scope # new
      BY <1>11, <1>12, <1>13
    <3>3. CASE x \in Calls /\ y \in Calls
      <4>1. CallOf(x)' = CallOf(x) /\ CallOf(y)' = CallOf(y)
        BY <1>11, <3>3
      <4> QED
        BY <2>7, <3>3, <4>1 DEF GInv, Held
    <3>4. CASE x = top
      BY <1>7, <1>10, <1>16, <2>7, <3>2, <3>4
    <3>5. CASE y = top
      BY <1>7, <1>10, <1>16, <2>7, <3>1, <3>5
    <3> QED
      BY <1>10, <3>3, <3>4, <3>5
  <2> QED
    BY <1>17, <2>3, <2>4, <2>5, <2>6, <2>7 DEF Held
<1>26. OneUser'
  <2>1. \A x \in Calls : CallOf(x)'.scope = CallOf(x).scope /\ CallOf(x).scope # new
    BY <1>11, <1>12, <1>13
  <2>2. \A s \in DOMAIN streams : streams[s].scope # new
    BY <1>12, <1>13
  <2>3. ASSUME NEW x \in Calls', CallOf(x)'.kind = "query"
        PROVE  scopes'[CallOf(x)'.scope].querying
    <3>1. CASE x \in Calls
      <4>1. CallOf(x)' = CallOf(x) /\ CallOf(x).scope \in 1 .. n
        BY <1>11, <1>12, <3>1
      <4>2. scopes[CallOf(x).scope].querying
        BY <2>3, <3>1, <4>1 DEF GInv, OneUser
      <4> QED
        BY <1>8, <4>1, <4>2 DEF n
    <3>2. CASE x = top
      BY <1>6, <1>7, <1>16, <1>17, <2>3, <3>2
    <3> QED
      BY <1>10, <3>1, <3>2
  <2>4. ASSUME NEW s \in DOMAIN streams', streams'[s].scope # 0
        PROVE  scopes'[streams'[s].scope].querying
    <3>1. streams[s].scope \in 1 .. n /\ scopes[streams[s].scope].querying
      <4>1. streams[s].scope \in 0 .. n /\ streams[s].scope # 0
        BY <1>12, <2>4
      <4>2. streams[s].scope \in 1 .. n
        BY <1>2, <4>1 DEF n
      <4> QED
        BY <2>4, <4>2 DEF GInv, OneUser
    <3> QED
      BY <1>8, <3>1 DEF n
  <2>5. ASSUME NEW x \in Calls', NEW y \in Calls', CallOf(x)'.kind = "query",
               CallOf(y)'.kind = "query", CallOf(x)'.scope = CallOf(y)'.scope
        PROVE  x = y
    <3>1. CASE x \in Calls /\ y \in Calls
      <4>1. CallOf(x)' = CallOf(x) /\ CallOf(y)' = CallOf(y)
        BY <1>11, <3>1
      <4> QED
        BY <2>5, <3>1, <4>1 DEF GInv, OneUser
    <3>2. CASE x = top
      BY <1>7, <1>10, <1>16, <2>1, <2>5, <3>2
    <3>3. CASE y = top
      BY <1>7, <1>10, <1>16, <2>1, <2>5, <3>3
    <3> QED
      BY <1>10, <3>1, <3>2, <3>3
  <2>6. \A s, t \in DOMAIN streams' :
          streams'[s].scope # 0 /\ streams'[s].scope = streams'[t].scope => s = t
    BY DEF GInv, OneUser
  <2>7. ASSUME NEW x \in Calls', NEW s \in DOMAIN streams', CallOf(x)'.kind = "query"
        PROVE  CallOf(x)'.scope # streams'[s].scope
    <3>1. CASE x \in Calls
      <4>1. CallOf(x)' = CallOf(x)
        BY <1>11, <3>1
      <4> QED
        BY <2>7, <3>1, <4>1 DEF GInv, OneUser
    <3>2. CASE x = top
      BY <1>7, <1>16, <2>2, <3>2
    <3> QED
      BY <1>10, <3>1, <3>2
  <2> QED
    BY <2>3, <2>4, <2>5, <2>6, <2>7 DEF OneUser
<1> QED
  BY <1>1, <1>2, <1>8, <1>9, <1>19, <1>24, <1>25, <1>26 DEF CInv, Nested, n, new

-----------------------------------------------------------------------------
(* Leaving *)

\* The innermost call ends: its scope is free for another query, and when the
\* call had the guard, its scope is over and the guard free.  The paths of those
\* who were started in it stay what they are.
LEMMA Leaving ==
  ASSUME GInv, NEW a \in Actors, frames[a] # <<>>, Leaves(a), UNCHANGED streams,
         \A b \in Actors : \/ base'[b] = base[b] /\ inherited'[b] = inherited[b]
                           \/ frames'[b] = <<>> /\ base'[b] = 0 /\ inherited'[b] = {}
  PROVE  /\ CInv'
         /\ token' \in [Guards -> Scopes \cup Streams \cup {None}]
         /\ scopes' \in Seq(Scope) /\ Len(scopes') = Len(scopes)
         /\ frames' \in [Actors -> Seq(Frame)]
         /\ Len(frames'[a]) = Len(frames[a]) - 1
         /\ \A b \in Actors : b # a => frames'[b] = frames[b]
<1>1. TypeOK /\ Len(frames[a]) <= MaxDepth /\ frames' = [frames EXCEPT ![a] = Front(@)]
  BY FramesAreBounded DEF GInv, Leaves
<1>2. PICK top : top = Top(a)
  OBVIOUS
<1>3. /\ top \in Calls /\ CallOf(top) = Last(frames[a])
      /\ \A x : x \in Calls' <=> x \in Calls /\ x # top
      /\ \A x \in Calls' : CallOf(x)' = CallOf(x)
      /\ \A y \in Calls : y[1] = a => y[2] <= top[2]
      /\ frames' \in [Actors -> Seq(Frame)]
      /\ Len(frames'[a]) = Len(frames[a]) - 1
      /\ \A b \in Actors : b # a => frames'[b] = frames[b]
  BY <1>1, <1>2, LeavingTakesACall
<1>4. PICK f : f = CallOf(top)
  OBVIOUS
<1> DEFINE n == Len(scopes)
           k == f.scope
           r == [scopes[k] EXCEPT !.active = @ /\ ~f.owns, !.querying = @ /\ ~(f.kind = "query")]
<1>5. f = Last(frames[a]) /\ f \in Frame /\ k \in 1 .. n /\ k \in Scopes /\ f.guard \in Guards
  <2>1. f = Last(frames[a]) /\ f \in Frame
    BY <1>1, <1>3, <1>4, CallsAreFrames
  <2>2. k \in 1 .. n
    BY <1>3, <1>4 DEF GInv, Known
  <2> QED
    BY <2>1, <2>2 DEF Frame
<1>6. /\ token' = IF f.owns THEN [token EXCEPT ![f.guard] = None] ELSE token
      /\ scopes' = [scopes EXCEPT ![k] = r]
  <2>1. /\ Ends(f.scope, f.owns, f.kind = "query")
        /\ token' = IF f.owns THEN [token EXCEPT ![f.guard] = None] ELSE token
    <3>1. f = Last(frames[a])
      BY <1>5
    <3> HIDE DEF k, r, n
    <3> QED
      BY <3>1 DEF Leaves
  <2>2. scopes' = [scopes EXCEPT ![k] = r]
    BY <2>1 DEF Ends
  <2> QED
    BY <2>1, <2>2
<1>7. Nested(scopes) /\ n \in Nat /\ \A j \in 1 .. n : scopes[j] \in Scope
  BY DEF GInv, Nested
<1>8. /\ r \in Scope /\ r.parent = scopes[k].parent
      /\ r.active <=> scopes[k].active /\ ~f.owns
      /\ r.querying <=> scopes[k].querying /\ f.kind # "query"
  <2>1. scopes[k] \in Scope
    BY <1>5, <1>7
  <2> QED
    BY <2>1 DEF Scope
<1> HIDE DEF r
<1>9. /\ Nested(scopes') /\ Len(scopes') = n
      /\ scopes'[k] = r
      /\ \A j \in 1 .. n : j # k => scopes'[j] = scopes[j]
      /\ \A j \in 0 .. n : PathIn(scopes')[j] = PathIn(scopes)[j]
  BY <1>5, <1>6, <1>7, <1>8, MarkingAScope
<1>10. /\ \A b \in Actors : base[b] \in 0 .. n /\ inherited[b] \subseteq 1 .. n
       /\ \A x \in Calls : CallOf(x).scope \in 1 .. n
       /\ \A s \in DOMAIN streams : streams[s].scope \in 0 .. n
  BY DEF GInv, Known
<1>11. /\ token \in [Guards -> Scopes \cup Streams \cup {None}]
       /\ None \notin Scopes /\ None \notin Streams /\ Scopes \cap Streams = {}
  <2>1. token \in [Guards -> Scopes \cup Streams \cup {None}]
    BY DEF GInv, TypeOK
  <2>2. Scopes \subseteq 0 .. MaxScopes
    BY OperationGuardAssumption DEF Scopes
  <2> QED
    BY <2>1, <2>2, OperationGuardAssumption
<1>12. /\ token' \in [Guards -> Scopes \cup Streams \cup {None}]
       /\ f.owns => token'[f.guard] = None
       /\ \A g \in Guards : ~(f.owns /\ g = f.guard) => token'[g] = token[g]
  BY <1>5, <1>6, <1>11
<1>13. \A x \in Calls' : x \in Calls /\ x # top /\ CallOf(x)' = CallOf(x)
  BY <1>3
<1>14. /\ 0 \in 0 .. n /\ 1 .. n \subseteq 0 .. n
  BY <1>7
<1>15. f.owns => token[f.guard] = k
  BY <1>3, <1>4 DEF GInv, Held
<1> HIDE DEF n, k
<1>16. Known'
  <2>1. \A b \in Actors : base'[b] \in 0 .. n /\ inherited'[b] \subseteq 1 .. n
    BY <1>10, <1>14
  <2>2. \A x \in Calls' : CallOf(x)'.scope \in 1 .. n
    BY <1>10, <1>13
  <2>3. \A s \in DOMAIN streams' : streams'[s].scope \in 0 .. n
    BY <1>10
  <2> QED
    BY <1>9, <2>1, <2>2, <2>3 DEF Known
<1>17. \A x \in Calls' : Around(x)' = Around(x)
  <2> SUFFICES ASSUME NEW x \in Calls' PROVE Around(x)' = Around(x)
    OBVIOUS
  <2>0. x \in Calls /\ x # top
    BY <1>13
  <2>1. ASSUME NEW y \in Calls, y[1] = x[1], y[2] <= x[2] PROVE y \in Calls'
    <3> SUFFICES ASSUME y = top PROVE FALSE
      BY <1>3
    <3>1. x = <<x[1], x[2]>> /\ y = <<y[1], y[2]>> /\ y[1] = a /\ x[2] \in Nat /\ y[2] \in Nat
      <4>1. /\ x = <<x[1], x[2]>> /\ y = <<y[1], y[2]>> /\ x[1] \in Actors /\ y[1] \in Actors
            /\ x[2] \in 1 .. Len(frames[x[1]]) /\ y[2] \in 1 .. Len(frames[y[1]])
        BY <1>1, <2>0, CallsAreFrames
      <4>2. Len(frames[x[1]]) \in Nat /\ Len(frames[y[1]]) \in Nat
        BY <1>1, <4>1, CallsAreFrames
      <4>3. top[1] = a
        BY <1>2 DEF Top
      <4> QED
        BY <4>1, <4>2, <4>3
    <3>2. x[2] <= y[2]
      BY <1>3, <2>0, <2>1, <3>1
    <3>3. x = y
      BY <2>1, <3>1, <3>2
    <3> QED
      BY <2>0, <3>3
  <2>2. \A y \in Calls' : y \in Calls /\ CallOf(y)' = CallOf(y)
    BY <1>13
  <2> QED
    BY <2>0, <2>1, <2>2, AroundStays
<1>18. StoresTell'
  <2>1. ASSUME NEW j \in 1 .. n, scopes'[j].active PROVE scopes[j].active
    BY <1>8, <1>9, <2>1
  <2>2. ASSUME NEW j \in 1 .. n, scopes'[j].active, NEW b \in Actors
        PROVE  j \in PathIn(scopes')[base'[b]] <=> j \in inherited'[b]
    <3>1. CASE base'[b] = base[b] /\ inherited'[b] = inherited[b]
      <4>1. j \in PathIn(scopes)[base[b]] <=> j \in inherited[b]
        BY <2>1, <2>2 DEF GInv, StoresTell, n
      <4> QED
        BY <1>9, <1>10, <3>1, <4>1
    <3>2. CASE base'[b] = 0 /\ inherited'[b] = {}
      <4>1. PathIn(scopes')[0] = {}
        BY <1>9, PathLeadsUp
      <4> QED
        BY <3>2, <4>1
    <3> QED
      BY <3>1, <3>2
  <2>3. ASSUME NEW j \in 1 .. n, scopes'[j].active, NEW x \in Calls', CallOf(x)'.owns
        PROVE  j \in PathIn(scopes')[CallOf(x)'.scope] <=> j \in inherited'[x[1]] \cup Around(x)'
    <3>1. x \in Calls /\ CallOf(x)' = CallOf(x) /\ CallOf(x).owns
      BY <1>13, <2>3
    <3>2. inherited'[x[1]] = inherited[x[1]]
      <4>1. x \in Actors \X (1 .. MaxDepth) /\ x[2] <= Len(frames'[x[1]])
        BY <2>3 DEF Calls
      <4>2. x[1] \in Actors /\ x[2] \in 1 .. MaxDepth
        BY <4>1
      <4>3. frames'[x[1]] # <<>>
        <5> SUFFICES ASSUME frames'[x[1]] = <<>> PROVE FALSE
          OBVIOUS
        <5>1. Len(frames'[x[1]]) = 0
          OBVIOUS
        <5> QED
          BY <4>1, <4>2, <5>1, OperationGuardAssumption
      <4> QED
        BY <4>2, <4>3
    <3>3. j \in PathIn(scopes)[CallOf(x).scope] <=> j \in inherited[x[1]] \cup Around(x)
      BY <2>1, <2>3, <3>1 DEF GInv, StoresTell, n
    <3>4. CallOf(x).scope \in 0 .. n
      BY <1>10, <1>14, <3>1
    <3>5. Around(x)' = Around(x)
      BY <1>17
    <3> QED
      BY <1>9, <3>1, <3>2, <3>3, <3>4, <3>5
  <2> QED
    BY <1>9, <2>2, <2>3 DEF StoresTell
<1>19. Held'
  <2>1. ASSUME NEW g \in Guards, token'[g] \in Scopes
        PROVE  /\ token'[g] \in 1 .. n /\ scopes'[token'[g]].active
               /\ \E x \in Calls' : CallOf(x)'.owns /\ CallOf(x)'.guard = g /\ CallOf(x)'.scope = token'[g]
    <3>1. ~(f.owns /\ g = f.guard) /\ token'[g] = token[g]
      BY <1>11, <1>12, <2>1
    <3>2. token[g] \in 1 .. n /\ scopes[token[g]].active
      BY <2>1, <3>1 DEF GInv, Held, n
    <3>3. PICK x \in Calls : CallOf(x).owns /\ CallOf(x).guard = g /\ CallOf(x).scope = token[g]
      BY <2>1, <3>1 DEF GInv, Held
    <3>4. x # top
      BY <1>4, <3>1, <3>3
    <3>5. x \in Calls' /\ CallOf(x)' = CallOf(x)
      BY <1>3, <3>4
    <3>6. scopes'[token[g]].active
      <4>1. CASE token[g] = k /\ f.owns
        <5>1. CallOf(x).owns /\ CallOf(top).owns /\ CallOf(x).scope = CallOf(top).scope
          BY <1>4, <3>3, <4>1 DEF k
        <5>2. x = top
          BY <1>3, <5>1 DEF GInv, Held
        <5> QED
          BY <3>4, <5>2
      <4>2. CASE token[g] = k /\ ~f.owns
        BY <1>8, <1>9, <3>2, <4>2
      <4>3. CASE token[g] # k
        BY <1>9, <3>2, <4>3
      <4> QED
        BY <4>1, <4>2, <4>3
    <3> QED
      BY <3>1, <3>2, <3>3, <3>5, <3>6
  <2>2. \A g \in Guards : token'[g] \in Streams =>
          token'[g] \in DOMAIN streams' /\ streams'[token'[g]] = [guard |-> g, scope |-> 0]
    BY <1>11, <1>12 DEF GInv, Held
  <2>3. ASSUME NEW x \in Calls', CallOf(x)'.owns
        PROVE  token'[CallOf(x)'.guard] = CallOf(x)'.scope
    <3>1. x \in Calls /\ x # top /\ CallOf(x)' = CallOf(x) /\ CallOf(x).owns
      BY <1>13, <2>3
    <3>2. token[CallOf(x).guard] = CallOf(x).scope /\ CallOf(x).guard \in Guards
      BY <1>1, <3>1, CallsAreFrames DEF GInv, Held, Frame
    <3>3. ~(f.owns /\ CallOf(x).guard = f.guard)
      <4> SUFFICES ASSUME f.owns, CallOf(x).guard = f.guard PROVE FALSE
        OBVIOUS
      <4>1. CallOf(x).scope = CallOf(top).scope /\ CallOf(top).owns
        BY <1>4, <1>15, <3>2 DEF k
      <4>2. x = top
        BY <1>3, <3>1, <4>1 DEF GInv, Held
      <4> QED
        BY <3>1, <4>2
    <3> QED
      BY <1>12, <3>1, <3>2, <3>3
  <2>4. ASSUME NEW s \in DOMAIN streams', streams'[s].scope = 0
        PROVE  token'[streams'[s].guard] = s
    <3>1. s \in DOMAIN streams /\ streams[s].scope = 0 /\ streams'[s].guard = streams[s].guard
      BY <2>4
    <3>2. token[streams[s].guard] = s
      BY <3>1 DEF GInv, Held
    <3>3. s \in Streams /\ streams[s].guard \in Guards
      BY <3>1 DEF GInv, TypeOK, Stream
    <3>4. ~(f.owns /\ streams[s].guard = f.guard)
      BY <1>5, <1>11, <1>15, <3>2, <3>3
    <3> QED
      BY <1>12, <3>1, <3>2, <3>3, <3>4
  <2>5. \A x, y \in Calls' :
          CallOf(x)'.owns /\ CallOf(y)'.owns /\ CallOf(x)'.scope = CallOf(y)'.scope => x = y
    BY <1>13 DEF GInv, Held
  <2> QED
    BY <1>9, <2>1, <2>2, <2>3, <2>4, <2>5 DEF Held
<1>20. OneUser'
  <2>1. ASSUME NEW x \in Calls', CallOf(x)'.kind = "query"
        PROVE  scopes'[CallOf(x)'.scope].querying
    <3>1. x \in Calls /\ x # top /\ CallOf(x)' = CallOf(x) /\ CallOf(x).kind = "query"
      BY <1>13, <2>1
    <3>2. CallOf(x).scope \in 1 .. n /\ scopes[CallOf(x).scope].querying
      BY <1>10, <3>1 DEF GInv, OneUser
    <3>3. CASE CallOf(x).scope = k /\ f.kind = "query"
      <4>1. x = top
        BY <1>3, <1>4, <3>1, <3>3 DEF GInv, OneUser, k
      <4> QED
        BY <3>1, <4>1
    <3>4. CASE CallOf(x).scope = k /\ f.kind # "query"
      BY <1>8, <1>9, <3>1, <3>2, <3>4
    <3>5. CASE CallOf(x).scope # k
      BY <1>9, <3>1, <3>2, <3>5
    <3> QED
      BY <3>3, <3>4, <3>5
  <2>2. ASSUME NEW s \in DOMAIN streams', streams'[s].scope # 0
        PROVE  scopes'[streams'[s].scope].querying
    <3>1. s \in DOMAIN streams /\ streams'[s] = streams[s] /\ streams[s].scope # 0
      BY <2>2
    <3>2. streams[s].scope \in 1 .. n /\ scopes[streams[s].scope].querying
      <4>1. streams[s].scope \in 0 .. n /\ scopes[streams[s].scope].querying
        BY <1>10, <3>1 DEF GInv, OneUser
      <4> QED
        BY <1>7, <3>1, <4>1 DEF n
    <3>3. ~(streams[s].scope = k /\ f.kind = "query")
      BY <1>3, <1>4, <3>1 DEF GInv, OneUser, k
    <3>4. CASE streams[s].scope = k
      BY <1>8, <1>9, <3>1, <3>2, <3>3, <3>4
    <3>5. CASE streams[s].scope # k
      BY <1>9, <3>1, <3>2, <3>5
    <3> QED
      BY <3>4, <3>5
  <2>3. \A x, y \in Calls' :
          /\ CallOf(x)'.kind = "query" /\ CallOf(y)'.kind = "query"
          /\ CallOf(x)'.scope = CallOf(y)'.scope
          => x = y
    BY <1>13 DEF GInv, OneUser
  <2>4. \A s, t \in DOMAIN streams' :
          streams'[s].scope # 0 /\ streams'[s].scope = streams'[t].scope => s = t
    BY DEF GInv, OneUser
  <2>5. \A x \in Calls', s \in DOMAIN streams' :
          CallOf(x)'.kind = "query" => CallOf(x)'.scope # streams'[s].scope
    BY <1>13 DEF GInv, OneUser
  <2> QED
    BY <2>1, <2>2, <2>3, <2>4, <2>5 DEF OneUser
<1> QED
  BY <1>3, <1>9, <1>12, <1>16, <1>18, <1>19, <1>20 DEF CInv, Nested, n

-----------------------------------------------------------------------------
(* Streams, and stores that are handed on *)

\* The calls are what the frames say.
LEMMA SameCalls ==
  ASSUME UNCHANGED frames
  PROVE  Calls' = Calls /\ \A x : CallOf(x)' = CallOf(x)
BY DEF Calls, CallOf

\* Of the scopes there are only the querying of some changes.
LEMMA StoresStillTell ==
  ASSUME GInv, UNCHANGED <<frames, base, inherited>>, Len(scopes') = Len(scopes),
         \A j \in 1 .. Len(scopes) : scopes'[j].active = scopes[j].active,
         \A j \in 0 .. Len(scopes) : PathIn(scopes')[j] = PathIn(scopes)[j]
  PROVE  StoresTell'
<1>1. Calls' = Calls /\ \A x : CallOf(x)' = CallOf(x)
  BY SameCalls
<1>2. /\ \A b \in Actors : base[b] \in 0 .. Len(scopes)
      /\ \A x \in Calls : CallOf(x).scope \in 0 .. Len(scopes)
  <2>1. Len(scopes) \in Nat
    BY DEF GInv, Nested
  <2>2. 1 .. Len(scopes) \subseteq 0 .. Len(scopes)
    BY <2>1
  <2> QED
    BY <2>2 DEF GInv, Known
<1>3. \A x \in Calls : Around(x)' = Around(x)
  BY <1>1, AroundStays
<1>4. ASSUME NEW j \in 1 .. Len(scopes), scopes[j].active, NEW b \in Actors
      PROVE  j \in PathIn(scopes')[base[b]] <=> j \in inherited[b]
  BY <1>2, <1>4 DEF GInv, StoresTell
<1>5. ASSUME NEW j \in 1 .. Len(scopes), scopes[j].active, NEW x \in Calls, CallOf(x).owns
      PROVE  j \in PathIn(scopes')[CallOf(x).scope] <=> j \in inherited[x[1]] \cup Around(x)'
  BY <1>2, <1>3, <1>5 DEF GInv, StoresTell
<1>6. base' = base /\ inherited' = inherited
  OBVIOUS
<1> QED
  BY <1>1, <1>4, <1>5, <1>6 DEF StoresTell

\* A stream takes a guard that is free, or borrows the connection of the
\* operation that its reader is part of.
LEMMA OpeningAStream ==
  ASSUME GInv, NEW c \in Chains, NEW s \in Streams, NEW g \in Guards, OpenStream(c, s, g)
  PROVE  /\ CInv'
         /\ token' \in [Guards -> Scopes \cup Streams \cup {None}]
         /\ scopes' \in Seq(Scope) /\ Len(scopes') = Len(scopes)
         /\ DOMAIN streams' = DOMAIN streams \cup {s}
         /\ \A t \in DOMAIN streams' : streams'[t] \in Stream
<1> DEFINE n == Len(scopes)
           k == token[g]
<1>1. /\ s \notin DOMAIN streams /\ UNCHANGED <<base, inherited, frames>> /\ c \in Actors
      /\ \A t \in DOMAIN streams : streams[t] \in Stream
  BY DEF OpenStream, storeVars, GInv, TypeOK, Actors
<1>2. Calls' = Calls /\ \A x : CallOf(x)' = CallOf(x)
  BY <1>1, SameCalls
<1>3. Nested(scopes) /\ n \in Nat /\ n <= MaxScopes /\ MaxScopes \in Nat
      /\ \A j \in 1 .. n : scopes[j] \in Scope
  BY OperationGuardAssumption DEF GInv, Nested, TypeOK
<1>4. /\ token \in [Guards -> Scopes \cup Streams \cup {None}]
      /\ None \notin Scopes /\ None \notin Streams /\ Scopes \cap Streams = {} /\ 0 \notin Streams
  <2>1. token \in [Guards -> Scopes \cup Streams \cup {None}]
    BY DEF GInv, TypeOK
  <2>2. Scopes \subseteq 0 .. MaxScopes /\ 0 \in 0 .. MaxScopes
    BY <1>3 DEF Scopes
  <2> QED
    BY <2>1, <2>2, OperationGuardAssumption
<1>5. /\ \A b \in Actors : base[b] \in 0 .. n /\ inherited[b] \subseteq 1 .. n
      /\ \A x \in Calls : CallOf(x).scope \in 1 .. n
      /\ \A t \in DOMAIN streams : streams[t].scope \in 0 .. n
  BY DEF GInv, Known
<1>6. CASE /\ Joins(c, g) /\ NoQuery(k)
           /\ scopes' = Querying(k, TRUE)
           /\ Opened(s, g, k)
           /\ token' = token
  <2> DEFINE r == [scopes[k] EXCEPT !.querying = TRUE]
  <2>1. k \in 1 .. n /\ k \in Scopes
    BY <1>1, <1>6, JoiningIsBeingUnder
  <2>2. k # 0 /\ ~scopes[k].querying
    BY <1>3, <1>6, <2>1 DEF NoQuery
  <2>3. r \in Scope /\ r.parent = scopes[k].parent /\ r.active = scopes[k].active /\ r.querying
    BY <1>3, <2>1 DEF Scope
  <2>4. scopes' = [scopes EXCEPT ![k] = r]
    BY <1>6 DEF Querying
  <2>5. /\ DOMAIN streams' = DOMAIN streams \cup {s}
        /\ streams'[s] = [guard |-> g, scope |-> k]
        /\ \A t \in DOMAIN streams : streams'[t] = streams[t]
    BY <1>1, <1>6 DEF Opened
  <2>6. [guard |-> g, scope |-> k].scope = k /\ [guard |-> g, scope |-> k] \in Stream
    <3>1. k \in 0 .. MaxScopes
      BY <1>3, <2>1
    <3> QED
      BY <3>1 DEF Stream
  <2> HIDE DEF r, k
  <2>7. /\ Nested(scopes') /\ Len(scopes') = n
        /\ scopes'[k] = r
        /\ \A j \in 1 .. n : j # k => scopes'[j] = scopes[j]
        /\ \A j \in 0 .. n : PathIn(scopes')[j] = PathIn(scopes)[j]
    BY <1>3, <2>1, <2>3, <2>4, MarkingAScope
  <2>8. /\ \A j \in 1 .. n : scopes'[j].active = scopes[j].active
        /\ \A j \in 1 .. n : scopes[j].querying => scopes'[j].querying
        /\ scopes'[k].querying
    BY <2>3, <2>7
  <2>9. StoresTell'
    BY <1>1, <2>7, <2>8, StoresStillTell
  <2> HIDE DEF n
  <2>10. 1 .. n \subseteq 0 .. n
    BY <1>3
  <2>11. Known'
    <3>1. \A t \in DOMAIN streams' : streams'[t].scope \in 0 .. n
      BY <1>5, <2>1, <2>5, <2>6, <2>10
    <3> QED
      BY <1>1, <1>2, <1>5, <2>7, <3>1 DEF Known
  <2>12. Held'
    <3>1. \A h \in Guards : token[h] \in Scopes =>
            /\ token[h] \in 1 .. n /\ scopes'[token[h]].active
            /\ \E x \in Calls : CallOf(x).owns /\ CallOf(x).guard = h /\ CallOf(x).scope = token[h]
      BY <2>8 DEF GInv, Held, n
    <3>2. \A h \in Guards : token[h] \in Streams =>
            token[h] \in DOMAIN streams' /\ streams'[token[h]] = [guard |-> h, scope |-> 0]
      BY <2>5 DEF GInv, Held
    <3>3. \A t \in DOMAIN streams' : streams'[t].scope = 0 => token[streams'[t].guard] = t
      BY <2>2, <2>5, <2>6 DEF GInv, Held
    <3>4. /\ \A x \in Calls : CallOf(x).owns => token[CallOf(x).guard] = CallOf(x).scope
          /\ \A x, y \in Calls :
               CallOf(x).owns /\ CallOf(y).owns /\ CallOf(x).scope = CallOf(y).scope => x = y
      BY DEF GInv, Held
    <3>5. token' = token /\ Len(scopes') = n
      BY <1>6, <2>7
    <3> QED
      BY <1>2, <3>1, <3>2, <3>3, <3>4, <3>5 DEF Held
  <2>13. OneUser'
    <3>1. \A x \in Calls : CallOf(x).kind = "query" => scopes'[CallOf(x).scope].querying
      BY <1>5, <2>8 DEF GInv, OneUser
    <3>2. \A t \in DOMAIN streams : streams[t].scope # 0 =>
            streams[t].scope \in 1 .. n /\ scopes[streams[t].scope].querying
      <4>1. \A t \in DOMAIN streams : streams[t].scope # 0 => streams[t].scope \in 1 .. n
        BY <1>3, <1>5
      <4> QED
        BY <4>1 DEF GInv, OneUser
    <3>3. \A t \in DOMAIN streams' : streams'[t].scope # 0 => scopes'[streams'[t].scope].querying
      BY <2>5, <2>6, <2>8, <3>2
    <3>4. \A t \in DOMAIN streams : streams[t].scope # k
      BY <2>2, <3>2
    <3>5. \A t, u \in DOMAIN streams' :
            streams'[t].scope # 0 /\ streams'[t].scope = streams'[u].scope => t = u
      BY <2>5, <2>6, <3>4 DEF GInv, OneUser
    <3>6. \A x \in Calls : CallOf(x).kind = "query" => CallOf(x).scope # k
      BY <2>2 DEF GInv, OneUser
    <3>7. \A x \in Calls, t \in DOMAIN streams' :
            CallOf(x).kind = "query" => CallOf(x).scope # streams'[t].scope
      BY <2>5, <2>6, <3>6 DEF GInv, OneUser
    <3>8. \A x, y \in Calls :
            /\ CallOf(x).kind = "query" /\ CallOf(y).kind = "query"
            /\ CallOf(x).scope = CallOf(y).scope
            => x = y
      BY DEF GInv, OneUser
    <3> QED
      BY <1>2, <3>1, <3>3, <3>5, <3>7, <3>8 DEF OneUser
  <2>14. \A t \in DOMAIN streams' : streams'[t] \in Stream
    BY <1>1, <2>5, <2>6
  <2> QED
    BY <1>4, <1>6, <2>5, <2>7, <2>9, <2>11, <2>12, <2>13, <2>14 DEF CInv, Nested, n
<1>7. CASE token[g] = None /\ token' = [token EXCEPT ![g] = s] /\ Opened(s, g, 0) /\ scopes' = scopes
  <2>1. token'[g] = s /\ \A h \in Guards : h # g => token'[h] = token[h]
    BY <1>4, <1>7
  <2>2. token' \in [Guards -> Scopes \cup Streams \cup {None}]
    BY <1>4, <1>7
  <2>3. /\ DOMAIN streams' = DOMAIN streams \cup {s}
        /\ streams'[s] = [guard |-> g, scope |-> 0]
        /\ \A t \in DOMAIN streams : streams'[t] = streams[t]
    BY <1>1, <1>7 DEF Opened
  <2>4. /\ [guard |-> g, scope |-> 0].scope = 0 /\ [guard |-> g, scope |-> 0].guard = g
        /\ [guard |-> g, scope |-> 0] \in Stream
    <3>1. 0 \in 0 .. MaxScopes
      BY <1>3
    <3> QED
      BY <3>1 DEF Stream
  <2>5. 0 \in 0 .. n /\ 0 \notin 1 .. n
    BY <1>3
  <2> HIDE DEF n
  <2>6. Known'
    <3>1. \A t \in DOMAIN streams' : streams'[t].scope \in 0 .. n
      BY <1>5, <2>3, <2>4, <2>5
    <3> QED
      BY <1>1, <1>2, <1>5, <1>7, <3>1 DEF Known, n
  <2>7. StoresTell'
    BY <1>1, <1>7, StoresStillTell
  <2>8. Held'
    <3>1. \A h \in Guards : token'[h] \in Scopes =>
            /\ token'[h] \in 1 .. n /\ scopes[token'[h]].active
            /\ \E x \in Calls : CallOf(x).owns /\ CallOf(x).guard = h /\ CallOf(x).scope = token'[h]
      BY <1>4, <2>1 DEF GInv, Held, n
    <3>2. \A h \in Guards : token'[h] \in Streams =>
            token'[h] \in DOMAIN streams' /\ streams'[token'[h]] = [guard |-> h, scope |-> 0]
      <4> SUFFICES ASSUME NEW h \in Guards, token'[h] \in Streams
                   PROVE  token'[h] \in DOMAIN streams' /\ streams'[token'[h]] = [guard |-> h, scope |-> 0]
        OBVIOUS
      <4>1. CASE h = g
        BY <2>1, <2>3, <4>1
      <4>2. CASE h # g
        BY <2>1, <2>3, <4>2 DEF GInv, Held
      <4> QED
        BY <4>1, <4>2
    <3>3. ASSUME NEW x \in Calls, CallOf(x).owns
          PROVE  token'[CallOf(x).guard] = CallOf(x).scope
      <4>1. token[CallOf(x).guard] = CallOf(x).scope
        BY <3>3 DEF GInv, Held
      <4>2. CallOf(x).scope \in Scopes /\ CallOf(x).guard \in Guards
        BY CallsAreFrames DEF GInv, Frame
      <4>3. CallOf(x).guard # g
        BY <1>4, <1>7, <4>1, <4>2
      <4> QED
        BY <2>1, <4>1, <4>2, <4>3
    <3>4. ASSUME NEW t \in DOMAIN streams', streams'[t].scope = 0
          PROVE  token'[streams'[t].guard] = t
      <4>1. CASE t = s
        BY <2>1, <2>3, <2>4, <4>1
      <4>2. CASE t # s
        <5>1. t \in DOMAIN streams /\ streams'[t] = streams[t] /\ streams[t].scope = 0
          BY <2>3, <3>4, <4>2
        <5>2. token[streams[t].guard] = t /\ t \in Streams /\ streams[t].guard \in Guards
          BY <1>1, <5>1 DEF GInv, Held, TypeOK, Stream
        <5>3. streams[t].guard # g
          BY <1>4, <1>7, <5>2
        <5> QED
          BY <2>1, <5>1, <5>2, <5>3
      <4> QED
        BY <4>1, <4>2
    <3>5. \A x, y \in Calls :
            CallOf(x).owns /\ CallOf(y).owns /\ CallOf(x).scope = CallOf(y).scope => x = y
      BY DEF GInv, Held
    <3> QED
      BY <1>2, <1>7, <3>1, <3>2, <3>3, <3>4, <3>5 DEF Held, n
  <2>9. OneUser'
    <3>1. \A t \in DOMAIN streams' : streams'[t].scope # 0 =>
            t \in DOMAIN streams /\ streams'[t] = streams[t]
      BY <2>3, <2>4
    <3>2. \A t, u \in DOMAIN streams' :
            streams'[t].scope # 0 /\ streams'[t].scope = streams'[u].scope => t = u
      BY <3>1 DEF GInv, OneUser
    <3>3. ASSUME NEW x \in Calls, NEW t \in DOMAIN streams', CallOf(x).kind = "query"
          PROVE  CallOf(x).scope # streams'[t].scope
      <4>1. CASE t = s
        BY <1>5, <2>3, <2>4, <2>5, <4>1
      <4>2. CASE t # s
        BY <2>3, <3>3, <4>2 DEF GInv, OneUser
      <4> QED
        BY <4>1, <4>2
    <3>4. \A t \in DOMAIN streams' : streams'[t].scope # 0 => scopes[streams'[t].scope].querying
      BY <3>1 DEF GInv, OneUser
    <3>5. /\ \A x \in Calls : CallOf(x).kind = "query" => scopes[CallOf(x).scope].querying
          /\ \A x, y \in Calls :
               /\ CallOf(x).kind = "query" /\ CallOf(y).kind = "query"
               /\ CallOf(x).scope = CallOf(y).scope
               => x = y
      BY DEF GInv, OneUser
    <3> QED
      BY <1>2, <1>7, <3>2, <3>3, <3>4, <3>5 DEF OneUser
  <2>10. \A t \in DOMAIN streams' : streams'[t] \in Stream
    BY <1>1, <2>3, <2>4
  <2>11. Nested(scopes')
    BY <1>3, <1>7
  <2> QED
    BY <1>7, <2>2, <2>3, <2>6, <2>7, <2>8, <2>9, <2>10, <2>11 DEF CInv, Nested, n
<1> QED
  BY <1>6, <1>7 DEF OpenStream

\* A stream that ends gives back the guard, or the connection of the scope it
\* has borrowed, which may be over.
LEMMA ClosingAStream ==
  ASSUME GInv, NEW s \in Streams, CloseStream(s)
  PROVE  /\ CInv'
         /\ token' \in [Guards -> Scopes \cup Streams \cup {None}]
         /\ scopes' \in Seq(Scope) /\ Len(scopes') = Len(scopes)
         /\ DOMAIN streams' = DOMAIN streams \ {s}
         /\ \A t \in DOMAIN streams' : streams'[t] \in Stream
<1> DEFINE n == Len(scopes)
           k == streams[s].scope
           g == streams[s].guard
<1>1. /\ s \in DOMAIN streams /\ UNCHANGED <<base, inherited, frames>>
      /\ \A t \in DOMAIN streams : streams[t] \in Stream
  BY DEF CloseStream, storeVars, GInv, TypeOK
<1>2. Calls' = Calls /\ \A x : CallOf(x)' = CallOf(x)
  BY <1>1, SameCalls
<1>3. /\ DOMAIN streams' = DOMAIN streams \ {s}
      /\ \A t \in DOMAIN streams' : t \in DOMAIN streams /\ t # s /\ streams'[t] = streams[t]
  BY DEF CloseStream
<1>4. /\ Nested(scopes) /\ n \in Nat /\ g \in Guards
      /\ \A j \in 1 .. n : scopes[j] \in Scope
  BY <1>1 DEF GInv, Nested, Stream
<1>5. /\ token \in [Guards -> Scopes \cup Streams \cup {None}]
      /\ None \notin Scopes /\ None \notin Streams /\ Scopes \cap Streams = {}
  <2>1. token \in [Guards -> Scopes \cup Streams \cup {None}]
    BY DEF GInv, TypeOK
  <2>2. Scopes \subseteq 0 .. MaxScopes
    BY OperationGuardAssumption DEF Scopes
  <2> QED
    BY <2>1, <2>2, OperationGuardAssumption
<1>6. /\ \A b \in Actors : base[b] \in 0 .. n /\ inherited[b] \subseteq 1 .. n
      /\ \A x \in Calls : CallOf(x).scope \in 1 .. n
      /\ \A t \in DOMAIN streams : streams[t].scope \in 0 .. n
  BY DEF GInv, Known
<1>7. CASE k = 0
  <2>1. token' = [token EXCEPT ![g] = None] /\ scopes' = scopes
    BY <1>7 DEF CloseStream
  <2>2. /\ token' \in [Guards -> Scopes \cup Streams \cup {None}]
        /\ token'[g] = None /\ \A h \in Guards : h # g => token'[h] = token[h]
    BY <1>4, <1>5, <2>1
  <2>3. token[g] = s
    BY <1>1, <1>7 DEF GInv, Held
  <2> HIDE DEF n, k, g
  <2>4. Known'
    BY <1>1, <1>2, <1>3, <1>6, <2>1 DEF Known, n
  <2>5. StoresTell'
    BY <1>1, <2>1, StoresStillTell
  <2>6. Held'
    <3>1. \A h \in Guards : token'[h] \in Scopes =>
            /\ token'[h] \in 1 .. n /\ scopes[token'[h]].active
            /\ \E x \in Calls : CallOf(x).owns /\ CallOf(x).guard = h /\ CallOf(x).scope = token'[h]
      BY <1>5, <2>2 DEF GInv, Held, n
    <3>2. ASSUME NEW h \in Guards, token'[h] \in Streams
          PROVE  token'[h] \in DOMAIN streams' /\ streams'[token'[h]] = [guard |-> h, scope |-> 0]
      <4>1. h # g /\ token'[h] = token[h]
        BY <1>5, <2>2, <3>2
      <4>2. token[h] \in DOMAIN streams /\ streams[token[h]] = [guard |-> h, scope |-> 0]
        BY <3>2, <4>1 DEF GInv, Held
      <4>3. token[h] # s
        BY <4>1, <4>2 DEF g
      <4> QED
        BY <1>3, <4>1, <4>2, <4>3
    <3>3. ASSUME NEW x \in Calls, CallOf(x).owns
          PROVE  token'[CallOf(x).guard] = CallOf(x).scope
      <4>1. token[CallOf(x).guard] = CallOf(x).scope
        BY <3>3 DEF GInv, Held
      <4>2. CallOf(x).scope \in Scopes /\ CallOf(x).guard \in Guards
        BY CallsAreFrames DEF GInv, Frame
      <4>3. CallOf(x).guard # g
        BY <1>5, <2>3, <4>1, <4>2
      <4> QED
        BY <2>2, <4>1, <4>2, <4>3
    <3>4. ASSUME NEW t \in DOMAIN streams', streams'[t].scope = 0
          PROVE  token'[streams'[t].guard] = t
      <4>1. t \in DOMAIN streams /\ t # s /\ streams'[t] = streams[t] /\ streams[t].scope = 0
        BY <1>3, <3>4
      <4>2. token[streams[t].guard] = t /\ streams[t].guard \in Guards
        BY <1>1, <4>1 DEF GInv, Held, Stream
      <4>3. streams[t].guard # g
        BY <2>3, <4>1, <4>2
      <4> QED
        BY <2>2, <4>1, <4>2, <4>3
    <3>5. \A x, y \in Calls :
            CallOf(x).owns /\ CallOf(y).owns /\ CallOf(x).scope = CallOf(y).scope => x = y
      BY DEF GInv, Held
    <3> QED
      BY <1>2, <2>1, <3>1, <3>2, <3>3, <3>4, <3>5 DEF Held, n
  <2>7. OneUser'
    <3>1. /\ \A x \in Calls : CallOf(x).kind = "query" => scopes[CallOf(x).scope].querying
          /\ \A x, y \in Calls :
               /\ CallOf(x).kind = "query" /\ CallOf(y).kind = "query"
               /\ CallOf(x).scope = CallOf(y).scope
               => x = y
      BY DEF GInv, OneUser
    <3>2. \A t \in DOMAIN streams' : streams'[t].scope # 0 => scopes[streams'[t].scope].querying
      BY <1>3 DEF GInv, OneUser
    <3>3. \A t, u \in DOMAIN streams' :
            streams'[t].scope # 0 /\ streams'[t].scope = streams'[u].scope => t = u
      BY <1>3 DEF GInv, OneUser
    <3>4. \A x \in Calls, t \in DOMAIN streams' :
            CallOf(x).kind = "query" => CallOf(x).scope # streams'[t].scope
      BY <1>3 DEF GInv, OneUser
    <3> QED
      BY <1>2, <2>1, <3>1, <3>2, <3>3, <3>4 DEF OneUser
  <2> QED
    BY <1>1, <1>3, <1>4, <2>1, <2>2, <2>4, <2>5, <2>6, <2>7 DEF CInv, Nested, n
<1>8. CASE k # 0
  <2> DEFINE r == [scopes[k] EXCEPT !.querying = FALSE]
  <2>1. token' = token /\ scopes' = [scopes EXCEPT ![k] = r]
    BY <1>8 DEF CloseStream, Querying
  <2>2. k \in 1 .. n
    <3>1. k \in 0 .. n
      BY <1>1, <1>6
    <3> QED
      BY <1>4, <1>8, <3>1
  <2>3. r \in Scope /\ r.parent = scopes[k].parent /\ r.active = scopes[k].active
    BY <1>4, <2>2 DEF Scope
  <2> HIDE DEF r, k
  <2>4. /\ Nested(scopes') /\ Len(scopes') = n
        /\ scopes'[k] = r
        /\ \A j \in 1 .. n : j # k => scopes'[j] = scopes[j]
        /\ \A j \in 0 .. n : PathIn(scopes')[j] = PathIn(scopes)[j]
    BY <1>4, <2>1, <2>2, <2>3, MarkingAScope
  <2>5. \A j \in 1 .. n : scopes'[j].active = scopes[j].active
    BY <2>3, <2>4
  <2>6. StoresTell'
    BY <1>1, <2>4, <2>5, StoresStillTell
  <2> HIDE DEF n, g
  <2>7. Known'
    BY <1>1, <1>2, <1>3, <1>6, <2>4 DEF Known
  <2>8. Held'
    <3>1. \A h \in Guards : token[h] \in Scopes =>
            /\ token[h] \in 1 .. n /\ scopes'[token[h]].active
            /\ \E x \in Calls : CallOf(x).owns /\ CallOf(x).guard = h /\ CallOf(x).scope = token[h]
      BY <2>5 DEF GInv, Held, n
    <3>2. ASSUME NEW h \in Guards, token[h] \in Streams
          PROVE  token[h] \in DOMAIN streams' /\ streams'[token[h]] = [guard |-> h, scope |-> 0]
      <4>1. token[h] \in DOMAIN streams /\ streams[token[h]] = [guard |-> h, scope |-> 0]
        BY <3>2 DEF GInv, Held
      <4>2. token[h] # s
        BY <1>8, <4>1 DEF k
      <4> QED
        BY <1>3, <4>1, <4>2
    <3>3. /\ \A x \in Calls : CallOf(x).owns => token[CallOf(x).guard] = CallOf(x).scope
          /\ \A x, y \in Calls :
               CallOf(x).owns /\ CallOf(y).owns /\ CallOf(x).scope = CallOf(y).scope => x = y
      BY DEF GInv, Held
    <3>4. \A t \in DOMAIN streams' : streams'[t].scope = 0 => token[streams'[t].guard] = t
      BY <1>3 DEF GInv, Held
    <3> QED
      BY <1>2, <2>1, <2>4, <3>1, <3>2, <3>3, <3>4 DEF Held
  <2>9. OneUser'
    <3>1. ASSUME NEW x \in Calls, CallOf(x).kind = "query"
          PROVE  scopes'[CallOf(x).scope].querying
      <4>1. CallOf(x).scope \in 1 .. n /\ scopes[CallOf(x).scope].querying
        BY <1>6, <3>1 DEF GInv, OneUser
      <4>2. CallOf(x).scope # k
        BY <1>1, <3>1 DEF GInv, OneUser, k
      <4> QED
        BY <2>4, <4>1, <4>2
    <3>2. ASSUME NEW t \in DOMAIN streams', streams'[t].scope # 0
          PROVE  scopes'[streams'[t].scope].querying
      <4>1. t \in DOMAIN streams /\ t # s /\ streams'[t] = streams[t] /\ streams[t].scope # 0
        BY <1>3, <3>2
      <4>2. streams[t].scope \in 1 .. n /\ scopes[streams[t].scope].querying
        <5>1. streams[t].scope \in 0 .. n
          BY <1>6, <4>1
        <5>2. streams[t].scope \in 1 .. n
          BY <1>4, <4>1, <5>1 DEF n
        <5> QED
          BY <4>1, <5>2 DEF GInv, OneUser
      <4>3. streams[t].scope # k
        BY <1>1, <4>1 DEF GInv, OneUser, k
      <4> QED
        BY <2>4, <4>1, <4>2, <4>3
    <3>3. \A x, y \in Calls :
            /\ CallOf(x).kind = "query" /\ CallOf(y).kind = "query"
            /\ CallOf(x).scope = CallOf(y).scope
            => x = y
      BY DEF GInv, OneUser
    <3>4. \A t, u \in DOMAIN streams' :
            streams'[t].scope # 0 /\ streams'[t].scope = streams'[u].scope => t = u
      BY <1>3 DEF GInv, OneUser
    <3>5. \A x \in Calls, t \in DOMAIN streams' :
            CallOf(x).kind = "query" => CallOf(x).scope # streams'[t].scope
      BY <1>3 DEF GInv, OneUser
    <3> QED
      BY <1>2, <3>1, <3>2, <3>3, <3>4, <3>5 DEF OneUser
  <2> QED
    BY <1>1, <1>3, <1>5, <2>1, <2>4, <2>6, <2>7, <2>8, <2>9 DEF CInv, Nested, n
<1> QED
  BY <1>7, <1>8

\* A chain or load is started with the store and the scopes of the one who
\* starts it, or ends and forgets its own: it is inside of no call then.
LEMMA HandingOn ==
  ASSUME GInv, UNCHANGED <<token, scopes, frames, streams>>,
         \A b \in Actors :
           \/ base'[b] = base[b] /\ inherited'[b] = inherited[b]
           \/ frames[b] = <<>> /\ base'[b] = 0 /\ inherited'[b] = {}
           \/ /\ frames[b] = <<>>
              /\ \E p \in Actors : base'[b] = Store(p) /\ inherited'[b] = Under(p)
  PROVE  CInv'
<1> DEFINE n == Len(scopes)
<1>1. Calls' = Calls /\ \A x : CallOf(x)' = CallOf(x)
  BY SameCalls
<1>2. /\ Nested(scopes) /\ n \in Nat /\ 0 \in 0 .. n /\ PathIn(scopes)[0] = {}
      /\ PathIn(scopes') = PathIn(scopes)
  <2>1. Nested(scopes) /\ n \in Nat /\ 0 \in 0 .. n
    BY DEF GInv, Nested
  <2>2. PathIn(scopes') = PathIn(scopes)
    OBVIOUS
  <2> QED
    BY <2>1, <2>2, PathLeadsUp
<1>3. \A p \in Actors :
        /\ Store(p) \in 0 .. n /\ Under(p) \subseteq 1 .. n
        /\ \A j \in 1 .. n : scopes[j].active => (j \in PathIn(scopes)[Store(p)] <=> j \in Under(p))
  BY StoreTells
<1>4. \A b \in Actors : base[b] \in 0 .. n /\ inherited[b] \subseteq 1 .. n
  BY DEF GInv, Known
<1> HIDE DEF n
<1>5. Known'
  <2>1. \A b \in Actors : base'[b] \in 0 .. n /\ inherited'[b] \subseteq 1 .. n
    <3> SUFFICES ASSUME NEW b \in Actors
                 PROVE  base'[b] \in 0 .. n /\ inherited'[b] \subseteq 1 .. n
      OBVIOUS
    <3>1. CASE base'[b] = base[b] /\ inherited'[b] = inherited[b]
      BY <1>4, <3>1
    <3>2. CASE base'[b] = 0 /\ inherited'[b] = {}
      BY <1>2, <3>2
    <3>3. CASE \E p \in Actors : base'[b] = Store(p) /\ inherited'[b] = Under(p)
      BY <1>3, <3>3
    <3> QED
      BY <3>1, <3>2, <3>3
  <2> QED
    BY <1>1, <2>1 DEF GInv, Known, n
<1>6. \A x \in Calls : inherited'[x[1]] = inherited[x[1]] /\ Around(x)' = Around(x)
  <2> SUFFICES ASSUME NEW x \in Calls
               PROVE  inherited'[x[1]] = inherited[x[1]] /\ Around(x)' = Around(x)
    OBVIOUS
  <2>1. x[1] \in Actors /\ frames[x[1]] # <<>>
    <3>1. x[1] \in Actors /\ x[2] \in 1 .. Len(frames[x[1]]) /\ Len(frames[x[1]]) \in Nat
      BY CallsAreFrames DEF GInv
    <3>2. Len(frames[x[1]]) # 0
      BY <3>1
    <3>3. frames[x[1]] = <<>> => Len(frames[x[1]]) = 0
      OBVIOUS
    <3> QED
      BY <3>1, <3>2, <3>3
  <2>2. inherited'[x[1]] = inherited[x[1]]
    BY <2>1
  <2>3. Around(x)' = Around(x)
    BY <1>1, AroundStays
  <2> QED
    BY <2>2, <2>3
<1>7. StoresTell'
  <2>1. ASSUME NEW j \in 1 .. n, scopes[j].active, NEW b \in Actors
        PROVE  j \in PathIn(scopes)[base'[b]] <=> j \in inherited'[b]
    <3>1. CASE base'[b] = base[b] /\ inherited'[b] = inherited[b]
      BY <2>1, <3>1 DEF GInv, StoresTell, n
    <3>2. CASE base'[b] = 0 /\ inherited'[b] = {}
      BY <1>2, <3>2
    <3>3. CASE \E p \in Actors : base'[b] = Store(p) /\ inherited'[b] = Under(p)
      BY <1>3, <2>1, <3>3
    <3> QED
      BY <3>1, <3>2, <3>3
  <2>2. ASSUME NEW j \in 1 .. n, scopes[j].active, NEW x \in Calls, CallOf(x).owns
        PROVE  j \in PathIn(scopes)[CallOf(x).scope] <=> j \in inherited'[x[1]] \cup Around(x)'
    BY <1>6, <2>2 DEF GInv, StoresTell, n
  <2>3. scopes' = scopes
    OBVIOUS
  <2> QED
    BY <1>1, <1>2, <2>1, <2>2, <2>3 DEF StoresTell, n
<1>8. Held'
  BY <1>1 DEF GInv, Held
<1>9. OneUser'
  BY <1>1 DEF GInv, OneUser
<1>10. Nested(scopes')
  BY <1>2
<1> QED
  BY <1>5, <1>7, <1>8, <1>9, <1>10 DEF CInv

-----------------------------------------------------------------------------
(* Every step keeps the invariant *)

\* At the beginning there is nothing to agree on.
LEMMA InitGInv == Init => GInv
<1> SUFFICES ASSUME Init PROVE GInv
  OBVIOUS
<1>1. /\ scopes = <<>> /\ Len(scopes) = 0 /\ queue = <<>> /\ Len(queue) = 0 /\ streams = <<>>
      /\ count = 0 /\ loaded = {} /\ live = {}
      /\ \A a \in Actors : frames[a] = <<>> /\ Len(frames[a]) = 0 /\ base[a] = 0 /\ inherited[a] = {}
      /\ \A g \in Guards : token[g] = None
  BY DEF Init
<1>2. MaxScopes \in Nat /\ Budget \in Nat /\ MaxDepth \in Nat \ {0}
  BY OperationGuardAssumption
<1>3. None \notin Scopes /\ None \notin Streams
  BY OperationGuardAssumption DEF Scopes
<1>4. Calls = {}
  BY <1>1, <1>2 DEF Calls
<1>5. DOMAIN streams = {}
  BY <1>1
<1>6. TypeOK
  <2>1. token \in [Guards -> Scopes \cup Streams \cup {None}]
    BY DEF Init
  <2>2. scopes \in Seq(Scope) /\ Len(scopes) <= MaxScopes
    BY <1>1, <1>2
  <2>3. base \in [Actors -> 0 .. MaxScopes]
    BY <1>2 DEF Init
  <2>4. inherited \in [Actors -> SUBSET Scopes]
    BY DEF Init
  <2>5. frames \in [Actors -> Seq(Frame)]
    <3>1. <<>> \in Seq(Frame)
      OBVIOUS
    <3> QED
      BY <3>1 DEF Init
  <2>6. queue \in Seq(Loads) /\ loaded \subseteq Loads /\ live \subseteq Chains
    BY <1>1
  <2>7. count \in 0 .. Budget /\ waiting \in [Chains -> Loads \cup {None}]
    BY <1>1, <1>2 DEF Init
  <2> QED
    BY <1>5, <2>1, <2>2, <2>3, <2>4, <2>5, <2>6, <2>7 DEF TypeOK
<1>7. Nested(scopes)
  BY <1>1 DEF Nested
<1>8. Known
  BY <1>1, <1>4, <1>5 DEF Known
<1>9. StoresTell
  BY <1>1 DEF StoresTell
<1>10. Held
  BY <1>1, <1>3, <1>4, <1>5 DEF Held
<1>11. OneUser
  BY <1>4, <1>5 DEF OneUser
<1>12. Lines
  BY <1>1, <1>2 DEF Lines, Actors
<1>13. Counted
  BY <1>1, <1>2 DEF Counted
<1> QED
  BY <1>6, <1>7, <1>8, <1>9, <1>10, <1>11, <1>12, <1>13 DEF GInv

\* Chains come and go, with or without a store that is handed on.
LEMMA StartingAndEnding ==
  ASSUME GInv, NEW c \in Chains,
         Start(c) \/ Finish(c) \/ \E p \in Chains : Fork(p, c)
  PROVE  GInv'
<1>1. /\ UNCHANGED <<token, scopes, frames, streams, queue, loaded, count, waiting>>
      /\ live' = live \cup {c} \/ (live' = live \ {c} /\ frames[c] = <<>>)
  BY DEF Start, Fork, Finish, Begins, loadVars
<1>2. c \in Actors /\ frames[c] = <<>>
  BY DEF Start, Fork, Finish, GInv, Lines, Actors
<1>3. \E store, around :
        /\ base' = [base EXCEPT ![c] = store] /\ inherited' = [inherited EXCEPT ![c] = around]
        /\ store \in 0 .. Len(scopes) /\ around \subseteq 1 .. Len(scopes)
        /\ (store = 0 /\ around = {}) \/ \E p \in Actors : store = Store(p) /\ around = Under(p)
  <2>1. 0 \in 0 .. Len(scopes)
    BY DEF GInv, Nested
  <2>2. CASE Start(c) \/ Finish(c)
    BY <2>1, <2>2 DEF Start, Finish, Begins
  <2>3. CASE \E p \in Chains : Fork(p, c)
    <3>1. PICK p \in Chains : Fork(p, c)
      BY <2>3
    <3>2. p \in Actors
      BY DEF Actors
    <3>3. Store(p) \in 0 .. Len(scopes) /\ Under(p) \subseteq 1 .. Len(scopes)
      BY <3>2, StoreTells
    <3> QED
      BY <3>1, <3>2, <3>3 DEF Fork, Begins
  <2> QED
    BY <2>2, <2>3
<1>4. PICK store, around :
        /\ base' = [base EXCEPT ![c] = store] /\ inherited' = [inherited EXCEPT ![c] = around]
        /\ store \in 0 .. Len(scopes) /\ around \subseteq 1 .. Len(scopes)
        /\ (store = 0 /\ around = {}) \/ \E p \in Actors : store = Store(p) /\ around = Under(p)
  BY <1>3
<1>5. base \in [Actors -> 0 .. MaxScopes] /\ inherited \in [Actors -> SUBSET Scopes]
  BY DEF GInv, TypeOK
<1>6. /\ base'[c] = store /\ inherited'[c] = around
      /\ \A b \in Actors : b # c => base'[b] = base[b] /\ inherited'[b] = inherited[b]
  BY <1>2, <1>4, <1>5
<1>7. CInv'
  <2>1. ASSUME NEW b \in Actors
        PROVE  \/ base'[b] = base[b] /\ inherited'[b] = inherited[b]
               \/ frames[b] = <<>> /\ base'[b] = 0 /\ inherited'[b] = {}
               \/ /\ frames[b] = <<>>
                  /\ \E p \in Actors : base'[b] = Store(p) /\ inherited'[b] = Under(p)
    BY <1>2, <1>4, <1>6
  <2> QED
    BY <1>1, <2>1, HandingOn
<1>8. TypeOK'
  <2>1. store \in 0 .. MaxScopes /\ around \subseteq Scopes
    <3>1. Len(scopes) \in Nat /\ Len(scopes) <= MaxScopes /\ MaxScopes \in Nat
      BY OperationGuardAssumption DEF GInv, Nested, TypeOK
    <3> QED
      BY <1>4, <3>1 DEF Scopes
  <2>2. base' \in [Actors -> 0 .. MaxScopes] /\ inherited' \in [Actors -> SUBSET Scopes]
    BY <1>4, <1>5, <2>1
  <2>3. live' \subseteq Chains
    BY <1>1 DEF GInv, TypeOK
  <2> QED
    BY <1>1, <2>2, <2>3 DEF GInv, TypeOK
<1>9. Lines'
  BY <1>1, <1>2 DEF GInv, Lines
<1>10. Counted'
  BY <1>1 DEF GInv, Counted, Running
<1> QED
  BY <1>7, <1>8, <1>9, <1>10 DEF GInv, CInv

\* Calls of chains.
LEMMA Calling ==
  ASSUME GInv, NEW c \in Chains, NEW g \in Guards, NEW kind \in {"work", "query"},
         Call(c, kind, g)
  PROVE  GInv'
<1>1. /\ UNCHANGED <<live, base, inherited, streams, queue, loaded, count, waiting>>
      /\ c \in live /\ Len(frames[c]) < MaxDepth
      /\ EntersNested(c, kind, g) \/ (Room /\ EntersAlone(c, kind, g))
  BY DEF Call, Runs, storeVars, loadVars
<1>2. c \in Actors /\ c \notin Loads /\ Loads \subseteq Actors /\ Chains \subseteq Actors
  BY OperationGuardAssumption DEF Actors
<1>3. /\ Len(scopes) \in Nat /\ Len(queue) \in Nat /\ Len(scopes) <= MaxScopes
      /\ MaxScopes \in Nat /\ MaxDepth \in Nat /\ Len(frames[c]) \in Nat
  BY <1>2, CallsAreFrames, OperationGuardAssumption DEF GInv, Nested, TypeOK
<1>4. /\ CInv'
      /\ token' \in [Guards -> Scopes \cup Streams \cup {None}]
      /\ scopes' \in Seq(Scope)
      /\ \/ Len(scopes') = Len(scopes)
         \/ Len(scopes') = Len(scopes) + 1 /\ Len(scopes) + Len(queue) < MaxScopes
      /\ frames' \in [Actors -> Seq(Frame)]
      /\ Len(frames'[c]) = Len(frames[c]) + 1
      /\ \A b \in Actors : b # c => frames'[b] = frames[b]
  <2>0. token \in [Guards -> Scopes \cup Streams \cup {None}]
    BY DEF GInv, TypeOK
  <2>1. CASE EntersNested(c, kind, g)
    <3>1. token' = token
      BY <2>1 DEF EntersNested
    <3>2. /\ CInv'
          /\ scopes' \in Seq(Scope) /\ Len(scopes') = Len(scopes)
          /\ frames' \in [Actors -> Seq(Frame)]
          /\ Len(frames'[c]) = Len(frames[c]) + 1
          /\ \A b \in Actors : b # c => frames'[b] = frames[b]
      BY <1>1, <1>2, <2>1, EnteringNested
    <3> QED
      BY <2>0, <3>1, <3>2
  <2>2. CASE Room /\ EntersAlone(c, kind, g)
    <3>1. Len(scopes) + Len(queue) < MaxScopes /\ Len(scopes) < MaxScopes
      BY <1>3, <2>2 DEF Room
    <3>2. /\ CInv'
          /\ token' = [token EXCEPT ![g] = Len(scopes) + 1] /\ Len(scopes) + 1 \in Scopes
          /\ scopes' \in Seq(Scope) /\ Len(scopes') = Len(scopes) + 1
          /\ frames' \in [Actors -> Seq(Frame)]
          /\ Len(frames'[c]) = Len(frames[c]) + 1
          /\ \A b \in Actors : b # c => frames'[b] = frames[b]
      BY <1>1, <1>2, <2>2, <3>1, EnteringAlone
    <3>3. token' \in [Guards -> Scopes \cup Streams \cup {None}]
      BY <2>0, <3>2
    <3> QED
      BY <3>1, <3>2, <3>3
  <2> QED
    BY <1>1, <2>1, <2>2
<1>5. Len(scopes') <= MaxScopes
  BY <1>3, <1>4
<1>6. TypeOK'
  BY <1>1, <1>4, <1>5 DEF GInv, TypeOK
<1>7. \A n \in Loads : frames'[n] = frames[n]
  BY <1>2, <1>4
<1>8. Lines'
  <2>1. \A d \in Chains : d \notin live' => frames'[d] = <<>>
    BY <1>1, <1>2, <1>4 DEF GInv, Lines
  <2>2. \A d \in Chains : Len(frames'[d]) <= MaxDepth
    <3>1. Len(frames'[c]) <= MaxDepth
      BY <1>1, <1>3, <1>4
    <3> QED
      BY <1>2, <1>4, <3>1 DEF GInv, Lines
  <2> QED
    BY <1>1, <1>7, <2>1, <2>2 DEF GInv, Lines
<1>9. Counted'
  <2>1. Running' <=> Running
    BY <1>7 DEF Running
  <2>2. Len(scopes') + Len(queue) <= MaxScopes + (IF Running THEN 1 ELSE 0)
    <3>1. CASE Len(scopes') = Len(scopes)
      BY <3>1 DEF GInv, Counted
    <3>2. CASE Len(scopes') = Len(scopes) + 1 /\ Len(scopes) + Len(queue) < MaxScopes
      BY <1>3, <3>2
    <3> QED
      BY <1>4, <3>1, <3>2
  <2> QED
    BY <1>1, <2>1, <2>2 DEF GInv, Counted
<1> QED
  BY <1>4, <1>6, <1>8, <1>9 DEF GInv, CInv

\* The innermost call of a chain ends.
LEMMA Returning ==
  ASSUME GInv, NEW c \in Chains, Return(c)
  PROVE  GInv'
<1>1. /\ UNCHANGED <<live, base, inherited, streams, queue, loaded, count, waiting>>
      /\ c \in live /\ frames[c] # <<>> /\ Leaves(c)
  BY DEF Return, storeVars, loadVars
<1>2. c \in Actors /\ c \notin Loads /\ Loads \subseteq Actors /\ Chains \subseteq Actors
  BY OperationGuardAssumption DEF Actors
<1>3. /\ CInv'
      /\ token' \in [Guards -> Scopes \cup Streams \cup {None}]
      /\ scopes' \in Seq(Scope) /\ Len(scopes') = Len(scopes)
      /\ frames' \in [Actors -> Seq(Frame)]
      /\ Len(frames'[c]) = Len(frames[c]) - 1
      /\ \A b \in Actors : b # c => frames'[b] = frames[b]
  BY <1>1, <1>2, Leaving
<1>4. TypeOK'
  BY <1>1, <1>3 DEF GInv, TypeOK
<1>5. \A n \in Loads : frames'[n] = frames[n]
  BY <1>2, <1>3
<1>6. Lines'
  <2>1. \A d \in Chains : d \notin live' => frames'[d] = <<>>
    BY <1>1, <1>2, <1>3 DEF GInv, Lines
  <2>2. Len(frames'[c]) <= MaxDepth
    <3>1. Len(frames[c]) \in Nat /\ Len(frames[c]) <= MaxDepth /\ MaxDepth \in Nat
      BY <1>2, CallsAreFrames, FramesAreBounded, OperationGuardAssumption DEF GInv
    <3> QED
      BY <1>3, <3>1
  <2>3. \A d \in Chains : Len(frames'[d]) <= MaxDepth
    BY <1>2, <1>3, <2>2 DEF GInv, Lines
  <2> QED
    BY <1>1, <1>5, <2>1, <2>3 DEF GInv, Lines
<1>7. Counted'
  <2>1. Running' <=> Running
    BY <1>5 DEF Running
  <2> QED
    BY <1>1, <1>3, <2>1 DEF GInv, Counted
<1> QED
  BY <1>3, <1>4, <1>6, <1>7 DEF GInv, CInv

\* Chains open streams, and streams close.
LEMMA Streaming ==
  ASSUME GInv, NEW s \in Streams,
         CloseStream(s) \/ \E c \in Chains, g \in Guards : OpenStream(c, s, g)
  PROVE  GInv'
<1>1. UNCHANGED <<live, base, inherited, frames, queue, loaded, count, waiting>>
  BY DEF CloseStream, OpenStream, storeVars, loadVars
<1>2. /\ CInv'
      /\ token' \in [Guards -> Scopes \cup Streams \cup {None}]
      /\ scopes' \in Seq(Scope) /\ Len(scopes') = Len(scopes)
      /\ DOMAIN streams' \subseteq DOMAIN streams \cup {s}
      /\ \A t \in DOMAIN streams' : streams'[t] \in Stream
  <2>1. CASE CloseStream(s)
    BY <2>1, ClosingAStream
  <2>2. CASE \E c \in Chains, g \in Guards : OpenStream(c, s, g)
    BY <2>2, OpeningAStream
  <2> QED
    BY <2>1, <2>2
<1>3. TypeOK'
  BY <1>1, <1>2 DEF GInv, TypeOK
<1>4. Lines'
  BY <1>1 DEF GInv, Lines
<1>5. Counted'
  BY <1>1, <1>2 DEF GInv, Counted, Running
<1> QED
  BY <1>2, <1>3, <1>4, <1>5 DEF GInv, CInv

\* A load is counted and takes its place in the queue, with the store of the one
\* who asked for it.
LEMMA Requesting ==
  ASSUME GInv, NEW c \in Chains, NEW n \in Loads, Request(c, n)
  PROVE  GInv'
<1>1. /\ UNCHANGED <<token, scopes, live, frames, streams, loaded>>
      /\ waiting' = [waiting EXCEPT ![c] = n]
      /\ \/ UNCHANGED <<base, inherited, queue, count>>
         \/ /\ n \notin Range(queue)
            /\ count < Budget /\ Room
            /\ count' = count + 1
            /\ queue' = Append(queue, n)
            /\ base' = [base EXCEPT ![n] = Store(c)]
            /\ inherited' = [inherited EXCEPT ![n] = Under(c)]
  BY DEF Request
<1>2. waiting' \in [Chains -> Loads \cup {None}]
  BY <1>1 DEF GInv, TypeOK
<1>3. CASE UNCHANGED <<base, inherited, queue, count>>
  <2>1. CInv'
    <3>1. \A b \in Actors : base'[b] = base[b] /\ inherited'[b] = inherited[b]
      BY <1>3
    <3> QED
      BY <1>1, <3>1, HandingOn
  <2>2. TypeOK'
    BY <1>1, <1>2, <1>3 DEF GInv, TypeOK
  <2>3. Lines' /\ Counted'
    BY <1>1, <1>3 DEF GInv, Lines, Counted, Running
  <2> QED
    BY <2>1, <2>2, <2>3 DEF GInv, CInv
<1>4. CASE /\ n \notin Range(queue)
           /\ count < Budget /\ Room
           /\ count' = count + 1
           /\ queue' = Append(queue, n)
           /\ base' = [base EXCEPT ![n] = Store(c)]
           /\ inherited' = [inherited EXCEPT ![n] = Under(c)]
  <2>1. c \in Actors /\ n \in Actors
    BY DEF Actors
  <2>2. /\ queue \in Seq(Loads) /\ Len(queue) \in Nat /\ count \in 0 .. Budget /\ Budget \in Nat
        /\ Len(scopes) \in Nat /\ Len(scopes) <= MaxScopes /\ MaxScopes \in Nat
        /\ base \in [Actors -> 0 .. MaxScopes] /\ inherited \in [Actors -> SUBSET Scopes]
    BY OperationGuardAssumption DEF GInv, TypeOK, Nested
  <2>3. frames[n] = <<>>
    <3> SUFFICES ASSUME frames[n] # <<>> PROVE FALSE
      OBVIOUS
    <3>1. queue # <<>> /\ n = queue[1]
      BY DEF GInv, Lines
    <3>2. 1 \in DOMAIN queue
      BY <2>2, <3>1
    <3> QED
      BY <1>4, <3>1, <3>2 DEF Range
  <2>4. Store(c) \in 0 .. Len(scopes) /\ Under(c) \subseteq 1 .. Len(scopes)
    BY <2>1, StoreTells
  <2>5. /\ base'[n] = Store(c) /\ inherited'[n] = Under(c)
        /\ \A b \in Actors : b # n => base'[b] = base[b] /\ inherited'[b] = inherited[b]
    BY <1>4, <2>1, <2>2
  <2>6. CInv'
    <3>1. ASSUME NEW b \in Actors
          PROVE  \/ base'[b] = base[b] /\ inherited'[b] = inherited[b]
                 \/ /\ frames[b] = <<>>
                    /\ \E p \in Actors : base'[b] = Store(p) /\ inherited'[b] = Under(p)
      BY <2>1, <2>3, <2>5
    <3> QED
      BY <1>1, <3>1, HandingOn
  <2>7. TypeOK'
    <3>1. Store(c) \in 0 .. MaxScopes /\ Under(c) \subseteq Scopes
      BY <2>2, <2>4 DEF Scopes
    <3>2. base' \in [Actors -> 0 .. MaxScopes] /\ inherited' \in [Actors -> SUBSET Scopes]
      BY <1>4, <2>2, <3>1
    <3>3. count' \in 0 .. Budget
      BY <1>4, <2>2
    <3>4. queue' \in Seq(Loads)
      BY <1>4, <2>2
    <3> QED
      BY <1>1, <1>2, <3>2, <3>3, <3>4 DEF GInv, TypeOK
  <2>8. Len(queue') = Len(queue) + 1
    BY <1>4, <2>2
  <2>9. Lines'
    <3>1. ASSUME NEW m \in Loads, frames[m] # <<>>
          PROVE  queue' # <<>> /\ m = Head(queue') /\ Len(frames[m]) = 1
      <4>1. queue # <<>> /\ m = Head(queue) /\ Len(frames[m]) = 1
        BY <3>1 DEF GInv, Lines
      <4>2. queue' # <<>> /\ Head(queue') = Head(queue)
        BY <1>4, <2>2, <4>1
      <4> QED
        BY <4>1, <4>2
    <3> QED
      BY <1>1, <3>1 DEF GInv, Lines
  <2>10. Counted'
    <3>1. Len(scopes) + Len(queue) < MaxScopes
      BY <1>4 DEF Room
    <3>2. Len(scopes) + Len(queue') <= MaxScopes + (IF Running THEN 1 ELSE 0)
      BY <2>2, <2>8, <3>1
    <3>3. Len(queue') <= count'
      BY <1>4, <2>2, <2>8 DEF GInv, Counted
    <3>4. Running' <=> Running
      BY <1>1 DEF Running
    <3> QED
      BY <1>1, <3>2, <3>3, <3>4 DEF Counted
  <2> QED
    BY <2>6, <2>7, <2>9, <2>10 DEF GInv, CInv
<1> QED
  BY <1>1, <1>3, <1>4

\* The first load of the queue sends its query.  As no other runs, there is room
\* for its scope.
LEMMA StartingALoad ==
  ASSUME GInv, NEW n \in Loads, StartLoad(n)
  PROVE  GInv'
<1>1. /\ UNCHANGED <<live, base, inherited, streams, queue, loaded, count, waiting>>
      /\ queue # <<>> /\ n = Head(queue) /\ frames[n] = <<>>
      /\ EntersNested(n, "query", Lazy) \/ EntersAlone(n, "query", Lazy)
  BY DEF StartLoad, Turn, storeVars, loadVars
<1>2. n \in Actors /\ n \notin Chains /\ Loads \subseteq Actors /\ Chains \subseteq Actors /\ Lazy \in Guards
  BY OperationGuardAssumption DEF Actors
<1>3. /\ Len(scopes) \in Nat /\ queue \in Seq(Loads) /\ Len(queue) \in Nat /\ Len(scopes) <= MaxScopes
      /\ MaxScopes \in Nat /\ MaxDepth \in Nat \ {0}
  BY OperationGuardAssumption DEF GInv, Nested, TypeOK
<1>4. ~Running
  <2> SUFFICES ASSUME NEW m \in Loads, frames[m] # <<>> PROVE FALSE
    BY DEF Running
  <2>1. m = Head(queue)
    BY DEF GInv, Lines
  <2> QED
    BY <1>1, <2>1
<1>5. Len(queue) # 0
  BY <1>1, <1>3
<1>6. Len(scopes) + Len(queue) <= MaxScopes /\ Len(scopes) < MaxScopes
  <2>1. Len(scopes) + Len(queue) <= MaxScopes + 0
    BY <1>4 DEF GInv, Counted
  <2> QED
    BY <1>3, <1>5, <2>1
<1>7. Len(frames[n]) = 0 /\ Len(frames[n]) < MaxDepth
  <2>1. Len(frames[n]) = 0
    BY <1>1
  <2> QED
    BY <1>3, <2>1
<1>8. /\ CInv'
      /\ token' \in [Guards -> Scopes \cup Streams \cup {None}]
      /\ scopes' \in Seq(Scope)
      /\ Len(scopes') = Len(scopes) \/ Len(scopes') = Len(scopes) + 1
      /\ frames' \in [Actors -> Seq(Frame)]
      /\ Len(frames'[n]) = 1
      /\ \A b \in Actors : b # n => frames'[b] = frames[b]
  <2>0. token \in [Guards -> Scopes \cup Streams \cup {None}]
    BY DEF GInv, TypeOK
  <2>1. CASE EntersNested(n, "query", Lazy)
    <3>1. token' = token
      BY <2>1 DEF EntersNested
    <3>2. /\ CInv'
          /\ scopes' \in Seq(Scope) /\ Len(scopes') = Len(scopes)
          /\ frames' \in [Actors -> Seq(Frame)]
          /\ Len(frames'[n]) = Len(frames[n]) + 1
          /\ \A b \in Actors : b # n => frames'[b] = frames[b]
      BY <1>1, <1>2, <1>7, <2>1, EnteringNested
    <3> QED
      BY <1>7, <2>0, <3>1, <3>2
  <2>2. CASE EntersAlone(n, "query", Lazy)
    <3>1. /\ CInv'
          /\ token' = [token EXCEPT ![Lazy] = Len(scopes) + 1] /\ Len(scopes) + 1 \in Scopes
          /\ scopes' \in Seq(Scope) /\ Len(scopes') = Len(scopes) + 1
          /\ frames' \in [Actors -> Seq(Frame)]
          /\ Len(frames'[n]) = Len(frames[n]) + 1
          /\ \A b \in Actors : b # n => frames'[b] = frames[b]
      BY <1>1, <1>2, <1>6, <1>7, <2>2, EnteringAlone
    <3>2. token' \in [Guards -> Scopes \cup Streams \cup {None}]
      BY <2>0, <3>1
    <3> QED
      BY <1>7, <3>1, <3>2
  <2> QED
    BY <1>1, <2>1, <2>2
<1>9. Len(scopes') <= MaxScopes
  BY <1>3, <1>6, <1>8
<1>10. TypeOK'
  BY <1>1, <1>8, <1>9 DEF GInv, TypeOK
<1>11. frames'[n] # <<>>
  <2> SUFFICES ASSUME frames'[n] = <<>> PROVE FALSE
    OBVIOUS
  <2>1. Len(frames'[n]) = 0
    OBVIOUS
  <2> QED
    BY <1>8, <2>1
<1>12. Lines'
  <2>1. \A d \in Chains : frames'[d] = frames[d]
    BY <1>2, <1>8
  <2>2. \A m \in Loads : frames'[m] # <<>> =>
          queue # <<>> /\ m = Head(queue) /\ Len(frames'[m]) = 1
    BY <1>1, <1>2, <1>8 DEF GInv, Lines
  <2> QED
    BY <1>1, <2>1, <2>2 DEF GInv, Lines
<1>13. Counted'
  <2>1. Running'
    BY <1>11 DEF Running
  <2>2. Len(scopes') + Len(queue) <= MaxScopes + 1
    BY <1>3, <1>6, <1>8
  <2> QED
    BY <1>1, <2>1, <2>2 DEF GInv, Counted
<1> QED
  BY <1>8, <1>10, <1>12, <1>13 DEF GInv, CInv

\* The first load of the queue is answered.
LEMMA SettlingTypes ==
  ASSUME GInv, NEW n \in Loads, NEW isLoaded \in BOOLEAN,
         Settles(n, isLoaded), queue # <<>>
  PROVE  /\ base' \in [Actors -> 0 .. MaxScopes] /\ inherited' \in [Actors -> SUBSET Scopes]
         /\ base'[n] = 0 /\ inherited'[n] = {}
         /\ \A b \in Actors : b # n => base'[b] = base[b] /\ inherited'[b] = inherited[b]
         /\ queue' \in Seq(Loads) /\ Len(queue') = Len(queue) - 1
         /\ loaded' \subseteq Loads
         /\ count' \in 0 .. Budget /\ Len(queue') <= count'
         /\ waiting' \in [Chains -> Loads \cup {None}]
         /\ UNCHANGED <<live, streams>>
<1>1. /\ queue' = Tail(queue)
      /\ waiting' = [c \in Chains |-> IF waiting[c] = n THEN None ELSE waiting[c]]
      /\ loaded' = IF isLoaded THEN loaded \cup {n} ELSE loaded
      /\ count' = IF isLoaded THEN count ELSE count - 1
      /\ base' = [base EXCEPT ![n] = 0]
      /\ inherited' = [inherited EXCEPT ![n] = {}]
      /\ UNCHANGED <<live, streams>>
  BY DEF Settles, PassesOn
<1>2. /\ queue \in Seq(Loads) /\ Len(queue) \in Nat /\ count \in 0 .. Budget /\ Budget \in Nat
      /\ base \in [Actors -> 0 .. MaxScopes] /\ inherited \in [Actors -> SUBSET Scopes]
      /\ 0 \in 0 .. MaxScopes /\ n \in Actors /\ loaded \subseteq Loads
      /\ waiting \in [Chains -> Loads \cup {None}]
      /\ Len(queue) <= count
  <2>1. 0 \in 0 .. MaxScopes
    BY OperationGuardAssumption
  <2> QED
    BY <2>1, OperationGuardAssumption DEF GInv, TypeOK, Actors, Counted
<1>3. queue' \in Seq(Loads) /\ Len(queue') = Len(queue) - 1 /\ Len(queue) # 0
  BY <1>1, <1>2
<1>4. count' \in 0 .. Budget /\ Len(queue') <= count'
  <2>1. count' = count \/ count' = count - 1
    BY <1>1
  <2> QED
    BY <1>2, <1>3, <2>1
<1>5. base' \in [Actors -> 0 .. MaxScopes] /\ inherited' \in [Actors -> SUBSET Scopes]
  BY <1>1, <1>2
<1>6. /\ base'[n] = 0 /\ inherited'[n] = {}
      /\ \A b \in Actors : b # n => base'[b] = base[b] /\ inherited'[b] = inherited[b]
  BY <1>1, <1>2
<1>7. waiting' \in [Chains -> Loads \cup {None}]
  BY <1>1, <1>2
<1>8. loaded' \subseteq Loads
  BY <1>1, <1>2
<1> QED
  BY <1>1, <1>3, <1>4, <1>5, <1>6, <1>7, <1>8

\* The first load leaves the queue, whether it was refused or its query is over.
LEMMA EndingALoad ==
  ASSUME GInv, NEW n \in Loads, LoadIsRefused(n) \/ LoadEnds(n)
  PROVE  GInv'
<1>1. PICK isLoaded \in BOOLEAN : Settles(n, isLoaded)
  BY DEF LoadIsRefused, LoadEnds
<1>2. queue # <<>> /\ n = Head(queue)
  BY DEF LoadIsRefused, LoadEnds, Turn, GInv, Lines
<1>3. /\ base' \in [Actors -> 0 .. MaxScopes] /\ inherited' \in [Actors -> SUBSET Scopes]
      /\ base'[n] = 0 /\ inherited'[n] = {}
      /\ \A b \in Actors : b # n => base'[b] = base[b] /\ inherited'[b] = inherited[b]
      /\ queue' \in Seq(Loads) /\ Len(queue') = Len(queue) - 1
      /\ loaded' \subseteq Loads
      /\ count' \in 0 .. Budget /\ Len(queue') <= count'
      /\ waiting' \in [Chains -> Loads \cup {None}]
      /\ UNCHANGED <<live, streams>>
  BY <1>1, <1>2, SettlingTypes
<1>4. n \in Actors /\ n \notin Chains /\ Loads \subseteq Actors /\ Chains \subseteq Actors
  BY OperationGuardAssumption DEF Actors
<1>5. /\ CInv'
      /\ token' \in [Guards -> Scopes \cup Streams \cup {None}]
      /\ scopes' \in Seq(Scope) /\ Len(scopes') = Len(scopes)
      /\ frames' \in [Actors -> Seq(Frame)]
      /\ frames'[n] = <<>>
      /\ \A b \in Actors : b # n => frames'[b] = frames[b]
  <2>1. CASE LoadIsRefused(n)
    <3>1. UNCHANGED <<token, scopes, frames, streams>> /\ frames[n] = <<>>
      BY <1>3, <2>1 DEF LoadIsRefused
    <3>2. ASSUME NEW b \in Actors
          PROVE  \/ base'[b] = base[b] /\ inherited'[b] = inherited[b]
                 \/ frames[b] = <<>> /\ base'[b] = 0 /\ inherited'[b] = {}
      BY <1>3, <3>1
    <3>3. CInv'
      BY <3>1, <3>2, HandingOn
    <3> QED
      BY <3>1, <3>3 DEF GInv, TypeOK
  <2>2. CASE LoadEnds(n)
    <3>1. frames[n] # <<>> /\ Leaves(n) /\ Len(frames[n]) = 1 /\ frames[n] \in Seq(Frame)
      BY <1>4, <2>2, CallsAreFrames DEF LoadEnds, GInv, Lines
    <3>2. frames' = [frames EXCEPT ![n] = Front(@)]
      BY <3>1 DEF Leaves
    <3>3. frames'[n] = <<>> /\ \A b \in Actors : b # n => frames'[b] = frames[b]
      <4>1. frames \in [Actors -> Seq(Frame)]
        BY DEF GInv, TypeOK
      <4>2. frames'[n] = Front(frames[n]) /\ \A b \in Actors : b # n => frames'[b] = frames[b]
        BY <1>4, <3>2, <4>1
      <4>3. Front(frames[n]) = SubSeq(frames[n], 1, 0)
        BY <3>1 DEF Front
      <4>4. SubSeq(frames[n], 1, 0) = <<>>
        BY <3>1
      <4> QED
        BY <4>2, <4>3, <4>4
    <3>4. ASSUME NEW b \in Actors
          PROVE  \/ base'[b] = base[b] /\ inherited'[b] = inherited[b]
                 \/ frames'[b] = <<>> /\ base'[b] = 0 /\ inherited'[b] = {}
      BY <1>3, <3>3
    <3>5. /\ CInv'
          /\ token' \in [Guards -> Scopes \cup Streams \cup {None}]
          /\ scopes' \in Seq(Scope) /\ Len(scopes') = Len(scopes)
          /\ frames' \in [Actors -> Seq(Frame)]
      BY <1>3, <1>4, <3>1, <3>4, Leaving
    <3> QED
      BY <3>3, <3>5
  <2> QED
    BY <2>1, <2>2
<1>6. TypeOK'
  BY <1>3, <1>5 DEF GInv, TypeOK
<1>7. \A m \in Loads : frames'[m] = <<>>
  <2> SUFFICES ASSUME NEW m \in Loads, frames'[m] # <<>> PROVE FALSE
    OBVIOUS
  <2>1. m # n /\ frames[m] # <<>>
    BY <1>4, <1>5
  <2>2. m = Head(queue)
    BY <2>1 DEF GInv, Lines
  <2> QED
    BY <1>2, <2>1, <2>2
<1>8. Lines'
  <2>1. \A d \in Chains : frames'[d] = frames[d]
    BY <1>4, <1>5
  <2> QED
    BY <1>3, <1>7, <2>1 DEF GInv, Lines
<1>9. Counted'
  <2>1. ~Running'
    BY <1>7 DEF Running
  <2>2. Len(scopes') + Len(queue') <= MaxScopes + 0
    <3>1. Len(scopes) \in Nat /\ Len(queue) \in Nat /\ MaxScopes \in Nat
      BY OperationGuardAssumption DEF GInv, Nested, TypeOK
    <3>2. Len(scopes) + Len(queue) <= MaxScopes + (IF Running THEN 1 ELSE 0)
      BY DEF GInv, Counted
    <3> QED
      BY <1>3, <1>5, <3>1, <3>2
  <2> QED
    BY <1>3, <2>1, <2>2 DEF Counted
<1> QED
  BY <1>5, <1>6, <1>8, <1>9 DEF GInv, CInv

\* Each action is one of the steps above.
LEMMA NextGInv == GInv /\ [Next]_vars => GInv'
<1> SUFFICES ASSUME GInv, [Next]_vars PROVE GInv'
  OBVIOUS
<1>1. CASE \E c \in Chains : Start(c) \/ Finish(c) \/ \E p \in Chains : Fork(p, c)
  BY <1>1, StartingAndEnding
<1>2. CASE \E c \in Chains : Return(c)
  BY <1>2, Returning
<1>3. CASE \E c \in Chains, g \in Guards, kind \in {"work", "query"} : Call(c, kind, g)
  BY <1>3, Calling
<1>4. CASE \E s \in Streams :
             CloseStream(s) \/ \E c \in Chains, g \in Guards : OpenStream(c, s, g)
  BY <1>4, Streaming
<1>5. CASE \E c \in Chains, n \in Loads : Request(c, n)
  BY <1>5, Requesting
<1>6. CASE \E n \in Loads : LoadStep(n)
  BY <1>6, StartingALoad, EndingALoad DEF LoadStep
<1>7. CASE UNCHANGED vars
  <2>1. UNCHANGED <<token, scopes, live, base, inherited, frames, streams, queue, loaded, count, waiting>>
    BY <1>7 DEF vars, storeVars, loadVars
  <2>2. TypeOK' /\ Nested(scopes')
    BY <2>1 DEF GInv, TypeOK
  <2>3. Calls' = Calls /\ \A x : CallOf(x)' = CallOf(x)
    BY <2>1, SameCalls
  <2>4. CInv'
    <3>1. \A b \in Actors : base'[b] = base[b] /\ inherited'[b] = inherited[b]
      BY <2>1
    <3> QED
      BY <2>1, <3>1, HandingOn
  <2>5. Lines' /\ Counted'
    BY <2>1 DEF GInv, Lines, Counted, Running
  <2> QED
    BY <2>2, <2>4, <2>5 DEF GInv, CInv
<1> QED
  BY <1>1, <1>2, <1>3, <1>4, <1>5, <1>6, <1>7 DEF Next

-----------------------------------------------------------------------------
(* What the guards promise *)

\* So the invariant holds throughout.
LEMMA GuardsStayConsistent == Spec => []GInv
<1>1. Init => GInv
  BY InitGInv
<1>2. GInv /\ [Next]_vars => GInv'
  BY NextGInv
<1> QED
  BY <1>1, <1>2, PTL DEF Spec

\* For any chains, loads and streams, work is part of the operation that has the
\* guard if and only if it was started in it: the store of a chain leads to the
\* scopes around it that are still active, and to no others.
THEOREM WorkStaysInItsScope == Spec => []WorkKeepsItsScope
<1>1. GInv => WorkKeepsItsScope
  <2> SUFFICES ASSUME GInv PROVE WorkKeepsItsScope
    OBVIOUS
  <2> QED
    BY JoiningIsBeingUnder DEF WorkKeepsItsScope
<1> QED
  BY <1>1, GuardsStayConsistent, PTL

\* What holds in one state of the flights of a guard: all of them use the scope
\* that has it, or the stream that does.
LEMMA OneFlight ==
  ASSUME GInv, NEW g \in Guards
  PROVE  Cardinality(InFlight(g)) <= 1
<1>1. /\ DOMAIN streams \subseteq Streams /\ Scopes \cap Streams = {}
      /\ \A s \in DOMAIN streams : streams[s].scope \in 0 .. MaxScopes
      /\ \A x \in Calls : CallOf(x).scope \in Scopes
      /\ None \notin 0 .. MaxScopes /\ Scopes \subseteq 0 .. MaxScopes /\ 0 \notin Scopes
      /\ 0 \notin Streams /\ None \notin Streams
  <2>1. \A s \in DOMAIN streams : streams[s].scope \in 0 .. MaxScopes
    BY DEF GInv, TypeOK, Stream
  <2>2. \A x \in Calls : CallOf(x).scope \in Scopes
    BY CallsAreFrames DEF GInv, Frame
  <2>3. DOMAIN streams \subseteq Streams
    BY DEF GInv, TypeOK
  <2>4. MaxScopes \in Nat /\ 0 \in 0 .. MaxScopes /\ Scopes \subseteq 0 .. MaxScopes /\ 0 \notin Scopes
    BY OperationGuardAssumption DEF Scopes
  <2> QED
    BY <2>1, <2>2, <2>3, <2>4, OperationGuardAssumption
<1>2. ASSUME NEW x \in InFlight(g), NEW y \in InFlight(g) PROVE x = y
  <2> DEFINE Call1(z) == /\ z \in Calls
                         /\ CallOf(z).guard = g /\ CallOf(z).kind = "query" /\ CallOf(z).scope = token[g]
             Stream1(z) == /\ z \in DOMAIN streams
                           /\ streams[z].guard = g /\ token[g] \in {z, streams[z].scope}
  <2>1. (Call1(x) \/ Stream1(x)) /\ (Call1(y) \/ Stream1(y))
    BY DEF InFlight
  <2>2. ASSUME NEW z, Stream1(z)
        PROVE  \/ token[g] = z /\ token[g] \in Streams
               \/ token[g] = streams[z].scope /\ token[g] \in Scopes
    <3>1. CASE token[g] = z
      BY <1>1, <2>2, <3>1
    <3>2. CASE token[g] = streams[z].scope
      <4>1. token[g] # 0
        <5>1. token[g] \in Scopes \cup Streams \cup {None}
          BY DEF GInv, TypeOK
        <5>2. 0 \in 0 .. MaxScopes
          BY OperationGuardAssumption
        <5> QED
          BY <1>1, <5>1, <5>2
      <4>2. token[g] \in Scopes
        <5>1. token[g] \in 0 .. MaxScopes
          BY <1>1, <2>2, <3>2
        <5> QED
          BY <4>1, <5>1, OperationGuardAssumption DEF Scopes
      <4> QED
        BY <3>2, <4>2
    <3> QED
      BY <2>2, <3>1, <3>2
  <2>3. ASSUME NEW z, Call1(z) PROVE token[g] \in Scopes
    BY <1>1, <2>3
  <2>4. CASE Call1(x) /\ Call1(y)
    BY <2>4 DEF GInv, OneUser
  <2>5. ASSUME NEW v, NEW w, Call1(v), Stream1(w) PROVE FALSE
    <3>1. token[g] \in Scopes
      BY <2>3, <2>5
    <3>2. token[g] = streams[w].scope
      BY <1>1, <2>2, <2>5, <3>1
    <3> QED
      BY <2>5, <3>2 DEF GInv, OneUser
  <2>6. CASE Stream1(x) /\ Stream1(y)
    <3>1. CASE token[g] \in Streams
      <4>1. token[g] = x /\ token[g] = y
        BY <1>1, <2>2, <2>6, <3>1
      <4> QED
        BY <4>1
    <3>2. CASE token[g] \in Scopes
      <4>1. token[g] = streams[x].scope /\ token[g] = streams[y].scope
        BY <1>1, <2>2, <2>6, <3>2
      <4>2. streams[x].scope # 0
        BY <1>1, <3>2, <4>1
      <4> QED
        BY <2>6, <4>1, <4>2 DEF GInv, OneUser
    <3> QED
      BY <2>2, <2>6, <3>1, <3>2
  <2> QED
    BY <2>1, <2>4, <2>5, <2>6
<1>3. CASE InFlight(g) = {}
  <2>1. Cardinality(InFlight(g)) = 0
    BY <1>3, FS_EmptySet
  <2> QED
    BY <2>1
<1>4. CASE InFlight(g) # {}
  <2>1. PICK x : x \in InFlight(g)
    BY <1>4
  <2>2. InFlight(g) = {x}
    BY <1>2, <2>1
  <2>3. Cardinality(InFlight(g)) = 1
    BY <2>2, FS_Singleton
  <2> QED
    BY <2>3
<1> QED
  BY <1>3, <1>4

\* For any chains, loads and streams, a guard is held by one call or stream from
\* its start to its end, and has one query or stream at a time on its connection:
\* the querying of a scope says that it has one, and no two share a scope.
THEOREM OneQueryUsesAConnection == Spec => []OneQueryAtATime
<1>1. GInv => OneQueryAtATime
  <2> SUFFICES ASSUME GInv PROVE OneQueryAtATime
    OBVIOUS
  <2>1. \A g \in Guards : Cardinality(InFlight(g)) <= 1
    BY OneFlight
  <2>2. ASSUME NEW g \in Guards, token[g] # None
        PROVE  \/ token[g] \in DOMAIN streams /\ streams[token[g]].guard = g
               \/ \E x \in Calls : CallOf(x).owns /\ CallOf(x).guard = g /\ CallOf(x).scope = token[g]
    <3>1. token[g] \in Scopes \/ token[g] \in Streams
      BY <2>2 DEF GInv, TypeOK
    <3>2. CASE token[g] \in Scopes
      BY <3>2 DEF GInv, Held
    <3>3. CASE token[g] \in Streams
      <4>1. token[g] \in DOMAIN streams /\ streams[token[g]] = [guard |-> g, scope |-> 0]
        BY <3>3 DEF GInv, Held
      <4> QED
        BY <4>1
    <3> QED
      BY <3>1, <3>2, <3>3
  <2>3. \A x \in Calls : CallOf(x).owns => token[CallOf(x).guard] = CallOf(x).scope
    BY DEF GInv, Held
  <2>4. \A n \in Loads : frames[n] # <<>> => n = Head(queue)
    BY DEF GInv, Lines
  <2>5. TypeOK
    BY DEF GInv
  <2> QED
    BY <2>1, <2>2, <2>3, <2>4, <2>5 DEF OneQueryAtATime
<1> QED
  BY <1>1, GuardsStayConsistent, PTL

-----------------------------------------------------------------------------
(* The budget of lazy loads *)

QInv == IsFiniteSet(loaded) /\ LoadsAreCounted

\* A load that is not under way yet takes one place in the budget and the queue.
LEMMA RequestIsCounted ==
  ASSUME GInv, QInv, NEW c \in Chains, NEW n \in Loads, Request(c, n)
  PROVE  QInv'
<1>1. /\ queue \in Seq(Loads) /\ Len(queue) \in Nat /\ waiting \in [Chains -> Loads \cup {None}]
      /\ n \notin loaded /\ n # None
  BY OperationGuardAssumption DEF GInv, TypeOK, Request
<1>2. /\ loaded' = loaded /\ waiting' = [waiting EXCEPT ![c] = n]
      /\ waiting'[c] = n /\ \A d \in Chains : d # c => waiting'[d] = waiting[d]
  BY <1>1 DEF Request
<1>3. \A m : m \in Range(queue) <=> \E i \in 1 .. Len(queue) : queue[i] = m
  BY <1>1 DEF Range
<1>4. CASE n \in Range(queue) /\ UNCHANGED <<base, inherited, queue, count>>
  <2>1. queue' = queue /\ count' = count
    BY <1>4
  <2> QED
    BY <1>2, <1>3, <1>4, <2>1 DEF QInv, LoadsAreCounted
<1>5. CASE n \notin Range(queue)
  <2>1. queue' = Append(queue, n) /\ count' = count + 1
    BY <1>5 DEF Request
  <2>2. /\ Len(queue') = Len(queue) + 1 /\ queue'[Len(queue) + 1] = n
        /\ \A i \in 1 .. Len(queue) : queue'[i] = queue[i] /\ queue[i] # n
        /\ 1 .. Len(queue') = (1 .. Len(queue)) \cup {Len(queue) + 1}
    BY <1>1, <1>3, <1>5, <2>1
  <2>3. \A i, j \in 1 .. Len(queue') : queue'[i] = queue'[j] => i = j
    BY <2>2 DEF QInv, LoadsAreCounted
  <2>4. \A i \in 1 .. Len(queue') : queue'[i] \notin loaded'
    BY <1>1, <1>2, <2>2 DEF QInv, LoadsAreCounted
  <2>5. \A d \in Chains : waiting'[d] # None => \E i \in 1 .. Len(queue') : queue'[i] = waiting'[d]
    BY <1>2, <2>2 DEF QInv, LoadsAreCounted
  <2>6. count' = Cardinality(loaded') + Len(queue')
    <3>1. Cardinality(loaded) \in Nat
      BY FS_CardinalityType DEF QInv
    <3> QED
      BY <1>1, <1>2, <2>1, <2>2, <3>1 DEF QInv, LoadsAreCounted
  <2> QED
    BY <1>2, <2>3, <2>4, <2>5, <2>6 DEF QInv, LoadsAreCounted
<1> QED
  BY <1>4, <1>5 DEF Request

\* The first load leaves the queue: it keeps its place in the budget only if it
\* has succeeded, and nobody awaits it any more.
LEMMA SettledIsCounted ==
  ASSUME GInv, QInv, NEW n \in Loads, Turn(n), NEW isLoaded \in BOOLEAN, Settles(n, isLoaded)
  PROVE  QInv'
<1>1. /\ queue \in Seq(Loads) /\ queue # <<>> /\ waiting \in [Chains -> Loads \cup {None}]
      /\ n = queue[1] /\ n # None
  BY OperationGuardAssumption DEF GInv, TypeOK, Turn
<1>2. /\ queue' = Tail(queue)
      /\ waiting' = [c \in Chains |-> IF waiting[c] = n THEN None ELSE waiting[c]]
      /\ loaded' = IF isLoaded THEN loaded \cup {n} ELSE loaded
      /\ count' = IF isLoaded THEN count ELSE count - 1
  BY DEF Settles, PassesOn
<1> DEFINE k == Len(queue)
<1>3. /\ k \in Nat /\ k >= 1 /\ Len(queue') = k - 1
      /\ \A i \in 1 .. k - 1 : i + 1 \in 1 .. k /\ queue'[i] = queue[i + 1]
  BY <1>1, <1>2
<1>4. \A i \in 1 .. k : i # 1 => queue[i] # n
  BY <1>1, <1>3 DEF QInv, LoadsAreCounted
<1>5. \A i, j \in 1 .. Len(queue') : queue'[i] = queue'[j] => i = j
  BY <1>3 DEF QInv, LoadsAreCounted
<1>6. \A i \in 1 .. Len(queue') : queue'[i] \notin loaded'
  <2> SUFFICES ASSUME NEW i \in 1 .. Len(queue') PROVE queue'[i] \notin loaded'
    OBVIOUS
  <2>1. i + 1 \in 1 .. k /\ i + 1 # 1 /\ queue'[i] = queue[i + 1]
    BY <1>3
  <2>2. queue'[i] \notin loaded /\ queue'[i] # n
    BY <1>4, <2>1 DEF QInv, LoadsAreCounted
  <2> QED
    BY <1>2, <2>2
<1>7. \A d \in Chains : waiting'[d] # None => \E i \in 1 .. Len(queue') : queue'[i] = waiting'[d]
  <2> SUFFICES ASSUME NEW d \in Chains, waiting'[d] # None
               PROVE  \E i \in 1 .. Len(queue') : queue'[i] = waiting'[d]
    OBVIOUS
  <2>1. waiting[d] # n /\ waiting'[d] = waiting[d]
    BY <1>2
  <2>2. PICK j \in 1 .. k : queue[j] = waiting[d]
    BY <2>1 DEF QInv, LoadsAreCounted
  <2>3. j # 1
    BY <1>1, <2>1, <2>2
  <2>4. j - 1 \in 1 .. k - 1 /\ (j - 1) + 1 = j
    BY <1>3, <2>2, <2>3
  <2>5. queue'[j - 1] = queue[j]
    BY <1>3, <2>4
  <2> QED
    BY <1>3, <2>1, <2>2, <2>4, <2>5
<1>8. IsFiniteSet(loaded') /\ count' = Cardinality(loaded') + Len(queue')
  <2>1. n \notin loaded /\ IsFiniteSet(loaded) /\ count = Cardinality(loaded) + k
    BY <1>1, <1>3 DEF QInv, LoadsAreCounted
  <2>2. Cardinality(loaded) \in Nat
    BY <2>1, FS_CardinalityType
  <2>3. IsFiniteSet(loaded \cup {n}) /\ Cardinality(loaded \cup {n}) = Cardinality(loaded) + 1
    BY <2>1, FS_AddElement
  <2> QED
    BY <1>2, <1>3, <2>1, <2>2, <2>3
<1> QED
  BY <1>5, <1>6, <1>7, <1>8 DEF QInv, LoadsAreCounted

\* For any loads, failures and refusals, the budget counts what is loaded or
\* under way, and nobody awaits a load that is not in the queue.
THEOREM BudgetIsExact == Spec => []LoadsAreCounted
<1>1. Init => QInv
  <2> SUFFICES ASSUME Init PROVE QInv
    OBVIOUS
  <2>1. loaded = {} /\ queue = <<>> /\ Len(queue) = 0 /\ count = 0
        /\ \A c \in Chains : waiting[c] = None
    BY DEF Init
  <2> QED
    BY <2>1, FS_EmptySet DEF QInv, LoadsAreCounted
<1>2. GInv /\ QInv /\ [Next]_vars => QInv'
  <2> SUFFICES ASSUME GInv, QInv, [Next]_vars PROVE QInv'
    OBVIOUS
  <2>1. CASE UNCHANGED loadVars
    BY <2>1 DEF loadVars, QInv, LoadsAreCounted
  <2>2. ASSUME NEW c \in Chains, NEW n \in Loads, Request(c, n) PROVE QInv'
    BY <2>2, RequestIsCounted
  <2>3. ASSUME NEW n \in Loads, LoadIsRefused(n) PROVE QInv'
    BY <2>3, SettledIsCounted DEF LoadIsRefused
  <2>4. ASSUME NEW n \in Loads, LoadEnds(n) PROVE QInv'
    <3>1. Turn(n)
      BY <2>4 DEF GInv, Lines, LoadEnds, Turn
    <3> QED
      BY <2>4, <3>1, SettledIsCounted DEF LoadEnds
  <2>5. \/ UNCHANGED loadVars
        \/ \E c \in Chains, n \in Loads : Request(c, n)
        \/ \E n \in Loads : LoadIsRefused(n) \/ LoadEnds(n)
    BY DEF Next, vars, Start, Fork, Begins, Finish, Return, Call, OpenStream, CloseStream,
           LoadStep, StartLoad
  <2> QED
    BY <2>1, <2>2, <2>3, <2>4, <2>5
<1>3. QInv => LoadsAreCounted
  BY DEF QInv
<1> QED
  BY <1>1, <1>2, <1>3, GuardsStayConsistent, PTL DEF Spec
=============================================================================
