----------------------- MODULE PooledConnectionProofs -----------------------
(***************************************************************************)
(* What holds of PooledConnection for any pool, any writes, any nesting of *)
(* transaction() and session(), and both servers: idle clients are clean,  *)
(* and what a caller is told of a transaction is what the server did.      *)
(***************************************************************************)
EXTENDS PooledConnection, SequenceTheorems, WellFoundedInduction, TLAPS

-----------------------------------------------------------------------------
(* Largest elements, and sequences without their last element *)

LEMMA LeastElement ==
  ASSUME NEW T, T \subseteq Nat, T # {}
  PROVE  \E x \in T : \A y \in T : x <= y
<1> DEFINE R == OpToRel(<, Nat)
<1>1. IsWellFoundedOn(R, Nat)
  BY NatLessThanWellFounded
<1>2. \A x, y \in Nat : <<y, x>> \in R <=> y < x
  BY DEF OpToRel
<1> HIDE DEF R
<1>3. PICK x \in T : \A y \in T : ~ (<<y, x>> \in R)
  BY <1>1, WFMin
<1>4. \A y \in T : y \in Nat /\ ~(y < x)
  BY <1>2, <1>3
<1>5. \A y \in T : x <= y
  BY <1>4
<1> QED
  BY <1>5

LEMMA LargestElement ==
  ASSUME NEW T, T \subseteq Nat, T # {}, NEW n \in Nat, \A y \in T : y <= n
  PROVE  Max(T) \in T /\ \A y \in T : Max(T) >= y
<1> DEFINE U == {n - y : y \in T}
<1>1. U # {}
  OBVIOUS
<1>2. U \subseteq Nat
  OBVIOUS
<1>3. PICK x \in U : \A y \in U : x <= y
  BY <1>1, <1>2, LeastElement
<1>4. PICK z \in T : x = n - z
  OBVIOUS
<1>5. ASSUME NEW y \in T PROVE z >= y
  <2>1. n - z <= n - y /\ z \in Nat /\ y \in Nat
    BY <1>3, <1>4
  <2> QED
    BY <2>1
<1>6. \E m \in T : \A y \in T : m >= y
  BY <1>5
<1> QED
  BY <1>6, Zenon DEF Max

LEMMA WithoutLast ==
  ASSUME NEW S, NEW s \in Seq(S), s # <<>>
  PROVE  /\ Len(s) \in Nat \ {0}
         /\ Front(s) \in Seq(S)
         /\ Len(Front(s)) = Len(s) - 1
         /\ \A i \in 1..Len(s) - 1 : Front(s)[i] = s[i]
         /\ Last(s) = s[Len(s)] /\ Last(s) \in S
<1>1. Len(s) \in Nat \ {0}
  OBVIOUS
<1> DEFINE n == Len(s) - 1
<1>2. n \in Nat /\ \A i \in 1..n : s[i] \in S
  BY <1>1
<1>3. /\ SubSeq(s, 1, n) \in Seq(S)
      /\ Len(SubSeq(s, 1, n)) = IF 1 <= n THEN n - 1 + 1 ELSE 0
      /\ \A i \in 1..n - 1 + 1 : SubSeq(s, 1, n)[i] = s[1 + i - 1]
  <2> HIDE DEF n
  <2> QED
    BY <1>2, SubSeqProperties
<1>4. Front(s) = SubSeq(s, 1, n)
  BY DEF Front
<1>5. n - 1 + 1 = n /\ \A i \in 1..n : 1 + i - 1 = i
  BY <1>2
<1>6. Len(Front(s)) = n
  <2> HIDE DEF n
  <2>1. n = 0 \/ 1 <= n
    BY <1>2
  <2> QED
    BY <1>2, <1>3, <1>4, <1>5, <2>1
<1>7. \A i \in 1..n : Front(s)[i] = s[i]
  <2> HIDE DEF n
  <2> QED
    BY <1>3, <1>4, <1>5
<1>8. Last(s) = s[Len(s)] /\ Last(s) \in S
  BY <1>1 DEF Last
<1> QED
  BY <1>1, <1>3, <1>4, <1>6, <1>7, <1>8

-----------------------------------------------------------------------------
(* What the commands do to a native transaction *)

\* Named finds the latest savepoint of a name.
LEMMA NamedFinds ==
  ASSUME NEW s \in Seq(Savepoint), NEW n \in Nat
  PROVE  /\ Named(s, n) \in Nat
         /\ Named(s, n) = 0 \/ (Named(s, n) \in 2..Len(s) /\ s[Named(s, n)].name = n)
         /\ \A i \in 2..Len(s) : s[i].name = n => Named(s, n) # 0 /\ i <= Named(s, n)
<1> DEFINE at == {i \in 2..Len(s) : s[i].name = n}
<1>0. Len(s) \in Nat
  OBVIOUS
<1>1. CASE at = {}
  <2>1. Named(s, n) = 0
    BY <1>1 DEF Named
  <2> QED
    BY <1>1, <2>1
<1>2. CASE at # {}
  <2>1. at \subseteq Nat /\ \A i \in at : i <= Len(s)
    BY <1>0
  <2>2. Max(at) \in at /\ \A y \in at : Max(at) >= y
    <3> HIDE DEF at
    <3> QED
      BY <1>0, <1>2, <2>1, LargestElement
  <2>3. Named(s, n) = Max(at)
    BY <1>2 DEF Named
  <2> HIDE DEF at
  <2>4. Named(s, n) \in at /\ \A y \in at : Named(s, n) >= y
    BY <2>2, <2>3
  <2> USE DEF at
  <2> QED
    BY <1>0, <2>4
<1> QED
  BY <1>1, <1>2

\* The first n frames, with other writes in the last of them.
Truncation(s, n, W) == [SubSeq(s, 1, n) EXCEPT ![n].writes = W]

LEMMA Truncated ==
  ASSUME NEW s \in Seq(Savepoint), NEW n \in 1..Len(s), NEW W \in SUBSET Writes
  PROVE  /\ Truncation(s, n, W) \in Seq(Savepoint)
         /\ Len(Truncation(s, n, W)) = n
         /\ Truncation(s, n, W)[n] = [name |-> s[n].name, writes |-> W]
         /\ \A i \in 1..n - 1 : Truncation(s, n, W)[i] = s[i]
<1> DEFINE p == SubSeq(s, 1, n)
           e == [name |-> s[n].name, writes |-> W]
<1>1. Len(s) \in Nat /\ n \in Nat /\ 1 <= n /\ \A i \in 1..n : s[i] \in Savepoint
  OBVIOUS
<1>2. p \in Seq(Savepoint) /\ Len(p) = n /\ \A i \in 1..n : p[i] = s[i]
  <2>1. /\ p \in Seq(Savepoint)
        /\ Len(p) = IF 1 <= n THEN n - 1 + 1 ELSE 0
        /\ \A i \in 1..n - 1 + 1 : p[i] = s[1 + i - 1]
    BY <1>1, SubSeqProperties
  <2> HIDE DEF p
  <2> QED
    BY <1>1, <2>1
<1>3. e \in Savepoint
  BY <1>1 DEF Savepoint
<1>4. [p EXCEPT ![n].writes = W] = [p EXCEPT ![n] = e]
  <2>1. p[n] \in Savepoint /\ p[n].name = s[n].name
    BY <1>1, <1>2
  <2>2. [p[n] EXCEPT !.writes = W] = e
    BY <2>1 DEF Savepoint
  <2> QED
    BY <2>2
<1> HIDE DEF p, e
<1>5. /\ [p EXCEPT ![n] = e] \in Seq(Savepoint)
      /\ Len([p EXCEPT ![n] = e]) = Len(p)
      /\ \A j \in 1..Len(p) : [p EXCEPT ![n] = e][j] = IF j = n THEN e ELSE p[j]
  BY <1>1, <1>2, <1>3, ExceptSeq
<1>6. \A i \in 1..n - 1 : [p EXCEPT ![n] = e][i] = s[i]
  BY <1>1, <1>2, <1>5
<1>7. [p EXCEPT ![n] = e][n] = e
  BY <1>1, <1>2, <1>5
<1>8. /\ [p EXCEPT ![n].writes = W] \in Seq(Savepoint)
      /\ Len([p EXCEPT ![n].writes = W]) = n
      /\ [p EXCEPT ![n].writes = W][n] = e
      /\ \A i \in 1..n - 1 : [p EXCEPT ![n].writes = W][i] = s[i]
  BY <1>2, <1>4, <1>5, <1>6, <1>7
<1> QED
  BY <1>8 DEF p, e, Truncation

\* The writes of the i-th frame and those above it.
Above(s, i) == UNION {s[j].writes : j \in i..Len(s)}

LEMMA AboveIsAllWrites ==
  ASSUME NEW s \in Seq(Savepoint), NEW i \in 1..Len(s)
  PROVE  /\ AllWrites(SubSeq(s, i, Len(s))) = Above(s, i)
         /\ Above(s, i) \subseteq Writes
<1>1. /\ Len(s) \in Nat /\ i \in Nat /\ 1 <= i /\ i <= Len(s)
      /\ \A j \in i..Len(s) : s[j] \in Savepoint
  OBVIOUS
<1> DEFINE q == SubSeq(s, i, Len(s))
<1>2. /\ q \in Seq(Savepoint)
      /\ Len(q) = IF i <= Len(s) THEN Len(s) - i + 1 ELSE 0
      /\ \A k \in 1..Len(s) - i + 1 : q[k] = s[i + k - 1]
  BY <1>1, SubSeqProperties
<1> HIDE DEF q
<1>3. Len(q) = Len(s) - i + 1 /\ DOMAIN q = 1..Len(s) - i + 1
  <2>1. Len(q) = Len(s) - i + 1
    BY <1>1, <1>2
  <2> QED
    BY <1>2, <2>1, LenProperties
<1>4. ASSUME NEW k \in DOMAIN q
      PROVE  i + k - 1 \in i..Len(s) /\ q[k] = s[i + k - 1]
  BY <1>1, <1>2, <1>3
<1>5. ASSUME NEW j \in i..Len(s)
      PROVE  j - i + 1 \in DOMAIN q /\ q[j - i + 1] = s[j]
  <2>1. j - i + 1 \in 1..Len(s) - i + 1 /\ i + (j - i + 1) - 1 = j
    BY <1>1
  <2> QED
    BY <1>2, <1>3, <2>1
<1>6. {q[k].writes : k \in DOMAIN q} = {s[j].writes : j \in i..Len(s)}
  <2> DEFINE R == {s[j].writes : j \in i..Len(s)}
             L == {q[k].writes : k \in DOMAIN q}
  <2>1. ASSUME NEW k \in DOMAIN q PROVE q[k].writes \in R
    BY <1>4
  <2>2. ASSUME NEW j \in i..Len(s) PROVE s[j].writes \in L
    BY <1>5
  <2>3. L \subseteq R
    <3> HIDE DEF R
    <3> QED
      BY <2>1
  <2>4. R \subseteq L
    <3> HIDE DEF L
    <3> QED
      BY <2>2
  <2> HIDE DEF L, R
  <2>5. L = R
    BY <2>3, <2>4
  <2> QED
    BY <2>5 DEF L, R
<1>7. AllWrites(q) = Above(s, i)
  BY <1>6, Zenon DEF AllWrites, Above
<1>8. Above(s, i) \subseteq Writes
  BY <1>1 DEF Above, Savepoint
<1> QED
  BY <1>7, <1>8 DEF q

LEMMA MergedFrames ==
  ASSUME NEW s \in Seq(Savepoint), NEW i \in 2..Len(s)
  PROVE  /\ Merged(s, i) \in Seq(Savepoint)
         /\ Len(Merged(s, i)) = i - 1
         /\ Merged(s, i)[i - 1] = [name |-> s[i - 1].name,
                                   writes |-> s[i - 1].writes \cup Above(s, i)]
         /\ \A j \in 1..i - 2 : Merged(s, i)[j] = s[j]
<1> DEFINE n == i - 1
           W == s[n].writes \cup Above(s, i)
<1>1. /\ n \in 1..Len(s) /\ n \in Nat /\ 1 <= n /\ Len(s) \in Nat /\ i \in 1..Len(s)
      /\ s[n] \in Savepoint /\ n - 1 = i - 2
  OBVIOUS
<1>2. AllWrites(SubSeq(s, i, Len(s))) = Above(s, i) /\ W \in SUBSET Writes
  BY <1>1, AboveIsAllWrites DEF Savepoint
<1>3. SubSeq(s, 1, n)[n] = s[n]
  <2>1. \A k \in 1..n : s[k] \in Savepoint
    BY <1>1
  <2>2. \A k \in 1..n - 1 + 1 : SubSeq(s, 1, n)[k] = s[1 + k - 1]
    <3> HIDE DEF n
    <3> QED
      BY <1>1, <2>1, SubSeqProperties
  <2> HIDE DEF n
  <2> QED
    BY <1>1, <2>2
<1>4. Merged(s, i) = Truncation(s, n, W)
  BY <1>2, <1>3 DEF Merged, Truncation
<1> HIDE DEF n, W
<1>5. /\ Truncation(s, n, W) \in Seq(Savepoint)
      /\ Len(Truncation(s, n, W)) = n
      /\ Truncation(s, n, W)[n] = [name |-> s[n].name, writes |-> W]
      /\ \A j \in 1..n - 1 : Truncation(s, n, W)[j] = s[j]
  BY <1>1, <1>2, Truncated
<1>6. /\ Merged(s, i) \in Seq(Savepoint)
      /\ Len(Merged(s, i)) = n
      /\ Merged(s, i)[n] = [name |-> s[n].name, writes |-> W]
      /\ \A j \in 1..n - 1 : Merged(s, i)[j] = s[j]
  BY <1>4, <1>5
<1> QED
  BY <1>1, <1>6 DEF n, W

LEMMA FramesAfterRollback ==
  ASSUME NEW s \in Seq(Savepoint), NEW n \in Nat, Named(s, n) # 0
  PROVE  LET i == Named(s, n) q == RolledBackTo(s, n)
         IN  /\ q \in Seq(Savepoint)
             /\ Len(q) = i /\ q # <<>>
             /\ q[i] = [name |-> n, writes |-> {}]
             /\ \A j \in 1..i - 1 : q[j] = s[j]
<1>1. /\ Named(s, n) \in 2..Len(s) /\ s[Named(s, n)].name = n
      /\ Named(s, n) \in 1..Len(s) /\ Named(s, n) # 0
  <2>1. Named(s, n) \in 2..Len(s) /\ s[Named(s, n)].name = n
    BY NamedFinds
  <2>2. \A k \in 2..Len(s) : k \in 1..Len(s) /\ k # 0
    OBVIOUS
  <2> QED
    BY <2>1, <2>2
<1> DEFINE i == Named(s, n)
           none == {}
<1>2. RolledBackTo(s, n) = Truncation(s, i, none)
  BY DEF RolledBackTo, Truncation
<1>3. none \in SUBSET Writes /\ none = {}
  OBVIOUS
<1> HIDE DEF i, none
<1>4. i \in 1..Len(s) /\ s[i].name = n
  BY <1>1 DEF i
<1>5. /\ Truncation(s, i, none) \in Seq(Savepoint)
      /\ Len(Truncation(s, i, none)) = i
      /\ Truncation(s, i, none)[i] = [name |-> s[i].name, writes |-> none]
      /\ \A j \in 1..i - 1 : Truncation(s, i, none)[j] = s[j]
  <2>1. i \in 1..Len(s) /\ none \in SUBSET Writes
    BY <1>3, <1>4
  <2> QED
    BY <2>1, Truncated
<1>6. /\ RolledBackTo(s, n) \in Seq(Savepoint)
      /\ Len(RolledBackTo(s, n)) = i
      /\ RolledBackTo(s, n)[i] = [name |-> n, writes |-> {}]
      /\ \A j \in 1..i - 1 : RolledBackTo(s, n)[j] = s[j]
  BY <1>2, <1>3, <1>4, <1>5
<1>7. RolledBackTo(s, n) # <<>>
  BY <1>4, <1>6
<1> QED
  BY <1>6, <1>7 DEF i

Fresh(n) == [name |-> n, writes |-> {}]

LEMMA FramesWithSavepoint ==
  ASSUME NEW s \in Seq(Savepoint), NEW n \in Nat
  PROVE  LET i == Named(s, n) q == WithSavepoint(s, n)
         IN  /\ q \in Seq(Savepoint) /\ q # <<>>
             /\ Postgres \/ i = 0 => q = Append(s, Fresh(n))
             /\ ~Postgres /\ i # 0 /\ i = Len(s) =>
                  /\ Len(q) = i
                  /\ q[i] = Fresh(n)
                  /\ q[i - 1] = [name |-> s[i - 1].name,
                                 writes |-> s[i - 1].writes \cup s[i].writes]
                  /\ \A j \in 1..i - 2 : q[j] = s[j]
<1> DEFINE i == Named(s, n)
           p == SubSeq(s, 1, i - 1) \o SubSeq(s, i + 1, Len(s))
           forgotten == [p EXCEPT ![i - 1].writes = @ \cup s[i].writes]
<1>0. Fresh(n) \in Savepoint
  BY DEF Fresh, Savepoint
<1>1. Len(s) \in Nat /\ i \in Nat /\ (i = 0 \/ (i \in 2..Len(s)))
  BY NamedFinds
<1>2. CASE Postgres \/ i = 0
  <2>1. WithSavepoint(s, n) = Append(s, Fresh(n))
    BY <1>2 DEF WithSavepoint, Fresh
  <2>2. Append(s, Fresh(n)) \in Seq(Savepoint) /\ Append(s, Fresh(n)) # <<>>
    BY <1>0, AppendProperties
  <2> QED
    BY <1>2, <2>1, <2>2
<1>3. CASE ~(Postgres \/ i = 0)
  <2>1. WithSavepoint(s, n) = Append(forgotten, Fresh(n))
    BY <1>3 DEF WithSavepoint, Fresh
  <2>2. i \in 2..Len(s) /\ i \in Nat /\ i - 1 \in Nat /\ 1 <= i - 1 /\ 2 <= i /\ i <= Len(s)
    BY <1>1, <1>3
  <2> HIDE DEF i
  <2>3. /\ SubSeq(s, 1, i - 1) \in Seq(Savepoint)
        /\ Len(SubSeq(s, 1, i - 1)) = i - 1
        /\ \A j \in 1..i - 1 : SubSeq(s, 1, i - 1)[j] = s[j]
    <3>1. \A j \in 1..i - 1 : s[j] \in Savepoint
      BY <2>2
    <3>2. /\ SubSeq(s, 1, i - 1) \in Seq(Savepoint)
          /\ Len(SubSeq(s, 1, i - 1)) = IF 1 <= i - 1 THEN i - 1 - 1 + 1 ELSE 0
          /\ \A j \in 1..i - 1 - 1 + 1 : SubSeq(s, 1, i - 1)[j] = s[1 + j - 1]
      BY <2>2, <3>1, SubSeqProperties
    <3> DEFINE u == SubSeq(s, 1, i - 1)
    <3> HIDE DEF u
    <3>3. /\ u \in Seq(Savepoint)
          /\ Len(u) = IF 1 <= i - 1 THEN i - 1 - 1 + 1 ELSE 0
          /\ \A j \in 1..i - 1 - 1 + 1 : u[j] = s[1 + j - 1]
      BY <3>2 DEF u
    <3>4. u \in Seq(Savepoint) /\ Len(u) = i - 1 /\ \A j \in 1..i - 1 : u[j] = s[j]
      BY <2>2, <3>3
    <3> QED
      BY <3>4 DEF u
  <2>4. /\ SubSeq(s, i + 1, Len(s)) \in Seq(Savepoint)
        /\ Len(SubSeq(s, i + 1, Len(s))) = Len(s) - i
    <3>1. \A j \in i + 1..Len(s) : s[j] \in Savepoint
      BY <2>2
    <3> DEFINE u == SubSeq(s, i + 1, Len(s))
    <3>2. /\ u \in Seq(Savepoint)
          /\ Len(u) = IF i + 1 <= Len(s) THEN Len(s) - (i + 1) + 1 ELSE 0
      BY <1>1, <2>2, <3>1, SubSeqProperties
    <3> HIDE DEF u
    <3>3. u \in Seq(Savepoint) /\ Len(u) = Len(s) - i
      BY <1>1, <2>2, <3>2
    <3> QED
      BY <3>3 DEF u
  <2>5. /\ p \in Seq(Savepoint) /\ Len(p) = Len(s) - 1
        /\ \A j \in 1..i - 1 : p[j] = s[j]
    <3> DEFINE a == SubSeq(s, 1, i - 1)
               b == SubSeq(s, i + 1, Len(s))
    <3> HIDE DEF a, b
    <3>1. /\ a \in Seq(Savepoint) /\ Len(a) = i - 1 /\ \A j \in 1..i - 1 : a[j] = s[j]
          /\ b \in Seq(Savepoint) /\ Len(b) = Len(s) - i
      BY <2>3, <2>4 DEF a, b
    <3>2. /\ a \o b \in Seq(Savepoint)
          /\ Len(a \o b) = Len(a) + Len(b)
          /\ \A j \in 1..Len(a) + Len(b) :
               (a \o b)[j] = IF j <= Len(a) THEN a[j] ELSE b[j - Len(a)]
      BY <3>1, ConcatProperties
    <3>3. /\ a \o b \in Seq(Savepoint) /\ Len(a \o b) = Len(s) - 1
          /\ \A j \in 1..i - 1 : (a \o b)[j] = s[j]
      BY <1>1, <2>2, <3>1, <3>2
    <3> QED
      BY <3>3 DEF a, b
  <2> HIDE DEF p
  <2> DEFINE e == [name |-> s[i - 1].name, writes |-> s[i - 1].writes \cup s[i].writes]
  <2>6. s[i - 1] \in Savepoint /\ s[i] \in Savepoint /\ p[i - 1] = s[i - 1]
        /\ i - 1 \in 1..Len(p)
    BY <2>2, <2>5
  <2>7. e \in Savepoint
    BY <2>6 DEF Savepoint
  <2>8. forgotten = [p EXCEPT ![i - 1] = e]
    <3>1. ASSUME NEW f \in Savepoint, NEW W
          PROVE  [f EXCEPT !.writes = W] = [name |-> f.name, writes |-> W]
      BY DEF Savepoint
    <3>2. [p[i - 1] EXCEPT !.writes = p[i - 1].writes \cup s[i].writes] = e
      BY <2>6, <3>1
    <3> QED
      BY <3>2
  <2> HIDE DEF e, forgotten
  <2>9. /\ forgotten \in Seq(Savepoint) /\ Len(forgotten) = Len(p)
        /\ \A j \in 1..Len(p) : forgotten[j] = IF j = i - 1 THEN e ELSE p[j]
    BY <2>5, <2>6, <2>7, <2>8, ExceptSeq
  <2>10. /\ Append(forgotten, Fresh(n)) \in Seq(Savepoint)
         /\ Append(forgotten, Fresh(n)) # <<>>
         /\ Len(Append(forgotten, Fresh(n))) = Len(forgotten) + 1
         /\ \A j \in 1..Len(forgotten) : Append(forgotten, Fresh(n))[j] = forgotten[j]
         /\ Append(forgotten, Fresh(n))[Len(forgotten) + 1] = Fresh(n)
    BY <1>0, <2>9, AppendProperties
  <2> DEFINE q == WithSavepoint(s, n)
  <2>11. /\ q \in Seq(Savepoint) /\ q # <<>>
         /\ Len(q) = Len(s) /\ q[Len(s)] = Fresh(n)
         /\ \A j \in 1..Len(s) - 1 : q[j] = IF j = i - 1 THEN e ELSE p[j]
    <3> HIDE DEF q
    <3>1. q = Append(forgotten, Fresh(n))
      BY <2>1 DEF q
    <3>2. Len(forgotten) = Len(s) - 1 /\ Len(forgotten) + 1 = Len(s)
      BY <1>1, <2>5, <2>9
    <3> QED
      BY <2>5, <2>9, <2>10, <3>1, <3>2
  <2> HIDE DEF q
  <2>12. i = Len(s) => q[i - 1] = e /\ \A j \in 1..i - 2 : q[j] = s[j]
    <3> SUFFICES ASSUME i = Len(s)
                 PROVE  q[i - 1] = e /\ \A j \in 1..i - 2 : q[j] = s[j]
      OBVIOUS
    <3>1. i - 1 \in 1..Len(s) - 1
      BY <2>2
    <3>2. \A j \in 1..i - 2 : j \in 1..Len(s) - 1 /\ j \in 1..i - 1 /\ j # i - 1
      BY <2>2
    <3> QED
      BY <2>5, <2>11, <3>1, <3>2
  <2> QED
    BY <1>3, <2>11, <2>12 DEF q, e, i
<1> QED
  BY <1>2, <1>3

-----------------------------------------------------------------------------
(* The client of the chain, and the calls it is inside of *)

Clean(c) == stack[c] = <<>> /\ c \notin aborted

InSession == IF calls # <<>> /\ calls[1].kind = "session" THEN 1 ELSE 0

\* A session is outermost, a root outermost or in a session, and a savepoint is
\* set in one of the two others than a session; the outermost owns the client.
WellPlaced(i) ==
  /\ CASE calls[i].kind = "session" -> i = 1
       [] calls[i].kind = "root" -> i = 1 \/ (i = 2 /\ calls[1].kind = "session")
       [] OTHER -> i > 1 /\ calls[i - 1].kind # "session"
  /\ calls[i].owns <=> i = 1
  /\ calls[i].kind # "session" => calls[i].depth = i - 1 - InSession

AwaitedBy(kind) ==
  IF kind = "root" THEN {"begin", "commit", "rollback", "resolved", "rejected"}
                   ELSE {"savepoint", "release", "rollbackTo", "releaseAfter"}

Nesting ==
  /\ \A i \in 1..Len(calls) : WellPlaced(i)
  /\ \A kind \in {"root", "savepoint"} :
       pc \in AwaitedBy(kind) => calls # <<>> /\ Last(calls).kind = kind
  /\ pc = "connecting" =>
       /\ activeClient = NoClient /\ transactionDepth = 0
       /\ Len(calls) = 1 /\ calls[1].kind # "savepoint"
  /\ pc # "connecting" =>
       /\ transactionDepth = Len(calls) - InSession
       /\ calls = <<>> <=> activeClient = NoClient
       /\ pc = "unwinding" => calls # <<>>

\* A client without a transaction has nothing on it, unless it is condemned.
Cleanness ==
  /\ \A c \in Clients \ (unsafe \cup {activeClient}) : Clean(c)
  /\ Clients \ (pool \cup gone) \subseteq {activeClient}
  /\ activeClient \notin pool
  /\ activeClient # NoClient /\ (transactionDepth = 0 \/ pc = "begin") =>
       activeClient \in unsafe \/ Clean(activeClient)
  /\ pc = "resolved" => Clean(activeClient)
  /\ pc = "rejected" => MakesUnsafe(error) \/ Clean(activeClient)

CInv == TypeOK /\ Nesting /\ Cleanness

Pc == Commands \cup {"app", "connecting", "unwinding", "resolved", "rejected"}
Verdicts == [Writes -> {"none", "open", "resolved", "rejected", "unknown"}]

LEMMA AwaitedCommands ==
  /\ \A kind \in {"root", "savepoint"} : AwaitedBy(kind) \subseteq Pc
  /\ \A command \in Commands : command \in Pc /\ command \notin {"app", "connecting", "unwinding"}
BY DEF AwaitedBy, Pc, Commands

LEMMA WritesOfFrames ==
  ASSUME NEW s \in Seq(Savepoint)
  PROVE  AllWrites(s) \subseteq Writes
<1>1. \A i \in DOMAIN s : s[i] \in Savepoint
  OBVIOUS
<1> QED
  BY <1>1 DEF AllWrites, Savepoint

\* A command concerns the client it is sent to.
Touches ==
  /\ stack' \in [Clients -> Seq(Savepoint)]
  /\ aborted' \subseteq Clients
  /\ durable' \subseteq Writes
  /\ \A c \in Clients \ {activeClient} :
       stack'[c] = stack[c] /\ (c \in aborted' <=> c \in aborted)

LEMMA ExecutesTouches ==
  ASSUME TypeOK, activeClient \in Clients, calls # <<>>,
         NEW command \in Commands, Executes(command)
  PROVE  /\ Touches
         /\ stack'[activeClient] = After(command)
         /\ stack'[activeClient] \in Seq(Savepoint)
<1> DEFINE s == stack[activeClient]
<1>1. s \in Seq(Savepoint) /\ AllWrites(s) \subseteq Writes
  BY WritesOfFrames DEF TypeOK
<1>2. Depth \in Nat
  <2>1. calls \in Seq(Call)
    BY DEF TypeOK
  <2>2. Last(calls) \in Call
    BY <2>1, WithoutLast
  <2> QED
    BY <2>2 DEF Depth, Call
<1>3. After(command) \in Seq(Savepoint)
  <2>1. CASE command = "begin"
    <3>1. <<Root>> \in Seq(Savepoint)
      <4>1. Root \in Savepoint
        BY DEF Root, Savepoint
      <4> QED
        BY <4>1
    <3> QED
      BY <1>1, <2>1, <3>1 DEF After
  <2>2. CASE command = "savepoint"
    <3>1. WithSavepoint(s, Depth) \in Seq(Savepoint)
      <4> HIDE DEF s
      <4> QED
        BY <1>1, <1>2, FramesWithSavepoint
    <3> QED
      BY <1>1, <2>2, <3>1 DEF After
  <2>3. CASE command \in {"release", "releaseAfter"}
    <3>1. Named(s, Depth) # 0
      BY <2>3 DEF Executes, Accepts
    <3>2. Merged(s, Named(s, Depth)) \in Seq(Savepoint)
      <4> HIDE DEF s
      <4>1. Named(s, Depth) \in 2..Len(s)
        BY <1>1, <1>2, <3>1, NamedFinds
      <4> QED
        BY <1>1, <4>1, MergedFrames
    <3> QED
      BY <2>3, <3>2 DEF After
  <2>4. CASE command = "rollbackTo"
    <3>1. Named(s, Depth) # 0
      BY <2>4 DEF Executes, Accepts
    <3>2. RolledBackTo(s, Depth) \in Seq(Savepoint)
      <4> HIDE DEF s
      <4> QED
        BY <1>1, <1>2, <3>1, FramesAfterRollback
    <3> QED
      BY <2>4, <3>2 DEF After
  <2>5. CASE command \in {"commit", "rollback"}
    <3>1. After(command) = <<>>
      BY <2>5 DEF After
    <3> QED
      BY <3>1
  <2> QED
    BY <2>1, <2>2, <2>3, <2>4, <2>5 DEF Commands
<1>4. Committed(command) \subseteq Writes
  BY <1>1 DEF Committed
<1>5. stack' = [stack EXCEPT ![activeClient] = After(command)]
  BY DEF Executes
<1>6. /\ stack' \in [Clients -> Seq(Savepoint)] /\ stack'[activeClient] = After(command)
      /\ \A c \in Clients \ {activeClient} : stack'[c] = stack[c]
  BY <1>3, <1>5 DEF TypeOK
<1>7. durable' \subseteq Writes
  BY <1>4 DEF Executes, TypeOK
<1>8. aborted' \subseteq Clients /\ \A c \in Clients \ {activeClient} : c \in aborted' <=> c \in aborted
  BY DEF Executes, TypeOK
<1> QED
  BY <1>3, <1>6, <1>7, <1>8 DEF Touches

LEMMA RefusedTouches ==
  ASSUME TypeOK, activeClient \in Clients, calls # <<>>,
         NEW command \in Commands, Refused(command)
  PROVE  Touches
<1>1. CASE Executes(command)
  BY <1>1, ExecutesTouches
<1>2. CASE UNCHANGED <<stack, durable>> /\ aborted' \in {aborted, aborted \cup {activeClient}}
  BY <1>2 DEF Touches, TypeOK
<1> QED
  BY <1>1, <1>2 DEF Refused

\* A step inside of the same calls, on the same client.
LEMMA InPlace ==
  ASSUME CInv, activeClient \in Clients,
         UNCHANGED <<provider, pool, gone, activeClient, transactionDepth, unsafe>>,
         Touches, dead' \subseteq Clients, outcomeUnknown' \in BOOLEAN,
         failure' \in {"none", "savepoint", "cleanup"}, error' \in Error, verdict' \in Verdicts,
         calls' \in Seq(Call), Len(calls') = Len(calls),
         \A i \in 1..Len(calls) : /\ calls'[i].kind = calls[i].kind
                                  /\ calls'[i].depth = calls[i].depth
                                  /\ calls'[i].owns = calls[i].owns,
         pc' \in Pc \ {"connecting"},
         \A kind \in {"root", "savepoint"} :
           pc' \in AwaitedBy(kind) => Last(calls).kind = kind,
         transactionDepth = 0 \/ pc' = "begin" => activeClient \in unsafe \/ Clean(activeClient)',
         pc' = "resolved" => Clean(activeClient)',
         pc' = "rejected" => MakesUnsafe(error') \/ Clean(activeClient)'
  PROVE  CInv'
<1>1. TypeOK'
  BY DEF CInv, TypeOK, Touches, Pc, Verdicts
<1>2. activeClient # NoClient /\ pc # "connecting" /\ calls # <<>>
  BY PooledConnectionAssumption DEF CInv, Nesting
<1>3. Len(calls) \in Nat /\ 1 <= Len(calls) /\ calls' # <<>>
  BY <1>2 DEF CInv, TypeOK
<1>4. InSession' = InSession
  BY <1>2, <1>3 DEF InSession
<1>5. Last(calls').kind = Last(calls).kind
  BY <1>3 DEF Last
<1>6. \A i \in 1..Len(calls) : i > 1 => i - 1 \in 1..Len(calls)
  BY <1>3
<1>7. ASSUME NEW i \in 1..Len(calls) PROVE WellPlaced(i)'
  <2>1. WellPlaced(i)
    BY DEF CInv, Nesting
  <2>2. calls'[1].kind = calls[1].kind
    BY <1>3
  <2>3. CASE i > 1
    <3>1. calls'[i - 1].kind = calls[i - 1].kind
      BY <1>6, <2>3
    <3> QED
      BY <1>4, <2>1, <2>2, <2>3, <3>1 DEF WellPlaced
  <2>4. CASE ~(i > 1)
    BY <1>4, <2>1, <2>2, <2>4 DEF WellPlaced
  <2> QED
    BY <2>3, <2>4
<1>8. Nesting'
  BY <1>2, <1>3, <1>4, <1>5, <1>7 DEF Nesting, CInv
<1>9. Cleanness'
  <2>1. ASSUME NEW c \in Clients, c \notin unsafe', c # activeClient' PROVE Clean(c)'
    BY <2>1 DEF CInv, Cleanness, Clean, Touches
  <2> QED
    BY <2>1 DEF CInv, Cleanness
<1> QED
  BY <1>1, <1>8, <1>9 DEF CInv

\* The innermost call says how deep the chain is.
LEMMA DepthOfCalls ==
  ASSUME CInv, calls # <<>>, pc # "connecting"
  PROVE  /\ activeClient \in Clients
         /\ Len(calls) \in Nat \ {0}
         /\ Last(calls) = calls[Len(calls)] /\ Last(calls) \in Call
         /\ Last(calls).kind = "session" =>
              transactionDepth = 0 /\ Len(calls) = 1 /\ InSession = 1
         /\ Last(calls).kind = "root" =>
              /\ transactionDepth = 1 /\ Len(calls) = InSession + 1
              /\ Last(calls).depth = 0
         /\ Last(calls).kind = "savepoint" =>
              /\ transactionDepth > 1 /\ Len(calls) = InSession + transactionDepth
              /\ Last(calls).depth = transactionDepth - 1
              /\ calls[Len(calls) - 1].kind # "session"
         /\ Last(calls).owns <=> Len(calls) = 1
<1>1. calls \in Seq(Call) /\ activeClient \in Clients
  BY DEF CInv, TypeOK, Nesting
<1>2. /\ Len(calls) \in Nat \ {0} /\ Last(calls) = calls[Len(calls)]
      /\ Last(calls) \in Call
  BY <1>1, WithoutLast
<1>3. \A i \in 1..Len(calls) : WellPlaced(i)
  BY DEF CInv, Nesting
<1>4. transactionDepth = Len(calls) - InSession /\ transactionDepth \in Nat
  BY DEF CInv, Nesting, TypeOK
<1> DEFINE n == Len(calls)
<1> HIDE DEF n
<1>5. n \in 1..n /\ n \in Nat /\ n >= 1 /\ n = Len(calls)
  BY <1>2 DEF n
<1>6. WellPlaced(n) /\ WellPlaced(1)
  BY <1>3, <1>5
<1>7. InSession \in {0, 1} /\ (InSession = 1 <=> calls[1].kind = "session")
  BY DEF InSession
<1>8. calls[n].kind = "session" => n = 1 /\ InSession = 1
  BY <1>6, <1>7 DEF WellPlaced
<1>9. calls[n].kind = "root" => n = InSession + 1
  BY <1>6, <1>7 DEF WellPlaced
<1>10. calls[n].kind = "savepoint" => calls[n - 1].kind # "session" /\ n > 1
  BY <1>6 DEF WellPlaced
<1>11. calls[n].kind = "savepoint" => n > InSession + 1
  <2> SUFFICES ASSUME calls[n].kind = "savepoint", n <= InSession + 1 PROVE FALSE
    BY <1>5, <1>7
  <2>1. n = 2 /\ InSession = 1
    BY <1>5, <1>7, <1>10
  <2> QED
    BY <1>7, <1>10, <2>1
<1>12. calls[n].kind # "session" => calls[n].depth = n - 1 - InSession
  BY <1>6 DEF WellPlaced
<1>13. calls[n].owns <=> n = 1
  BY <1>6 DEF WellPlaced
<1> QED
  BY <1>1, <1>2, <1>4, <1>5, <1>7, <1>8, <1>9, <1>10, <1>11, <1>12, <1>13

LEMMA Entering ==
  ASSUME CInv, pc = "app", NEW r \in Call, calls' = Append(calls, r),
         r.depth = transactionDepth, r.owns <=> calls = <<>>,
         r.kind = "session" => calls = <<>>,
         r.kind = "root" => transactionDepth = 0,
         r.kind = "savepoint" => transactionDepth > 0
  PROVE  /\ calls' \in Seq(Call) /\ calls' # <<>>
         /\ Len(calls') = Len(calls) + 1
         /\ Last(calls') = r
         /\ calls'[1].kind = IF calls = <<>> THEN r.kind ELSE calls[1].kind
         /\ InSession' = IF calls = <<>> /\ r.kind = "session" THEN 1 ELSE InSession
         /\ \A i \in 1..Len(calls') : WellPlaced(i)'
<1>1. calls \in Seq(Call) /\ transactionDepth = Len(calls) - InSession
      /\ \A i \in 1..Len(calls) : WellPlaced(i)
  BY DEF CInv, TypeOK, Nesting
<1>2. /\ calls' \in Seq(Call) /\ calls' # <<>> /\ Len(calls') = Len(calls) + 1
      /\ \A i \in 1..Len(calls) : calls'[i] = calls[i]
      /\ calls'[Len(calls) + 1] = r
  BY <1>1, AppendProperties
<1> DEFINE n == Len(calls)
<1>3. n \in Nat /\ (n = 0 <=> calls = <<>>)
  BY <1>1
<1> HIDE DEF n
<1>4. Last(calls') = r
  BY <1>2 DEF Last
<1>5. calls'[1].kind = IF calls = <<>> THEN r.kind ELSE calls[1].kind
  <2>1. CASE calls = <<>>
    BY <1>2, <2>1
  <2>2. CASE calls # <<>>
    BY <1>2, <1>3, <2>2 DEF n
  <2> QED
    BY <2>1, <2>2
<1>6. InSession' = IF calls = <<>> /\ r.kind = "session" THEN 1 ELSE InSession
  BY <1>2, <1>5 DEF InSession
<1>7. InSession \in {0, 1} /\ (InSession = 1 <=> calls # <<>> /\ calls[1].kind = "session")
  BY DEF InSession
<1>8. ASSUME NEW i \in 1..n + 1 PROVE WellPlaced(i)'
  <2>1. CASE i <= n
    <3>1. WellPlaced(i) /\ calls'[i] = calls[i] /\ calls # <<>> /\ i \in 1..n
      BY <1>1, <1>2, <1>3, <2>1 DEF n
    <3>2. i > 1 => calls'[i - 1] = calls[i - 1]
      BY <1>2, <1>3, <2>1 DEF n
    <3>3. InSession' = InSession /\ calls'[1].kind = calls[1].kind
      BY <1>5, <1>6, <3>1
    <3> QED
      BY <3>1, <3>2, <3>3 DEF WellPlaced
  <2>2. CASE i = n + 1
    <3>1. calls'[i] = r
      BY <1>2, <2>2 DEF n
    <3>2. r.owns <=> i = 1
      BY <1>3, <2>2
    <3>3. r.kind # "session" => r.depth = i - 1 - InSession'
      <4>1. r.kind # "session" => InSession' = InSession
        BY <1>6
      <4> QED
        BY <1>1, <1>3, <1>7, <2>2, <4>1 DEF n
    <3>4. CASE r.kind = "session"
      BY <1>3, <2>2, <3>1, <3>2, <3>4 DEF WellPlaced
    <3>5. CASE r.kind = "root"
      <4>1. n = InSession
        BY <1>1, <1>3, <1>7, <3>5 DEF n
      <4>2. i = 1 \/ (i = 2 /\ calls'[1].kind = "session")
        BY <1>3, <1>5, <1>7, <2>2, <4>1
      <4> QED
        BY <3>1, <3>2, <3>3, <3>5, <4>2 DEF WellPlaced
    <3>6. CASE r.kind = "savepoint"
      <4>1. n > InSession /\ n >= 1 /\ calls # <<>>
        BY <1>1, <1>3, <1>7, <3>6 DEF n
      <4>2. WellPlaced(n) /\ calls'[n] = calls[n]
        BY <1>1, <1>2, <1>3, <4>1 DEF n
      <4>3. calls[n].kind # "session"
        BY <1>3, <1>7, <4>1, <4>2 DEF WellPlaced
      <4>4. i > 1 /\ i - 1 = n
        BY <1>3, <2>2, <4>1
      <4> QED
        BY <3>1, <3>2, <3>3, <3>6, <4>2, <4>3, <4>4 DEF WellPlaced
    <3> QED
      BY <3>4, <3>5, <3>6 DEF Call
  <2> QED
    BY <1>3, <2>1, <2>2
<1> QED
  BY <1>2, <1>4, <1>5, <1>6, <1>8 DEF n

LEMMA Leaving ==
  ASSUME CInv, calls # <<>>,
         calls' \in Seq(Call), Len(calls') = Len(calls) - 1,
         \A i \in 1..Len(calls) - 1 : /\ calls'[i].kind = calls[i].kind
                                      /\ calls'[i].depth = calls[i].depth
                                      /\ calls'[i].owns = calls[i].owns,
         pc' \in {"app", "unwinding"}, Len(calls) = 1 => pc' = "app",
         activeClient' = IF Len(calls) = 1 THEN NoClient ELSE activeClient,
         transactionDepth' = IF pc = "connecting" \/ Last(calls).kind = "session"
                               THEN transactionDepth ELSE transactionDepth - 1
  PROVE  Nesting'
<1> DEFINE n == Len(calls)
<1>1. calls \in Seq(Call) /\ (\A i \in 1..n : WellPlaced(i))
  BY DEF CInv, TypeOK, Nesting
<1>2. n \in Nat /\ n >= 1
  BY <1>1
<1>3. \A kind \in {"root", "savepoint"} : pc' \notin AwaitedBy(kind)
  BY DEF AwaitedBy
<1>4. CASE n = 1
  <2>1. calls' = <<>>
    BY <1>4
  <2>2. InSession' = 0
    BY <2>1 DEF InSession
  <2>3. transactionDepth' = 0
    <3>1. CASE pc = "connecting"
      BY <3>1 DEF CInv, Nesting
    <3>2. CASE pc # "connecting"
      <4>1. /\ Last(calls) \in Call
            /\ Last(calls).kind = "session" => transactionDepth = 0
            /\ Last(calls).kind = "root" => transactionDepth = 1
            /\ Last(calls).kind # "savepoint"
        BY <1>4, <3>2, DepthOfCalls DEF CInv, Nesting, InSession
      <4> QED
        BY <3>2, <4>1 DEF Call
    <3> QED
      BY <3>1, <3>2
  <2> QED
    BY <1>3, <1>4, <2>1, <2>2, <2>3 DEF Nesting
<1>5. CASE n > 1
  <2>1. pc # "connecting"
    BY <1>5 DEF CInv, Nesting
  <2>2. /\ activeClient \in Clients /\ Last(calls).kind # "session"
        /\ transactionDepth = n - InSession
    BY <1>5, <2>1, DepthOfCalls DEF CInv, Nesting
  <2>3. calls' # <<>> /\ calls'[1].kind = calls[1].kind
    BY <1>2, <1>5
  <2>4. InSession' = InSession /\ InSession \in {0, 1}
    BY <2>3 DEF InSession
  <2>5. ASSUME NEW i \in 1..n - 1 PROVE WellPlaced(i)'
    <3>1. WellPlaced(i) /\ i \in 1..n
      BY <1>1, <1>2
    <3>2. i > 1 => calls'[i - 1].kind = calls[i - 1].kind
      BY <1>2
    <3> QED
      BY <2>3, <2>4, <3>1, <3>2 DEF WellPlaced
  <2>6. transactionDepth' = Len(calls') - InSession'
    BY <1>2, <2>1, <2>2, <2>4
  <2>7. activeClient' # NoClient
    BY <1>5, <2>2, PooledConnectionAssumption
  <2> QED
    BY <1>3, <2>3, <2>5, <2>6, <2>7 DEF Nesting
<1> QED
  BY <1>2, <1>4, <1>5

-----------------------------------------------------------------------------
(* Every step keeps CInv *)

LEMMA InitClean == Init => CInv
<1> SUFFICES ASSUME Init PROVE CInv
  OBVIOUS
<1>1. TypeOK
  <2>1. error \in Error
    BY DEF Init, Error, Plain, ErrorKind
  <2>2. stack \in [Clients -> Seq(Savepoint)] /\ calls \in Seq(Call)
    BY DEF Init
  <2>3. verdict \in [Writes -> {"none", "open", "resolved", "rejected", "unknown"}]
    BY DEF Init
  <2> QED
    BY <2>1, <2>2, <2>3 DEF Init, TypeOK
<1>2. Nesting
  BY DEF Init, Nesting, AwaitedBy, InSession
<1>3. Cleanness
  BY PooledConnectionAssumption DEF Init, Cleanness, Clean
<1> QED
  BY <1>1, <1>2, <1>3 DEF CInv

LEMMA PlainErrors ==
  /\ Plain \in Error /\ Plain.recorded = FALSE /\ Plain.kind = "plain"
  /\ \A k \in ErrorKind, b \in BOOLEAN : [kind |-> k, recorded |-> b] \in Error
  /\ \A e \in Error : /\ e.kind \in ErrorKind /\ e.recorded \in BOOLEAN
                      /\ [e EXCEPT !.recorded = TRUE] \in Error
                      /\ [e EXCEPT !.recorded = FALSE] \in Error
                      /\ [e EXCEPT !.kind = "rollback"] \in Error
BY DEF Plain, Error, ErrorKind

\* What the caller was told keeps its type.
LEMMA ToldTypes ==
  ASSUME TypeOK, NEW S, NEW word \in {"none", "open", "resolved", "rejected", "unknown"},
         Told(S, word)
  PROVE  verdict' \in Verdicts
BY DEF Told, TypeOK, Verdicts

\* The command that is awaited tells the innermost call.
LEMMA Awaiting ==
  ASSUME CInv, pc \notin {"app", "connecting", "unwinding"}
  PROVE  /\ activeClient \in Clients /\ calls # <<>> /\ pc # "connecting"
         /\ pc \in AwaitedBy("root") => Last(calls).kind = "root" /\ transactionDepth = 1
         /\ pc \in AwaitedBy("savepoint") =>
              Last(calls).kind = "savepoint" /\ transactionDepth > 1
<1>1. pc \in AwaitedBy("root") \/ pc \in AwaitedBy("savepoint")
  BY DEF CInv, TypeOK, AwaitedBy, Commands
<1>2. calls # <<>>
  BY <1>1 DEF CInv, Nesting
<1>3. activeClient \in Clients
  BY <1>2 DEF CInv, Nesting, TypeOK
<1>4. /\ pc \in AwaitedBy("root") => Last(calls).kind = "root"
      /\ pc \in AwaitedBy("savepoint") => Last(calls).kind = "savepoint"
  BY DEF CInv, Nesting
<1> QED
  BY <1>2, <1>3, <1>4, DepthOfCalls

\* The commands of a call that is not left yet.
LEMMA SameCallsClean ==
  ASSUME CInv, activeClient \in Clients, calls # <<>>,
         UNCHANGED <<poolVars, activeClient, transactionDepth, outcomeUnknown, unsafe,
                     calls, verdict, failure>>,
         Touches, dead' \subseteq Clients, error' \in Error,
         pc' \in Pc \ {"connecting", "begin", "resolved"},
         \A kind \in {"root", "savepoint"} :
           pc' \in AwaitedBy(kind) => Last(calls).kind = kind,
         transactionDepth = 0 => activeClient \in unsafe \/ Clean(activeClient)',
         pc' = "rejected" => MakesUnsafe(error') \/ Clean(activeClient)'
  PROVE  CInv'
<1>1. /\ calls' \in Seq(Call) /\ outcomeUnknown' \in BOOLEAN
      /\ failure' \in {"none", "savepoint", "cleanup"} /\ verdict' \in Verdicts
  BY DEF CInv, TypeOK, Verdicts
<1>2. Len(calls') = Len(calls) /\ calls' = calls
  OBVIOUS
<1> QED
  BY <1>1, <1>2, InPlace DEF poolVars

LEMMA RootCommandsClean ==
  ASSUME CInv,
         Begun \/ BeginFails \/ CommitFails \/ RolledBack \/ RollbackFails
  PROVE  CInv'
<1>1. pc \in {"begin", "commit", "rollback"}
  BY DEF Begun, BeginFails, CommitFails, RolledBack, RollbackFails, Answers
<1>2. /\ activeClient \in Clients /\ calls # <<>>
      /\ Last(calls).kind = "root" /\ transactionDepth = 1
  BY <1>1, Awaiting DEF AwaitedBy
<1>3. UNCHANGED <<poolVars, dead, activeClient, transactionDepth, outcomeUnknown,
                  failure, calls, unsafe, verdict>>
  BY DEF Begun, BeginFails, CommitFails, RolledBack, RollbackFails
<1>4. pc' \in {"app", "rollback", "rejected"}
  BY DEF Begun, BeginFails, CommitFails, RolledBack, RollbackFails
<1>5. TypeOK /\ error \in Error
  BY DEF CInv, TypeOK
<1>6. Touches
  <2>1. CASE Begun
    BY <1>2, <1>5, <2>1, ExecutesTouches DEF Begun, Succeeds, Commands
  <2>2. CASE BeginFails
    BY <1>2, <1>5, <2>2, RefusedTouches DEF BeginFails, Commands
  <2>3. CASE CommitFails
    <3>1. CASE Refused("commit")
      BY <1>2, <1>5, <3>1, RefusedTouches DEF Commands
    <3>2. CASE /\ stack' = [stack EXCEPT ![activeClient] = <<>>]
               /\ aborted' = aborted \ {activeClient}
               /\ UNCHANGED durable
      <4>1. stack' \in [Clients -> Seq(Savepoint)]
        <5>1. <<>> \in Seq(Savepoint)
          OBVIOUS
        <5> QED
          BY <1>2, <1>5, <3>2, <5>1 DEF TypeOK
      <4>2. aborted' \subseteq Clients /\ durable' \subseteq Writes
        BY <1>5, <3>2 DEF TypeOK
      <4>3. \A c \in Clients \ {activeClient} :
              stack'[c] = stack[c] /\ (c \in aborted' <=> c \in aborted)
        BY <1>5, <3>2 DEF TypeOK
      <4> QED
        BY <4>1, <4>2, <4>3 DEF Touches
    <3> QED
      BY <2>3, <3>1, <3>2 DEF CommitFails
  <2>4. CASE RolledBack
    BY <1>2, <1>5, <2>4, ExecutesTouches DEF RolledBack, Succeeds, Commands
  <2>5. CASE RollbackFails
    BY <1>2, <1>5, <2>5, RefusedTouches DEF RollbackFails, Commands
  <2> QED
    BY <2>1, <2>2, <2>3, <2>4, <2>5
<1>7. error' \in Error
  <2>1. CASE Begun \/ CommitFails
    BY <2>1, PlainErrors DEF Begun, CommitFails, ErrorKind
  <2>2. CASE BeginFails
    BY <2>2, PlainErrors DEF BeginFails, ErrorKind
  <2>3. CASE RolledBack \/ RollbackFails
    BY <1>5, <2>3, PlainErrors DEF RolledBack, RollbackFails
  <2> QED
    BY <2>1, <2>2, <2>3
<1>8. pc' = "rejected" => MakesUnsafe(error') \/ Clean(activeClient)'
  <2>1. CASE Begun \/ CommitFails
    BY <2>1 DEF Begun, CommitFails
  <2>2. CASE BeginFails
    BY <2>2 DEF BeginFails, MakesUnsafe
  <2>3. CASE RollbackFails
    <3>1. (error' = error /\ error.kind = "unknown") \/ error'.kind = "rollback"
      BY <1>5, <2>3 DEF RollbackFails, Error
    <3> QED
      BY <3>1 DEF MakesUnsafe
  <2>4. CASE RolledBack
    <3>1. stack'[activeClient] = After("rollback") /\ activeClient \notin aborted'
      BY <1>2, <1>5, <2>4, ExecutesTouches DEF RolledBack, Succeeds, Executes, Commands
    <3>2. After("rollback") = <<>>
      BY DEF After
    <3> QED
      BY <1>3, <3>1, <3>2 DEF Clean
  <2> QED
    BY <2>1, <2>2, <2>3, <2>4
<1>9. \A kind \in {"root", "savepoint"} : pc' \in AwaitedBy(kind) => Last(calls).kind = kind
  BY <1>2, <1>4 DEF AwaitedBy
<1>10. pc' \in Pc \ {"connecting", "begin", "resolved"} /\ dead' \subseteq Clients
  BY <1>3, <1>4, <1>5 DEF Pc, Commands, TypeOK
<1> QED
  BY <1>2, <1>3, <1>6, <1>7, <1>8, <1>9, <1>10, SameCallsClean

LEMMA CommitSucceedsClean ==
  ASSUME CInv, CommitSucceeds
  PROVE  CInv'
<1>1. /\ activeClient \in Clients /\ calls # <<>>
      /\ Last(calls).kind = "root" /\ transactionDepth = 1
  BY Awaiting DEF CommitSucceeds, Answers, AwaitedBy
<1>2. Touches /\ stack'[activeClient] = After("commit") /\ activeClient \notin aborted'
  BY <1>1, ExecutesTouches DEF CInv, CommitSucceeds, Succeeds, Executes, Commands
<1>3. After("commit") = <<>>
  BY DEF After
<1>4. Clean(activeClient)'
  BY <1>2, <1>3 DEF Clean, CommitSucceeds
<1>5. \A kind \in {"root", "savepoint"} : pc' \in AwaitedBy(kind) => Last(calls).kind = kind
  BY <1>1 DEF AwaitedBy, CommitSucceeds
<1>6. /\ UNCHANGED <<provider, pool, gone, activeClient, transactionDepth, unsafe>>
      /\ pc' = "resolved" /\ calls' = calls
  BY DEF CommitSucceeds, poolVars
<1>7. /\ dead' \subseteq Clients /\ outcomeUnknown' \in BOOLEAN
      /\ failure' \in {"none", "savepoint", "cleanup"} /\ error' \in Error
      /\ verdict' \in Verdicts /\ calls' \in Seq(Call)
  BY DEF CommitSucceeds, CInv, TypeOK, Verdicts
<1>8. pc' \in Pc \ {"connecting"} /\ pc' # "begin" /\ pc' # "rejected"
  BY <1>6 DEF Pc
<1> QED
  BY <1>1, <1>2, <1>4, <1>5, <1>6, <1>7, <1>8, InPlace

LEMMA SavepointCommandsClean ==
  ASSUME CInv, SavepointSet \/ ReleaseFails \/ (RolledBackToSavepoint /\ Postgres)
  PROVE  CInv'
<1>1. pc \in {"savepoint", "release", "rollbackTo"}
  BY DEF SavepointSet, ReleaseFails, RolledBackToSavepoint, Answers
<1>2. /\ activeClient \in Clients /\ calls # <<>>
      /\ Last(calls).kind = "savepoint" /\ transactionDepth > 1
  BY <1>1, Awaiting DEF AwaitedBy
<1>3. UNCHANGED <<poolVars, dead, activeClient, transactionDepth, outcomeUnknown,
                  failure, calls, unsafe, verdict>>
  BY DEF SavepointSet, ReleaseFails, RolledBackToSavepoint
<1>4. pc' \in {"app", "rollbackTo", "releaseAfter"} /\ error' \in {Plain, error}
  BY DEF SavepointSet, ReleaseFails, RolledBackToSavepoint
<1>5. TypeOK /\ error \in Error
  BY DEF CInv, TypeOK
<1>6. Touches
  <2>1. CASE SavepointSet
    BY <1>2, <1>5, <2>1, ExecutesTouches DEF SavepointSet, Succeeds, Commands
  <2>2. CASE ReleaseFails
    BY <1>2, <1>5, <2>2, RefusedTouches DEF ReleaseFails, Commands
  <2>3. CASE RolledBackToSavepoint
    BY <1>2, <1>5, <2>3, ExecutesTouches DEF RolledBackToSavepoint, Succeeds, Commands
  <2> QED
    BY <2>1, <2>2, <2>3
<1>7. error' \in Error
  BY <1>4, <1>5, PlainErrors
<1>8. \A kind \in {"root", "savepoint"} : pc' \in AwaitedBy(kind) => Last(calls).kind = kind
  BY <1>2, <1>4 DEF AwaitedBy
<1>9. /\ pc' \in Pc \ {"connecting", "begin", "resolved"} /\ pc' # "rejected"
      /\ dead' \subseteq Clients /\ transactionDepth # 0
  BY <1>2, <1>3, <1>4, <1>5 DEF Pc, Commands, TypeOK
<1> QED
  BY <1>2, <1>3, <1>6, <1>7, <1>8, <1>9, SameCallsClean

\* A nested call is left, with the writes of its caller changed or not.
LEMMA LeavingSavepointClean ==
  ASSUME CInv, pc \in AwaitedBy("savepoint"), Touches, LeavesSavepoint,
         UNCHANGED <<poolVars, dead, activeClient, outcomeUnknown, unsafe>>,
         failure' \in {"none", "savepoint", "cleanup"}, error' \in Error, verdict' \in Verdicts,
         pc' \in {"app", "unwinding"},
         calls' \in Seq(Call), Len(calls') = Len(calls) - 1,
         \A i \in 1..Len(calls) - 1 : /\ calls'[i].kind = calls[i].kind
                                      /\ calls'[i].depth = calls[i].depth
                                      /\ calls'[i].owns = calls[i].owns
  PROVE  CInv'
<1>1. /\ activeClient \in Clients /\ calls # <<>> /\ pc # "connecting"
      /\ Last(calls).kind = "savepoint" /\ transactionDepth > 1
  BY Awaiting DEF AwaitedBy
<1>2. Len(calls) # 1
  BY <1>1 DEF CInv, Nesting, InSession
<1>3. transactionDepth' = transactionDepth - 1 /\ transactionDepth \in Nat
  BY DEF LeavesSavepoint, CInv, TypeOK
<1>4. Nesting'
  BY <1>1, <1>2, <1>3, Leaving
<1>5. transactionDepth' \in Nat /\ transactionDepth' # 0
  BY <1>1, <1>3
<1>6. TypeOK'
  BY <1>5 DEF CInv, TypeOK, poolVars, Touches, Verdicts
<1>7. Cleanness'
  <2>1. ASSUME NEW c \in Clients, c \notin unsafe, c # activeClient PROVE Clean(c)'
    BY <2>1 DEF CInv, Cleanness, Clean, Touches
  <2> QED
    BY <1>5, <2>1 DEF CInv, Cleanness, poolVars
<1> QED
  BY <1>4, <1>6, <1>7 DEF CInv

LEMMA NestedRejectsClean ==
  ASSUME CInv, pc \in AwaitedBy("savepoint"), Touches,
         UNCHANGED <<poolVars, dead, activeClient, outcomeUnknown, unsafe>>,
         failure' \in {"none", "savepoint", "cleanup"},
         NEW e \in Error, NestedRejects(e)
  PROVE  CInv'
<1>1. calls \in Seq(Call) /\ calls # <<>>
  BY Awaiting DEF CInv, TypeOK, AwaitedBy
<1>2. /\ Front(calls) \in Seq(Call) /\ Len(Front(calls)) = Len(calls) - 1
      /\ \A i \in 1..Len(calls) - 1 : Front(calls)[i] = calls[i]
  BY <1>1, WithoutLast
<1>3. calls' = Front(calls) /\ LeavesSavepoint /\ error' = e /\ pc' \in {"app", "unwinding"}
  BY DEF NestedRejects, Leaves, Rejects
<1>4. verdict' \in Verdicts
  BY ToldTypes DEF NestedRejects, CInv
<1> QED
  BY <1>2, <1>3, <1>4, LeavingSavepointClean

LEMMA ObservedClean ==
  ASSUME CInv, pc \in AwaitedBy("savepoint"), Touches,
         UNCHANGED <<poolVars, dead, activeClient, outcomeUnknown, unsafe>>,
         NEW e \in Error, Observed(e)
  PROVE  CInv'
<1>1. [e EXCEPT !.recorded = TRUE] \in Error
  BY PlainErrors
<1>2. failure \in {"none", "savepoint", "cleanup"}
  BY DEF CInv, TypeOK
<1>3. CASE failure = "none" /\ Compromises(e)
  <2>1. failure' \in {"none", "savepoint", "cleanup"} /\ NestedRejects([e EXCEPT !.recorded = TRUE])
    BY <1>3 DEF Observed, Compromises
  <2> QED
    BY <1>1, <2>1, NestedRejectsClean
<1>4. CASE ~(failure = "none" /\ Compromises(e))
  <2>1. failure' \in {"none", "savepoint", "cleanup"} /\ NestedRejects(e)
    BY <1>2, <1>4 DEF Observed
  <2> QED
    BY <2>1, NestedRejectsClean
<1> QED
  BY <1>3, <1>4

LEMMA RecoveredClean ==
  ASSUME CInv, pc \in AwaitedBy("savepoint"), Touches,
         UNCHANGED <<poolVars, dead, activeClient, outcomeUnknown, unsafe>>,
         Recovered(error)
  PROVE  CInv'
<1>1. [error EXCEPT !.recorded = FALSE] \in Error
  BY PlainErrors DEF CInv, TypeOK
<1>2. failure' \in {"none", "savepoint", "cleanup"} /\ NestedRejects([error EXCEPT !.recorded = FALSE])
  BY DEF CInv, TypeOK, Recovered
<1> QED
  BY <1>1, <1>2, NestedRejectsClean

LEMMA SavepointEndsClean ==
  ASSUME CInv,
         \/ SavepointFails
         \/ RolledBackToSavepoint /\ ~Postgres
         \/ ReleasedAfter
         \/ \E command \in {"rollbackTo", "releaseAfter"} : CleanUpFails(command)
  PROVE  CInv'
<1>1. pc \in AwaitedBy("savepoint")
  BY DEF SavepointFails, RolledBackToSavepoint, ReleasedAfter, CleanUpFails, Answers, AwaitedBy
<1>2. TypeOK /\ activeClient \in Clients /\ calls # <<>>
  BY <1>1, Awaiting DEF CInv, AwaitedBy
<1>3. UNCHANGED <<poolVars, dead, activeClient, outcomeUnknown, unsafe>>
  BY DEF SavepointFails, RolledBackToSavepoint, ReleasedAfter, CleanUpFails
<1>4. \A kind \in {"savepoint", "cleanup"} : [kind |-> kind, recorded |-> FALSE] \in Error
  BY PlainErrors DEF ErrorKind
<1>5. CASE SavepointFails
  <2>1. Touches
    BY <1>2, <1>5, RefusedTouches DEF SavepointFails, Commands
  <2> QED
    BY <1>1, <1>3, <1>4, <1>5, <2>1, ObservedClean DEF SavepointFails
<1>6. CASE RolledBackToSavepoint /\ ~Postgres
  <2>1. Touches
    BY <1>2, <1>6, ExecutesTouches DEF RolledBackToSavepoint, Succeeds, Commands
  <2> QED
    BY <1>1, <1>3, <1>6, <2>1, RecoveredClean DEF RolledBackToSavepoint
<1>7. CASE ReleasedAfter
  <2>1. Touches
    BY <1>2, <1>7, ExecutesTouches DEF ReleasedAfter, Succeeds, Commands
  <2> QED
    BY <1>1, <1>3, <1>7, <2>1, RecoveredClean DEF ReleasedAfter
<1>8. ASSUME NEW command \in {"rollbackTo", "releaseAfter"}, CleanUpFails(command)
      PROVE  CInv'
  <2>1. Touches
    BY <1>2, <1>8, RefusedTouches DEF CleanUpFails, Commands
  <2> QED
    BY <1>1, <1>3, <1>4, <1>8, <2>1, ObservedClean DEF CleanUpFails
<1> QED
  BY <1>5, <1>6, <1>7, <1>8

\* The calls after a savepoint was released: its writes are its caller's now.
LEMMA CallsAfterRelease ==
  ASSUME CInv, Released
  PROVE  /\ calls' \in Seq(Call) /\ Len(calls') = Len(calls) - 1
         /\ \A i \in 1..Len(calls) - 1 :
              /\ calls'[i].kind = calls[i].kind
              /\ calls'[i].depth = calls[i].depth
              /\ calls'[i].owns = calls[i].owns
              /\ i # Len(calls) - 1 => calls'[i].kept = calls[i].kept
              /\ i = Len(calls) - 1 => calls'[i].kept = calls[i].kept \cup Last(calls).kept
<1>1. /\ calls # <<>> /\ pc # "connecting" /\ Last(calls).kind = "savepoint"
      /\ transactionDepth > 1
  BY Awaiting DEF Released, Answers, AwaitedBy
<1>2. calls \in Seq(Call)
  BY DEF CInv, TypeOK
<1> DEFINE q == Front(calls)
           n == Len(calls) - 1
           e == [q[n] EXCEPT !.kept = @ \cup Last(calls).kept]
<1>3. /\ q \in Seq(Call) /\ Len(q) = n /\ Last(calls) \in Call
      /\ \A i \in 1..n : q[i] = calls[i]
  BY <1>1, <1>2, WithoutLast
<1>4. Len(calls) = InSession + transactionDepth /\ InSession \in {0, 1}
  BY <1>1, DepthOfCalls DEF InSession
<1>5. n \in 1..n /\ n \in Nat
  BY <1>1, <1>4 DEF CInv, TypeOK
<1>6. calls' = [q EXCEPT ![n] = e]
  BY DEF Released
<1> HIDE DEF q, n
<1>7. q[n] \in Call /\ q[n] = calls[n]
  BY <1>3, <1>5
<1>8. /\ e \in Call /\ e.kind = calls[n].kind /\ e.depth = calls[n].depth
      /\ e.owns = calls[n].owns /\ e.kept = calls[n].kept \cup Last(calls).kept
  BY <1>3, <1>7 DEF Call
<1> HIDE DEF e
<1>9. /\ calls' \in Seq(Call) /\ Len(calls') = n
      /\ \A i \in 1..n : calls'[i] = IF i = n THEN e ELSE q[i]
  BY <1>3, <1>5, <1>6, <1>8, ExceptSeq
<1>10. ASSUME NEW i \in 1..n
       PROVE  /\ calls'[i].kind = calls[i].kind
              /\ calls'[i].depth = calls[i].depth
              /\ calls'[i].owns = calls[i].owns
              /\ i # n => calls'[i].kept = calls[i].kept
              /\ i = n => calls'[i].kept = calls[i].kept \cup Last(calls).kept
  BY <1>3, <1>8, <1>9
<1> QED
  BY <1>9, <1>10 DEF n

LEMMA ReleasedClean ==
  ASSUME CInv, Released
  PROVE  CInv'
<1>1. pc \in AwaitedBy("savepoint")
  BY DEF Released, Answers, AwaitedBy
<1>2. TypeOK /\ activeClient \in Clients /\ calls # <<>>
  BY <1>1, Awaiting DEF CInv, AwaitedBy
<1>3. Touches
  BY <1>2, ExecutesTouches DEF Released, Succeeds, Commands
<1>4. /\ error' \in Error /\ pc' \in {"app", "unwinding"}
      /\ failure' \in {"none", "savepoint", "cleanup"} /\ verdict' \in Verdicts
  BY <1>2, PlainErrors DEF Released, Resolves, TypeOK, Verdicts
<1>5. UNCHANGED <<poolVars, dead, activeClient, outcomeUnknown, unsafe>> /\ LeavesSavepoint
  BY DEF Released
<1> QED
  BY <1>1, <1>3, <1>4, <1>5, CallsAfterRelease, LeavingSavepointClean

\* A work function that ends, inside of the call it belongs to.
LEMMA WorkEndsClean ==
  ASSUME CInv,
         RootWorkReturns \/ RootWorkThrows \/ NestedWorkReturns \/ NestedWorkThrows
  PROVE  CInv'
<1>1. UNCHANGED <<server, activeClient, transactionDepth, outcomeUnknown, failure,
                  calls, unsafe, verdict>>
  BY DEF RootWorkReturns, RootWorkThrows, NestedWorkReturns, NestedWorkThrows
<1>2. calls # <<>> /\ pc \in {"app", "unwinding"} /\ pc # "connecting"
  BY DEF RootWorkReturns, RootWorkThrows, NestedWorkReturns, NestedWorkThrows
<1>3. \/ Last(calls).kind = "root" /\ pc' \in {"commit", "rollback"}
      \/ Last(calls).kind = "savepoint" /\ pc' \in {"release", "rollbackTo"}
  BY DEF RootWorkReturns, RootWorkThrows, NestedWorkReturns, NestedWorkThrows
<1>4. activeClient \in Clients /\ transactionDepth # 0
  BY <1>2, <1>3, DepthOfCalls DEF CInv, TypeOK
<1>5. error' \in Error
  <2>1. error \in Error /\ failure \in {"none", "savepoint", "cleanup"}
    BY DEF CInv, TypeOK
  <2>2. \A e \in Error : RootError(e) \in Error
    BY <2>1, PlainErrors DEF RootError, ErrorKind
  <2> QED
    BY <2>1, <2>2, PlainErrors DEF RootWorkReturns, RootWorkThrows, NestedWorkReturns,
         NestedWorkThrows
<1>6. Touches
  BY <1>1 DEF Touches, server, CInv, TypeOK
<1>7. \A kind \in {"root", "savepoint"} : pc' \in AwaitedBy(kind) => Last(calls).kind = kind
  BY <1>3 DEF AwaitedBy
<1>8. /\ pc' \in Pc \ {"connecting", "begin", "resolved"} /\ pc' # "rejected"
      /\ dead' \subseteq Clients
  BY <1>1, <1>3 DEF Pc, Commands, server, CInv, TypeOK
<1> QED
  BY <1>1, <1>2, <1>4, <1>5, <1>6, <1>7, <1>8, SameCallsClean DEF server

LEMMA StatementClean ==
  ASSUME CInv, NEW w \in Writes, Statement(w)
  PROVE  CInv'
<1> DEFINE A == activeClient
           s == stack[A]
<1>1. A \in Clients /\ pc = "app" /\ pc' = "app"
  BY DEF Statement
<1>2. A # NoClient /\ calls # <<>> /\ calls \in Seq(Call) /\ s \in Seq(Savepoint)
  BY <1>1, PooledConnectionAssumption DEF CInv, Nesting, TypeOK
<1>3. /\ Len(calls) \in Nat \ {0} /\ Last(calls) = calls[Len(calls)]
      /\ Last(calls) \in Call
  BY <1>2, WithoutLast
<1>4. aborted' = aborted /\ dead' = dead /\ error' = error
  BY DEF Statement
<1>5. /\ stack' \in [Clients -> Seq(Savepoint)] /\ durable' \subseteq Writes
      /\ \A c \in Clients \ {A} : stack'[c] = stack[c]
      /\ s = <<>> => stack' = stack
  <2>1. CASE s = <<>>
    <3>1. stack' = stack /\ durable' = durable \cup {w}
      BY <2>1 DEF Statement
    <3> QED
      BY <3>1 DEF CInv, TypeOK
  <2>2. CASE s # <<>>
    <3> DEFINE n == Len(s)
               e == [s[n] EXCEPT !.writes = @ \cup {w}]
    <3>1. durable' = durable /\ stack' = [stack EXCEPT ![A] = [s EXCEPT ![n] = e]]
      BY <2>2 DEF Statement
    <3>2. n \in 1..Len(s) /\ s[n] \in Savepoint
      BY <1>2, <2>2
    <3>3. e \in Savepoint
      BY <3>2 DEF Savepoint
    <3>4. [s EXCEPT ![n] = e] \in Seq(Savepoint)
      <4> HIDE DEF e, n, s
      <4> QED
        BY <1>2, <3>2, <3>3, ExceptSeq
    <3> HIDE DEF e, n
    <3> QED
      BY <1>1, <2>2, <3>1, <3>4 DEF CInv, TypeOK
  <2> QED
    BY <2>1, <2>2
<1>6. Touches
  BY <1>4, <1>5 DEF Touches, CInv, TypeOK
<1>7. verdict' \in Verdicts
  <2>1. Told({w}, "open") \/ Told({w}, "resolved")
    BY DEF Statement
  <2> QED
    BY <2>1, ToldTypes DEF CInv
<1>8. /\ calls' \in Seq(Call) /\ Len(calls') = Len(calls)
      /\ \A i \in 1..Len(calls) : /\ calls'[i].kind = calls[i].kind
                                  /\ calls'[i].depth = calls[i].depth
                                  /\ calls'[i].owns = calls[i].owns
  <2>1. CASE calls' = calls
    BY <1>2, <2>1
  <2>2. CASE calls' # calls
    <3> DEFINE n == Len(calls)
               e == [calls[n] EXCEPT !.kept = @ \cup {w}]
    <3>1. calls' = [calls EXCEPT ![n] = e]
      BY <2>2 DEF Statement
    <3>2. n \in 1..Len(calls) /\ calls[n] \in Call
      BY <1>3
    <3>3. e \in Call /\ e.kind = calls[n].kind /\ e.depth = calls[n].depth /\ e.owns = calls[n].owns
      BY <3>2 DEF Call
    <3> HIDE DEF e, n
    <3>4. /\ calls' \in Seq(Call) /\ Len(calls') = Len(calls)
          /\ \A i \in 1..Len(calls) : calls'[i] = IF i = n THEN e ELSE calls[i]
      BY <1>2, <3>1, <3>2, <3>3, ExceptSeq
    <3> QED
      BY <3>3, <3>4
  <2> QED
    BY <2>1, <2>2
<1>9. transactionDepth = 0 => A \in unsafe \/ Clean(A)'
  <2> SUFFICES ASSUME transactionDepth = 0, A \notin unsafe PROVE Clean(A)'
    OBVIOUS
  <2>1. s = <<>> /\ A \notin aborted
    BY <1>2 DEF CInv, Cleanness, Clean
  <2> QED
    BY <1>4, <1>5, <2>1 DEF Clean, Statement
<1>10. \A kind \in {"root", "savepoint"} : pc' \notin AwaitedBy(kind)
  BY <1>1 DEF AwaitedBy
<1>11. /\ dead' \subseteq Clients /\ outcomeUnknown' \in BOOLEAN /\ error' \in Error
       /\ failure' \in {"none", "savepoint", "cleanup"} /\ pc' \in Pc \ {"connecting"}
       /\ pc' \notin {"begin", "resolved", "rejected"}
       /\ UNCHANGED <<provider, pool, gone, activeClient, transactionDepth, unsafe>>
  BY <1>1 DEF Statement, CInv, TypeOK, Pc, poolVars
<1> HIDE DEF A, s
<1> QED
  BY <1>1, <1>6, <1>7, <1>8, <1>9, <1>10, <1>11, InPlace DEF A

\* The client's transaction is lost, or only accepts a rollback from now on.
LEMMA StatementFailsClean ==
  ASSUME CInv, StatementFails
  PROVE  CInv'
<1>1. pc = "app" /\ activeClient \in Clients /\ calls # <<>>
  BY DEF StatementFails, CInv, Nesting, TypeOK
<1>2. stack' = stack \/ stack' = [stack EXCEPT ![activeClient] = <<>>]
  BY DEF StatementFails
<1>3. aborted' = aborted \/ (stack[activeClient] # <<>> /\ aborted' = aborted \cup {activeClient})
  BY DEF StatementFails
<1>4. <<>> \in Seq(Savepoint)
  OBVIOUS
<1>5. Touches
  <2>1. stack' \in [Clients -> Seq(Savepoint)]
    BY <1>2, <1>4 DEF CInv, TypeOK
  <2>2. aborted' \subseteq Clients /\ durable' \subseteq Writes
    BY <1>1, <1>3 DEF StatementFails, CInv, TypeOK
  <2>3. \A c \in Clients \ {activeClient} :
          stack'[c] = stack[c] /\ (c \in aborted' <=> c \in aborted)
    BY <1>2, <1>3 DEF CInv, TypeOK
  <2> QED
    BY <2>1, <2>2, <2>3 DEF Touches
<1>6. transactionDepth = 0 => activeClient \in unsafe \/ Clean(activeClient)'
  <2> SUFFICES ASSUME transactionDepth = 0, activeClient \notin unsafe
               PROVE  Clean(activeClient)'
    OBVIOUS
  <2>1. Clean(activeClient) /\ activeClient' = activeClient
    BY <1>1, PooledConnectionAssumption DEF CInv, Cleanness, StatementFails
  <2>2. stack'[activeClient] = <<>>
    BY <1>1, <1>2, <2>1 DEF Clean, CInv, TypeOK
  <2> QED
    BY <1>3, <2>1, <2>2 DEF Clean
<1>7. pc' \in {"app", "unwinding"} /\ error' = Plain
  BY DEF StatementFails
<1>8. /\ UNCHANGED <<poolVars, activeClient, transactionDepth, outcomeUnknown, unsafe,
                     calls, verdict, failure>>
      /\ dead' \subseteq Clients
  BY DEF StatementFails, CInv, TypeOK
<1>9. /\ pc' \in Pc \ {"connecting", "begin", "resolved"} /\ pc' # "rejected"
      /\ \A kind \in {"root", "savepoint"} : pc' \notin AwaitedBy(kind)
  BY <1>7 DEF Pc, AwaitedBy
<1> QED
  BY <1>1, <1>5, <1>6, <1>7, <1>8, <1>9, PlainErrors, SameCallsClean

LEMMA SocketDiesClean ==
  ASSUME CInv, SocketDies
  PROVE  CInv'
<1>1. activeClient \in Clients /\ stack' = [stack EXCEPT ![activeClient] = <<>>]
      /\ aborted' = aborted \ {activeClient}
  BY DEF SocketDies
<1>2. calls # <<>> /\ pc # "connecting"
  BY <1>1, PooledConnectionAssumption DEF CInv, Nesting
<1>3. Touches
  <2>1. <<>> \in Seq(Savepoint)
    OBVIOUS
  <2>2. /\ stack' \in [Clients -> Seq(Savepoint)]
        /\ \A c \in Clients \ {activeClient} : stack'[c] = stack[c]
    BY <1>1, <2>1 DEF CInv, TypeOK
  <2> QED
    BY <1>1, <2>2 DEF Touches, SocketDies, CInv, TypeOK
<1>4. Clean(activeClient)'
  BY <1>1 DEF Clean, SocketDies, CInv, TypeOK
<1>5. /\ UNCHANGED <<provider, pool, gone, activeClient, transactionDepth, unsafe>>
      /\ pc' = pc /\ calls' = calls
  BY DEF SocketDies, poolVars
<1>6. /\ dead' \subseteq Clients /\ outcomeUnknown' \in BOOLEAN
      /\ failure' \in {"none", "savepoint", "cleanup"} /\ error' \in Error
      /\ verdict' \in Verdicts /\ calls' \in Seq(Call) /\ Len(calls') = Len(calls)
  BY DEF SocketDies, CInv, TypeOK, Verdicts
<1>7. pc' \in Pc \ {"connecting"}
  BY <1>2, <1>5 DEF CInv, TypeOK, Pc
<1>8. \A kind \in {"root", "savepoint"} : pc' \in AwaitedBy(kind) => Last(calls).kind = kind
  BY <1>5 DEF CInv, Nesting
<1> QED
  BY <1>1, <1>3, <1>4, <1>5, <1>6, <1>7, <1>8, InPlace

LEMMA CallTransactionClean ==
  ASSUME CInv, CallTransaction
  PROVE  CInv'
<1>1. /\ pc = "app" /\ calls \in Seq(Call) /\ transactionDepth \in Nat
      /\ calls = <<>> <=> activeClient = NoClient
      /\ transactionDepth = Len(calls) - InSession
  BY DEF CallTransaction, CInv, Nesting, TypeOK
<1>2. /\ UNCHANGED <<server, activeClient, outcomeUnknown, error, unsafe, verdict>>
      /\ failure' \in {"none", "savepoint", "cleanup"}
  BY DEF CallTransaction, CInv, TypeOK
<1>3. calls = <<>> => transactionDepth = 0
  BY <1>1 DEF InSession
<1>4. \A kind \in {"root", "savepoint"}, owns \in BOOLEAN :
        [kind |-> kind, depth |-> transactionDepth, owns |-> owns, kept |-> {}] \in Call
  BY <1>1 DEF Call
<1>5. ASSUME calls' \in Seq(Call), pc' \in Pc, transactionDepth' \in Nat PROVE TypeOK'
  BY <1>2, <1>5 DEF CInv, TypeOK, server, poolVars, Pc
<1>6. ASSUME pc' \notin {"resolved", "rejected"},
             transactionDepth' = 0 \/ pc' = "begin" => transactionDepth = 0
      PROVE  Cleanness'
  <2>1. \A c : Clean(c)' <=> Clean(c)
    BY <1>2 DEF Clean, server
  <2> QED
    BY <1>2, <1>6, <2>1 DEF CInv, Cleanness, server, poolVars
<1>7. CASE transactionDepth > 0
  <2> DEFINE r == [kind |-> "savepoint", depth |-> transactionDepth, owns |-> FALSE, kept |-> {}]
  <2>1. /\ calls' = Append(calls, r) /\ pc' = "savepoint"
        /\ transactionDepth' = transactionDepth + 1
    BY <1>7 DEF CallTransaction, Enter
  <2>2. r \in Call /\ r.kind = "savepoint" /\ r.depth = transactionDepth /\ ~r.owns
    BY <1>4
  <2>3. calls # <<>>
    BY <1>3, <1>7
  <2> HIDE DEF r
  <2>4. /\ calls' \in Seq(Call) /\ calls' # <<>> /\ Len(calls') = Len(calls) + 1
        /\ Last(calls') = r /\ InSession' = InSession
        /\ \A i \in 1..Len(calls') : WellPlaced(i)'
    BY <1>1, <1>7, <2>1, <2>2, <2>3, Entering
  <2>5. Nesting'
    <3>1. transactionDepth' = Len(calls') - InSession'
      BY <1>1, <2>1, <2>4 DEF InSession
    <3> QED
      BY <1>1, <1>2, <2>1, <2>2, <2>3, <2>4, <3>1 DEF Nesting, AwaitedBy
  <2>6. TypeOK'
    BY <1>1, <1>5, <2>1, <2>4 DEF Pc, Commands
  <2>7. Cleanness'
    BY <1>1, <1>6, <1>7, <2>1
  <2> QED
    BY <2>5, <2>6, <2>7 DEF CInv
<1>8. CASE transactionDepth = 0 /\ activeClient # NoClient
  <2> DEFINE r == [kind |-> "root", depth |-> transactionDepth, owns |-> FALSE, kept |-> {}]
  <2>1. calls' = Append(calls, r) /\ pc' = "begin" /\ transactionDepth' = 1
    BY <1>8 DEF CallTransaction, Enter
  <2>2. r \in Call /\ r.kind = "root" /\ r.depth = transactionDepth /\ ~r.owns
    BY <1>4
  <2>3. calls # <<>>
    BY <1>1, <1>8
  <2> HIDE DEF r
  <2>4. /\ calls' \in Seq(Call) /\ calls' # <<>> /\ Len(calls') = Len(calls) + 1
        /\ Last(calls') = r /\ InSession' = InSession
        /\ \A i \in 1..Len(calls') : WellPlaced(i)'
    BY <1>1, <1>8, <2>1, <2>2, <2>3, Entering
  <2>5. Nesting'
    <3>1. transactionDepth' = Len(calls') - InSession'
      BY <1>1, <1>8, <2>1, <2>4 DEF InSession
    <3> QED
      BY <1>1, <1>2, <2>1, <2>2, <2>3, <2>4, <3>1 DEF Nesting, AwaitedBy
  <2>6. TypeOK'
    BY <1>5, <2>1, <2>4 DEF Pc, Commands
  <2>7. Cleanness'
    BY <1>6, <1>8, <2>1
  <2> QED
    BY <2>5, <2>6, <2>7 DEF CInv
<1>9. CASE transactionDepth = 0 /\ activeClient = NoClient
  <2> DEFINE r == [kind |-> "root", depth |-> transactionDepth, owns |-> TRUE, kept |-> {}]
  <2>1. calls' = Append(calls, r) /\ pc' = "connecting" /\ transactionDepth' = transactionDepth
    BY <1>9 DEF CallTransaction, Enter
  <2>2. r \in Call /\ r.kind = "root" /\ r.depth = transactionDepth /\ r.owns
    BY <1>4
  <2>3. calls = <<>>
    BY <1>1, <1>9
  <2> HIDE DEF r
  <2>4. /\ calls' \in Seq(Call) /\ calls' # <<>> /\ Len(calls') = Len(calls) + 1
        /\ Last(calls') = r /\ calls'[1].kind = "root"
        /\ \A i \in 1..Len(calls') : WellPlaced(i)'
    BY <1>1, <1>9, <2>1, <2>2, <2>3, Entering
  <2>5. Nesting'
    BY <1>1, <1>2, <1>9, <2>1, <2>3, <2>4 DEF Nesting, AwaitedBy
  <2>6. TypeOK'
    BY <1>1, <1>5, <2>1, <2>4 DEF Pc
  <2>7. Cleanness'
    BY <1>6, <1>9, <2>1
  <2> QED
    BY <2>5, <2>6, <2>7 DEF CInv
<1> QED
  BY <1>1, <1>7, <1>8, <1>9

LEMMA CallSessionClean ==
  ASSUME CInv, CallSession
  PROVE  CInv'
<1>1. /\ pc = "app" /\ calls = <<>> /\ activeClient = NoClient /\ transactionDepth = 0
  BY DEF CallSession, CInv, Nesting, InSession
<1> DEFINE r == [kind |-> "session", depth |-> transactionDepth, owns |-> TRUE, kept |-> {}]
<1>2. /\ UNCHANGED <<server, activeClient, transactionDepth, outcomeUnknown, failure,
                     error, unsafe, verdict>>
      /\ calls' = Append(calls, r) /\ pc' = "connecting"
  BY DEF CallSession, Enter
<1>3. r \in Call /\ r.kind = "session" /\ r.depth = transactionDepth /\ r.owns
  BY DEF CInv, TypeOK, Call
<1> HIDE DEF r
<1>4. /\ calls' \in Seq(Call) /\ calls' # <<>> /\ Len(calls') = 1
      /\ calls'[1].kind = "session"
      /\ \A i \in 1..Len(calls') : WellPlaced(i)'
  BY <1>1, <1>2, <1>3, Entering
<1>5. TypeOK'
  BY <1>2, <1>4 DEF CInv, TypeOK, server, poolVars
<1>6. Nesting'
  BY <1>1, <1>2, <1>4 DEF Nesting, AwaitedBy
<1>7. Cleanness'
  <2>1. \A c : Clean(c)' <=> Clean(c)
    BY <1>2 DEF Clean, server
  <2> QED
    BY <1>1, <1>2, <2>1 DEF CInv, Cleanness, server, poolVars
<1> QED
  BY <1>5, <1>6, <1>7 DEF CInv

LEMMA ConnectedClean ==
  ASSUME CInv, NEW c \in Clients, Connected(c)
  PROVE  CInv'
<1>1. /\ pc = "connecting" /\ activeClient = NoClient /\ transactionDepth = 0
      /\ Len(calls) = 1 /\ calls[1].kind # "savepoint" /\ calls \in Seq(Call)
      /\ \A i \in 1..Len(calls) : WellPlaced(i)
  BY DEF Connected, CInv, Nesting, TypeOK
<1>2. calls # <<>> /\ Last(calls) = calls[1] /\ calls[1] \in Call
  BY <1>1 DEF Last
<1>3. /\ c \in pool /\ pool' = pool \ {c} /\ activeClient' = c
      /\ UNCHANGED <<provider, stack, aborted, dead, gone, durable, outcomeUnknown, calls,
                     error, unsafe, verdict>>
  BY DEF Connected
<1>4. \/ calls[1].kind = "session" /\ pc' = "app" /\ UNCHANGED <<transactionDepth, failure>>
      \/ calls[1].kind = "root" /\ pc' = "begin" /\ transactionDepth' = 1 /\ failure' = "none"
  BY <1>1, <1>2 DEF Connected, Call
<1>5. TypeOK'
  BY <1>3, <1>4 DEF CInv, TypeOK, Commands
<1>6. Nesting'
  <2>1. \A i \in 1..Len(calls') : WellPlaced(i)'
    BY <1>1, <1>3 DEF WellPlaced, InSession
  <2>2. transactionDepth' = Len(calls') - InSession'
    <3>1. InSession' = IF calls[1].kind = "session" THEN 1 ELSE 0
      BY <1>2, <1>3 DEF InSession
    <3>2. Len(calls') = 1
      BY <1>1, <1>3
    <3> QED
      BY <1>1, <1>4, <3>1, <3>2
  <2>3. c # NoClient
    BY PooledConnectionAssumption
  <2> QED
    BY <1>2, <1>3, <1>4, <2>1, <2>2, <2>3 DEF Nesting, AwaitedBy
<1>7. Cleanness'
  <2>1. \A d : Clean(d)' <=> Clean(d)
    BY <1>3 DEF Clean
  <2>2. \A d \in Clients : d \in unsafe \/ Clean(d)
    BY <1>1, PooledConnectionAssumption DEF CInv, Cleanness
  <2>3. Clients \ (pool' \cup gone') \subseteq {activeClient'} /\ activeClient' \notin pool'
    <3>1. Clients \ (pool \cup gone) \subseteq {NoClient}
      BY <1>1 DEF CInv, Cleanness
    <3> QED
      BY <1>3, <3>1, PooledConnectionAssumption
  <2>4. pc' # "resolved" /\ pc' # "rejected" /\ activeClient' = c /\ unsafe' = unsafe
    BY <1>3, <1>4
  <2> QED
    BY <2>1, <2>2, <2>3, <2>4 DEF Cleanness
<1> QED
  BY <1>5, <1>6, <1>7 DEF CInv

LEMMA ConnectFailsClean ==
  ASSUME CInv, ConnectFails
  PROVE  CInv'
<1>1. /\ pc = "connecting" /\ activeClient = NoClient /\ Len(calls) = 1
      /\ calls # <<>> /\ calls \in Seq(Call)
  <2>1. /\ pc = "connecting" /\ activeClient = NoClient /\ Len(calls) = 1
        /\ calls \in Seq(Call)
    BY DEF ConnectFails, CInv, Nesting, TypeOK
  <2>2. calls # <<>>
    <3>1. Len(<<>>) # 1
      OBVIOUS
    <3> QED
      BY <2>1, <3>1, Zenon
  <2> QED
    BY <2>1, <2>2
<1>2. Front(calls) \in Seq(Call) /\ Len(Front(calls)) = 0
  BY <1>1, WithoutLast
<1>3. /\ UNCHANGED <<server, activeClient, transactionDepth, outcomeUnknown, failure,
                     unsafe, verdict>>
      /\ calls' = Front(calls) /\ error' = Plain /\ pc' = "app"
  BY <1>1 DEF ConnectFails, Leaves, Rejects
<1>4. Nesting'
  BY <1>1, <1>2, <1>3, Leaving
<1>5. TypeOK'
  BY <1>2, <1>3, PlainErrors DEF CInv, TypeOK, server, poolVars
<1>6. Cleanness'
  <2>1. \A c : Clean(c)' <=> Clean(c)
    BY <1>3 DEF Clean, server
  <2> QED
    BY <1>1, <1>3, <2>1 DEF CInv, Cleanness, server, poolVars
<1> QED
  BY <1>4, <1>5, <1>6 DEF CInv

\* Giving the client back: it is gone, or waits in the pool as it is.
LEMMA Releasing ==
  ASSUME CInv, activeClient \in Clients, NEW destroy \in BOOLEAN, Releases(destroy),
         activeClient' = NoClient, unsafe' = unsafe, pc' \in {"app", "unwinding"},
         destroy \/ activeClient \in unsafe \/ Clean(activeClient)
  PROVE  /\ pool' \subseteq Clients /\ gone' \subseteq Clients
         /\ stack' \in [Clients -> Seq(Savepoint)] /\ aborted' \subseteq Clients
         /\ Cleanness'
<1>1. CASE destroy \/ activeClient \in dead
  <2>1. /\ gone' = gone \cup {activeClient} /\ pool' = pool
        /\ stack' = [stack EXCEPT ![activeClient] = <<>>]
        /\ aborted' = aborted \ {activeClient}
    BY <1>1 DEF Releases
  <2>2. <<>> \in Seq(Savepoint)
    OBVIOUS
  <2>3. stack' \in [Clients -> Seq(Savepoint)]
    BY <2>1, <2>2 DEF CInv, TypeOK
  <2>4. ASSUME NEW c \in Clients, c \notin unsafe PROVE Clean(c)'
    BY <2>1, <2>4 DEF CInv, Cleanness, Clean, TypeOK
  <2>5. Cleanness'
    BY <2>1, <2>4, PooledConnectionAssumption DEF CInv, Cleanness, TypeOK
  <2> QED
    BY <2>1, <2>3, <2>5 DEF CInv, TypeOK
<1>2. CASE ~(destroy \/ activeClient \in dead)
  <2>1. pool' = pool \cup {activeClient} /\ UNCHANGED <<gone, stack, aborted>>
    BY <1>2 DEF Releases
  <2>2. ASSUME NEW c \in Clients, c \notin unsafe PROVE Clean(c)'
    BY <1>2, <2>1, <2>2 DEF CInv, Cleanness, Clean
  <2>3. Cleanness'
    BY <2>1, <2>2, PooledConnectionAssumption DEF CInv, Cleanness, TypeOK
  <2> QED
    BY <2>1, <2>3 DEF CInv, TypeOK
<1> QED
  BY <1>1, <1>2

\* The root transaction is left; what made its client unfit for more, destroys
\* or condemns it.
LEMMA LeavesRootClean ==
  ASSUME CInv, pc \in {"resolved", "rejected"}, NEW destroy \in BOOLEAN, LeavesRoot(destroy),
         destroy \/ Clean(activeClient),
         outcomeUnknown' \in BOOLEAN, error' \in Error, verdict' \in Verdicts,
         pc' \in {"app", "unwinding"}, Len(calls) = 1 => pc' = "app"
  PROVE  CInv'
<1>1. /\ activeClient \in Clients /\ calls # <<>> /\ pc # "connecting"
      /\ Last(calls).kind = "root" /\ transactionDepth = 1
  BY Awaiting DEF AwaitedBy
<1>2. Last(calls).owns <=> Len(calls) = 1
  BY <1>1, DepthOfCalls
<1>3. calls \in Seq(Call)
  BY DEF CInv, TypeOK
<1>4. /\ Front(calls) \in Seq(Call) /\ Len(Front(calls)) = Len(calls) - 1
      /\ \A i \in 1..Len(calls) - 1 : Front(calls)[i] = calls[i]
  BY <1>1, <1>3, WithoutLast
<1>5. /\ calls' = Front(calls) /\ transactionDepth' = 0 /\ failure' = "none"
      /\ UNCHANGED <<provider, dead, durable>>
  BY DEF LeavesRoot, Leaves
<1>6. activeClient' = IF Len(calls) = 1 THEN NoClient ELSE activeClient
  BY <1>2 DEF LeavesRoot, ClientIsForgotten
<1>7. transactionDepth' = transactionDepth - 1
  BY <1>1, <1>5
<1>8. Nesting'
  BY <1>1, <1>4, <1>5, <1>6, <1>7, Leaving
<1>9. /\ pool' \subseteq Clients /\ gone' \subseteq Clients /\ unsafe' \subseteq Clients
      /\ stack' \in [Clients -> Seq(Savepoint)] /\ aborted' \subseteq Clients
      /\ Cleanness'
  <2>1. CASE Last(calls).owns
    <3>1. Releases(destroy) /\ unsafe' = unsafe /\ activeClient' = NoClient
      BY <2>1 DEF LeavesRoot, ClientIsForgotten
    <3> QED
      BY <1>1, <3>1, Releasing DEF CInv, TypeOK
  <2>2. CASE ~Last(calls).owns
    <3>1. /\ unsafe' = IF destroy THEN unsafe \cup {activeClient} ELSE unsafe
          /\ UNCHANGED <<activeClient, pool, gone, stack, aborted>>
      BY <2>2 DEF LeavesRoot
    <3>2. \A c : Clean(c)' <=> Clean(c)
      BY <3>1 DEF Clean
    <3>3. activeClient \in unsafe' \/ Clean(activeClient)
      BY <3>1
    <3>4. Cleanness'
      BY <1>1, <3>1, <3>2, <3>3 DEF CInv, Cleanness
    <3> QED
      BY <1>1, <3>1, <3>4 DEF CInv, TypeOK
  <2> QED
    BY <2>1, <2>2
<1>10. activeClient' \in Clients \cup {NoClient}
  BY <1>1, <1>6
<1>11. TypeOK'
  BY <1>4, <1>5, <1>9, <1>10 DEF CInv, TypeOK, Verdicts
<1> QED
  BY <1>8, <1>9, <1>11 DEF CInv

LEMMA RootEndsClean ==
  ASSUME CInv, RootResolves \/ RootRejects
  PROVE  CInv'
<1>1. Len(calls) \in Nat /\ TypeOK /\ error \in Error
  BY DEF CInv, TypeOK
<1>2. CASE RootResolves
  <2>1. pc = "resolved" /\ LeavesRoot(FALSE) /\ Clean(activeClient)
    BY <1>2 DEF RootResolves, CInv, Cleanness
  <2>2. pc' = "app" /\ error' \in Error /\ outcomeUnknown' \in BOOLEAN
    BY <1>2, PlainErrors DEF RootResolves, Resolves, CInv, TypeOK
  <2>3. verdict' \in Verdicts
    BY <1>1, <1>2, ToldTypes DEF RootResolves
  <2> QED
    BY <2>1, <2>2, <2>3, LeavesRootClean
<1>3. CASE RootRejects
  <2>1. /\ pc = "rejected" /\ LeavesRoot(MakesUnsafe(error))
        /\ MakesUnsafe(error) \/ Clean(activeClient)
    BY <1>3 DEF RootRejects, CInv, Cleanness
  <2>2. MakesUnsafe(error) \in BOOLEAN
    BY DEF MakesUnsafe
  <2>3. /\ outcomeUnknown' \in BOOLEAN /\ error' \in Error
        /\ pc' \in {"app", "unwinding"} /\ (Len(calls) = 1 => pc' = "app")
    BY <1>1, <1>3, PlainErrors DEF RootRejects, Rejects
  <2>4. verdict' \in Verdicts
    BY <1>1, <1>3, ToldTypes DEF RootRejects
  <2> QED
    BY <2>1, <2>2, <2>3, <2>4, LeavesRootClean
<1> QED
  BY <1>2, <1>3

LEMMA SessionEndsClean ==
  ASSUME CInv, SessionEnds
  PROVE  CInv'
<1>1. calls # <<>> /\ Last(calls).kind = "session" /\ pc \in {"app", "unwinding"}
  BY DEF SessionEnds
<1>2. /\ activeClient \in Clients /\ transactionDepth = 0 /\ Len(calls) = 1
  BY <1>1, DepthOfCalls
<1>3. /\ activeClient' = NoClient /\ calls' = Front(calls)
      /\ UNCHANGED <<provider, dead, durable, transactionDepth, outcomeUnknown, failure,
                     unsafe, verdict>>
  BY DEF SessionEnds, ClientIsForgotten, Leaves
<1>4. PICK destroy \in BOOLEAN : Releases(destroy)
  BY DEF SessionEnds
<1>5. pc' = "app" /\ error' \in Error
  BY <1>2, PlainErrors DEF SessionEnds, Resolves, Rejects, CInv, TypeOK
<1>6. activeClient \in unsafe \/ Clean(activeClient)
  BY <1>2, PooledConnectionAssumption DEF CInv, Cleanness
<1>7. /\ pool' \subseteq Clients /\ gone' \subseteq Clients
      /\ stack' \in [Clients -> Seq(Savepoint)] /\ aborted' \subseteq Clients
      /\ Cleanness'
  BY <1>2, <1>3, <1>4, <1>5, <1>6, Releasing
<1>8. Front(calls) \in Seq(Call) /\ Len(Front(calls)) = 0
      /\ \A i \in 1..Len(calls) - 1 : Front(calls)[i] = calls[i]
  <2>1. calls \in Seq(Call)
    BY DEF CInv, TypeOK
  <2> QED
    BY <1>1, <1>2, <2>1, WithoutLast
<1>9. Nesting'
  BY <1>1, <1>2, <1>3, <1>5, <1>8, Leaving
<1>10. TypeOK'
  BY <1>3, <1>5, <1>7, <1>8 DEF CInv, TypeOK
<1> QED
  BY <1>7, <1>9, <1>10 DEF CInv

LEMMA StutterClean ==
  ASSUME CInv, UNCHANGED vars
  PROVE  CInv'
<1> USE DEF vars, server, poolVars
<1>1. TypeOK'
  BY DEF CInv, TypeOK
<1>2. Nesting'
  BY DEF CInv, Nesting, WellPlaced, InSession
<1>3. Cleanness'
  BY DEF CInv, Cleanness, Clean
<1> QED
  BY <1>1, <1>2, <1>3 DEF CInv

LEMMA StepKeepsClean == CInv /\ [Next]_vars => CInv'
<1> SUFFICES ASSUME CInv, [Next]_vars PROVE CInv'
  OBVIOUS
<1>1. CASE CallTransaction \/ CallSession
  BY <1>1, CallTransactionClean, CallSessionClean
<1>2. ASSUME NEW w \in Writes, Statement(w) PROVE CInv'
  BY <1>2, StatementClean
<1>3. CASE StatementFails \/ SocketDies
  BY <1>3, StatementFailsClean, SocketDiesClean
<1>4. CASE AnswerArrives
  <2>1. ASSUME NEW c \in Clients, Connected(c) PROVE CInv'
    BY <2>1, ConnectedClean
  <2>2. CASE ConnectFails \/ RootResolves \/ RootRejects \/ Released
    BY <2>2, ConnectFailsClean, RootEndsClean, ReleasedClean
  <2>3. CASE Begun \/ BeginFails \/ CommitFails \/ RolledBack \/ RollbackFails
    BY <2>3, RootCommandsClean
  <2>4. CASE CommitSucceeds
    BY <2>4, CommitSucceedsClean
  <2>5. CASE SavepointSet \/ ReleaseFails \/ (RolledBackToSavepoint /\ Postgres)
    BY <2>5, SavepointCommandsClean
  <2>6. CASE \/ SavepointFails
             \/ RolledBackToSavepoint /\ ~Postgres
             \/ ReleasedAfter
             \/ \E command \in {"rollbackTo", "releaseAfter"} : CleanUpFails(command)
    BY <2>6, SavepointEndsClean
  <2> QED
    BY <1>4, <2>1, <2>2, <2>3, <2>4, <2>5, <2>6 DEF AnswerArrives
<1>5. CASE WorkEnds
  BY <1>5, WorkEndsClean, SessionEndsClean DEF WorkEnds
<1>6. CASE UNCHANGED vars
  BY <1>6, StutterClean
<1> QED
  BY <1>1, <1>2, <1>3, <1>4, <1>5, <1>6 DEF Next

LEMMA CleanInvariant == Spec => []CInv
<1>1. Init => CInv
  BY InitClean
<1>2. CInv /\ [Next]_vars => CInv'
  BY StepKeepsClean
<1> QED
  BY <1>1, <1>2, PTL DEF Spec

\* IdleClientsAreClean: the types hold, a client that waits in the pool carries
\* no transaction unless session() gave a condemned one back, and none is lost.
THEOREM PoolStaysClean == Spec => []IdleClientsAreClean
<1>1. CInv => IdleClientsAreClean
  <2> SUFFICES ASSUME CInv PROVE IdleClientsAreClean
    OBVIOUS
  <2>1. TypeOK /\ Clients \ (pool \cup gone) \subseteq {activeClient}
    BY DEF CInv, Cleanness
  <2>2. ASSUME NEW c \in pool \ unsafe PROVE stack[c] = <<>> /\ c \notin aborted
    BY DEF CInv, Cleanness, Clean, TypeOK
  <2> QED
    BY <2>1, <2>2 DEF IdleClientsAreClean
<1> QED
  BY <1>1, CleanInvariant, PTL

-----------------------------------------------------------------------------
(* The frames of a native transaction and the writes that the t innermost  *)
(* open calls of a transaction account for, K[1] those of the root         *)

\* The savepoint of the i-th call is the i-th frame, what follows the t-th has
\* names of its own, and the frames below the t-th hold what the calls kept.
Weak(s, K, t) ==
  /\ t <= Len(s)
  /\ \A i \in 1..t : s[i].name = i - 1
  /\ \A i \in t + 1..Len(s) : s[i].name >= t
  /\ \A i \in 1..t - 1 : s[i].writes = K[i]

\* The t-th savepoint is not there: its release was executed and not confirmed.
Lost(s, K, t) ==
  /\ t > 1 /\ Len(s) = t - 1
  /\ \A i \in 1..t - 1 : s[i].name = i - 1
  /\ \A i \in 1..t - 2 : s[i].writes = K[i]

\* The innermost call wrote what it kept to the t-th frame, or above a savepoint
\* that MySQL left behind.
Strong(s, K, t, pg) ==
  /\ Weak(s, K, t)
  /\ Len(s) = t \/ (Len(s) = t + 1 /\ ~pg /\ s[t + 1].name = t)
  /\ Above(s, t) = K[t]

LEMMA AboveOne ==
  ASSUME NEW s \in Seq(Savepoint), NEW t \in 1..Len(s)
  PROVE  /\ Len(s) = t => Above(s, t) = s[t].writes
         /\ Len(s) = t + 1 => Above(s, t) = s[t].writes \cup s[t + 1].writes
<1>1. t \in Nat /\ t \in Int
  OBVIOUS
<1>2. ASSUME Len(s) = t PROVE Above(s, t) = s[t].writes
  <2>1. t..t = {t}
    BY <1>1
  <2>2. {s[j].writes : j \in t..Len(s)} = {s[t].writes}
    BY <1>2, <2>1
  <2> QED
    BY <2>2 DEF Above
<1>3. ASSUME Len(s) = t + 1 PROVE Above(s, t) = s[t].writes \cup s[t + 1].writes
  <2>1. t..t + 1 = {t, t + 1}
    BY <1>1
  <2>2. {s[j].writes : j \in t..Len(s)} = {s[t].writes, s[t + 1].writes}
    BY <1>3, <2>1
  <2> QED
    BY <2>2 DEF Above
<1> QED
  BY <1>2, <1>3

\* What does not depend on the writes of calls further in.
LEMMA AgreeingKept ==
  ASSUME NEW s, NEW K, NEW L, NEW t \in Nat, t > 0, \A i \in 1..t : K[i] = L[i]
  PROVE  /\ Weak(s, K, t) => Weak(s, L, t)
         /\ Strong(s, K, t, Postgres) => Strong(s, L, t, Postgres)
<1>1. t \in 1..t /\ \A i \in 1..t - 1 : i \in 1..t
  OBVIOUS
<1> QED
  BY <1>1 DEF Weak, Strong

LEMMA FirstFrame ==
  ASSUME NEW K, K[1] = {}
  PROVE  Strong(<<Root>>, K, 1, Postgres)
<1>1. Root \in Savepoint /\ Root.name = 0 /\ Root.writes = {}
  BY DEF Root, Savepoint
<1>2. <<Root>> \in Seq(Savepoint) /\ Len(<<Root>>) = 1 /\ <<Root>>[1] = Root
  BY <1>1
<1> DEFINE s == <<Root>>
<1> HIDE DEF s
<1>3. s \in Seq(Savepoint) /\ Len(s) = 1 /\ s[1] = Root
  BY <1>2 DEF s
<1>4. Above(s, 1) = {}
  BY <1>1, <1>3, AboveOne
<1>5. Weak(s, K, 1)
  BY <1>1, <1>3 DEF Weak
<1>6. Strong(s, K, 1, Postgres)
  BY <1>3, <1>4, <1>5 DEF Strong
<1> QED
  BY <1>6 DEF s

\* A statement writes to the last frame.
LEMMA FramesWithWrite ==
  ASSUME NEW s \in Seq(Savepoint), NEW K, NEW L, NEW t \in Nat, t > 0, NEW w \in Writes,
         Strong(s, K, t, Postgres), \A i \in 1..t - 1 : L[i] = K[i], L[t] = K[t] \cup {w}
  PROVE  Strong([s EXCEPT ![Len(s)].writes = @ \cup {w}], L, t, Postgres)
<1> DEFINE n == Len(s)
           e == [s[n] EXCEPT !.writes = @ \cup {w}]
           q == [s EXCEPT ![n] = e]
<1>1. n \in Nat /\ t <= n
  BY DEF Strong, Weak
<1>2. n \in 1..n /\ s[n] \in Savepoint
  BY <1>1
<1>3. e \in Savepoint /\ e.name = s[n].name /\ e.writes = s[n].writes \cup {w}
  BY <1>2 DEF Savepoint
<1>4. q = [s EXCEPT ![Len(s)].writes = @ \cup {w}]
  OBVIOUS
<1> HIDE DEF e
<1>5. /\ q \in Seq(Savepoint) /\ Len(q) = n
      /\ \A i \in 1..n : q[i] = IF i = n THEN e ELSE s[i]
  BY <1>2, <1>3, ExceptSeq
<1> HIDE DEF q, n
<1>6. /\ \A i \in 1..n : q[i].name = s[i].name
      /\ \A i \in 1..n : i # n => q[i].writes = s[i].writes
      /\ q[n].writes = s[n].writes \cup {w}
  BY <1>2, <1>3, <1>5
<1>7. Weak(q, L, t)
  <2>1. \A i \in 1..t : q[i].name = i - 1
    BY <1>1, <1>6 DEF Strong, Weak
  <2>2. \A i \in t + 1..Len(q) : q[i].name >= t
    BY <1>1, <1>5, <1>6 DEF Strong, Weak, n
  <2>3. ASSUME NEW i \in 1..t - 1 PROVE q[i].writes = L[i]
    <3>1. i \in 1..n /\ i # n
      BY <1>1
    <3>2. s[i].writes = K[i]
      BY DEF Strong, Weak
    <3> QED
      BY <1>6, <3>1, <3>2
  <2> QED
    BY <1>1, <1>5, <2>1, <2>2, <2>3 DEF Weak
<1>8. Above(q, t) = Above(s, t) \cup {w}
  <2>1. CASE n = t
    BY <1>1, <1>2, <1>5, <1>6, <2>1, AboveOne DEF n
  <2>2. CASE n = t + 1
    <3>1. t \in 1..n /\ t # n /\ t \in 1..Len(q) /\ t \in 1..Len(s)
      BY <1>1, <1>5, <2>2 DEF n
    <3>2. Above(q, t) = q[t].writes \cup q[t + 1].writes
      BY <1>5, <2>2, <3>1, AboveOne
    <3>3. Above(s, t) = s[t].writes \cup s[t + 1].writes
      BY <2>2, <3>1, AboveOne DEF n
    <3> QED
      BY <1>6, <2>2, <3>1, <3>2, <3>3
  <2> QED
    BY <2>1, <2>2 DEF Strong, n
<1>9. Len(q) = t \/ (Len(q) = t + 1 /\ ~Postgres /\ q[t + 1].name = t)
  BY <1>2, <1>5, <1>6 DEF Strong, n
<1>10. Strong(q, L, t, Postgres)
  BY <1>7, <1>8, <1>9 DEF Strong
<1> QED
  BY <1>4, <1>10

\* A savepoint is set where the innermost call is.
LEMMA FramesWithNewSavepoint ==
  ASSUME NEW s \in Seq(Savepoint), NEW K, NEW t \in Nat, t > 0, Strong(s, K, t, Postgres)
  PROVE  LET q == WithSavepoint(s, t)
         IN  /\ K[t + 1] = {} => Strong(q, K, t + 1, Postgres)
             /\ Weak(q, K, t)
<1> DEFINE q == WithSavepoint(s, t)
<1>1. /\ Len(s) \in Nat /\ t <= Len(s)
      /\ Len(s) = t \/ (Len(s) = t + 1 /\ ~Postgres /\ s[t + 1].name = t)
      /\ \A i \in 1..t : s[i].name = i - 1
      /\ \A i \in 1..t - 1 : s[i].writes = K[i]
      /\ Above(s, t) = K[t]
  BY DEF Strong, Weak
<1>2. /\ Named(s, t) \in Nat
      /\ Named(s, t) = 0 \/ (Named(s, t) \in 2..Len(s) /\ s[Named(s, t)].name = t)
      /\ \A i \in 2..Len(s) : s[i].name = t => Named(s, t) # 0 /\ i <= Named(s, t)
  BY NamedFinds
<1>3. /\ q \in Seq(Savepoint) /\ q # <<>>
      /\ Postgres \/ Named(s, t) = 0 => q = Append(s, Fresh(t))
      /\ ~Postgres /\ Named(s, t) # 0 /\ Named(s, t) = Len(s) =>
           /\ Len(q) = Named(s, t)
           /\ q[Named(s, t)] = Fresh(t)
           /\ q[Named(s, t) - 1] = [name |-> s[Named(s, t) - 1].name,
                 writes |-> s[Named(s, t) - 1].writes \cup s[Named(s, t)].writes]
           /\ \A j \in 1..Named(s, t) - 2 : q[j] = s[j]
  BY FramesWithSavepoint
<1> HIDE DEF q
<1>4. Fresh(t) \in Savepoint /\ Fresh(t).name = t /\ Fresh(t).writes = {}
  BY DEF Fresh, Savepoint
<1>5. /\ Len(q) = t + 1
      /\ \A i \in 1..t + 1 : q[i].name = i - 1
      /\ \A i \in 1..t : q[i].writes = K[i]
      /\ q[t + 1].writes = {}
  <2>1. CASE Len(s) = t
    <3>1. Named(s, t) = 0
      <4> SUFFICES ASSUME Named(s, t) # 0 PROVE FALSE
        OBVIOUS
      <4>1. Named(s, t) \in 1..t /\ s[Named(s, t)].name = t
        BY <1>2, <2>1
      <4> QED
        BY <1>1, <4>1
    <3>2. /\ Len(q) = Len(s) + 1
          /\ \A i \in 1..Len(s) : q[i] = s[i]
          /\ q[Len(s) + 1] = Fresh(t)
      BY <1>3, <1>4, <3>1, AppendProperties
    <3>3. s[t].writes = K[t]
      BY <1>1, <2>1, AboveOne
    <3>4. \A i \in 1..t : s[i].writes = K[i]
      BY <1>1, <3>3
    <3>5. \A i \in 1..t + 1 : i \in 1..t \/ i = t + 1
      OBVIOUS
    <3> QED
      BY <1>1, <1>4, <2>1, <3>2, <3>4, <3>5
  <2>2. CASE Len(s) = t + 1
    <3>1. ~Postgres /\ s[t + 1].name = t
      BY <1>1, <2>2
    <3>2. Named(s, t) = t + 1
      <4>1. t + 1 \in 2..Len(s)
        BY <2>2
      <4>2. t + 1 <= Named(s, t) /\ Named(s, t) # 0
        BY <1>2, <3>1, <4>1
      <4> QED
        BY <1>2, <2>2, <4>2
    <3>3. /\ Len(q) = t + 1 /\ q[t + 1] = Fresh(t)
          /\ q[t] = [name |-> s[t].name, writes |-> s[t].writes \cup s[t + 1].writes]
          /\ \A j \in 1..t - 1 : q[j] = s[j]
      <4>1. (t + 1) - 1 = t /\ (t + 1) - 2 = t - 1 /\ t + 1 # 0
        OBVIOUS
      <4> QED
        BY <1>3, <2>2, <3>1, <3>2, <4>1
    <3>4. K[t] = s[t].writes \cup s[t + 1].writes
      BY <1>1, <2>2, AboveOne
    <3>5. /\ q[t].name = s[t].name /\ q[t].writes = K[t]
          /\ q[t + 1].name = t /\ q[t + 1].writes = {}
      BY <1>4, <3>3, <3>4
    <3>6. ASSUME NEW i \in 1..t - 1 PROVE q[i].name = i - 1 /\ q[i].writes = K[i]
      BY <1>1, <3>3
    <3>7. s[t].name = t - 1
      BY <1>1
    <3>8. ASSUME NEW i \in 1..t + 1 PROVE q[i].name = i - 1
      <4>1. i \in 1..t - 1 \/ i = t \/ i = t + 1
        OBVIOUS
      <4> QED
        BY <3>5, <3>6, <3>7, <4>1
    <3>9. ASSUME NEW i \in 1..t PROVE q[i].writes = K[i]
      <4>1. i \in 1..t - 1 \/ i = t
        OBVIOUS
      <4> QED
        BY <3>5, <3>6, <4>1
    <3> QED
      BY <3>3, <3>5, <3>8, <3>9
  <2> QED
    BY <1>1, <2>1, <2>2
<1>6. Weak(q, K, t)
  <2>1. \A i \in t + 1..Len(q) : q[i].name >= t
    BY <1>5
  <2>2. \A i \in 1..t : q[i].name = i - 1
    BY <1>5
  <2>3. \A i \in 1..t - 1 : q[i].writes = K[i]
    BY <1>5
  <2>4. t <= Len(q)
    BY <1>5
  <2> QED
    BY <2>1, <2>2, <2>3, <2>4 DEF Weak
<1>7. ASSUME K[t + 1] = {} PROVE Strong(q, K, t + 1, Postgres)
  <2>1. Weak(q, K, t + 1)
    BY <1>5 DEF Weak
  <2>2. Above(q, t + 1) = {}
    BY <1>3, <1>5, AboveOne
  <2> QED
    BY <1>5, <1>7, <2>1, <2>2 DEF Strong
<1> QED
  BY <1>6, <1>7 DEF q

LEMMA InnermostSavepoint ==
  ASSUME NEW s \in Seq(Savepoint), NEW K, NEW t \in Nat, t > 0
  PROVE  /\ Weak(s, K, t + 1) => Named(s, t) = t + 1
         /\ Weak(s, K, t + 1) => Weak(s, K, t)
         /\ Strong(s, K, t, Postgres) => Weak(s, K, t)
         /\ Lost(s, K, t + 1) => Named(s, t) = 0
         /\ Lost(s, K, t + 1) => Weak(s, K, t)
<1>1. /\ Len(s) \in Nat /\ Named(s, t) \in Nat
      /\ Named(s, t) = 0 \/ (Named(s, t) \in 2..Len(s) /\ s[Named(s, t)].name = t)
      /\ \A i \in 2..Len(s) : s[i].name = t => Named(s, t) # 0 /\ i <= Named(s, t)
  BY NamedFinds
<1>2. ASSUME Weak(s, K, t + 1) PROVE Named(s, t) = t + 1 /\ Weak(s, K, t)
  <2>1. /\ t + 1 <= Len(s) /\ \A i \in 1..t + 1 : s[i].name = i - 1
        /\ \A i \in t + 2..Len(s) : s[i].name >= t + 1
        /\ \A i \in 1..t : s[i].writes = K[i]
    BY <1>2 DEF Weak
  <2>2. t + 1 \in 2..Len(s) /\ s[t + 1].name = t
    BY <1>1, <2>1
  <2>3. t + 1 <= Named(s, t) /\ Named(s, t) \in 2..Len(s) /\ s[Named(s, t)].name = t
    BY <1>1, <2>2
  <2>4. Named(s, t) = t + 1
    <3> SUFFICES ASSUME Named(s, t) # t + 1 PROVE FALSE
      OBVIOUS
    <3>1. Named(s, t) \in t + 2..Len(s)
      BY <1>1, <2>3
    <3>2. t >= t + 1
      BY <2>1, <2>3, <3>1
    <3> QED
      BY <3>2
  <2>5. \A i \in t + 1..Len(s) : s[i].name >= t
    <3> SUFFICES ASSUME NEW i \in t + 1..Len(s) PROVE s[i].name >= t
      OBVIOUS
    <3>1. CASE i = t + 1
      BY <2>2, <3>1
    <3>2. CASE i # t + 1
      <4>1. i \in t + 2..Len(s) /\ s[i] \in Savepoint
        BY <1>1, <3>2
      <4>2. s[i].name >= t + 1 /\ s[i].name \in Nat
        BY <2>1, <4>1 DEF Savepoint
      <4> QED
        BY <4>2
    <3> QED
      BY <3>1, <3>2
  <2>6. Weak(s, K, t)
    BY <1>1, <2>1, <2>5 DEF Weak
  <2> QED
    BY <2>4, <2>6
<1>3. ASSUME Lost(s, K, t + 1) PROVE Named(s, t) = 0 /\ Weak(s, K, t)
  <2>1. /\ Len(s) = t /\ \A i \in 1..t : s[i].name = i - 1
        /\ \A i \in 1..t - 1 : s[i].writes = K[i]
    <3>1. (t + 1) - 1 = t /\ (t + 1) - 2 = t - 1
      OBVIOUS
    <3> QED
      BY <1>3, <3>1 DEF Lost
  <2>2. Named(s, t) = 0
    <3> SUFFICES ASSUME Named(s, t) # 0 PROVE FALSE
      OBVIOUS
    <3>1. Named(s, t) \in 1..t /\ s[Named(s, t)].name = t
      BY <1>1, <2>1
    <3> QED
      BY <2>1, <3>1
  <2> QED
    BY <2>1, <2>2 DEF Weak
<1> QED
  BY <1>2, <1>3 DEF Strong

\* Releasing the innermost savepoint.
LEMMA FramesWhenReleased ==
  ASSUME NEW s \in Seq(Savepoint), NEW K, NEW t \in Nat, t > 0, Weak(s, K, t + 1)
  PROVE  LET q == Merged(s, t + 1)
         IN  /\ \A L : /\ \A i \in 1..t - 1 : L[i] = K[i]
                       /\ L[t] = K[t] \cup Above(s, t + 1)
                       => Strong(q, L, t, Postgres)
             /\ Weak(q, K, t)
             /\ Lost(q, K, t + 1)
             /\ q # <<>>
<1> DEFINE q == Merged(s, t + 1)
<1>1. /\ Len(s) \in Nat /\ t + 1 <= Len(s) /\ \A i \in 1..t + 1 : s[i].name = i - 1
      /\ \A i \in 1..t : s[i].writes = K[i]
  BY DEF Weak
<1>2. t + 1 \in 2..Len(s) /\ (t + 1) - 1 = t /\ (t + 1) - 2 = t - 1
  BY <1>1
<1>3. /\ q \in Seq(Savepoint) /\ Len(q) = t
      /\ q[t] = [name |-> s[t].name, writes |-> s[t].writes \cup Above(s, t + 1)]
      /\ \A j \in 1..t - 1 : q[j] = s[j]
  <2>1. /\ q \in Seq(Savepoint) /\ Len(q) = (t + 1) - 1
        /\ q[(t + 1) - 1] = [name |-> s[(t + 1) - 1].name,
                             writes |-> s[(t + 1) - 1].writes \cup Above(s, t + 1)]
        /\ \A j \in 1..(t + 1) - 2 : q[j] = s[j]
    BY <1>2, MergedFrames
  <2> HIDE DEF q
  <2> QED
    BY <1>2, <2>1
<1> HIDE DEF q
<1>4. t \in 1..t /\ \A i \in 1..t : i \in 1..t - 1 \/ i = t
  OBVIOUS
<1>5. ASSUME NEW i \in 1..t PROVE q[i].name = i - 1
  <2>1. q[i].name = s[i].name
    BY <1>3, <1>4
  <2> QED
    BY <1>1, <2>1
<1>6. /\ \A i \in 1..t - 1 : q[i].writes = K[i]
      /\ q[t].writes = K[t] \cup Above(s, t + 1)
  <2>1. ASSUME NEW i \in 1..t - 1 PROVE q[i].writes = K[i]
    <3>1. i \in 1..t /\ q[i] = s[i]
      BY <1>3
    <3> QED
      BY <1>1, <3>1
  <2>2. q[t].writes = s[t].writes \cup Above(s, t + 1) /\ s[t].writes = K[t]
    BY <1>1, <1>3
  <2> QED
    BY <2>1, <2>2
<1>7. Weak(q, K, t) /\ Lost(q, K, t + 1)
  BY <1>2, <1>3, <1>5, <1>6 DEF Weak, Lost
<1>8. ASSUME NEW L, \A i \in 1..t - 1 : L[i] = K[i], L[t] = K[t] \cup Above(s, t + 1)
      PROVE  Strong(q, L, t, Postgres)
  <2>1. Above(q, t) = L[t]
    BY <1>3, <1>4, <1>6, <1>8, AboveOne
  <2>2. Weak(q, L, t)
    BY <1>6, <1>7, <1>8 DEF Weak
  <2> QED
    BY <1>3, <2>1, <2>2 DEF Strong
<1>9. q # <<>>
  BY <1>3
<1> QED
  BY <1>7, <1>8, <1>9 DEF q

\* Rolling back to the innermost savepoint.
LEMMA FramesWhenRolledBack ==
  ASSUME NEW s \in Seq(Savepoint), NEW K, NEW t \in Nat, t > 0, Weak(s, K, t + 1)
  PROVE  LET q == RolledBackTo(s, t)
         IN  /\ Weak(q, K, t + 1) /\ Len(q) = t + 1 /\ q[t + 1].writes = {}
             /\ q \in Seq(Savepoint)
             /\ ~Postgres => Strong(q, K, t, Postgres)
<1> DEFINE q == RolledBackTo(s, t)
<1>1. /\ Len(s) \in Nat /\ t + 1 <= Len(s) /\ \A i \in 1..t + 1 : s[i].name = i - 1
      /\ \A i \in 1..t : s[i].writes = K[i]
  BY DEF Weak
<1>2. Named(s, t) = t + 1 /\ Named(s, t) # 0
  <2>1. Named(s, t) = t + 1
    BY InnermostSavepoint
  <2>2. t + 1 # 0
    OBVIOUS
  <2> QED
    BY <2>1, <2>2
<1>3. /\ q \in Seq(Savepoint) /\ Len(q) = t + 1
      /\ q[t + 1] = [name |-> t, writes |-> {}]
      /\ \A j \in 1..t : q[j] = s[j]
  <2>1. /\ q \in Seq(Savepoint) /\ Len(q) = Named(s, t)
        /\ q[Named(s, t)] = [name |-> t, writes |-> {}]
        /\ \A j \in 1..Named(s, t) - 1 : q[j] = s[j]
    BY <1>2, FramesAfterRollback
  <2>2. (t + 1) - 1 = t
    OBVIOUS
  <2> HIDE DEF q
  <2> QED
    BY <1>2, <2>1, <2>2
<1> HIDE DEF q
<1>4. \A i \in 1..t + 1 : i \in 1..t \/ i = t + 1
  OBVIOUS
<1>5. ASSUME NEW i \in 1..t + 1 PROVE q[i].name = i - 1
  <2>1. q[t + 1].name = t
    BY <1>3
  <2>2. CASE i \in 1..t
    BY <1>1, <1>3, <2>2
  <2> QED
    BY <1>4, <2>1, <2>2
<1>6. \A i \in 1..t : q[i].writes = K[i]
  BY <1>1, <1>3
<1>7. Weak(q, K, t + 1)
  BY <1>3, <1>5, <1>6 DEF Weak
<1>8. Above(q, t) = K[t]
  <2>1. t \in 1..Len(q) /\ t \in 1..t
    BY <1>3
  <2>2. Above(q, t) = q[t].writes \cup q[t + 1].writes
    BY <1>3, <2>1, AboveOne
  <2>3. q[t + 1].writes = {} /\ q[t].writes = K[t]
    BY <1>3, <1>6, <2>1
  <2> QED
    BY <2>2, <2>3
<1>9. Weak(q, K, t)
  BY <1>3, <1>7, InnermostSavepoint
<1>10. ~Postgres => Strong(q, K, t, Postgres)
  BY <1>3, <1>8, <1>9 DEF Strong
<1> QED
  BY <1>3, <1>7, <1>10 DEF q

-----------------------------------------------------------------------------
(* The server mirrors the calls *)

Native == stack[activeClient]

\* What the calls of the root transaction kept, the root's first.
Kept == [i \in 1..transactionDepth |-> calls[InSession + i].kept]

\* How the frames s answer to the t calls while p is awaited.
Mirrored(s, K, t, p, pg) ==
  /\ p \in {"app", "release", "commit"} => Strong(s, K, t, pg)
  /\ p = "savepoint" => Strong(s, K, t - 1, pg)
  /\ p = "unwinding" => Weak(s, K, t)
  /\ p = "rollbackTo" => Weak(s, K, t) \/ Lost(s, K, t)
  /\ p = "releaseAfter" => Weak(s, K, t) /\ Len(s) = t /\ s[t].writes = {}

\* The recorded failure is the error that is let through, and is undone when the
\* innermost savepoint is rolled back to.
Recorded(e, p) == e.recorded /\ p \in {"unwinding", "rollbackTo", "releaseAfter"}

\* While nothing has failed that the transaction has not recovered from, the
\* server's frames are what the calls kept, and the transaction accepts
\* statements.  After a failure that is not undone, the root rolls back, and the
\* frames do not matter.
Mirror ==
  transactionDepth > 0 /\ activeClient \in Clients \ dead =>
    /\ pc \in {"app", "savepoint", "release", "releaseAfter", "commit"} => Native # <<>>
    /\ pc = "releaseAfter" => activeClient \notin aborted
    /\ failure = "none" /\ activeClient \in aborted =>
         pc \in {"unwinding", "rollbackTo", "rollback", "rejected"}
    /\ Native # <<>> /\ (failure = "none" \/ Recorded(error, pc)) =>
         Mirrored(Native, Kept, transactionDepth, pc, Postgres)

\* The root transaction has ended on the server and its caller is not told yet.
Settling(e, p) == p = "resolved" \/ (p \in {"rollback", "rejected"} /\ e.kind = "unknown")

\* A call answers for the writes that are open, each for its own, and nothing is
\* durable that is open or was rejected.
Ledger ==
  /\ \A i \in 1..Len(calls) : \A w \in calls[i].kept : verdict[w] = "open"
  /\ \A i, j \in 1..Len(calls) : i # j => calls[i].kept \cap calls[j].kept = {}
  /\ pc \in {"connecting", "begin", "savepoint"} => Last(calls).kept = {}
  /\ pc = "commit" => failure = "none"
  /\ pc = "resolved" => Last(calls).kept \subseteq durable
  /\ \A w \in Writes :
       /\ verdict[w] \in {"none", "rejected"} => w \notin durable
       /\ verdict[w] = "resolved" => w \in durable
       /\ verdict[w] = "open" /\ w \in durable =>
            Settling(error, pc) /\ w \in Last(calls).kept

VInv == unsafe = {} => Mirror /\ Ledger

LEMMA KeptOf ==
  ASSUME CInv, transactionDepth > 0, pc # "connecting"
  PROVE  /\ calls # <<>> /\ activeClient \in Clients
         /\ transactionDepth \in Nat /\ InSession \in {0, 1}
         /\ Len(calls) = InSession + transactionDepth
         /\ \A i \in 1..transactionDepth : InSession + i \in 1..Len(calls)
                                           /\ Kept[i] = calls[InSession + i].kept
         /\ Kept[transactionDepth] = Last(calls).kept
         /\ \A i \in 1..transactionDepth : Kept[i] \subseteq Writes
<1>1. /\ transactionDepth \in Nat /\ transactionDepth = Len(calls) - InSession
      /\ calls \in Seq(Call)
  BY DEF CInv, TypeOK, Nesting
<1>2. InSession \in {0, 1}
  BY DEF InSession
<1>3. Len(calls) = InSession + transactionDepth /\ calls # <<>>
  BY <1>1, <1>2
<1>4. \A i \in 1..transactionDepth : InSession + i \in 1..Len(calls)
  BY <1>1, <1>2, <1>3
<1>5. \A i \in 1..transactionDepth : Kept[i] = calls[InSession + i].kept
  BY DEF Kept
<1>6. Last(calls) = calls[InSession + transactionDepth]
  BY <1>3 DEF Last
<1>7. \A i \in 1..transactionDepth : calls[InSession + i] \in Call
  BY <1>1, <1>4
<1>8. transactionDepth \in 1..transactionDepth
  BY <1>1
<1>9. activeClient \in Clients
  BY <1>3 DEF CInv, TypeOK, Nesting
<1>10. \A i \in 1..transactionDepth : Kept[i] \subseteq Writes
  BY <1>5, <1>7 DEF Call
<1> QED
  BY <1>1, <1>2, <1>3, <1>4, <1>5, <1>6, <1>8, <1>9, <1>10

LEMMA SameKept ==
  ASSUME UNCHANGED <<calls, transactionDepth>>
  PROVE  Kept' = Kept
BY DEF Kept, InSession

\* The outer calls keep what they kept when the innermost is left.
LEMMA KeptWhenLeft ==
  ASSUME CInv, pc # "connecting", calls # <<>>, Last(calls).kind = "savepoint",
         transactionDepth' = transactionDepth - 1,
         calls' \in Seq(Call), Len(calls') = Len(calls) - 1,
         calls'[1].kind = calls[1].kind
  PROVE  /\ transactionDepth - 1 \in Nat \ {0}
         /\ InSession' = InSession
         /\ \A i \in 1..transactionDepth - 1 :
              /\ InSession + i \in 1..Len(calls) - 1
              /\ Kept'[i] = calls'[InSession + i].kept
<1>1. transactionDepth > 1 /\ transactionDepth \in Nat
  BY DepthOfCalls DEF CInv, TypeOK
<1>2. /\ InSession \in {0, 1} /\ Len(calls) = InSession + transactionDepth
      /\ \A i \in 1..transactionDepth : InSession + i \in 1..Len(calls)
  BY <1>1, KeptOf
<1>3. calls' # <<>>
  BY <1>1, <1>2
<1>4. InSession' = InSession
  BY <1>3 DEF InSession
<1>5. Kept' = [i \in 1..transactionDepth - 1 |-> calls'[InSession + i].kept]
  BY <1>4 DEF Kept
<1>6. \A i \in 1..transactionDepth - 1 : InSession + i \in 1..Len(calls) - 1
  BY <1>1, <1>2
<1> QED
  BY <1>1, <1>4, <1>5, <1>6

LEMMA KeptAfterFront ==
  ASSUME CInv, pc # "connecting", calls # <<>>, Last(calls).kind = "savepoint",
         transactionDepth' = transactionDepth - 1, calls' = Front(calls)
  PROVE  /\ transactionDepth - 1 \in Nat \ {0}
         /\ \A i \in 1..transactionDepth - 1 : Kept'[i] = Kept[i]
<1>1. calls \in Seq(Call)
  BY DEF CInv, TypeOK
<1>2. /\ calls' \in Seq(Call) /\ Len(calls') = Len(calls) - 1
      /\ \A i \in 1..Len(calls) - 1 : calls'[i] = calls[i]
  BY <1>1, WithoutLast
<1>3. /\ transactionDepth > 1 /\ transactionDepth \in Nat
      /\ Len(calls) = InSession + transactionDepth /\ InSession \in {0, 1}
      /\ \A i \in 1..transactionDepth : Kept[i] = calls[InSession + i].kept
  <2>1. transactionDepth \in Nat /\ transactionDepth > 1
    BY DepthOfCalls DEF CInv, TypeOK
  <2>2. transactionDepth > 0
    BY <2>1
  <2> QED
    BY <2>1, <2>2, KeptOf
<1>4. calls'[1].kind = calls[1].kind
  BY <1>2, <1>3
<1>5. /\ transactionDepth - 1 \in Nat \ {0}
      /\ \A i \in 1..transactionDepth - 1 : /\ InSession + i \in 1..Len(calls) - 1
                                            /\ Kept'[i] = calls'[InSession + i].kept
  BY <1>2, <1>4, KeptWhenLeft
<1>6. \A i \in 1..transactionDepth - 1 : i \in 1..transactionDepth
  BY <1>3
<1> QED
  BY <1>2, <1>3, <1>5, <1>6

LEMMA KeptAfterRelease ==
  ASSUME CInv, Released
  PROVE  /\ transactionDepth - 1 \in Nat \ {0}
         /\ \A i \in 1..transactionDepth - 2 : Kept'[i] = Kept[i]
         /\ Kept'[transactionDepth - 1]
              = Kept[transactionDepth - 1] \cup Kept[transactionDepth]
<1>1. /\ calls # <<>> /\ pc # "connecting" /\ Last(calls).kind = "savepoint"
  BY Awaiting DEF Released, Answers, AwaitedBy
<1>2. /\ calls' \in Seq(Call) /\ Len(calls') = Len(calls) - 1
      /\ \A i \in 1..Len(calls) - 1 :
           /\ calls'[i].kind = calls[i].kind
           /\ i # Len(calls) - 1 => calls'[i].kept = calls[i].kept
           /\ i = Len(calls) - 1 => calls'[i].kept = calls[i].kept \cup Last(calls).kept
  BY CallsAfterRelease
<1>3. /\ transactionDepth > 1 /\ transactionDepth \in Nat
      /\ Len(calls) = InSession + transactionDepth /\ InSession \in {0, 1}
      /\ \A i \in 1..transactionDepth : Kept[i] = calls[InSession + i].kept
      /\ Kept[transactionDepth] = Last(calls).kept
  <2>1. transactionDepth \in Nat /\ transactionDepth > 1
    BY <1>1, DepthOfCalls DEF CInv, TypeOK
  <2>2. transactionDepth > 0
    BY <2>1
  <2> QED
    BY <1>1, <2>1, <2>2, KeptOf
<1>4. calls'[1].kind = calls[1].kind
  BY <1>2, <1>3
<1>5. transactionDepth' = transactionDepth - 1
  BY DEF Released, LeavesSavepoint
<1>6. /\ transactionDepth - 1 \in Nat \ {0}
      /\ \A i \in 1..transactionDepth - 1 : /\ InSession + i \in 1..Len(calls) - 1
                                            /\ Kept'[i] = calls'[InSession + i].kept
  BY <1>1, <1>2, <1>4, <1>5, KeptWhenLeft
<1>7. ASSUME NEW i \in 1..transactionDepth - 2 PROVE Kept'[i] = Kept[i]
  <2>1. i \in 1..transactionDepth - 1 /\ i \in 1..transactionDepth
        /\ InSession + i # Len(calls) - 1
    BY <1>3
  <2> QED
    BY <1>2, <1>3, <1>6, <2>1
<1>8. Kept'[transactionDepth - 1] = Kept[transactionDepth - 1] \cup Kept[transactionDepth]
  <2>1. /\ transactionDepth - 1 \in 1..transactionDepth - 1
        /\ transactionDepth - 1 \in 1..transactionDepth
        /\ InSession + (transactionDepth - 1) = Len(calls) - 1
    BY <1>3
  <2> QED
    BY <1>2, <1>3, <1>6, <2>1
<1> QED
  BY <1>6, <1>7, <1>8

-----------------------------------------------------------------------------
(* Every step keeps the mirror *)

LEMMA OutOfWork ==
  ASSUME pc' \in {"begin", "rollback", "rejected", "resolved", "connecting"},
         pc' \notin {"rollback", "rejected"} => activeClient' \notin aborted'
  PROVE  Mirror'
BY DEF Mirror, Mirrored, Recorded

LEMMA EnteringMirrors ==
  ASSUME CInv, CInv', VInv, unsafe = {},
         CallTransaction \/ CallSession \/ ConnectFails
  PROVE  Mirror'
<1>1. UNCHANGED <<server, activeClient, unsafe>> /\ Mirror
  BY DEF CallTransaction, CallSession, ConnectFails, VInv
<1>2. NoClient \notin aborted
  BY PooledConnectionAssumption DEF CInv, TypeOK
<1>3. CASE activeClient' = NoClient
  BY <1>3, PooledConnectionAssumption DEF Mirror
<1>4. CASE activeClient # NoClient /\ transactionDepth > 0 /\ CallTransaction
  <2>1. /\ pc = "app" /\ pc' = "savepoint" /\ transactionDepth' = transactionDepth + 1
        /\ failure' = failure
    <3>1. transactionDepth \in Nat
      BY DEF CInv, TypeOK
    <3>2. transactionDepth # 0
      BY <1>4, <3>1
    <3> QED
      BY <1>4, <3>2, Zenon DEF CallTransaction
  <2>2. PICK r : calls' = Append(calls, r) /\ r \in Call
    <3>1. \A k \in {"savepoint"} : [kind |-> k, depth |-> transactionDepth, owns |-> FALSE, kept |-> {}] \in Call
      BY DEF CInv, TypeOK, Call
    <3>2. calls' = Append(calls, [kind |-> "savepoint", depth |-> transactionDepth,
                                  owns |-> FALSE, kept |-> {}])
      BY <1>4 DEF CallTransaction, Enter, CInv, TypeOK
    <3> QED
      BY <3>1, <3>2
  <2>3. /\ calls \in Seq(Call) /\ calls # <<>> /\ transactionDepth \in Nat
        /\ Len(calls) = InSession + transactionDepth /\ InSession \in {0, 1}
        /\ \A i \in 1..transactionDepth : InSession + i \in 1..Len(calls)
                                          /\ Kept[i] = calls[InSession + i].kept
    BY <1>4, <2>1, KeptOf DEF CInv, TypeOK
  <2>4. /\ Len(calls') = Len(calls) + 1 /\ calls' # <<>>
        /\ \A i \in 1..Len(calls) : calls'[i] = calls[i]
    BY <2>2, <2>3, AppendProperties
  <2>5. InSession' = InSession
    <3>1. calls'[1] = calls[1]
      BY <2>3, <2>4
    <3> QED
      BY <2>3, <2>4, <3>1 DEF InSession
  <2>6. Kept' = [i \in 1..transactionDepth + 1 |-> calls'[InSession + i].kept]
    BY <2>1, <2>5 DEF Kept
  <2>7. \A i \in 1..transactionDepth : Kept[i] = Kept'[i]
    <3>1. \A i \in 1..transactionDepth : i \in 1..transactionDepth + 1
      BY <2>3
    <3> QED
      BY <2>3, <2>4, <2>6, <3>1
  <2> SUFFICES ASSUME activeClient \in Clients \ dead PROVE Mirror'
    BY <1>1 DEF Mirror, server, poolVars
  <2>8. /\ Native # <<>> /\ (failure = "none" => activeClient \notin aborted)
        /\ failure = "none" => Strong(Native, Kept, transactionDepth, Postgres)
    BY <1>1, <1>4, <2>1 DEF Mirror, Mirrored
  <2>9. failure = "none" => Strong(Native, Kept', transactionDepth, Postgres)
    <3>1. transactionDepth > 0 /\ transactionDepth \in Nat
      BY <1>4, <2>3
    <3> QED
      BY <2>7, <2>8, <3>1, AgreeingKept
  <2>10. /\ Native' = Native /\ transactionDepth' - 1 = transactionDepth
         /\ Postgres' = Postgres /\ failure' = failure /\ activeClient' = activeClient
         /\ aborted' = aborted
    BY <1>1, <2>1, <2>3 DEF Native, server, poolVars, Postgres
  <2>11. failure' = "none" => Mirrored(Native', Kept', transactionDepth', pc', Postgres')
    BY <2>1, <2>9, <2>10 DEF Mirrored
  <2> QED
    BY <2>1, <2>8, <2>10, <2>11 DEF Mirror, Recorded
<1>5. CASE activeClient # NoClient /\ transactionDepth = 0 /\ CallTransaction
  <2>1. pc' = "begin"
    <3>1. ~(transactionDepth > 0)
      BY <1>5
    <3> QED
      BY <1>5, <3>1, Zenon DEF CallTransaction
  <2>2. activeClient \notin aborted
    BY <1>5 DEF CInv, Cleanness, Clean, VInv
  <2> QED
    BY <1>1, <2>1, <2>2, OutOfWork DEF server, poolVars
<1>6. CASE CallSession \/ ConnectFails
  <2>1. activeClient = NoClient
    BY <1>6 DEF CallSession, ConnectFails, CInv, Nesting
  <2> QED
    BY <1>1, <1>3, <2>1
<1>7. transactionDepth = 0 \/ transactionDepth > 0
  BY DEF CInv, TypeOK
<1> QED
  BY <1>1, <1>3, <1>4, <1>5, <1>6, <1>7

LEMMA ConnectedMirrors ==
  ASSUME CInv, unsafe = {}, NEW c \in Clients, Connected(c)
  PROVE  Mirror'
<1>1. pc = "connecting" /\ transactionDepth = 0 /\ activeClient = NoClient
  BY DEF Connected, CInv, Nesting
<1>2. c \notin aborted /\ activeClient' = c /\ aborted' = aborted
  BY <1>1, PooledConnectionAssumption DEF Connected, CInv, Cleanness, Clean
<1>3. CASE pc' = "begin"
  BY <1>2, <1>3, OutOfWork
<1>4. CASE transactionDepth' = 0
  BY <1>4 DEF Mirror
<1> QED
  BY <1>1, <1>3, <1>4 DEF Connected

LEMMA StatementMirrors ==
  ASSUME CInv, CInv', VInv, unsafe = {}, NEW w \in Writes, Statement(w)
  PROVE  Mirror'
<1>1. /\ pc = "app" /\ pc' = "app" /\ activeClient' = activeClient
      /\ transactionDepth' = transactionDepth /\ failure' = failure
      /\ aborted' = aborted /\ dead' = dead /\ Postgres' = Postgres
      /\ activeClient \in Clients \ dead /\ Mirror
  BY DEF Statement, VInv, poolVars, Postgres
<1> SUFFICES ASSUME transactionDepth > 0 PROVE Mirror'
  BY <1>1 DEF Mirror
<1> DEFINE t == transactionDepth
<1>2. /\ Native # <<>> /\ (failure = "none" => activeClient \notin aborted)
      /\ failure = "none" => Strong(Native, Kept, t, Postgres)
  BY <1>1 DEF Mirror, Mirrored
<1>3. /\ Native' = [Native EXCEPT ![Len(Native)].writes = @ \cup {w}]
      /\ calls' = [calls EXCEPT ![Len(calls)].kept = @ \cup {w}]
  <2>1. stack' = [stack EXCEPT
            ![activeClient][Len(stack[activeClient])].writes = @ \cup {w}]
    BY <1>2 DEF Statement, Native
  <2> QED
    BY <1>1, <2>1 DEF Statement, InTransaction, Native, CInv, TypeOK
<1>4. /\ calls \in Seq(Call) /\ calls # <<>> /\ t \in Nat /\ t > 0
      /\ Len(calls) = InSession + t /\ InSession \in {0, 1}
      /\ \A i \in 1..t : InSession + i \in 1..Len(calls)
                         /\ Kept[i] = calls[InSession + i].kept
  BY <1>1, KeptOf DEF CInv, TypeOK
<1>5. Native \in Seq(Savepoint)
  BY <1>1 DEF CInv, TypeOK, Native
<1>6. \A i \in 1..Len(calls) :
        calls'[i] = IF i = Len(calls) THEN [calls[i] EXCEPT !.kept = @ \cup {w}] ELSE calls[i]
  <2> DEFINE n == Len(calls)
             e == [calls[n] EXCEPT !.kept = @ \cup {w}]
  <2>1. n \in 1..n
    BY <1>4
  <2>2. e \in Call
    <3>1. calls[n] \in Call
      BY <1>4, <2>1
    <3> HIDE DEF n
    <3> QED
      BY <3>1 DEF Call
  <2>3. calls' = [calls EXCEPT ![n] = e]
    BY <1>3
  <2> HIDE DEF e, n
  <2>4. \A i \in 1..Len(calls) : calls'[i] = IF i = n THEN e ELSE calls[i]
    BY <1>4, <2>1, <2>2, <2>3, ExceptSeq DEF n
  <2> QED
    BY <2>4 DEF e, n
<1>7. calls[Len(calls)] \in Call /\ Len(calls) \in 1..Len(calls)
  BY <1>4
<1>8. calls'[Len(calls)].kept = calls[Len(calls)].kept \cup {w}
      /\ calls'[Len(calls)].kind = calls[Len(calls)].kind
  BY <1>6, <1>7 DEF Call
<1>9. InSession' = InSession
  <2>1. calls'[1].kind = calls[1].kind /\ calls' # <<>>
    BY <1>3, <1>4, <1>6, <1>8
  <2> QED
    BY <1>4, <2>1 DEF InSession
<1>10. Kept' = [i \in 1..t |-> calls'[InSession + i].kept]
  BY <1>1, <1>9 DEF Kept
<1>11. \A i \in 1..t - 1 : Kept'[i] = Kept[i]
  <2>1. \A i \in 1..t - 1 : i \in 1..t /\ InSession + i # Len(calls)
    BY <1>4
  <2> QED
    BY <1>4, <1>6, <1>10, <2>1
<1>12. Kept'[t] = Kept[t] \cup {w}
  <2>1. t \in 1..t /\ InSession + t = Len(calls)
    BY <1>4
  <2> QED
    BY <1>4, <1>8, <1>10, <2>1
<1>13. failure = "none" => Strong(Native', Kept', t, Postgres)
  BY <1>2, <1>3, <1>4, <1>5, <1>11, <1>12, FramesWithWrite
<1>14. Native' # <<>>
  BY <1>2, <1>3, <1>5
<1>15. failure' = "none" => Mirrored(Native', Kept', transactionDepth', pc', Postgres')
  BY <1>1, <1>13 DEF Mirrored
<1> QED
  BY <1>1, <1>2, <1>14, <1>15 DEF Mirror, Recorded

LEMMA StatementFailsMirrors ==
  ASSUME CInv, VInv, unsafe = {}, ~Catches, StatementFails
  PROVE  Mirror'
<1>1. /\ pc = "app" /\ pc' = "unwinding" /\ activeClient' = activeClient
      /\ UNCHANGED <<transactionDepth, calls, failure, dead>> /\ Postgres' = Postgres
      /\ error' = Plain /\ Mirror
  BY DEF StatementFails, VInv, poolVars, Postgres
<1>2. Kept' = Kept
  BY <1>1, SameKept
<1> SUFFICES ASSUME transactionDepth > 0, activeClient \in Clients \ dead PROVE Mirror'
  BY <1>1 DEF Mirror
<1>3. Native' = Native \/ Native' = <<>>
  BY <1>1 DEF StatementFails, Native, CInv, TypeOK
<1>4. Native # <<>> /\ (failure = "none" => Strong(Native, Kept, transactionDepth, Postgres))
  BY <1>1 DEF Mirror, Mirrored
<1>5. Native' # <<>> /\ failure' = "none" =>
        Mirrored(Native', Kept', transactionDepth', pc', Postgres')
  BY <1>1, <1>2, <1>3, <1>4 DEF Mirrored, Strong
<1>6. ~Recorded(error', pc')
  BY <1>1, PlainErrors DEF Recorded
<1> QED
  BY <1>1, <1>5, <1>6 DEF Mirror

LEMMA RootCommandsMirror ==
  ASSUME CInv, VInv, unsafe = {},
         \/ Begun \/ BeginFails \/ CommitSucceeds \/ CommitFails
         \/ RolledBack \/ RollbackFails \/ RootWorkReturns \/ RootWorkThrows
  PROVE  Mirror'
<1>1. CASE BeginFails \/ CommitFails \/ RolledBack \/ RollbackFails \/ RootWorkThrows
  <2>1. pc' \in {"rollback", "rejected"}
    BY <1>1 DEF BeginFails, CommitFails, RolledBack, RollbackFails, RootWorkThrows
  <2> QED
    BY <2>1, OutOfWork
<1>2. CASE CommitSucceeds
  BY <1>2, OutOfWork DEF CommitSucceeds, Succeeds, Executes
<1>3. CASE Begun
  <2>1. /\ activeClient \in Clients /\ calls # <<>> /\ transactionDepth = 1
    BY <1>3, Awaiting DEF Begun, Answers, AwaitedBy
  <2>2. /\ pc = "begin" /\ pc' \in {"app", "rollback"} /\ Executes("begin")
        /\ UNCHANGED <<activeClient, transactionDepth, calls, failure>>
        /\ error' = Plain /\ Postgres' = Postgres
    BY <1>3 DEF Begun, Answers, Succeeds, poolVars, Postgres
  <2>3. stack[activeClient] = <<>> /\ activeClient \notin aborted
    BY <2>1, <2>2, PooledConnectionAssumption DEF CInv, Cleanness, Clean
  <2>4. Native' = <<Root>> /\ aborted' = aborted
    <3>1. stack'[activeClient] = After("begin")
      BY <2>1, <2>2, ExecutesTouches DEF CInv, Commands
    <3>2. After("begin") = <<Root>>
      BY <2>3 DEF After
    <3> QED
      BY <2>2, <3>1, <3>2 DEF Native, Executes
  <2>5. Kept'[1] = {}
    <3>1. Kept' = Kept
      BY <2>2, SameKept
    <3>2. Kept[1] = Last(calls).kept
      BY <2>1, <2>2, KeptOf
    <3> QED
      BY <2>2, <3>1, <3>2 DEF VInv, Ledger
  <2>6. Strong(Native', Kept', 1, Postgres)
    BY <2>4, <2>5, FirstFrame
  <2>7. CASE pc' = "rollback"
    BY <2>7, OutOfWork
  <2>8. CASE pc' = "app"
    <3>1. Mirrored(Native', Kept', transactionDepth', pc', Postgres')
      BY <2>1, <2>2, <2>6, <2>8 DEF Mirrored
    <3>2. Native' # <<>>
      BY <2>4
    <3> QED
      BY <2>2, <2>3, <2>4, <2>8, <3>1, <3>2 DEF Mirror
  <2> QED
    BY <2>2, <2>7, <2>8
<1>4. CASE RootWorkReturns
  <2>1. /\ pc = "app" /\ pc' \in {"commit", "rollback"} /\ Mirror
        /\ UNCHANGED <<server, activeClient, transactionDepth, calls, failure>>
        /\ pc' = "commit" => failure = "none"
    BY <1>4 DEF RootWorkReturns, VInv
  <2>2. CASE pc' = "rollback"
    BY <2>2, OutOfWork
  <2>3. CASE pc' = "commit"
    <3>1. Kept' = Kept /\ Native' = Native /\ Postgres' = Postgres
      BY <2>1, SameKept DEF Native, Postgres, server, poolVars
    <3> SUFFICES ASSUME transactionDepth > 0, activeClient \in Clients \ dead PROVE Mirror'
      BY <2>1 DEF Mirror, server
    <3>2. /\ Native # <<>> /\ activeClient \notin aborted
          /\ Strong(Native, Kept, transactionDepth, Postgres)
      BY <2>1, <2>3 DEF Mirror, Mirrored
    <3>3. Mirrored(Native', Kept', transactionDepth', pc', Postgres')
      BY <2>1, <2>3, <3>1, <3>2 DEF Mirrored
    <3> QED
      BY <2>1, <2>3, <3>1, <3>2, <3>3 DEF Mirror, server
  <2> QED
    BY <2>1, <2>2, <2>3
<1> QED
  BY <1>1, <1>2, <1>3, <1>4

LEMMA EndsMirror ==
  ASSUME RootResolves \/ RootRejects \/ SessionEnds \/ SocketDies
  PROVE  Mirror'
<1>1. CASE RootResolves \/ RootRejects
  <2>1. transactionDepth' = 0
    BY <1>1 DEF RootResolves, RootRejects, LeavesRoot
  <2> QED
    BY <2>1 DEF Mirror
<1>2. CASE SessionEnds
  <2>1. activeClient' \notin Clients
    BY <1>2, PooledConnectionAssumption DEF SessionEnds, ClientIsForgotten
  <2> QED
    BY <2>1 DEF Mirror
<1>3. CASE SocketDies
  <2>1. activeClient' \in dead'
    BY <1>3 DEF SocketDies
  <2> QED
    BY <2>1 DEF Mirror
<1> QED
  BY <1>1, <1>2, <1>3

\* What a savepoint's commands find.
LEMMA InSavepoint ==
  ASSUME CInv, VInv, unsafe = {}, pc \in AwaitedBy("savepoint")
  PROVE  /\ activeClient \in Clients /\ calls # <<>> /\ Last(calls).kind = "savepoint"
         /\ transactionDepth > 1 /\ transactionDepth \in Nat /\ Depth = transactionDepth - 1
         /\ transactionDepth - 1 \in Nat /\ transactionDepth - 1 > 0
         /\ (transactionDepth - 1) + 1 = transactionDepth
         /\ (transactionDepth - 1) - 1 = transactionDepth - 2
         /\ Native \in Seq(Savepoint)
         /\ Kept[transactionDepth] = Last(calls).kept
         /\ TypeOK /\ Mirror /\ Ledger /\ pc # "connecting"
<1>1. /\ activeClient \in Clients /\ calls # <<>> /\ Last(calls).kind = "savepoint"
      /\ transactionDepth > 1 /\ pc # "connecting"
  BY Awaiting DEF AwaitedBy
<1>2. transactionDepth \in Nat /\ TypeOK /\ Mirror /\ Ledger
  BY DEF CInv, TypeOK, VInv
<1>3. Depth = transactionDepth - 1
  BY <1>1, DepthOfCalls DEF Depth
<1>4. Native \in Seq(Savepoint)
  BY <1>1, <1>2 DEF TypeOK, Native
<1>5. Kept[transactionDepth] = Last(calls).kept
  <2>1. transactionDepth > 0
    BY <1>1, <1>2
  <2> QED
    BY <1>1, <2>1, KeptOf
<1>6. /\ transactionDepth - 1 \in Nat /\ transactionDepth - 1 > 0
      /\ (transactionDepth - 1) + 1 = transactionDepth
      /\ (transactionDepth - 1) - 1 = transactionDepth - 2
  BY <1>1, <1>2
<1> QED
  BY <1>1, <1>2, <1>3, <1>4, <1>5, <1>6

\* What RELEASE and ROLLBACK TO leave, when the savepoint is found.
LEMMA FramesRemain ==
  ASSUME NEW s \in Seq(Savepoint), NEW n \in Nat, Named(s, n) # 0
  PROVE  s # <<>> /\ Merged(s, Named(s, n)) # <<>> /\ RolledBackTo(s, n) # <<>>
<1>1. Named(s, n) \in 2..Len(s) /\ Named(s, n) \in Nat /\ Len(s) \in Nat
  BY NamedFinds
<1>2. Len(Merged(s, Named(s, n))) = Named(s, n) - 1
  BY <1>1, MergedFrames
<1>3. RolledBackTo(s, n) # <<>>
  BY FramesAfterRollback
<1>4. Len(Merged(s, Named(s, n))) # 0 /\ Len(s) # 0
  BY <1>1, <1>2
<1> QED
  BY <1>3, <1>4

LEMMA SavepointSetMirrors ==
  ASSUME CInv, VInv, unsafe = {}, SavepointSet
  PROVE  Mirror'
<1> DEFINE t == transactionDepth - 1
<1>1. pc = "savepoint" /\ pc \in AwaitedBy("savepoint")
  BY DEF SavepointSet, Answers, AwaitedBy
<1>2. /\ pc' \in {"app", "rollbackTo"} /\ error' = Plain /\ Postgres' = Postgres
      /\ UNCHANGED <<activeClient, dead, transactionDepth, calls, failure>>
      /\ Executes("savepoint") /\ Accepts("savepoint") /\ activeClient \notin dead
  BY DEF SavepointSet, Succeeds, Executes, poolVars, Postgres
<1>3. activeClient \notin aborted /\ aborted' = aborted
  BY <1>2 DEF Accepts, Executes
<1>4. activeClient \in Clients /\ Native # <<>>
  BY <1>1, <1>2, InSavepoint DEF Mirror
<1>5. Native' = WithSavepoint(Native, t)
  <2>1. stack'[activeClient] = After("savepoint")
    BY <1>1, <1>2, InSavepoint, ExecutesTouches DEF Commands
  <2>2. Depth = t
    BY <1>1, InSavepoint
  <2> QED
    BY <1>2, <1>4, <2>1, <2>2 DEF After, Native
<1>6. Native' # <<>>
  <2>1. t \in Nat /\ Native \in Seq(Savepoint)
    BY <1>1, InSavepoint
  <2> HIDE DEF t
  <2> QED
    BY <1>5, <2>1, FramesWithSavepoint
<1>7. failure = "none" => Strong(Native', Kept, transactionDepth, Postgres)
  <2> SUFFICES ASSUME failure = "none" PROVE Strong(Native', Kept, transactionDepth, Postgres)
    OBVIOUS
  <2>1. /\ t \in Nat /\ t > 0 /\ t + 1 = transactionDepth /\ Native \in Seq(Savepoint)
        /\ Mirror /\ Kept[transactionDepth] = Last(calls).kept /\ transactionDepth > 0
    BY <1>1, InSavepoint
  <2>2. Strong(Native, Kept, t, Postgres)
    BY <1>1, <1>2, <1>4, <2>1 DEF Mirror, Mirrored
  <2>3. Kept[t + 1] = {}
    BY <1>1, <2>1, InSavepoint DEF Ledger
  <2> HIDE DEF t
  <2> QED
    BY <1>5, <2>1, <2>2, <2>3, FramesWithNewSavepoint
<1>8. Kept' = Kept
  BY <1>2, SameKept
<1>9. failure = "none" => Mirrored(Native', Kept', transactionDepth', pc', Postgres')
  BY <1>2, <1>7, <1>8 DEF Mirrored, Strong
<1>10. ~Recorded(error', pc')
  BY <1>2, PlainErrors DEF Recorded
<1> QED
  BY <1>2, <1>3, <1>6, <1>9, <1>10 DEF Mirror

LEMMA NestedWorkEndsMirror ==
  ASSUME CInv, VInv, unsafe = {}, NestedWorkReturns \/ NestedWorkThrows
  PROVE  Mirror'
<1>1. /\ UNCHANGED <<server, activeClient, transactionDepth, calls, failure>> /\ Mirror
      /\ Postgres' = Postgres /\ Native' = Native
  BY DEF NestedWorkReturns, NestedWorkThrows, VInv, Postgres, Native, server, poolVars
<1>2. Kept' = Kept
  BY <1>1, SameKept
<1> SUFFICES ASSUME transactionDepth > 0, activeClient \in Clients \ dead PROVE Mirror'
  BY <1>1 DEF Mirror, server
<1>3. CASE NestedWorkReturns
  <2>1. pc = "app" /\ pc' \in {"release", "rollbackTo"} /\ error' = Plain
    BY <1>3 DEF NestedWorkReturns
  <2>2. /\ Native # <<>> /\ (failure = "none" => activeClient \notin aborted)
        /\ failure = "none" => Strong(Native, Kept, transactionDepth, Postgres)
    BY <1>1, <2>1 DEF Mirror, Mirrored
  <2>3. failure' = "none" => Mirrored(Native', Kept', transactionDepth', pc', Postgres')
    BY <1>1, <1>2, <2>1, <2>2 DEF Mirrored, Strong
  <2>4. ~Recorded(error', pc')
    BY <2>1, PlainErrors DEF Recorded
  <2> QED
    BY <1>1, <2>1, <2>2, <2>3, <2>4 DEF Mirror, server
<1>4. CASE NestedWorkThrows
  <2>1. pc = "unwinding" /\ pc' = "rollbackTo" /\ error' = error
    BY <1>4 DEF NestedWorkThrows
  <2>2. Recorded(error', pc') => Recorded(error, pc)
    BY <2>1 DEF Recorded
  <2>3. Native # <<>> /\ (failure = "none" \/ Recorded(error, pc)) =>
          Weak(Native, Kept, transactionDepth)
    BY <1>1, <2>1 DEF Mirror, Mirrored
  <2>4. Native' # <<>> /\ (failure' = "none" \/ Recorded(error', pc')) =>
          Mirrored(Native', Kept', transactionDepth', pc', Postgres')
    BY <1>1, <1>2, <2>1, <2>2, <2>3 DEF Mirrored
  <2> QED
    BY <1>1, <2>1, <2>4 DEF Mirror
<1> QED
  BY <1>3, <1>4

\* A nested call rejects: its caller's frames are there, or nothing matters.
LEMMA NestedMirror ==
  ASSUME CInv, VInv, unsafe = {}, ~Catches, pc \in AwaitedBy("savepoint"),
         UNCHANGED <<provider, activeClient, dead>>,
         NEW e, NestedRejects(e),
         activeClient \notin dead =>
           /\ Native # <<>> => Native' # <<>>
           /\ failure' = "none" => activeClient \notin aborted'
           /\ Native' # <<>> /\ failure' = "none" =>
                Strong(Native', Kept, transactionDepth - 1, Postgres)
           /\ Native' # <<>> /\ e.recorded =>
                Weak(Native', Kept, transactionDepth - 1)
  PROVE  Mirror'
<1>1. /\ transactionDepth' = transactionDepth - 1 /\ calls' = Front(calls) /\ error' = e
      /\ pc' \in {"app", "unwinding"} /\ Postgres' = Postgres
      /\ IsGone => pc' = "unwinding"
  BY DEF NestedRejects, LeavesSavepoint, Leaves, Rejects, Postgres
<1>2. /\ transactionDepth - 1 \in Nat /\ transactionDepth - 1 > 0
      /\ \A i \in 1..transactionDepth - 1 : Kept[i] = Kept'[i]
  BY <1>1, InSavepoint, KeptAfterFront
<1> SUFFICES ASSUME activeClient \in Clients \ dead PROVE Mirror'
  BY DEF Mirror
<1>3. pc' = "app" => Native' # <<>>
  BY <1>1 DEF IsGone, Native
<1>4. Native' # <<>> /\ failure' = "none" =>
        Strong(Native', Kept', transactionDepth - 1, Postgres)
  <2> DEFINE t == transactionDepth - 1
  <2> HIDE DEF t
  <2>1. t \in Nat /\ t > 0 /\ \A i \in 1..t : Kept[i] = Kept'[i]
    BY <1>2 DEF t
  <2>2. Native' # <<>> /\ failure' = "none" => Strong(Native', Kept, t, Postgres)
    BY DEF t
  <2>3. Native' # <<>> /\ failure' = "none" => Strong(Native', Kept', t, Postgres)
    BY <2>1, <2>2, AgreeingKept
  <2> QED
    BY <2>3 DEF t
<1>5. Native' # <<>> /\ e.recorded => Weak(Native', Kept', transactionDepth - 1)
  <2> DEFINE t == transactionDepth - 1
  <2> HIDE DEF t
  <2>1. t \in Nat /\ t > 0 /\ \A i \in 1..t : Kept[i] = Kept'[i]
    BY <1>2 DEF t
  <2>2. Native' # <<>> /\ e.recorded => Weak(Native', Kept, t)
    BY DEF t
  <2>3. Native' # <<>> /\ e.recorded => Weak(Native', Kept', t)
    BY <2>1, <2>2, AgreeingKept
  <2> QED
    BY <2>3 DEF t
<1>6. Native' # <<>> /\ failure' = "none" =>
        Mirrored(Native', Kept', transactionDepth', pc', Postgres')
  BY <1>1, <1>4 DEF Mirrored, Strong
<1>7. Native' # <<>> /\ Recorded(error', pc') =>
        Mirrored(Native', Kept', transactionDepth', pc', Postgres')
  BY <1>1, <1>5 DEF Mirrored, Recorded
<1> QED
  BY <1>1, <1>3, <1>6, <1>7 DEF Mirror

\* The failure that a rejection observes is recorded, unless one is already.
LEMMA ObservedRecords ==
  ASSUME NEW kind \in {"savepoint", "cleanup"}, Observed([kind |-> kind, recorded |-> FALSE])
  PROVE  \E e : /\ NestedRejects(e) /\ (e.recorded => failure = "none")
                /\ failure' # "none"
<1> DEFINE e == [kind |-> kind, recorded |-> FALSE]
<1>1. Compromises(e) /\ ~e.recorded /\ e.kind = kind
  BY DEF Compromises
<1>2. CASE failure = "none"
  <2>1. failure' = kind /\ NestedRejects([e EXCEPT !.recorded = TRUE])
    BY <1>1, <1>2 DEF Observed
  <2> QED
    BY <1>2, <2>1
<1>3. CASE failure # "none"
  <2>1. failure' = failure /\ NestedRejects(e)
    BY <1>3 DEF Observed
  <2> QED
    BY <1>1, <1>3, <2>1
<1> QED
  BY <1>2, <1>3

LEMMA SavepointFailsMirrors ==
  ASSUME CInv, VInv, unsafe = {}, ~Catches, SavepointFails
  PROVE  Mirror'
<1> DEFINE t == transactionDepth - 1
<1>1. pc = "savepoint" /\ pc \in AwaitedBy("savepoint")
  BY DEF SavepointFails, Answers, AwaitedBy
<1>2. /\ UNCHANGED <<provider, activeClient, dead>> /\ Refused("savepoint")
      /\ Observed([kind |-> "savepoint", recorded |-> FALSE])
  BY DEF SavepointFails, poolVars
<1>3. PICK e : NestedRejects(e) /\ (e.recorded => failure = "none") /\ failure' # "none"
  BY <1>2, ObservedRecords
<1>4. ASSUME activeClient \notin dead
      PROVE  /\ Native # <<>> => Native' # <<>>
             /\ Native' # <<>> /\ e.recorded => Weak(Native', Kept, transactionDepth - 1)
  <2>1. /\ t \in Nat /\ t > 0 /\ t + 1 = transactionDepth /\ Native \in Seq(Savepoint)
        /\ Mirror /\ Depth = t /\ activeClient \in Clients /\ transactionDepth > 0
        /\ TypeOK /\ calls # <<>>
    BY <1>1, InSavepoint
  <2>2. Native # <<>> /\ (failure = "none" => Strong(Native, Kept, t, Postgres))
    BY <1>1, <1>4, <2>1 DEF Mirror, Mirrored
  <2>3. CASE UNCHANGED stack
    <3>1. Native' = Native
      BY <1>2, <2>3 DEF Native
    <3> QED
      BY <1>3, <2>2, <3>1 DEF Strong
  <2>4. CASE Executes("savepoint")
    <3>1. Native' = WithSavepoint(Native, t)
      <4>1. stack'[activeClient] = After("savepoint")
        BY <2>1, <2>4, ExecutesTouches DEF Commands
      <4> QED
        BY <1>2, <2>1, <2>2, <4>1 DEF After, Native
    <3> HIDE DEF t
    <3>2. Native' # <<>>
      BY <2>1, <3>1, FramesWithSavepoint
    <3>3. failure = "none" => Weak(Native', Kept, t)
      BY <2>1, <2>2, <3>1, FramesWithNewSavepoint
    <3> QED
      BY <1>3, <3>2, <3>3 DEF t
  <2> QED
    BY <1>2, <2>3, <2>4 DEF Refused
<1> QED
  BY <1>1, <1>2, <1>3, <1>4, NestedMirror

LEMMA ReleasedMirrors ==
  ASSUME CInv, VInv, unsafe = {}, Released
  PROVE  Mirror'
<1> DEFINE t == transactionDepth - 1
<1>1. pc = "release" /\ pc \in AwaitedBy("savepoint")
  BY DEF Released, Answers, AwaitedBy
<1>2. /\ pc' = "app" /\ error' = Plain /\ Postgres' = Postgres /\ transactionDepth' = t
      /\ UNCHANGED <<activeClient, dead, failure>>
      /\ Executes("release") /\ Accepts("release") /\ activeClient \notin dead
  BY DEF Released, Succeeds, Executes, Resolves, LeavesSavepoint, poolVars, Postgres
<1>3. activeClient \notin aborted /\ aborted' = aborted
      /\ Named(stack[activeClient], Depth) # 0
  BY <1>2 DEF Accepts, Executes
<1>4. /\ t \in Nat /\ t > 0 /\ t + 1 = transactionDepth /\ Native \in Seq(Savepoint)
      /\ Mirror /\ Depth = t /\ activeClient \in Clients /\ transactionDepth > 0
      /\ TypeOK /\ calls # <<>> /\ t - 1 = transactionDepth - 2
  BY <1>1, InSavepoint
<1>5. Native' = Merged(Native, Named(Native, t)) /\ Named(Native, t) # 0
  <2>1. stack'[activeClient] = After("release")
    BY <1>2, <1>4, ExecutesTouches DEF Commands
  <2> QED
    BY <1>2, <1>3, <1>4, <2>1 DEF After, Native
<1>6. Native' # <<>>
  <2> HIDE DEF t
  <2> QED
    BY <1>4, <1>5, FramesRemain
<1>7. failure = "none" => Strong(Native', Kept', t, Postgres)
  <2> SUFFICES ASSUME failure = "none" PROVE Strong(Native', Kept', t, Postgres)
    OBVIOUS
  <2>1. Native # <<>>
    BY <1>4, <1>5, FramesRemain
  <2>2. Strong(Native, Kept, t + 1, Postgres)
    BY <1>1, <1>2, <1>4, <2>1 DEF Mirror, Mirrored
  <2>3. /\ \A i \in 1..t - 1 : Kept'[i] = Kept[i]
        /\ Kept'[t] = Kept[t] \cup Kept[t + 1]
    BY <1>4, KeptAfterRelease
  <2> HIDE DEF t
  <2>4. Weak(Native, Kept, t + 1) /\ Above(Native, t + 1) = Kept[t + 1]
    BY <2>2 DEF Strong
  <2>5. Named(Native, t) = t + 1
    BY <1>4, <2>4, InnermostSavepoint
  <2>6. \A L : /\ \A i \in 1..t - 1 : L[i] = Kept[i]
               /\ L[t] = Kept[t] \cup Above(Native, t + 1)
               => Strong(Merged(Native, t + 1), L, t, Postgres)
    BY <1>4, <2>4, FramesWhenReleased
  <2> QED
    BY <1>5, <2>3, <2>4, <2>5, <2>6
<1>8. failure' = "none" => Mirrored(Native', Kept', transactionDepth', pc', Postgres')
  BY <1>2, <1>7 DEF Mirrored
<1>9. ~Recorded(error', pc')
  BY <1>2, PlainErrors DEF Recorded
<1> QED
  BY <1>2, <1>3, <1>6, <1>8, <1>9 DEF Mirror

LEMMA ReleaseFailsMirrors ==
  ASSUME CInv, VInv, unsafe = {}, ReleaseFails
  PROVE  Mirror'
<1> DEFINE t == transactionDepth - 1
<1>1. pc = "release" /\ pc \in AwaitedBy("savepoint")
  BY DEF ReleaseFails, Answers, AwaitedBy
<1>2. /\ pc' = "rollbackTo" /\ error' = Plain /\ Postgres' = Postgres
      /\ UNCHANGED <<activeClient, dead, transactionDepth, calls, failure>>
      /\ Refused("release")
  BY DEF ReleaseFails, poolVars, Postgres
<1>3. Kept' = Kept
  BY <1>2, SameKept
<1>4. /\ t \in Nat /\ t > 0 /\ t + 1 = transactionDepth /\ Native \in Seq(Savepoint)
      /\ Mirror /\ Depth = t /\ activeClient \in Clients /\ transactionDepth > 0
      /\ TypeOK /\ calls # <<>>
  BY <1>1, InSavepoint
<1> SUFFICES ASSUME activeClient \in Clients \ dead PROVE Mirror'
  BY <1>2 DEF Mirror
<1>5. Native # <<>> /\ (failure = "none" => Strong(Native, Kept, t + 1, Postgres))
  BY <1>1, <1>4 DEF Mirror, Mirrored
<1>6. failure = "none" => Weak(Native', Kept, t + 1) \/ Lost(Native', Kept, t + 1)
  <2>1. CASE UNCHANGED stack
    <3>1. Native' = Native
      BY <1>2, <2>1 DEF Native
    <3> QED
      BY <1>5, <3>1 DEF Strong
  <2>2. CASE Executes("release")
    <3> SUFFICES ASSUME failure = "none" PROVE Lost(Native', Kept, t + 1)
      OBVIOUS
    <3>1. stack'[activeClient] = After("release")
      BY <1>4, <2>2, ExecutesTouches DEF Commands
    <3>2. Native' = Merged(Native, Named(Native, t))
      BY <1>2, <1>4, <3>1 DEF After, Native
    <3> HIDE DEF t
    <3>3. Weak(Native, Kept, t + 1)
      BY <1>5 DEF Strong
    <3>4. Named(Native, t) = t + 1
      BY <1>4, <3>3, InnermostSavepoint
    <3>5. Lost(Merged(Native, t + 1), Kept, t + 1)
      BY <1>4, <3>3, FramesWhenReleased
    <3> QED
      BY <3>2, <3>4, <3>5
  <2> QED
    BY <1>2, <2>1, <2>2 DEF Refused
<1>7. failure' = "none" => Mirrored(Native', Kept', transactionDepth', pc', Postgres')
  BY <1>2, <1>3, <1>4, <1>6 DEF Mirrored
<1>8. ~Recorded(error', pc')
  BY <1>2, PlainErrors DEF Recorded
<1> QED
  BY <1>2, <1>7, <1>8 DEF Mirror

LEMMA RolledBackToSavepointMirrors ==
  ASSUME CInv, VInv, unsafe = {}, ~Catches, RolledBackToSavepoint
  PROVE  Mirror'
<1> DEFINE t == transactionDepth - 1
<1>1. pc = "rollbackTo" /\ pc \in AwaitedBy("savepoint")
  BY DEF RolledBackToSavepoint, Answers, AwaitedBy
<1>2. /\ Postgres' = Postgres /\ UNCHANGED <<provider, activeClient, dead>>
      /\ Executes("rollbackTo") /\ Accepts("rollbackTo") /\ activeClient \notin dead
  BY DEF RolledBackToSavepoint, Succeeds, Executes, poolVars, Postgres
<1>3. /\ t \in Nat /\ t > 0 /\ t + 1 = transactionDepth /\ Native \in Seq(Savepoint)
      /\ Mirror /\ Depth = t /\ activeClient \in Clients /\ transactionDepth > 0
      /\ TypeOK /\ calls # <<>>
  BY <1>1, InSavepoint
<1>4. aborted' = aborted \ {activeClient} /\ Named(Native, t) # 0
  BY <1>2, <1>3 DEF Accepts, Executes, Native
<1>5. Native' = RolledBackTo(Native, t)
  <2>1. stack'[activeClient] = After("rollbackTo")
    BY <1>2, <1>3, ExecutesTouches DEF Commands
  <2> QED
    BY <1>2, <1>3, <2>1 DEF After, Native
<1>6. Native # <<>> /\ Native' # <<>>
  <2> HIDE DEF t
  <2> QED
    BY <1>3, <1>4, <1>5, FramesRemain
<1>7. ASSUME failure = "none" \/ error.recorded
      PROVE  /\ Weak(Native', Kept, t + 1) /\ Len(Native') = t + 1
             /\ Native'[t + 1].writes = {}
             /\ ~Postgres => Strong(Native', Kept, t, Postgres)
  <2>1. Weak(Native, Kept, t + 1) \/ Lost(Native, Kept, t + 1)
    BY <1>1, <1>2, <1>3, <1>6, <1>7 DEF Mirror, Mirrored, Recorded
  <2> HIDE DEF t
  <2>2. Weak(Native, Kept, t + 1)
    BY <1>3, <1>4, <2>1, InnermostSavepoint
  <2> QED
    BY <1>3, <1>5, <2>2, FramesWhenRolledBack
<1>8. CASE Postgres
  <2>1. /\ pc' = "releaseAfter" /\ Kept' = Kept
        /\ UNCHANGED <<transactionDepth, failure, error>>
    BY <1>8, SameKept DEF RolledBackToSavepoint
  <2>2. Recorded(error', pc') => error.recorded
    BY <2>1 DEF Recorded
  <2>3. failure' = "none" \/ Recorded(error', pc') =>
          Mirrored(Native', Kept', transactionDepth', pc', Postgres')
    BY <1>3, <1>7, <2>1, <2>2 DEF Mirrored
  <2> QED
    BY <1>2, <1>4, <1>6, <2>1, <2>3 DEF Mirror
<1>9. CASE ~Postgres
  <2> DEFINE e == [error EXCEPT !.recorded = FALSE]
  <2>1. NestedRejects(e) /\ (failure' = "none" => failure = "none" \/ error.recorded)
    BY <1>9 DEF RolledBackToSavepoint, Recovered
  <2>2. ~e.recorded
    BY <1>3 DEF TypeOK, Error
  <2>3. failure' = "none" => Strong(Native', Kept, transactionDepth - 1, Postgres)
    BY <1>7, <1>9, <2>1
  <2> HIDE DEF e
  <2> QED
    BY <1>1, <1>2, <1>4, <1>6, <2>1, <2>2, <2>3, NestedMirror
<1> QED
  BY <1>8, <1>9

LEMMA ReleasedAfterMirrors ==
  ASSUME CInv, VInv, unsafe = {}, ~Catches, ReleasedAfter
  PROVE  Mirror'
<1> DEFINE t == transactionDepth - 1
           e == [error EXCEPT !.recorded = FALSE]
<1>1. pc = "releaseAfter" /\ pc \in AwaitedBy("savepoint")
  BY DEF ReleasedAfter, Answers, AwaitedBy
<1>2. /\ UNCHANGED <<provider, activeClient, dead>>
      /\ Executes("releaseAfter") /\ Accepts("releaseAfter") /\ activeClient \notin dead
      /\ NestedRejects(e) /\ (failure' = "none" => failure = "none" \/ error.recorded)
  BY DEF ReleasedAfter, Recovered, Succeeds, Executes, poolVars
<1>3. /\ t \in Nat /\ t > 0 /\ t + 1 = transactionDepth /\ Native \in Seq(Savepoint)
      /\ Mirror /\ Depth = t /\ activeClient \in Clients /\ transactionDepth > 0
      /\ TypeOK /\ calls # <<>>
  BY <1>1, InSavepoint
<1>4. activeClient \notin aborted' /\ Named(Native, t) # 0
  BY <1>2, <1>3 DEF Accepts, Executes, Native
<1>5. Native' = Merged(Native, Named(Native, t))
  <2>1. stack'[activeClient] = After("releaseAfter")
    BY <1>2, <1>3, ExecutesTouches DEF Commands
  <2> QED
    BY <1>2, <1>3, <2>1 DEF After, Native
<1>6. Native # <<>> /\ Native' # <<>>
  <2> HIDE DEF t
  <2> QED
    BY <1>3, <1>4, <1>5, FramesRemain
<1>7. ASSUME failure = "none" \/ error.recorded
      PROVE  Strong(Native', Kept, t, Postgres)
  <2>1. /\ Weak(Native, Kept, t + 1) /\ Len(Native) = t + 1 /\ Native[t + 1].writes = {}
    BY <1>1, <1>2, <1>3, <1>6, <1>7 DEF Mirror, Mirrored, Recorded
  <2> HIDE DEF t
  <2>2. Above(Native, t + 1) = {}
    BY <1>3, <2>1, AboveOne
  <2>3. Named(Native, t) = t + 1
    BY <1>3, <2>1, InnermostSavepoint
  <2>4. \A L : /\ \A i \in 1..t - 1 : L[i] = Kept[i]
               /\ L[t] = Kept[t] \cup Above(Native, t + 1)
               => Strong(Merged(Native, t + 1), L, t, Postgres)
    BY <1>3, <2>1, FramesWhenReleased
  <2> QED
    BY <1>5, <2>2, <2>3, <2>4
<1>8. ~e.recorded
  BY <1>3 DEF TypeOK, Error
<1>9. failure' = "none" => Strong(Native', Kept, transactionDepth - 1, Postgres)
  BY <1>2, <1>7
<1> HIDE DEF e
<1> QED
  BY <1>1, <1>2, <1>4, <1>6, <1>8, <1>9, NestedMirror

LEMMA CleanUpFailsMirrors ==
  ASSUME CInv, VInv, unsafe = {}, ~Catches,
         NEW command \in {"rollbackTo", "releaseAfter"}, CleanUpFails(command)
  PROVE  Mirror'
<1> DEFINE t == transactionDepth - 1
<1>1. pc = command /\ pc \in AwaitedBy("savepoint")
  BY DEF CleanUpFails, Answers, AwaitedBy
<1>2. /\ UNCHANGED <<provider, activeClient, dead>> /\ Refused(command)
      /\ Observed([kind |-> "cleanup", recorded |-> FALSE])
  BY DEF CleanUpFails, poolVars
<1>3. PICK e : NestedRejects(e) /\ (e.recorded => failure = "none") /\ failure' # "none"
  BY <1>2, ObservedRecords
<1>4. /\ t \in Nat /\ t > 0 /\ t + 1 = transactionDepth /\ Native \in Seq(Savepoint)
      /\ Mirror /\ Depth = t /\ activeClient \in Clients /\ transactionDepth > 0
      /\ TypeOK /\ calls # <<>>
  BY <1>1, InSavepoint
<1>5. ASSUME activeClient \notin dead, Native # <<>>, failure = "none"
      PROVE  /\ Weak(Native, Kept, t)
             /\ Weak(Native, Kept, t + 1) \/ Lost(Native, Kept, t + 1)
             /\ command = "releaseAfter" => Weak(Native, Kept, t + 1)
  <2>1. /\ Weak(Native, Kept, t + 1) \/ Lost(Native, Kept, t + 1)
        /\ command = "releaseAfter" => Weak(Native, Kept, t + 1)
    BY <1>1, <1>4, <1>5 DEF Mirror, Mirrored
  <2> HIDE DEF t
  <2> QED
    BY <1>4, <2>1, InnermostSavepoint
<1>6. ASSUME activeClient \notin dead
      PROVE  /\ Native # <<>> => Native' # <<>>
             /\ Native' # <<>> /\ e.recorded => Weak(Native', Kept, transactionDepth - 1)
  <2>1. CASE UNCHANGED stack
    <3>1. Native' = Native
      BY <1>2, <2>1 DEF Native
    <3> QED
      BY <1>3, <1>5, <1>6, <3>1
  <2>2. CASE Executes(command)
    <3>1. stack'[activeClient] = After(command) /\ Named(Native, t) # 0
      <4>1. command \in Commands
        BY DEF Commands
      <4>2. Accepts(command)
        BY <2>2 DEF Executes
      <4>3. Named(Native, t) # 0
        BY <1>4, <4>2 DEF Accepts, Native
      <4> QED
        BY <1>4, <2>2, <4>1, <4>3, ExecutesTouches
    <3>2. /\ command = "rollbackTo" => Native' = RolledBackTo(Native, t)
          /\ command = "releaseAfter" => Native' = Merged(Native, Named(Native, t))
      BY <1>2, <1>4, <3>1 DEF After, Native
    <3> HIDE DEF t
    <3>3. Native # <<>> /\ Native' # <<>>
      BY <1>4, <3>1, <3>2, FramesRemain
    <3>4. ASSUME failure = "none" PROVE Weak(Native', Kept, t)
      <4>1. Weak(Native, Kept, t + 1)
        BY <1>4, <1>5, <1>6, <3>1, <3>3, <3>4, InnermostSavepoint
      <4>2. CASE command = "rollbackTo"
        <5>1. Weak(Native', Kept, t + 1) /\ Native' \in Seq(Savepoint)
          BY <1>4, <3>2, <4>1, <4>2, FramesWhenRolledBack
        <5> QED
          BY <1>4, <5>1, InnermostSavepoint
      <4>3. CASE command = "releaseAfter"
        <5>1. Named(Native, t) = t + 1
          BY <1>4, <4>1, InnermostSavepoint
        <5>2. Weak(Merged(Native, t + 1), Kept, t)
          BY <1>4, <4>1, FramesWhenReleased
        <5> QED
          BY <3>2, <4>3, <5>1, <5>2
      <4> QED
        BY <4>2, <4>3
    <3> QED
      BY <1>3, <3>3, <3>4 DEF t
  <2> QED
    BY <1>2, <2>1, <2>2 DEF Refused
<1> QED
  BY <1>1, <1>2, <1>3, <1>6, NestedMirror

LEMMA StutterMirrors ==
  ASSUME VInv, unsafe = {}, UNCHANGED vars
  PROVE  Mirror'
<1>1. Mirror
  BY DEF VInv
<1>2. /\ UNCHANGED <<activeClient, dead, transactionDepth, calls, failure, pc, error, aborted>>
      /\ Native' = Native /\ Postgres' = Postgres
  BY DEF vars, server, poolVars, Native, Postgres
<1>3. Kept' = Kept
  BY <1>2, SameKept
<1> QED
  BY <1>1, <1>2, <1>3 DEF Mirror

-----------------------------------------------------------------------------
(* Every step keeps the ledger *)

\* The calls, what was told and what is durable stay as they are.
LEMMA QuietLedger ==
  ASSUME Ledger, UNCHANGED <<calls, verdict, durable>>,
         pc' \in {"connecting", "begin", "savepoint"} =>
           pc \in {"connecting", "begin", "savepoint"},
         pc' = "commit" => failure' = "none",
         pc' = "resolved" => pc = "resolved",
         Settling(error, pc) => Settling(error', pc')
  PROVE  Ledger'
BY DEF Ledger

\* Only BEGIN and COMMIT commit.
LEMMA CommandsKeepDurable ==
  ASSUME NEW command \in Commands \ {"begin", "commit"},
         Executes(command) \/ Refused(command)
  PROVE  durable' = durable
BY DEF Executes, Refused, Committed

\* BEGIN is sent to a client without a transaction.
LEMMA BeginKeepsDurable ==
  ASSUME CInv, unsafe = {}, pc = "begin", Executes("begin") \/ Refused("begin")
  PROVE  durable' = durable
<1>1. activeClient # NoClient
  BY Awaiting, PooledConnectionAssumption
<1>2. stack[activeClient] = <<>>
  BY <1>1 DEF CInv, Cleanness, Clean
<1>3. AllWrites(<<>>) = {}
  BY DEF AllWrites
<1>4. Committed("begin") = {}
  BY <1>2, <1>3 DEF Committed
<1> QED
  BY <1>4 DEF Executes, Refused

\* An innermost call is entered.
LEMMA EnteringLedger ==
  ASSUME CInv, Ledger, NEW r \in Call, r.kept = {}, calls' = Append(calls, r),
         UNCHANGED <<durable, verdict>>, ~Settling(error, pc),
         pc' \in {"connecting", "begin", "savepoint"}
  PROVE  Ledger'
<1>1. calls \in Seq(Call)
  BY DEF CInv, TypeOK
<1>2. /\ Len(calls) \in Nat /\ Len(calls') = Len(calls) + 1
      /\ \A i \in 1..Len(calls) : calls'[i] = calls[i]
      /\ calls'[Len(calls) + 1] = r
  BY <1>1, AppendProperties
<1>3. Last(calls') = r
  BY <1>2 DEF Last
<1>4. \A i \in 1..Len(calls') : i \in 1..Len(calls) \/ i = Len(calls) + 1
  BY <1>2
<1>5. \A i \in 1..Len(calls') : \A w \in calls'[i].kept : verdict'[w] = "open"
  BY <1>2, <1>4 DEF Ledger
<1>6. ASSUME NEW i \in 1..Len(calls'), NEW j \in 1..Len(calls'), i # j
      PROVE  calls'[i].kept \cap calls'[j].kept = {}
  <2>1. CASE i = Len(calls) + 1 \/ j = Len(calls) + 1
    BY <1>2, <2>1
  <2>2. CASE i \in 1..Len(calls) /\ j \in 1..Len(calls)
    BY <1>2, <1>6, <2>2 DEF Ledger
  <2> QED
    BY <1>4, <2>1, <2>2
<1> QED
  BY <1>3, <1>5, <1>6 DEF Ledger

\* An innermost call is left, and its caller told of its writes.
LEMMA LeavingLedger ==
  ASSUME CInv, Ledger, calls # <<>>, calls' = Front(calls), durable' = durable,
         pc' \in {"app", "unwinding"},
         \A w \in Writes : w \notin Last(calls).kept => verdict'[w] = verdict[w],
         \A w \in Last(calls).kept :
           \/ verdict'[w] = "unknown"
           \/ verdict'[w] = "rejected" /\ w \notin durable
           \/ verdict'[w] = "resolved" /\ w \in durable
           \/ verdict'[w] = verdict[w] /\ w \notin durable
  PROVE  Ledger'
<1>1. calls \in Seq(Call)
  BY DEF CInv, TypeOK
<1>2. /\ Len(calls) \in Nat \ {0} /\ Last(calls) = calls[Len(calls)]
      /\ Len(calls') = Len(calls) - 1
      /\ \A i \in 1..Len(calls) - 1 : calls'[i] = calls[i]
  BY <1>1, WithoutLast
<1>3. \A i \in 1..Len(calls') : i \in 1..Len(calls) /\ i # Len(calls)
  BY <1>2
<1>4. Len(calls) \in 1..Len(calls)
  BY <1>2
<1>5. \A i \in 1..Len(calls') : calls'[i] = calls[i] /\ calls[i] \in Call
  BY <1>1, <1>2, <1>3
<1>6. ASSUME NEW i \in 1..Len(calls'), NEW w \in calls'[i].kept
      PROVE  verdict'[w] = "open"
  <2>1. w \in calls[i].kept /\ w \in Writes
    BY <1>5 DEF Call
  <2>2. verdict[w] = "open" /\ w \notin Last(calls).kept
    BY <1>2, <1>3, <1>4, <2>1 DEF Ledger
  <2> QED
    BY <2>1, <2>2
<1>7. ASSUME NEW i \in 1..Len(calls'), NEW j \in 1..Len(calls'), i # j
      PROVE  calls'[i].kept \cap calls'[j].kept = {}
  BY <1>3, <1>5, <1>7 DEF Ledger
<1>8. ASSUME NEW w \in Writes
      PROVE  /\ verdict'[w] \in {"none", "rejected"} => w \notin durable'
             /\ verdict'[w] = "resolved" => w \in durable'
             /\ verdict'[w] = "open" => w \notin durable'
  <2>1. CASE w \in Last(calls).kept
    <3>1. verdict[w] = "open"
      BY <1>2, <1>4, <2>1 DEF Ledger
    <3> QED
      BY <2>1, <3>1
  <2>2. CASE w \notin Last(calls).kept
    BY <2>2 DEF Ledger
  <2> QED
    BY <2>1, <2>2
<1> QED
  BY <1>6, <1>7, <1>8 DEF Ledger

\* The writes of a call that is left are open, and not durable unless its root
\* has ended on the server.
LEMMA KeptIsOpen ==
  ASSUME CInv, Ledger, calls # <<>>
  PROVE  /\ Last(calls).kept \subseteq Writes
         /\ \A w \in Last(calls).kept :
              verdict[w] = "open" /\ (~Settling(error, pc) => w \notin durable)
<1>1. calls \in Seq(Call)
  BY DEF CInv, TypeOK
<1>2. Last(calls) \in Call /\ Last(calls) = calls[Len(calls)] /\ Len(calls) \in 1..Len(calls)
  BY <1>1, WithoutLast
<1>3. Last(calls).kept \subseteq Writes
  BY <1>2 DEF Call
<1> QED
  BY <1>2, <1>3 DEF Ledger

LEMMA CallsLedger ==
  ASSUME CInv, Ledger, CallTransaction \/ CallSession
  PROVE  Ledger'
<1>1. pc = "app" /\ ~Settling(error, pc) /\ UNCHANGED <<durable, verdict>>
  BY DEF CallTransaction, CallSession, Settling, server
<1>2. \A k \in {"session", "root", "savepoint"}, b \in BOOLEAN :
        [kind |-> k, depth |-> transactionDepth, owns |-> b, kept |-> {}] \in Call
  BY DEF CInv, TypeOK, Call
<1>3. /\ pc' \in {"connecting", "begin", "savepoint"}
      /\ \E k \in {"session", "root", "savepoint"}, b \in BOOLEAN : Enter(k, b)
  BY DEF CallTransaction, CallSession
<1>4. PICK r \in Call : calls' = Append(calls, r) /\ r.kept = {}
  BY <1>2, <1>3 DEF Enter
<1> QED
  BY <1>1, <1>3, <1>4, EnteringLedger

LEMMA NestedRejectsLedger ==
  ASSUME CInv, Ledger, pc \in AwaitedBy("savepoint"), durable' = durable,
         NEW e, NestedRejects(e)
  PROVE  Ledger'
<1>1. calls # <<>> /\ ~Settling(error, pc)
  BY Awaiting DEF AwaitedBy, Settling
<1>2. /\ calls' = Front(calls) /\ pc' \in {"app", "unwinding"}
      /\ verdict' = [w \in Writes |-> IF w \in Last(calls).kept THEN "rejected" ELSE verdict[w]]
  BY DEF NestedRejects, Leaves, Rejects, Told
<1>3. /\ \A w \in Writes : w \notin Last(calls).kept => verdict'[w] = verdict[w]
      /\ \A w \in Last(calls).kept : verdict'[w] = "rejected" /\ w \notin durable
  BY <1>1, <1>2, KeptIsOpen
<1> QED
  BY <1>1, <1>2, <1>3, LeavingLedger

LEMMA SavepointEndsLedger ==
  ASSUME CInv, Ledger,
         \/ SavepointFails
         \/ RolledBackToSavepoint /\ ~Postgres
         \/ ReleasedAfter
         \/ \E command \in {"rollbackTo", "releaseAfter"} : CleanUpFails(command)
  PROVE  Ledger'
<1>1. pc \in AwaitedBy("savepoint")
  BY DEF SavepointFails, RolledBackToSavepoint, ReleasedAfter, CleanUpFails, Answers, AwaitedBy
<1>2. durable' = durable
  <2>1. {"savepoint", "rollbackTo", "releaseAfter"} \subseteq Commands \ {"begin", "commit"}
    BY DEF Commands
  <2>2. \E command \in {"savepoint", "rollbackTo", "releaseAfter"} :
          Executes(command) \/ Refused(command)
    BY DEF SavepointFails, RolledBackToSavepoint, ReleasedAfter, CleanUpFails, Succeeds
  <2> QED
    BY <2>1, <2>2, CommandsKeepDurable
<1>3. \E e : NestedRejects(e)
  <2>1. CASE SavepointFails
    BY <2>1, ObservedRecords DEF SavepointFails
  <2>2. CASE RolledBackToSavepoint /\ ~Postgres
    BY <2>2 DEF RolledBackToSavepoint, Recovered
  <2>3. CASE ReleasedAfter
    BY <2>3 DEF ReleasedAfter, Recovered
  <2>4. CASE \E command \in {"rollbackTo", "releaseAfter"} : CleanUpFails(command)
    BY <2>4, ObservedRecords DEF CleanUpFails
  <2> QED
    BY <2>1, <2>2, <2>3, <2>4
<1> QED
  BY <1>1, <1>2, <1>3, NestedRejectsLedger

LEMMA QuietStepsLedger ==
  ASSUME CInv, Ledger, unsafe = {},
         \/ StatementFails \/ Begun \/ BeginFails \/ RootWorkReturns \/ RootWorkThrows
         \/ RolledBack \/ RollbackFails \/ SavepointSet \/ ReleaseFails
         \/ NestedWorkReturns \/ NestedWorkThrows \/ (RolledBackToSavepoint /\ Postgres)
         \/ SocketDies \/ (\E c \in Clients : Connected(c)) \/ UNCHANGED vars
  PROVE  Ledger'
<1>1. CASE StatementFails \/ NestedWorkReturns \/ NestedWorkThrows \/ RootWorkThrows
  <2>1. /\ UNCHANGED <<calls, verdict, durable>> /\ pc \in {"app", "unwinding"}
        /\ pc' \in {"app", "unwinding", "release", "rollbackTo", "rollback"}
    BY <1>1 DEF StatementFails, NestedWorkReturns, NestedWorkThrows, RootWorkThrows, server
  <2>2. ~Settling(error, pc)
    BY <2>1 DEF Settling
  <2> QED
    BY <2>1, <2>2, QuietLedger
<1>2. CASE RootWorkReturns
  <2>1. /\ UNCHANGED <<calls, verdict, durable, failure>> /\ pc = "app"
        /\ pc' \in {"commit", "rollback"} /\ (pc' = "commit" => failure = "none")
    BY <1>2 DEF RootWorkReturns, server
  <2>2. ~Settling(error, pc)
    BY <2>1 DEF Settling
  <2> QED
    BY <2>1, <2>2, QuietLedger
<1>3. CASE Begun \/ BeginFails
  <2>1. /\ pc = "begin" /\ UNCHANGED <<calls, verdict>>
        /\ pc' \in {"app", "rollback", "rejected"}
        /\ Executes("begin") \/ Refused("begin")
    BY <1>3 DEF Begun, BeginFails, Answers, Succeeds
  <2>2. ~Settling(error, pc) /\ durable' = durable
    BY <2>1, BeginKeepsDurable DEF Settling
  <2> QED
    BY <2>1, <2>2, QuietLedger
<1>4. CASE RolledBack \/ RollbackFails
  <2>1. /\ pc = "rollback" /\ pc' = "rejected" /\ UNCHANGED <<calls, verdict>>
        /\ Executes("rollback") \/ Refused("rollback")
        /\ error.kind = "unknown" => error' = error
    BY <1>4 DEF RolledBack, RollbackFails, Answers, Succeeds
  <2>2. durable' = durable
    BY <2>1, CommandsKeepDurable DEF Commands
  <2>3. Settling(error, pc) => Settling(error', pc')
    BY <2>1 DEF Settling
  <2> QED
    BY <2>1, <2>2, <2>3, QuietLedger
<1>5. CASE SavepointSet \/ ReleaseFails \/ (RolledBackToSavepoint /\ Postgres)
  <2>1. /\ pc \in {"savepoint", "release", "rollbackTo"} /\ UNCHANGED <<calls, verdict>>
        /\ pc' \in {"app", "rollbackTo", "releaseAfter"}
        /\ \E command \in {"savepoint", "release", "rollbackTo"} :
             Executes(command) \/ Refused(command)
    BY <1>5 DEF SavepointSet, ReleaseFails, RolledBackToSavepoint, Answers, Succeeds
  <2>2. durable' = durable
    <3>1. {"savepoint", "release", "rollbackTo"} \subseteq Commands \ {"begin", "commit"}
      BY DEF Commands
    <3> QED
      BY <2>1, <3>1, CommandsKeepDurable
  <2>3. ~Settling(error, pc)
    BY <2>1 DEF Settling
  <2> QED
    BY <2>1, <2>2, <2>3, QuietLedger
<1>6. CASE SocketDies \/ UNCHANGED vars
  <2>1. UNCHANGED <<calls, verdict, durable, pc, error, failure>>
    BY <1>6 DEF SocketDies, vars, server
  <2>2. pc' = "commit" => failure' = "none"
    BY <2>1 DEF Ledger
  <2>3. Settling(error, pc) => Settling(error', pc')
    BY <2>1 DEF Settling
  <2> QED
    BY <2>1, <2>2, <2>3, QuietLedger
<1>7. CASE \E c \in Clients : Connected(c)
  <2>1. /\ UNCHANGED <<calls, verdict, durable>> /\ pc = "connecting"
        /\ pc' \in {"app", "begin"}
    BY <1>7 DEF Connected
  <2>2. ~Settling(error, pc)
    BY <2>1 DEF Settling
  <2> QED
    BY <2>1, <2>2, QuietLedger
<1> QED
  BY <1>1, <1>2, <1>3, <1>4, <1>5, <1>6, <1>7

LEMMA EndsLedger ==
  ASSUME CInv, Ledger, ConnectFails \/ SessionEnds \/ RootResolves \/ RootRejects
  PROVE  Ledger'
<1>1. calls # <<>>
  <2>1. pc = "connecting" => calls # <<>>
    <3>1. Len(<<>>) # 1
      OBVIOUS
    <3> QED
      BY <3>1, Zenon DEF CInv, Nesting
  <2>2. pc \in {"resolved", "rejected"} => calls # <<>>
    BY Awaiting
  <2> QED
    BY <2>1, <2>2 DEF ConnectFails, SessionEnds, RootResolves, RootRejects
<1>2. calls' = Front(calls) /\ durable' = durable /\ pc' \in {"app", "unwinding"}
  BY DEF ConnectFails, SessionEnds, RootResolves, RootRejects, LeavesRoot, Leaves, Rejects,
         Resolves, server
<1>3. CASE ConnectFails \/ SessionEnds
  <2>1. verdict' = verdict /\ ~Settling(error, pc)
    BY <1>3 DEF ConnectFails, SessionEnds, Settling
  <2>2. \A w \in Last(calls).kept : verdict'[w] = verdict[w] /\ w \notin durable
    BY <1>1, <2>1, KeptIsOpen
  <2> QED
    BY <1>1, <1>2, <2>1, <2>2, LeavingLedger
<1>4. CASE RootResolves
  <2>1. /\ verdict' = [w \in Writes |-> IF w \in Last(calls).kept THEN "resolved" ELSE verdict[w]]
        /\ Last(calls).kept \subseteq durable
    BY <1>4 DEF RootResolves, Told, Ledger
  <2>2. /\ \A w \in Writes : w \notin Last(calls).kept => verdict'[w] = verdict[w]
        /\ \A w \in Last(calls).kept : verdict'[w] = "resolved" /\ w \in durable
    BY <1>1, <2>1, KeptIsOpen
  <2> QED
    BY <1>1, <1>2, <2>2, LeavingLedger
<1>5. CASE RootRejects
  <2> DEFINE word == IF error.kind = "unknown" THEN "unknown" ELSE "rejected"
  <2>1. verdict' = [w \in Writes |-> IF w \in Last(calls).kept THEN word ELSE verdict[w]]
    BY <1>5 DEF RootRejects, Told
  <2>2. word = "unknown" \/ (word = "rejected" /\ ~Settling(error, pc))
    BY <1>5 DEF RootRejects, Settling
  <2> HIDE DEF word
  <2>3. /\ \A w \in Writes : w \notin Last(calls).kept => verdict'[w] = verdict[w]
        /\ \A w \in Last(calls).kept :
             verdict'[w] = "unknown" \/ (verdict'[w] = "rejected" /\ w \notin durable)
    BY <1>1, <2>1, <2>2, KeptIsOpen
  <2> QED
    BY <1>1, <1>2, <2>3, LeavingLedger
<1> QED
  BY <1>3, <1>4, <1>5

\* Disjoint sets of open writes stay so when the innermost gets a new one.
LEMMA StatementLedger ==
  ASSUME CInv, VInv, unsafe = {}, NEW w \in Writes, Statement(w)
  PROVE  Ledger'
<1>1. /\ pc = "app" /\ UNCHANGED <<pc, error, failure>> /\ verdict[w] = "none"
      /\ activeClient \in Clients \ dead /\ Mirror /\ Ledger
  BY DEF Statement, VInv
<1>2. ~Settling(error, pc) /\ w \notin durable
  BY <1>1 DEF Settling, Ledger
<1>3. calls \in Seq(Call) /\ Len(calls) \in Nat
  BY DEF CInv, TypeOK
<1>4. \A i \in 1..Len(calls) : w \notin calls[i].kept
  BY <1>1 DEF Ledger
<1>5. CASE transactionDepth > 0
  <2>1. /\ verdict' = [v \in Writes |-> IF v \in {w} THEN "open" ELSE verdict[v]]
        /\ calls' = [calls EXCEPT ![Len(calls)].kept = @ \cup {w}]
    BY <1>5 DEF Statement, InTransaction, Told
  <2>2. durable' = durable
    <3>1. stack[activeClient] # <<>>
      BY <1>1, <1>5 DEF Mirror, Native
    <3> QED
      BY <3>1 DEF Statement
  <2>3. calls # <<>>
    BY <1>1, <1>5, KeptOf
  <2>4. /\ Len(calls') = Len(calls)
        /\ \A i \in 1..Len(calls) :
             calls'[i].kept = IF i = Len(calls) THEN calls[i].kept \cup {w} ELSE calls[i].kept
    <3> DEFINE n == Len(calls)
               e == [calls[n] EXCEPT !.kept = @ \cup {w}]
    <3>1. n \in 1..n
      BY <1>3, <2>3
    <3>2. calls[n] \in Call
      BY <1>3, <3>1
    <3>3. calls' = [calls EXCEPT ![n] = e]
      BY <2>1
    <3> HIDE DEF n
    <3>4. e \in Call /\ e.kept = calls[n].kept \cup {w}
      BY <3>2 DEF Call
    <3> HIDE DEF e
    <3>5. /\ Len(calls') = Len(calls)
          /\ \A i \in 1..Len(calls) : calls'[i] = IF i = n THEN e ELSE calls[i]
      BY <1>3, <3>1, <3>3, <3>4, ExceptSeq DEF n
    <3> QED
      BY <3>4, <3>5 DEF n
  <2>5. \A i \in 1..Len(calls) : calls[i].kept \subseteq Writes
    <3>1. \A i \in 1..Len(calls) : calls[i] \in Call
      BY <1>3
    <3> QED
      BY <3>1 DEF Call
  <2>6. ASSUME NEW i \in 1..Len(calls'), NEW v \in calls'[i].kept
        PROVE  verdict'[v] = "open"
    <3>1. CASE v = w
      BY <2>1, <3>1
    <3>2. CASE v # w
      <4>1. v \in calls[i].kept /\ v \in Writes
        BY <2>4, <2>5, <3>2
      <4>2. verdict[v] = "open"
        BY <1>1, <2>4, <4>1 DEF Ledger
      <4> QED
        BY <2>1, <3>2, <4>1, <4>2
    <3> QED
      BY <3>1, <3>2
  <2>7. ASSUME NEW i \in 1..Len(calls'), NEW j \in 1..Len(calls'), i # j
        PROVE  calls'[i].kept \cap calls'[j].kept = {}
    <3>1. calls[i].kept \cap calls[j].kept = {}
      BY <1>1, <2>4, <2>7 DEF Ledger
    <3>2. w \notin calls[i].kept /\ w \notin calls[j].kept
      BY <1>4, <2>4
    <3>3. /\ calls'[i].kept = calls[i].kept \/ calls'[j].kept = calls[j].kept
          /\ calls'[i].kept \subseteq calls[i].kept \cup {w}
          /\ calls'[j].kept \subseteq calls[j].kept \cup {w}
      <4>1. i \in 1..Len(calls) /\ j \in 1..Len(calls)
        BY <2>4
      <4>2. i # Len(calls) \/ j # Len(calls)
        BY <2>7
      <4> QED
        BY <2>4, <4>1, <4>2, Zenon
    <3> QED
      BY <3>1, <3>2, <3>3
  <2>8. ASSUME NEW v \in Writes
        PROVE  /\ verdict'[v] \in {"none", "rejected"} => v \notin durable'
               /\ verdict'[v] = "resolved" => v \in durable'
               /\ verdict'[v] = "open" => v \notin durable'
    BY <1>1, <1>2, <2>1, <2>2 DEF Ledger
  <2> QED
    BY <1>1, <2>6, <2>7, <2>8 DEF Ledger
<1>6. CASE ~(transactionDepth > 0)
  <2>1. /\ verdict' = [v \in Writes |-> IF v \in {w} THEN "resolved" ELSE verdict[v]]
        /\ calls' = calls
    BY <1>6 DEF Statement, InTransaction, Told
  <2>2. stack[activeClient] = <<>>
    <3>1. transactionDepth = 0
      BY <1>6 DEF CInv, TypeOK
    <3>2. activeClient # NoClient
      BY <1>1, PooledConnectionAssumption
    <3> QED
      BY <3>1, <3>2 DEF CInv, Cleanness, Clean
  <2>3. durable' = durable \cup {w}
    BY <2>2 DEF Statement
  <2>4. \A i \in 1..Len(calls) : \A v \in calls[i].kept : v \in Writes /\ v # w
    <3>1. \A i \in 1..Len(calls) : calls[i] \in Call
      BY <1>3
    <3> QED
      BY <1>4, <3>1 DEF Call
  <2>5. ASSUME NEW i \in 1..Len(calls'), NEW v \in calls'[i].kept
        PROVE  verdict'[v] = "open"
    BY <1>1, <2>1, <2>4 DEF Ledger
  <2>6. ASSUME NEW v \in Writes
        PROVE  /\ verdict'[v] \in {"none", "rejected"} => v \notin durable'
               /\ verdict'[v] = "resolved" => v \in durable'
               /\ verdict'[v] = "open" => v \notin durable'
    BY <1>1, <1>2, <2>1, <2>3 DEF Ledger
  <2> QED
    BY <1>1, <2>1, <2>5, <2>6 DEF Ledger
<1> QED
  BY <1>5, <1>6

\* The caller answers for what a released savepoint kept.
LEMMA ReleasedLedger ==
  ASSUME CInv, Ledger, Released
  PROVE  Ledger'
<1>1. /\ pc = "release" /\ pc' = "app" /\ verdict' = verdict /\ ~Settling(error, pc)
      /\ Executes("release")
  BY DEF Released, Answers, Resolves, Settling, Succeeds
<1>2. durable' = durable
  BY <1>1, CommandsKeepDurable DEF Commands
<1>3. calls # <<>> /\ calls \in Seq(Call)
  BY <1>1, Awaiting DEF AwaitedBy, CInv, TypeOK
<1>4. Len(calls) \in Nat \ {0} /\ Last(calls) = calls[Len(calls)]
  BY <1>3, WithoutLast
<1>5. /\ Len(calls') = Len(calls) - 1
      /\ \A i \in 1..Len(calls) - 1 :
           calls'[i].kept = IF i = Len(calls) - 1 THEN calls[i].kept \cup calls[Len(calls)].kept
                                                  ELSE calls[i].kept
  BY <1>4, CallsAfterRelease
<1> DEFINE n == Len(calls)
<1> HIDE DEF n
<1>6. /\ n \in 1..n /\ \A i \in 1..Len(calls') : i \in 1..n /\ i # n /\ i \in 1..n - 1
      /\ \A i \in 1..n - 1 :
           calls'[i].kept = IF i = n - 1 THEN calls[i].kept \cup calls[n].kept ELSE calls[i].kept
      /\ \A i \in 1..n : \A w \in calls[i].kept : verdict[w] = "open"
      /\ \A i, j \in 1..n : i # j => calls[i].kept \cap calls[j].kept = {}
  <2>1. n \in Nat \ {0} /\ Len(calls') = n - 1
    BY <1>4, <1>5 DEF n
  <2>2. n \in 1..n /\ \A i \in 1..Len(calls') : i \in 1..n /\ i # n /\ i \in 1..n - 1
    BY <2>1
  <2>3. \A i \in 1..n - 1 :
          calls'[i].kept = IF i = n - 1 THEN calls[i].kept \cup calls[n].kept ELSE calls[i].kept
    BY <1>5, Zenon DEF n
  <2>4. /\ \A i \in 1..n : \A w \in calls[i].kept : verdict[w] = "open"
        /\ \A i, j \in 1..n : i # j => calls[i].kept \cap calls[j].kept = {}
    BY Zenon DEF n, Ledger
  <2> QED
    BY <2>2, <2>3, <2>4, Zenon
<1>7. ASSUME NEW i \in 1..Len(calls'), NEW w \in calls'[i].kept
      PROVE  verdict'[w] = "open"
  <2>1. w \in calls[i].kept \/ w \in calls[n].kept
    BY <1>6
  <2> QED
    BY <1>1, <1>6, <2>1
<1>8. ASSUME NEW i \in 1..Len(calls'), NEW j \in 1..Len(calls'), i # j
      PROVE  calls'[i].kept \cap calls'[j].kept = {}
  <2>1. /\ calls[i].kept \cap calls[j].kept = {} /\ calls[i].kept \cap calls[n].kept = {}
        /\ calls[j].kept \cap calls[n].kept = {}
    BY <1>6, <1>8
  <2>2. /\ calls'[i].kept = calls[i].kept \/ calls'[j].kept = calls[j].kept
        /\ calls'[i].kept \subseteq calls[i].kept \cup calls[n].kept
        /\ calls'[j].kept \subseteq calls[j].kept \cup calls[n].kept
    <3>1. i \in 1..n - 1 /\ j \in 1..n - 1
      BY <1>6
    <3>2. i # n - 1 \/ j # n - 1
      BY <1>8, <1>6, <3>1
    <3> QED
      BY <1>6, <3>1, <3>2, Zenon
  <2> QED
    BY <2>1, <2>2
<1> QED
  BY <1>1, <1>2, <1>7, <1>8 DEF Ledger

\* COMMIT commits what the root answers for, and nothing else.
LEMMA CommitCommitsTheRoot ==
  ASSUME CInv, VInv, unsafe = {}, pc = "commit", activeClient \notin dead, Executes("commit")
  PROVE  durable' = durable \cup Last(calls).kept
<1>1. activeClient \in Clients /\ calls # <<>> /\ transactionDepth = 1
  BY Awaiting DEF AwaitedBy
<1>2. Mirror /\ failure = "none"
  BY DEF VInv, Ledger
<1>3. Native # <<>> /\ activeClient \notin aborted /\ Strong(Native, Kept, 1, Postgres)
  BY <1>1, <1>2 DEF Mirror, Mirrored
<1>4. Native \in Seq(Savepoint)
  BY <1>1 DEF CInv, TypeOK, Native
<1>5. AllWrites(Native) = Above(Native, 1)
  <2>1. DOMAIN Native = 1..Len(Native)
    BY <1>4
  <2> QED
    BY <2>1 DEF AllWrites, Above
<1>6. Above(Native, 1) = Last(calls).kept
  BY <1>1, <1>3, KeptOf DEF Strong
<1>7. Committed("commit") = Last(calls).kept
  BY <1>3, <1>5, <1>6 DEF Committed, Native
<1> QED
  BY <1>7 DEF Executes

LEMMA CommitLedger ==
  ASSUME CInv, VInv, unsafe = {}, CommitSucceeds \/ CommitFails
  PROVE  Ledger'
<1>1. /\ pc = "commit" /\ UNCHANGED <<calls, verdict, failure>> /\ Ledger /\ calls # <<>>
      /\ ~Settling(error, pc)
  BY Awaiting DEF CommitSucceeds, CommitFails, Answers, VInv, Settling
<1>2. CASE durable' = durable /\ pc' = "rollback"
  BY <1>1, <1>2, QuietLedger
<1>3. CASE durable' = durable \cup Last(calls).kept /\ Settling(error', pc')
           /\ pc' \in {"resolved", "rollback"}
  <2>1. \A w \in Last(calls).kept : verdict[w] = "open"
    BY <1>1, KeptIsOpen
  <2>2. ASSUME NEW w \in Writes
        PROVE  /\ verdict'[w] \in {"none", "rejected"} => w \notin durable'
               /\ verdict'[w] = "resolved" => w \in durable'
               /\ verdict'[w] = "open" /\ w \in durable' => w \in Last(calls').kept
    BY <1>1, <1>3, <2>1 DEF Ledger
  <2> QED
    BY <1>1, <1>3, <2>2 DEF Ledger
<1>4. CASE CommitSucceeds
  <2>1. activeClient \notin dead /\ Executes("commit") /\ pc' = "resolved"
    BY <1>4 DEF CommitSucceeds, Succeeds
  <2> QED
    BY <1>1, <1>3, <2>1, CommitCommitsTheRoot DEF Settling
<1>5. CASE CommitFails
  <2>1. pc' = "rollback"
    BY <1>5 DEF CommitFails
  <2>2. CASE durable' = durable
    BY <1>2, <2>1, <2>2
  <2>3. CASE activeClient \notin dead /\ Executes("commit") /\ error'.kind = "unknown"
    BY <1>1, <1>3, <2>1, <2>3, CommitCommitsTheRoot DEF Settling
  <2> QED
    BY <1>5, <2>2, <2>3 DEF CommitFails, Refused
<1> QED
  BY <1>4, <1>5

-----------------------------------------------------------------------------

LEMMA InitVerdicts == Init => VInv
<1> SUFFICES ASSUME Init PROVE VInv
  OBVIOUS
<1>1. Mirror
  BY DEF Init, Mirror
<1>2. Len(calls) = 0 /\ \A i \in 1..Len(calls) : FALSE
  BY DEF Init
<1>3. Ledger
  BY <1>2 DEF Init, Ledger
<1> QED
  BY <1>1, <1>3 DEF VInv

LEMMA NothingIsCleared ==
  ASSUME [Next]_vars, unsafe' = {}
  PROVE  unsafe = {}
BY DEF Next, AnswerArrives, WorkEnds, vars, server, CallTransaction, CallSession, Statement,
       StatementFails, SocketDies, Connected, ConnectFails, Begun, BeginFails, CommitSucceeds,
       CommitFails, RolledBack, RollbackFails, RootResolves, RootRejects, LeavesRoot,
       SavepointSet, SavepointFails, Released, ReleaseFails, RolledBackToSavepoint,
       ReleasedAfter, CleanUpFails, RootWorkReturns, RootWorkThrows, NestedWorkReturns,
       NestedWorkThrows, SessionEnds

LEMMA StepKeepsVerdicts ==
  ASSUME ~Catches, CInv, CInv', VInv, [Next]_vars
  PROVE  VInv'
<1> SUFFICES ASSUME unsafe' = {} PROVE Mirror' /\ Ledger'
  BY DEF VInv
<1>0. unsafe = {} /\ Ledger
  BY NothingIsCleared DEF VInv
<1>1. CASE CallTransaction \/ CallSession \/ ConnectFails
  BY <1>0, <1>1, EnteringMirrors, CallsLedger, EndsLedger
<1>2. ASSUME NEW w \in Writes, Statement(w) PROVE Mirror' /\ Ledger'
  BY <1>0, <1>2, StatementMirrors, StatementLedger
<1>3. CASE StatementFails
  BY <1>0, <1>3, StatementFailsMirrors, QuietStepsLedger
<1>4. ASSUME NEW c \in Clients, Connected(c) PROVE Mirror' /\ Ledger'
  BY <1>0, <1>4, ConnectedMirrors, QuietStepsLedger
<1>5. CASE Begun \/ BeginFails \/ RolledBack \/ RollbackFails \/ RootWorkReturns
           \/ RootWorkThrows
  BY <1>0, <1>5, RootCommandsMirror, QuietStepsLedger
<1>6. CASE CommitSucceeds \/ CommitFails
  BY <1>0, <1>6, RootCommandsMirror, CommitLedger
<1>7. CASE RootResolves \/ RootRejects \/ SessionEnds
  BY <1>0, <1>7, EndsMirror, EndsLedger
<1>8. CASE SavepointSet
  BY <1>0, <1>8, SavepointSetMirrors, QuietStepsLedger
<1>9. CASE SavepointFails
  BY <1>0, <1>9, SavepointFailsMirrors, SavepointEndsLedger
<1>10. CASE Released
  BY <1>0, <1>10, ReleasedMirrors, ReleasedLedger
<1>11. CASE ReleaseFails
  BY <1>0, <1>11, ReleaseFailsMirrors, QuietStepsLedger
<1>12. CASE RolledBackToSavepoint
  BY <1>0, <1>12, RolledBackToSavepointMirrors, QuietStepsLedger, SavepointEndsLedger
<1>13. CASE ReleasedAfter
  BY <1>0, <1>13, ReleasedAfterMirrors, SavepointEndsLedger
<1>14. ASSUME NEW command \in {"rollbackTo", "releaseAfter"}, CleanUpFails(command)
       PROVE  Mirror' /\ Ledger'
  BY <1>0, <1>14, CleanUpFailsMirrors, SavepointEndsLedger
<1>15. CASE NestedWorkReturns \/ NestedWorkThrows
  BY <1>0, <1>15, NestedWorkEndsMirror, QuietStepsLedger
<1>16. CASE SocketDies
  BY <1>0, <1>16, EndsMirror, QuietStepsLedger
<1>17. CASE UNCHANGED vars
  BY <1>0, <1>17, StutterMirrors, QuietStepsLedger
<1> QED
  BY <1>1, <1>2, <1>3, <1>4, <1>5, <1>6, <1>7, <1>8, <1>9, <1>10, <1>11, <1>12, <1>13,
     <1>14, <1>15, <1>16, <1>17 DEF Next, AnswerArrives, WorkEnds

\* What transaction() tells its caller of its writes, at any depth, is what the
\* server did, on both servers: through savepoint errors that are caught or let
\* through, clean-ups that fail, commands that were executed although their
\* answer was an error, and sockets that die.  A work function does not go on
\* after a statement that failed, nor in a transaction that the server has
\* rolled back.
THEOREM VerdictsAreTrue ==
  ASSUME ~Catches
  PROVE  Spec => []VerdictIsTrue
<1>1. Init => VInv
  BY InitVerdicts
<1>2. CInv /\ CInv' /\ VInv /\ [Next]_vars => VInv'
  BY StepKeepsVerdicts
<1>3. VInv => VerdictIsTrue
  BY DEF VInv, Ledger, VerdictIsTrue, ResolvedIsDurable, RejectedIsGone, Settling
<1> QED
  BY <1>1, <1>2, <1>3, CleanInvariant, PTL DEF Spec

=============================================================================
