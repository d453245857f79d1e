------------------------- MODULE AtomicFilesProofs -------------------------
(* Proofs about AtomicFiles for any number of paths, commands, failing calls *)
(* and newcomers: the type invariant; that the old content of a path is not  *)
(* lost before all changes are made; that all changes are made or none; and  *)
(* that a file of another program is neither replaced nor deleted.           *)
EXTENDS AtomicFiles, FiniteSetTheorems, TLAPS

(* The changes are numbered from 1 and Size is the number of the last one.   *)
LEMMA SizeOfJob ==
  ASSUME job \in Jobs
  PROVE  /\ Size \in 1..Files
         /\ DOMAIN job = 1..Size
         /\ DOMAIN job \subseteq Paths
         /\ job \in [1..Size -> Kinds]
<1>1. PICK n \in 1..Files : job \in [1..n -> Kinds]
  BY DEF Jobs
<1>2. Cardinality(1..n) = n
  <2>1. n \in Nat /\ 1 \in Int /\ n \in Int /\ 1 <= n
    BY FilesAssumption
  <2>2. Cardinality(1..n) = IF 1 > n THEN 0 ELSE n - 1 + 1
    BY <2>1, FS_Interval
  <2> QED BY <2>1, <2>2
<1>3. DOMAIN job = 1..n
  BY <1>1
<1> QED BY <1>1, <1>2, <1>3, FilesAssumption DEF Size, Paths

(* The five markers and the commands are different contents.                 *)
LEMMA Markers == Nothing \in Contents /\ Commands \subseteq Contents
  BY DEF Contents

(* Two of the five markers would be one if the set of them had fewer members.*)
LEMMA MarkersDiffer == Newcomer # Nothing
<1> SUFFICES ASSUME Newcomer = Nothing PROVE FALSE
  OBVIOUS
<1> DEFINE Four == {Nothing, Original, Directory, Half}
<1>1. {Nothing, Original, Directory, Newcomer, Half} = Four
  OBVIOUS
<1>2. IsFiniteSet({}) /\ Cardinality({}) = 0
  BY FS_EmptySet
<1>3. /\ IsFiniteSet({} \cup {Nothing})
      /\ Cardinality({} \cup {Nothing}) \in 0..1
  BY <1>2, FS_AddElement
<1>4. /\ IsFiniteSet({} \cup {Nothing} \cup {Original})
      /\ Cardinality({} \cup {Nothing} \cup {Original}) \in 0..2
  BY <1>3, FS_AddElement
<1>5. /\ IsFiniteSet({} \cup {Nothing} \cup {Original} \cup {Directory})
      /\ Cardinality({} \cup {Nothing} \cup {Original} \cup {Directory}) \in 0..3
  BY <1>4, FS_AddElement
<1>6. Cardinality({} \cup {Nothing} \cup {Original} \cup {Directory} \cup {Half})
        \in 0..4
  BY <1>5, FS_AddElement
<1>7. {} \cup {Nothing} \cup {Original} \cup {Directory} \cup {Half} = Four
  OBVIOUS
<1> QED BY <1>1, <1>6, <1>7, ContentsAssumption

-----------------------------------------------------------------------------
(* Every reachable state has its type.                                       *)
LEMMA TypeInit == Init => TypeOK
<1> SUFFICES ASSUME Init PROVE TypeOK
  OBVIOUS
<1>1. job \in Jobs /\ DOMAIN job = {1}
  <2>1. 1 \in 1..Files /\ {1} = 1..1
    BY FilesAssumption
  <2>2. job \in [1..1 -> Kinds]
    BY <2>1 DEF Init, Kinds
  <2> QED BY <2>1, <2>2 DEF Jobs
<1>2. disk \in [Paths -> Contents] /\ AllNothing \in [Paths -> Contents]
  BY DEF Init, Contents, AllNothing
<1>3. /\ command \in Commands \cup {Nothing} /\ used \subseteq Commands
      /\ existed \subseteq Paths /\ backedUp \subseteq Paths
      /\ committed \subseteq Paths /\ errors \in BOOLEAN
      /\ outcome \in Outcomes /\ pc \in Steps \cup {"idle"}
  BY DEF Init, Outcomes
<1>4. faults \in 0..MaxFaults /\ newcomers \in 0..MaxNewcomers
  BY BoundsAssumption DEF Init
<1>5. at \in DOMAIN job
  BY <1>1 DEF Init
<1> QED
  BY <1>1, <1>2, <1>3, <1>4, <1>5 DEF Init, TypeOK

LEMMA TypeNext == TypeOK /\ [Next]_vars => TypeOK'
<1> SUFFICES ASSUME TypeOK, [Next]_vars PROVE TypeOK'
  OBVIOUS
<1> USE SizeOfJob, BoundsAssumption, FilesAssumption, Markers DEF TypeOK, Paths
<1>0. /\ at \in 1..Size /\ at \in Nat /\ at \in Paths /\ Size \in Nat
      /\ command \in Contents
  BY DEF Contents
<1>1. ASSUME NEW c \in Commands, NEW changes \in Jobs, Start(c, changes)
      PROVE  TypeOK'
  <2>1. job' \in Jobs /\ at' = 1
    BY <1>1 DEF Start, Goto
  <2>2. 1 \in DOMAIN job'
    <3>1. PICK n \in 1..Files : job' \in [1..n -> Kinds]
      BY <2>1 DEF Jobs
    <3> QED BY <3>1
  <2>3. AllNothing \in [Paths -> Contents]
    BY DEF AllNothing
  <2> QED BY <1>1, <2>1, <2>2, <2>3 DEF Start, Goto, Outcomes, Steps
<1>2. CASE Look
  <2>1. at' \in 1..Size /\ pc' \in Steps
    BY <1>0, <1>2 DEF Look, Onward, Goto, Steps
  <2>2. existed' \subseteq Paths /\ before' \in [Paths -> Contents]
    BY <1>0, <1>2 DEF Look
  <2> QED BY <1>2, <2>1, <2>2 DEF Look, files
<1>3. CASE Preflight
  BY <1>0, <1>3 DEF Preflight, Onward, Goto, End, Fails, Fault, files, staged,
                    Steps, Outcomes
<1>4. CASE Stage
  <2>1. temp' \in [Paths -> Contents]
    BY <1>0, <1>4 DEF Stage, Contents
  <2>2. at' \in 1..Size /\ pc' \in Steps
    BY <1>0, <1>4 DEF Stage, RollBack, Onward, Goto, Steps
  <2>3. faults' \in 0..MaxFaults /\ outcome' \in Outcomes
    BY <1>4 DEF Stage, RollBack, Fails, Fault
  <2> QED BY <1>4, <2>1, <2>2, <2>3 DEF Stage, staged
<1>5. CASE BackUp
  <2>1. disk' \in [Paths -> Contents] /\ backup' \in [Paths -> Contents]
    BY <1>0, <1>5 DEF BackUp
  <2>2. backedUp' \subseteq Paths
    BY <1>0, <1>5 DEF BackUp
  <2>3. at' \in 1..Size /\ pc' \in Steps
    BY <1>0, <1>5 DEF BackUp, RollBack, Goto, Steps
  <2>4. faults' \in 0..MaxFaults /\ outcome' \in Outcomes
    BY <1>5 DEF BackUp, RollBack, Fails, Fault
  <2> QED BY <1>5, <2>1, <2>2, <2>3, <2>4 DEF BackUp
<1>6. CASE Publish
  <2>1. PICK overwrites \in BOOLEAN : PublishStep(overwrites)
    BY <1>6 DEF Publish
  <2>2. temp[at] \in Contents
    BY <1>0
  <2>3. disk' \in [Paths -> Contents] /\ temp' \in [Paths -> Contents]
    BY <1>0, <2>1, <2>2 DEF PublishStep, PublishAs
  <2>4. at' \in 1..Size /\ pc' \in Steps
    BY <1>0, <2>1 DEF PublishStep, PublishAs, RollBack, Onward, Goto, Steps
  <2>5. committed' \subseteq Paths
    BY <1>0, <2>1 DEF PublishStep, PublishAs
  <2>6. faults' \in 0..MaxFaults /\ outcome' \in Outcomes
    BY <2>1 DEF PublishStep, PublishAs, RollBack, Fails, Fault
  <2> QED BY <2>1, <2>3, <2>4, <2>5, <2>6 DEF PublishStep
<1>7. CASE Undo
  <2>1. disk' \in [Paths -> Contents]
    BY <1>7 DEF Undo, UndoOnly, Attempt
  <2>2. errors' \in BOOLEAN
    BY <1>7 DEF Undo, UndoOnly, Attempt
  <2>3. faults' \in 0..MaxFaults
    BY <1>7 DEF Undo, UndoOnly, Attempt, Fault
  <2> QED BY <1>7, <2>1, <2>2, <2>3 DEF Undo, UndoOnly, Goto, staged, Steps
<1>8. CASE PutBack
  <2>1. disk' \in [Paths -> Contents] /\ backup' \in [Paths -> Contents]
    BY <1>0, <1>8 DEF PutBack, PutBackOnly, Attempt
  <2>2. errors' \in BOOLEAN
    BY <1>8 DEF PutBack, PutBackOnly, Attempt
  <2>3. faults' \in 0..MaxFaults
    BY <1>8 DEF PutBack, PutBackOnly, Attempt, Fault
  <2> QED BY <1>8, <2>1, <2>2, <2>3 DEF PutBack, PutBackOnly, Goto, staged, Steps
<1>9. CASE Drop
  <2>1. temp' \in [Paths -> Contents]
    BY <1>9 DEF Drop, Attempt
  <2>2. errors' \in BOOLEAN
    BY <1>9 DEF Drop, Attempt
  <2>3. faults' \in 0..MaxFaults
    BY <1>9 DEF Drop, Attempt, Fault
  <2>4. /\ at' \in 1..Size
        /\ pc' \in Steps \cup {"idle"} /\ outcome' \in Outcomes
    BY <1>0, <1>9 DEF Drop, Goto, End, Steps, Outcomes
  <2> QED BY <1>9, <2>1, <2>2, <2>3, <2>4 DEF Drop, staged
<1>10. CASE CleanTemp
  <2>1. temp' \in [Paths -> Contents]
    BY <1>0, <1>10 DEF CleanTemp, Contents
  <2>2. at' \in 1..Size /\ pc' \in Steps \cup {"idle"}
    BY <1>0, <1>10 DEF CleanTemp, NextCleanup, Goto, End, Steps
  <2>3. faults' \in 0..MaxFaults
    BY <1>10 DEF CleanTemp, Fault
  <2>4. outcome' \in Outcomes
    BY <1>0, <1>10 DEF CleanTemp, NextCleanup, End, Outcomes
  <2> QED BY <1>10, <2>1, <2>2, <2>3, <2>4 DEF CleanTemp, staged
<1>11. CASE CleanBackup
  <2>1. backup' \in [Paths -> Contents]
    BY <1>0, <1>11 DEF CleanBackup, Contents
  <2>2. at' \in 1..Size /\ pc' \in Steps \cup {"idle"}
    BY <1>0, <1>11 DEF CleanBackup, NextCleanup, Goto, End, Steps
  <2>3. faults' \in 0..MaxFaults
    BY <1>11 DEF CleanBackup, Fault
  <2>4. outcome' \in Outcomes
    BY <1>0, <1>11 DEF CleanBackup, NextCleanup, End, Outcomes
  <2> QED BY <1>11, <2>1, <2>2, <2>3, <2>4 DEF CleanBackup, staged
<1>12. CASE Crash
  BY <1>0, <1>12 DEF Crash, Fault, Goto, End, files, staged, Outcomes
<1>13. ASSUME NEW p \in Paths, Appear(p) PROVE TypeOK'
  BY <1>13 DEF Appear, Contents, staged
<1>14. CASE UNCHANGED vars
  BY <1>14 DEF vars, files, staged
<1> QED
  BY <1>1, <1>2, <1>3, <1>4, <1>5, <1>6, <1>7, <1>8, <1>9, <1>10, <1>11,
     <1>12, <1>13, <1>14 DEF Next

(* Every reachable state has its type.                                       *)
THEOREM TypeCorrect == Spec => []TypeOK
  BY TypeInit, TypeNext, PTL DEF Spec

-----------------------------------------------------------------------------
(* The inductive invariant. While a transaction runs, a path at which a file *)
(* was seen is in one of three conditions: nothing has happened to it; its   *)
(* old content is in the backup; or the rollback has put it back.            *)
Undone(p) ==
  \/ pc \in {"undo", "putback"} /\ p > at
  \/ pc = "drop" /\ p >= at
  \/ pc = "idle"

Untouched(p) == p \notin backedUp /\ p \notin committed /\ disk[p] = before[p]
Aside(p) == p \in backedUp /\ backup[p] = before[p]
Returned(p) == p \in backedUp /\ disk[p] = before[p] /\ Undone(p)

Cleaning == pc \in {"cleanTemp", "cleanBackup"}

Safe == ~AllMade => \A p \in Looked :
          before[p] # Nothing => Untouched(p) \/ Aside(p) \/ Returned(p)

(* What a path was found to hold agrees with `existed`.                      *)
SeenAgrees ==
  pc # "idle" => \A p \in Looked : p \in existed <=> before[p] # Nothing

SeenBefore ==
  pc = "look" => /\ existed \subseteq 1..(at - 1)
                 /\ \A p \in Paths : p >= at => before[p] = Nothing

(* Changes are made in their order, each after its old file was moved aside. *)
InOrder ==
  /\ pc \in {"look", "preflight", "stage"} => committed = {} /\ backedUp = {}
  /\ pc \in {"backup", "publish"} => committed = 1..(at - 1)
  /\ pc = "publish" =>
       (at \in existed => at \in backedUp) /\ backedUp \subseteq 1..at
  /\ pc = "backup" => backedUp \subseteq 1..(at - 1)
  /\ Cleaning => AllMade

IInv == TypeOK /\ Safe /\ SeenAgrees /\ SeenBefore /\ InOrder

LEMMA InvInit == Init => IInv
<1> SUFFICES ASSUME Init PROVE IInv
  OBVIOUS
<1>1. TypeOK
  BY TypeInit
<1>2. before = AllNothing /\ Looked \subseteq Paths
  BY <1>1, SizeOfJob DEF Init, Looked, TypeOK
<1>3. Safe
  BY <1>2 DEF Safe, AllNothing
<1>4. SeenAgrees /\ SeenBefore
  BY DEF Init, SeenAgrees, SeenBefore
<1>5. InOrder
  <2>1. pc = "idle"
    BY DEF Init
  <2> QED BY <2>1 DEF InOrder, Cleaning
<1> QED BY <1>1, <1>3, <1>4, <1>5 DEF IInv

LEMMA InvSafe == IInv => OriginalsSurvive
  BY DEF IInv, Safe, Untouched, Aside, Returned, OriginalsSurvive

(* Every step keeps the order in which changes are made.                     *)
LEMMA OrderNext == IInv /\ [Next]_vars => InOrder'
<1> SUFFICES ASSUME IInv, [Next]_vars PROVE InOrder'
  OBVIOUS
<1> USE DEF InOrder, Cleaning
<1>0. /\ TypeOK /\ InOrder
      /\ at \in 1..Size /\ Size \in Nat \ {0} /\ DOMAIN job = 1..Size
  BY SizeOfJob, FilesAssumption DEF IInv, TypeOK
<1>1. ASSUME NEW c \in Commands, NEW changes \in Jobs, Start(c, changes)
      PROVE  InOrder'
  BY <1>1 DEF Start, Goto
<1>2. CASE Look
  BY <1>0, <1>2 DEF Look, Onward, Goto
<1>3. CASE Preflight
  BY <1>0, <1>3 DEF Preflight, Onward, Goto, End, staged
<1>4. CASE Stage
  <2>1. \/ pc' = "undo"
        \/ pc' = "stage"
        \/ pc' = "backup" /\ at' = 1
    BY <1>4 DEF Stage, RollBack, Onward, Goto
  <2>2. pc = "stage" /\ committed' = committed /\ backedUp' = backedUp
    BY <1>4 DEF Stage, staged
  <2>3. committed' = {} /\ backedUp' = {}
    BY <1>0, <2>2
  <2> QED BY <2>1, <2>3
<1>5. CASE BackUp
  <2>1. CASE pc' = "undo"
    BY <2>1
  <2>2. CASE pc' = "publish"
    <3>1. at' = at /\ committed' = committed /\ existed' = existed
      BY <1>5, <2>2 DEF BackUp, Goto, RollBack
    <3>2. (at \in existed => at \in backedUp') /\ backedUp' \subseteq 1..at
      BY <1>0, <1>5, <2>2 DEF BackUp, Goto, RollBack
    <3> QED BY <1>0, <1>5, <2>2, <3>1, <3>2 DEF BackUp
  <2> QED BY <1>5, <2>1, <2>2 DEF BackUp, RollBack, Goto
<1>6. CASE Publish
  <2>1. CASE pc' = "undo"
    BY <2>1
  <2>2. CASE pc' # "undo"
    <3>1. committed' = committed \cup {at} /\ job' = job /\ pc = "publish"
      BY <1>6, <2>2 DEF Publish, PublishStep, PublishAs, RollBack, Goto
    <3>2. \/ at < Size /\ pc' = "backup" /\ at' = at + 1
          \/ at = Size /\ pc' = "cleanTemp"
      BY <1>0, <1>6, <2>2
      DEF Publish, PublishStep, PublishAs, RollBack, Goto, Onward
    <3>3. committed' = 1..at
      BY <1>0, <3>1
    <3>4. CASE at < Size /\ pc' = "backup" /\ at' = at + 1
      <4>1. at' - 1 = at
        BY <1>0, <3>4
      <4>2. backedUp' = backedUp /\ existed' = existed
        BY <1>6 DEF Publish, PublishStep
      <4>3. backedUp \subseteq 1..at
        BY <1>0, <3>1
      <4> QED BY <3>3, <3>4, <4>1, <4>2, <4>3
    <3>5. CASE at = Size /\ pc' = "cleanTemp"
      BY <1>0, <3>1, <3>3, <3>5 DEF AllMade
    <3> QED BY <3>2, <3>4, <3>5
  <2> QED BY <2>1, <2>2
<1>7. CASE Undo \/ PutBack \/ Drop
  BY <1>7 DEF Undo, UndoOnly, PutBack, PutBackOnly, Drop, Goto, End
<1>8. CASE CleanTemp \/ CleanBackup
  <2>1. pc' \in {"cleanTemp", "cleanBackup", "idle"}
    BY <1>8 DEF CleanTemp, CleanBackup, NextCleanup, Goto, End
  <2>2. AllMade'
    BY <1>0, <1>8 DEF CleanTemp, CleanBackup, staged, AllMade
  <2> QED BY <2>1, <2>2
<1>9. CASE Crash
  BY <1>9 DEF Crash, End, Goto
<1>10. ASSUME NEW p \in Paths, Appear(p) PROVE InOrder'
  BY <1>0, <1>10 DEF Appear, staged, AllMade
<1>11. CASE UNCHANGED vars
  BY <1>0, <1>11 DEF vars, staged, AllMade
<1> QED
  BY <1>1, <1>2, <1>3, <1>4, <1>5, <1>6, <1>7, <1>8, <1>9, <1>10, <1>11
  DEF Next

(* Every step keeps what was seen in agreement with what was found.          *)
LEMMA SeenNext == IInv /\ [Next]_vars => SeenAgrees'
<1> SUFFICES ASSUME IInv, [Next]_vars, pc' # "idle",
                    NEW q \in Looked'
             PROVE  (q \in existed <=> before[q] # Nothing)'
  BY DEF SeenAgrees
<1>0. /\ TypeOK /\ SeenAgrees /\ SeenBefore
      /\ at \in 1..Size /\ Size \in Nat /\ DOMAIN job = 1..Size
  BY SizeOfJob, FilesAssumption DEF IInv, TypeOK
<1>1. ASSUME NEW c \in Commands, NEW changes \in Jobs, Start(c, changes)
      PROVE  (q \in existed <=> before[q] # Nothing)'
  BY <1>1 DEF Start, Goto, Looked
<1>2. CASE Look
  <2>1. at \in Paths /\ q \in 1..at
    BY <1>0, <1>2, SizeOfJob DEF Look, Onward, Goto, Looked, TypeOK
  <2>2. CASE q = at
    <3>1. before'[q] = disk[q]
      BY <1>0, <1>2, <2>1, <2>2 DEF Look, TypeOK
    <3>2. q \notin existed
      BY <1>0, <1>2, <2>2 DEF Look, SeenBefore
    <3>3. q \in existed' <=> disk[q] # Nothing
      BY <1>2, <2>2, <3>2 DEF Look
    <3> QED BY <3>1, <3>3
  <2>3. CASE q # at
    <3>1. q \in Looked /\ before'[q] = before[q]
      BY <1>0, <1>2, <2>1, <2>3 DEF Look, Looked, TypeOK
    <3> QED BY <1>0, <1>2, <2>3, <3>1 DEF Look, SeenAgrees
  <2> QED BY <2>2, <2>3
<1>3. ASSUME pc # "idle", pc # "look", pc' # "look",
             UNCHANGED <<job, existed, before>>
      PROVE  (q \in existed <=> before[q] # Nothing)'
  BY <1>0, <1>3 DEF Looked, SeenAgrees
<1>4. CASE Preflight \/ Stage
  BY <1>3, <1>4 DEF Preflight, Stage, RollBack, Onward, Goto, End, staged
<1>5. CASE BackUp
  BY <1>3, <1>5 DEF BackUp, RollBack, Goto
<1>6. CASE Publish
  BY <1>3, <1>6 DEF Publish, PublishStep, PublishAs, RollBack, Onward, Goto
<1>7. CASE Undo \/ PutBack \/ Drop
  BY <1>3, <1>7 DEF Undo, UndoOnly, PutBack, PutBackOnly, Drop, Goto, End, staged
<1>8. CASE CleanTemp \/ CleanBackup
  BY <1>3, <1>8 DEF CleanTemp, CleanBackup, NextCleanup, Goto, End, staged
<1>9. CASE Crash
  BY <1>9 DEF Crash, End, Goto
<1>10. ASSUME NEW p \in Paths, Appear(p)
       PROVE  (q \in existed <=> before[q] # Nothing)'
  BY <1>0, <1>10 DEF Appear, staged, Looked, SeenAgrees
<1>11. CASE UNCHANGED vars
  BY <1>0, <1>11 DEF vars, staged, Looked, SeenAgrees
<1> QED
  BY <1>1, <1>2, <1>4, <1>5, <1>6, <1>7, <1>8, <1>9, <1>10, <1>11 DEF Next

(* The paths seen so far are the ones already looked at.                     *)
LEMMA SeenBeforeNext == IInv /\ [Next]_vars => SeenBefore'
<1> SUFFICES ASSUME IInv, [Next]_vars, pc' = "look" PROVE SeenBefore'
  BY DEF SeenBefore
<1>0. /\ SeenBefore /\ at \in 1..Size /\ Size \in Nat /\ at \in Nat
      /\ before \in [Paths -> Contents]
  BY SizeOfJob, FilesAssumption DEF IInv, TypeOK
<1>1. ASSUME NEW c \in Commands, NEW changes \in Jobs, Start(c, changes)
      PROVE  SeenBefore'
  BY <1>1 DEF Start, SeenBefore, AllNothing
<1>2. CASE Look
  <2>1. at' = at + 1 /\ pc = "look"
    BY <1>2 DEF Look, Onward, Goto
  <2>2. existed' \subseteq 1..at
    BY <1>0, <1>2, <2>1 DEF Look, SeenBefore
  <2>3. at' - 1 = at
    BY <1>0, <2>1
  <2>4. \A p \in Paths : p >= at' => before'[p] = Nothing
    <3> SUFFICES ASSUME NEW p \in Paths, p >= at' PROVE before'[p] = Nothing
      OBVIOUS
    <3>1. p > at /\ p >= at
      BY <1>0, <2>1 DEF Paths
    <3> QED BY <1>0, <1>2, <2>1, <3>1 DEF Look, SeenBefore
  <2> QED BY <2>2, <2>3, <2>4 DEF SeenBefore
<1>3. CASE \E p \in Paths : Appear(p)
  BY <1>0, <1>3 DEF Appear, staged, SeenBefore
<1>4. CASE UNCHANGED vars
  BY <1>0, <1>4 DEF vars, staged, SeenBefore
<1>5. ~(Preflight \/ Stage)
  BY DEF Preflight, Stage, RollBack, Onward, Goto, End
<1>6. ~BackUp
  BY DEF BackUp, RollBack, Goto
<1>7. ~Publish
  BY DEF Publish, PublishStep, PublishAs, RollBack, Onward, Goto
<1>8. ~(Undo \/ PutBack \/ Drop)
  BY DEF Undo, UndoOnly, PutBack, PutBackOnly, Drop, Goto, End
<1>9. ~(CleanTemp \/ CleanBackup \/ Crash)
  BY DEF CleanTemp, CleanBackup, NextCleanup, Crash, Goto, End
<1> QED BY <1>1, <1>2, <1>3, <1>4, <1>5, <1>6, <1>7, <1>8, <1>9 DEF Next

(* A path keeps its condition in a step that leaves it alone and does not    *)
(* take the rollback back.                                                   *)
Kept(p) == Untouched(p) \/ Aside(p) \/ Returned(p)

LEMMA KeptAlone ==
  ASSUME NEW p, Kept(p), Undone(p) => Undone(p)',
         UNCHANGED <<before, backedUp, committed>>,
         before[p] # Nothing,
         disk[p] # Nothing => disk'[p] = disk[p], backup'[p] = backup[p]
  PROVE  Kept(p)'
<1>1. CASE Untouched(p)
  BY <1>1 DEF Kept, Untouched
<1>2. CASE Aside(p)
  BY <1>2 DEF Kept, Aside
<1>3. CASE Returned(p)
  BY <1>3 DEF Kept, Returned
<1> QED BY <1>1, <1>2, <1>3 DEF Kept

(* Every step keeps each path it looked at in one of the three conditions.   *)
LEMMA SafeNext == IInv /\ [Next]_vars => Safe'
<1> SUFFICES ASSUME IInv, [Next]_vars, ~AllMade', NEW q \in Looked',
                    before'[q] # Nothing
             PROVE  Kept(q)'
  BY DEF Safe, Kept
<1>0. /\ TypeOK /\ Safe /\ SeenAgrees /\ SeenBefore /\ InOrder
      /\ at \in 1..Size /\ Size \in Nat /\ DOMAIN job = 1..Size
      /\ 1..Size \subseteq Paths /\ at \in Paths
  BY SizeOfJob, FilesAssumption DEF IInv, TypeOK
<1>1. ASSUME NEW c \in Commands, NEW changes \in Jobs, Start(c, changes)
      PROVE  Kept(q)'
  BY <1>1 DEF Start, Goto, Looked
<1>2. CASE Look
  <2>1. q \in 1..at /\ pc = "look" /\ committed = {} /\ backedUp = {}
    BY <1>0, <1>2 DEF Look, Onward, Goto, Looked, InOrder
  <2>2. before'[q] = disk[q]
    <3>1. CASE q = at
      BY <1>0, <1>2, <3>1 DEF Look, TypeOK
    <3>2. CASE q # at
      <4>1. q \in Looked /\ before'[q] = before[q]
        BY <1>0, <1>2, <2>1, <3>2 DEF Look, Looked, TypeOK
      <4>2. ~AllMade
        BY <1>0, <2>1 DEF AllMade
      <4>3. Untouched(q)
        BY <1>0, <2>1, <4>1, <4>2 DEF Safe, Aside, Returned
      <4> QED BY <4>1, <4>3 DEF Untouched
    <3> QED BY <3>1, <3>2
  <2> QED BY <1>2, <2>1, <2>2 DEF Look, files, Kept, Untouched
(* In the steps after the look, the paths looked at stay the same.           *)
<1>3. ASSUME pc # "look", pc' # "look", UNCHANGED <<job, before>>,
             AllMade => committed' = committed
      PROVE  q \in 1..Size /\ q \in Looked /\ before[q] # Nothing /\ Kept(q)
  <2>1. q \in Looked /\ before[q] # Nothing /\ q \in 1..Size
    BY <1>0, <1>3 DEF Looked
  <2>2. ~AllMade
    BY <1>3 DEF AllMade
  <2> QED BY <1>0, <2>1, <2>2 DEF Safe, Kept
(* Steps that touch neither the files at the paths nor what is known of them.*)
<1>4. ASSUME pc # "look", pc' # "look",
             UNCHANGED <<disk, backup, job, before, backedUp, committed>>,
             \A p \in 1..Size : Undone(p) => Undone(p)'
      PROVE  Kept(q)'
  <2>1. q \in 1..Size /\ before[q] # Nothing /\ Kept(q)
    BY <1>3, <1>4
  <2> QED BY <1>4, <2>1, KeptAlone
<1>5. CASE Preflight
  BY <1>4, <1>5 DEF Preflight, Onward, Goto, End, files, staged, Undone
<1>6. CASE Stage
  BY <1>4, <1>6 DEF Stage, RollBack, Onward, Goto, staged, Undone
<1>7. CASE BackUp
  <2>1. /\ pc = "backup" /\ pc' # "look" /\ pc' # "idle" /\ pc # "look"
        /\ UNCHANGED <<job, before, committed>>
    BY <1>7 DEF BackUp, RollBack, Goto
  <2>2. q \in 1..Size /\ q \in Looked /\ before[q] # Nothing /\ Kept(q)
    BY <1>3, <2>1
  <2>3. ~Undone(q)
    BY <2>1 DEF Undone
  <2>4. CASE UNCHANGED <<disk, backup, backedUp>>
    BY <2>1, <2>2, <2>3, <2>4, KeptAlone
  <2>5. CASE /\ backup' = [backup EXCEPT ![at] = disk[at]]
             /\ disk' = [disk EXCEPT ![at] = Nothing]
             /\ backedUp' = backedUp \cup {at}
    <3>1. CASE q = at
      <4>1. at \notin backedUp
        BY <1>0, <2>1 DEF InOrder
      <4>2. disk[q] = before[q]
        BY <2>2, <3>1, <4>1 DEF Kept, Untouched, Aside, Returned
      <4> QED BY <1>0, <2>1, <2>5, <3>1, <4>2 DEF Kept, Aside, TypeOK
    <3>2. CASE q # at
      <4>1. disk'[q] = disk[q] /\ backup'[q] = backup[q]
        BY <1>0, <2>2, <2>5, <3>2 DEF TypeOK
      <4> QED
        BY <2>1, <2>2, <2>3, <2>5, <3>2, <4>1
        DEF Kept, Untouched, Aside, Returned
    <3> QED BY <3>1, <3>2
  <2> QED BY <1>7, <2>4, <2>5 DEF BackUp
<1>8. CASE Publish
  <2>1. /\ pc = "publish" /\ pc' # "look" /\ pc # "look"
        /\ UNCHANGED <<job, before, backup, backedUp, existed>>
    BY <1>8 DEF Publish, PublishStep, PublishAs, RollBack, Goto, Onward
  <2>2. \/ committed' = committed /\ disk' = disk
        \/ /\ committed' = committed \cup {at}
           /\ disk' = disk \/ disk' = [disk EXCEPT ![at] = temp[at]]
    BY <1>8 DEF Publish, PublishStep, PublishAs
  <2>3. q \in 1..Size /\ q \in Looked /\ before[q] # Nothing /\ Kept(q)
    BY <1>0, <1>3, <2>1, <2>2 DEF AllMade
  <2>4. ~Undone(q)
    BY <2>1 DEF Undone
  <2>5. CASE q = at
    <3>1. at \in backedUp
      BY <1>0, <2>1, <2>3, <2>5 DEF InOrder, SeenAgrees
    <3> QED BY <2>1, <2>3, <2>4, <2>5, <3>1
        DEF Kept, Untouched, Aside, Returned
  <2>6. CASE q # at
    <3>1. disk'[q] = disk[q] /\ (q \in committed' <=> q \in committed)
      BY <1>0, <2>2, <2>3, <2>6 DEF TypeOK
    <3> QED BY <2>1, <2>3, <2>4, <2>6, <3>1
        DEF Kept, Untouched, Aside, Returned
  <2> QED BY <2>5, <2>6
<1>9. CASE Undo
  <2>1. /\ pc = "undo" /\ pc' = "putback" /\ at' = at
        /\ UNCHANGED <<job, before, backup, backedUp, committed>>
    BY <1>9 DEF Undo, UndoOnly, Goto, staged
  <2>2. \/ disk' = disk
        \/ disk' = [disk EXCEPT ![at] = Nothing] /\ at \in committed
    BY <1>9 DEF Undo, UndoOnly, Attempt
  <2>3. q \in 1..Size /\ before[q] # Nothing /\ Kept(q)
    BY <1>3, <2>1
  <2>4. Undone(q) => Undone(q)'
    BY <1>0, <2>1 DEF Undone
  <2>5. CASE disk'[q] = disk[q]
    BY <2>1, <2>3, <2>4, <2>5, KeptAlone
  <2>6. CASE disk'[q] # disk[q]
    <3>1. q = at /\ at \in committed
      BY <1>0, <2>2, <2>3, <2>6 DEF TypeOK
    <3>2. ~Undone(at)
      BY <1>0, <2>1 DEF Undone
    <3> QED BY <2>1, <2>3, <3>1, <3>2 DEF Kept, Untouched, Aside, Returned
  <2> QED BY <2>5, <2>6
<1>10. CASE PutBack
  <2>1. /\ pc = "putback" /\ pc' = "drop" /\ at' = at
        /\ UNCHANGED <<job, before, backedUp, committed>>
    BY <1>10 DEF PutBack, PutBackOnly, Goto, staged
  <2>2. \/ disk' = disk /\ backup' = backup
        \/ /\ at \in backedUp
           /\ disk' = [disk EXCEPT ![at] = backup[at]]
           /\ backup' = [backup EXCEPT ![at] = Nothing]
    BY <1>10 DEF PutBack, PutBackOnly, Attempt
  <2>3. q \in 1..Size /\ before[q] # Nothing /\ Kept(q)
    BY <1>3, <2>1
  <2>4. Undone(q) => Undone(q)'
    BY <1>0, <2>1, <2>3 DEF Undone
  <2>5. CASE disk'[q] = disk[q] /\ backup'[q] = backup[q]
    BY <2>1, <2>3, <2>4, <2>5, KeptAlone
  <2>6. CASE ~(disk'[q] = disk[q] /\ backup'[q] = backup[q])
    <3>1. q = at /\ at \in backedUp
      BY <1>0, <2>2, <2>3, <2>6 DEF TypeOK
    <3>2. ~Undone(at)
      BY <1>0, <2>1 DEF Undone
    <3>3. backup[q] = before[q]
      BY <2>3, <3>1, <3>2 DEF Kept, Untouched, Aside, Returned
    <3>4. disk'[q] = backup[q]
      BY <1>0, <2>2, <2>6, <3>1 DEF TypeOK
    <3>5. Undone(q)'
      BY <1>0, <2>1, <3>1 DEF Undone
    <3> QED BY <2>1, <3>1, <3>3, <3>4, <3>5 DEF Kept, Returned
  <2> QED BY <2>5, <2>6
<1>11. CASE Drop
  <2>1. \A p \in 1..Size : Undone(p) => Undone(p)'
    BY <1>0, <1>11 DEF Drop, Goto, End, Undone
  <2> QED BY <1>4, <1>11, <2>1 DEF Drop, Goto, End, staged
<1>12. CASE CleanTemp \/ CleanBackup
  <2>1. AllMade'
    BY <1>0, <1>12 DEF CleanTemp, CleanBackup, staged, InOrder, Cleaning, AllMade
  <2> QED BY <2>1
(* The process dies: afterwards nothing more is promised of a path that was  *)
(* not looked at, and the others keep their condition.                       *)
<1>13. CASE Crash
  <2>1. pc' = "idle" /\ UNCHANGED <<files, job, staged, before>>
    BY <1>13 DEF Crash, End, Goto
  <2>2. ~AllMade
    BY <2>1 DEF AllMade, staged
  <2>3. CASE q \in Looked
    BY <1>0, <2>1, <2>2, <2>3, KeptAlone
    DEF files, staged, Undone, Safe, Kept
  <2>4. CASE q \notin Looked
    <3>1. pc = "look" /\ q >= at
      BY <1>0, <2>1, <2>4 DEF Looked
    <3> QED BY <1>0, <2>1, <3>1 DEF Looked, SeenBefore
  <2> QED BY <2>3, <2>4
<1>14. ASSUME NEW p \in Paths, Appear(p) PROVE Kept(q)'
  <2>1. /\ disk[p] = Nothing /\ disk' = [disk EXCEPT ![p] = Newcomer]
        /\ UNCHANGED <<backup, job, staged, before, pc, at>>
    BY <1>14 DEF Appear
  <2>2. q \in Looked /\ before[q] # Nothing /\ ~AllMade
    BY <2>1 DEF Looked, AllMade, staged
  <2>3. Kept(q)
    BY <1>0, <2>2 DEF Safe, Kept
  <2>4. disk[q] # Nothing => disk'[q] = disk[q]
    BY <1>0, <2>1 DEF TypeOK
  <2> QED BY <2>1, <2>2, <2>3, <2>4, KeptAlone DEF staged, Undone
<1>15. CASE UNCHANGED vars
  <2>1. q \in Looked /\ before[q] # Nothing /\ ~AllMade
    BY <1>15 DEF Looked, AllMade, vars, staged
  <2> QED BY <1>0, <1>15, <2>1, KeptAlone
      DEF vars, files, staged, Undone, Safe, Kept
<1> QED
  BY <1>1, <1>2, <1>5, <1>6, <1>7, <1>8, <1>9, <1>10, <1>11, <1>12, <1>13,
     <1>14, <1>15 DEF Next

(* IInv is inductive.                                                        *)
LEMMA InvNext == IInv /\ [Next]_vars => IInv'
  BY TypeNext, OrderNext, SeenNext, SeenBeforeNext, SafeNext DEF IInv

(* However many paths a command changes and however often a call fails, the  *)
(* process dies or another program creates a file: until all changes are     *)
(* made, the old content of every path the transaction looked at is at the   *)
(* path or in its backup.                                                    *)
THEOREM OldContentSurvives == Spec => []OriginalsSurvive
  BY InvInit, InvNext, InvSafe, PTL DEF Spec

-----------------------------------------------------------------------------
(* All or nothing. The stronger invariant says of every path, for every step *)
(* of the transaction, what has been done at it.                             *)

(* What the transaction has done at a path: nothing; moved its file aside;   *)
(* made its change, so that the old file is in the backup if there was one.  *)
Fresh(p) ==
  Now(p, before[p]) /\ backup[p] = Nothing /\ p \notin backedUp /\ p \notin committed

Moved(p) ==
  /\ p \in existed /\ p \in backedUp /\ p \notin committed
  /\ backup[p] = before[p]
  /\ disk[p] \in {Nothing, Newcomer}

Made(p) ==
  /\ p \in committed
  /\ Now(p, Wanted(p))
  /\ job[p] = "create" /\ p \notin existed => disk[p] = command
  /\ p \in existed => p \in backedUp /\ backup[p] = before[p]
  /\ p \notin existed => /\ p \notin backedUp /\ backup[p] = Nothing
                         /\ before[p] = Nothing /\ job[p] # "remove"

Recoverable(p) == Fresh(p) \/ Moved(p) \/ Made(p)

(* What is ready to be published; what a removal has been checked for.       *)
Ready(p) == job[p] # "remove" => temp[p] = command
Removable(p) == job[p] = "remove" => p \in existed

(* What the rollback has done at a path.                                     *)
Undid(p) ==
  IF p \in backedUp THEN backup[p] = before[p]
  ELSE Now(p, before[p]) /\ backup[p] = Nothing
Restored(p) == Now(p, before[p]) /\ backup[p] = Nothing
Clean(p) == Restored(p) /\ temp[p] = Nothing

(* How the transaction left a path.                                          *)
Settled(p) ==
  /\ outcome = "done" => Now(p, Wanted(p))
  /\ outcome = "refused" => Now(p, before[p])
  /\ outcome = "restored" => Clean(p)

Progress(p) ==
  /\ pc = "look" => backup[p] = Nothing /\ (p < at => Now(p, before[p]))
  /\ pc = "preflight" => Fresh(p) /\ (p < at => Removable(p))
  /\ pc = "stage" => Fresh(p) /\ Removable(p) /\ (p < at => Ready(p))
  /\ pc = "backup" =>
       /\ Removable(p)
       /\ p < at => Made(p)
       /\ p >= at => Fresh(p) /\ Ready(p)
  /\ pc = "publish" =>
       /\ Removable(p)
       /\ p < at => Made(p)
       /\ p >= at => Ready(p)
       /\ p > at \/ (p = at /\ p \notin existed) => Fresh(p)
       /\ p = at /\ p \in existed => Moved(p)
  /\ pc \in {"undo", "putback", "drop"} =>
       /\ p < at \/ (p = at /\ pc = "undo") => Recoverable(p)
       /\ p > at => errors \/ Clean(p)
       /\ p = at /\ pc = "putback" => errors \/ Undid(p)
       /\ p = at /\ pc = "drop" => errors \/ Restored(p)
  /\ Cleaning => Now(p, Wanted(p))
  /\ pc = "idle" => Settled(p)

Steady ==
  /\ pc # "idle" => outcome = "none"
  /\ backedUp \subseteq existed
  /\ command = Nothing => pc = "idle" /\ outcome = "none"

AInv == Steady /\ \A p \in DOMAIN job : Progress(p)

LEMMA AllInit == Init => AInv
<1> SUFFICES ASSUME Init PROVE AInv
  OBVIOUS
<1>1. pc = "idle" /\ outcome = "none" /\ backedUp = {}
  BY DEF Init
<1> QED BY <1>1 DEF AInv, Steady, Progress, Settled, Cleaning

LEMMA AllSafe == AInv /\ TypeOK => AllOrNothing
<1> SUFFICES ASSUME AInv, TypeOK PROVE AllOrNothing
  OBVIOUS
<1>1. CASE pc = "idle"
  BY <1>1 DEF AInv, Progress, Settled, Clean, Restored, AllOrNothing
<1>2. CASE pc # "idle"
  BY <1>2 DEF AInv, Steady, AllOrNothing
<1> QED BY <1>1, <1>2

(* A step that leaves a path alone leaves it in its condition.               *)
LEMMA LeftAlone ==
  ASSUME NEW q,
         UNCHANGED <<command, job, before, existed>>,
         disk'[q] = disk[q], backup'[q] = backup[q],
         q \in backedUp' <=> q \in backedUp,
         q \in committed' <=> q \in committed
  PROVE  /\ Fresh(q)' <=> Fresh(q)
         /\ Moved(q)' <=> Moved(q)
         /\ Made(q)' <=> Made(q)
         /\ Recoverable(q)' <=> Recoverable(q)
         /\ Undid(q)' <=> Undid(q)
         /\ Restored(q)' <=> Restored(q)
         /\ Removable(q)' <=> Removable(q)
         /\ Now(q, Wanted(q))' <=> Now(q, Wanted(q))
         /\ Now(q, before[q])' <=> Now(q, before[q])
         /\ temp'[q] = temp[q] =>
              (Ready(q)' <=> Ready(q)) /\ (Clean(q)' <=> Clean(q))
<1>1. /\ Now(q, Wanted(q))' <=> Now(q, Wanted(q))
      /\ Now(q, before[q])' <=> Now(q, before[q])
      /\ Wanted(q)' = Wanted(q)
  BY DEF Now, Wanted
<1>2. /\ Fresh(q)' <=> Fresh(q)
      /\ Undid(q)' <=> Undid(q)
      /\ Restored(q)' <=> Restored(q)
  BY <1>1 DEF Fresh, Undid, Restored
<1>3. (Moved(q)' <=> Moved(q)) /\ (Removable(q)' <=> Removable(q))
  BY DEF Moved, Removable
<1>4. Made(q)' <=> Made(q)
  BY <1>1 DEF Made
<1>5. temp'[q] = temp[q] =>
        (Ready(q)' <=> Ready(q)) /\ (Clean(q)' <=> Clean(q))
  BY <1>2 DEF Ready, Clean
<1> QED BY <1>1, <1>2, <1>3, <1>4, <1>5 DEF Recoverable

(* A file that another program creates where there is none changes no        *)
(* condition: it counts as nothing, and a change that was made left a file.  *)
LEMMA AppearAlone ==
  ASSUME TypeOK, NEW p \in Paths, Appear(p), NEW q \in Paths
  PROVE  /\ Fresh(q) => Fresh(q)'
         /\ Moved(q) => Moved(q)'
         /\ Made(q) /\ command \in Commands => Made(q)'
         /\ Undid(q) => Undid(q)'
         /\ Restored(q) => Restored(q)'
         /\ Removable(q) => Removable(q)'
         /\ Ready(q) => Ready(q)'
         /\ Clean(q) => Clean(q)'
         /\ Now(q, Wanted(q)) => Now(q, Wanted(q))'
         /\ Now(q, before[q]) => Now(q, before[q])'
<1>1. /\ disk[p] = Nothing /\ disk' = [disk EXCEPT ![p] = Newcomer]
      /\ UNCHANGED <<temp, backup, command, job, before, existed, backedUp,
                     committed>>
  BY DEF Appear, staged
<1>2. \/ disk'[q] = disk[q]
      \/ disk[q] = Nothing /\ disk'[q] = Newcomer
  BY <1>1 DEF TypeOK
<1>3. Wanted(q)' = Wanted(q)
  BY <1>1 DEF Wanted
<1>4. /\ Now(q, Wanted(q)) => Now(q, Wanted(q))'
      /\ Now(q, before[q]) => Now(q, before[q])'
  BY <1>1, <1>2, <1>3 DEF Now
<1>5. /\ Fresh(q) => Fresh(q)'
      /\ Undid(q) => Undid(q)'
      /\ Restored(q) => Restored(q)'
  BY <1>1, <1>4 DEF Fresh, Undid, Restored
<1>6. Moved(q) => Moved(q)'
  BY <1>1, <1>2 DEF Moved
<1>7. /\ Removable(q) => Removable(q)'
      /\ Ready(q) => Ready(q)'
      /\ Clean(q) => Clean(q)'
  BY <1>1, <1>5 DEF Removable, Ready, Clean
<1>8. ASSUME Made(q), command \in Commands PROVE Made(q)'
  <2>1. job[q] = "create" /\ q \notin existed => disk'[q] = command
    <3>1. command # Nothing
      BY <1>8, ContentsAssumption
    <3> QED BY <1>2, <1>8, <3>1 DEF Made
  <2> QED BY <1>1, <1>4, <1>8, <2>1 DEF Made
<1> QED BY <1>4, <1>5, <1>6, <1>7, <1>8

(* Every step keeps the history of a transaction as the invariant has it.    *)
LEMMA SteadyNext == AInv /\ IInv /\ [Next]_vars => Steady'
<1> SUFFICES ASSUME AInv, IInv, [Next]_vars PROVE Steady'
  OBVIOUS
<1>0. Steady /\ TypeOK
  BY DEF AInv, IInv
<1>1. ASSUME NEW c \in Commands, NEW changes \in Jobs, Start(c, changes)
      PROVE  Steady'
  BY <1>1, ContentsAssumption DEF Start, Goto, Steady
<1>2. ASSUME pc # "idle",
             UNCHANGED <<command, backedUp>>, existed \subseteq existed',
             outcome' = outcome \/ pc' = "idle"
      PROVE  Steady'
  BY <1>0, <1>2 DEF Steady
<1>3. CASE Look
  BY <1>2, <1>3 DEF Look, Onward, Goto
<1>4. CASE Preflight \/ Stage
  BY <1>2, <1>4 DEF Preflight, Stage, RollBack, Onward, Goto, End, staged
<1>5. CASE BackUp
  <2>1. backedUp' \subseteq existed /\ existed' = existed
    BY <1>0, <1>5 DEF BackUp, Steady
  <2>2. pc # "idle" /\ outcome' = outcome /\ command' = command
    BY <1>5 DEF BackUp, RollBack, Goto
  <2> QED BY <1>0, <2>1, <2>2 DEF Steady
<1>6. CASE Publish
  BY <1>2, <1>6 DEF Publish, PublishStep, PublishAs, RollBack, Onward, Goto
<1>7. CASE Undo \/ PutBack \/ Drop
  BY <1>2, <1>7 DEF Undo, UndoOnly, PutBack, PutBackOnly, Drop, Goto, End, staged
<1>8. CASE CleanTemp \/ CleanBackup
  BY <1>2, <1>8 DEF CleanTemp, CleanBackup, NextCleanup, Goto, End, staged
<1>9. CASE Crash
  BY <1>2, <1>9 DEF Crash, Goto, End, staged
<1>10. ASSUME NEW p \in Paths, Appear(p) PROVE Steady'
  BY <1>0, <1>10 DEF Appear, staged, Steady
<1>11. CASE UNCHANGED vars
  BY <1>0, <1>11 DEF vars, staged, Steady
<1> QED
  BY <1>1, <1>3, <1>4, <1>5, <1>6, <1>7, <1>8, <1>9, <1>10, <1>11 DEF Next

(* The steps up to the first file that moves: every path is as it was.       *)
LEMMA ProgressBefore ==
  ASSUME AInv, IInv, Look \/ Preflight \/ Stage, NEW q \in DOMAIN job
  PROVE  Progress(q)'
<1>0. /\ TypeOK /\ Steady /\ Progress(q) /\ at \in 1..Size /\ Size \in Nat
      /\ DOMAIN job = 1..Size /\ q \in 1..Size /\ q \in Paths /\ q \in Nat
      /\ at \in Paths /\ at \in Nat
  BY SizeOfJob, FilesAssumption DEF AInv, IInv, TypeOK, Paths
<1>1. CASE Look
  <2>1. /\ UNCHANGED <<disk, backup, job, committed, backedUp>>
        /\ pc = "look"
        /\ before' = [before EXCEPT ![at] = disk[at]]
    BY <1>1 DEF Look, files
  <2>2. backup'[q] = Nothing /\ q \notin backedUp' /\ q \notin committed'
    BY <1>0, <2>1 DEF Progress, IInv, InOrder
  <2>3. q <= at => Now(q, before[q])'
    <3>1. CASE q = at
      <4>1. before'[q] = disk'[q]
        BY <1>0, <2>1, <3>1 DEF TypeOK
      <4> QED BY <4>1 DEF Now
    <3>2. CASE q < at
      <4>1. before'[q] = before[q]
        BY <1>0, <2>1, <3>2 DEF TypeOK
      <4>2. Now(q, before[q])
        BY <1>0, <2>1, <3>2 DEF Progress
      <4> QED BY <2>1, <4>1, <4>2 DEF Now
    <3> QED BY <1>0, <3>1, <3>2
  <2>4. CASE at < Size /\ pc' = "look" /\ at' = at + 1
    <3>1. q < at' => q <= at
      BY <1>0, <2>4
    <3> QED BY <2>2, <2>3, <2>4, <3>1 DEF Progress, Cleaning
  <2>5. CASE at = Size /\ pc' = "preflight" /\ at' = 1
    <3>1. q <= at /\ ~(q < 1)
      BY <1>0, <2>5
    <3>2. Fresh(q)'
      BY <2>2, <2>3, <3>1 DEF Fresh
    <3> QED BY <2>5, <3>1, <3>2 DEF Progress, Cleaning
  <2> QED BY <1>0, <1>1, <2>4, <2>5 DEF Look, Onward, Goto
<1>2. CASE Preflight
  <2>1. /\ pc = "preflight"
        /\ UNCHANGED <<disk, temp, backup, command, job, before, existed,
                       backedUp, committed>>
    BY <1>2 DEF Preflight, files, staged
  <2>2. Fresh(q) /\ (q < at => Removable(q))
    BY <1>0, <2>1 DEF Progress
  <2>3. Fresh(q)' /\ (Removable(q)' <=> Removable(q)) /\ Now(q, before[q])'
    BY <2>1, <2>2, LeftAlone DEF Fresh
  <2>4. CASE pc' = "idle" /\ outcome' = "refused"
    BY <2>3, <2>4 DEF Progress, Settled, Cleaning
  <2>5. CASE ~(pc' = "idle" /\ outcome' = "refused")
    <3>1. /\ Onward("preflight", "stage")
          /\ ~(job[at] = "remove" /\ at \notin existed)
      BY <1>2, <2>5 DEF Preflight, End, Goto
    <3>2. q <= at => Removable(q)'
      BY <1>0, <2>2, <2>3, <3>1 DEF Removable
    <3>3. CASE at < Size /\ pc' = "preflight" /\ at' = at + 1
      <4>1. q < at' => q <= at
        BY <1>0, <3>3
      <4> QED BY <2>3, <3>2, <3>3, <4>1 DEF Progress, Cleaning
    <3>4. CASE at = Size /\ pc' = "stage" /\ at' = 1
      <4>1. q <= at /\ ~(q < at')
        BY <1>0, <3>4
      <4> QED BY <2>3, <3>2, <3>4, <4>1 DEF Progress, Cleaning
    <3> QED BY <1>0, <3>1, <3>3, <3>4 DEF Onward, Goto
  <2> QED BY <2>4, <2>5
<1>3. CASE Stage
  <2>1. /\ pc = "stage"
        /\ UNCHANGED <<disk, backup, command, job, before, existed, backedUp,
                       committed>>
    BY <1>3 DEF Stage, staged
  <2>2. Fresh(q) /\ Removable(q) /\ (q < at => Ready(q))
    BY <1>0, <2>1 DEF Progress
  <2>3. Fresh(q)' /\ Removable(q)'
    BY <2>1, <2>2, LeftAlone
  <2>4. CASE pc' = "undo" /\ at' = Size
    <3>1. ~(q > at')
      BY <1>0, <2>4
    <3> QED BY <2>3, <2>4, <3>1 DEF Progress, Recoverable, Cleaning
  <2>5. CASE /\ temp' = IF job[at] = "remove" THEN temp
                        ELSE [temp EXCEPT ![at] = command]
             /\ Onward("stage", "backup")
    <3>1. q <= at => Ready(q)'
      <4>1. CASE q = at
        BY <1>0, <2>1, <2>5, <4>1 DEF Ready, TypeOK
      <4>2. CASE q < at
        <5>1. temp'[q] = temp[q]
          BY <1>0, <2>5, <4>2 DEF TypeOK
        <5> QED BY <2>1, <2>2, <4>2, <5>1 DEF Ready
      <4> QED BY <1>0, <4>1, <4>2
    <3>2. CASE at < Size /\ pc' = "stage" /\ at' = at + 1
      <4>1. q < at' => q <= at
        BY <1>0, <3>2
      <4> QED BY <2>3, <3>1, <3>2, <4>1 DEF Progress, Cleaning
    <3>3. CASE at = Size /\ pc' = "backup" /\ at' = 1
      <4>1. q <= at /\ ~(q < at')
        BY <1>0, <3>3
      <4> QED BY <2>3, <3>1, <3>3, <4>1 DEF Progress, Cleaning
    <3> QED BY <1>0, <2>5, <3>2, <3>3 DEF Onward, Goto
  <2> QED BY <1>3, <2>4, <2>5 DEF Stage, RollBack, Goto
<1> QED BY <1>1, <1>2, <1>3

(* The steps that make the changes: each path is fresh, then moved aside,    *)
(* then made; a failing call sends them to the rollback as they are.         *)
LEMMA ProgressMaking ==
  ASSUME AInv, IInv, BackUp \/ Publish, NEW q \in DOMAIN job
  PROVE  Progress(q)'
<1>0. /\ TypeOK /\ Steady /\ Progress(q) /\ at \in 1..Size /\ Size \in Nat
      /\ DOMAIN job = 1..Size /\ q \in 1..Size /\ q \in Paths /\ q \in Nat
      /\ at \in Paths /\ at \in Nat
  BY SizeOfJob, FilesAssumption DEF AInv, IInv, TypeOK, Paths
<1>1. CASE BackUp
  <2>1. /\ pc = "backup"
        /\ UNCHANGED <<temp, command, job, existed, committed, before>>
    BY <1>1 DEF BackUp
  <2>2. /\ Removable(q) /\ (q < at => Made(q))
        /\ q >= at => Fresh(q) /\ Ready(q)
    BY <1>0, <2>1 DEF Progress
  <2>3. CASE pc' = "undo" /\ at' = Size /\ UNCHANGED <<disk, backup, backedUp>>
    <3>1. Recoverable(q)
      BY <1>0, <2>2 DEF Recoverable
    <3>2. Recoverable(q)' /\ ~(q > at')
      BY <1>0, <2>1, <2>3, <3>1, LeftAlone
    <3> QED BY <2>3, <3>2 DEF Progress, Cleaning
  <2>4. CASE /\ at \in existed
             /\ backup' = [backup EXCEPT ![at] = disk[at]]
             /\ disk' = [disk EXCEPT ![at] = Nothing]
             /\ backedUp' = backedUp \cup {at}
             /\ disk[at] # Nothing
             /\ pc' = "publish" /\ at' = at
    <3>1. CASE q = at
      <4>1. before[q] # Nothing
        BY <1>0, <2>1, <2>4, <3>1 DEF IInv, SeenAgrees, Looked
      <4>2. disk[q] = before[q]
        BY <1>0, <2>2, <2>4, <3>1, <4>1 DEF Fresh, Now
      <4>3. disk'[q] = Nothing /\ backup'[q] = before[q]
        BY <1>0, <2>4, <3>1, <4>2 DEF TypeOK
      <4>4. q \notin committed
        BY <1>0, <2>2, <3>1 DEF Fresh
      <4>5. Moved(q)'
        BY <2>1, <2>4, <3>1, <4>3, <4>4 DEF Moved
      <4>6. Ready(q)' /\ Removable(q)'
        BY <1>0, <2>1, <2>2, <3>1 DEF Ready, Removable
      <4> QED BY <1>0, <2>1, <2>4, <3>1, <4>5, <4>6 DEF Progress, Cleaning
    <3>2. CASE q # at
      <4>1. disk'[q] = disk[q] /\ backup'[q] = backup[q]
        BY <1>0, <2>4, <3>2 DEF TypeOK
      <4>2. q \in backedUp' <=> q \in backedUp
        BY <2>4, <3>2
      <4>3. /\ Removable(q)' <=> Removable(q)
            /\ Made(q)' <=> Made(q)
            /\ Fresh(q)' <=> Fresh(q)
            /\ Ready(q)' <=> Ready(q)
        BY <2>1, <4>1, <4>2, LeftAlone
      <4> QED BY <1>0, <2>2, <2>4, <3>2, <4>3 DEF Progress, Cleaning
    <3> QED BY <3>1, <3>2
  <2>5. CASE /\ at \notin existed /\ pc' = "publish" /\ at' = at
             /\ UNCHANGED <<disk, backup, backedUp>>
    <3>1. /\ Removable(q)' <=> Removable(q)
          /\ Made(q)' <=> Made(q)
          /\ Fresh(q)' <=> Fresh(q)
          /\ Ready(q)' <=> Ready(q)
      BY <2>1, <2>5, LeftAlone
    <3> QED BY <1>0, <2>1, <2>2, <2>5, <3>1 DEF Progress, Cleaning
  <2> QED BY <1>1, <2>3, <2>4, <2>5 DEF BackUp, RollBack, Goto
<1>2. CASE Publish
  <2> DEFINE overwrites == at \in existed \/ job[at] # "create"
  <2>1. /\ pc = "publish" /\ PublishAs(overwrites)
        /\ UNCHANGED <<backup, command, job, existed, backedUp, before>>
    BY <1>2 DEF Publish, PublishStep
  <2>2. /\ Removable(q) /\ (q < at => Made(q))
        /\ q >= at => Ready(q)
        /\ q > at \/ (q = at /\ q \notin existed) => Fresh(q)
        /\ q = at /\ q \in existed => Moved(q)
    BY <1>0, <2>1 DEF Progress
  <2>3. CASE /\ pc' = "undo" /\ at' = Size
             /\ UNCHANGED <<disk, temp, committed>>
    <3>1. Recoverable(q)
      BY <1>0, <2>2 DEF Recoverable
    <3>2. Recoverable(q)' /\ ~(q > at')
      BY <1>0, <2>1, <2>3, <3>1, LeftAlone
    <3> QED BY <2>3, <3>2 DEF Progress, Cleaning
  <2>4. CASE /\ committed' = committed \cup {at}
             /\ IF job[at] = "remove"
                THEN UNCHANGED <<disk, temp>>
                ELSE /\ overwrites \/ disk[at] = Nothing
                     /\ disk' = [disk EXCEPT ![at] = temp[at]]
                     /\ temp' = IF overwrites THEN [temp EXCEPT ![at] = Nothing]
                                ELSE temp
             /\ Onward("backup", "cleanTemp")
    <3>1. ASSUME q = at PROVE Made(q)'
      <4>1. q \in committed'
        BY <2>4, <3>1
      <4>2. CASE job[q] = "remove"
        <5>1. Moved(q)
          BY <2>2, <3>1, <4>2 DEF Removable
        <5>2. Now(q, Nothing)'
          BY <2>4, <3>1, <4>2, <5>1 DEF Moved, Now
        <5>3. Now(q, Wanted(q))'
          BY <2>1, <4>2, <5>2 DEF Wanted, Now
        <5> QED BY <2>1, <4>1, <4>2, <5>1, <5>3 DEF Made, Moved
      <4>3. CASE job[q] # "remove"
        <5>1. disk'[q] = command
          BY <1>0, <2>2, <2>4, <3>1, <4>3 DEF Ready, TypeOK
        <5>2. Now(q, Wanted(q))'
          BY <2>1, <4>3, <5>1 DEF Wanted, Now
        <5>3. CASE q \in existed
          <6>1. Moved(q)
            BY <2>2, <3>1, <5>3
          <6> QED BY <2>1, <4>1, <5>1, <5>2, <5>3, <6>1 DEF Made, Moved
        <5>4. CASE q \notin existed
          <6>1. Fresh(q)
            BY <2>2, <3>1, <5>4
          <6>2. before[q] = Nothing
            BY <1>0, <2>1, <5>4 DEF IInv, SeenAgrees, Looked
          <6> QED BY <2>1, <4>1, <4>3, <5>1, <5>2, <5>4, <6>1, <6>2
              DEF Made, Fresh
        <5> QED BY <5>3, <5>4
      <4> QED BY <4>2, <4>3
    <3>2. ASSUME q # at
          PROVE  /\ Removable(q)' <=> Removable(q)
                 /\ Made(q)' <=> Made(q)
                 /\ Fresh(q)' <=> Fresh(q)
                 /\ Ready(q)' <=> Ready(q)
                 /\ Now(q, Wanted(q))' <=> Now(q, Wanted(q))
      <4>1. disk'[q] = disk[q] /\ temp'[q] = temp[q]
        BY <1>0, <2>4, <3>2 DEF TypeOK
      <4>2. q \in committed' <=> q \in committed
        BY <2>4, <3>2
      <4> QED BY <2>1, <4>1, <4>2, LeftAlone
    <3>3. CASE at < Size /\ pc' = "backup" /\ at' = at + 1
      <4>1. CASE q = at
        <5>1. q < at' /\ ~(q >= at') /\ Removable(q)'
          BY <1>0, <2>1, <2>2, <3>3, <4>1 DEF Removable
        <5>2. Made(q)'
          BY <3>1, <4>1
        <5> QED BY <3>3, <5>1, <5>2 DEF Progress, Cleaning
      <4>2. CASE q # at
        <5>1. (q < at' => q < at) /\ (q >= at' => q > at)
          BY <1>0, <3>3, <4>2
        <5>2. q > at => q >= at
          BY <1>0
        <5>3. /\ Removable(q)' <=> Removable(q)
              /\ Made(q)' <=> Made(q)
              /\ Fresh(q)' <=> Fresh(q)
              /\ Ready(q)' <=> Ready(q)
          BY <3>2, <4>2
        <5> QED BY <2>2, <3>3, <5>1, <5>2, <5>3 DEF Progress, Cleaning
      <4> QED BY <4>1, <4>2
    <3>4. CASE at = Size /\ pc' = "cleanTemp" /\ at' = 1
      <4>1. Now(q, Wanted(q))'
        <5>1. CASE q = at
          BY <3>1, <5>1 DEF Made
        <5>2. CASE q # at
          <6>1. q < at
            BY <1>0, <3>4, <5>2
          <6> QED BY <2>2, <3>2, <5>2, <6>1 DEF Made
        <5> QED BY <5>1, <5>2
      <4> QED BY <3>4, <4>1 DEF Progress, Cleaning
    <3> QED BY <1>0, <2>4, <3>3, <3>4 DEF Onward, Goto
  <2> QED BY <2>1, <2>3, <2>4 DEF PublishAs, RollBack, Goto
<1> QED BY <1>1, <1>2

(* One call of the rollback at one path: afterwards it has been done there,  *)
(* or the error is kept.                                                     *)
LEMMA ProgressBack ==
  ASSUME AInv, IInv, Undo \/ PutBack \/ Drop, NEW q \in DOMAIN job
  PROVE  Progress(q)'
<1>0. /\ TypeOK /\ Steady /\ Progress(q) /\ at \in 1..Size /\ Size \in Nat
      /\ DOMAIN job = 1..Size /\ q \in 1..Size /\ q \in Paths /\ q \in Nat
      /\ at \in Paths /\ at \in Nat /\ errors \in BOOLEAN
  BY SizeOfJob, FilesAssumption DEF AInv, IInv, TypeOK, Paths
<1>1. CASE Undo
  <2>1. /\ pc = "undo" /\ pc' = "putback" /\ at' = at
        /\ UNCHANGED <<temp, backup, command, job, existed, backedUp,
                       committed, before>>
    BY <1>1 DEF Undo, UndoOnly, Goto, staged
  <2>2. /\ q <= at => Recoverable(q)
        /\ q > at => errors \/ Clean(q)
    BY <1>0, <2>1 DEF Progress
  <2>3. \/ errors'
        \/ /\ at \in committed /\ job[at] # "remove" /\ errors' = errors
           /\ disk' = [disk EXCEPT ![at] = Nothing]
        \/ /\ ~(at \in committed /\ job[at] # "remove")
           /\ disk' = disk /\ errors' = errors
    BY <1>1 DEF Undo, UndoOnly, Attempt
  <2>4. errors => errors'
    BY <2>3
  <2>5. ASSUME q # at
        PROVE  /\ Recoverable(q)' <=> Recoverable(q)
               /\ Clean(q)' <=> Clean(q)
    <3>1. disk'[q] = disk[q]
      BY <1>0, <1>1, <2>5 DEF Undo, UndoOnly, Attempt, TypeOK
    <3> QED BY <2>1, <3>1, LeftAlone
  <2>6. ASSUME q = at PROVE errors' \/ Undid(q)'
    <3>1. Recoverable(q)
      BY <1>0, <2>2, <2>6
    <3>2. CASE q \in backedUp
      BY <2>1, <3>1, <3>2 DEF Recoverable, Fresh, Moved, Made, Undid
    <3>3. CASE q \notin backedUp
      <4>1. backup[q] = Nothing
        BY <3>1, <3>3 DEF Recoverable, Fresh, Moved, Made
      <4>2. CASE q \in committed
        <5>1. before[q] = Nothing /\ job[q] # "remove"
          BY <3>1, <3>3, <4>2 DEF Recoverable, Fresh, Moved, Made
        <5>2. errors' \/ disk'[q] = Nothing
          BY <1>0, <2>3, <2>6, <4>2, <5>1 DEF TypeOK
        <5> QED BY <2>1, <3>3, <4>1, <5>1, <5>2 DEF Undid, Now
      <4>3. CASE q \notin committed
        <5>1. Now(q, before[q])
          BY <3>1, <3>3, <4>3 DEF Recoverable, Fresh, Moved, Made
        <5>2. errors' \/ disk' = disk
          BY <2>3, <2>6, <4>3
        <5> QED BY <2>1, <3>3, <4>1, <5>1, <5>2 DEF Undid, Now
      <4> QED BY <4>2, <4>3
    <3> QED BY <3>2, <3>3
  <2>7. (q < at => q # at /\ q <= at) /\ (q > at => q # at) /\ ~(at < at)
        /\ ~(at > at)
    BY <1>0
  <2> QED BY <2>1, <2>2, <2>4, <2>5, <2>6, <2>7 DEF Progress, Cleaning
<1>2. CASE PutBack
  <2>1. /\ pc = "putback" /\ pc' = "drop" /\ at' = at
        /\ UNCHANGED <<temp, command, job, existed, backedUp, committed,
                       before>>
    BY <1>2 DEF PutBack, PutBackOnly, Goto, staged
  <2>2. /\ q < at => Recoverable(q)
        /\ q = at => errors \/ Undid(q)
        /\ q > at => errors \/ Clean(q)
    BY <1>0, <2>1 DEF Progress
  <2>3. \/ errors'
        \/ /\ at \in backedUp /\ errors' = errors
           /\ disk' = [disk EXCEPT ![at] = backup[at]]
           /\ backup' = [backup EXCEPT ![at] = Nothing]
        \/ at \notin backedUp /\ disk' = disk /\ backup' = backup
           /\ errors' = errors
    BY <1>2 DEF PutBack, PutBackOnly, Attempt
  <2>4. errors => errors'
    BY <2>3
  <2>5. ASSUME q # at
        PROVE  /\ Recoverable(q)' <=> Recoverable(q)
               /\ Clean(q)' <=> Clean(q)
    <3>1. disk'[q] = disk[q] /\ backup'[q] = backup[q]
      BY <1>0, <1>2, <2>5 DEF PutBack, PutBackOnly, Attempt, TypeOK
    <3> QED BY <2>1, <3>1, LeftAlone
  <2>6. ASSUME q = at PROVE errors' \/ Restored(q)'
    <3>1. SUFFICES ASSUME ~errors' PROVE Restored(q)'
      OBVIOUS
    <3>2. Undid(q)
      BY <2>2, <2>4, <2>6, <3>1
    <3>3. CASE q \in backedUp
      <4>1. disk'[q] = before[q] /\ backup'[q] = Nothing
        BY <1>0, <2>3, <2>6, <3>1, <3>2, <3>3 DEF Undid, TypeOK
      <4> QED BY <2>1, <4>1 DEF Restored, Now
    <3>4. CASE q \notin backedUp
      BY <2>1, <2>3, <2>6, <3>1, <3>2, <3>4 DEF Undid, Restored, Now
    <3> QED BY <3>3, <3>4
  <2>7. (q < at => q # at) /\ (q > at => q # at) /\ ~(at < at) /\ ~(at > at)
    BY <1>0
  <2> QED BY <2>1, <2>2, <2>4, <2>5, <2>6, <2>7 DEF Progress, Cleaning
<1>3. CASE Drop
  <2>1. /\ pc = "drop"
        /\ UNCHANGED <<disk, backup, command, job, existed, backedUp,
                       committed, before>>
    BY <1>3 DEF Drop, staged
  <2>2. /\ q < at => Recoverable(q)
        /\ q = at => errors \/ Restored(q)
        /\ q > at => errors \/ Clean(q)
    BY <1>0, <2>1 DEF Progress
  <2>3. errors' \/ (temp' = [temp EXCEPT ![at] = Nothing] /\ errors' = errors)
    BY <1>3 DEF Drop, Attempt
  <2>4. errors => errors'
    BY <2>3
  <2>5. q >= at => errors' \/ Clean(q)'
    <3>1. SUFFICES ASSUME q >= at, ~errors' PROVE Clean(q)'
      OBVIOUS
    <3>2. CASE q = at
      <4>1. Restored(q) /\ temp'[q] = Nothing
        BY <1>0, <2>2, <2>3, <2>4, <3>1, <3>2 DEF TypeOK
      <4>2. Restored(q)'
        BY <2>1, <4>1, LeftAlone
      <4> QED BY <4>1, <4>2 DEF Clean
    <3>3. CASE q # at
      <4>1. q > at
        BY <1>0, <3>1, <3>3
      <4>2. temp'[q] = temp[q]
        BY <1>0, <2>3, <3>1, <3>3 DEF TypeOK
      <4>3. Clean(q)
        BY <2>2, <2>4, <3>1, <4>1
      <4> QED BY <2>1, <4>2, <4>3, LeftAlone
    <3> QED BY <3>2, <3>3
  <2>6. CASE at > 1 /\ pc' = "undo" /\ at' = at - 1
    <3>1. (q <= at' => q < at) /\ (q > at' => q >= at)
          /\ (q < at' \/ q = at' => q <= at')
      BY <1>0, <2>6
    <3>2. q < at => Recoverable(q)'
      BY <2>1, <2>2, LeftAlone
    <3> QED BY <2>5, <2>6, <3>1, <3>2 DEF Progress, Cleaning
  <2>7. CASE /\ ~(at > 1) /\ pc' = "idle"
             /\ outcome' = IF errors' THEN "unrestored" ELSE "restored"
    <3>1. q >= at
      BY <1>0, <2>7
    <3>2. errors' => Settled(q)'
      BY <2>7 DEF Settled
    <3>3. ~errors' => Settled(q)'
      BY <2>5, <2>7, <3>1 DEF Settled
    <3> QED BY <2>7, <3>2, <3>3 DEF Progress, Cleaning
  <2> QED BY <1>3, <2>6, <2>7 DEF Drop, Goto, End
<1> QED BY <1>1, <1>2, <1>3

(* The cleanup after a commit leaves what was published.                     *)
LEMMA ProgressCleaning ==
  ASSUME AInv, IInv, CleanTemp \/ CleanBackup, NEW q \in DOMAIN job
  PROVE  Progress(q)'
<1>1. /\ Cleaning /\ Progress(q)
      /\ UNCHANGED <<disk, command, job>>
  BY DEF CleanTemp, CleanBackup, Cleaning, AInv
<1>2. Now(q, Wanted(q))'
  BY <1>1 DEF Progress, Now, Wanted
<1>3. \/ pc' \in {"cleanTemp", "cleanBackup"}
      \/ pc' = "idle" /\ outcome' = "done"
  BY DEF CleanTemp, CleanBackup, NextCleanup, Goto, End
<1> QED BY <1>2, <1>3 DEF Progress, Settled, Cleaning

LEMMA ProgressNext ==
  ASSUME AInv, IInv, [Next]_vars, NEW q \in DOMAIN job'
  PROVE  Progress(q)'
<1>1. ASSUME NEW c \in Commands, NEW changes \in Jobs, Start(c, changes)
      PROVE  Progress(q)'
  <2>1. /\ job' \in Jobs /\ pc' = "look" /\ at' = 1 /\ backup' = AllNothing
    BY <1>1 DEF Start, Goto
  <2>2. PICK n \in 1..Files : job' \in [1..n -> Kinds]
    BY <2>1 DEF Jobs
  <2>3. q \in Paths /\ ~(q < 1)
    BY <2>2, FilesAssumption DEF Paths
  <2> QED BY <2>1, <2>3 DEF AllNothing, Progress, Cleaning
<1>2. ASSUME job' = job PROVE q \in DOMAIN job
  BY <1>2
<1>3. CASE Look \/ Preflight \/ Stage
  BY <1>2, <1>3, ProgressBefore DEF Look, Preflight, Stage
<1>4. CASE BackUp \/ Publish
  BY <1>2, <1>4, ProgressMaking DEF BackUp, Publish, PublishStep
<1>5. CASE Undo \/ PutBack \/ Drop
  BY <1>2, <1>5, ProgressBack
  DEF Undo, UndoOnly, PutBack, PutBackOnly, Drop
<1>6. CASE CleanTemp \/ CleanBackup
  BY <1>2, <1>6, ProgressCleaning DEF CleanTemp, CleanBackup
<1>7. CASE Crash
  BY <1>7 DEF Crash, End, Goto, Progress, Settled, Cleaning
<1>8. ASSUME NEW p \in Paths, Appear(p) PROVE Progress(q)'
  <2>1. /\ UNCHANGED <<job, pc, at, errors, outcome, existed>>
        /\ q \in DOMAIN job
    BY <1>8 DEF Appear, staged
  <2>2. TypeOK /\ Steady /\ Progress(q) /\ q \in Paths
    BY <2>1, SizeOfJob DEF AInv, IInv, TypeOK
  <2>3. pc # "idle" => command \in Commands
    BY <2>2 DEF Steady, TypeOK
  <2>4. backup'[q] = backup[q]
    BY <1>8 DEF Appear
  <2>5. CASE pc \in {"look", "preflight", "stage"}
    BY <1>8, <2>1, <2>2, <2>4, <2>5, AppearAlone DEF Progress, Cleaning
  <2>6. CASE pc \in {"backup", "publish"}
    BY <1>8, <2>1, <2>2, <2>3, <2>6, AppearAlone DEF Progress, Cleaning
  <2>7. CASE pc \in {"undo", "putback", "drop"}
    BY <1>8, <2>1, <2>2, <2>3, <2>7, AppearAlone
    DEF Progress, Cleaning, Recoverable
  <2>8. CASE Cleaning \/ pc = "idle"
    BY <1>8, <2>1, <2>2, <2>8, AppearAlone DEF Progress, Cleaning, Settled
  <2> QED BY <2>2, <2>5, <2>6, <2>7, <2>8 DEF TypeOK, Steps, Cleaning
<1>9. CASE UNCHANGED vars
  <2>1. Progress(q)
    BY <1>9 DEF vars, AInv
  <2> QED BY <1>9, <2>1
      DEF vars, files, staged, Progress, Settled, Cleaning, Recoverable, Fresh,
          Moved, Made, Ready, Removable, Undid, Restored, Clean, Now, Wanted
<1> QED
  BY <1>1, <1>3, <1>4, <1>5, <1>6, <1>7, <1>8, <1>9 DEF Next

LEMMA AllNext == IInv /\ AInv /\ [Next]_vars => AInv'
  BY SteadyNext, ProgressNext DEF AInv

(* A transaction that returns has made all its changes; one that throws, and *)
(* does not say that the rollback failed, has made none and left neither     *)
(* temporary files nor backups: for any number of paths, failing calls and   *)
(* files that other programs create meanwhile.                               *)
THEOREM ChangesAreAllOrNothing == Spec => []AllOrNothing
<1>1. Init => IInv /\ AInv
  BY InvInit, AllInit
<1>2. IInv /\ AInv /\ [Next]_vars => (IInv /\ AInv)'
  BY InvNext, AllNext
<1>3. IInv /\ AInv => AllOrNothing
  BY AllSafe DEF IInv
<1> QED BY <1>1, <1>2, <1>3, PTL DEF Spec

(* A file that another program creates, where the transaction saw none and   *)
(* was not asked to replace one, is left alone by every step: publication    *)
(* does not overwrite it, and the rollback deletes at such a path only what  *)
(* the transaction itself has linked.                                        *)
THEOREM NewcomersAreLeftAlone == Spec => NewcomersStay
<1>1. Init => IInv /\ AInv
  BY InvInit, AllInit
<1>2. IInv /\ AInv /\ [Next]_vars => (IInv /\ AInv)'
  BY InvNext, AllNext
<1>3. ASSUME IInv, AInv, [Next]_vars, NEW q \in DOMAIN job,
             disk[q] = Newcomer, q \notin existed, job[q] = "create"
      PROVE  disk'[q] = Newcomer
  <2>0. /\ TypeOK /\ at \in Paths /\ q \in Paths /\ Newcomer # Nothing
        /\ Newcomer \notin Commands /\ Progress(q) /\ Steady
        /\ at \in 1..Size /\ Size \in Nat
    <3>1. Newcomer # Nothing
      BY MarkersDiffer
    <3> QED BY <1>3, <3>1, SizeOfJob, ContentsAssumption DEF IInv, AInv, TypeOK
  <2>1. ASSUME NEW p \in Paths, Appear(p) PROVE disk'[q] = Newcomer
    BY <1>3, <2>0, <2>1 DEF Appear, TypeOK
  <2>2. CASE BackUp
    BY <1>3, <2>0, <2>2 DEF BackUp, TypeOK
  <2>3. CASE Publish
    BY <1>3, <2>0, <2>3 DEF Publish, PublishStep, PublishAs, TypeOK
  <2>4. CASE Undo
    <3>1. CASE q = at /\ q \in committed
      <4>1. Recoverable(q)
        BY <2>0, <2>4, <3>1 DEF Undo, UndoOnly, Progress
      <4>2. disk[q] = command
        BY <1>3, <3>1, <4>1 DEF Recoverable, Fresh, Moved, Made
      <4>3. command \in Commands
        BY <2>0, <2>4 DEF Undo, UndoOnly, Steady, TypeOK
      <4> QED BY <1>3, <2>0, <4>2, <4>3
    <3>2. CASE ~(q = at /\ q \in committed)
      BY <1>3, <2>0, <2>4, <3>2 DEF Undo, UndoOnly, Attempt, TypeOK
    <3> QED BY <3>1, <3>2
  <2>5. CASE PutBack
    <3>1. q \notin backedUp
      BY <1>3, <2>0 DEF Steady
    <3> QED BY <1>3, <2>0, <2>5, <3>1 DEF PutBack, PutBackOnly, Attempt, TypeOK
  <2>6. ASSUME disk' = disk PROVE disk'[q] = Newcomer
    BY <1>3, <2>6
  <2>7. ASSUME NEW c \in Commands, NEW changes \in Jobs, Start(c, changes)
        PROVE  disk' = disk
    BY <2>7 DEF Start
  <2>8. CASE Look \/ Preflight \/ Stage \/ Drop \/ CleanTemp \/ CleanBackup
             \/ Crash \/ UNCHANGED vars
    <3>1. disk' = disk
      BY <2>8 DEF Look, Preflight, Stage, Drop, CleanTemp, CleanBackup, Crash,
                  vars, files
    <3> QED BY <2>6, <3>1
  <2> QED BY <1>3, <2>1, <2>2, <2>3, <2>4, <2>5, <2>6, <2>7, <2>8 DEF Next
<1>4. IInv /\ AInv /\ [Next]_vars =>
        [\A p \in DOMAIN job :
           (disk[p] = Newcomer /\ p \notin existed /\ job[p] = "create")
             => disk'[p] = Newcomer]_vars
  BY <1>3
<1> QED BY <1>1, <1>2, <1>4, PTL DEF Spec, NewcomersStay

=============================================================================
