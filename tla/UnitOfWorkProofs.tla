-------------------------- MODULE UnitOfWorkProofs ---------------------------
(***************************************************************************)
(* What holds of UnitOfWork for any set of chains and saves, any depth of  *)
(* nesting, and chains that overlap or not.                                *)
(***************************************************************************)
EXTENDS UnitOfWork, SequenceTheorems, TLAPS

\* The parameters that a suspended call refers to are there.
CallsAreKnown ==
  \A c \in Chains :
    /\ pc[c] \in SavePc => saving[c] \in Saves
    /\ pc[c] \in {"begin", "rejected", "lost", "undone", "committed", "failed"} => txs[c] # <<>>

TInv == TypeOK /\ CallsAreKnown

ChainStep(c) ==
  \/ BeginTransaction(c)
  \/ TransactionStep(c)
  \/ \E s \in Saves : StartSave(c, s)
  \/ SaveStep(c)
  \/ Dispose(c)

LEMMA NextIsAChainStep == Next <=> \E c \in Chains : ChainStep(c)
BY DEF Next, ChainStep

\* Dropping the last element, or appending one, stays among the sequences.
LEMMA FrontType ==
  ASSUME NEW S, NEW s \in Seq(S), s # <<>>
  PROVE  /\ Front(s) \in Seq(S)
         /\ Len(Front(s)) = Len(s) - 1
         /\ \A i \in 1..(Len(s) - 1) : Front(s)[i] = s[i]
         /\ Last(s) \in S
<1>1. Len(s) \in Nat /\ 1 <= Len(s)
  OBVIOUS
<1>2. Front(s) \in Seq(S)
  BY <1>1 DEF Front
<1>3. Len(Front(s)) = Len(s) - 1
  <2>1. CASE Len(s) = 1
    BY <2>1 DEF Front
  <2>2. CASE Len(s) > 1
    <3> DEFINE n == Len(s) - 1
    <3>1. n \in Int /\ 1 <= n /\ \A i \in 1..n : s[i] \in S
      BY <1>1, <2>2
    <3> HIDE DEF n
    <3>2. Len(SubSeq(s, 1, n)) = n
      BY <3>1, SubSeqProperties
    <3> QED
      BY <3>2 DEF Front, n
  <2>3. Len(s) = 1 \/ Len(s) > 1
    <3>1. \A k \in Nat : 1 <= k => k = 1 \/ k > 1
      OBVIOUS
    <3> QED
      BY <1>1, <3>1, Zenon
  <2> QED
    BY <2>1, <2>2, <2>3, Zenon
<1>4. \A i \in 1..(Len(s) - 1) : Front(s)[i] = s[i]
  <2> SUFFICES ASSUME NEW i \in 1..(Len(s) - 1)
               PROVE  SubSeq(s, 1, Len(s) - 1)[i] = s[i]
    BY DEF Front
  <2>1. i \in Int /\ 1 <= i /\ i <= Len(s) - 1
    BY <1>1
  <2> QED
    BY <1>1, <2>1
<1>5. Last(s) \in S
  BY <1>1 DEF Last
<1> QED
  BY <1>2, <1>3, <1>4, <1>5

\* The provider half of a step keeps the store and the guard typed.
LEMMA StoreTypes ==
  ASSUME TypeOK, NEW c \in Chains, NEW done \in Pc, NEW lost \in Pc, NEW failed \in Pc,
         \/ Opens(c, done)
         \/ FailsToOpen(c, failed)
         \/ Closes(c, done, lost, failed)
         \/ RollsBack(c, failed)
  PROVE  /\ durable' \subseteq Saves
         /\ frames' \in Seq(SUBSET Saves)
         /\ unusableAt' \in Nat
         /\ owner' \in Chains \cup {Nobody}
         /\ outcomeUnknown' \in BOOLEAN
         /\ \E label \in {done, lost, failed} : pc' = [pc EXCEPT ![c] = label]
<1> USE DEF TypeOK, Goto, Spoiled, guardVars
<1>0. /\ Len(frames) \in Nat
      /\ \A i \in 1..Len(frames) : frames[i] \in SUBSET Saves
  OBVIOUS
<1>1. CASE Opens(c, done)
  <2>1. frames' \in Seq(SUBSET Saves)
    BY <1>1 DEF Opens
  <2> QED
    BY <1>1, <2>1 DEF Opens
<1>2. CASE FailsToOpen(c, failed)
  <2>1. CASE frames = <<>>
    BY <1>2, <2>1 DEF FailsToOpen
  <2>2. CASE frames # <<>>
    <3>1. unusableAt' \in {unusableAt, Len(frames)}
      BY <1>2, <2>2, <1>0 DEF FailsToOpen
    <3> QED
      BY <1>2, <2>2, <3>1, <1>0 DEF FailsToOpen
  <2> QED
    BY <2>1, <2>2
<1>3. CASE RollsBackRoot(c, failed)
  <2>1. frames' \in Seq(SUBSET Saves) /\ unusableAt' \in Nat
    BY <1>3 DEF RollsBackRoot
  <2> QED
    BY <1>3, <2>1 DEF RollsBackRoot
<1>4. CASE RollsBackToSavepoint(c, failed)
  <2>1. frames # <<>>
    BY <1>4 DEF RollsBackToSavepoint
  <2>2. frames' \in Seq(SUBSET Saves)
    BY <1>4, <2>1, FrontType DEF RollsBackToSavepoint
  <2>3. unusableAt' \in Nat
    BY <1>4 DEF RollsBackToSavepoint
  <2> QED
    BY <1>4, <2>2, <2>3 DEF RollsBackToSavepoint
<1>5. ASSUME Len(frames) > 1
      PROVE  /\ Front(frames) \in Seq(SUBSET Saves)
             /\ Len(Front(frames)) = Len(frames) - 1
             /\ Last(frames) \in SUBSET Saves
  <2>1. frames # <<>>
    BY <1>5
  <2> QED
    BY <2>1, FrontType
<1>6. ASSUME Len(frames) > 1, NEW more \in SUBSET Saves
      PROVE  [Front(frames) EXCEPT ![Len(frames) - 1] = @ \cup more] \in Seq(SUBSET Saves)
  <2> DEFINE F == Front(frames)
  <2>1. F \in Seq(SUBSET Saves) /\ Len(F) = Len(frames) - 1 /\ Len(F) \in Nat
    BY <1>5, <1>6
  <2>2. F[Len(F)] \cup more \in SUBSET Saves
    BY <1>0, <1>6, <2>1
  <2> HIDE DEF F
  <2>3. [F EXCEPT ![Len(F)] = @ \cup more] \in Seq(SUBSET Saves)
    <3>1. Len(F) \in 1..Len(F)
      BY <1>6, <2>1
    <3> QED
      BY <2>1, <2>2, <3>1, ExceptSeq
  <2> QED
    BY <2>1, <2>3 DEF F
<1>7. CASE FailsToClean(c, failed)
  <2>1. frames' \in Seq(SUBSET Saves)
    <3>1. PICK kept \in {{}, Last(frames)} :
            frames' = [Front(frames) EXCEPT ![Len(frames) - 1] = @ \cup kept]
      BY <1>7 DEF FailsToClean
    <3>2. kept \in SUBSET Saves /\ Len(frames) > 1
      BY <1>5, <1>7 DEF FailsToClean
    <3> QED
      BY <1>6, <3>1, <3>2
  <2>2. unusableAt' \in Nat
    BY <1>0, <1>7 DEF FailsToClean
  <2> QED
    BY <1>7, <2>1, <2>2 DEF FailsToClean
<1>8. CASE CommitsRoot(c, done)
  <2>1. frames[1] \in SUBSET Saves
    BY <1>0, <1>8 DEF CommitsRoot
  <2> QED
    BY <1>8, <2>1 DEF CommitsRoot
<1>9. CASE LosesCommit(c, lost)
  <2>1. frames[1] \in SUBSET Saves
    BY <1>0, <1>9 DEF LosesCommit
  <2> QED
    BY <1>9, <2>1 DEF LosesCommit
<1>10. CASE ReleasesSavepoint(c, done)
  <2>1. frames' \in Seq(SUBSET Saves)
    BY <1>5, <1>6, <1>10 DEF ReleasesSavepoint
  <2>2. unusableAt' \in Nat
    BY <1>0, <1>10 DEF ReleasesSavepoint
  <2> QED
    BY <1>10, <2>1, <2>2 DEF ReleasesSavepoint
<1> QED
  BY <1>1, <1>2, <1>3, <1>4, <1>7, <1>8, <1>9, <1>10 DEF Closes, RollsBack

\* A chain moves to a known point, with the save and the transaction that the
\* point refers to.
LEMMA MoveKeepsCalls ==
  ASSUME TInv, NEW c \in Chains, NEW label \in Pc, Goto(c, label),
         txs' \in [Chains -> Seq(Transaction)],
         saving' \in [Chains -> Saves \cup {NoSave}],
         \A d \in Chains \ {c} : txs'[d] = txs[d] /\ saving'[d] = saving[d],
         label \in SavePc => saving'[c] \in Saves,
         label \in {"begin", "rejected", "lost", "undone", "committed", "failed"} => txs'[c] # <<>>
  PROVE  pc' \in [Chains -> Pc] /\ CallsAreKnown'
<1>1. pc \in [Chains -> Pc]
  BY DEF TInv, TypeOK
<1>2. pc' \in [Chains -> Pc] /\ pc'[c] = label /\ \A d \in Chains \ {c} : pc'[d] = pc[d]
  BY <1>1 DEF Goto
<1>3. ASSUME NEW d \in Chains
      PROVE  /\ pc'[d] \in SavePc => saving'[d] \in Saves
             /\ pc'[d] \in {"begin", "rejected", "lost", "undone", "committed", "failed"} => txs'[d] # <<>>
  <2>1. CASE d = c
    BY <1>2, <2>1
  <2>2. CASE d # c
    BY <1>2, <2>2 DEF TInv, CallsAreKnown
  <2> QED
    BY <2>1, <2>2
<1> QED
  BY <1>2, <1>3 DEF CallsAreKnown

\* A step of the provider's transaction, with what the calls keep of it.
LEMMA StoreStepKeepsTypes ==
  ASSUME TInv, NEW c \in Chains, NEW done \in Pc, NEW lost \in Pc, NEW failed \in Pc,
         \/ Opens(c, done)
         \/ FailsToOpen(c, failed)
         \/ Closes(c, done, lost, failed)
         \/ RollsBack(c, failed),
         {done, lost, failed} \cap SavePc # {} => saving[c] \in Saves,
         {done, lost, failed} \cap {"begin", "rejected", "lost", "undone", "committed", "failed"} # {}
           => txs[c] # <<>>,
         UNCHANGED <<depth, callbacks, saveInProgress, journal, contextVars,
                     txs, saving, flushing>>
  PROVE  TInv'
<1>1. TypeOK
  BY DEF TInv
<1>2. /\ durable' \subseteq Saves
      /\ frames' \in Seq(SUBSET Saves)
      /\ unusableAt' \in Nat
      /\ owner' \in Chains \cup {Nobody}
      /\ outcomeUnknown' \in BOOLEAN
      /\ \E label \in {done, lost, failed} : Goto(c, label)
  BY <1>1, StoreTypes DEF Goto
<1>3. pc' \in [Chains -> Pc] /\ CallsAreKnown'
  <2>1. /\ txs' \in [Chains -> Seq(Transaction)]
        /\ saving' \in [Chains -> Saves \cup {NoSave}]
        /\ txs' = txs /\ saving' = saving
    BY <1>1 DEF TypeOK
  <2>2. ASSUME NEW label \in {done, lost, failed}, Goto(c, label)
        PROVE  pc' \in [Chains -> Pc] /\ CallsAreKnown'
    BY <2>1, <2>2, MoveKeepsCalls
  <2> QED
    BY <1>2, <2>2
<1> QED
  BY <1>1, <1>2, <1>3 DEF TInv, TypeOK, contextVars

\* Every step of a chain keeps the types, and the save and the transaction a
\* suspended call refers to.
LEMMA StepKeepsTypes ==
  ASSUME TInv, NEW c \in Chains, ChainStep(c)
  PROVE  TInv'
<1> USE DEF TInv
<1>a. /\ pc \in [Chains -> Pc]
      /\ txs \in [Chains -> Seq(Transaction)]
      /\ saving \in [Chains -> Saves \cup {NoSave}]
      /\ pc[c] \in SavePc => saving[c] \in Saves
      /\ pc[c] \in {"begin", "rejected", "lost", "undone", "committed", "failed"} => txs[c] # <<>>
  BY DEF TypeOK, CallsAreKnown
<1>b. SavePc \subseteq Pc /\ TransactionPc \subseteq Pc /\ "app" \in Pc
  BY DEF Pc
<1>c. ASSUME txs[c] # <<>>, LeavesTransaction(c)
      PROVE  /\ depth' \in Int
             /\ txs' \in [Chains -> Seq(Transaction)]
             /\ \A d \in Chains \ {c} : txs'[d] = txs[d]
  <2>1. Front(txs[c]) \in Seq(Transaction)
    BY <1>a, <1>c, FrontType
  <2> QED
    BY <1>a, <1>c, <2>1 DEF LeavesTransaction, TypeOK
<1>1. CASE BeginTransaction(c)
  <2>1. Entered \in Transaction
    BY DEF Entered, Transaction, TypeOK
  <2>2. Append(txs[c], Entered) \in Seq(Transaction) /\ Append(txs[c], Entered) # <<>>
    <3>1. txs[c] \in Seq(Transaction)
      BY <1>a
    <3> QED
      BY <2>1, <3>1, AppendProperties
  <2>3. /\ txs' \in [Chains -> Seq(Transaction)]
        /\ txs'[c] # <<>>
        /\ \A d \in Chains \ {c} : txs'[d] = txs[d]
        /\ saving' = saving
    BY <1>1, <1>a, <2>2 DEF BeginTransaction
  <2>4. Goto(c, "begin") \/ Goto(c, "rejected")
    BY <1>1 DEF BeginTransaction
  <2>5. {"begin", "rejected"} \subseteq Pc \ SavePc
    BY DEF Pc, TransactionPc, SavePc
  <2>6. pc' \in [Chains -> Pc] /\ CallsAreKnown'
    BY <1>a, <2>3, <2>4, <2>5, MoveKeepsCalls
  <2> QED
    BY <1>1, <2>3, <2>6 DEF BeginTransaction, TypeOK, storeVars, contextVars
<1>2. CASE TransactionBegun(c)
  <2>1. {"app", "undone"} \subseteq Pc \ SavePc /\ txs[c] # <<>>
    BY <1>2, <1>a DEF TransactionBegun, Pc, TransactionPc, SavePc
  <2> QED
    BY <1>2, <2>1, StoreStepKeepsTypes DEF TransactionBegun
<1>3. CASE WorkEnds(c)
  <2>1. {"committed", "lost", "undone"} \subseteq Pc \ SavePc /\ txs[c] # <<>>
    BY <1>3 DEF WorkEnds, Pc, TransactionPc, SavePc
  <2> QED
    BY <1>3, <2>1, StoreStepKeepsTypes DEF WorkEnds
<1>4. CASE TransactionSettles(c)
  <2>1. txs[c] # <<>> /\ "failed" \in Pc \ SavePc /\ Goto(c, "failed")
        /\ UNCHANGED <<txs, saving>>
    BY <1>4, <1>a DEF TransactionSettles, LearnsVerdict, Pc, TransactionPc, SavePc
  <2>2. pc' \in [Chains -> Pc] /\ CallsAreKnown'
    BY <1>a, <2>1, MoveKeepsCalls
  <2> QED
    BY <1>4, <2>2 DEF TransactionSettles, LearnsVerdict, TypeOK, storeVars, contextVars
<1>5. CASE TransactionCommitted(c)
  <2>1. txs[c] # <<>> /\ LeavesTransaction(c)
    BY <1>5, <1>a DEF TransactionCommitted
  <2>2. callbacks' \in Seq(Saves) /\ flushing' \in [Chains -> Seq(Saves)]
    <3>1. CASE Last(txs[c]).root
      <4>1. callbacks' = <<>> /\ flushing' = [flushing EXCEPT ![c] = callbacks]
        BY <1>5, <3>1 DEF TransactionCommitted
      <4>2. flushing \in [Chains -> Seq(Saves)] /\ callbacks \in Seq(Saves)
        BY DEF TypeOK
      <4>3. flushing' \in [Chains -> Seq(Saves)]
        BY <4>1, <4>2
      <4>4. callbacks' \in Seq(Saves)
        BY <4>1
      <4> QED
        BY <4>3, <4>4
    <3>2. CASE ~Last(txs[c]).root
      BY <1>5, <3>2 DEF TransactionCommitted, TypeOK
    <3> QED
      BY <3>1, <3>2
  <2>3. Goto(c, "flushing") \/ Goto(c, "app")
    BY <1>5 DEF TransactionCommitted
  <2>4. {"flushing", "app"} \subseteq Pc \ SavePc
    BY DEF Pc, TransactionPc, SavePc
  <2>5. saving' = saving
    BY <1>5 DEF TransactionCommitted
  <2>6. pc' \in [Chains -> Pc] /\ CallsAreKnown'
    BY <1>a, <1>c, <2>1, <2>3, <2>4, <2>5, MoveKeepsCalls
  <2> QED
    BY <1>5, <1>c, <2>1, <2>2, <2>6
       DEF TransactionCommitted, TypeOK, storeVars, guardVars, contextVars
<1>6. CASE TransactionFailed(c)
  <2>1. txs[c] # <<>> /\ LeavesTransaction(c) /\ Goto(c, "app") /\ saving' = saving
    BY <1>6, <1>a DEF TransactionFailed
  <2>2. Last(txs[c]).start \in Nat
    <3>1. txs[c] \in Seq(Transaction)
      BY <1>a
    <3>2. Last(txs[c]) \in Transaction
      BY <2>1, <3>1, FrontType
    <3> QED
      BY <3>2 DEF Transaction
  <2>3. callbacks' \in Seq(Saves)
    BY <1>6, <2>2 DEF TransactionFailed, TypeOK
  <2>4. journal' \in [Saves -> JournalState] /\ poisoned' \in BOOLEAN
    BY <1>6 DEF TransactionFailed, RestoresAll, TypeOK, JournalState
  <2>5. "app" \in Pc \ SavePc
    BY DEF Pc, SavePc
  <2>6. pc' \in [Chains -> Pc] /\ CallsAreKnown'
    BY <1>a, <1>c, <2>1, <2>5, MoveKeepsCalls
  <2> QED
    BY <1>6, <1>c, <2>1, <2>3, <2>4, <2>6 DEF TransactionFailed, TypeOK, storeVars, guardVars
<1>7. CASE RunCallback(c)
  <2>1. Head(flushing[c]) \in Saves /\ Tail(flushing[c]) \in Seq(Saves)
    BY <1>7 DEF RunCallback, TypeOK
  <2>2. flushing' \in [Chains -> Seq(Saves)]
    BY <1>7, <2>1 DEF RunCallback, TypeOK
  <2>3. journal' \in [Saves -> JournalState] /\ poisoned' \in BOOLEAN
    BY <1>7, <2>1 DEF RunCallback, TypeOK, JournalState
  <2> QED
    BY <1>7, <2>2, <2>3 DEF RunCallback, TypeOK, CallsAreKnown, storeVars, guardVars
<1>d. ASSUME NEW label \in Pc, Goto(c, label), UNCHANGED <<txs, saving>>,
             label \in SavePc => pc[c] \in SavePc,
             label \notin {"begin", "rejected", "lost", "undone", "committed", "failed"}
      PROVE  pc' \in [Chains -> Pc] /\ CallsAreKnown'
  BY <1>a, <1>d, MoveKeepsCalls
<1>e. ASSUME Goto(c, "app"), UNCHANGED txs, saving' = [saving EXCEPT ![c] = NoSave]
      PROVE  /\ saving' \in [Chains -> Saves \cup {NoSave}]
             /\ pc' \in [Chains -> Pc] /\ CallsAreKnown'
  <2>1. /\ saving' \in [Chains -> Saves \cup {NoSave}]
        /\ \A d \in Chains \ {c} : saving'[d] = saving[d]
    BY <1>a, <1>e
  <2>2. "app" \notin SavePc
    BY DEF SavePc
  <2> QED
    BY <1>a, <1>b, <1>e, <2>1, <2>2, MoveKeepsCalls
<1>8. CASE CallbacksDone(c)
  <2>1. "app" \in Pc \ SavePc
    BY DEF Pc, SavePc
  <2> QED
    BY <1>8, <1>d, <2>1
       DEF CallbacksDone, TypeOK, storeVars, guardVars, contextVars
<1>9. ASSUME NEW s \in Saves, StartSave(c, s)
      PROVE  TInv'
  <2>1. /\ saving' \in [Chains -> Saves \cup {NoSave}]
        /\ saving'[c] \in Saves
        /\ \A d \in Chains \ {c} : saving'[d] = saving[d]
        /\ txs' = txs
        /\ Goto(c, "saving")
    BY <1>9, <1>a DEF StartSave, TakesSave
  <2>2. "saving" \in Pc
    BY DEF Pc, SavePc
  <2>3. pc' \in [Chains -> Pc] /\ CallsAreKnown'
    BY <1>a, <2>1, <2>2, MoveKeepsCalls
  <2> QED
    BY <1>9, <2>1, <2>3
       DEF StartSave, TakesSave, TypeOK, storeVars, guardVars, contextVars
<1>10. CASE ExecuteSave(c)
  <2>1. pc[c] \in SavePc /\ {"saveBegin", "saveRefused", "saveFailed"} \subseteq SavePc
    BY <1>10 DEF ExecuteSave, SavePc
  <2>2. pc' \in [Chains -> Pc] /\ CallsAreKnown'
    BY <1>10, <1>b, <1>d, <2>1 DEF ExecuteSave
  <2> QED
    BY <1>10, <2>2 DEF ExecuteSave, TypeOK, storeVars, contextVars
<1>11. CASE SaveBegun(c)
  <2>1. pc[c] \in SavePc /\ {"saveWork", "saveUndone"} \subseteq SavePc
    BY <1>11 DEF SaveBegun, SavePc
  <2> QED
    BY <1>11, <1>a, <1>b, <2>1, StoreStepKeepsTypes DEF SaveBegun
<1>12. CASE SaveAccepted(c)
  <2>1. pc[c] \in SavePc /\ "accepted" \in SavePc
    BY <1>12 DEF SaveAccepted, SavePc
  <2>2. pc' \in [Chains -> Pc] /\ CallsAreKnown'
    BY <1>12, <1>b, <1>d, <2>1 DEF SaveAccepted
  <2>3. saving[c] \in Saves
    BY <1>a, <2>1
  <2>4. frames' \in Seq(SUBSET Saves)
    <3>1. frames \in Seq(SUBSET Saves) /\ Len(frames) \in Nat
      BY DEF TypeOK
    <3>2. frames' = [frames EXCEPT ![Len(frames)] = frames[Len(frames)] \cup {saving[c]}]
      BY <1>12 DEF SaveAccepted
    <3>3. CASE Len(frames) = 0
      <4>1. \A i \in DOMAIN frames : i # Len(frames)
        BY <3>1, <3>3
      <4>2. frames' = [i \in DOMAIN frames |-> frames[i]]
        BY <3>2, <4>1, Zenon
      <4>3. frames = [i \in DOMAIN frames |-> frames[i]]
        BY <3>1
      <4> QED
        BY <3>1, <4>2, <4>3, Zenon
    <3>4. CASE Len(frames) > 0
      <4>1. Len(frames) \in 1..Len(frames)
        BY <3>1, <3>4
      <4>2. frames[Len(frames)] \cup {saving[c]} \in SUBSET Saves
        BY <2>3, <3>1, <4>1
      <4> QED
        BY <3>1, <3>2, <4>1, <4>2, ExceptSeq
    <3> QED
      BY <3>1, <3>3, <3>4
  <2>5. journal' \in [Saves -> JournalState]
    BY <1>12 DEF SaveAccepted, TypeOK, JournalState
  <2> QED
    BY <1>12, <2>2, <2>4, <2>5 DEF SaveAccepted, TypeOK, guardVars, contextVars
<1>13. CASE SaveThrows(c)
  <2>1. pc[c] \in SavePc /\ "saveUndone" \in SavePc
    BY <1>13 DEF SaveThrows, SavePc
  <2> QED
    BY <1>13, <1>a, <1>b, <2>1, StoreStepKeepsTypes DEF SaveThrows
<1>14. CASE SaveCloses(c)
  <2>1. pc[c] \in SavePc /\ {"saved", "saveLost", "saveUndone"} \subseteq SavePc
    BY <1>14 DEF SaveCloses, SavePc
  <2> QED
    BY <1>14, <1>a, <1>b, <2>1, StoreStepKeepsTypes DEF SaveCloses
<1>20. CASE SaveSettles(c)
  <2>1. pc[c] \in SavePc /\ "saveFailed" \in SavePc /\ Goto(c, "saveFailed")
    BY <1>20 DEF SaveSettles, LearnsVerdict, SavePc
  <2>2. pc' \in [Chains -> Pc] /\ CallsAreKnown'
    BY <1>20, <1>b, <1>d, <2>1 DEF SaveSettles
  <2> QED
    BY <1>20, <2>2 DEF SaveSettles, LearnsVerdict, TypeOK, storeVars, contextVars
<1>15. CASE AfterCommitted(c)
  <2>1. pc[c] \in SavePc /\ "notifying" \in SavePc /\ saving[c] \in Saves
    BY <1>15, <1>a DEF AfterCommitted, SavePc
  <2>2. CASE Deferred
    <3>1. callbacks' \in Seq(Saves)
      <4>1. callbacks' = Append(callbacks, saving[c]) /\ callbacks \in Seq(Saves)
        BY <1>15, <2>2 DEF AfterCommitted, TypeOK
      <4> QED
        BY <2>1, <4>1, AppendProperties
    <3>2. /\ saving' \in [Chains -> Saves \cup {NoSave}]
          /\ pc' \in [Chains -> Pc] /\ CallsAreKnown'
      BY <1>15, <1>e, <2>2 DEF AfterCommitted, LeavesSave
    <3> QED
      BY <1>15, <2>2, <3>1, <3>2
         DEF AfterCommitted, LeavesSave, TypeOK, storeVars, guardVars, contextVars
  <2>3. CASE ~Deferred
    <3>1. pc' \in [Chains -> Pc] /\ CallsAreKnown'
      BY <1>15, <1>b, <1>d, <2>1, <2>3 DEF AfterCommitted
    <3>2. journal' \in [Saves -> JournalState]
      BY <1>15, <2>3 DEF AfterCommitted, TypeOK, JournalState
    <3> QED
      BY <1>15, <2>3, <3>1, <3>2
         DEF AfterCommitted, TypeOK, storeVars, guardVars, contextVars
  <2> QED
    BY <2>2, <2>3
<1>16. CASE SavedNotified(c)
  BY <1>16, <1>e
     DEF SavedNotified, LeavesSave, TypeOK, storeVars, guardVars, contextVars
<1>17. CASE SaveFailed(c)
  <2>1. pc[c] \in SavePc /\ {"failing", "failingBroken"} \subseteq SavePc
    BY <1>17 DEF SaveFailed, SavePc
  <2>2. pc' \in [Chains -> Pc] /\ CallsAreKnown'
    BY <1>17, <1>b, <1>d, <2>1 DEF SaveFailed
  <2>3. journal' \in [Saves -> JournalState]
    BY <1>17 DEF SaveFailed, TypeOK, JournalState
  <2> QED
    BY <1>17, <2>2, <2>3 DEF SaveFailed, TypeOK, storeVars, guardVars, contextVars
<1>18. CASE FailureNotified(c)
  BY <1>18, <1>e DEF FailureNotified, LeavesSave, TypeOK, storeVars, guardVars
<1>19. CASE Dispose(c)
  BY <1>19 DEF Dispose, TypeOK, CallsAreKnown, storeVars, guardVars, chainVars
<1> QED
  BY <1>1, <1>2, <1>3, <1>4, <1>5, <1>6, <1>7, <1>8, <1>9, <1>10, <1>11, <1>12, <1>13,
     <1>14, <1>15, <1>16, <1>17, <1>18, <1>19, <1>20
     DEF ChainStep, TransactionStep, SaveStep

LEMMA InitTypes == Init => TInv
<1> SUFFICES ASSUME Init
             PROVE  TInv
  OBVIOUS
<1> USE DEF Init
<1>1. "app" \in Pc /\ "unsaved" \in JournalState
  BY DEF Pc, JournalState
<1>2. TypeOK
  <2>1. <<>> \in Seq(SUBSET Saves) /\ <<>> \in Seq(Saves) /\ <<>> \in Seq(Transaction)
    OBVIOUS
  <2>2. /\ txs \in [Chains -> Seq(Transaction)]
        /\ flushing \in [Chains -> Seq(Saves)]
    BY <2>1
  <2>3. /\ pc \in [Chains -> Pc]
        /\ saving \in [Chains -> Saves \cup {NoSave}]
        /\ journal \in [Saves -> JournalState]
    BY <1>1
  <2>4. frames \in Seq(SUBSET Saves) /\ callbacks \in Seq(Saves)
    BY <2>1
  <2>5. /\ durable \subseteq Saves /\ unusableAt \in Nat /\ depth \in Int
        /\ owner \in Chains \cup {Nobody}
    OBVIOUS
  <2>6. /\ outcomeUnknown \in BOOLEAN /\ saveInProgress \in BOOLEAN
        /\ poisoned \in BOOLEAN /\ disposed \in BOOLEAN
    BY Zenon
  <2> HIDE DEF Init
  <2> QED
    BY <2>2, <2>3, <2>4, <2>5, <2>6 DEF TypeOK
<1>3. CallsAreKnown
  BY DEF CallsAreKnown, SavePc
<1> QED
  BY <1>2, <1>3 DEF TInv

\* The state of UnitOfWork keeps its types, whatever the constants.
THEOREM TypeCorrect == Spec => []TypeOK
<1>1. Init => TInv
  BY InitTypes
<1>2. TInv /\ [Next]_vars => TInv'
  <2> SUFFICES ASSUME TInv, [Next]_vars
               PROVE  TInv'
    OBVIOUS
  <2>1. CASE UNCHANGED vars
    BY <2>1 DEF vars, storeVars, guardVars, contextVars, chainVars, TInv, TypeOK,
                CallsAreKnown
  <2>2. CASE Next
    BY <2>2, NextIsAChainStep, StepKeepsTypes
  <2> QED
    BY <2>1, <2>2
<1>3. TInv => TypeOK
  BY DEF TInv
<1> QED
  BY <1>1, <1>2, <1>3, PTL DEF Spec

-----------------------------------------------------------------------------
(* The transaction stack and the guard *)

\* A chain that waits for its transaction or savepoint to open holds the guard,
\* and nothing is open while nobody holds it.
GuardHeld ==
  /\ owner = Nobody => Len(frames) = 0
  /\ \A c \in Chains : pc[c] \in {"begin", "saveBegin"} => owner = c

GInv == TInv /\ GuardHeld /\ FramesBelongToOwner

\* What the provider half of a step does to the height of the stack and to the
\* guard: the guard is given back with the root, and only then.
LEMMA StoreMoves ==
  ASSUME TypeOK, NEW c \in Chains, NEW done, NEW lost, NEW failed
  PROVE  /\ Opens(c, done) =>
              Len(frames') = Len(frames) + 1 /\ owner' = owner /\ Goto(c, done)
         /\ FailsToOpen(c, failed) =>
              /\ Len(frames') = Len(frames) /\ Goto(c, failed)
              /\ owner' = IF Len(frames) = 0 THEN Nobody ELSE owner
         /\ Closes(c, done, lost, failed) \/ RollsBack(c, failed) =>
              /\ Len(frames) > 0 /\ Len(frames') = Len(frames) - 1
              /\ Goto(c, done) \/ Goto(c, lost) \/ Goto(c, failed)
              /\ owner' = IF Len(frames) = 1 THEN Nobody ELSE owner
<1>1. Len(frames) \in Nat /\ frames \in Seq(SUBSET Saves)
  BY DEF TypeOK
<1>2. Opens(c, done) => Len(frames') = Len(frames) + 1 /\ owner' = owner /\ Goto(c, done)
  BY <1>1 DEF Opens, guardVars
<1>3. ASSUME FailsToOpen(c, failed)
      PROVE  /\ Len(frames') = Len(frames) /\ Goto(c, failed)
             /\ owner' = IF Len(frames) = 0 THEN Nobody ELSE owner
  BY <1>1, <1>3 DEF FailsToOpen
<1>4. ASSUME Len(frames) > 1
      PROVE  /\ Len(Front(frames)) = Len(frames) - 1
             /\ \A v : Len([Front(frames) EXCEPT ![Len(frames) - 1] = v]) = Len(frames) - 1
  <2>1. Front(frames) \in Seq(SUBSET Saves) /\ Len(Front(frames)) = Len(frames) - 1
    BY <1>1, <1>4, FrontType
  <2> QED
    BY <1>1, <1>4, <2>1
<1>5. ASSUME Closes(c, done, lost, failed) \/ RollsBack(c, failed)
      PROVE  /\ Len(frames) > 0 /\ Len(frames') = Len(frames) - 1
             /\ Goto(c, done) \/ Goto(c, lost) \/ Goto(c, failed)
             /\ owner' = IF Len(frames) = 1 THEN Nobody ELSE owner
  <2>1. CASE RollsBackRoot(c, failed)
    BY <2>1 DEF RollsBackRoot
  <2>2. CASE RollsBackToSavepoint(c, failed)
    BY <1>4, <2>2 DEF RollsBackToSavepoint, guardVars
  <2>3. CASE FailsToClean(c, failed)
    <3>1. /\ Len(frames) > 1 /\ Goto(c, failed) /\ owner' = owner
          /\ \E kept \in {{}, Last(frames)} :
               frames' = [Front(frames) EXCEPT ![Len(frames) - 1] = @ \cup kept]
      BY <2>3 DEF FailsToClean, guardVars
    <3> QED
      BY <1>1, <1>4, <3>1
  <2>4. CASE CommitsRoot(c, done)
    BY <2>4 DEF CommitsRoot
  <2>5. CASE LosesCommit(c, lost)
    BY <2>5 DEF LosesCommit
  <2>6. CASE ReleasesSavepoint(c, done)
    BY <1>4, <2>6 DEF ReleasesSavepoint, guardVars
  <2> QED
    BY <1>5, <2>1, <2>2, <2>3, <2>4, <2>5, <2>6 DEF Closes, RollsBack
<1> QED
  BY <1>2, <1>3, <1>5

\* A chain with something open, or about to open, is the one that holds the
\* guard, and the stack is all its own.
LEMMA HoldsGuard ==
  ASSUME GInv, NEW c \in Chains,
         \/ pc[c] \in {"begin", "saveBegin", "saveWork", "accepted"}
         \/ pc[c] = "app" /\ txs[c] # <<>>
  PROVE  owner = c /\ OpenFrames(c) = Len(frames)
<1>1. Len(txs[c]) \in Nat /\ (txs[c] # <<>> => Len(txs[c]) > 0)
  BY DEF GInv, TInv, TypeOK
<1>2. CASE pc[c] \in {"begin", "saveBegin"}
  BY <1>2 DEF GInv, GuardHeld, FramesBelongToOwner
<1>3. CASE pc[c] \in {"saveWork", "accepted"} \/ (pc[c] = "app" /\ txs[c] # <<>>)
  <2>1. OpenFrames(c) > 0
    <3>1. CASE pc[c] \in {"saveWork", "accepted"}
      <4>1. /\ pc[c] \notin {"begin", "rejected", "lost", "undone", "committed", "failed"}
            /\ pc[c] \in {"saveWork", "accepted"}
        BY <3>1
      <4>2. OpenFrames(c) = Len(txs[c]) - 0 + 1
        BY <4>1, Zenon DEF OpenFrames
      <4> QED
        BY <1>1, <4>2
    <3>2. CASE pc[c] = "app" /\ txs[c] # <<>>
      BY <1>1, <3>2 DEF OpenFrames
    <3> QED
      BY <1>3, <3>1, <3>2
  <2> QED
    BY <2>1 DEF GInv, FramesBelongToOwner
<1> QED
  BY <1>2, <1>3

\* A step moves no chain but the one that takes it.
LEMMA OthersKeep ==
  ASSUME TypeOK, NEW c \in Chains, ChainStep(c), NEW d \in Chains \ {c}
  PROVE  pc'[d] = pc[d] /\ OpenFrames(d)' = OpenFrames(d)
<1>1. pc \in [Chains -> Pc] /\ txs \in [Chains -> Seq(Transaction)]
  BY DEF TypeOK
<1>2. ASSUME NEW label, Goto(c, label)
      PROVE  pc'[d] = pc[d]
  BY <1>1, <1>2 DEF Goto
<1>3. pc'[d] = pc[d]
  <2>1. \A done, lost, failed :
           \/ Opens(c, done) \/ FailsToOpen(c, failed)
           \/ Closes(c, done, lost, failed) \/ RollsBack(c, failed)
           => Goto(c, done) \/ Goto(c, lost) \/ Goto(c, failed)
    BY StoreMoves
  <2>2. CASE \/ TransactionBegun(c) \/ WorkEnds(c) \/ SaveBegun(c)
             \/ SaveThrows(c) \/ SaveCloses(c)
    BY <1>2, <2>1, <2>2 DEF TransactionBegun, WorkEnds, SaveBegun, SaveThrows, SaveCloses
  <2>3. CASE \/ BeginTransaction(c) \/ \E s \in Saves : StartSave(c, s)
    BY <1>2, <2>3 DEF BeginTransaction, StartSave
  <2>4. CASE \/ TransactionCommitted(c) \/ TransactionFailed(c) \/ CallbacksDone(c)
             \/ TransactionSettles(c) \/ SaveSettles(c)
    BY <1>2, <2>4 DEF TransactionCommitted, TransactionFailed, CallbacksDone,
                      TransactionSettles, SaveSettles, LearnsVerdict
  <2>5. CASE RunCallback(c) \/ Dispose(c)
    BY <2>5 DEF RunCallback, Dispose, chainVars
  <2>6. CASE \/ ExecuteSave(c) \/ SaveAccepted(c) \/ AfterCommitted(c)
             \/ SavedNotified(c) \/ SaveFailed(c) \/ FailureNotified(c)
    BY <1>2, <2>6 DEF ExecuteSave, SaveAccepted, AfterCommitted, SavedNotified,
                      SaveFailed, FailureNotified
  <2> QED
    BY <2>2, <2>3, <2>4, <2>5, <2>6 DEF ChainStep, TransactionStep, SaveStep
<1>4. txs'[d] = txs[d]
  <2>1. CASE BeginTransaction(c)
    BY <1>1, <2>1 DEF BeginTransaction
  <2>2. CASE TransactionCommitted(c) \/ TransactionFailed(c)
    BY <1>1, <2>2 DEF TransactionCommitted, TransactionFailed, LeavesTransaction
  <2>3. CASE \/ TransactionBegun(c) \/ WorkEnds(c) \/ RunCallback(c)
             \/ CallbacksDone(c) \/ Dispose(c) \/ TransactionSettles(c)
             \/ \E s \in Saves : StartSave(c, s)
    BY <2>3 DEF TransactionBegun, WorkEnds, RunCallback, CallbacksDone, StartSave,
                TransactionSettles, Dispose, chainVars
  <2>4. CASE SaveStep(c)
    BY <2>4 DEF SaveStep, SaveSettles, ExecuteSave, SaveBegun, SaveAccepted, SaveThrows, SaveCloses,
                AfterCommitted, SavedNotified, SaveFailed, FailureNotified
  <2> QED
    BY <2>1, <2>2, <2>3, <2>4 DEF ChainStep, TransactionStep
<1> QED
  BY <1>3, <1>4 DEF OpenFrames

\* The five things a step of chain c can do to the guard and to the stack.
LeavesGuard(c) ==
  /\ owner' = owner /\ Len(frames') = Len(frames) /\ OpenFrames(c)' = OpenFrames(c)
  /\ pc'[c] \notin {"begin", "saveBegin"}

TakesGuard(c) ==
  /\ owner \in {Nobody, c} /\ owner' = c
  /\ Len(frames') = Len(frames) /\ OpenFrames(c)' = OpenFrames(c)

Pushes(c) ==
  /\ owner = c /\ owner' = c
  /\ Len(frames') = Len(frames) + 1 /\ OpenFrames(c)' = OpenFrames(c) + 1

PushFails(c) ==
  /\ owner = c /\ owner' = IF Len(frames) = 0 THEN Nobody ELSE c
  /\ Len(frames') = Len(frames) /\ OpenFrames(c)' = OpenFrames(c)
  /\ pc'[c] \notin {"begin", "saveBegin"}

Pops(c) ==
  /\ owner = c /\ owner' = IF Len(frames) = 1 THEN Nobody ELSE c
  /\ Len(frames') = Len(frames) - 1 /\ OpenFrames(c)' = OpenFrames(c) - 1
  /\ pc'[c] \notin {"begin", "saveBegin"}

LEMMA GuardMoves ==
  ASSUME GInv, NEW c \in Chains, ChainStep(c)
  PROVE  LeavesGuard(c) \/ TakesGuard(c) \/ Pushes(c) \/ PushFails(c) \/ Pops(c)
<1>1. /\ TypeOK
      /\ pc \in [Chains -> Pc] /\ txs \in [Chains -> Seq(Transaction)]
      /\ Len(txs[c]) \in Nat /\ Len(frames) \in Nat
      /\ pc[c] \in {"begin", "rejected", "lost", "undone", "committed", "failed"} => Len(txs[c]) > 0
  BY DEF GInv, TInv, TypeOK, CallsAreKnown
<1>2. \A label : Goto(c, label) => pc'[c] = label
  BY <1>1 DEF Goto
<1>3. CASE BeginTransaction(c)
  <2>1. Len(txs'[c]) = Len(txs[c]) + 1 /\ frames' = frames /\ pc[c] = "app"
    BY <1>1, <1>3 DEF BeginTransaction, MayCall, storeVars
  <2>2. CASE Admitted(c)
    <3>1. pc'[c] = "begin" /\ owner' = c /\ owner \in {Nobody, c}
      BY <1>2, <1>3, <2>2 DEF BeginTransaction, Admitted
    <3>2. OpenFrames(c)' = OpenFrames(c)
      BY <1>1, <2>1, <3>1 DEF OpenFrames
    <3> QED
      BY <2>1, <3>1, <3>2 DEF TakesGuard
  <2>3. CASE ~Admitted(c)
    <3>1. pc'[c] = "rejected" /\ owner' = owner
      BY <1>2, <1>3, <2>3 DEF BeginTransaction
    <3>2. OpenFrames(c)' = OpenFrames(c)
      BY <1>1, <2>1, <3>1 DEF OpenFrames
    <3> QED
      BY <2>1, <3>1, <3>2 DEF LeavesGuard
  <2> QED
    BY <2>2, <2>3
<1>4. CASE TransactionBegun(c)
  <2>1. owner = c /\ pc[c] = "begin" /\ txs' = txs
    BY <1>4, HoldsGuard DEF TransactionBegun
  <2>2. CASE Opens(c, "app")
    <3>1. pc'[c] = "app" /\ owner' = owner /\ Len(frames') = Len(frames) + 1
      BY <1>1, <1>2, <2>2, StoreMoves
    <3>2. OpenFrames(c)' = OpenFrames(c) + 1
      BY <1>1, <2>1, <3>1 DEF OpenFrames
    <3> QED
      BY <2>1, <3>1, <3>2 DEF Pushes
  <2>3. CASE FailsToOpen(c, "undone")
    <3>1. /\ pc'[c] = "undone" /\ Len(frames') = Len(frames)
          /\ owner' = IF Len(frames) = 0 THEN Nobody ELSE owner
      BY <1>1, <1>2, <2>3, StoreMoves
    <3>2. OpenFrames(c)' = OpenFrames(c)
      BY <1>1, <2>1, <3>1 DEF OpenFrames
    <3> QED
      BY <2>1, <3>1, <3>2 DEF PushFails
  <2> QED
    BY <1>4, <2>2, <2>3 DEF TransactionBegun
<1>5. CASE WorkEnds(c)
  <2>1. owner = c /\ pc[c] = "app" /\ txs' = txs
    BY <1>5, HoldsGuard DEF WorkEnds
  <2>2. /\ Len(frames') = Len(frames) - 1
        /\ owner' = IF Len(frames) = 1 THEN Nobody ELSE owner
        /\ Goto(c, "committed") \/ Goto(c, "lost") \/ Goto(c, "undone")
    BY <1>1, <1>5, StoreMoves DEF WorkEnds
  <2>3. pc'[c] \in {"committed", "lost", "undone"}
    BY <1>2, <2>2
  <2>4. OpenFrames(c)' = OpenFrames(c) - 1
    BY <1>1, <2>1, <2>3 DEF OpenFrames
  <2> QED
    BY <2>1, <2>2, <2>3, <2>4 DEF Pops
<1>6. CASE TransactionCommitted(c) \/ TransactionFailed(c)
  <2>1. /\ pc[c] \in {"committed", "failed"}
        /\ LeavesTransaction(c)
        /\ frames' = frames /\ owner' = owner
        /\ Goto(c, "flushing") \/ Goto(c, "app")
    BY <1>6 DEF TransactionCommitted, TransactionFailed, storeVars, guardVars
  <2>2. txs[c] # <<>> /\ txs[c] \in Seq(Transaction)
    BY <1>1, <2>1
  <2>3. Len(txs'[c]) = Len(txs[c]) - 1
    BY <1>1, <2>1, <2>2, FrontType DEF LeavesTransaction
  <2>4. pc'[c] \in {"flushing", "app"}
    BY <1>2, <2>1
  <2>5. OpenFrames(c)' = OpenFrames(c)
    <3>1. OpenFrames(c) = Len(txs[c]) - 1 + 0
      BY <2>1, Zenon DEF OpenFrames
    <3>2. OpenFrames(c)' = Len(txs'[c]) - 0 + 0
      BY <2>4, Zenon DEF OpenFrames
    <3> QED
      BY <1>1, <2>3, <3>1, <3>2
  <2> QED
    BY <2>1, <2>4, <2>5 DEF LeavesGuard
<1>7. CASE RunCallback(c) \/ Dispose(c)
  <2>1. /\ pc' = pc /\ txs' = txs /\ frames' = frames /\ owner' = owner
        /\ pc[c] \in {"flushing", "app"}
    BY <1>7 DEF RunCallback, Dispose, MayCall, storeVars, guardVars, chainVars
  <2> QED
    BY <2>1 DEF LeavesGuard, OpenFrames
<1>8. CASE ExecuteSave(c)
  <2>1. pc[c] = "saving" /\ txs' = txs /\ frames' = frames
    BY <1>8 DEF ExecuteSave, storeVars
  <2>2. CASE owner \in {Nobody, c} /\ owner' = c /\ Goto(c, "saveBegin")
    <3>1. pc'[c] = "saveBegin"
      BY <1>2, <2>2
    <3> QED
      BY <1>1, <2>1, <2>2, <3>1 DEF TakesGuard, OpenFrames
  <2>3. CASE owner' = owner /\ (Goto(c, "saveFailed") \/ Goto(c, "saveRefused"))
    <3>1. pc'[c] \in {"saveFailed", "saveRefused"}
      BY <1>2, <2>3
    <3> QED
      BY <1>1, <2>1, <2>3, <3>1 DEF LeavesGuard, OpenFrames
  <2> QED
    BY <1>8, <2>2, <2>3 DEF ExecuteSave, Admitted
<1>9. CASE SaveBegun(c)
  <2>1. owner = c /\ pc[c] = "saveBegin" /\ txs' = txs
    BY <1>9, HoldsGuard DEF SaveBegun
  <2>2. CASE Opens(c, "saveWork")
    <3>1. pc'[c] = "saveWork" /\ owner' = owner /\ Len(frames') = Len(frames) + 1
      BY <1>1, <1>2, <2>2, StoreMoves
    <3>2. OpenFrames(c)' = OpenFrames(c) + 1
      BY <1>1, <2>1, <3>1 DEF OpenFrames
    <3> QED
      BY <2>1, <3>1, <3>2 DEF Pushes
  <2>3. CASE FailsToOpen(c, "saveUndone")
    <3>1. /\ pc'[c] = "saveUndone" /\ Len(frames') = Len(frames)
          /\ owner' = IF Len(frames) = 0 THEN Nobody ELSE owner
      BY <1>1, <1>2, <2>3, StoreMoves
    <3>2. OpenFrames(c)' = OpenFrames(c)
      BY <1>1, <2>1, <3>1 DEF OpenFrames
    <3> QED
      BY <2>1, <3>1, <3>2 DEF PushFails
  <2> QED
    BY <1>9, <2>2, <2>3 DEF SaveBegun
<1>10. CASE SaveAccepted(c)
  <2>1. pc[c] = "saveWork" /\ txs' = txs /\ owner' = owner /\ pc'[c] = "accepted"
    BY <1>2, <1>10 DEF SaveAccepted, guardVars
  <2>2. Len(frames') = Len(frames)
    BY <1>1, <1>10 DEF SaveAccepted, TypeOK
  <2> QED
    BY <1>1, <2>1, <2>2 DEF LeavesGuard, OpenFrames
<1>11. CASE SaveThrows(c) \/ SaveCloses(c)
  <2>1. owner = c /\ pc[c] \in {"saveWork", "accepted"} /\ txs' = txs
    BY <1>11, HoldsGuard DEF SaveThrows, SaveCloses
  <2>2. /\ Len(frames') = Len(frames) - 1
        /\ owner' = IF Len(frames) = 1 THEN Nobody ELSE owner
        /\ Goto(c, "saved") \/ Goto(c, "saveLost") \/ Goto(c, "saveUndone")
    BY <1>1, <1>11, StoreMoves DEF SaveThrows, SaveCloses
  <2>3. pc'[c] \in {"saved", "saveLost", "saveUndone"}
    BY <1>2, <2>2
  <2>4. OpenFrames(c)' = OpenFrames(c) - 1
    <3>1. OpenFrames(c) = Len(txs[c]) - 0 + 1
      BY <2>1, Zenon DEF OpenFrames
    <3>2. OpenFrames(c)' = Len(txs[c]) - 0 + 0
      BY <2>1, <2>3, Zenon DEF OpenFrames
    <3> QED
      BY <1>1, <3>1, <3>2
  <2> QED
    BY <2>1, <2>2, <2>3, <2>4 DEF Pops
<1>12. CASE \/ CallbacksDone(c) \/ AfterCommitted(c) \/ SavedNotified(c)
            \/ SaveFailed(c) \/ FailureNotified(c)
            \/ \E s \in Saves : StartSave(c, s)
  <2>1. /\ pc[c] \in {"flushing", "saved", "notifying", "saveFailed", "failing",
                      "failingBroken", "app"}
        /\ txs' = txs /\ frames' = frames /\ owner' = owner
    BY <1>12 DEF CallbacksDone, AfterCommitted, SavedNotified, SaveFailed,
                 FailureNotified, StartSave, MayCall, storeVars, guardVars
  <2>2. pc'[c] \in {"app", "notifying", "failing", "failingBroken", "saving"}
    BY <1>2, <1>12 DEF CallbacksDone, AfterCommitted, SavedNotified, SaveFailed,
                       FailureNotified, StartSave
  <2> QED
    BY <1>1, <2>1, <2>2 DEF LeavesGuard, OpenFrames
<1>13. CASE TransactionSettles(c) \/ SaveSettles(c)
  <2>1. /\ UNCHANGED <<txs, frames, owner>>
        /\ \/ pc[c] \in {"lost", "rejected", "undone"} /\ pc'[c] = "failed"
           \/ pc[c] \in {"saveLost", "saveRefused", "saveUndone"} /\ pc'[c] = "saveFailed"
    BY <1>2, <1>13 DEF TransactionSettles, SaveSettles, LearnsVerdict, storeVars
  <2> QED
    BY <1>1, <2>1 DEF LeavesGuard, OpenFrames
<1> QED
  BY <1>3, <1>4, <1>5, <1>6, <1>7, <1>8, <1>9, <1>10, <1>11, <1>12, <1>13
     DEF ChainStep, TransactionStep, SaveStep

LEMMA StepKeepsGuard ==
  ASSUME GInv, NEW c \in Chains, ChainStep(c)
  PROVE  GuardHeld' /\ FramesBelongToOwner'
<1>1. /\ TypeOK /\ Len(frames) \in Nat /\ c # Nobody
      /\ \A d \in Chains : OpenFrames(d) = IF d = owner THEN Len(frames) ELSE 0
      /\ owner = Nobody => Len(frames) = 0
      /\ \A d \in Chains : pc[d] \in {"begin", "saveBegin"} => owner = d
  BY UnitOfWorkAssumption DEF GInv, TInv, TypeOK, GuardHeld, FramesBelongToOwner
<1>2. \A d \in Chains \ {c} : pc'[d] = pc[d] /\ OpenFrames(d)' = OpenFrames(d)
  BY <1>1, OthersKeep
<1>3. LeavesGuard(c) \/ TakesGuard(c) \/ Pushes(c) \/ PushFails(c) \/ Pops(c)
  BY GuardMoves
<1>4. owner' = Nobody => Len(frames') = 0
  <2>1. CASE LeavesGuard(c)
    BY <1>1, <2>1 DEF LeavesGuard
  <2>2. CASE TakesGuard(c)
    BY <1>1, <2>2 DEF TakesGuard
  <2>3. CASE Pushes(c)
    BY <1>1, <2>3 DEF Pushes
  <2>4. CASE PushFails(c)
    BY <1>1, <2>4 DEF PushFails
  <2>5. CASE Pops(c)
    BY <1>1, <2>5 DEF Pops
  <2> QED
    BY <1>3, <2>1, <2>2, <2>3, <2>4, <2>5
<1>5. ASSUME NEW d \in Chains, pc'[d] \in {"begin", "saveBegin"}
      PROVE  owner' = d
  <2>1. CASE d = c
    BY <1>1, <1>3, <1>5, <2>1 DEF LeavesGuard, TakesGuard, Pushes, PushFails, Pops
  <2>2. CASE d # c
    <3>1. owner = d /\ d # Nobody
      BY <1>1, <1>2, <1>5, <2>2, UnitOfWorkAssumption
    <3> QED
      BY <1>3, <2>2, <3>1 DEF LeavesGuard, TakesGuard, Pushes, PushFails, Pops
  <2> QED
    BY <2>1, <2>2
<1>6. ASSUME NEW d \in Chains
      PROVE  OpenFrames(d)' = IF d = owner' THEN Len(frames') ELSE 0
  <2>1. CASE d = c
    <3>1. CASE LeavesGuard(c)
      BY <1>1, <2>1, <3>1 DEF LeavesGuard
    <3>2. CASE TakesGuard(c)
      BY <1>1, <2>1, <3>2 DEF TakesGuard
    <3>3. CASE Pushes(c)
      BY <1>1, <2>1, <3>3 DEF Pushes
    <3>4. CASE PushFails(c)
      BY <1>1, <2>1, <3>4 DEF PushFails
    <3>5. CASE Pops(c)
      BY <1>1, <2>1, <3>5 DEF Pops
    <3> QED
      BY <1>3, <3>1, <3>2, <3>3, <3>4, <3>5
  <2>2. CASE d # c
    <3>1. OpenFrames(d)' = IF d = owner THEN Len(frames) ELSE 0
      BY <1>1, <1>2, <2>2
    <3>2. d # Nobody
      BY UnitOfWorkAssumption
    <3> QED
      BY <1>1, <1>3, <2>2, <3>1, <3>2
         DEF LeavesGuard, TakesGuard, Pushes, PushFails, Pops
  <2> QED
    BY <2>1, <2>2
<1> QED
  BY <1>4, <1>5, <1>6 DEF GuardHeld, FramesBelongToOwner

LEMMA GuardInvariant == Spec => []GInv
<1>1. Init => GInv
  <2> SUFFICES ASSUME Init
               PROVE  GInv
    OBVIOUS
  <2>1. TInv
    BY InitTypes
  <2>2. GuardHeld
    BY DEF Init, GuardHeld
  <2>3. FramesBelongToOwner
    <3>1. \A c \in Chains : pc[c] = "app" /\ txs[c] = <<>> /\ frames = <<>>
      BY DEF Init
    <3>2. \A c \in Chains : OpenFrames(c) = Len(<<>>) - 0 + 0
      BY <3>1, Zenon DEF OpenFrames
    <3>3. Len(frames) = 0
      BY DEF Init
    <3> QED
      BY <3>2, <3>3 DEF FramesBelongToOwner
  <2> QED
    BY <2>1, <2>2, <2>3 DEF GInv
<1>2. GInv /\ [Next]_vars => GInv'
  <2> SUFFICES ASSUME GInv, [Next]_vars
               PROVE  GInv'
    OBVIOUS
  <2>1. CASE UNCHANGED vars
    BY <2>1 DEF vars, storeVars, guardVars, contextVars, chainVars, GInv, TInv, TypeOK,
                CallsAreKnown, GuardHeld, FramesBelongToOwner, OpenFrames
  <2>2. CASE Next
    BY <2>2, NextIsAChainStep, StepKeepsTypes, StepKeepsGuard DEF GInv
  <2> QED
    BY <2>1, <2>2
<1> QED
  BY <1>1, <1>2, PTL DEF Spec

\* No chain has a statement, a savepoint or a commit in a transaction stack that
\* another chain owns: what ExclusiveOperationGuard promises, for any number of
\* chains, overlapping or not, and any nesting.
THEOREM StackBelongsToOwner == Spec => []FramesBelongToOwner
<1>1. GInv => FramesBelongToOwner
  BY DEF GInv
<1> QED
  BY <1>1, GuardInvariant, PTL

-----------------------------------------------------------------------------
(* The lock of saveChanges() *)

LInv == TInv /\ SaveHasTheLock

\* A step that leaves its chain inside saveChanges(), or outside of it, leaves the
\* lock alone.
LEMMA StayingKeepsTheLock ==
  ASSUME LInv, NEW c \in Chains, NEW label, Goto(c, label),
         pc[c] \in SavePc <=> label \in SavePc, UNCHANGED <<saving, saveInProgress>>
  PROVE  SaveHasTheLock'
<1>1. \A d \in Chains : pc'[d] \in SavePc <=> pc[d] \in SavePc
  BY DEF LInv, TInv, TypeOK, Goto
<1> QED
  BY <1>1 DEF LInv, SaveHasTheLock

\* The way out of saveChanges() gives the lock back, and there is nobody else
\* inside that goes on without it.
LEMMA LeavingFreesTheLock ==
  ASSUME LInv, NEW c \in Chains, pc[c] \in SavePc, LeavesSave(c), Goto(c, "app")
  PROVE  SaveHasTheLock'
<1>1. /\ pc \in [Chains -> Pc]
      /\ saving \in [Chains -> Saves \cup {NoSave}]
  BY DEF LInv, TInv, TypeOK
<1>2. saving[c] # NoSave /\ \A d \in Chains \ {c} : saving[d] = NoSave
  BY DEF LInv, SaveHasTheLock
<1>3. \A d \in Chains : saving'[d] = NoSave
  BY <1>1, <1>2 DEF LeavesSave
<1>4. \A d \in Chains : pc'[d] \notin SavePc
  <2>1. pc'[c] = "app" /\ \A d \in Chains \ {c} : pc'[d] = pc[d]
    BY <1>1 DEF Goto
  <2>2. \A d \in Chains \ {c} : pc[d] \notin SavePc
    BY <1>2 DEF LInv, SaveHasTheLock
  <2> QED
    BY <2>1, <2>2 DEF SavePc
<1> QED
  BY <1>3, <1>4 DEF LeavesSave, SaveHasTheLock

\* saveChanges() starts only where no chain is inside it.
LEMMA StartingTakesTheLock ==
  ASSUME LInv, NEW c \in Chains, NEW s \in Saves, StartSave(c, s)
  PROVE  SaveHasTheLock'
<1>1. /\ pc \in [Chains -> Pc]
      /\ saving \in [Chains -> Saves \cup {NoSave}]
      /\ s # NoSave
  BY UnitOfWorkAssumption DEF LInv, TInv, TypeOK
<1>2. \A d \in Chains : saving[d] = NoSave /\ pc[d] \notin SavePc
  BY DEF LInv, SaveHasTheLock, StartSave
<1>3. saving'[c] = s /\ \A d \in Chains \ {c} : saving'[d] = NoSave
  BY <1>1, <1>2 DEF StartSave, TakesSave
<1>4. pc'[c] = "saving" /\ \A d \in Chains \ {c} : pc'[d] = pc[d]
  BY <1>1 DEF StartSave, Goto
<1>5. saveInProgress'
  BY DEF StartSave, TakesSave
<1> QED
  BY <1>1, <1>2, <1>3, <1>4, <1>5 DEF SaveHasTheLock, SavePc

\* The way through saveChanges(), one suspended call after the other.
LEMMA SaveStepKeepsTheLock ==
  ASSUME LInv, NEW c \in Chains, SaveStep(c)
  PROVE  SaveHasTheLock'
<1>1. CASE ExecuteSave(c)
  <2>1. Goto(c, "saveBegin") \/ Goto(c, "saveRefused") \/ Goto(c, "saveFailed")
    BY <1>1 DEF ExecuteSave
  <2> QED
    BY <1>1, <2>1, StayingKeepsTheLock DEF ExecuteSave, SavePc
<1>2. CASE SaveBegun(c)
  <2>1. Goto(c, "saveWork") \/ Goto(c, "saveUndone")
    BY <1>2 DEF SaveBegun, Opens, FailsToOpen
  <2> QED
    BY <1>2, <2>1, StayingKeepsTheLock DEF SaveBegun, SavePc
<1>3. CASE SaveAccepted(c)
  BY <1>3, StayingKeepsTheLock DEF SaveAccepted, SavePc
<1>4. CASE SaveThrows(c)
  <2>1. Goto(c, "saveUndone")
    BY <1>4 DEF SaveThrows, RollsBack, RollsBackRoot, RollsBackToSavepoint, FailsToClean
  <2> QED
    BY <1>4, <2>1, StayingKeepsTheLock DEF SaveThrows, SavePc
<1>5. CASE SaveCloses(c)
  <2>1. Goto(c, "saved") \/ Goto(c, "saveLost") \/ Goto(c, "saveUndone")
    BY <1>5 DEF SaveCloses, Closes, RollsBack, RollsBackRoot, RollsBackToSavepoint, FailsToClean,
                CommitsRoot, ReleasesSavepoint, LosesCommit
  <2> QED
    BY <1>5, <2>1, StayingKeepsTheLock DEF SaveCloses, SavePc
<1>6. CASE AfterCommitted(c)
  <2>1. pc[c] \in SavePc /\ "notifying" \in SavePc
    BY <1>6 DEF AfterCommitted, SavePc
  <2>2. CASE Deferred
    BY <1>6, <2>1, <2>2, LeavingFreesTheLock DEF AfterCommitted
  <2>3. CASE ~Deferred
    BY <1>6, <2>1, <2>3, StayingKeepsTheLock DEF AfterCommitted
  <2> QED
    BY <2>2, <2>3
<1>7. CASE SavedNotified(c)
  BY <1>7, LeavingFreesTheLock DEF SavedNotified, SavePc
<1>8. CASE SaveFailed(c)
  <2>1. Goto(c, "failing") \/ Goto(c, "failingBroken")
    BY <1>8 DEF SaveFailed
  <2> QED
    BY <1>8, <2>1, StayingKeepsTheLock DEF SaveFailed, SavePc
<1>9. CASE FailureNotified(c)
  BY <1>9, LeavingFreesTheLock DEF FailureNotified, SavePc
<1>10. CASE SaveSettles(c)
  BY <1>10, StayingKeepsTheLock DEF SaveSettles, LearnsVerdict, SavePc
<1> QED
  BY <1>1, <1>2, <1>3, <1>4, <1>5, <1>6, <1>7, <1>8, <1>9, <1>10 DEF SaveStep

\* A transaction() and its callbacks are outside saveChanges() all the way.
LEMMA TransactionStepKeepsTheLock ==
  ASSUME LInv, NEW c \in Chains, TransactionStep(c)
  PROVE  SaveHasTheLock'
<1>1. CASE TransactionBegun(c)
  <2>1. Goto(c, "app") \/ Goto(c, "undone")
    BY <1>1 DEF TransactionBegun, Opens, FailsToOpen
  <2> QED
    BY <1>1, <2>1, StayingKeepsTheLock DEF TransactionBegun, SavePc
<1>2. CASE WorkEnds(c)
  <2>1. Goto(c, "committed") \/ Goto(c, "lost") \/ Goto(c, "undone")
    BY <1>2 DEF WorkEnds, Closes, RollsBack, RollsBackRoot, RollsBackToSavepoint, FailsToClean,
                CommitsRoot, ReleasesSavepoint, LosesCommit
  <2> QED
    BY <1>2, <2>1, StayingKeepsTheLock DEF WorkEnds, SavePc
<1>3. CASE TransactionCommitted(c)
  <2>1. Goto(c, "flushing") \/ Goto(c, "app")
    BY <1>3 DEF TransactionCommitted
  <2> QED
    BY <1>3, <2>1, StayingKeepsTheLock DEF TransactionCommitted, SavePc
<1>4. CASE TransactionFailed(c)
  BY <1>4, StayingKeepsTheLock DEF TransactionFailed, SavePc
<1>5. CASE RunCallback(c)
  BY <1>5 DEF RunCallback, LInv, SaveHasTheLock
<1>6. CASE CallbacksDone(c)
  BY <1>6, StayingKeepsTheLock DEF CallbacksDone, SavePc
<1>7. CASE TransactionSettles(c)
  BY <1>7, StayingKeepsTheLock DEF TransactionSettles, LearnsVerdict, SavePc
<1> QED
  BY <1>1, <1>2, <1>3, <1>4, <1>5, <1>6, <1>7 DEF TransactionStep

\* The lock is taken exactly while a chain is inside saveChanges(), and by one
\* chain, so that UnitOfWorkSaver never runs twice over one tracker and no overlap,
\* failure or nesting leaves the context locked with nobody inside: the safe half
\* of SaveReleasesContext, for any chains, overlapping or not.
THEOREM OneSaveHoldsTheLock == Spec => []SaveHasTheLock
<1>1. Init => LInv
  <2>1. Init => SaveHasTheLock
    BY DEF Init, SaveHasTheLock, SavePc
  <2> QED
    BY <2>1, InitTypes DEF LInv
<1>2. LInv /\ [Next]_vars => LInv'
  <2> SUFFICES ASSUME LInv, [Next]_vars
               PROVE  LInv'
    OBVIOUS
  <2>1. CASE UNCHANGED vars
    BY <2>1 DEF vars, storeVars, guardVars, contextVars, chainVars, LInv, TInv, TypeOK,
                CallsAreKnown, SaveHasTheLock
  <2>2. CASE Next
    <3>1. PICK c \in Chains : ChainStep(c)
      BY <2>2, NextIsAChainStep
    <3>2. TInv'
      BY <3>1, StepKeepsTypes DEF LInv
    <3>3. CASE BeginTransaction(c)
      <4>1. Goto(c, "begin") \/ Goto(c, "rejected")
        BY <3>3 DEF BeginTransaction
      <4>2. pc[c] = "app" /\ UNCHANGED <<saving, saveInProgress>>
        BY <3>3 DEF BeginTransaction, MayCall
      <4>3. SaveHasTheLock'
        BY <4>1, <4>2, StayingKeepsTheLock DEF SavePc
      <4> QED
        BY <3>2, <4>3 DEF LInv
    <3>4. CASE Dispose(c)
      <4>1. SaveHasTheLock'
        BY <3>4 DEF Dispose, chainVars, LInv, SaveHasTheLock
      <4> QED
        BY <3>2, <4>1 DEF LInv
    <3>5. CASE \/ TransactionStep(c) \/ SaveStep(c)
               \/ \E s \in Saves : StartSave(c, s)
      BY <3>2, <3>5, TransactionStepKeepsTheLock, SaveStepKeepsTheLock,
         StartingTakesTheLock DEF LInv
    <3> QED
      BY <3>1, <3>3, <3>4, <3>5 DEF ChainStep
  <2> QED
    BY <2>1, <2>2
<1>3. LInv => SaveHasTheLock
  BY DEF LInv
<1> QED
  BY <1>1, <1>2, <1>3, PTL DEF Spec

-----------------------------------------------------------------------------
(* Silence after a commit without a verdict, with chains that overlap *)

LostPc == {"lost", "saveLost"}

\* The root is closed when its verdict is lost, and as long as the connection
\* remembers that, nothing is written in whatever was opened since.
NothingPending ==
  /\ \A c \in Chains : pc[c] \in LostPc => Len(frames) = 0
  /\ outcomeUnknown => \A i \in 1..Len(frames) : frames[i] = {}

\* The provider has nothing to commit that was not written.
LEMMA EmptyStaysEmpty ==
  ASSUME TypeOK, NEW c \in Chains, NEW done, NEW lost, NEW failed,
         \/ Opens(c, done) \/ FailsToOpen(c, failed)
         \/ Closes(c, done, lost, failed) \/ RollsBack(c, failed),
         \A i \in 1..Len(frames) : frames[i] = {}
  PROVE  durable' = durable /\ \A i \in 1..Len(frames') : frames'[i] = {}
<1>1. frames \in Seq(SUBSET Saves) /\ Len(frames) \in Nat
  BY DEF TypeOK
<1>2. CASE Opens(c, done)
  BY <1>1, <1>2 DEF Opens
<1>3. CASE FailsToOpen(c, failed)
  BY <1>3 DEF FailsToOpen
<1>4. CASE RollsBackRoot(c, failed) \/ CommitsRoot(c, done) \/ LosesCommit(c, lost)
  <2>1. Len(frames) = 1 /\ frames' = <<>> /\ frames[1] = {}
    BY <1>4 DEF RollsBackRoot, CommitsRoot, LosesCommit
  <2> QED
    BY <1>4, <2>1 DEF RollsBackRoot, CommitsRoot, LosesCommit
<1>5. CASE RollsBackToSavepoint(c, failed) \/ FailsToClean(c, failed) \/ ReleasesSavepoint(c, done)
  <2> DEFINE F == Len(frames)
             Below == Front(frames)
  <2>1. F > 1 /\ durable' = durable
    BY <1>5 DEF RollsBackToSavepoint, FailsToClean, ReleasesSavepoint
  <2>2. /\ Below \in Seq(SUBSET Saves) /\ Len(Below) = F - 1
        /\ \A i \in 1..(F - 1) : Below[i] = {}
        /\ Last(frames) = {}
    <3>1. frames # <<>> /\ F \in 1..F
      BY <1>1, <2>1
    <3>2. /\ Below \in Seq(SUBSET Saves) /\ Len(Below) = F - 1
          /\ \A i \in 1..(F - 1) : Below[i] = frames[i]
      BY <1>1, <3>1, FrontType
    <3>3. \A i \in 1..(F - 1) : i \in 1..F
      BY <1>1, <3>1
    <3>4. frames[F] = {} /\ \A i \in 1..(F - 1) : frames[i] = {}
      BY <3>1, <3>3
    <3>5. Last(frames) = frames[F]
      BY DEF Last
    <3> QED
      BY <3>2, <3>4, <3>5
  <2>3. frames' = Below \/ frames' = [Below EXCEPT ![F - 1] = @ \cup {}]
    <3>1. CASE RollsBackToSavepoint(c, failed)
      BY <3>1 DEF RollsBackToSavepoint
    <3>2. CASE ReleasesSavepoint(c, done)
      BY <2>2, <3>2 DEF ReleasesSavepoint
    <3>3. CASE FailsToClean(c, failed)
      <4>1. PICK kept \in {{}, Last(frames)} :
              frames' = [Front(frames) EXCEPT ![Len(frames) - 1] = @ \cup kept]
        BY <3>3 DEF FailsToClean
      <4> QED
        BY <2>2, <4>1
    <3> QED
      BY <1>5, <3>1, <3>2, <3>3
  <2> HIDE DEF F, Below
  <2>4. F - 1 \in 1..Len(Below) /\ F \in Nat
    BY <1>1, <2>1, <2>2 DEF F
  <2> QED
    BY <2>1, <2>2, <2>3, <2>4
<1> QED
  BY <1>2, <1>3, <1>4, <1>5 DEF Closes, RollsBack

LEMMA NothingIsWritten ==
  ASSUME GInv, NothingPending, NEW c \in Chains, ChainStep(c)
  PROVE  NothingPending' /\ (outcomeUnknown => durable' = durable)
<1>1. TypeOK /\ pc \in [Chains -> Pc] /\ \A d \in Chains \ {c} : pc'[d] = pc[d]
  BY OthersKeep DEF GInv, TInv, TypeOK
<1>2. \A label : Goto(c, label) => pc'[c] = label
  BY <1>1 DEF Goto
<1>3. CASE \/ TransactionBegun(c) \/ WorkEnds(c) \/ SaveBegun(c)
           \/ SaveThrows(c) \/ SaveCloses(c)
  <2>1. PICK done \in {"app", "committed", "saveWork", "saved"}, failed \in {"undone", "saveUndone"},
             lost \in LostPc :
          \/ Opens(c, done) \/ FailsToOpen(c, failed)
          \/ Closes(c, done, lost, failed) \/ RollsBack(c, failed)
    BY <1>3 DEF TransactionBegun, WorkEnds, SaveBegun, SaveThrows, SaveCloses, LostPc
  <2>2. \A d \in Chains : pc[d] \notin LostPc
    BY <1>3 DEF TransactionBegun, WorkEnds, SaveBegun, SaveThrows, SaveCloses,
                DriverMayAnswer, Settling, LostPc
  <2>3. outcomeUnknown' => outcomeUnknown
    BY <2>1 DEF Opens, FailsToOpen, Closes, RollsBack, RollsBackRoot, RollsBackToSavepoint,
                FailsToClean, CommitsRoot, LosesCommit, ReleasesSavepoint,
                guardVars
  <2>4. pc'[c] \in LostPc => Len(frames') = 0
    <3>1. CASE LosesCommit(c, lost)
      BY <3>1 DEF LosesCommit
    <3>2. CASE ~LosesCommit(c, lost)
      <4>1. Goto(c, done) \/ Goto(c, failed)
        BY <2>1, <3>2 DEF Opens, FailsToOpen, Closes, RollsBack, RollsBackRoot,
                          RollsBackToSavepoint, FailsToClean, CommitsRoot, ReleasesSavepoint
      <4> QED
        BY <1>2, <4>1 DEF LostPc
    <3> QED
      BY <3>1, <3>2
  <2>5. outcomeUnknown =>
          durable' = durable /\ \A i \in 1..Len(frames') : frames'[i] = {}
    BY <1>1, <2>1, EmptyStaysEmpty DEF NothingPending
  <2> QED
    BY <1>1, <2>2, <2>3, <2>4, <2>5 DEF NothingPending
<1>4. CASE BeginTransaction(c) \/ ExecuteSave(c)
  <2>1. UNCHANGED <<durable, frames, outcomeUnknown>>
    BY <1>4 DEF BeginTransaction, ExecuteSave, storeVars
  <2>2. pc'[c] \notin LostPc
    BY <1>2, <1>4 DEF BeginTransaction, ExecuteSave, LostPc
  <2> QED
    BY <1>1, <2>1, <2>2 DEF NothingPending
<1>5. CASE SaveAccepted(c)
  <2>1. ~outcomeUnknown /\ UNCHANGED <<durable, outcomeUnknown>>
    BY <1>5 DEF SaveAccepted, guardVars
  <2>2. \A d \in Chains : pc'[d] \notin LostPc
    <3>1. pc'[c] \notin LostPc
      BY <1>2, <1>5 DEF SaveAccepted, LostPc
    <3>2. \A d \in Chains : pc[d] \notin LostPc
      BY <1>5 DEF SaveAccepted, DriverMayAnswer, Settling, LostPc
    <3> QED
      BY <1>1, <3>1, <3>2
  <2> QED
    BY <2>1, <2>2 DEF NothingPending
<1>6. CASE TransactionSettles(c) \/ SaveSettles(c)
  <2>1. UNCHANGED <<durable, frames>> /\ (outcomeUnknown' => outcomeUnknown \/ pc[c] \in LostPc)
    BY <1>6 DEF TransactionSettles, SaveSettles, LearnsVerdict, storeVars, LostPc
  <2>2. pc'[c] \notin LostPc
    BY <1>2, <1>6 DEF TransactionSettles, SaveSettles, LearnsVerdict, LostPc
  <2> QED
    BY <1>1, <2>1, <2>2 DEF NothingPending
<1>7. CASE \/ TransactionCommitted(c) \/ TransactionFailed(c) \/ RunCallback(c)
           \/ CallbacksDone(c) \/ AfterCommitted(c) \/ SavedNotified(c)
           \/ SaveFailed(c) \/ FailureNotified(c) \/ Dispose(c)
           \/ \E s \in Saves : StartSave(c, s)
  <2>1. UNCHANGED <<durable, frames, outcomeUnknown>>
    BY <1>7 DEF TransactionCommitted, TransactionFailed, RunCallback, CallbacksDone,
                AfterCommitted, SavedNotified, SaveFailed, FailureNotified, Dispose,
                StartSave, storeVars, guardVars
  <2>2. pc'[c] = pc[c] \/ pc'[c] \notin LostPc
    BY <1>2, <1>7 DEF TransactionCommitted, TransactionFailed, RunCallback, CallbacksDone,
                AfterCommitted, SavedNotified, SaveFailed, FailureNotified, Dispose,
                StartSave, chainVars, LostPc
  <2> QED
    BY <1>1, <2>1, <2>2 DEF NothingPending
<1> QED
  BY <1>3, <1>4, <1>5, <1>6, <1>7 DEF ChainStep, TransactionStep, SaveStep

LEMMA SilenceLasts ==
  ASSUME GInv, outcomeUnknown, \A d \in Chains : ~Inside(d), NEW c \in Chains, ChainStep(c)
  PROVE  /\ outcomeUnknown' /\ UNCHANGED <<frames, owner>>
         /\ \A d \in Chains : ~Inside(d)'
<1>1. /\ owner = Nobody /\ c # Nobody /\ owner # c /\ pc \in [Chains -> Pc]
      /\ \A d \in Chains \ {c} : pc'[d] = pc[d]
      /\ \A d \in Chains :
           d # owner /\ pc[d] \notin {"lost", "rejected", "undone", "saveLost",
                                    "saveRefused", "saveUndone"}
  BY OthersKeep, UnitOfWorkAssumption DEF Inside, GInv, TInv, TypeOK
<1>2. \A label : Goto(c, label) => pc'[c] = label
  BY <1>1 DEF Goto
<1>3. ~(\/ TransactionBegun(c) \/ WorkEnds(c) \/ SaveBegun(c) \/ SaveThrows(c)
        \/ SaveCloses(c) \/ SaveAccepted(c))
  BY <1>1, HoldsGuard DEF TransactionBegun, WorkEnds, SaveBegun, SaveThrows, SaveCloses,
                          SaveAccepted
<1>4. ~(BeginTransaction(c) \/ TransactionSettles(c) \/ SaveSettles(c))
  BY <1>1 DEF BeginTransaction, ConnectionUsable, TransactionSettles, SaveSettles
<1>5. CASE \/ TransactionCommitted(c) \/ TransactionFailed(c) \/ RunCallback(c)
           \/ CallbacksDone(c) \/ AfterCommitted(c) \/ SavedNotified(c)
           \/ SaveFailed(c) \/ FailureNotified(c) \/ Dispose(c)
           \/ ExecuteSave(c) \/ \E s \in Saves : StartSave(c, s)
  <2>1. UNCHANGED <<frames, owner, outcomeUnknown>>
    BY <1>5 DEF TransactionCommitted, TransactionFailed, RunCallback, CallbacksDone,
                AfterCommitted, SavedNotified, SaveFailed, FailureNotified, Dispose,
                ExecuteSave, ConnectionUsable, StartSave, storeVars, guardVars
  <2>2. pc'[c] \notin {"lost", "rejected", "undone", "saveLost", "saveRefused", "saveUndone"}
    BY <1>1, <1>2, <1>5
       DEF TransactionCommitted, TransactionFailed, RunCallback, CallbacksDone,
           AfterCommitted, SavedNotified, SaveFailed, FailureNotified, Dispose,
           ExecuteSave, ConnectionUsable, StartSave, chainVars
  <2> QED
    BY <1>1, <2>1, <2>2 DEF Inside
<1> QED
  BY <1>3, <1>4, <1>5 DEF ChainStep, TransactionStep, SaveStep

\* While the connection remembers a commit without a verdict no row becomes
\* durable; and once no chain is inside it, or about to tell it of an earlier
\* transaction, nothing of the store changes again and nobody makes it forget:
\* GuardedDatabaseConnection's promise, as far as it goes for chains that overlap
\* as they like.
THEOREM SilentForOverlappingChains == Spec => SilentOnceOutside
<1>1. Init => NothingPending
  BY DEF Init, NothingPending, LostPc
<1>2. GInv /\ NothingPending /\ [Next]_vars =>
        /\ NothingPending'
        /\ [outcomeUnknown =>
              /\ UNCHANGED durable
              /\ (\A c \in Chains : ~Inside(c)) =>
                   /\ outcomeUnknown' /\ UNCHANGED <<frames, owner>>
                   /\ \A c \in Chains : ~Inside(c)']_vars
  <2> SUFFICES ASSUME GInv, NothingPending, [Next]_vars
               PROVE  /\ NothingPending'
                      /\ outcomeUnknown =>
                           /\ UNCHANGED durable
                           /\ (\A c \in Chains : ~Inside(c)) =>
                                /\ outcomeUnknown' /\ UNCHANGED <<frames, owner>>
                                /\ \A c \in Chains : ~Inside(c)'
    OBVIOUS
  <2>1. CASE UNCHANGED vars
    BY <2>1 DEF vars, storeVars, guardVars, chainVars, NothingPending, Inside
  <2>2. CASE Next
    <3>1. PICK c \in Chains : ChainStep(c)
      BY <2>2, NextIsAChainStep
    <3>2. NothingPending' /\ (outcomeUnknown => durable' = durable)
      BY <3>1, NothingIsWritten
    <3>3. outcomeUnknown /\ (\A d \in Chains : ~Inside(d)) =>
            /\ outcomeUnknown' /\ UNCHANGED <<frames, owner>>
            /\ \A d \in Chains : ~Inside(d)'
      BY <3>1, SilenceLasts
    <3> QED
      BY <3>2, <3>3
  <2> QED
    BY <2>1, <2>2
<1> QED
  BY <1>1, <1>2, GuardInvariant, PTL DEF Spec, SilentOnceOutside

-----------------------------------------------------------------------------
(* A context that is used by one chain at a time (Overlap = FALSE) keeps   *)
(* the promise of AtomicSaves, for any saves and any nesting: every step   *)
(* of UnitOfWork is a step of AtomicSaves or none of its business.         *)

Ending == {"begin", "rejected", "lost", "undone", "committed", "failed"}

SaveEnding == {"saveRefused", "saveLost", "saveUndone", "saved", "saveFailed"}

\* The callbacks that were deferred in the i-th transaction of chain c, up to
\* the next one inside of it, by the counts that run() took.
End(c, i) == IF i = Len(txs[c]) THEN Len(callbacks) ELSE txs[c][i + 1].start
Part(c, i) == {callbacks[k] : k \in (txs[c][i].start + 1) .. End(c, i)}

\* The transactions of c that are open in the database.
Levels(c) == Len(txs[c]) - IF pc[c] \in Ending THEN 1 ELSE 0

\* The saves whose transaction or savepoint has just been closed, and that the
\* context has not heard of yet.
Late(c) ==
  IF pc[c] \in Ending THEN Part(c, Len(txs[c]))
  ELSE IF pc[c] \in SaveEnding THEN {saving[c]} \cap Staged
  ELSE {}

\* The rows that can still be committed: those below the spoiled frame.
Clean(i) == unusableAt = 0 \/ i < unusableAt
OpenRows == {s \in Saves : \E i \in 1..Len(frames) : Clean(i) /\ s \in frames[i]}

Waiting == {callbacks[k] : k \in 1..Len(callbacks)}
Flushed(c) == {flushing[c][k] : k \in 1..Len(flushing[c])}

-----------------------------------------------------------------------------
(* The invariant *)

\* The guard is free once a verdict is lost; a chain that the guard refuses has
\* found the connection without one.
SilenceHeld ==
  /\ VerdictLost => owner = Nobody
  /\ \A c \in Chains : pc[c] \in {"rejected", "undone", "saveRefused", "saveUndone"} => ~outcomeUnknown

SInv == GInv /\ SilenceHeld

OneAtATime == \A c, d \in Chains : c # d => Idle(c) \/ Idle(d)

Tidy(c) ==
  /\ pc[c] \notin SavePc => saving[c] = NoSave
  /\ pc[c] # "flushing" => flushing[c] = <<>>
  /\ pc[c] = "flushing" => txs[c] = <<>>

CallsAreTidy == \A c \in Chains : Tidy(c)

\* The journal and the rows, whoever is at work.
Ledger ==
  /\ \A s \in Saves : journal[s] = "unsaved" =>
       s \notin durable /\ \A i \in 1..Len(frames) : s \notin frames[i]
  /\ OpenRows \subseteq Staged
  /\ ~VerdictLost => \A s \in Saves :
       /\ journal[s] = "final" => s \in durable
       /\ journal[s] = "restored" => s \notin durable
  /\ \A s \in Saves : journal[s] = "broken" =>
       poisoned \/ \E c \in Chains : pc[c] = "failingBroken"

\* The rest is said of the chain that is at work, or of any chain when none is.
Focus(c) == \A d \in Chains \ {c} : Idle(d)

StartsInOrder(c) ==
  /\ depth = Len(txs[c])
  /\ txs[c] = <<>> => callbacks = <<>>
  /\ \A i \in 1..Len(txs[c]) :
       /\ txs[c][i].root <=> i = 1
       /\ i = 1 => txs[c][i].start = 0
       /\ txs[c][i].start <= Len(callbacks)
  /\ \A i, j \in 1..Len(txs[c]) : i <= j => txs[c][i].start <= txs[c][j].start
  /\ pc[c] \in {"begin", "rejected"} => txs[c][Len(txs[c])].start = Len(callbacks)

Beliefs(c) ==
  /\ pc[c] \in {"saving", "saveBegin", "saveWork"} => journal[saving[c]] = "unsaved"
  /\ pc[c] \in {"accepted", "saveLost", "saved"} => journal[saving[c]] = "staged"
  /\ pc[c] = "saveRefused" => journal[saving[c]] = "unsaved"
  /\ pc[c] \in {"saveUndone", "saveFailed"} => journal[saving[c]] \in {"unsaved", "staged"}
  /\ pc[c] = "notifying" => journal[saving[c]] = "final"
  /\ pc[c] = "failing" => journal[saving[c]] = "restored"
  /\ pc[c] = "failingBroken" => journal[saving[c]] = "broken"
  /\ saving[c] \notin Waiting
  /\ Waiting \subseteq Staged
  /\ Flushed(c) \subseteq Staged \cap durable
  /\ Staged \subseteq Waiting \cup Flushed(c) \cup {saving[c]}

CallbacksDiffer(c) ==
  /\ \A k, l \in 1..Len(callbacks) : callbacks[k] = callbacks[l] => k = l
  /\ \A k, l \in 1..Len(flushing[c]) : flushing[c][k] = flushing[c][l] => k = l

\* The savepoints split the rows as the counts split the callbacks; a closed
\* savepoint has left some of its rows in the one around it, or all.
RowsFollow(c) ==
  /\ \A i \in 1..Levels(c) : Part(c, i) \subseteq frames[i]
  /\ \A i \in 1..Levels(c) :
       frames[i] \cap Staged \subseteq Part(c, i) \cup IF i = Levels(c) THEN Late(c) ELSE {}
  /\ pc[c] = "saveWork" => frames[Len(frames)] = {}
  /\ pc[c] = "accepted" => frames[Len(frames)] = {saving[c]}

\* What the context is about to conclude is what the database has decided.
Verdicts(c) ==
  /\ pc[c] \in {"committed", "saved"} =>
       Late(c) \subseteq IF Len(frames) = 0 THEN durable ELSE frames[Len(frames)]
  /\ pc[c] \in {"rejected", "undone", "failed", "saveRefused", "saveUndone", "saveFailed"} /\ ~VerdictLost =>
       Late(c) \cap (durable \cup OpenRows) = {}
  /\ ~VerdictLost =>
       Staged \cap durable \subseteq Flushed(c) \cup
         IF pc[c] \in {"committed", "saved"} /\ Len(frames) = 0 THEN Late(c) ELSE {}

AtWork(c) ==
  StartsInOrder(c) /\ Beliefs(c) /\ CallbacksDiffer(c) /\ RowsFollow(c) /\ Verdicts(c)

PInv ==
  /\ OneAtATime
  /\ CallsAreTidy
  /\ Ledger
  /\ \A c \in Chains : Focus(c) => AtWork(c)

\* With what is known of overlapping chains too.
KInv == SInv /\ PInv

-----------------------------------------------------------------------------
(* The operators *)

\* What is known of the chain at work, and nothing of the others.
Alone(c) == KInv /\ Focus(c)

\* With one chain at work the stack is as high as its open transactions, with
\* one more frame while a save is writing.
LEMMA Heights ==
  ASSUME NEW c \in Chains, Alone(c)
  PROVE  /\ Len(frames) \in Nat /\ Len(txs[c]) \in Nat
         /\ pc[c] \in Ending =>
              /\ Len(txs[c]) > 0
              /\ Levels(c) = Len(txs[c]) - 1 /\ Len(frames) = Len(txs[c]) - 1
         /\ pc[c] \in {"saveWork", "accepted"} =>
              Levels(c) = Len(txs[c]) /\ Len(frames) = Len(txs[c]) + 1
         /\ pc[c] \notin Ending \cup {"saveWork", "accepted"} =>
              Levels(c) = Len(txs[c]) /\ Len(frames) = Len(txs[c])
<1> USE DEF Alone, KInv, SInv
<1>1. /\ TInv /\ frames \in Seq(SUBSET Saves) /\ txs[c] \in Seq(Transaction)
      /\ Len(frames) \in Nat /\ Len(txs[c]) \in Nat
  BY DEF GInv, TInv, TypeOK
<1>2. pc[c] \in Ending => Len(txs[c]) > 0
  BY <1>1 DEF TInv, CallsAreKnown, Ending
<1>3. \A d \in Chains \ {c} : OpenFrames(d) = 0
  <2> SUFFICES ASSUME NEW d \in Chains \ {c}
               PROVE  OpenFrames(d) = 0
    OBVIOUS
  <2>1. pc[d] = "app" /\ txs[d] = <<>>
    BY DEF Focus, Idle
  <2>2. OpenFrames(d) = Len(<<>>) - 0 + 0
    BY <2>1, Zenon DEF OpenFrames
  <2> QED
    BY <2>2
<1>4. OpenFrames(c) = Len(frames)
  <2>1. CASE owner = c
    BY <2>1 DEF GInv, FramesBelongToOwner
  <2>2. CASE owner \in Chains \ {c}
    BY <1>3, <2>2 DEF GInv, FramesBelongToOwner
  <2>3. CASE owner = Nobody
    BY <2>3, UnitOfWorkAssumption DEF GInv, FramesBelongToOwner, GuardHeld
  <2> QED
    BY <1>1, <2>1, <2>2, <2>3 DEF TInv, TypeOK
<1>5. CASE pc[c] \in Ending
  <2>1. pc[c] \notin {"saveWork", "accepted"} /\ pc[c] \in Ending
    BY <1>5 DEF Ending
  <2>2. OpenFrames(c) = Len(txs[c]) - 1 + 0 /\ Levels(c) = Len(txs[c]) - 1
    BY <2>1, Zenon DEF OpenFrames, Levels, Ending
  <2> QED
    BY <1>1, <1>2, <1>4, <2>1, <2>2
<1>6. CASE pc[c] \in {"saveWork", "accepted"}
  <2>1. pc[c] \in {"saveWork", "accepted"} /\ pc[c] \notin Ending
    BY <1>6 DEF Ending
  <2>2. OpenFrames(c) = Len(txs[c]) - 0 + 1 /\ Levels(c) = Len(txs[c]) - 0
    BY <2>1, Zenon DEF OpenFrames, Levels, Ending
  <2> QED
    BY <1>1, <1>4, <2>1, <2>2
<1>7. CASE pc[c] \notin Ending \cup {"saveWork", "accepted"}
  <2>2. OpenFrames(c) = Len(txs[c]) - 0 + 0 /\ Levels(c) = Len(txs[c]) - 0
    BY <1>7, Zenon DEF OpenFrames, Levels, Ending
  <2> QED
    BY <1>1, <1>4, <1>7, <2>2
<1> QED
  BY <1>1, <1>5, <1>6, <1>7

LEMMA CallTypes ==
  ASSUME NEW c \in Chains, TypeOK
  PROVE  /\ txs[c] \in Seq(Transaction) /\ Len(txs[c]) \in Nat
         /\ callbacks \in Seq(Saves) /\ Len(callbacks) \in Nat
         /\ flushing[c] \in Seq(Saves) /\ Len(flushing[c]) \in Nat
         /\ \A i \in 1..Len(txs[c]) : txs[c][i].start \in Nat /\ txs[c][i].root \in BOOLEAN
         /\ \A k \in 1..Len(callbacks) : callbacks[k] \in Saves
         /\ \A k \in 1..Len(flushing[c]) : flushing[c][k] \in Saves
<1>1. txs[c] \in Seq(Transaction) /\ callbacks \in Seq(Saves) /\ flushing[c] \in Seq(Saves)
  BY DEF TypeOK
<1>2. /\ Len(txs[c]) \in Nat /\ Len(callbacks) \in Nat /\ Len(flushing[c]) \in Nat
      /\ \A i \in 1..Len(txs[c]) : txs[c][i] \in Transaction
      /\ \A k \in 1..Len(callbacks) : callbacks[k] \in Saves
      /\ \A k \in 1..Len(flushing[c]) : flushing[c][k] \in Saves
  BY <1>1
<1>3. \A i \in 1..Len(txs[c]) : txs[c][i].start \in Nat /\ txs[c][i].root \in BOOLEAN
  BY <1>2 DEF Transaction
<1> QED
  BY <1>1, <1>2, <1>3

\* The parts lie apart in the callbacks.
LEMMA PartsApart ==
  ASSUME NEW c \in Chains, TypeOK, StartsInOrder(c), CallbacksDiffer(c)
  PROVE  /\ \A i \in 1..Len(txs[c]) : Part(c, i) \subseteq Waiting
         /\ \A i, j \in 1..Len(txs[c]) : i # j => Part(c, i) \cap Part(c, j) = {}
<1>1. /\ txs[c] \in Seq(Transaction) /\ Len(txs[c]) \in Nat /\ Len(callbacks) \in Nat
      /\ \A i \in 1..Len(txs[c]) : txs[c][i].start \in Nat
  BY CallTypes
<1>2. ASSUME NEW i \in 1..Len(txs[c])
      PROVE  End(c, i) \in Nat /\ End(c, i) <= Len(callbacks)
  BY <1>1, <1>2 DEF End, StartsInOrder
<1>3. ASSUME NEW i \in 1..Len(txs[c]), NEW j \in 1..Len(txs[c]), i < j
      PROVE  End(c, i) <= txs[c][j].start
  BY <1>1, <1>3 DEF End, StartsInOrder
<1>4. ASSUME NEW i \in 1..Len(txs[c])
      PROVE  Part(c, i) \subseteq Waiting
  BY <1>1, <1>2 DEF Part, Waiting
<1>5. ASSUME NEW i \in 1..Len(txs[c]), NEW j \in 1..Len(txs[c]), i < j
      PROVE  Part(c, i) \cap Part(c, j) = {}
  <2> SUFFICES ASSUME NEW k \in (txs[c][i].start + 1)..End(c, i),
                      NEW l \in (txs[c][j].start + 1)..End(c, j),
                      callbacks[k] = callbacks[l]
               PROVE  FALSE
    BY DEF Part
  <2>1. /\ txs[c][i].start \in Nat /\ txs[c][j].start \in Nat /\ Len(callbacks) \in Nat
        /\ End(c, i) \in Nat /\ End(c, i) <= Len(callbacks)
        /\ End(c, j) \in Nat /\ End(c, j) <= Len(callbacks)
        /\ End(c, i) <= txs[c][j].start
    BY <1>1, <1>2, <1>3, <1>5
  <2>2. /\ k \in Int /\ txs[c][i].start + 1 <= k /\ k <= End(c, i)
        /\ l \in Int /\ txs[c][j].start + 1 <= l /\ l <= End(c, j)
    BY <2>1
  <2> DEFINE n == Len(callbacks)
             startI == txs[c][i].start
             startJ == txs[c][j].start
             endI == End(c, i)
             endJ == End(c, j)
  <2> HIDE DEF n, startI, startJ, endI, endJ
  <2>3. /\ startI \in Nat /\ startI + 1 <= k /\ k <= endI /\ endI \in Nat /\ endI <= n
        /\ startJ \in Nat /\ startJ + 1 <= l /\ l <= endJ /\ endJ \in Nat /\ endJ <= n
        /\ endI <= startJ /\ n \in Nat /\ k \in Int /\ l \in Int
    BY <2>1, <2>2 DEF n, startI, startJ, endI, endJ
  <2>4. k \in 1..n /\ l \in 1..n
    BY <2>3
  <2>5. k < l
    BY <2>3
  <2> QED
    BY <2>4, <2>5 DEF CallbacksDiffer, n
<1>6. ASSUME NEW i \in 1..Len(txs[c]), NEW j \in 1..Len(txs[c]), i # j
      PROVE  Part(c, i) \cap Part(c, j) = {}
  <2>1. CASE i < j
    BY <1>5, <2>1
  <2>2. CASE j < i
    BY <1>5, <2>2
  <2> QED
    BY <1>1, <1>6, <2>1, <2>2
<1> QED
  BY <1>4, <1>6

\* What a step of the provider does to the rows: opening a frame, or failing to,
\* writes none and keeps those that can be committed, or dooms some of them.
LEMMA RowsWhenOpening ==
  ASSUME TypeOK, NEW c, NEW label
  PROVE  /\ Opens(c, label) =>
              /\ frames' \in Seq(SUBSET Saves) /\ Len(frames') = Len(frames) + 1
              /\ \A i \in 1..Len(frames) : frames'[i] = frames[i]
              /\ frames'[Len(frames) + 1] = {}
              /\ OpenRows' = OpenRows
              /\ durable' = durable /\ outcomeUnknown' = outcomeUnknown
         /\ FailsToOpen(c, label) =>
              /\ frames' = frames /\ OpenRows' \subseteq OpenRows
              /\ durable' = durable /\ outcomeUnknown' = outcomeUnknown
<1>1. /\ frames \in Seq(SUBSET Saves) /\ Len(frames) \in Nat /\ unusableAt \in Nat
      /\ (frames = <<>> <=> Len(frames) = 0)
  BY DEF TypeOK
<1>2. ASSUME Opens(c, label)
      PROVE  /\ frames' \in Seq(SUBSET Saves) /\ Len(frames') = Len(frames) + 1
             /\ \A i \in 1..Len(frames) : frames'[i] = frames[i]
             /\ frames'[Len(frames) + 1] = {}
             /\ OpenRows' = OpenRows
             /\ durable' = durable /\ outcomeUnknown' = outcomeUnknown
  <2>1. /\ frames' \in Seq(SUBSET Saves) /\ Len(frames') = Len(frames) + 1
        /\ \A i \in 1..Len(frames) : frames'[i] = frames[i]
        /\ frames'[Len(frames) + 1] = {}
    BY <1>1, <1>2 DEF Opens
  <2>2. Len(frames) # 0 => unusableAt' = unusableAt
    BY <1>1, <1>2 DEF Opens
  <2>3. \A s \in Saves, i \in 1..Len(frames') : s \in frames'[i] =>
           i \in 1..Len(frames) /\ s \in frames[i] /\ Len(frames) # 0
    BY <1>1, <2>1
  <2>4. \A i \in 1..Len(frames) : i \in 1..Len(frames') /\ Len(frames) # 0
    BY <1>1, <2>1
  <2>5. \A s \in Saves : s \in OpenRows' <=> s \in OpenRows
    BY <2>1, <2>2, <2>3, <2>4 DEF OpenRows, Clean
  <2>6. OpenRows' = OpenRows
    BY <2>5, Zenon DEF OpenRows
  <2> QED
    BY <1>2, <2>1, <2>6 DEF Opens, guardVars
<1>3. ASSUME FailsToOpen(c, label)
      PROVE  /\ frames' = frames /\ OpenRows' \subseteq OpenRows
             /\ durable' = durable /\ outcomeUnknown' = outcomeUnknown
  <2>1. frames' = frames /\ durable' = durable /\ outcomeUnknown' = outcomeUnknown
    BY <1>3 DEF FailsToOpen
  <2>2. unusableAt' = unusableAt \/ unusableAt' = Spoiled(Len(frames))
    BY <1>3 DEF FailsToOpen
  <2>3. \A i \in 1..Len(frames) : Clean(i)' => Clean(i)
    BY <1>1, <2>2 DEF Clean, Spoiled
  <2> QED
    BY <2>1, <2>3 DEF OpenRows
<1> QED
  BY <1>2, <1>3

\* The three ways to close the innermost frame.  What was open in it becomes
\* committed, or part of the frame around it, or cannot be committed any more; a
\* lost verdict leaves open which.
Kept(c, done) ==
  /\ Goto(c, done)
  /\ outcomeUnknown' = outcomeUnknown
  /\ Len(frames) = 1 =>
       unusableAt = 0 /\ durable' = durable \cup frames[1]
  /\ Len(frames) > 1 =>
       /\ durable' = durable
       /\ frames'[Len(frames) - 1] = frames[Len(frames) - 1] \cup frames[Len(frames)]

Lost(c, lost) ==
  /\ Goto(c, lost)
  /\ outcomeUnknown' = outcomeUnknown
  /\ Len(frames) = 1 /\ unusableAt = 0
  /\ durable' \in {durable, durable \cup frames[1]}

Undone(c, failed) ==
  /\ Goto(c, failed)
  /\ outcomeUnknown' = outcomeUnknown
  /\ durable' = durable
  /\ \A s \in OpenRows' : \E i \in 1..(Len(frames) - 1) : Clean(i) /\ s \in frames[i]

LEMMA RowsWhenClosing ==
  ASSUME TypeOK, NEW c \in Chains, NEW done, NEW lost, NEW failed, Closes(c, done, lost, failed)
  PROVE  /\ frames' \in Seq(SUBSET Saves)
         /\ Len(frames) > 0 /\ Len(frames') = Len(frames) - 1
         /\ \A i \in 1..(Len(frames) - 2) : frames'[i] = frames[i]
         /\ Len(frames) > 1 =>
              /\ frames[Len(frames) - 1] \subseteq frames'[Len(frames) - 1]
              /\ frames'[Len(frames) - 1] \subseteq
                   frames[Len(frames) - 1] \cup frames[Len(frames)]
         /\ OpenRows' \subseteq OpenRows
         /\ Kept(c, done) \/ Lost(c, lost) \/ Undone(c, failed)
<1> DEFINE F == Len(frames)
<1>1. /\ frames \in Seq(SUBSET Saves) /\ F \in Nat /\ unusableAt \in Nat
      /\ \A i \in 1..F : frames[i] \in SUBSET Saves
  BY DEF TypeOK
<1>2. F > 0 /\ Len(frames') = F - 1
  BY StoreMoves
<1>3. CASE F = 1
  <2>1. frames' = <<>> /\ OpenRows' = {} /\ frames' \in Seq(SUBSET Saves)
    <3>1. frames' = <<>>
      BY <1>3 DEF Closes, CommitsRoot, LosesCommit, RollsBack, RollsBackRoot,
                  RollsBackToSavepoint, FailsToClean, ReleasesSavepoint
    <3> QED
      BY <3>1 DEF OpenRows
  <2>2. Kept(c, done) \/ Lost(c, lost) \/ Undone(c, failed)
    <3>1. CASE RollsBackRoot(c, failed)
      <4>1. Goto(c, failed) /\ durable' = durable
        BY <3>1, Zenon DEF RollsBackRoot
      <4>2. outcomeUnknown' = outcomeUnknown
        BY <3>1 DEF RollsBackRoot
      <4> QED
        BY <2>1, <4>1, <4>2 DEF Undone
    <3>2. CASE CommitsRoot(c, done)
      BY <1>3, <3>2 DEF CommitsRoot, Kept
    <3>3. CASE LosesCommit(c, lost)
      BY <1>3, <3>3 DEF LosesCommit, Lost
    <3> QED
      BY <1>3, <3>1, <3>2, <3>3
         DEF Closes, RollsBack, RollsBackToSavepoint, FailsToClean, ReleasesSavepoint
  <2> QED
    BY <1>2, <1>3, <2>1, <2>2
<1>4. CASE F > 1
  <2> DEFINE Below == Front(frames)
  <2>1. /\ Below \in Seq(SUBSET Saves) /\ Len(Below) = F - 1
        /\ \A i \in 1..(F - 1) : Below[i] = frames[i]
        /\ Last(frames) = frames[F]
    <3>1. frames # <<>>
      BY <1>1, <1>4
    <3> QED
      BY <1>1, <3>1, FrontType DEF Last
  <2> HIDE DEF Below
  <2>2. ASSUME NEW more \in SUBSET frames[F],
               frames' = [Below EXCEPT ![F - 1] = @ \cup more]
        PROVE  /\ frames' \in Seq(SUBSET Saves)
               /\ \A i \in 1..(F - 2) : frames'[i] = frames[i]
               /\ frames'[F - 1] = frames[F - 1] \cup more
    <3>1. Len(Below) \in 1..Len(Below) /\ Len(Below) = F - 1
      BY <1>1, <1>4, <2>1
    <3>2. Below[Len(Below)] \cup more \in SUBSET Saves
      BY <1>1, <2>1, <3>1
    <3>3. [Below EXCEPT ![Len(Below)] = @ \cup more] \in Seq(SUBSET Saves)
      BY <2>1, <3>1, <3>2, ExceptSeq
    <3>4. /\ DOMAIN Below = 1..(F - 1)
          /\ frames'[F - 1] = Below[F - 1] \cup more
          /\ \A i \in 1..(F - 2) : frames'[i] = Below[i]
      BY <1>1, <1>4, <2>1, <2>2
    <3> QED
      BY <1>1, <1>4, <2>1, <2>2, <3>1, <3>3, <3>4
  <2>3. \A s \in OpenRows' :
          \E i \in 1..(F - 1) : Clean(i)' /\ s \in frames'[i]
    BY <1>1, <1>2 DEF OpenRows
  <2>4. CASE ReleasesSavepoint(c, done)
    <3>1. frames' = [Below EXCEPT ![F - 1] = @ \cup frames[F]]
      BY <2>1, <2>4 DEF ReleasesSavepoint, Below
    <3>2. /\ frames' \in Seq(SUBSET Saves)
          /\ \A i \in 1..(F - 2) : frames'[i] = frames[i]
          /\ frames'[F - 1] = frames[F - 1] \cup frames[F]
      BY <2>2, <3>1
    <3>3. unusableAt' = IF unusableAt = F THEN F - 1 ELSE unusableAt
      BY <2>4 DEF ReleasesSavepoint
    <3>4. \A i \in 1..(F - 1) : Clean(i)' => Clean(i)
      BY <1>1, <3>3 DEF Clean
    <3>5. \A i \in 1..(F - 1) : i = F - 1 /\ Clean(i)' => Clean(F)
      BY <1>1, <1>4, <3>3 DEF Clean
    <3>6. OpenRows' \subseteq OpenRows
      <4> SUFFICES ASSUME NEW s \in OpenRows'
                   PROVE  s \in OpenRows
        OBVIOUS
      <4>1. PICK i \in 1..(F - 1) : Clean(i)' /\ s \in frames'[i]
        BY <2>3
      <4>2. s \in Saves
        BY DEF OpenRows
      <4>3. CASE i = F - 1
        <5>1. s \in frames[F - 1] \/ s \in frames[F]
          BY <3>2, <4>1, <4>3
        <5>2. Clean(F - 1) /\ Clean(F) /\ F \in 1..F /\ F - 1 \in 1..F
          BY <1>1, <1>4, <3>4, <3>5, <4>1, <4>3
        <5> QED
          BY <4>2, <5>1, <5>2 DEF OpenRows
      <4>4. CASE i # F - 1
        <5>1. i \in 1..(F - 2) /\ i \in 1..F
          BY <1>1, <4>4
        <5> QED
          BY <3>2, <3>4, <4>1, <4>2, <5>1 DEF OpenRows
      <4> QED
        BY <4>3, <4>4
    <3>7. Kept(c, done)
      BY <1>4, <2>4, <3>2 DEF ReleasesSavepoint, guardVars, Kept
    <3> QED
      BY <1>2, <3>2, <3>6, <3>7
  <2>5. CASE RollsBackToSavepoint(c, failed) \/ FailsToClean(c, failed)
    <3>1. PICK more \in SUBSET frames[F] :
            \/ RollsBackToSavepoint(c, failed) /\ more = {} /\ frames' = Below
            \/ /\ FailsToClean(c, failed)
               /\ frames' = [Below EXCEPT ![F - 1] = @ \cup more]
      <4>1. CASE RollsBackToSavepoint(c, failed)
        BY <4>1 DEF RollsBackToSavepoint, Below
      <4>2. CASE FailsToClean(c, failed)
        BY <2>1, <4>2 DEF FailsToClean, Below
      <4> QED
        BY <2>5, <4>1, <4>2
    <3>2. /\ frames' \in Seq(SUBSET Saves)
          /\ \A i \in 1..(F - 2) : frames'[i] = frames[i]
          /\ frames'[F - 1] = frames[F - 1] \cup more
      <4>1. CASE frames' = [Below EXCEPT ![F - 1] = @ \cup more]
        BY <2>2, <4>1
      <4>2. CASE more = {} /\ frames' = Below
        <5>1. F - 1 \in 1..(F - 1) /\ \A i \in 1..(F - 2) : i \in 1..(F - 1)
          BY <1>1, <1>4
        <5> QED
          BY <2>1, <4>2, <5>1
      <4> QED
        BY <3>1, <4>1, <4>2
    <3>3. \A i \in 1..(F - 1) : Clean(i)' => Clean(i) /\ (i < F - 1 \/ more = {})
      <4>1. CASE RollsBackToSavepoint(c, failed) /\ more = {}
        <5>1. unusableAt' = unusableAt \/ unusableAt >= F
          BY <4>1 DEF RollsBackToSavepoint
        <5> QED
          BY <1>1, <4>1, <5>1 DEF Clean
      <4>2. CASE FailsToClean(c, failed)
        <5>1. unusableAt' = Spoiled(F - 1)
          BY <4>2 DEF FailsToClean
        <5> QED
          BY <1>1, <1>4, <5>1 DEF Clean, Spoiled
      <4> QED
        BY <3>1, <4>1, <4>2
    <3>4. ASSUME NEW s \in OpenRows'
          PROVE  \E i \in 1..(F - 1) : Clean(i) /\ s \in frames[i]
      <4>1. PICK i \in 1..(F - 1) : Clean(i)' /\ s \in frames'[i]
        BY <2>3
      <4>2. i = F - 1 \/ i \in 1..(F - 2)
        BY <1>1
      <4>3. i = F - 1 => more = {}
        BY <1>1, <3>3, <4>1
      <4>4. s \in frames[i]
        BY <3>2, <4>1, <4>2, <4>3
      <4> QED
        BY <3>3, <4>1, <4>4
    <3>5. OpenRows' \subseteq OpenRows
      <4>1. \A i \in 1..(F - 1) : i \in 1..F
        BY <1>1
      <4>2. \A s \in OpenRows' : s \in Saves
        BY DEF OpenRows
      <4> QED
        BY <3>4, <4>1, <4>2 DEF OpenRows
    <3>6. Undone(c, failed)
      <4>1. Goto(c, failed) /\ durable' = durable
        BY <2>5, Zenon DEF RollsBackToSavepoint, FailsToClean
      <4>2. outcomeUnknown' = outcomeUnknown
        BY <2>5 DEF RollsBackToSavepoint, FailsToClean, guardVars
      <4> QED
        BY <3>4, <4>1, <4>2 DEF Undone
    <3> QED
      BY <1>2, <3>2, <3>5, <3>6
  <2>6. \/ ReleasesSavepoint(c, done)
        \/ RollsBackToSavepoint(c, failed) \/ FailsToClean(c, failed)
    <3>1. CommitsRoot(c, done) => Len(frames) = 1
      BY DEF CommitsRoot
    <3>2. LosesCommit(c, lost) => Len(frames) = 1
      BY DEF LosesCommit
    <3>3. RollsBackRoot(c, failed) => Len(frames) = 1
      BY DEF RollsBackRoot
    <3>4. Len(frames) # 1
      BY <1>1, <1>4
    <3> QED
      BY <3>1, <3>2, <3>3, <3>4, Zenon DEF Closes, RollsBack
  <2> QED
    BY <2>4, <2>5, <2>6
<1> QED
  BY <1>1, <1>2, <1>3, <1>4

-----------------------------------------------------------------------------
(* What is known before a step, and what it leaves alone *)

LEMMA Standing ==
  ASSUME NEW c \in Chains, Alone(c)
  PROVE  /\ TypeOK /\ TInv /\ GInv
         /\ Tidy(c) /\ AtWork(c) /\ Ledger
         /\ \A d \in Chains \ {c} : Idle(d)
         /\ pc[c] # "failingBroken" => \A s \in Saves : journal[s] = "broken" => poisoned
         /\ VerdictLost => Len(frames) = 0 /\ OpenRows = {}
         /\ VerdictLost <=> outcomeUnknown \/ pc[c] \in LostPc
<1> USE DEF Alone, KInv, SInv, PInv
<1>1. TypeOK /\ TInv /\ GInv
  BY DEF GInv, TInv
<1>2. Tidy(c) /\ AtWork(c) /\ Ledger
  BY DEF CallsAreTidy
<1>3. \A d \in Chains \ {c} : Idle(d)
  BY DEF Focus
<1>4. pc[c] # "failingBroken" => \A s \in Saves : journal[s] = "broken" => poisoned
  <2>1. \A d \in Chains \ {c} : pc[d] # "failingBroken"
    BY <1>3 DEF Idle
  <2> QED
    BY <2>1 DEF Ledger
<1>5. VerdictLost => Len(frames) = 0 /\ OpenRows = {}
  <2>1. VerdictLost => Len(frames) = 0
    BY DEF SilenceHeld, GInv, GuardHeld
  <2>2. Len(frames) = 0 => OpenRows = {}
    BY DEF OpenRows
  <2> QED
    BY <2>1, <2>2
<1>6. VerdictLost <=> outcomeUnknown \/ pc[c] \in LostPc
  BY <1>3 DEF Idle, VerdictLost, LostPc
<1> QED
  BY <1>1, <1>2, <1>3, <1>4, <1>5, <1>6

\* The same after a step that moves no other chain.
LEMMA VerdictAfter ==
  ASSUME NEW c \in Chains, Alone(c), \A d \in Chains \ {c} : pc'[d] = pc[d]
  PROVE  VerdictLost' <=> outcomeUnknown' \/ pc'[c] \in LostPc
<1>1. \A d \in Chains \ {c} : pc'[d] = "app"
  BY Standing DEF Idle
<1> QED
  BY <1>1 DEF VerdictLost, LostPc

LEMMA VerdictStands ==
  ASSUME NEW c \in Chains, Alone(c), \A d \in Chains \ {c} : pc'[d] = pc[d],
         outcomeUnknown' = outcomeUnknown, pc[c] \notin LostPc, pc'[c] \notin LostPc
  PROVE  VerdictLost' <=> VerdictLost
BY Standing, VerdictAfter

\* A chain that talks to its database knows the verdict of every commit.
LEMMA VerdictsKnown ==
  ASSUME NEW c \in Chains, Alone(c),
         \/ pc[c] \in {"begin", "saveBegin", "saveWork", "accepted"}
         \/ pc[c] = "app" /\ txs[c] # <<>>
  PROVE  ~VerdictLost
<1>1. owner = c /\ c # Nobody
  BY HoldsGuard, UnitOfWorkAssumption DEF Alone, KInv, SInv
<1> QED
  BY <1>1 DEF Alone, KInv, SInv, SilenceHeld

LEMMA Moves ==
  ASSUME TypeOK, NEW c \in Chains, NEW label, Goto(c, label)
  PROVE  pc'[c] = label /\ \A d \in Chains \ {c} : pc'[d] = pc[d]
BY DEF TypeOK, Goto

LEMMA LevelsMove ==
  ASSUME NEW c \in Chains, Len(txs'[c]) \in Nat
  PROVE  Levels(c)' = IF pc'[c] \in Ending THEN Len(txs'[c]) - 1 ELSE Len(txs'[c])
<1>1. CASE pc'[c] \in Ending
  BY <1>1, Zenon DEF Levels, Ending
<1>2. CASE pc'[c] \notin Ending
  <2>1. Levels(c)' = Len(txs'[c]) - 0
    BY <1>2, Zenon DEF Levels, Ending
  <2> QED
    BY <1>2, <2>1
<1> QED
  BY <1>1, <1>2

\* The counts and the parts depend on the calls and the callbacks alone.
LEMMA SameCalls ==
  ASSUME NEW c \in Chains, StartsInOrder(c), CallbacksDiffer(c),
         UNCHANGED <<depth, callbacks, txs, flushing>>,
         pc'[c] \notin {"begin", "rejected"}
  PROVE  /\ StartsInOrder(c)' /\ CallbacksDiffer(c)'
         /\ Waiting' = Waiting /\ Flushed(c)' = Flushed(c)
         /\ \A i : Part(c, i)' = Part(c, i)
<1>1. StartsInOrder(c)'
  BY DEF StartsInOrder
<1>2. CallbacksDiffer(c)'
  BY DEF CallbacksDiffer
<1>3. Waiting' = Waiting /\ Flushed(c)' = Flushed(c)
  BY DEF Waiting, Flushed
<1>4. \A i : Part(c, i)' = Part(c, i)
  BY DEF Part, End
<1> QED
  BY <1>1, <1>2, <1>3, <1>4

\* A step of the provider commits nothing but what was open, and what it leaves
\* in the frames was in them.
LEMMA LedgerOfRows ==
  ASSUME NEW c \in Chains, Alone(c), pc[c] # "failingBroken", ~VerdictLost,
         UNCHANGED <<journal, poisoned>>,
         durable \subseteq durable', durable' \subseteq durable \cup OpenRows,
         OpenRows' \subseteq OpenRows,
         \A j \in 1..Len(frames'), s \in Saves : s \in frames'[j] =>
           \E i \in 1..Len(frames) : s \in frames[i]
  PROVE  Ledger'
<1>1. Ledger /\ \A s \in Saves : journal[s] = "broken" => poisoned
  BY Standing
<1>2. \A s \in Saves : s \in OpenRows => journal[s] = "staged"
  BY <1>1 DEF Ledger, Staged
<1>3. \A s \in Saves : journal'[s] = "unsaved" =>
        s \notin durable' /\ \A i \in 1..Len(frames') : s \notin frames'[i]
  BY <1>1, <1>2 DEF Ledger
<1>4. OpenRows' \subseteq Staged'
  BY <1>1 DEF Ledger, Staged
<1>5. \A s \in Saves : /\ journal'[s] = "final" => s \in durable'
                       /\ journal'[s] = "restored" => s \notin durable'
  BY <1>1, <1>2 DEF Ledger
<1>6. \A s \in Saves : journal'[s] = "broken" => poisoned'
  BY <1>1
<1> QED
  BY <1>3, <1>4, <1>5, <1>6 DEF Ledger

-----------------------------------------------------------------------------
(* One step of the chain at work *)

\* What a step has to leave behind.
Settles(c) == Tidy(c) /\ AtWork(c) /\ Ledger

LEMMA TransactionBegunSettles ==
  ASSUME NEW c \in Chains, Alone(c), TransactionBegun(c)
  PROVE  Settles(c)'
<1> DEFINE n == Len(txs[c])
<1>1. /\ TypeOK /\ Tidy(c) /\ AtWork(c) /\ pc[c] = "begin" /\ ~VerdictLost
      /\ UNCHANGED <<depth, callbacks, saveInProgress, journal, contextVars,
                     txs, saving, flushing>>
  BY Standing, VerdictsKnown DEF TransactionBegun
<1>2. /\ n \in Nat /\ n > 0 /\ Levels(c) = n - 1 /\ Len(frames) = n - 1
  BY <1>1, Heights DEF Ending
<1>3. /\ Part(c, n) = {} /\ Late(c) = {}
  <2>1. txs[c][n].start = Len(callbacks) /\ End(c, n) = Len(callbacks)
    BY <1>1, <1>2 DEF AtWork, StartsInOrder, End
  <2>2. Len(callbacks) \in Nat
    BY <1>1, CallTypes
  <2>3. Part(c, n) = {}
    BY <2>1, <2>2 DEF Part
  <2> QED
    BY <1>1, <2>3 DEF Late, Ending
<1>4. saving[c] = NoSave /\ flushing[c] = <<>> /\ Flushed(c) = {}
  <2>1. saving[c] = NoSave /\ flushing[c] = <<>>
    BY <1>1 DEF Tidy, SavePc
  <2> QED
    BY <2>1 DEF Flushed
<1>5. /\ pc'[c] \in {"app", "undone"} /\ durable' = durable
      /\ OpenRows' \subseteq OpenRows /\ ~VerdictLost'
      /\ \A i \in 1..(n - 1) : frames'[i] = frames[i]
      /\ \/ pc'[c] = "app" /\ Len(frames') = n /\ frames'[n] = {}
         \/ pc'[c] = "undone" /\ Len(frames') = n - 1
  <2>1. CASE Opens(c, "app")
    <3>1. pc'[c] = "app" /\ \A d \in Chains \ {c} : pc'[d] = pc[d]
      BY <1>1, <2>1, Moves DEF Opens
    <3>2. ~outcomeUnknown' /\ ~VerdictLost'
      BY <1>1, <2>1, <3>1, RowsWhenOpening, Standing, VerdictAfter DEF LostPc
    <3> QED
      BY <1>1, <1>2, <2>1, <3>1, <3>2, RowsWhenOpening
  <2>2. CASE FailsToOpen(c, "undone")
    <3>1. pc'[c] = "undone" /\ \A d \in Chains \ {c} : pc'[d] = pc[d]
      BY <1>1, <2>2, Moves DEF FailsToOpen
    <3>2. ~outcomeUnknown' /\ ~VerdictLost'
      BY <1>1, <2>2, <3>1, RowsWhenOpening, Standing, VerdictAfter DEF LostPc
    <3> QED
      BY <1>1, <1>2, <2>2, <3>1, <3>2, RowsWhenOpening
  <2> QED
    BY <2>1, <2>2 DEF TransactionBegun
<1>6. /\ StartsInOrder(c)' /\ CallbacksDiffer(c)'
      /\ Waiting' = Waiting /\ Flushed(c)' = Flushed(c)
      /\ \A i : Part(c, i)' = Part(c, i)
  BY <1>1, <1>5, SameCalls DEF AtWork
<1>7. Ledger'
  <2>1. \A j \in 1..Len(frames'), s \in Saves : s \in frames'[j] =>
           \E i \in 1..Len(frames) : s \in frames[i]
    <3> SUFFICES ASSUME NEW j \in 1..Len(frames'), NEW s \in Saves, s \in frames'[j]
                 PROVE  j \in 1..(n - 1)
      BY <1>2, <1>5
    <3> QED
      BY <1>2, <1>5
  <2> QED
    BY <1>1, <1>5, <2>1, LedgerOfRows DEF contextVars
<1>8. Late(c)' = {} /\ Staged' = Staged
  <2>1. Staged' = Staged
    BY <1>1 DEF Staged
  <2>2. CASE pc'[c] = "app"
    BY <2>1, <2>2 DEF Late, Ending, SaveEnding
  <2>3. CASE pc'[c] = "undone"
    BY <1>1, <1>3, <1>6, <2>1, <2>3 DEF Late, Ending
  <2> QED
    BY <1>5, <2>1, <2>2, <2>3
<1>9. RowsFollow(c)'
  <2>1. \/ pc'[c] = "app" /\ Levels(c)' = n
        \/ pc'[c] = "undone" /\ Levels(c)' = n - 1
    BY <1>1, <1>2, <1>5, LevelsMove DEF Ending
  <2>2. \A i \in 1..(n - 1) : /\ Part(c, i) \subseteq frames[i]
                             /\ frames[i] \cap Staged \subseteq Part(c, i)
    BY <1>1, <1>2, <1>3 DEF AtWork, RowsFollow
  <2>3. ASSUME NEW i \in 1..Levels(c)'
        PROVE  Part(c, i)' \subseteq frames'[i] /\ frames'[i] \cap Staged' \subseteq Part(c, i)'
    <3>1. CASE i \in 1..(n - 1)
      BY <1>5, <1>6, <1>8, <2>2, <3>1
    <3>2. CASE i = n /\ pc'[c] = "app"
      BY <1>3, <1>5, <1>6, <3>2
    <3> QED
      BY <1>2, <2>1, <2>3, <3>1, <3>2
  <2> QED
    BY <1>5, <2>3 DEF RowsFollow
<1>10. Beliefs(c)'
  <2>1. saving'[c] = saving[c]
    BY <1>1
  <2> QED
    BY <1>1, <1>5, <1>6, <1>8, <2>1 DEF AtWork, Beliefs
<1>11. Verdicts(c)'
  <2>1. Staged \cap durable \subseteq Flushed(c)
    BY <1>1 DEF AtWork, Verdicts
  <2> QED
    BY <1>5, <1>6, <1>8, <2>1 DEF Verdicts
<1>12. Tidy(c)'
  BY <1>1, <1>4, <1>5 DEF Tidy
<1> QED
  BY <1>6, <1>7, <1>9, <1>10, <1>11, <1>12 DEF Settles, AtWork

LEMMA LedgerWhenClosing ==
  ASSUME NEW c \in Chains, Alone(c), pc[c] # "failingBroken", ~VerdictLost,
         UNCHANGED <<journal, poisoned>>,
         NEW done, NEW lost, NEW failed, Closes(c, done, lost, failed)
  PROVE  Ledger' /\ durable \subseteq durable' /\ durable' \subseteq durable \cup OpenRows
<1> DEFINE F == Len(frames)
<1>1. /\ TypeOK /\ F \in Nat /\ F > 0 /\ Len(frames') = F - 1
      /\ frames \in Seq(SUBSET Saves)
      /\ \A i \in 1..(F - 2) : frames'[i] = frames[i]
      /\ F > 1 => frames'[F - 1] \subseteq frames[F - 1] \cup frames[F]
      /\ OpenRows' \subseteq OpenRows
      /\ Kept(c, done) \/ Lost(c, lost) \/ Undone(c, failed)
  <2>1. TypeOK
    BY Standing
  <2>2. frames \in Seq(SUBSET Saves) /\ F \in Nat
    BY <2>1 DEF TypeOK
  <2> HIDE DEF F
  <2> QED
    BY <2>1, <2>2, RowsWhenClosing DEF F
<1>2. F = 1 /\ unusableAt = 0 => frames[1] \subseteq OpenRows
  BY <1>1 DEF OpenRows, Clean
<1>3. durable \subseteq durable' /\ durable' \subseteq durable \cup OpenRows
  <2>1. CASE Kept(c, done)
    BY <1>1, <1>2, <2>1 DEF Kept
  <2>2. CASE Lost(c, lost)
    BY <1>1, <1>2, <2>2 DEF Lost
  <2>3. CASE Undone(c, failed)
    BY <2>3 DEF Undone
  <2> QED
    BY <1>1, <2>1, <2>2, <2>3
<1>4. ASSUME NEW j \in 1..Len(frames'), NEW s \in Saves, s \in frames'[j]
      PROVE  \E i \in 1..F : s \in frames[i]
  <2>1. CASE j \in 1..(F - 2)
    BY <1>1, <1>4, <2>1
  <2>2. CASE j = F - 1
    <3>1. F > 1 /\ F - 1 \in 1..F /\ F \in 1..F
      BY <1>1, <1>4, <2>2
    <3> QED
      BY <1>1, <1>4, <2>2, <3>1
  <2> QED
    BY <1>1, <2>1, <2>2
<1>5. Ledger'
  BY <1>1, <1>3, <1>4, LedgerOfRows
<1> QED
  BY <1>3, <1>5

LEMMA WorkEndsSettles ==
  ASSUME NEW c \in Chains, Alone(c), WorkEnds(c)
  PROVE  Settles(c)'
<1> DEFINE n == Len(txs[c])
<1>1. /\ TypeOK /\ Tidy(c) /\ AtWork(c) /\ pc[c] = "app" /\ txs[c] # <<>>
      /\ Closes(c, "committed", "lost", "undone") /\ ~VerdictLost
      /\ UNCHANGED <<depth, callbacks, saveInProgress, journal, contextVars,
                     txs, saving, flushing>>
  BY Standing, VerdictsKnown DEF WorkEnds
<1>2. n \in Nat /\ n > 0 /\ Levels(c) = n /\ Len(frames) = n
  <2>1. txs[c] \in Seq(Transaction)
    BY <1>1, CallTypes
  <2> QED
    BY <1>1, <2>1, Heights DEF Ending
<1>3. saving[c] = NoSave /\ Flushed(c) = {} /\ Late(c) = {} /\ Staged' = Staged
  <2>1. saving[c] = NoSave /\ flushing[c] = <<>>
    BY <1>1 DEF Tidy, SavePc
  <2> QED
    BY <1>1, <2>1 DEF Flushed, Late, Ending, SaveEnding, Staged
<1>4. /\ Len(frames') = n - 1
      /\ \A i \in 1..(n - 2) : frames'[i] = frames[i]
      /\ n > 1 => /\ frames[n - 1] \subseteq frames'[n - 1]
                  /\ frames'[n - 1] \subseteq frames[n - 1] \cup frames[n]
      /\ Kept(c, "committed") \/ Lost(c, "lost") \/ Undone(c, "undone")
  BY <1>1, <1>2, RowsWhenClosing
<1>5. Ledger' /\ durable' \subseteq durable \cup OpenRows
  BY <1>1, LedgerWhenClosing DEF contextVars
<1>6. /\ pc'[c] \in {"committed", "lost", "undone"}
      /\ Kept(c, "committed") => pc'[c] = "committed"
      /\ Lost(c, "lost") => pc'[c] = "lost"
      /\ Undone(c, "undone") => pc'[c] = "undone"
  BY <1>1, <1>4, Moves DEF Kept, Lost, Undone
<1>7. /\ StartsInOrder(c)' /\ CallbacksDiffer(c)'
      /\ Waiting' = Waiting /\ Flushed(c)' = {}
      /\ \A i : Part(c, i)' = Part(c, i)
  BY <1>1, <1>3, <1>6, SameCalls DEF AtWork
<1>8. Late(c)' = Part(c, n) /\ Levels(c)' = n - 1
  <2>1. pc'[c] \in Ending
    BY <1>6 DEF Ending
  <2>2. Late(c)' = Part(c, n)'
    BY <1>1, <2>1 DEF Late
  <2> QED
    BY <1>1, <1>2, <1>7, <2>1, <2>2, LevelsMove
<1>9. \A i \in 1..n : /\ Part(c, i) \subseteq frames[i]
                     /\ frames[i] \cap Staged \subseteq Part(c, i)
  BY <1>1, <1>2, <1>3 DEF AtWork, RowsFollow
<1>10. RowsFollow(c)'
  <2>1. ASSUME NEW i \in 1..(n - 1)
        PROVE  /\ Part(c, i) \subseteq frames'[i]
               /\ frames'[i] \cap Staged \subseteq
                    Part(c, i) \cup IF i = n - 1 THEN Part(c, n) ELSE {}
    <3>1. CASE i = n - 1
      <4>1. n - 1 \in 1..n /\ n \in 1..n /\ n > 1
        BY <1>2, <2>1, <3>1
      <4> QED
        BY <1>4, <1>9, <3>1, <4>1
    <3>2. CASE i # n - 1
      <4>1. i \in 1..(n - 2) /\ i \in 1..n
        BY <1>2, <3>2
      <4> QED
        BY <1>4, <1>9, <3>2, <4>1
    <3> QED
      BY <3>1, <3>2
  <2> QED
    BY <1>3, <1>6, <1>7, <1>8, <2>1 DEF RowsFollow
<1>11. Beliefs(c)'
  <2>1. saving'[c] = saving[c]
    BY <1>1
  <2> QED
    BY <1>1, <1>3, <1>5, <1>6, <1>7, <2>1 DEF AtWork, Beliefs
<1>12. Part(c, n) \subseteq Waiting /\ Waiting \subseteq Staged
       /\ \A i \in 1..(n - 1) : Part(c, i) \cap Part(c, n) = {}
  <2>1. \A i \in 1..(n - 1) : i \in 1..n /\ i # n
    BY <1>2
  <2>2. n \in 1..n
    BY <1>2
  <2> QED
    BY <1>1, <2>1, <2>2, PartsApart DEF AtWork, Beliefs
<1>13. Staged \cap durable = {}
  BY <1>1, <1>3 DEF AtWork, Verdicts
<1>14. Verdicts(c)'
  <2> HIDE DEF n
  <2>1. CASE Kept(c, "committed")
    <3>1. pc'[c] = "committed"
      BY <1>6, <2>1
    <3>2. CASE n = 1
      <4>1. durable' = durable \cup frames[1] /\ Len(frames') = 0 /\ 1 \in 1..n
        BY <1>2, <1>4, <2>1, <3>2 DEF Kept
      <4> QED
        BY <1>3, <1>7, <1>8, <1>9, <1>13, <3>1, <3>2, <4>1 DEF Verdicts
    <3>3. CASE n > 1
      <4>0. Len(frames) > 1 /\ Len(frames) = n
        BY <1>2, <3>3
      <4>1. /\ durable' = durable /\ Len(frames') = n - 1 /\ n - 1 # 0
            /\ frames'[n - 1] = frames[n - 1] \cup frames[n] /\ n \in 1..n
        <5>1. durable' = durable /\ frames'[n - 1] = frames[n - 1] \cup frames[n]
          BY <2>1, <4>0, Zenon DEF Kept
        <5> QED
          BY <1>2, <1>4, <3>3, <5>1
      <4> QED
        BY <1>3, <1>7, <1>8, <1>9, <1>13, <3>1, <4>1 DEF Verdicts
    <3>4. n = 1 \/ n > 1
      BY <1>2
    <3> QED
      BY <3>2, <3>3, <3>4, Zenon
  <2>2. CASE Lost(c, "lost")
    <3>1. pc'[c] = "lost" /\ VerdictLost'
      BY <1>6, <2>2 DEF VerdictLost
    <3> QED
      BY <3>1 DEF Verdicts
  <2>3. CASE Undone(c, "undone")
    <3>1. /\ pc'[c] = "undone" /\ durable' = durable
          /\ \A s \in OpenRows' : \E i \in 1..(n - 1) : s \in frames[i]
      BY <1>2, <1>6, <2>3 DEF Undone
    <3>2. Part(c, n) \cap OpenRows' = {}
      <4> SUFFICES ASSUME NEW s \in Part(c, n), s \in OpenRows'
                   PROVE  FALSE
        OBVIOUS
      <4>1. PICK i \in 1..(n - 1) : s \in frames[i]
        BY <3>1
      <4>2. s \in Staged /\ i \in 1..n
        BY <1>2, <1>12
      <4> QED
        BY <1>9, <1>12, <4>1, <4>2
    <3>3. Part(c, n) \cap durable = {}
      BY <1>12, <1>13
    <3> QED
      BY <1>3, <1>7, <1>8, <1>13, <3>1, <3>2, <3>3 DEF Verdicts
  <2> QED
    BY <1>4, <2>1, <2>2, <2>3
<1>15. Tidy(c)'
  <2>1. flushing'[c] = <<>> /\ saving'[c] = NoSave
    BY <1>1, <1>3 DEF Tidy
  <2> QED
    BY <1>6, <2>1 DEF Tidy
<1> QED
  BY <1>5, <1>7, <1>10, <1>11, <1>14, <1>15 DEF Settles, AtWork

\* The save a chain is inside of, and the callbacks it has taken: none.
LEMMA Saving ==
  ASSUME NEW c \in Chains, Alone(c), pc[c] \in SavePc
  PROVE  /\ saving[c] \in Saves /\ pc[c] \notin Ending
         /\ flushing[c] = <<>> /\ Flushed(c) = {}
         /\ Staged \subseteq Waiting \cup {saving[c]}
         /\ Waiting \subseteq Staged /\ saving[c] \notin Waiting
<1>1. Tidy(c) /\ TInv /\ AtWork(c)
  BY Standing
<1>2. saving[c] \in Saves /\ flushing[c] = <<>> /\ pc[c] \notin Ending
  BY <1>1 DEF TInv, CallsAreKnown, Tidy, SavePc, Ending
<1> QED
  BY <1>1, <1>2 DEF Flushed, AtWork, Beliefs

LEMMA SaveBegunSettles ==
  ASSUME NEW c \in Chains, Alone(c), SaveBegun(c)
  PROVE  Settles(c)'
<1> DEFINE n == Len(txs[c])
<1>1. /\ TypeOK /\ Tidy(c) /\ AtWork(c) /\ pc[c] = "saveBegin" /\ ~VerdictLost
      /\ UNCHANGED <<depth, callbacks, saveInProgress, journal, contextVars,
                     txs, saving, flushing>>
  BY Standing, VerdictsKnown DEF SaveBegun
<1>2. /\ n \in Nat /\ Levels(c) = n /\ Len(frames) = n /\ Late(c) = {}
  BY <1>1, Heights DEF Ending, SaveEnding, Late
<1>3. saving[c] \in Saves /\ flushing[c] = <<>> /\ journal[saving[c]] = "unsaved"
  BY <1>1, Saving DEF SavePc, AtWork, Beliefs
<1>4. /\ pc'[c] \in {"saveWork", "saveUndone"} /\ durable' = durable
      /\ OpenRows' \subseteq OpenRows /\ ~VerdictLost'
      /\ \A i \in 1..n : frames'[i] = frames[i]
      /\ \/ pc'[c] = "saveWork" /\ Len(frames') = n + 1 /\ frames'[n + 1] = {}
         \/ pc'[c] = "saveUndone" /\ Len(frames') = n
  <2>1. CASE Opens(c, "saveWork")
    <3>1. pc'[c] = "saveWork" /\ \A d \in Chains \ {c} : pc'[d] = pc[d]
      BY <1>1, <2>1, Moves DEF Opens
    <3>2. ~outcomeUnknown' /\ ~VerdictLost'
      BY <1>1, <2>1, <3>1, RowsWhenOpening, Standing, VerdictAfter DEF LostPc
    <3> QED
      BY <1>1, <1>2, <2>1, <3>1, <3>2, RowsWhenOpening
  <2>2. CASE FailsToOpen(c, "saveUndone")
    <3>1. pc'[c] = "saveUndone" /\ \A d \in Chains \ {c} : pc'[d] = pc[d]
      BY <1>1, <2>2, Moves DEF FailsToOpen
    <3>2. ~outcomeUnknown' /\ ~VerdictLost'
      BY <1>1, <2>2, <3>1, RowsWhenOpening, Standing, VerdictAfter DEF LostPc
    <3> QED
      BY <1>1, <1>2, <2>2, <3>1, <3>2, RowsWhenOpening
  <2> QED
    BY <2>1, <2>2 DEF SaveBegun
<1>5. /\ StartsInOrder(c)' /\ CallbacksDiffer(c)'
      /\ Waiting' = Waiting /\ Flushed(c)' = Flushed(c)
      /\ \A i : Part(c, i)' = Part(c, i)
  BY <1>1, <1>4, SameCalls DEF AtWork
<1>6. Levels(c)' = n
  BY <1>1, <1>2, <1>4, LevelsMove DEF Ending
<1> HIDE DEF n
<1>7. Ledger'
  <2>1. \A j \in 1..Len(frames'), s \in Saves : s \in frames'[j] =>
           \E i \in 1..Len(frames) : s \in frames[i]
    <3> SUFFICES ASSUME NEW j \in 1..Len(frames'), NEW s \in Saves, s \in frames'[j]
                 PROVE  j \in 1..n
      BY <1>2, <1>4
    <3> QED
      BY <1>2, <1>4
  <2> QED
    BY <1>1, <1>4, <2>1, LedgerOfRows DEF contextVars
<1>8. Late(c)' = {} /\ Staged' = Staged
  <2>1. Staged' = Staged /\ saving'[c] \notin Staged'
    BY <1>1, <1>3 DEF Staged
  <2> QED
    BY <1>4, <2>1 DEF Late, Ending, SaveEnding
<1>9. RowsFollow(c)'
  <2>1. \A i \in 1..n : /\ Part(c, i) \subseteq frames[i]
                       /\ frames[i] \cap Staged \subseteq Part(c, i)
    BY <1>1, <1>2 DEF AtWork, RowsFollow
  <2>2. pc'[c] = "saveWork" => frames'[Len(frames')] = {}
    BY <1>4
  <2>3. \A i \in 1..n : /\ Part(c, i)' \subseteq frames'[i]
                       /\ frames'[i] \cap Staged' \subseteq Part(c, i)'
    BY <1>4, <1>5, <1>8, <2>1
  <2> QED
    BY <1>4, <1>6, <2>2, <2>3 DEF RowsFollow
<1>10. Beliefs(c)'
  <2>1. saving'[c] = saving[c] /\ journal' = journal
    BY <1>1
  <2> QED
    BY <1>1, <1>3, <1>4, <1>5, <1>8, <2>1 DEF AtWork, Beliefs
<1>11. Verdicts(c)'
  <2>1. Staged \cap durable \subseteq Flushed(c)
    BY <1>1 DEF AtWork, Verdicts
  <2> QED
    BY <1>4, <1>5, <1>8, <2>1 DEF Verdicts
<1>12. Tidy(c)'
  BY <1>1, <1>3, <1>4 DEF Tidy, SavePc
<1> QED
  BY <1>5, <1>7, <1>9, <1>10, <1>11, <1>12 DEF Settles, AtWork

LEMMA SaveThrowsSettles ==
  ASSUME NEW c \in Chains, Alone(c), SaveThrows(c)
  PROVE  Settles(c)'
<1> DEFINE n == Len(txs[c])
<1>1. /\ TypeOK /\ Tidy(c) /\ AtWork(c) /\ pc[c] = "saveWork" /\ ~VerdictLost
      /\ RollsBack(c, "saveUndone")
      /\ UNCHANGED <<depth, callbacks, saveInProgress, journal, contextVars,
                     txs, saving, flushing>>
  BY Standing, VerdictsKnown DEF SaveThrows
<1>2. /\ n \in Nat /\ Levels(c) = n /\ Len(frames) = n + 1 /\ Late(c) = {}
  BY <1>1, Heights DEF Ending, SaveEnding, Late
<1>3. saving[c] \in Saves /\ flushing[c] = <<>> /\ journal[saving[c]] = "unsaved"
  BY <1>1, Saving DEF SavePc, AtWork, Beliefs
<1>4. Closes(c, "saveUndone", "saveUndone", "saveUndone") /\ pc'[c] = "saveUndone"
  <2>1. Closes(c, "saveUndone", "saveUndone", "saveUndone")
    BY <1>1 DEF Closes
  <2> QED
    BY <1>1, <2>1, StoreMoves, Moves
<1>5. /\ StartsInOrder(c)' /\ CallbacksDiffer(c)'
      /\ Waiting' = Waiting /\ Flushed(c)' = Flushed(c)
      /\ \A i : Part(c, i)' = Part(c, i)
  BY <1>1, <1>4, SameCalls DEF AtWork
<1>6. Levels(c)' = n
  BY <1>1, <1>2, <1>4, LevelsMove DEF Ending
<1>7. Len(frames') = n /\ \A i \in 1..n : frames'[i] = frames[i]
  <2>1. /\ \A i \in 1..(n - 1) : frames'[i] = frames[i]
        /\ n > 0 => frames'[n] \subseteq frames[n] \cup frames[n + 1]
        /\ n > 0 => frames[n] \subseteq frames'[n]
        /\ Len(frames') = n
    BY <1>1, <1>2, <1>4, RowsWhenClosing
  <2>2. frames[n + 1] = {}
    BY <1>1, <1>2 DEF AtWork, RowsFollow
  <2> HIDE DEF n
  <2>3. n > 0 => frames'[n] = frames[n]
    BY <2>1, <2>2
  <2> QED
    BY <1>2, <2>1, <2>3
<1> HIDE DEF n
<1>8. Ledger' /\ durable' = durable
  <2>1. Ledger'
    BY <1>1, <1>4, LedgerWhenClosing DEF contextVars
  <2>2. durable' = durable
    BY <1>1 DEF RollsBack, RollsBackRoot, RollsBackToSavepoint, FailsToClean
  <2> QED
    BY <2>1, <2>2
<1>9. Late(c)' = {} /\ Staged' = Staged
  <2>1. Staged' = Staged /\ saving'[c] \notin Staged'
    BY <1>1, <1>3 DEF Staged
  <2> QED
    BY <1>4, <2>1 DEF Late, Ending, SaveEnding
<1>10. RowsFollow(c)'
  <2>1. \A i \in 1..n : /\ Part(c, i) \subseteq frames[i]
                       /\ frames[i] \cap Staged \subseteq Part(c, i)
    BY <1>1, <1>2 DEF AtWork, RowsFollow
  <2>2. \A i \in 1..n : /\ Part(c, i)' \subseteq frames'[i]
                       /\ frames'[i] \cap Staged' \subseteq Part(c, i)'
    BY <1>5, <1>7, <1>9, <2>1
  <2> QED
    BY <1>4, <1>6, <2>2 DEF RowsFollow
<1>11. Beliefs(c)'
  <2>1. saving'[c] = saving[c] /\ journal' = journal
    BY <1>1
  <2> QED
    BY <1>1, <1>3, <1>4, <1>5, <1>8, <1>9, <2>1 DEF AtWork, Beliefs
<1>12. Verdicts(c)'
  <2>1. Staged \cap durable \subseteq Flushed(c)
    BY <1>1 DEF AtWork, Verdicts
  <2> QED
    BY <1>4, <1>5, <1>8, <1>9, <2>1 DEF Verdicts
<1>13. Tidy(c)'
  BY <1>1, <1>3, <1>4 DEF Tidy, SavePc
<1> QED
  BY <1>5, <1>8, <1>10, <1>11, <1>12, <1>13 DEF Settles, AtWork

LEMMA SaveClosesSettles ==
  ASSUME NEW c \in Chains, Alone(c), SaveCloses(c)
  PROVE  Settles(c)'
<1> DEFINE n == Len(txs[c])
           s == saving[c]
<1>1. /\ TypeOK /\ Tidy(c) /\ AtWork(c) /\ pc[c] = "accepted" /\ ~VerdictLost
      /\ Closes(c, "saved", "saveLost", "saveUndone")
      /\ UNCHANGED <<depth, callbacks, saveInProgress, journal, contextVars,
                     txs, saving, flushing>>
  BY Standing, VerdictsKnown DEF SaveCloses
<1>2. /\ n \in Nat /\ Levels(c) = n /\ Len(frames) = n + 1 /\ Late(c) = {}
  BY <1>1, Heights DEF Ending, SaveEnding, Late
<1>3. /\ s \in Saves /\ flushing[c] = <<>> /\ Flushed(c) = {} /\ journal[s] = "staged"
      /\ s \notin Waiting /\ s \in Staged /\ frames[n + 1] = {s}
  BY <1>1, <1>2, Saving DEF SavePc, AtWork, Beliefs, RowsFollow, Staged
<1>4. /\ Len(frames') = n
      /\ \A i \in 1..(n - 1) : frames'[i] = frames[i]
      /\ n > 0 => frames[n] \subseteq frames'[n] /\ frames'[n] \subseteq frames[n] \cup {s}
      /\ Kept(c, "saved") \/ Lost(c, "saveLost") \/ Undone(c, "saveUndone")
  BY <1>1, <1>2, <1>3, RowsWhenClosing
<1>5. Ledger'
  BY <1>1, LedgerWhenClosing DEF contextVars
<1>6. /\ pc'[c] \in {"saved", "saveLost", "saveUndone"}
      /\ Kept(c, "saved") => pc'[c] = "saved"
      /\ Lost(c, "saveLost") => pc'[c] = "saveLost"
      /\ Undone(c, "saveUndone") => pc'[c] = "saveUndone"
  BY <1>1, <1>4, Moves DEF Kept, Lost, Undone
<1>7. /\ StartsInOrder(c)' /\ CallbacksDiffer(c)'
      /\ Waiting' = Waiting /\ Flushed(c)' = {}
      /\ \A i : Part(c, i)' = Part(c, i)
  BY <1>1, <1>3, <1>6, SameCalls DEF AtWork
<1>8. Late(c)' = {s} /\ Levels(c)' = n /\ Staged' = Staged
  <2>1. pc'[c] \notin Ending /\ saving'[c] = s /\ Staged' = Staged
    BY <1>1, <1>6 DEF Ending, Staged
  <2>2. Late(c)' = {s}
    BY <1>3, <1>6, <2>1 DEF Late, SaveEnding
  <2>3. Levels(c)' = n
    BY <1>1, <1>2, <2>1, LevelsMove
  <2> QED
    BY <2>1, <2>2, <2>3
<1>9. \A i \in 1..n : /\ Part(c, i) \subseteq frames[i] /\ Part(c, i) \subseteq Waiting
                     /\ frames[i] \cap Staged \subseteq Part(c, i)
  BY <1>1, <1>2, PartsApart DEF AtWork, RowsFollow
<1>10. Kept(c, "saved") =>
         /\ n = 0 => durable' = durable \cup {s}
         /\ n > 0 => durable' = durable /\ frames'[n] = frames[n] \cup {s}
  <2> HIDE DEF n, s
  <2> SUFFICES ASSUME Kept(c, "saved")
               PROVE  /\ n = 0 => durable' = durable \cup {s}
                      /\ n > 0 => durable' = durable /\ frames'[n] = frames[n] \cup {s}
    OBVIOUS
  <2>1. /\ Len(frames) = 1 => durable' = durable \cup frames[1]
        /\ Len(frames) > 1 =>
             /\ durable' = durable
             /\ frames'[Len(frames) - 1] = frames[Len(frames) - 1] \cup frames[Len(frames)]
    BY Zenon DEF Kept
  <2>2. Len(frames) - 1 = n /\ Len(frames) = n + 1 /\ (n = 0 => Len(frames) = 1)
        /\ (n > 0 => Len(frames) > 1)
    BY <1>2
  <2> QED
    BY <1>3, <2>1, <2>2
<1>11. Undone(c, "saveUndone") =>
         /\ durable' = durable
         /\ \A r \in OpenRows' : \E i \in 1..n : r \in frames[i]
  BY <1>2 DEF Undone
<1> HIDE DEF n, s
<1>12. RowsFollow(c)'
  <2>1. ASSUME NEW i \in 1..n
        PROVE  /\ Part(c, i) \subseteq frames'[i]
               /\ frames'[i] \cap Staged \subseteq
                    Part(c, i) \cup IF i = n THEN {s} ELSE {}
    <3>1. CASE i = n
      <4>1. n > 0 /\ n \in 1..n
        BY <1>2, <2>1, <3>1
      <4> QED
        BY <1>4, <1>9, <3>1, <4>1
    <3>2. CASE i # n
      <4>1. i \in 1..(n - 1)
        BY <1>2, <3>2
      <4> QED
        BY <1>4, <1>9, <3>2, <4>1
    <3> QED
      BY <3>1, <3>2
  <2> QED
    BY <1>6, <1>7, <1>8, <2>1 DEF RowsFollow
<1>13. Beliefs(c)'
  <2>1. /\ saving'[c] = s /\ journal' = journal /\ saving[c] = s
        /\ Waiting \subseteq Staged /\ Staged \subseteq Waiting \cup {s}
    BY <1>1, <1>3 DEF s, AtWork, Beliefs
  <2> QED
    BY <1>3, <1>6, <1>7, <1>8, <2>1 DEF Beliefs
<1>14. Staged \cap durable = {}
  BY <1>1, <1>3 DEF AtWork, Verdicts
<1>15. Verdicts(c)'
  <2>1. CASE Kept(c, "saved")
    <3>1. pc'[c] = "saved"
      BY <1>6, <2>1
    <3>2. CASE n = 0
      BY <1>4, <1>7, <1>8, <1>10, <1>14, <2>1, <3>1, <3>2 DEF Verdicts
    <3>3. CASE n > 0
      BY <1>4, <1>7, <1>8, <1>10, <1>14, <2>1, <3>1, <3>3 DEF Verdicts
    <3> QED
      BY <1>2, <3>2, <3>3
  <2>2. CASE Lost(c, "saveLost")
    <3>1. pc'[c] = "saveLost" /\ VerdictLost'
      BY <1>6, <2>2 DEF VerdictLost
    <3> QED
      BY <3>1 DEF Verdicts
  <2>3. CASE Undone(c, "saveUndone")
    <3>1. pc'[c] = "saveUndone" /\ durable' = durable
      BY <1>6, <1>11, <2>3
    <3>2. s \notin OpenRows'
      BY <1>3, <1>9, <1>11, <2>3
    <3> QED
      BY <1>3, <1>7, <1>8, <1>14, <3>1, <3>2 DEF Verdicts
  <2> QED
    BY <1>4, <2>1, <2>2, <2>3
<1>16. Tidy(c)'
  BY <1>1, <1>3, <1>6 DEF Tidy, SavePc
<1> QED
  BY <1>5, <1>7, <1>12, <1>13, <1>15, <1>16 DEF Settles, AtWork

LEMMA SaveAcceptedSettles ==
  ASSUME NEW c \in Chains, Alone(c), SaveAccepted(c)
  PROVE  Settles(c)'
<1> DEFINE n == Len(txs[c])
           s == saving[c]
<1>1. /\ TypeOK /\ Tidy(c) /\ AtWork(c) /\ Ledger /\ pc[c] = "saveWork" /\ ~VerdictLost
      /\ pc'[c] = "accepted" /\ ~VerdictLost'
      /\ UNCHANGED <<durable, unusableAt, outcomeUnknown, depth, callbacks, poisoned,
                     txs, saving, flushing>>
  <2>1. /\ TypeOK /\ Tidy(c) /\ AtWork(c) /\ Ledger /\ pc[c] = "saveWork" /\ ~VerdictLost
        /\ pc'[c] = "accepted" /\ \A d \in Chains \ {c} : pc'[d] = pc[d]
        /\ UNCHANGED <<durable, unusableAt, outcomeUnknown, depth, callbacks, poisoned,
                       txs, saving, flushing>>
    BY Standing, VerdictsKnown, Moves DEF SaveAccepted, guardVars, contextVars
  <2>2. ~VerdictLost'
    BY <2>1, VerdictStands DEF LostPc
  <2> QED
    BY <2>1, <2>2
<1>2. /\ n \in Nat /\ Levels(c) = n /\ Len(frames) = n + 1 /\ Late(c) = {}
  BY <1>1, Heights DEF Ending, SaveEnding, Late
<1>3. /\ s \in Saves /\ flushing[c] = <<>> /\ Flushed(c) = {} /\ journal[s] = "unsaved"
      /\ s \notin Waiting /\ frames[n + 1] = {} /\ s \notin durable
      /\ \A i \in 1..(n + 1) : s \notin frames[i]
  BY <1>1, <1>2, Saving DEF SavePc, AtWork, Beliefs, RowsFollow, Ledger
<1>4. /\ Len(frames') = n + 1 /\ frames'[n + 1] = {s}
      /\ \A i \in 1..n : frames'[i] = frames[i]
  <2>1. /\ frames \in Seq(SUBSET Saves) /\ n + 1 \in 1..Len(frames)
        /\ frames' = [frames EXCEPT ![n + 1] = frames[n + 1] \cup {s}]
        /\ \A i \in 1..n : i \in 1..Len(frames) /\ i # n + 1
    BY <1>1, <1>2 DEF SaveAccepted, TypeOK
  <2>2. Len(frames') = Len(frames)
    BY <2>1
  <2> QED
    BY <1>2, <1>3, <2>1, <2>2
<1>5. /\ journal'[s] = "staged" /\ \A r \in Saves \ {s} : journal'[r] = journal[r]
      /\ Staged' = Staged \cup {s}
  <2>1. journal'[s] = "staged" /\ \A r \in Saves \ {s} : journal'[r] = journal[r]
    BY <1>1, <1>3 DEF SaveAccepted, TypeOK
  <2> QED
    BY <1>3, <2>1 DEF Staged
<1>6. /\ StartsInOrder(c)' /\ CallbacksDiffer(c)'
      /\ Waiting' = Waiting /\ Flushed(c)' = {}
      /\ \A i : Part(c, i)' = Part(c, i)
  BY <1>1, <1>3, SameCalls DEF AtWork
<1>7. Levels(c)' = n /\ Late(c)' = {}
  BY <1>1, <1>2, LevelsMove DEF Ending, SaveEnding, Late
<1>8. /\ saving'[c] = s /\ s = saving[c]
      /\ Waiting \subseteq Staged /\ Staged \subseteq Waiting \cup {s}
  BY <1>1, <1>3 DEF AtWork, Beliefs
<1> HIDE DEF n, s
<1>9. Ledger'
  <2>1. \A r \in Saves : journal'[r] = "unsaved" =>
          r \notin durable' /\ \A i \in 1..Len(frames') : r \notin frames'[i]
    <3> SUFFICES ASSUME NEW r \in Saves, journal'[r] = "unsaved", NEW i \in 1..(n + 1)
                 PROVE  r \notin durable /\ r \notin frames'[i]
      BY <1>1, <1>2, <1>4
    <3>1. r # s /\ journal[r] = "unsaved"
      BY <1>5
    <3>2. r \notin durable /\ r \notin frames[i]
      BY <1>1, <1>2, <3>1 DEF Ledger
    <3>3. i \in 1..n \/ i = n + 1
      BY <1>2
    <3> QED
      BY <1>4, <3>1, <3>2, <3>3
  <2>2. OpenRows' \subseteq Staged'
    <3> SUFFICES ASSUME NEW r \in OpenRows'
                 PROVE  r \in Staged \cup {s}
      BY <1>5
    <3>1. PICK i \in 1..(n + 1) : Clean(i) /\ r \in frames'[i] /\ r \in Saves
      BY <1>1, <1>4 DEF OpenRows, Clean
    <3>2. CASE i = n + 1
      BY <1>4, <3>1, <3>2
    <3>3. CASE i \in 1..n
      <4>1. r \in OpenRows
        BY <1>2, <1>4, <3>1, <3>3 DEF OpenRows
      <4> QED
        BY <1>1, <4>1 DEF Ledger
    <3> QED
      BY <1>2, <3>2, <3>3
  <2>3. \A r \in Saves : /\ journal'[r] = "final" => r \in durable'
                         /\ journal'[r] = "restored" => r \notin durable'
    BY <1>1, <1>5 DEF Ledger
  <2>4. \A r \in Saves : journal'[r] = "broken" => poisoned'
    BY <1>1, <1>5, Standing
  <2> QED
    BY <2>1, <2>2, <2>3, <2>4 DEF Ledger
<1>10. RowsFollow(c)'
  <2>1. \A i \in 1..n : /\ Part(c, i) \subseteq frames[i]
                       /\ frames[i] \cap Staged \subseteq Part(c, i)
    BY <1>1, <1>2 DEF AtWork, RowsFollow
  <2>2. \A i \in 1..n : /\ Part(c, i)' \subseteq frames'[i]
                       /\ frames'[i] \cap Staged' \subseteq Part(c, i)'
    <3>1. \A i \in 1..n : s \notin frames[i]
      BY <1>2, <1>3
    <3> QED
      BY <1>4, <1>5, <1>6, <2>1, <3>1
  <2>3. frames'[Len(frames')] = {saving'[c]}
    BY <1>4, <1>8
  <2> QED
    BY <1>1, <1>7, <2>2, <2>3 DEF RowsFollow
<1>11. Beliefs(c)'
  BY <1>1, <1>3, <1>5, <1>6, <1>8 DEF Beliefs
<1>12. Verdicts(c)'
  <2>1. Staged \cap durable = {}
    BY <1>1, <1>3 DEF AtWork, Verdicts
  <2> QED
    BY <1>1, <1>3, <1>5, <2>1 DEF Verdicts
<1>13. Tidy(c)'
  BY <1>1, <1>3 DEF Tidy, SavePc
<1> QED
  BY <1>6, <1>9, <1>10, <1>11, <1>12, <1>13 DEF Settles, AtWork

\* A step that touches neither the rows nor the callbacks nor a belief.
Quiet(c) ==
  /\ UNCHANGED <<durable, frames, unusableAt, outcomeUnknown, depth, callbacks, journal,
                 txs, flushing>>
  /\ pc[c] \notin Ending \cup SaveEnding
  /\ pc'[c] \notin Ending \cup {"saveLost", "saveUndone", "saved", "saveWork", "accepted"}
  /\ poisoned => poisoned'
  /\ pc[c] = "failingBroken" => poisoned' \/ pc'[c] = "failingBroken"
  /\ pc'[c] \in {"saveRefused", "saveFailed"} => journal[saving'[c]] # "staged"
  /\ \A d \in Chains \ {c} : pc'[d] = pc[d]

LEMMA QuietStep ==
  ASSUME NEW c \in Chains, Alone(c), Quiet(c)
  PROVE  /\ StartsInOrder(c)' /\ CallbacksDiffer(c)' /\ RowsFollow(c)' /\ Verdicts(c)'
         /\ Ledger'
         /\ Waiting' = Waiting /\ Flushed(c)' = Flushed(c) /\ Staged' = Staged
<1> DEFINE n == Len(txs[c])
<1>1. /\ TypeOK /\ AtWork(c) /\ Ledger
      /\ \A d \in Chains \ {c} : pc[d] = "app" /\ pc'[d] = "app"
      /\ UNCHANGED <<durable, frames, unusableAt, outcomeUnknown, depth, callbacks,
                     journal, txs, flushing>>
      /\ pc[c] \notin Ending \cup SaveEnding
      /\ pc'[c] \notin Ending \cup {"saveLost", "saveUndone", "saved", "saveWork", "accepted"}
  BY Standing DEF Quiet, Idle
<1>2. n \in Nat /\ Levels(c) = n /\ Late(c) = {}
  BY <1>1, Heights, CallTypes DEF Late, SaveEnding
<1>3. /\ StartsInOrder(c)' /\ CallbacksDiffer(c)'
      /\ Waiting' = Waiting /\ Flushed(c)' = Flushed(c) /\ Staged' = Staged
      /\ \A i : Part(c, i)' = Part(c, i)
  BY <1>1, SameCalls DEF AtWork, Staged, Ending
<1>4. Levels(c)' = n /\ Late(c)' = {}
  <2>1. pc'[c] \in {"saveRefused", "saveFailed"} => saving'[c] \notin Staged'
    BY <1>1 DEF Quiet, Staged
  <2> QED
    BY <1>1, <1>2, <2>1, LevelsMove DEF Late, SaveEnding
<1>5. RowsFollow(c)'
  BY <1>1, <1>2, <1>3, <1>4 DEF AtWork, RowsFollow
<1>6. OpenRows' = OpenRows /\ (VerdictLost' <=> VerdictLost)
  <2>1. OpenRows' = OpenRows
    BY <1>1 DEF OpenRows, Clean
  <2>2. pc[c] \notin LostPc /\ pc'[c] \notin LostPc
    BY <1>1 DEF LostPc, Ending, SaveEnding
  <2> QED
    BY <1>1, <2>1, <2>2, VerdictStands
<1>7. Verdicts(c)'
  BY <1>1, <1>2, <1>3, <1>4, <1>6 DEF AtWork, Verdicts, Ending
<1>8. Ledger'
  <2>1. \A s \in Saves : journal'[s] = "broken" =>
          poisoned' \/ \E d \in Chains : pc'[d] = "failingBroken"
    <3>1. \A s \in Saves : journal'[s] = "broken" => poisoned \/ pc[c] = "failingBroken"
      BY <1>1, Standing
    <3> QED
      BY <3>1 DEF Quiet
  <2> QED
    BY <1>1, <1>3, <1>6, <2>1 DEF Ledger
<1> QED
  BY <1>3, <1>5, <1>7, <1>8

LEMMA QuietStepsSettle ==
  ASSUME NEW c \in Chains, Alone(c),
         \/ \E s \in Saves : StartSave(c, s)
         \/ ExecuteSave(c) \/ SavedNotified(c) \/ FailureNotified(c)
         \/ CallbacksDone(c) \/ Dispose(c)
  PROVE  Settles(c)'
<1>1. TypeOK /\ Tidy(c) /\ AtWork(c) /\ NoSave \notin Saves /\ saving \in [Chains -> Saves \cup {NoSave}]
  BY Standing, UnitOfWorkAssumption DEF TypeOK
<1>2. /\ callbacks \in Seq(Saves) /\ Waiting \subseteq Saves
      /\ NoSave \notin Waiting
  BY <1>1, CallTypes DEF Waiting
<1>3. ASSUME NEW s \in Saves, StartSave(c, s)
      PROVE  Settles(c)'
  <2>1. /\ pc[c] = "app" /\ pc'[c] = "saving" /\ \A d \in Chains \ {c} : pc'[d] = pc[d]
        /\ saving'[c] = s /\ journal[s] = "unsaved"
        /\ saving[c] = NoSave /\ flushing[c] = <<>> /\ flushing' = flushing
    BY <1>1, <1>3, Moves DEF StartSave, MayCall, TakesSave, Tidy, SavePc
  <2>2. Quiet(c)
    BY <1>3, <2>1 DEF Quiet, StartSave, storeVars, guardVars, contextVars, Ending, SaveEnding
  <2>3. Beliefs(c)'
    <3>1. Staged \subseteq Waiting \cup Flushed(c) /\ s \notin Staged /\ journal' = journal
      BY <1>1, <2>1, <2>2 DEF AtWork, Beliefs, Staged, Quiet
    <3>2. durable' = durable
      BY <2>2 DEF Quiet
    <3> QED
      BY <1>1, <2>1, <2>2, <3>1, <3>2, QuietStep DEF AtWork, Beliefs
  <2>4. Tidy(c)'
    BY <2>1 DEF Tidy, SavePc
  <2> QED
    BY <2>2, <2>3, <2>4, QuietStep DEF Settles, AtWork
<1>4. CASE ExecuteSave(c)
  <2>1. /\ pc[c] = "saving" /\ pc'[c] \in {"saveBegin", "saveRefused", "saveFailed"}
        /\ \A d \in Chains \ {c} : pc'[d] = pc[d]
        /\ saving' = saving /\ flushing[c] = <<>> /\ journal[saving[c]] = "unsaved"
    BY <1>1, <1>4, Moves DEF ExecuteSave, Tidy, AtWork, Beliefs
  <2>2. Quiet(c)
    BY <1>4, <2>1 DEF Quiet, ExecuteSave, storeVars, guardVars, contextVars, Ending, SaveEnding
  <2>3. Beliefs(c)'
    <3>1. durable' = durable /\ journal' = journal
      BY <2>2 DEF Quiet
    <3> QED
      BY <1>1, <2>1, <2>2, <3>1, QuietStep DEF AtWork, Beliefs
  <2>4. Tidy(c)'
    <3>1. flushing' = flushing
      BY <2>2 DEF Quiet
    <3> QED
      BY <2>1, <3>1 DEF Tidy, SavePc
  <2> QED
    BY <2>2, <2>3, <2>4, QuietStep DEF Settles, AtWork
<1>5. CASE SavedNotified(c) \/ FailureNotified(c)
  <2>1. /\ pc[c] \in {"notifying", "failing", "failingBroken"} /\ pc'[c] = "app"
        /\ \A d \in Chains \ {c} : pc'[d] = pc[d]
        /\ saving'[c] = NoSave /\ flushing[c] = <<>> /\ flushing' = flushing
        /\ saving[c] \notin Staged
    BY <1>1, <1>5, Moves DEF SavedNotified, FailureNotified, LeavesSave, Tidy, AtWork,
                            Beliefs, Staged
  <2>2. Quiet(c)
    <3>1. (poisoned => poisoned') /\ (pc[c] = "failingBroken" => poisoned')
      <4>1. CASE SavedNotified(c)
        BY <4>1 DEF SavedNotified, contextVars
      <4>2. CASE FailureNotified(c)
        BY <4>2, Zenon DEF FailureNotified
      <4> QED
        BY <1>5, <4>1, <4>2
    <3> QED
      BY <1>5, <2>1, <3>1 DEF Quiet, SavedNotified, FailureNotified, storeVars, guardVars,
                              Ending, SaveEnding
  <2>3. Beliefs(c)'
    <3>1. durable' = durable
      BY <2>2 DEF Quiet
    <3> QED
      BY <1>1, <1>2, <2>1, <2>2, <3>1, QuietStep DEF AtWork, Beliefs
  <2>4. Tidy(c)'
    BY <2>1 DEF Tidy
  <2> QED
    BY <2>2, <2>3, <2>4, QuietStep DEF Settles, AtWork
<1>6. CASE CallbacksDone(c) \/ Dispose(c)
  <2>1. /\ pc[c] \in {"flushing", "app"} /\ pc'[c] = "app"
        /\ \A d \in Chains \ {c} : pc'[d] = pc[d]
        /\ saving'[c] = NoSave /\ saving[c] = NoSave
        /\ flushing[c] = <<>> /\ flushing' = flushing
    BY <1>1, <1>6, Moves DEF CallbacksDone, Dispose, MayCall, chainVars, Tidy, SavePc
  <2>2. Quiet(c)
    BY <1>6, <2>1 DEF Quiet, CallbacksDone, Dispose, storeVars, guardVars,
                      contextVars, chainVars, Ending, SaveEnding
  <2>3. Beliefs(c)'
    <3>1. durable' = durable
      BY <2>2 DEF Quiet
    <3> QED
      BY <1>1, <1>2, <2>1, <2>2, <3>1, QuietStep DEF AtWork, Beliefs
  <2>4. Tidy(c)'
    BY <2>1 DEF Tidy
  <2> QED
    BY <2>2, <2>3, <2>4, QuietStep DEF Settles, AtWork
<1> QED
  BY <1>3, <1>4, <1>5, <1>6

LEMMA SaveFailedSettles ==
  ASSUME NEW c \in Chains, Alone(c), SaveFailed(c)
  PROVE  Settles(c)'
<1> DEFINE n == Len(txs[c])
           s == saving[c]
<1>1. /\ TypeOK /\ Tidy(c) /\ AtWork(c) /\ Ledger /\ pc[c] = "saveFailed"
      /\ UNCHANGED <<durable, frames, unusableAt, outcomeUnknown, depth, callbacks,
                     poisoned, txs, saving, flushing>>
  BY Standing DEF SaveFailed, storeVars, guardVars, contextVars
<1>2. /\ s \in Saves /\ flushing[c] = <<>> /\ Flushed(c) = {} /\ s \notin Waiting
      /\ Waiting \subseteq Staged /\ Staged \subseteq Waiting \cup {s}
      /\ journal[s] \in {"unsaved", "staged"}
  BY <1>1, Saving DEF SavePc, AtWork, Beliefs
<1>3. PICK end \in {"restored", "broken"} :
        /\ journal' = [journal EXCEPT ![s] = end]
        /\ \/ end = "restored" /\ pc'[c] = "failing"
           \/ end = "broken" /\ pc'[c] = "failingBroken"
  BY <1>1, Moves DEF SaveFailed
<1>4. /\ journal'[s] = end /\ \A r \in Saves \ {s} : journal'[r] = journal[r]
      /\ Staged' = Staged \ {s}
  <2>1. journal'[s] = end /\ \A r \in Saves \ {s} : journal'[r] = journal[r]
    BY <1>1, <1>2, <1>3 DEF TypeOK
  <2> QED
    BY <1>2, <1>3, <2>1 DEF Staged
<1>5. /\ StartsInOrder(c)' /\ CallbacksDiffer(c)'
      /\ Waiting' = Waiting /\ Flushed(c)' = {}
      /\ \A i : Part(c, i)' = Part(c, i)
  BY <1>1, <1>2, <1>3, SameCalls DEF AtWork
<1>6. /\ n \in Nat /\ Levels(c) = n /\ Levels(c)' = n
      /\ Late(c) = {s} \cap Staged /\ Late(c)' = {}
  <2>1. n \in Nat /\ Levels(c) = n /\ Late(c) = {s} \cap Staged
    BY <1>1, Heights DEF Ending, SaveEnding, Late
  <2> QED
    BY <1>1, <1>3, <2>1, LevelsMove DEF Ending, SaveEnding, Late
<1> HIDE DEF n, s
<1>7. ~VerdictLost => s \notin durable /\ s \notin OpenRows
  <2>1. CASE journal[s] = "unsaved"
    <3>1. s \notin durable /\ \A i \in 1..Len(frames) : s \notin frames[i]
      BY <1>1, <1>2, <2>1 DEF Ledger
    <3> QED
      BY <3>1 DEF OpenRows
  <2>2. CASE journal[s] = "staged"
    <3>1. Late(c) = {s}
      BY <1>2, <1>6, <2>2 DEF Staged
    <3> QED
      BY <1>1, <3>1 DEF AtWork, Verdicts
  <2> QED
    BY <1>2, <2>1, <2>2
<1>8. OpenRows' = OpenRows /\ s \notin OpenRows /\ (VerdictLost' <=> VerdictLost)
  <2>1. OpenRows' = OpenRows
    BY <1>1 DEF OpenRows, Clean
  <2>2. VerdictLost => OpenRows = {}
    BY Standing
  <2>3. VerdictLost' <=> VerdictLost
    <3>1. /\ \A d \in Chains \ {c} : pc'[d] = pc[d]
          /\ pc[c] \notin LostPc /\ pc'[c] \notin LostPc
      BY <1>1, <1>3, Moves DEF SaveFailed, LostPc
    <3> QED
      BY <1>1, <3>1, VerdictStands
  <2> QED
    BY <1>7, <2>1, <2>2, <2>3
<1>9. Ledger'
  <2>1. \A r \in Saves : journal'[r] = "unsaved" =>
          r \notin durable' /\ \A i \in 1..Len(frames') : r \notin frames'[i]
    BY <1>1, <1>3, <1>4 DEF Ledger
  <2>2. OpenRows' \subseteq Staged'
    BY <1>1, <1>4, <1>8 DEF Ledger
  <2>3. ~VerdictLost' => \A r \in Saves :
          /\ journal'[r] = "final" => r \in durable'
          /\ journal'[r] = "restored" => r \notin durable'
    BY <1>1, <1>3, <1>4, <1>7, <1>8 DEF Ledger
  <2>4. \A r \in Saves : journal'[r] = "broken" =>
          poisoned' \/ \E d \in Chains : pc'[d] = "failingBroken"
    <3>1. \A r \in Saves : journal[r] = "broken" => poisoned
      BY <1>1, Standing
    <3> QED
      BY <1>1, <1>3, <1>4, <3>1
  <2> QED
    BY <2>1, <2>2, <2>3, <2>4 DEF Ledger
<1>10. RowsFollow(c)'
  <2>1. \A i \in 1..n : /\ Part(c, i) \subseteq frames[i]
                       /\ frames[i] \cap Staged \subseteq Part(c, i) \cup {s}
    BY <1>1, <1>6 DEF AtWork, RowsFollow
  <2>2. \A i \in 1..n : /\ Part(c, i)' \subseteq frames'[i]
                       /\ frames'[i] \cap Staged' \subseteq Part(c, i)'
    BY <1>1, <1>4, <1>5, <2>1
  <2> QED
    BY <1>3, <1>6, <2>2 DEF RowsFollow
<1>11. Beliefs(c)'
  <2>1. saving'[c] = s
    BY <1>1 DEF s
  <2> QED
    BY <1>1, <1>2, <1>3, <1>4, <1>5, <2>1 DEF Beliefs
<1>12. Verdicts(c)'
  <2>1. ~VerdictLost => Staged \cap durable = {}
    BY <1>1, <1>2 DEF AtWork, Verdicts
  <2> QED
    BY <1>1, <1>3, <1>4, <1>8, <2>1 DEF Verdicts
<1>13. Tidy(c)'
  BY <1>1, <1>2, <1>3 DEF Tidy, SavePc
<1> QED
  BY <1>5, <1>9, <1>10, <1>11, <1>12, <1>13 DEF Settles, AtWork

LEMMA RunCallbackSettles ==
  ASSUME NEW c \in Chains, Alone(c), RunCallback(c)
  PROVE  Settles(c)'
<1> DEFINE s == Head(flushing[c])
<1>1. /\ TypeOK /\ Tidy(c) /\ AtWork(c) /\ Ledger /\ pc[c] = "flushing" /\ flushing[c] # <<>>
      /\ UNCHANGED <<durable, frames, unusableAt, outcomeUnknown, depth, callbacks,
                     pc, txs, saving>>
  BY Standing DEF RunCallback, storeVars, guardVars
<1>2. /\ txs[c] = <<>> /\ Len(txs[c]) = 0 /\ callbacks = <<>> /\ Len(frames) = 0
      /\ Waiting = {} /\ saving[c] = NoSave /\ OpenRows = {} /\ Levels(c) = 0
  <2>1. txs[c] = <<>> /\ callbacks = <<>> /\ saving[c] = NoSave
    BY <1>1 DEF Tidy, AtWork, StartsInOrder, SavePc
  <2>2. Len(txs[c]) = 0 /\ Len(frames) = 0 /\ Levels(c) = 0
    BY <1>1, <2>1, Heights DEF Ending
  <2> QED
    BY <2>1, <2>2 DEF Waiting, OpenRows
<1>3. PICK end \in {"final", "broken"} :
        /\ journal' = [journal EXCEPT ![s] = end]
        /\ (end = "broken" => poisoned') /\ (poisoned => poisoned')
  BY <1>1 DEF RunCallback
<1>4. flushing'[c] = Tail(flushing[c])
  BY <1>1 DEF RunCallback, TypeOK
<1>5. /\ s \in Flushed(c) /\ s \in Saves
      /\ Flushed(c)' = Flushed(c) \ {s}
      /\ \A k, l \in 1..Len(flushing'[c]) : flushing'[c][k] = flushing'[c][l] => k = l
  <2> DEFINE f == flushing[c]
             g == flushing'[c]
             m == Len(f)
  <2>1. f \in Seq(Saves) /\ f # <<>> /\ g = Tail(f) /\ s = Head(f)
    BY <1>1, <1>4, CallTypes
  <2>2. \A k, l \in 1..m : f[k] = f[l] => k = l
    BY <1>1 DEF AtWork, CallbacksDiffer
  <2> HIDE DEF f, g, s
  <2>3. /\ m \in Nat /\ m > 0 /\ s = f[1] /\ s \in Saves /\ Len(g) = m - 1
        /\ \A k \in 1..(m - 1) : g[k] = f[k + 1]
    BY <2>1
  <2> HIDE DEF m
  <2>4. \A k, l \in 1..Len(g) : g[k] = g[l] => k = l
    <3> SUFFICES ASSUME NEW k \in 1..(m - 1), NEW l \in 1..(m - 1), g[k] = g[l]
                 PROVE  k = l
      BY <2>3
    <3>1. k + 1 \in 1..m /\ l + 1 \in 1..m /\ f[k + 1] = f[l + 1]
      BY <2>3
    <3>2. k + 1 = l + 1
      BY <2>2, <3>1
    <3> QED
      BY <3>2
  <2>5. {g[k] : k \in 1..Len(g)} = {f[k] : k \in 1..m} \ {s}
    <3>1. ASSUME NEW k \in 1..(m - 1)
          PROVE  g[k] \in {f[l] : l \in 1..m} \ {s}
      <4>1. k + 1 \in 1..m /\ 1 \in 1..m /\ k + 1 # 1 /\ g[k] = f[k + 1]
        BY <2>3
      <4>2. f[k + 1] # f[1]
        BY <2>2, <4>1
      <4> QED
        BY <2>3, <4>1, <4>2
    <3>2. ASSUME NEW l \in 1..m, f[l] # s
          PROVE  f[l] \in {g[k] : k \in 1..(m - 1)}
      <4>1. l # 1
        BY <2>3, <3>2
      <4>2. l - 1 \in 1..(m - 1) /\ (l - 1) + 1 = l
        BY <2>3, <4>1
      <4>3. g[l - 1] = f[(l - 1) + 1]
        BY <2>3, <4>2
      <4>4. g[l - 1] = f[l]
        BY <4>2, <4>3
      <4> QED
        BY <4>2, <4>4
    <3>3. Len(g) = m - 1
      BY <2>3
    <3>4. {g[k] : k \in 1..(m - 1)} \subseteq {f[k] : k \in 1..m} \ {s}
      BY <3>1
    <3>5. {f[k] : k \in 1..m} \ {s} \subseteq {g[k] : k \in 1..(m - 1)}
      BY <3>2
    <3> QED
      BY <3>3, <3>4, <3>5, Zenon
  <2>6. s \in {f[k] : k \in 1..m}
    BY <2>3
  <2> QED
    BY <2>3, <2>4, <2>5, <2>6 DEF Flushed, f, g, m
<1> HIDE DEF s
<1>6. /\ journal'[s] = end /\ \A r \in Saves \ {s} : journal'[r] = journal[r]
      /\ Staged' = Staged \ {s} /\ s \in durable /\ s \in Staged
  <2>1. journal'[s] = end /\ \A r \in Saves \ {s} : journal'[r] = journal[r]
    BY <1>1, <1>3, <1>5 DEF TypeOK
  <2> QED
    BY <1>1, <1>3, <1>5, <2>1 DEF Staged, AtWork, Beliefs
<1>7. StartsInOrder(c)' /\ CallbacksDiffer(c)'
  <2>1. StartsInOrder(c)'
    BY <1>1 DEF AtWork, StartsInOrder
  <2> QED
    BY <1>1, <1>5, <2>1 DEF AtWork, CallbacksDiffer
<1>8. Ledger'
  <2>1. OpenRows' = {}
    BY <1>1, <1>2 DEF OpenRows
  <2>2. \A r \in Saves : journal[r] = "broken" => poisoned
    BY <1>1, Standing
  <2>3. \A r \in Saves : journal'[r] = "unsaved" => journal[r] = "unsaved"
    BY <1>3, <1>6
  <2>4. VerdictLost' <=> VerdictLost
    BY <1>1, VerdictStands DEF LostPc
  <2> QED
    BY <1>1, <1>3, <1>6, <2>1, <2>2, <2>3, <2>4 DEF Ledger
<1>9. RowsFollow(c)'
  <2>1. Levels(c)' = 0
    BY <1>1, <1>2, LevelsMove DEF Ending
  <2> QED
    BY <1>1, <2>1 DEF RowsFollow
<1>10. Beliefs(c)'
  <2>1. Waiting' = {} /\ saving'[c] = NoSave /\ Staged \subseteq Flushed(c) \cup {NoSave}
    BY <1>1, <1>2 DEF Waiting, AtWork, Beliefs
  <2>2. NoSave \notin Staged
    BY UnitOfWorkAssumption DEF Staged
  <2> QED
    BY <1>1, <1>5, <1>6, <2>1, <2>2 DEF AtWork, Beliefs
<1>11. Verdicts(c)'
  <2>1. ~VerdictLost => Staged \cap durable \subseteq Flushed(c)
    BY <1>1 DEF AtWork, Verdicts
  <2>2. VerdictLost' <=> VerdictLost
    BY <1>1, VerdictStands DEF LostPc
  <2> QED
    BY <1>1, <1>5, <1>6, <2>1, <2>2 DEF Verdicts
<1>12. Tidy(c)'
  BY <1>1, <1>2 DEF Tidy
<1> QED
  BY <1>7, <1>8, <1>9, <1>10, <1>11, <1>12 DEF Settles, AtWork

\* A callback deferred at the end belongs to the innermost transaction.
LEMMA PartsWhenDeferring ==
  ASSUME NEW c \in Chains, TypeOK, StartsInOrder(c), CallbacksDiffer(c),
         NEW s \in Saves, s \notin Waiting, Len(txs[c]) > 0,
         callbacks' = Append(callbacks, s), UNCHANGED <<depth, txs, flushing>>,
         pc'[c] \notin {"begin", "rejected"}
  PROVE  /\ StartsInOrder(c)' /\ CallbacksDiffer(c)'
         /\ Waiting' = Waiting \cup {s}
         /\ \A i \in 1..(Len(txs[c]) - 1) : Part(c, i)' = Part(c, i)
         /\ \A i : i = Len(txs[c]) => Part(c, i)' = Part(c, i) \cup {s}
<1> DEFINE n == Len(txs[c])
           L == Len(callbacks)
           start(i) == txs[c][i].start
<1>1. /\ n \in Nat /\ L \in Nat /\ n > 0
      /\ \A i \in 1..n : start(i) \in Nat /\ start(i) <= L
  BY CallTypes DEF StartsInOrder
<1>2. /\ Len(callbacks') = L + 1 /\ callbacks'[L + 1] = s
      /\ \A k \in 1..L : callbacks'[k] = callbacks[k]
  <2>1. callbacks \in Seq(Saves)
    BY CallTypes
  <2> QED
    BY <2>1
<1>3. StartsInOrder(c)'
  <2>1. txs'[c] = txs[c] /\ txs[c] # <<>>
    BY <1>1
  <2> QED
    BY <1>1, <1>2, <2>1 DEF StartsInOrder
<1>4. CallbacksDiffer(c)'
  <2>1. \A k \in 1..L : callbacks[k] # s
    BY DEF Waiting
  <2>2. ASSUME NEW k \in 1..(L + 1), NEW l \in 1..(L + 1), callbacks'[k] = callbacks'[l]
        PROVE  k = l
    <3>1. (k \in 1..L \/ k = L + 1) /\ (l \in 1..L \/ l = L + 1)
      BY <1>1
    <3> QED
      BY <1>2, <2>1, <2>2, <3>1 DEF CallbacksDiffer
  <2> QED
    BY <1>2, <2>2 DEF CallbacksDiffer
<1> HIDE DEF L
<1>5. ASSUME NEW a \in Nat, a <= L
      PROVE  {callbacks'[k] : k \in (a + 1)..(L + 1)} =
               {callbacks[k] : k \in (a + 1)..L} \cup {s}
  <2>1. ASSUME NEW k \in (a + 1)..(L + 1)
        PROVE  callbacks'[k] \in {callbacks[l] : l \in (a + 1)..L} \cup {s}
    <3>1. k = L + 1 \/ (k \in (a + 1)..L /\ k \in 1..L)
      BY <1>1
    <3> QED
      BY <1>2, <3>1
  <2>2. ASSUME NEW k \in (a + 1)..L
        PROVE  callbacks[k] \in {callbacks'[l] : l \in (a + 1)..(L + 1)}
    <3>1. k \in (a + 1)..(L + 1) /\ k \in 1..L
      BY <1>1
    <3> QED
      BY <1>2, <3>1
  <2>3. L + 1 \in (a + 1)..(L + 1)
    BY <1>1, <1>5
  <2>4. {callbacks'[k] : k \in (a + 1)..(L + 1)} \subseteq
          {callbacks[k] : k \in (a + 1)..L} \cup {s}
    BY <2>1
  <2>5. {callbacks[k] : k \in (a + 1)..L} \cup {s} \subseteq
          {callbacks'[k] : k \in (a + 1)..(L + 1)}
    BY <1>2, <2>2, <2>3
  <2> QED
    BY <2>4, <2>5
<1>6. Waiting' = Waiting \cup {s}
  <2>1. Waiting' = {callbacks'[k] : k \in (0 + 1)..(L + 1)}
    BY <1>2 DEF Waiting
  <2>2. Waiting = {callbacks[k] : k \in (0 + 1)..L}
    BY DEF Waiting, L
  <2>3. 0 \in Nat /\ 0 <= L
    BY <1>1
  <2> QED
    BY <1>5, <2>1, <2>2, <2>3, Zenon
<1>7. ASSUME NEW i, i = n
      PROVE  Part(c, i)' = Part(c, i) \cup {s}
  <2>1. Part(c, i) = {callbacks[k] : k \in (start(i) + 1)..L}
    BY <1>7 DEF Part, End, L
  <2>2. Part(c, i)' = {callbacks'[k] : k \in (start(i) + 1)..(L + 1)}
    BY <1>2, <1>7 DEF Part, End
  <2>3. start(i) \in Nat /\ start(i) <= L
    BY <1>1, <1>7
  <2> QED
    BY <1>5, <2>1, <2>2, <2>3, Zenon
<1>8. ASSUME NEW i \in 1..(n - 1)
      PROVE  Part(c, i)' = Part(c, i)
  <2>1. /\ End(c, i) = start(i + 1) /\ End(c, i)' = start(i + 1)
        /\ start(i) \in Nat /\ start(i + 1) \in Nat /\ start(i + 1) <= L
    BY <1>1 DEF End
  <2> HIDE DEF start
  <2>2. \A k \in (start(i) + 1)..start(i + 1) : callbacks'[k] = callbacks[k]
    <3>1. \A k \in (start(i) + 1)..start(i + 1) : k \in 1..L
      BY <1>1, <2>1
    <3> QED
      BY <1>2, <3>1
  <2>3. Part(c, i) = {callbacks[k] : k \in (start(i) + 1)..start(i + 1)}
    BY <2>1 DEF Part, start
  <2>4. Part(c, i)' = {callbacks'[k] : k \in (start(i) + 1)..start(i + 1)}
    BY <2>1 DEF Part, start
  <2> QED
    BY <2>2, <2>3, <2>4
<1> QED
  BY <1>3, <1>4, <1>6, <1>7, <1>8

LEMMA AfterCommittedSettles ==
  ASSUME NEW c \in Chains, Alone(c), AfterCommitted(c)
  PROVE  Settles(c)'
<1> DEFINE n == Len(txs[c])
           s == saving[c]
<1>1. /\ TypeOK /\ Tidy(c) /\ AtWork(c) /\ Ledger /\ pc[c] = "saved"
      /\ UNCHANGED <<durable, frames, unusableAt, outcomeUnknown, depth,
                     poisoned, txs, flushing>>
  BY Standing DEF AfterCommitted, storeVars, guardVars, contextVars
<1>2. /\ s \in Saves /\ flushing[c] = <<>> /\ Flushed(c) = {} /\ s \notin Waiting
      /\ Waiting \subseteq Staged /\ Staged \subseteq Waiting \cup {s}
      /\ journal[s] = "staged" /\ s \in Staged
  BY <1>1, Saving DEF SavePc, AtWork, Beliefs, Staged
<1>3. /\ n \in Nat /\ Levels(c) = n /\ Len(frames) = n /\ Late(c) = {s} /\ depth = n
  BY <1>1, <1>2, Heights DEF Ending, SaveEnding, Late, AtWork, StartsInOrder
<1>4. /\ \A i \in 1..n : /\ Part(c, i) \subseteq frames[i]
                         /\ frames[i] \cap Staged \subseteq
                              Part(c, i) \cup IF i = n THEN {s} ELSE {}
      /\ n = 0 => s \in durable
      /\ n > 0 => s \in frames[n]
      /\ ~VerdictLost => Staged \cap durable \subseteq IF n = 0 THEN {s} ELSE {}
  <2>1. n > 0 => Len(frames) # 0 /\ n # 0
    BY <1>3
  <2> QED
    BY <1>1, <1>2, <1>3, <2>1 DEF AtWork, RowsFollow, Verdicts
<1>5. OpenRows' = OpenRows /\ (VerdictLost' <=> VerdictLost)
  <2>1. /\ \A d \in Chains \ {c} : pc'[d] = pc[d]
        /\ pc[c] \notin LostPc /\ pc'[c] \notin LostPc
    BY <1>1, Moves DEF AfterCommitted, LostPc
  <2> QED
    BY <1>1, <2>1, VerdictStands DEF OpenRows, Clean
<1>6. \A r \in Saves : journal[r] = "broken" => poisoned
  BY <1>1, Standing
<1>7. CASE Deferred
  <2>1. /\ n > 0 /\ callbacks' = Append(callbacks, s) /\ saving'[c] = NoSave
        /\ pc'[c] = "app" /\ journal' = journal /\ Staged' = Staged
    BY <1>1, <1>3, <1>7, Moves DEF AfterCommitted, Deferred, LeavesSave, TypeOK, Staged
  <2>2. /\ StartsInOrder(c)' /\ CallbacksDiffer(c)'
        /\ Waiting' = Waiting \cup {s}
        /\ \A i \in 1..(n - 1) : Part(c, i)' = Part(c, i)
        /\ \A i : i = n => Part(c, i)' = Part(c, i) \cup {s}
    BY <1>1, <1>2, <2>1, PartsWhenDeferring DEF AtWork
  <2>3. Levels(c)' = n /\ Late(c)' = {}
    BY <1>1, <1>3, <2>1, LevelsMove DEF Ending, SaveEnding, Late
  <2>4. Flushed(c)' = {}
    BY <1>1, <1>2 DEF Flushed
  <2> HIDE DEF n, s
  <2>5. RowsFollow(c)'
    <3>1. ASSUME NEW i \in 1..n
          PROVE  Part(c, i)' \subseteq frames[i] /\ frames[i] \cap Staged \subseteq Part(c, i)'
      <4>1. CASE i = n
        <5>1. Part(c, i)' = Part(c, i) \cup {s} /\ n > 0
          BY <2>1, <2>2, <4>1
        <5> QED
          BY <1>4, <4>1, <5>1
      <4>2. CASE i # n
        <5>1. i \in 1..(n - 1)
          BY <1>3, <4>2
        <5> QED
          BY <1>4, <2>2, <4>2, <5>1
      <4> QED
        BY <4>1, <4>2
    <3> QED
      BY <1>1, <2>1, <2>3, <3>1 DEF RowsFollow
  <2>6. Beliefs(c)'
    <3>1. NoSave \notin Waiting'
      BY <1>2, <2>2, UnitOfWorkAssumption DEF Staged
    <3> QED
      BY <1>2, <2>1, <2>2, <2>4, <3>1 DEF Beliefs
  <2>7. Verdicts(c)'
    BY <1>1, <1>4, <1>5, <2>1, <2>4 DEF Verdicts
  <2>8. Ledger'
    BY <1>1, <1>5, <1>6, <2>1 DEF Ledger
  <2>9. Tidy(c)'
    BY <1>1, <1>2, <2>1 DEF Tidy
  <2> QED
    BY <2>2, <2>5, <2>6, <2>7, <2>8, <2>9 DEF Settles, AtWork
<1>8. CASE ~Deferred
  <2>1. n = 0 /\ Waiting = {} /\ OpenRows = {}
    <3>1. n = 0
      BY <1>3, <1>8 DEF Deferred
    <3>2. callbacks = <<>>
      <4>1. txs[c] = <<>>
        BY <1>1, <3>1, CallTypes
      <4> QED
        BY <1>1, <4>1 DEF AtWork, StartsInOrder
    <3> QED
      BY <1>3, <3>1, <3>2 DEF Waiting, OpenRows
  <2>2. /\ journal' = [journal EXCEPT ![s] = "final"] /\ pc'[c] = "notifying"
        /\ callbacks' = callbacks /\ saving' = saving
    BY <1>1, <1>8, Moves DEF AfterCommitted
  <2>3. /\ journal'[s] = "final" /\ \A r \in Saves \ {s} : journal'[r] = journal[r]
        /\ Staged' = Staged \ {s} /\ Staged' = {}
    <3>1. journal'[s] = "final" /\ \A r \in Saves \ {s} : journal'[r] = journal[r]
      BY <1>1, <1>2, <2>2 DEF TypeOK
    <3> QED
      BY <1>2, <2>1, <3>1 DEF Staged
  <2>4. /\ StartsInOrder(c)' /\ CallbacksDiffer(c)'
        /\ Waiting' = {} /\ Flushed(c)' = {}
    BY <1>1, <1>2, <2>1, <2>2, SameCalls DEF AtWork
  <2>5. RowsFollow(c)'
    <3>1. Levels(c)' = 0
      BY <1>1, <1>3, <2>1, <2>2, LevelsMove DEF Ending
    <3> QED
      BY <2>2, <3>1 DEF RowsFollow
  <2>6. Beliefs(c)'
    BY <2>2, <2>3, <2>4 DEF Beliefs
  <2>7. Verdicts(c)'
    BY <2>2, <2>3 DEF Verdicts
  <2>8. Ledger'
    <3>1. \A r \in Saves : journal'[r] = "unsaved" => journal[r] = "unsaved"
      BY <2>3
    <3> QED
      BY <1>1, <1>4, <1>5, <1>6, <2>1, <2>3, <3>1 DEF Ledger
  <2>9. Tidy(c)'
    BY <1>1, <1>2, <2>2 DEF Tidy, SavePc
  <2> QED
    BY <2>4, <2>5, <2>6, <2>7, <2>8, <2>9 DEF Settles, AtWork
<1> QED
  BY <1>7, <1>8

\* transaction() starts with no callback of its own.
LEMMA PartsWhenEntering ==
  ASSUME NEW c \in Chains, TypeOK, StartsInOrder(c), CallbacksDiffer(c),
         depth' = depth + 1, txs' = [txs EXCEPT ![c] = Append(@, Entered)],
         UNCHANGED <<callbacks, flushing>>
  PROVE  /\ StartsInOrder(c)' /\ CallbacksDiffer(c)' /\ Waiting' = Waiting
         /\ Len(txs'[c]) = Len(txs[c]) + 1
         /\ \A i \in 1..Len(txs[c]) : Part(c, i)' = Part(c, i)
         /\ \A i : i = Len(txs'[c]) => Part(c, i)' = {}
<1> DEFINE n == Len(txs[c])
           L == Len(callbacks)
           t == txs'[c]
<1>1. /\ n \in Nat /\ L \in Nat /\ depth = n
      /\ \A i \in 1..n : txs[c][i].start \in Nat /\ txs[c][i].start <= L
      /\ n = 0 => L = 0
  <2>1. n = 0 => L = 0
    <3>1. n = 0 => txs[c] = <<>>
      BY CallTypes
    <3> QED
      BY <3>1 DEF StartsInOrder
  <2> QED
    BY <2>1, CallTypes DEF StartsInOrder
<1>2. /\ t \in Seq(Transaction) /\ Len(t) = n + 1 /\ \A i \in 1..n : t[i] = txs[c][i]
      /\ t[n + 1] = Entered
  <2>1. txs[c] \in Seq(Transaction) /\ txs \in [Chains -> Seq(Transaction)] /\ Entered \in Transaction
    BY <1>1, CallTypes DEF TypeOK, Entered, Transaction
  <2>2. t = Append(txs[c], Entered)
    BY <2>1
  <2> HIDE DEF t
  <2> QED
    BY <2>1, <2>2, AppendProperties
<1>3. t[n + 1].start = L /\ (t[n + 1].root <=> n = 0)
  <2>1. t[n + 1] = [start |-> L, root |-> depth = 0]
    BY <1>2 DEF Entered
  <2>2. t[n + 1].start = L
    BY <2>1
  <2>3. t[n + 1].root <=> depth = 0
    <3>1. ASSUME NEW r, r = [start |-> L, root |-> depth = 0]
          PROVE  r.root <=> depth = 0
      BY <3>1, Zenon
    <3> HIDE DEF L, n, t
    <3> QED
      BY <2>1, <3>1, Zenon
  <2> QED
    BY <1>1, <2>2, <2>3
<1> HIDE DEF n, L, t
<1>4. StartsInOrder(c)'
  <2>1. \A i \in 1..(n + 1) : i \in 1..n \/ i = n + 1
    BY <1>1
  <2>2. /\ \A i \in 1..n : txs[c][i].root <=> i = 1
        /\ \A i \in 1..n : i = 1 => txs[c][i].start = 0
        /\ \A i, j \in 1..n : i <= j => txs[c][i].start <= txs[c][j].start
    BY DEF StartsInOrder, n
  <2>3. \A i \in 1..(n + 1) : t[i].root <=> i = 1
    <3> SUFFICES ASSUME NEW i \in 1..(n + 1)
                 PROVE  t[i].root <=> i = 1
      OBVIOUS
    <3>1. CASE i \in 1..n
      BY <1>2, <2>2, <3>1
    <3>2. CASE i = n + 1
      <4>1. n = 0 <=> i = 1
        BY <1>1, <3>2
      <4> QED
        BY <1>3, <3>2, <4>1
    <3> QED
      BY <2>1, <3>1, <3>2
  <2>4. \A i \in 1..(n + 1) : t[i].start <= L /\ (i = 1 => t[i].start = 0)
    <3> SUFFICES ASSUME NEW i \in 1..(n + 1)
                 PROVE  t[i].start <= L /\ (i = 1 => t[i].start = 0)
      OBVIOUS
    <3>1. CASE i \in 1..n
      BY <1>1, <1>2, <2>2, <3>1
    <3>2. CASE i = n + 1
      BY <1>1, <1>3, <3>2
    <3> QED
      BY <2>1, <3>1, <3>2
  <2>5. \A i, j \in 1..(n + 1) : i <= j => t[i].start <= t[j].start
    <3> SUFFICES ASSUME NEW i \in 1..(n + 1), NEW j \in 1..(n + 1), i <= j
                 PROVE  t[i].start <= t[j].start
      OBVIOUS
    <3>1. CASE j = n + 1
      BY <1>3, <2>4, <3>1
    <3>2. CASE j \in 1..n
      <4>1. i \in 1..n
        BY <1>1, <3>2
      <4> QED
        BY <1>2, <2>2, <3>2, <4>1
    <3> QED
      BY <2>1, <3>1, <3>2
  <2>6. depth' = Len(t) /\ t # <<>> /\ L = Len(callbacks')
    BY <1>1, <1>2 DEF L
  <2> QED
    BY <1>2, <1>3, <2>3, <2>4, <2>5, <2>6 DEF StartsInOrder, t
<1>5. CallbacksDiffer(c)' /\ Waiting' = Waiting
  BY DEF CallbacksDiffer, Waiting
<1>6. ASSUME NEW i \in 1..n
      PROVE  Part(c, i)' = Part(c, i)
  <2>1. t[i].start = txs[c][i].start
    BY <1>2
  <2>2. End(c, i)' = End(c, i)
    <3>1. End(c, i)' = t[i + 1].start
      <4>1. i # Len(t)
        BY <1>1, <1>2
      <4> QED
        BY <4>1 DEF End, t
    <3>2. CASE i = n
      BY <1>3, <3>1, <3>2 DEF End, n, L
    <3>3. CASE i # n
      <4>1. i + 1 \in 1..n
        BY <1>1, <3>3
      <4> QED
        BY <1>2, <3>1, <3>3, <4>1 DEF End, n
    <3> QED
      BY <3>2, <3>3
  <2> QED
    BY <2>1, <2>2 DEF Part, t
<1>7. ASSUME NEW i, i = Len(t)
      PROVE  Part(c, i)' = {}
  <2>1. t[i].start = L /\ L \in Nat
    BY <1>1, <1>2, <1>3, <1>7
  <2>2. End(c, i)' = L
    BY <1>7 DEF End, t, L
  <2>3. (L + 1)..L = {}
    BY <1>1
  <2>4. Part(c, i)' = {callbacks'[k] : k \in (L + 1)..L}
    BY <2>1, <2>2 DEF Part, t
  <2> QED
    BY <2>3, <2>4
<1> QED
  BY <1>2, <1>4, <1>5, <1>6, <1>7 DEF n, t

LEMMA BeginTransactionSettles ==
  ASSUME NEW c \in Chains, Alone(c), BeginTransaction(c)
  PROVE  Settles(c)'
<1> DEFINE n == Len(txs[c])
<1>1. /\ TypeOK /\ Tidy(c) /\ AtWork(c) /\ Ledger /\ pc[c] = "app"
      /\ pc'[c] \in {"begin", "rejected"}
      /\ txs' = [txs EXCEPT ![c] = Append(@, Entered)] /\ depth' = depth + 1
      /\ UNCHANGED <<durable, frames, unusableAt, outcomeUnknown, callbacks, journal,
                     poisoned, saving, flushing>>
  <2>1. Goto(c, "begin") \/ Goto(c, "rejected")
    BY DEF BeginTransaction
  <2> QED
    BY <2>1, Standing, Moves DEF BeginTransaction, MayCall, storeVars, contextVars
<1>2. /\ n \in Nat /\ Levels(c) = n /\ Late(c) = {}
      /\ saving[c] = NoSave /\ flushing[c] = <<>>
  BY <1>1, Heights DEF Ending, SaveEnding, Late, Tidy, SavePc
<1>3. /\ StartsInOrder(c)' /\ CallbacksDiffer(c)' /\ Waiting' = Waiting
      /\ Len(txs'[c]) = n + 1
      /\ \A i \in 1..n : Part(c, i)' = Part(c, i)
      /\ \A i : i = Len(txs'[c]) => Part(c, i)' = {}
  BY <1>1, PartsWhenEntering DEF AtWork
<1>4. Levels(c)' = n /\ Late(c)' = {} /\ Staged' = Staged /\ Flushed(c)' = Flushed(c)
  <2>1. Late(c)' = {}
    BY <1>1, <1>3 DEF Late, Ending
  <2>2. Levels(c)' = n
    BY <1>1, <1>2, <1>3, LevelsMove DEF Ending
  <2> QED
    BY <1>1, <2>1, <2>2 DEF Staged, Flushed
<1>5. OpenRows' = OpenRows /\ (VerdictLost' <=> VerdictLost)
  <2>1. /\ \A d \in Chains \ {c} : pc'[d] = pc[d]
        /\ pc[c] \notin LostPc /\ pc'[c] \notin LostPc
    <3>1. Goto(c, "begin") \/ Goto(c, "rejected")
      BY DEF BeginTransaction
    <3> QED
      BY <1>1, <3>1, Moves DEF LostPc
  <2> QED
    BY <1>1, <2>1, VerdictStands DEF OpenRows, Clean
<1>6. RowsFollow(c)'
  BY <1>1, <1>2, <1>3, <1>4 DEF AtWork, RowsFollow
<1>7. Beliefs(c)'
  <2>1. saving'[c] = saving[c]
    BY <1>1
  <2> QED
    BY <1>1, <1>3, <1>4, <2>1 DEF AtWork, Beliefs
<1>8. Verdicts(c)'
  BY <1>1, <1>4, <1>5 DEF AtWork, Verdicts
<1>9. Ledger'
  <2>1. \A r \in Saves : journal[r] = "broken" => poisoned
    BY <1>1, Standing
  <2> QED
    BY <1>1, <1>4, <1>5, <2>1 DEF Ledger
<1>10. Tidy(c)'
  BY <1>1, <1>2 DEF Tidy
<1> QED
  BY <1>3, <1>6, <1>7, <1>8, <1>9, <1>10 DEF Settles, AtWork

\* A transaction that ends hands its callbacks to the one around it, or takes
\* them along: kept is how many of them stay.
LEMMA PartsWhenLeaving ==
  ASSUME NEW c \in Chains, TypeOK, StartsInOrder(c), CallbacksDiffer(c),
         Len(txs[c]) > 0, LeavesTransaction(c),
         pc'[c] \notin {"begin", "rejected"}, flushing'[c] \in {flushing[c], callbacks},
         NEW kept \in {Last(txs[c]).start, Len(callbacks)},
         callbacks' = SubSeq(callbacks, 1, kept),
         Len(txs[c]) > 1 \/ kept = Last(txs[c]).start
  PROVE  /\ StartsInOrder(c)' /\ CallbacksDiffer(c)'
         /\ Len(txs'[c]) = Len(txs[c]) - 1
         /\ \A i \in 1..(Len(txs[c]) - 2) : Part(c, i)' = Part(c, i)
         /\ kept = Len(callbacks) =>
              /\ Waiting' = Waiting
              /\ \A i : i = Len(txs[c]) - 1 /\ i > 0 =>
                   Part(c, i)' = Part(c, i) \cup Part(c, Len(txs[c]))
         /\ kept = Last(txs[c]).start =>
              /\ Waiting' = Waiting \ Part(c, Len(txs[c]))
              /\ \A i : i = Len(txs[c]) - 1 /\ i > 0 => Part(c, i)' = Part(c, i)
<1> DEFINE n == Len(txs[c])
           L == Len(callbacks)
           t == txs'[c]
           start(i) == txs[c][i].start
           Between(a, b) == {callbacks[k] : k \in (a + 1)..b}
<1>1. /\ n \in Nat /\ L \in Nat /\ n > 0 /\ depth = n
      /\ \A i \in 1..n : start(i) \in Nat /\ start(i) <= L
      /\ \A i, j \in 1..n : i <= j => start(i) <= start(j)
      /\ \A i \in 1..n : i = 1 => start(i) = 0
      /\ \A i \in 1..n : txs[c][i].root <=> i = 1
  BY CallTypes DEF StartsInOrder
<1>2. /\ t \in Seq(Transaction) /\ Len(t) = n - 1
      /\ \A i \in 1..(n - 1) : t[i] = txs[c][i]
      /\ Last(txs[c]) = txs[c][n]
  <2>1. txs[c] \in Seq(Transaction) /\ txs[c] # <<>> /\ txs \in [Chains -> Seq(Transaction)]
    BY <1>1, CallTypes DEF TypeOK
  <2>2. t = Front(txs[c])
    BY <2>1 DEF LeavesTransaction
  <2>3. /\ Front(txs[c]) \in Seq(Transaction)
        /\ Len(Front(txs[c])) = n - 1
        /\ \A i \in 1..(n - 1) : Front(txs[c])[i] = txs[c][i]
    BY <2>1, FrontType
  <2>4. Last(txs[c]) = txs[c][n]
    BY DEF Last
  <2> QED
    BY <2>2, <2>3, <2>4
<1>3. /\ kept \in Nat /\ kept <= L /\ start(n) <= kept
      /\ Len(callbacks') = kept /\ \A k \in 1..kept : callbacks'[k] = callbacks[k]
  <2>1. kept \in Nat /\ kept <= L /\ start(n) <= kept
    BY <1>1, <1>2
  <2>2. callbacks \in Seq(Saves)
    BY CallTypes
  <2>3. Len(callbacks') = kept /\ \A k \in 1..kept : callbacks'[k] = callbacks[k]
    BY <2>1, <2>2
  <2> QED
    BY <2>1, <2>3
<1>4. depth' = n - 1
  BY <1>1 DEF LeavesTransaction
<1>5. \A i \in 1..n : Part(c, i) = Between(start(i), IF i = n THEN L ELSE start(i + 1))
  BY DEF Part, End
<1>6. ASSUME NEW a \in Nat, NEW b \in Nat, b <= kept
      PROVE  {callbacks'[k] : k \in (a + 1)..b} = Between(a, b)
  <2>1. \A k \in (a + 1)..b : k \in 1..kept
    BY <1>3, <1>6
  <2> QED
    BY <1>3, <2>1
<1> HIDE DEF n, L, t, start, Between
<1>7. StartsInOrder(c)'
  <2>1. \A i \in 1..(n - 1) : i \in 1..n /\ t[i].start = start(i)
    <3>1. \A i \in 1..(n - 1) : i \in 1..n
      BY <1>1
    <3> QED
      BY <1>2, <3>1 DEF start, n
  <2>6. ASSUME NEW i \in 1..(n - 1)
        PROVE  t[i].root <=> i = 1
    <3>1. i \in 1..n /\ t[i] = txs[c][i]
      BY <1>2, <2>1
    <3>2. txs[c][i].root <=> i = 1
      BY <1>1, <3>1
    <3> QED
      BY <3>1, <3>2, Zenon
  <2>2. \A i \in 1..(n - 1) : start(i) <= kept
    <3> SUFFICES ASSUME NEW i \in 1..(n - 1)
                 PROVE  start(i) <= kept
      OBVIOUS
    <3>1. i \in 1..n /\ n \in 1..n /\ i <= n
      BY <1>1
    <3>2. start(i) <= start(n) /\ start(i) \in Nat /\ start(n) \in Nat
      BY <1>1, <3>1
    <3> QED
      BY <1>3, <3>2
  <2>3. t = <<>> => callbacks' = <<>>
    <3> SUFFICES ASSUME t = <<>>
                 PROVE  callbacks' = <<>>
      OBVIOUS
    <3>1. n = 1
      BY <1>1, <1>2
    <3>2. start(n) = 0
      BY <1>1, <3>1
    <3>3. kept = 0
      BY <1>2, <3>1, <3>2 DEF start, n
    <3> QED
      BY <3>3, CallTypes
  <2>4. \A i, j \in 1..(n - 1) : i <= j => t[i].start <= t[j].start
    BY <1>1, <2>1
  <2>5. \A i \in 1..(n - 1) : i = 1 => t[i].start = 0
    BY <1>1, <2>1
  <2>7. \A i \in 1..(n - 1) : t[i].start <= kept
    BY <2>1, <2>2
  <2>8. Len(txs'[c]) = n - 1 /\ txs'[c] = t /\ Len(callbacks') = kept
    BY <1>2, <1>3 DEF t
  <2>9. \A i \in 1..Len(txs'[c]) :
          /\ txs'[c][i].root <=> i = 1
          /\ i = 1 => txs'[c][i].start = 0
          /\ txs'[c][i].start <= Len(callbacks')
    BY <2>5, <2>6, <2>7, <2>8, Zenon
  <2> QED
    BY <1>4, <2>3, <2>4, <2>8, <2>9, Zenon DEF StartsInOrder
<1>8. CallbacksDiffer(c)'
  <2>1. \A k \in 1..kept : k \in 1..L /\ callbacks'[k] = callbacks[k]
    BY <1>1, <1>3
  <2>2. Len(callbacks') = kept
    BY <1>3
  <2>3. \A k, l \in 1..L : callbacks[k] = callbacks[l] => k = l
    BY DEF CallbacksDiffer, L
  <2>4. \A k, l \in 1..Len(callbacks') : callbacks'[k] = callbacks'[l] => k = l
    <3>1. SUFFICES ASSUME NEW k \in 1..kept, NEW l \in 1..kept,
                          callbacks'[k] = callbacks'[l]
                   PROVE  k = l
      BY <2>2
    <3>2. k \in 1..L /\ l \in 1..L /\ callbacks[k] = callbacks[l]
      BY <2>1, <3>1
    <3> QED
      BY <2>3, <3>2
  <2>5. \A k, l \in 1..Len(flushing'[c]) : flushing'[c][k] = flushing'[c][l] => k = l
    <3>1. CASE flushing'[c] = flushing[c]
      BY <3>1 DEF CallbacksDiffer
    <3>2. CASE flushing'[c] = callbacks
      BY <2>3, <3>2 DEF L
    <3> QED
      BY <3>1, <3>2
  <2> QED
    BY <2>4, <2>5 DEF CallbacksDiffer
<1>9. ASSUME NEW i \in 1..(n - 2)
      PROVE  Part(c, i)' = Part(c, i)
  <2>1. i \in 1..n /\ i + 1 \in 1..n /\ n \in 1..n /\ i # n /\ i + 1 <= n /\ i # n - 1
        /\ i \in 1..(n - 1) /\ i + 1 \in 1..(n - 1)
    BY <1>1
  <2>2. /\ Part(c, i) = Between(start(i), start(i + 1))
        /\ start(i) \in Nat /\ start(i + 1) \in Nat /\ start(i + 1) <= start(n)
    BY <1>1, <1>5, <2>1
  <2>3. start(i + 1) <= kept
    BY <1>1, <1>3, <2>1, <2>2
  <2>4. t[i].start = start(i) /\ End(c, i)' = start(i + 1)
    BY <1>2, <2>1 DEF End, t, start, n
  <2>5. Part(c, i)' = {callbacks'[k] : k \in (start(i) + 1)..start(i + 1)}
    BY <2>4 DEF Part, t
  <2> QED
    BY <1>6, <2>2, <2>3, <2>5
<1>10. ASSUME NEW i, i = n - 1, i > 0
       PROVE  /\ start(i) \in Nat /\ start(i) <= start(n)
              /\ Part(c, i)' = Between(start(i), kept)
              /\ Part(c, i) = Between(start(i), start(n))
  <2>0. n \in Nat /\ n > 0 /\ i = n - 1 /\ i > 0
    BY <1>1, <1>10
  <2>1. i \in 1..n /\ n \in 1..n /\ i <= n /\ i # n /\ i \in 1..(n - 1) /\ i + 1 = n
    BY <2>0
  <2>2. start(i) \in Nat /\ start(i) <= start(n) /\ Part(c, i) = Between(start(i), start(n))
    BY <1>1, <1>5, <2>1
  <2>3. t[i].start = start(i) /\ End(c, i)' = kept
    BY <1>2, <1>3, <1>10, <2>1 DEF End, t, start, n
  <2>4. Part(c, i)' = {callbacks'[k] : k \in (start(i) + 1)..kept}
    BY <2>3 DEF Part, t
  <2> QED
    BY <1>3, <1>6, <2>2, <2>4
<1>11. ASSUME NEW a \in Nat, NEW b \in Nat, NEW d \in Nat, a <= b, b <= d
       PROVE  Between(a, d) = Between(a, b) \cup Between(b, d)
  <2>1. (a + 1)..d = ((a + 1)..b) \cup ((b + 1)..d)
    BY <1>11
  <2> QED
    BY <2>1 DEF Between
<1>12. /\ Waiting = Between(0, L) /\ Waiting' = Between(0, kept)
       /\ Part(c, n) = Between(start(n), L) /\ start(n) \in Nat /\ start(n) <= L
  <2>1. Waiting = Between(0, L)
    BY DEF Waiting, Between, L
  <2>2. Waiting' = {callbacks'[k] : k \in (0 + 1)..kept}
    BY <1>3 DEF Waiting
  <2>3. Waiting' = Between(0, kept)
    BY <1>3, <1>6, <2>2
  <2>4. n \in 1..n
    BY <1>1
  <2> QED
    BY <1>1, <1>5, <2>1, <2>3, <2>4
<1>13. ASSUME kept = L
       PROVE  /\ Waiting' = Waiting
              /\ \A i : i = n - 1 /\ i > 0 => Part(c, i)' = Part(c, i) \cup Part(c, n)
  <2>1. ASSUME NEW i, i = n - 1, i > 0
        PROVE  Part(c, i)' = Part(c, i) \cup Part(c, n)
    BY <1>1, <1>10, <1>11, <1>12, <1>13, <2>1
  <2> QED
    BY <1>12, <1>13, <2>1
<1>14. ASSUME kept = start(n)
       PROVE  /\ Waiting' = Waiting \ Part(c, n)
              /\ \A i : i = n - 1 /\ i > 0 => Part(c, i)' = Part(c, i)
  <2>1. Between(0, L) = Between(0, start(n)) \cup Between(start(n), L)
    BY <1>1, <1>11, <1>12
  <2>2. Between(0, start(n)) \cap Between(start(n), L) = {}
    <3> SUFFICES ASSUME NEW k \in 1..start(n), NEW l \in (start(n) + 1)..L,
                        callbacks[k] = callbacks[l]
                 PROVE  FALSE
      BY DEF Between
    <3>1. k \in 1..L /\ l \in 1..L /\ k # l
      BY <1>1, <1>12
    <3> QED
      BY <3>1 DEF CallbacksDiffer, L
  <2>3. \A i : i = n - 1 /\ i > 0 => Part(c, i)' = Part(c, i)
    BY <1>10, <1>14
  <2> QED
    BY <1>12, <1>14, <2>1, <2>2, <2>3
<1> QED
  BY <1>2, <1>7, <1>8, <1>9, <1>13, <1>14 DEF n, t, L, start

LEMMA TransactionCommittedSettles ==
  ASSUME NEW c \in Chains, Alone(c), TransactionCommitted(c)
  PROVE  Settles(c)'
<1> DEFINE n == Len(txs[c])
           L == Len(callbacks)
<1>1. /\ TypeOK /\ Tidy(c) /\ AtWork(c) /\ Ledger /\ pc[c] = "committed"
      /\ LeavesTransaction(c)
      /\ UNCHANGED <<durable, frames, unusableAt, outcomeUnknown, journal, poisoned, saving>>
  BY Standing DEF TransactionCommitted, storeVars, guardVars, contextVars
<1>2. /\ n \in Nat /\ n > 0 /\ Levels(c) = n - 1 /\ Len(frames) = n - 1
      /\ L \in Nat /\ callbacks \in Seq(Saves)
  BY <1>1, Heights, CallTypes DEF Ending
<1>3. /\ saving[c] = NoSave /\ flushing[c] = <<>> /\ Flushed(c) = {}
      /\ Late(c) = Part(c, n) /\ Staged' = Staged /\ OpenRows' = OpenRows
  <2>1. saving[c] = NoSave /\ flushing[c] = <<>>
    BY <1>1 DEF Tidy, SavePc
  <2> QED
    BY <1>1, <2>1 DEF Flushed, Late, Ending, Staged, OpenRows, Clean
<1>4. /\ Last(txs[c]).root <=> n = 1
      /\ n = 1 => Last(txs[c]).start = 0
  <2>1. n \in 1..n /\ Last(txs[c]) = txs[c][n]
    BY <1>2 DEF Last
  <2>2. txs[c][n].root <=> n = 1
    BY <1>1, <2>1 DEF AtWork, StartsInOrder
  <2>3. n = 1 => txs[c][n].start = 0
    BY <1>1, <2>1 DEF AtWork, StartsInOrder
  <2> QED
    BY <2>1, <2>2, <2>3, Zenon
<1>5. Waiting \subseteq Staged /\ Staged \subseteq Waiting \cup {NoSave} /\ NoSave \notin Staged
  BY <1>1, <1>3, UnitOfWorkAssumption DEF AtWork, Beliefs, Staged
<1>6. Ledger' /\ (VerdictLost' <=> VerdictLost)
  <2>1. \A r \in Saves : journal[r] = "broken" => poisoned
    BY <1>1, Standing
  <2>2. VerdictLost' <=> VerdictLost
    <3>1. Goto(c, "flushing") \/ Goto(c, "app")
      BY DEF TransactionCommitted
    <3>2. /\ \A d \in Chains \ {c} : pc'[d] = pc[d]
          /\ pc[c] \notin LostPc /\ pc'[c] \notin LostPc
      BY <1>1, <3>1, Moves DEF LostPc
    <3> QED
      BY <1>1, <3>2, VerdictStands
  <2> QED
    BY <1>1, <1>3, <2>1, <2>2 DEF Ledger
<1>7. /\ \A i \in 1..(n - 1) : Part(c, i) \subseteq frames[i]
      /\ \A i \in 1..(n - 1) : frames[i] \cap Staged \subseteq
           Part(c, i) \cup IF i = n - 1 THEN Part(c, n) ELSE {}
      /\ Part(c, n) \subseteq IF n - 1 = 0 THEN durable ELSE frames[n - 1]
      /\ ~VerdictLost =>
           Staged \cap durable \subseteq IF n - 1 = 0 THEN Part(c, n) ELSE {}
  BY <1>1, <1>2, <1>3 DEF AtWork, RowsFollow, Verdicts
<1>8. CASE n = 1
  <2>1. /\ flushing'[c] = callbacks /\ callbacks' = <<>> /\ pc'[c] = "flushing"
    <3>1. flushing' = [flushing EXCEPT ![c] = callbacks] /\ callbacks' = <<>> /\ Goto(c, "flushing")
      BY <1>4, <1>8 DEF TransactionCommitted
    <3> QED
      BY <1>1, <3>1, Moves DEF TypeOK
  <2>2. callbacks' = SubSeq(callbacks, 1, Last(txs[c]).start)
    BY <1>4, <1>8, <2>1
  <2>3. StartsInOrder(c)' /\ CallbacksDiffer(c)' /\ Len(txs'[c]) = 0
    <3>1. pc'[c] \notin {"begin", "rejected"}
      BY <2>1
    <3>2. StartsInOrder(c)' /\ CallbacksDiffer(c)' /\ Len(txs'[c]) = n - 1
      BY <1>1, <1>2, <2>1, <2>2, <3>1, PartsWhenLeaving DEF AtWork
    <3> QED
      BY <1>8, <3>2
  <2>4. txs'[c] = <<>>
    <3>1. txs'[c] = Front(txs[c]) /\ txs[c] \in Seq(Transaction) /\ txs[c] # <<>>
      BY <1>1, <1>2, CallTypes DEF LeavesTransaction, TypeOK
    <3>2. txs'[c] \in Seq(Transaction)
      BY <3>1, FrontType
    <3> QED
      BY <2>3, <3>2
  <2>5. /\ Levels(c)' = 0 /\ Waiting' = {} /\ Flushed(c)' = Waiting
        /\ Late(c)' = {} /\ Len(frames') = 0
    <3>1. Levels(c)' = 0
      BY <2>1, <2>3, LevelsMove DEF Ending
    <3> QED
      BY <1>1, <1>2, <1>8, <2>1, <3>1 DEF Waiting, Flushed, Late, Ending, SaveEnding
  <2>6. Part(c, n) = Waiting
    <3>1. txs[c][1].start = 0 /\ End(c, 1) = L
      BY <1>1, <1>2, <1>8 DEF AtWork, StartsInOrder, End
    <3>2. Part(c, 1) = {callbacks[k] : k \in (0 + 1)..L}
      BY <3>1 DEF Part
    <3> QED
      BY <1>8, <3>2 DEF Waiting
  <2>7. Waiting \subseteq durable
    BY <1>2, <1>7, <1>8, <2>6
  <2>8. RowsFollow(c)'
    BY <2>1, <2>5 DEF RowsFollow
  <2>9. Beliefs(c)'
    <3>1. saving'[c] = NoSave
      BY <1>1, <1>3
    <3> QED
      BY <1>1, <1>3, <1>5, <2>1, <2>5, <2>7, <3>1 DEF Beliefs
  <2>10. Verdicts(c)'
    <3>1. Staged' \cap durable' \subseteq Flushed(c)'
      BY <1>1, <1>3, <1>5, <2>5
    <3> QED
      BY <2>1, <3>1 DEF Verdicts
  <2>11. Tidy(c)'
    BY <1>1, <1>3, <2>1, <2>4 DEF Tidy
  <2> QED
    BY <1>6, <2>3, <2>8, <2>9, <2>10, <2>11 DEF Settles, AtWork
<1>9. CASE n # 1
  <2>1. /\ flushing' = flushing /\ callbacks' = callbacks /\ pc'[c] = "app" /\ n > 1
    <3>1. UNCHANGED <<flushing, callbacks>> /\ Goto(c, "app")
      <4>1. ~Last(txs[c]).root
        BY <1>4, <1>9
      <4> QED
        BY <4>1 DEF TransactionCommitted
    <3>2. pc'[c] = "app"
      BY <1>1, <3>1, Moves
    <3>3. n > 1
      <4>1. \A k \in Nat : k > 0 /\ k # 1 => k > 1
        OBVIOUS
      <4> QED
        BY <1>2, <1>9, <4>1, Zenon
    <3> QED
      BY <3>1, <3>2, <3>3
  <2>2. callbacks' = SubSeq(callbacks, 1, L)
    BY <1>2, <2>1
  <2>3. /\ StartsInOrder(c)' /\ CallbacksDiffer(c)' /\ Len(txs'[c]) = n - 1
        /\ \A i \in 1..(n - 2) : Part(c, i)' = Part(c, i)
        /\ Waiting' = Waiting
        /\ \A i : i = n - 1 /\ i > 0 => Part(c, i)' = Part(c, i) \cup Part(c, n)
    <3>1. pc'[c] \notin {"begin", "rejected"} /\ flushing'[c] \in {flushing[c], callbacks}
      BY <2>1
    <3> QED
      BY <1>1, <1>2, <2>1, <2>2, <3>1, PartsWhenLeaving DEF AtWork
  <2>5. Levels(c)' = n - 1 /\ Flushed(c)' = {} /\ Late(c)' = {}
    <3>1. Levels(c)' = n - 1
      <4>1. Len(txs'[c]) \in Nat /\ pc'[c] \notin Ending
        BY <1>2, <2>1, <2>3 DEF Ending
      <4>2. Levels(c)' = Len(txs'[c])
        BY <4>1, LevelsMove
      <4> QED
        BY <2>3, <4>2
    <3> QED
      BY <1>3, <2>1, <3>1 DEF Flushed, Late, Ending, SaveEnding
  <2> HIDE DEF n, L
  <2>8. RowsFollow(c)'
    <3>1. ASSUME NEW i \in 1..(n - 1)
          PROVE  Part(c, i)' \subseteq frames[i] /\ frames[i] \cap Staged \subseteq Part(c, i)'
      <4>1. CASE i = n - 1
        <5>1. i > 0 /\ n - 1 # 0
          BY <1>2, <3>1
        <5>2. Part(c, i)' = Part(c, i) \cup Part(c, n)
          BY <2>3, <4>1, <5>1
        <5>3. Part(c, i) \subseteq frames[i] /\ Part(c, n) \subseteq frames[i]
          BY <1>7, <3>1, <4>1, <5>1
        <5>4. frames[i] \cap Staged \subseteq Part(c, i) \cup Part(c, n)
          BY <1>7, <3>1, <4>1
        <5> QED
          BY <5>2, <5>3, <5>4
      <4>2. CASE i # n - 1
        <5>1. i \in 1..(n - 2)
          BY <1>2, <3>1, <4>2
        <5>2. Part(c, i)' = Part(c, i)
          BY <2>3, <5>1
        <5> QED
          BY <1>7, <3>1, <4>2, <5>2
      <4> QED
        BY <4>1, <4>2
    <3> QED
      BY <1>1, <1>3, <2>1, <2>5, <3>1 DEF RowsFollow
  <2>9. Beliefs(c)'
    <3>1. saving'[c] = NoSave
      BY <1>1, <1>3
    <3> QED
      BY <1>3, <1>5, <2>1, <2>3, <2>5, <3>1 DEF Beliefs
  <2>10. Verdicts(c)'
    <3>1. n - 1 # 0
      BY <1>2, <1>9
    <3>2. ~VerdictLost' => Staged' \cap durable' = {}
      BY <1>1, <1>3, <1>6, <1>7, <3>1
    <3> QED
      BY <2>1, <3>2 DEF Verdicts
  <2>11. Tidy(c)'
    BY <1>1, <1>3, <2>1 DEF Tidy
  <2> QED
    BY <1>6, <2>3, <2>8, <2>9, <2>10, <2>11 DEF Settles, AtWork
<1> QED
  BY <1>8, <1>9

\* What a stretch of a sequence holds.
LEMMA SetOfSubSeq ==
  ASSUME NEW S, NEW q \in Seq(S), NEW a \in Nat, NEW b \in Nat, a <= b, b <= Len(q)
  PROVE  ToSet(SubSeq(q, a + 1, b)) = {q[k] : k \in (a + 1)..b}
<1> DEFINE part == SubSeq(q, a + 1, b)
           m == b - a
<1>1. m \in Nat /\ a + m = b /\ a + 1 \in Int /\ b \in Int
  OBVIOUS
<1>2. \A k \in (a + 1)..b : q[k] \in S
  <2>1. \A k \in (a + 1)..b : k \in 1..Len(q)
    OBVIOUS
  <2> QED
    BY <2>1
<1>3. /\ part \in Seq(S)
      /\ Len(part) = IF a + 1 <= b THEN b - (a + 1) + 1 ELSE 0
      /\ \A k \in 1..(b - (a + 1) + 1) : part[k] = q[(a + 1) + k - 1]
  <2> DEFINE first == a + 1
  <2>1. first \in Int /\ b \in Int /\ \A k \in first..b : q[k] \in S
    BY <1>1, <1>2
  <2> HIDE DEF m, first
  <2>2. /\ SubSeq(q, first, b) \in Seq(S)
        /\ Len(SubSeq(q, first, b)) = IF first <= b THEN b - first + 1 ELSE 0
        /\ \A k \in 1..(b - first + 1) : SubSeq(q, first, b)[k] = q[first + k - 1]
    BY <2>1, SubSeqProperties
  <2> QED
    BY <2>2, Zenon DEF first
<1> HIDE DEF part
<1>4. Len(part) = m
  <2> DEFINE length == Len(part)
  <2>1. length = IF a + 1 <= b THEN b - (a + 1) + 1 ELSE 0
    BY <1>3
  <2> HIDE DEF length
  <2>2. length = m
    BY <2>1
  <2> QED
    BY <2>2 DEF length
<1>5. ASSUME NEW k \in 1..m
      PROVE  part[k] = q[a + k]
  <2>1. k \in 1..(b - (a + 1) + 1) /\ (a + 1) + k - 1 = a + k
    BY <1>5
  <2> QED
    BY <1>3, <2>1
<1>6. ToSet(part) = {part[k] : k \in 1..m}
  <2>1. DOMAIN part = 1..m
    BY <1>3, <1>4
  <2> HIDE DEF m
  <2> QED
    BY <2>1, Zenon DEF ToSet
<1>7. \A k \in 1..m : a + k \in (a + 1)..b
  OBVIOUS
<1>8. \A k \in (a + 1)..b : k - a \in 1..m /\ a + (k - a) = k
  OBVIOUS
<1> HIDE DEF m
<1>9. {part[k] : k \in 1..m} \subseteq {q[k] : k \in (a + 1)..b}
  BY <1>5, <1>7
<1>10. {q[k] : k \in (a + 1)..b} \subseteq {part[k] : k \in 1..m}
  <2> SUFFICES ASSUME NEW k \in (a + 1)..b
               PROVE  q[k] \in {part[l] : l \in 1..m}
    OBVIOUS
  <2>1. k - a \in 1..m /\ a + (k - a) = k
    BY <1>8
  <2>2. part[k - a] = q[a + (k - a)]
    BY <1>5, <2>1
  <2>3. part[k - a] = q[k]
    BY <2>1, <2>2
  <2> QED
    BY <2>1, <2>3
<1> QED
  BY <1>6, <1>9, <1>10 DEF part

\* The callbacks that are spliced off are those of the transaction that ends.
LEMMA SplicedPart ==
  ASSUME NEW c \in Chains, TypeOK, StartsInOrder(c), Len(txs[c]) > 0
  PROVE  /\ Spliced(Last(txs[c]).start) = Part(c, Len(txs[c]))
         /\ Last(txs[c]).start \in Nat /\ Last(txs[c]).start <= Len(callbacks)
         /\ Last(txs[c]).start = Len(callbacks) =>
              SubSeq(callbacks, 1, Last(txs[c]).start) = callbacks
<1> DEFINE n == Len(txs[c])
           L == Len(callbacks)
           a == Last(txs[c]).start
<1>1. n \in Nat /\ L \in Nat /\ callbacks \in Seq(Saves) /\ n \in 1..n
  BY CallTypes
<1>2. a = txs[c][n].start /\ a \in Nat /\ a <= L
  BY <1>1, CallTypes DEF StartsInOrder, Last
<1>3. Part(c, n) = {callbacks[k] : k \in (a + 1)..L}
  BY <1>2 DEF Part, End
<1>4. Spliced(a) = {callbacks[k] : k \in (a + 1)..L}
  <2> HIDE DEF a
  <2>1. L \in Nat /\ a \in Nat /\ a <= L /\ L <= Len(callbacks)
    BY <1>1, <1>2
  <2>2. ToSet(SubSeq(callbacks, a + 1, L)) = {callbacks[k] : k \in (a + 1)..L}
    <3> HIDE DEF L
    <3> QED
      BY <1>1, <2>1, SetOfSubSeq
  <2> QED
    BY <2>2 DEF Spliced
<1>5. SubSeq(callbacks, 1, L) = callbacks
  BY <1>1
<1> QED
  BY <1>2, <1>3, <1>4, <1>5

LEMMA TransactionFailedSettles ==
  ASSUME NEW c \in Chains, Alone(c), TransactionFailed(c)
  PROVE  Settles(c)'
<1> DEFINE n == Len(txs[c])
           L == Len(callbacks)
           S == Part(c, n)
           a == Last(txs[c]).start
<1>1. /\ TypeOK /\ Tidy(c) /\ AtWork(c) /\ Ledger /\ pc[c] = "failed"
      /\ LeavesTransaction(c) /\ pc'[c] = "app" /\ \A d \in Chains \ {c} : pc'[d] = pc[d]
      /\ UNCHANGED <<durable, frames, unusableAt, outcomeUnknown, saving, flushing>>
  BY Standing, Moves DEF TransactionFailed, storeVars, guardVars
<1>2. /\ n \in Nat /\ n > 0 /\ Levels(c) = n - 1 /\ Len(frames) = n - 1
      /\ L \in Nat /\ callbacks \in Seq(Saves)
  BY <1>1, Heights, CallTypes DEF Ending
<1>3. /\ saving[c] = NoSave /\ flushing[c] = <<>> /\ Flushed(c) = {}
      /\ Late(c) = S /\ OpenRows' = OpenRows
  <2>1. saving[c] = NoSave /\ flushing[c] = <<>>
    BY <1>1 DEF Tidy, SavePc
  <2> QED
    BY <1>1, <2>1 DEF Flushed, Late, Ending, OpenRows, Clean
<1>4. /\ Spliced(a) = S /\ a \in Nat /\ a <= L
      /\ callbacks' = SubSeq(callbacks, 1, a)
  <2>1. /\ Spliced(a) = S /\ a \in Nat /\ a <= L
        /\ a = L => SubSeq(callbacks, 1, a) = callbacks
    BY <1>1, <1>2, SplicedPart DEF AtWork
  <2>2. callbacks' = IF a < L THEN SubSeq(callbacks, 1, a) ELSE callbacks
    BY DEF TransactionFailed
  <2>3. a < L \/ a = L
    BY <1>2, <2>1
  <2> QED
    BY <2>1, <2>2, <2>3
<1>5. PICK broken \in SUBSET S :
        /\ journal' = [s \in Saves |-> IF s \in broken THEN "broken"
                                       ELSE IF s \in S THEN "restored"
                                       ELSE journal[s]]
        /\ poisoned' = (poisoned \/ broken # {})
  <2>1. RestoresAll(Spliced(a))
    BY DEF TransactionFailed
  <2>2. RestoresAll(S)
    BY <1>4, <2>1
  <2> HIDE DEF S
  <2> QED
    BY <2>2, Zenon DEF RestoresAll
<1>6. /\ StartsInOrder(c)' /\ CallbacksDiffer(c)' /\ Len(txs'[c]) = n - 1
      /\ \A i \in 1..(n - 2) : Part(c, i)' = Part(c, i)
      /\ Waiting' = Waiting \ S
      /\ \A i : i = n - 1 /\ i > 0 => Part(c, i)' = Part(c, i)
  <2>1. pc'[c] \notin {"begin", "rejected"} /\ flushing'[c] \in {flushing[c], callbacks}
    BY <1>1
  <2> QED
    BY <1>1, <1>2, <1>4, <2>1, PartsWhenLeaving DEF AtWork
<1>7. /\ S \subseteq Waiting /\ Waiting \subseteq Staged /\ Staged \subseteq Waiting \cup {NoSave}
      /\ NoSave \notin Staged
      /\ \A i \in 1..(n - 1) : Part(c, i) \cap S = {}
  <2>1. n \in 1..n /\ \A i \in 1..(n - 1) : i \in 1..n /\ i # n
    BY <1>2
  <2> QED
    BY <1>1, <1>3, <2>1, PartsApart, UnitOfWorkAssumption DEF AtWork, Beliefs, Staged
<1>8. /\ \A s \in Saves : s \in S => journal[s] = "staged" /\ journal'[s] \in {"broken", "restored"}
      /\ \A s \in Saves : s \notin S => journal'[s] = journal[s]
      /\ Staged' = Staged \ S
  <2>1. \A s \in Saves : s \in S => journal[s] = "staged"
    BY <1>7 DEF Staged
  <2>2. \A s \in Saves : s \in S => journal'[s] \in {"broken", "restored"}
    BY <1>5
  <2>3. \A s \in Saves : s \notin S => journal'[s] = journal[s]
    BY <1>5
  <2> HIDE DEF S
  <2> QED
    BY <2>1, <2>2, <2>3 DEF Staged
<1>9. /\ \A i \in 1..(n - 1) : Part(c, i) \subseteq frames[i]
      /\ \A i \in 1..(n - 1) : frames[i] \cap Staged \subseteq Part(c, i) \cup S
      /\ ~VerdictLost => S \cap (durable \cup OpenRows) = {}
      /\ ~VerdictLost => Staged \cap durable = {}
  BY <1>1, <1>2, <1>3 DEF AtWork, RowsFollow, Verdicts
<1>10. OpenRows \cap S = {} /\ (VerdictLost' <=> VerdictLost)
  <2>1. VerdictLost => OpenRows = {}
    BY Standing
  <2>2. VerdictLost' <=> VerdictLost
    BY <1>1, VerdictStands DEF LostPc
  <2> QED
    BY <1>9, <2>1, <2>2
<1> HIDE DEF n, L, S, a
<1>11. Ledger'
  <2>1. \A r \in Saves : journal'[r] = "broken" => poisoned'
    <3>1. \A r \in Saves : journal[r] = "broken" => poisoned
      BY <1>1, Standing
    <3> SUFFICES ASSUME NEW r \in Saves, journal'[r] = "broken"
                 PROVE  poisoned'
      OBVIOUS
    <3>2. CASE r \in broken
      BY <1>5, <3>2, Zenon
    <3>3. CASE r \notin broken
      <4>1. journal[r] = "broken"
        BY <1>5, <3>3
      <4> QED
        BY <1>5, <3>1, <4>1, Zenon
    <3> QED
      BY <3>2, <3>3
  <2>2. OpenRows' \subseteq Staged'
    BY <1>1, <1>3, <1>8, <1>10 DEF Ledger
  <2>3. \A r \in Saves : journal'[r] = "unsaved" => journal[r] = "unsaved"
    BY <1>8
  <2>4. \A r \in Saves : journal'[r] = "final" => journal[r] = "final"
    BY <1>8
  <2>5. \A r \in Saves : journal'[r] = "restored" => journal[r] = "restored" \/ r \in S
    BY <1>8
  <2> QED
    BY <1>1, <1>9, <1>10, <2>1, <2>2, <2>3, <2>4, <2>5 DEF Ledger
<1>12. RowsFollow(c)'
  <2>1. Levels(c)' = n - 1
    <3>1. Len(txs'[c]) \in Nat /\ pc'[c] \notin Ending
      BY <1>1, <1>2, <1>6 DEF Ending
    <3>2. Levels(c)' = Len(txs'[c])
      BY <3>1, LevelsMove
    <3> QED
      BY <1>6, <3>2
  <2>2. ASSUME NEW i \in 1..(n - 1)
        PROVE  Part(c, i)' \subseteq frames[i] /\ frames[i] \cap Staged' \subseteq Part(c, i)'
    <3>1. Part(c, i)' = Part(c, i)
      <4>1. i \in 1..(n - 2) \/ (i = n - 1 /\ i > 0)
        BY <1>2, <2>2
      <4> QED
        BY <1>6, <4>1
    <3> QED
      BY <1>8, <1>9, <2>2, <3>1
  <2> QED
    BY <1>1, <2>1, <2>2 DEF RowsFollow
<1>13. Beliefs(c)'
  <2>1. saving'[c] = NoSave /\ Flushed(c)' = {}
    BY <1>1, <1>3 DEF Flushed
  <2> QED
    BY <1>1, <1>6, <1>7, <1>8, <2>1 DEF Beliefs
<1>14. Verdicts(c)'
  BY <1>1, <1>8, <1>9, <1>10 DEF Verdicts
<1>15. Tidy(c)'
  BY <1>1, <1>3 DEF Tidy
<1> QED
  BY <1>6, <1>11, <1>12, <1>13, <1>14, <1>15 DEF Settles, AtWork

\* The connection learns how the transaction ended: nothing is decided by that.
LEMMA VerdictLearnt ==
  ASSUME NEW c \in Chains, Alone(c), TransactionSettles(c) \/ SaveSettles(c)
  PROVE  Settles(c)' /\ (VerdictLost' <=> VerdictLost)
<1> DEFINE n == Len(txs[c])
<1>1. /\ TypeOK /\ Tidy(c) /\ AtWork(c) /\ Ledger
      /\ pc[c] \in {"lost", "rejected", "undone", "saveLost", "saveRefused", "saveUndone"}
      /\ pc'[c] = IF pc[c] \in Ending THEN "failed" ELSE "saveFailed"
      /\ \A d \in Chains \ {c} : pc'[d] = pc[d]
      /\ outcomeUnknown' <=> pc[c] \in LostPc
      /\ UNCHANGED <<durable, frames, unusableAt, depth, callbacks, journal, poisoned,
                     txs, saving, flushing>>
  <2>0. pc[c] \in {"undone", "saveUndone"} => ~outcomeUnknown
    BY DEF Alone, KInv, SInv, SilenceHeld
  <2>1. CASE TransactionSettles(c)
    BY <2>0, <2>1, Standing, Moves
       DEF TransactionSettles, LearnsVerdict, storeVars, contextVars, Ending, LostPc
  <2>2. CASE SaveSettles(c)
    BY <2>0, <2>2, Standing, Moves
       DEF SaveSettles, LearnsVerdict, storeVars, contextVars, Ending, LostPc
  <2> QED
    BY <2>1, <2>2
<1>2. VerdictLost' <=> VerdictLost
  <2>1. pc[c] \notin LostPc => ~outcomeUnknown
    BY <1>1 DEF Alone, KInv, SInv, SilenceHeld, LostPc
  <2>2. pc'[c] \notin LostPc
    BY <1>1 DEF LostPc
  <2> QED
    BY <1>1, <2>1, <2>2, Standing, VerdictAfter
<1>3. /\ StartsInOrder(c)' /\ CallbacksDiffer(c)'
      /\ Waiting' = Waiting /\ Flushed(c)' = Flushed(c)
      /\ \A i : Part(c, i)' = Part(c, i)
  BY <1>1, SameCalls DEF AtWork
<1>4. /\ Staged' = Staged /\ OpenRows' = OpenRows
      /\ pc'[c] \in Ending <=> pc[c] \in Ending
  BY <1>1 DEF Staged, OpenRows, Clean, Ending
<1>5. Levels(c)' = Levels(c) /\ Late(c)' = Late(c)
  <2>1. n \in Nat
    BY <1>1, CallTypes
  <2>2. Levels(c)' = Levels(c)
    BY <1>1, <1>4, <2>1, LevelsMove DEF Levels
  <2>3. CASE pc[c] \in Ending
    <3>1. Late(c) = Part(c, n) /\ Late(c)' = Part(c, n)'
      BY <1>4, <2>3 DEF Late
    <3>2. Part(c, n)' = Part(c, n)
      BY <1>1, <1>3
    <3> QED
      BY <2>2, <3>1, <3>2
  <2>4. CASE pc[c] \notin Ending
    <3>1. pc[c] \in SaveEnding /\ pc'[c] \in SaveEnding
      BY <1>1, <2>4 DEF Ending, SaveEnding
    <3>2. Late(c) = {saving[c]} \cap Staged /\ Late(c)' = {saving'[c]} \cap Staged'
      BY <1>4, <2>4, <3>1 DEF Late
    <3> QED
      BY <1>1, <1>4, <2>2, <3>2
  <2> QED
    BY <2>3, <2>4
<1>6. RowsFollow(c)'
  BY <1>1, <1>3, <1>4, <1>5 DEF AtWork, RowsFollow
<1>7. Beliefs(c)'
  <2>1. pc'[c] = "saveFailed" => journal[saving[c]] \in {"unsaved", "staged"}
    BY <1>1 DEF AtWork, Beliefs, Ending
  <2> QED
    BY <1>1, <1>3, <1>4, <2>1 DEF AtWork, Beliefs
<1>8. Verdicts(c)'
  BY <1>1, <1>2, <1>3, <1>4, <1>5 DEF AtWork, Verdicts, LostPc, VerdictLost
<1>9. Ledger'
  <2>1. \A s \in Saves : journal[s] = "broken" => poisoned
    BY <1>1, Standing
  <2> QED
    BY <1>1, <1>2, <1>4, <2>1 DEF Ledger
<1>10. Tidy(c)'
  BY <1>1 DEF Tidy, SavePc, Ending
<1> QED
  BY <1>2, <1>3, <1>6, <1>7, <1>8, <1>9, <1>10 DEF Settles, AtWork

-----------------------------------------------------------------------------
(* The invariant is kept *)

LEMMA StepSettles ==
  ASSUME NEW c \in Chains, Alone(c), ChainStep(c)
  PROVE  Settles(c)'
<1>1. CASE BeginTransaction(c)
  BY <1>1, BeginTransactionSettles
<1>2. CASE TransactionStep(c)
  BY <1>2, TransactionBegunSettles, WorkEndsSettles, TransactionCommittedSettles,
     TransactionFailedSettles, RunCallbackSettles, QuietStepsSettle, VerdictLearnt
     DEF TransactionStep
<1>3. CASE \E s \in Saves : StartSave(c, s)
  BY <1>3, QuietStepsSettle
<1>4. CASE SaveStep(c)
  BY <1>4, QuietStepsSettle, SaveBegunSettles, SaveAcceptedSettles, SaveThrowsSettles,
     SaveClosesSettles, AfterCommittedSettles, SaveFailedSettles, VerdictLearnt DEF SaveStep
<1>5. CASE Dispose(c)
  BY <1>5, QuietStepsSettle
<1> QED
  BY <1>1, <1>2, <1>3, <1>4, <1>5 DEF ChainStep

\* A step leaves the other chains where they are.
LEMMA OthersStand ==
  ASSUME TypeOK, NEW c \in Chains, ChainStep(c), NEW d \in Chains \ {c}
  PROVE  /\ pc'[d] = pc[d] /\ txs'[d] = txs[d]
         /\ saving'[d] = saving[d] /\ flushing'[d] = flushing[d]
<1>1. /\ txs \in [Chains -> Seq(Transaction)] /\ saving \in [Chains -> Saves \cup {NoSave}]
      /\ flushing \in [Chains -> Seq(Saves)]
  BY DEF TypeOK
<1>2. pc'[d] = pc[d]
  BY OthersKeep
<1>3. CASE BeginTransaction(c)
  BY <1>1, <1>2, <1>3 DEF BeginTransaction
<1>4. CASE TransactionCommitted(c) \/ TransactionFailed(c)
  BY <1>1, <1>2, <1>4 DEF TransactionCommitted, TransactionFailed, LeavesTransaction
<1>5. CASE \/ TransactionBegun(c) \/ WorkEnds(c) \/ TransactionSettles(c)
           \/ RunCallback(c) \/ CallbacksDone(c) \/ Dispose(c)
  BY <1>1, <1>2, <1>5 DEF TransactionBegun, WorkEnds, TransactionSettles, RunCallback,
                          CallbacksDone, Dispose, chainVars
<1>6. CASE \E s \in Saves : StartSave(c, s)
  BY <1>1, <1>2, <1>6 DEF StartSave, TakesSave
<1>7. CASE SaveStep(c)
  BY <1>1, <1>2, <1>7
     DEF SaveStep, ExecuteSave, SaveBegun, SaveAccepted, SaveThrows, SaveCloses, SaveSettles,
         AfterCommitted, SavedNotified, SaveFailed, FailureNotified, LeavesSave
<1> QED
  BY <1>3, <1>4, <1>5, <1>6, <1>7 DEF ChainStep, TransactionStep

\* The application awaits each operation before the next, so whoever takes a
\* step is the only one at work.
LEMMA StepsAlone ==
  ASSUME KInv, ~Overlap, NEW c \in Chains, ChainStep(c)
  PROVE  Focus(c)
<1>1. CASE \/ BeginTransaction(c) \/ Dispose(c) \/ \E s \in Saves : StartSave(c, s)
  BY <1>1 DEF BeginTransaction, Dispose, StartSave, MayCall, Focus
<1>2. CASE TransactionStep(c) \/ SaveStep(c)
  <2>1. ~Idle(c)
    BY <1>2 DEF TransactionStep, SaveStep, TransactionBegun, WorkEnds, TransactionSettles,
                TransactionCommitted, TransactionFailed, RunCallback, CallbacksDone,
                ExecuteSave, SaveBegun, SaveAccepted, SaveThrows, SaveCloses, SaveSettles,
                AfterCommitted, SavedNotified, SaveFailed, FailureNotified, Idle
  <2> QED
    BY <2>1 DEF KInv, PInv, OneAtATime, Focus
<1> QED
  BY <1>1, <1>2 DEF ChainStep

\* The verdict is never forgotten by a chain that works alone, and while it is
\* out nothing is written.
LEMMA StepKeepsSilence ==
  ASSUME NEW c \in Chains, Alone(c), ChainStep(c)
  PROVE  SilenceHeld' /\ (VerdictLost => VerdictLost' /\ UNCHANGED <<durable, frames, owner>>)
<1> DEFINE Silent == VerdictLost' /\ UNCHANGED <<durable, frames, owner>>
<1>1. /\ TypeOK /\ SilenceHeld /\ \A d \in Chains \ {c} : pc'[d] = pc[d] /\ pc[d] = "app"
      /\ VerdictLost <=> outcomeUnknown \/ pc[c] \in LostPc
      /\ VerdictLost' <=> outcomeUnknown' \/ pc'[c] \in LostPc
  <2>1. \A d \in Chains \ {c} : pc'[d] = pc[d] /\ pc[d] = "app"
    BY Standing, OthersStand DEF Idle
  <2> QED
    BY <2>1, Standing, VerdictAfter DEF Alone, KInv, SInv
<1>2. SUFFICES /\ VerdictLost' => owner' = Nobody
               /\ pc'[c] \in {"rejected", "undone", "saveRefused", "saveUndone"} => ~outcomeUnknown'
               /\ VerdictLost => Silent
  BY <1>1 DEF SilenceHeld
<1>3. ASSUME NEW done, NEW lost, NEW failed, Closes(c, done, lost, failed), ~VerdictLost,
             {done, failed} \subseteq {"committed", "undone", "saved", "saveUndone"}
      PROVE  (VerdictLost' => owner' = Nobody) /\ ~outcomeUnknown'
  <2>1. Kept(c, done) \/ Lost(c, lost) \/ Undone(c, failed)
    BY <1>1, <1>3, RowsWhenClosing
  <2>2. /\ Kept(c, done) => pc'[c] = done
        /\ Undone(c, failed) => pc'[c] = failed
        /\ ~outcomeUnknown'
    BY <1>1, <1>3, <2>1, Moves DEF Kept, Lost, Undone
  <2>3. Lost(c, lost) => owner' = Nobody
    BY <1>3 DEF Lost, Closes, CommitsRoot, LosesCommit, RollsBack, RollsBackRoot,
                RollsBackToSavepoint, FailsToClean, ReleasesSavepoint
  <2> QED
    BY <1>1, <1>3, <2>1, <2>2, <2>3 DEF LostPc
<1>4. ASSUME NEW work, NEW failed, {work, failed} \subseteq {"app", "undone", "saveWork", "saveUndone"},
             Opens(c, work) \/ FailsToOpen(c, failed), ~VerdictLost
      PROVE  ~VerdictLost' /\ pc'[c] \in {work, failed}
  <2>1. (Goto(c, work) \/ Goto(c, failed)) /\ outcomeUnknown' = outcomeUnknown
    BY <1>4, RowsWhenOpening, <1>1 DEF Opens, FailsToOpen
  <2>2. pc'[c] \in {work, failed}
    BY <1>1, <2>1, Moves
  <2> QED
    BY <1>1, <1>4, <2>1, <2>2 DEF LostPc
<1>5. CASE TransactionBegun(c) \/ SaveBegun(c)
  <2>1. ~VerdictLost
    BY <1>5, VerdictsKnown DEF TransactionBegun, SaveBegun
  <2>2. ~VerdictLost' /\ pc'[c] \in {"app", "undone", "saveWork", "saveUndone"}
    BY <1>4, <1>5, <2>1 DEF TransactionBegun, SaveBegun
  <2> QED
    BY <1>1, <2>1, <2>2
<1>6. CASE WorkEnds(c) \/ SaveThrows(c) \/ SaveCloses(c)
  <2>1. ~VerdictLost
    BY <1>6, VerdictsKnown DEF WorkEnds, SaveThrows, SaveCloses
  <2>2. \/ Closes(c, "committed", "lost", "undone")
        \/ Closes(c, "saved", "saveLost", "saveUndone")
    BY <1>6 DEF WorkEnds, SaveThrows, SaveCloses, Closes
  <2>3. (VerdictLost' => owner' = Nobody) /\ ~outcomeUnknown'
    BY <1>3, <2>1, <2>2
  <2> QED
    BY <2>1, <2>3
<1>7. CASE SaveAccepted(c)
  <2>1. ~VerdictLost
    BY <1>7, VerdictsKnown DEF SaveAccepted
  <2>2. pc'[c] = "accepted" /\ ~VerdictLost'
    BY <1>1, <1>7, <2>1, Moves DEF SaveAccepted, guardVars, LostPc
  <2> QED
    BY <2>1, <2>2
<1>8. CASE BeginTransaction(c)
  <2>1. ~outcomeUnknown /\ ~outcomeUnknown' /\ pc[c] = "app"
    BY <1>1, <1>8 DEF BeginTransaction, ConnectionUsable, MayCall
  <2>2. pc'[c] \in {"begin", "rejected"}
    <3>1. Goto(c, "begin") \/ Goto(c, "rejected")
      BY <1>8 DEF BeginTransaction
    <3> QED
      BY <1>1, <3>1, Moves
  <2> QED
    BY <1>1, <2>1, <2>2 DEF LostPc
<1>9. CASE ExecuteSave(c)
  <2>1. /\ pc[c] = "saving" /\ pc'[c] \notin LostPc
        /\ outcomeUnknown' = outcomeUnknown /\ UNCHANGED <<durable, frames>>
        /\ (pc'[c] = "saveFailed" /\ owner' = owner) \/ ~outcomeUnknown
    BY <1>1, <1>9, Moves DEF ExecuteSave, ConnectionUsable, storeVars, LostPc
  <2> QED
    BY <1>1, <2>1 DEF LostPc, SilenceHeld
<1>10. CASE TransactionSettles(c) \/ SaveSettles(c)
  <2>1. /\ UNCHANGED <<durable, frames, owner>> /\ pc'[c] \in {"failed", "saveFailed"}
    BY <1>1, <1>10, Moves DEF TransactionSettles, SaveSettles, LearnsVerdict, storeVars
  <2>2. VerdictLost' <=> VerdictLost
    BY <1>10, VerdictLearnt
  <2> QED
    BY <1>1, <2>1, <2>2 DEF SilenceHeld
<1>11. CASE \/ TransactionCommitted(c) \/ TransactionFailed(c) \/ RunCallback(c)
            \/ CallbacksDone(c) \/ (\E s \in Saves : StartSave(c, s)) \/ AfterCommitted(c)
            \/ SavedNotified(c) \/ SaveFailed(c) \/ FailureNotified(c) \/ Dispose(c)
  <2>1. /\ UNCHANGED <<durable, frames, owner, outcomeUnknown>>
        /\ pc[c] \in {"committed", "failed", "flushing", "app", "saved", "notifying",
                      "saveFailed", "failing", "failingBroken"}
    BY <1>11 DEF TransactionCommitted, TransactionFailed, RunCallback, CallbacksDone,
                 StartSave, MayCall, AfterCommitted, SavedNotified, SaveFailed,
                 FailureNotified, Dispose, storeVars, guardVars
  <2>2. pc'[c] \in {"flushing", "app", "saving", "notifying", "failing", "failingBroken"}
    BY <1>1, <1>11, Moves
       DEF TransactionCommitted, TransactionFailed, RunCallback, CallbacksDone, StartSave,
           MayCall, AfterCommitted, SavedNotified, SaveFailed, FailureNotified, Dispose, chainVars
  <2> QED
    BY <1>1, <2>1, <2>2 DEF LostPc, SilenceHeld
<1> QED
  BY <1>5, <1>6, <1>7, <1>8, <1>9, <1>10, <1>11 DEF ChainStep, TransactionStep, SaveStep

\* With both of them idle, what is said of one chain can be said of another.
HandsOver ==
  \A c, d \in Chains :
    Idle(c) /\ Idle(d) /\ Tidy(c) /\ Tidy(d) /\ AtWork(c) => AtWork(d)

LEMMA Handover == HandsOver
<1> SUFFICES ASSUME NEW c \in Chains, NEW d \in Chains,
                    Idle(c), Idle(d), Tidy(c), Tidy(d), AtWork(c)
             PROVE  AtWork(d)
  BY DEF HandsOver
<1>1. /\ pc[d] = pc[c] /\ txs[d] = txs[c] /\ saving[d] = saving[c]
      /\ flushing[d] = flushing[c]
  BY DEF Idle, Tidy, SavePc
<1>2. /\ Levels(d) = Levels(c) /\ Flushed(d) = Flushed(c)
      /\ \A i : Part(d, i) = Part(c, i)
  BY <1>1 DEF Levels, Flushed, Part, End
<1>3. Late(d) = Late(c)
  BY <1>1, <1>2 DEF Late
<1>4. StartsInOrder(d) /\ CallbacksDiffer(d)
  BY <1>1 DEF AtWork, StartsInOrder, CallbacksDiffer
<1>5. Beliefs(d)
  BY <1>1, <1>2 DEF AtWork, Beliefs
<1>6. RowsFollow(d)
  BY <1>1, <1>2, <1>3 DEF AtWork, RowsFollow
<1>7. Verdicts(d)
  BY <1>1, <1>2, <1>3 DEF AtWork, Verdicts
<1> QED
  BY <1>4, <1>5, <1>6, <1>7 DEF AtWork

LEMMA HandoverAfter == HandsOver'
BY Handover, PTL

LEMMA StepKeepsPInv ==
  ASSUME KInv, ~Overlap, NEW c \in Chains, ChainStep(c)
  PROVE  PInv'
<1>1. Alone(c) /\ TypeOK /\ \A d \in Chains \ {c} : Idle(d) /\ Tidy(d)
  BY StepsAlone DEF Alone, Focus, KInv, SInv, GInv, TInv, PInv, CallsAreTidy
<1>2. Tidy(c)' /\ AtWork(c)' /\ Ledger'
  BY <1>1, StepSettles DEF Settles
<1>3. ASSUME NEW d \in Chains \ {c}
      PROVE  Idle(d)' /\ Tidy(d)'
  BY <1>1, OthersStand DEF Idle, Tidy
<1>4. OneAtATime'
  BY <1>3 DEF OneAtATime
<1>5. CallsAreTidy'
  BY <1>2, <1>3 DEF CallsAreTidy
<1>6. ASSUME NEW d \in Chains, Focus(d)'
      PROVE  AtWork(d)'
  <2>1. CASE d = c
    BY <1>2, <2>1
  <2>2. CASE d # c
    <3>1. Idle(c)'
      BY <1>6, <2>2 DEF Focus
    <3>2. Idle(d)' /\ Tidy(d)'
      BY <1>3, <2>2
    <3> QED
      BY <1>2, <3>1, <3>2, HandoverAfter DEF HandsOver
  <2> QED
    BY <2>1, <2>2
<1> QED
  BY <1>2, <1>4, <1>5, <1>6 DEF PInv

LEMMA StutterKeepsPInv ==
  ASSUME PInv, UNCHANGED vars
  PROVE  PInv'
<1>1. UNCHANGED <<durable, frames, unusableAt, outcomeUnknown, depth, callbacks, journal,
                  poisoned, pc, txs, saving, flushing>>
  BY DEF vars, storeVars, guardVars, contextVars, chainVars
<1>2. OneAtATime' /\ CallsAreTidy'
  BY <1>1 DEF PInv, OneAtATime, CallsAreTidy, Idle, Tidy
<1>3. /\ OpenRows' = OpenRows /\ Staged' = Staged /\ Waiting' = Waiting
      /\ (VerdictLost' <=> VerdictLost) /\ \A i : Clean(i)' <=> Clean(i)
  BY <1>1 DEF OpenRows, Staged, Waiting, Clean, VerdictLost
<1>4. Ledger'
  BY <1>1, <1>3 DEF PInv, Ledger
<1>5. ASSUME NEW d \in Chains, Focus(d)'
      PROVE  AtWork(d)'
  <2>1. AtWork(d)
    BY <1>1, <1>5 DEF PInv, Focus, Idle
  <2>2. /\ Flushed(d)' = Flushed(d) /\ Levels(d)' = Levels(d)
        /\ \A i : Part(d, i)' = Part(d, i)
    BY <1>1 DEF Flushed, Levels, Part, End
  <2>3. Late(d)' = Late(d)
    BY <1>1, <1>3, <2>2 DEF Late
  <2>4. StartsInOrder(d)' /\ CallbacksDiffer(d)'
    BY <1>1, <2>1 DEF AtWork, StartsInOrder, CallbacksDiffer
  <2>5. Beliefs(d)'
    BY <1>1, <1>3, <2>1, <2>2 DEF AtWork, Beliefs
  <2>6. RowsFollow(d)'
    BY <1>1, <1>3, <2>1, <2>2, <2>3 DEF AtWork, RowsFollow
  <2>7. Verdicts(d)'
    BY <1>1, <1>3, <2>1, <2>2, <2>3 DEF AtWork, Verdicts
  <2> QED
    BY <2>4, <2>5, <2>6, <2>7 DEF AtWork
<1> QED
  BY <1>2, <1>4, <1>5 DEF PInv

LEMMA InitKInv == Init => KInv
<1> SUFFICES ASSUME Init
             PROVE  KInv
  OBVIOUS
<1>1. TInv
  BY InitTypes
<1>2. /\ durable = {} /\ frames = <<>> /\ unusableAt = 0 /\ owner = Nobody /\ ~VerdictLost
      /\ depth = 0 /\ callbacks = <<>> /\ ~poisoned
      /\ \A s \in Saves : journal[s] = "unsaved"
      /\ \A c \in Chains : /\ pc[c] = "app" /\ txs[c] = <<>> /\ saving[c] = NoSave
                           /\ flushing[c] = <<>>
  BY DEF Init, VerdictLost
<1>3. GuardHeld /\ SilenceHeld
  BY <1>2 DEF GuardHeld, SilenceHeld
<1>4. \A c \in Chains : OpenFrames(c) = 0 /\ Levels(c) = 0 /\ Late(c) = {} /\ Flushed(c) = {}
  <2> SUFFICES ASSUME NEW c \in Chains
               PROVE  OpenFrames(c) = 0 /\ Levels(c) = 0 /\ Late(c) = {} /\ Flushed(c) = {}
    OBVIOUS
  <2>1. OpenFrames(c) = Len(<<>>) - 0 + 0
    BY <1>2, Zenon DEF OpenFrames
  <2>2. Levels(c) = Len(<<>>) - 0
    BY <1>2, Zenon DEF Levels, Ending
  <2> QED
    BY <1>2, <2>1, <2>2 DEF Late, Flushed, Ending, SaveEnding
<1>5. FramesBelongToOwner
  BY <1>2, <1>4 DEF FramesBelongToOwner
<1>6. Staged = {} /\ OpenRows = {} /\ Waiting = {}
  BY <1>2 DEF Staged, OpenRows, Waiting
<1>7. OneAtATime /\ CallsAreTidy
  BY <1>2 DEF OneAtATime, CallsAreTidy, Idle, Tidy
<1>8. Ledger
  BY <1>2, <1>6 DEF Ledger
<1>9. ASSUME NEW c \in Chains
      PROVE  AtWork(c)
  <2>1. StartsInOrder(c) /\ CallbacksDiffer(c)
    BY <1>2 DEF StartsInOrder, CallbacksDiffer
  <2>2. Beliefs(c)
    BY <1>2, <1>4, <1>6 DEF Beliefs
  <2>3. RowsFollow(c)
    BY <1>2, <1>4 DEF RowsFollow
  <2>4. Verdicts(c)
    BY <1>2, <1>4, <1>6 DEF Verdicts
  <2> QED
    BY <2>1, <2>2, <2>3, <2>4 DEF AtWork
<1> QED
  BY <1>1, <1>3, <1>5, <1>7, <1>8, <1>9 DEF KInv, SInv, GInv, PInv

LEMMA StepKeepsKInv ==
  ASSUME ~Overlap, KInv, [Next]_vars
  PROVE  KInv'
<1>1. CASE UNCHANGED vars
  <2>1. SInv'
    BY <1>1 DEF vars, storeVars, guardVars, contextVars, chainVars, KInv, SInv, GInv, TInv,
                TypeOK, CallsAreKnown, GuardHeld, FramesBelongToOwner, OpenFrames, SilenceHeld, VerdictLost
  <2> QED
    BY <1>1, <2>1, StutterKeepsPInv DEF KInv
<1>2. CASE Next
  <2>1. PICK c \in Chains : ChainStep(c)
    BY <1>2, NextIsAChainStep
  <2>2. SInv'
    BY <2>1, StepKeepsTypes, StepKeepsGuard, StepsAlone, StepKeepsSilence
       DEF KInv, SInv, GInv, Alone
  <2> QED
    BY <2>1, <2>2, StepKeepsPInv DEF KInv
<1> QED
  BY <1>1, <1>2

LEMMA KInvariant ==
  ASSUME ~Overlap
  PROVE  Spec => []KInv
<1>1. KInv /\ [Next]_vars => KInv'
  BY StepKeepsKInv
<1> QED
  BY <1>1, InitKInv, PTL DEF Spec

\* Used by one chain at a time, the context writes nothing more after a commit
\* without a verdict: no row, no savepoint, no new owner, and no later failure makes
\* the connection forget it: what ExclusiveOperationGuard.run and the catch of
\* GuardedDatabaseConnection.transaction are for, for any saves and any nesting.
THEOREM SilentOnceUnknown ==
  ASSUME ~Overlap
  PROVE  Spec => SilentAfterUnknownOutcome
<1> DEFINE Silence == VerdictLost => VerdictLost' /\ UNCHANGED <<durable, frames, owner>>
<1>1. KInv /\ [Next]_vars => [Silence]_vars
  <2> SUFFICES ASSUME KInv, Next
               PROVE  Silence
    OBVIOUS
  <2>1. PICK c \in Chains : ChainStep(c)
    BY NextIsAChainStep
  <2> QED
    BY <2>1, StepsAlone, StepKeepsSilence DEF Alone
<1> QED
  BY <1>1, KInvariant, PTL DEF Spec, SilentAfterUnknownOutcome

-----------------------------------------------------------------------------
(* What the tracker and the callbacks say *)

LEMMA IdleMeansSettled ==
  ASSUME KInv, Chains # {}
  PROVE  TrackerMirrorsStore
<1> SUFFICES ASSUME \A c \in Chains : Idle(c), ~poisoned, ~VerdictLost
             PROVE  /\ durable = {s \in Saves : journal[s] \in {"staged", "final"}}
                    /\ Staged = {} /\ callbacks = <<>> /\ depth = 0
  BY DEF TrackerMirrorsStore, VerdictLost, Idle
<1>1. PICK c \in Chains : TRUE
  OBVIOUS
<1>2. Alone(c) /\ pc[c] = "app" /\ txs[c] = <<>>
  BY DEF Alone, Focus, Idle
<1>3. TypeOK /\ Tidy(c) /\ AtWork(c) /\ Ledger
  BY <1>2, Standing
<1>4. callbacks = <<>> /\ depth = 0 /\ saving[c] = NoSave /\ flushing[c] = <<>>
  BY <1>2, <1>3 DEF AtWork, StartsInOrder, Tidy, SavePc
<1>5. Staged = {}
  <2>1. Waiting = {} /\ Flushed(c) = {} /\ NoSave \notin Staged
    BY <1>4, UnitOfWorkAssumption DEF Waiting, Flushed, Staged
  <2> QED
    BY <1>3, <1>4, <2>1 DEF AtWork, Beliefs
<1>6. ASSUME NEW s \in Saves
      PROVE  s \in durable <=> journal[s] \in {"staged", "final"}
  <2>1. journal[s] # "staged"
    BY <1>5 DEF Staged
  <2>2. journal[s] # "broken"
    BY <1>2, Standing
  <2>3. /\ journal[s] \in {"unsaved", "staged", "final", "restored", "broken"}
        /\ journal[s] = "unsaved" => s \notin durable
        /\ journal[s] = "final" => s \in durable
        /\ journal[s] = "restored" => s \notin durable
    BY <1>3 DEF Ledger, TypeOK, JournalState
  <2> QED
    BY <2>1, <2>2, <2>3
<1>7. durable \subseteq Saves
  BY <1>3 DEF TypeOK
<1> QED
  BY <1>4, <1>5, <1>6, <1>7

\* With every chain idle, the saves the tracker holds as persisted are exactly
\* the committed ones and no callback is left: what TransactionCoordinator.run and
\* UnitOfWorkSaver are for, for any saves, any nesting and any failure in between,
\* as long as the application awaits each call before the next.
THEOREM TrackerMatchesStore ==
  ASSUME ~Overlap
  PROVE  Spec => []TrackerMirrorsStore
<1>1. CASE Chains # {}
  <2>1. KInv => TrackerMirrorsStore
    BY <1>1, IdleMeansSettled
  <2> QED
    BY <2>1, KInvariant, PTL
<1>2. CASE Chains = {}
  <2>1. Init => TrackerMirrorsStore
    BY DEF Init, TrackerMirrorsStore, Staged
  <2>2. TrackerMirrorsStore /\ [Next]_vars => TrackerMirrorsStore'
    <3>1. ~Next
      BY <1>2 DEF Next
    <3> QED
      BY <3>1 DEF vars, storeVars, guardVars, contextVars, chainVars, TrackerMirrorsStore,
                  Staged, Idle
  <2> QED
    BY <2>1, <2>2, PTL DEF Spec
<1> QED
  BY <1>1, <1>2

LEMMA PartsAreFrames ==
  ASSUME KInv
  PROVE  CallbacksFollowFrames
<1> SUFFICES ASSUME NEW c \in Chains, pc[c] = "app", txs[c] # <<>>, NEW i \in 1..Len(txs[c])
             PROVE  ToSet(SubSeq(callbacks, txs[c][i].start + 1, End(c, i)))
                      = frames[i] \cap Staged
  BY DEF CallbacksFollowFrames, End
<1>1. Alone(c)
  <2>1. ~Idle(c)
    BY DEF Idle
  <2> QED
    BY <2>1 DEF Alone, KInv, PInv, OneAtATime, Focus
<1>2. TypeOK /\ AtWork(c)
  BY <1>1, Standing
<1>3. /\ Levels(c) = Len(txs[c]) /\ Late(c) = {}
      /\ Len(txs[c]) \in Nat /\ Len(callbacks) \in Nat /\ callbacks \in Seq(Saves)
      /\ \A j \in 1..Len(txs[c]) :
           txs[c][j].start \in Nat /\ txs[c][j].start <= Len(callbacks)
  BY <1>1, <1>2, Heights, CallTypes DEF Ending, SaveEnding, Late, AtWork, StartsInOrder
<1>4. Part(c, i) = frames[i] \cap Staged
  <2>1. Part(c, i) \subseteq frames[i] /\ frames[i] \cap Staged \subseteq Part(c, i)
    BY <1>2, <1>3 DEF AtWork, RowsFollow
  <2>2. Part(c, i) \subseteq Staged
    BY <1>2, PartsApart DEF AtWork, Beliefs
  <2> QED
    BY <2>1, <2>2
<1>5. /\ txs[c][i].start \in Nat /\ End(c, i) \in Nat
      /\ txs[c][i].start <= End(c, i) /\ End(c, i) <= Len(callbacks)
  <2>1. CASE i = Len(txs[c])
    BY <1>3, <2>1 DEF End
  <2>2. CASE i # Len(txs[c])
    <3>1. i + 1 \in 1..Len(txs[c]) /\ i <= i + 1
      BY <1>3, <2>2
    <3> QED
      BY <1>2, <1>3, <2>2, <3>1 DEF End, AtWork, StartsInOrder
  <2> QED
    BY <2>1, <2>2
<1>6. ToSet(SubSeq(callbacks, txs[c][i].start + 1, End(c, i))) = Part(c, i)
  <2> DEFINE a == txs[c][i].start
             b == End(c, i)
  <2>1. a \in Nat /\ b \in Nat /\ a <= b /\ b <= Len(callbacks)
    BY <1>5
  <2>2. Part(c, i) = {callbacks[k] : k \in (a + 1)..b}
    BY DEF Part
  <2> HIDE DEF a, b
  <2>3. ToSet(SubSeq(callbacks, a + 1, b)) = {callbacks[k] : k \in (a + 1)..b}
    <3>1. callbacks \in Seq(Saves)
      BY <1>3
    <3> QED
      BY <2>1, <3>1, SetOfSubSeq
  <2> QED
    BY <2>2, <2>3 DEF a, b
<1> QED
  BY <1>4, <1>6

\* The count of callbacks that run() took when a transaction started splits the
\* deferred saves as the savepoints split the rows: what it splices off when that
\* transaction rejects is what the database has rolled back with it, at any depth.
THEOREM CallbacksMatchFrames ==
  ASSUME ~Overlap
  PROVE  Spec => []CallbacksFollowFrames
<1>1. KInv => CallbacksFollowFrames
  BY PartsAreFrames
<1> QED
  BY <1>1, KInvariant, PTL

-----------------------------------------------------------------------------
(* The promise *)

Outcome == [s \in Saves |-> OutcomeOf(s)]

\* What the database makes of a save, in terms of the committed and the open rows.
OutcomesRead ==
  TypeOK => \A s \in Saves :
    Outcome[s] = IF s \in durable THEN "durable"
                 ELSE IF s \in OpenRows THEN "open"
                 ELSE IF journal[s] = "unsaved" THEN "none" ELSE "gone"

LEMMA ReadOutcomes == OutcomesRead
<1> SUFFICES ASSUME TypeOK, NEW s \in Saves
             PROVE  OutcomeOf(s) = IF s \in durable THEN "durable"
                                   ELSE IF s \in OpenRows THEN "open"
                                   ELSE IF journal[s] = "unsaved" THEN "none" ELSE "gone"
  BY DEF OutcomesRead, Outcome
<1>1. DOMAIN frames = 1..Len(frames)
  BY DEF TypeOK
<1>2. s \in OpenRows <=>
        \E i \in DOMAIN frames : s \in frames[i] /\ (unusableAt = 0 \/ i < unusableAt)
  BY <1>1, Zenon DEF OpenRows, Clean
<1> QED
  BY <1>2, Zenon DEF OutcomeOf

LEMMA ReadOutcomesAfter == OutcomesRead'
BY ReadOutcomes, PTL

LEMMA SameVerdict ==
  ASSUME VerdictLost' <=> VerdictLost
  PROVE  VerdictLost' = VerdictLost
BY Zenon DEF VerdictLost

\* A step for which nothing happens to the rows but that some, or none, can no
\* longer be committed.
Undoes ==
  /\ UNCHANGED <<durable, journal, VerdictLost>>
  /\ OpenRows' \subseteq OpenRows

LEMMA UndoneRows ==
  ASSUME TypeOK, TypeOK', Ledger, Undoes
  PROVE  [Promise!Next]_Promise!vars
<1> DEFINE S == {s \in OpenRows \ OpenRows' : s \notin durable}
<1>1. /\ \A s \in Saves :
           Outcome[s] = IF s \in durable THEN "durable"
                        ELSE IF s \in OpenRows THEN "open"
                        ELSE IF journal[s] = "unsaved" THEN "none" ELSE "gone"
      /\ \A s \in Saves :
           Outcome'[s] = IF s \in durable THEN "durable"
                         ELSE IF s \in OpenRows' THEN "open"
                         ELSE IF journal[s] = "unsaved" THEN "none" ELSE "gone"
      /\ OpenRows' \subseteq OpenRows /\ OpenRows \subseteq Saves
      /\ \A s \in OpenRows : journal[s] = "staged"
  BY ReadOutcomes, ReadOutcomesAfter DEF OutcomesRead, Undoes, OpenRows, Ledger, Staged
<1>2. Outcome' = [s \in Saves |-> IF s \in S THEN "gone" ELSE Outcome[s]]
  <2>1. \A s \in Saves : Outcome'[s] = IF s \in S THEN "gone" ELSE Outcome[s]
    BY <1>1
  <2> QED
    BY <2>1 DEF Outcome
<1>3. S \subseteq Promise!Open
  BY <1>1 DEF Promise!Open, Outcome
<1>4. UNCHANGED <<journal, VerdictLost>>
  BY DEF Undoes
<1>5. CASE S = {}
  <2>1. Outcome' = Outcome
    BY <1>2, <1>5 DEF Outcome
  <2> QED
    BY <1>4, <2>1 DEF Promise!vars, Outcome
<1>6. CASE S # {}
  <2>1. Promise!Undo(S)
    BY <1>2, <1>4 DEF Promise!Undo, Promise!Become, Outcome
  <2> HIDE DEF S
  <2> QED
    BY <1>3, <1>6, <2>1 DEF Promise!Next
<1> QED
  BY <1>5, <1>6

\* The outermost transaction commits every row that is open, or its verdict is
\* lost.
LEMMA CommittedRows ==
  ASSUME TypeOK, TypeOK', Ledger, NEW c, NEW done,
         CommitsRoot(c, done), UNCHANGED <<journal, VerdictLost>>
  PROVE  [Promise!Next]_Promise!vars
<1>1. /\ \A s \in Saves :
           Outcome[s] = IF s \in durable THEN "durable"
                        ELSE IF s \in OpenRows THEN "open"
                        ELSE IF journal[s] = "unsaved" THEN "none" ELSE "gone"
      /\ \A s \in Saves :
           Outcome'[s] = IF s \in durable' THEN "durable"
                         ELSE IF s \in OpenRows' THEN "open"
                         ELSE IF journal[s] = "unsaved" THEN "none" ELSE "gone"
  BY ReadOutcomes, ReadOutcomesAfter DEF OutcomesRead
<1>2. durable' = durable \cup OpenRows /\ OpenRows' = {} /\ UNCHANGED <<journal, VerdictLost>>
  <2>1. frames[1] \subseteq Saves /\ Len(frames) = 1 /\ unusableAt = 0
    BY DEF CommitsRoot, TypeOK
  <2>2. OpenRows = frames[1]
    BY <2>1 DEF OpenRows, Clean
  <2> QED
    BY <2>2 DEF CommitsRoot, OpenRows
<1>3. /\ Promise!Open \subseteq Saves
      /\ \A s \in Saves : s \in Promise!Open <=> s \in OpenRows /\ s \notin durable
  BY <1>1 DEF Promise!Open, Outcome
<1>4. Outcome' = [s \in Saves |-> IF s \in Promise!Open THEN "durable" ELSE Outcome[s]]
  <2>1. \A s \in Saves : Outcome'[s] = IF s \in Promise!Open THEN "durable" ELSE Outcome[s]
    BY <1>1, <1>2, <1>3
  <2> QED
    BY <2>1 DEF Outcome
<1>5. CASE Promise!Open = {}
  <2>1. Outcome' = Outcome
    BY <1>4, <1>5 DEF Outcome
  <2> QED
    BY <1>2, <2>1 DEF Promise!vars, Outcome
<1>6. CASE Promise!Open # {}
  <2>1. Promise!CommitAll
    BY <1>2, <1>4, <1>6 DEF Promise!CommitAll, Promise!Become, Outcome
  <2> QED
    BY <2>1 DEF Promise!Next
<1> QED
  BY <1>5, <1>6

LEMMA LostRows ==
  ASSUME TypeOK, TypeOK', Ledger, NEW c, NEW lost,
         LosesCommit(c, lost), UNCHANGED journal, VerdictLost'
  PROVE  [Promise!Next]_Promise!vars
<1>1. /\ \A s \in Saves :
           Outcome[s] = IF s \in durable THEN "durable"
                        ELSE IF s \in OpenRows THEN "open"
                        ELSE IF journal[s] = "unsaved" THEN "none" ELSE "gone"
      /\ \A s \in Saves :
           Outcome'[s] = IF s \in durable' THEN "durable"
                         ELSE IF s \in OpenRows' THEN "open"
                         ELSE IF journal[s] = "unsaved" THEN "none" ELSE "gone"
      /\ \A s \in OpenRows : journal[s] = "staged"
  BY ReadOutcomes, ReadOutcomesAfter DEF OutcomesRead, Ledger, Staged
<1>2. /\ durable' \in {durable, durable \cup OpenRows} /\ OpenRows' = {}
      /\ UNCHANGED journal /\ VerdictLost' = TRUE
  <2>1. frames[1] \subseteq Saves /\ Len(frames) = 1 /\ unusableAt = 0
    <3>1. Len(frames) = 1 /\ unusableAt = 0
      BY DEF LosesCommit
    <3>2. frames \in Seq(SUBSET Saves)
      BY DEF TypeOK
    <3>3. 1 \in 1..Len(frames)
      BY <3>1
    <3>4. frames[1] \in SUBSET Saves
      BY <3>2, <3>3
    <3> QED
      BY <3>1, <3>4
  <2>2. OpenRows = frames[1]
    BY <2>1 DEF OpenRows, Clean
  <2>3. OpenRows' = {}
    BY DEF LosesCommit, OpenRows
  <2>4. VerdictLost' = TRUE
    BY DEF VerdictLost
  <2> QED
    BY <2>2, <2>3, <2>4 DEF LosesCommit
<1>3. /\ Promise!Open \subseteq Saves
      /\ \A s \in Saves : s \in Promise!Open <=> s \in OpenRows /\ s \notin durable
  BY <1>1 DEF Promise!Open, Outcome
<1>4. PICK verdict \in {"durable", "gone"} :
        Outcome' = [s \in Saves |-> IF s \in Promise!Open THEN verdict ELSE Outcome[s]]
  <2>1. CASE durable' = durable
    <3>1. \A s \in Saves : Outcome'[s] = IF s \in Promise!Open THEN "gone" ELSE Outcome[s]
      BY <1>1, <1>2, <1>3, <2>1
    <3> QED
      BY <3>1 DEF Outcome
  <2>2. CASE durable' = durable \cup OpenRows
    <3>1. \A s \in Saves : Outcome'[s] = IF s \in Promise!Open THEN "durable" ELSE Outcome[s]
      BY <1>1, <1>2, <1>3, <2>2
    <3> QED
      BY <3>1 DEF Outcome
  <2> QED
    BY <1>2, <2>1, <2>2
<1>5. Promise!LoseVerdict
  BY <1>2, <1>4 DEF Promise!LoseVerdict, Promise!Become, Outcome
<1> QED
  BY <1>5 DEF Promise!Next

\* However the innermost frame is closed.
LEMMA ClosedRows ==
  ASSUME NEW c \in Chains, Alone(c), TypeOK', ~VerdictLost, UNCHANGED journal,
         NEW done, NEW lost \in LostPc, NEW failed, Closes(c, done, lost, failed),
         {done, failed} \cap LostPc = {}
  PROVE  [Promise!Next]_Promise!vars
<1>0. TypeOK /\ Ledger
  BY Standing
<1>1. CASE CommitsRoot(c, done)
  <2>1. pc'[c] = done /\ \A d \in Chains \ {c} : pc'[d] = pc[d]
    BY <1>0, <1>1, Moves DEF CommitsRoot
  <2>2. ~VerdictLost'
    BY <1>1, <2>1, Standing, VerdictAfter DEF CommitsRoot
  <2> QED
    BY <1>0, <1>1, <2>2, CommittedRows, SameVerdict
<1>2. CASE LosesCommit(c, lost)
  <2>1. pc'[c] \in LostPc
    BY <1>0, <1>2, Moves DEF LosesCommit
  <2>2. VerdictLost'
    BY <2>1 DEF VerdictLost, LostPc
  <2> QED
    BY <1>0, <1>2, <2>2, LostRows
<1>3. CASE ReleasesSavepoint(c, done) \/ RollsBack(c, failed)
  <2>1. OpenRows' \subseteq OpenRows
    BY <1>0, RowsWhenClosing
  <2>2. durable' = durable /\ outcomeUnknown' = outcomeUnknown
    <3>1. CASE ReleasesSavepoint(c, done)
      BY <3>1 DEF ReleasesSavepoint, guardVars
    <3>2. CASE RollsBack(c, failed)
      BY <3>2 DEF RollsBack, RollsBackRoot, RollsBackToSavepoint, FailsToClean, guardVars
    <3> QED
      BY <1>3, <3>1, <3>2
  <2>3. pc'[c] \in {done, failed} /\ \A d \in Chains \ {c} : pc'[d] = pc[d]
    <3>1. Goto(c, done) \/ Goto(c, failed)
      BY <1>3, Zenon DEF ReleasesSavepoint, RollsBack, RollsBackRoot, RollsBackToSavepoint,
                         FailsToClean
    <3> QED
      BY <1>0, <3>1, Moves
  <2>4. ~VerdictLost'
    BY <2>2, <2>3, Standing, VerdictAfter
  <2> QED
    BY <1>0, <2>1, <2>2, <2>4, SameVerdict, UndoneRows DEF Undoes
<1> QED
  BY <1>1, <1>2, <1>3 DEF Closes

\* The callback of a committed save runs.
LEMMA ConfirmedSave ==
  ASSUME TypeOK, TypeOK', NEW s \in Saves, s \in Staged, s \in durable,
         NEW end \in {"final", "broken"}, journal' = [journal EXCEPT ![s] = end],
         UNCHANGED <<durable, VerdictLost>>, OpenRows' = OpenRows
  PROVE  [Promise!Next]_Promise!vars
<1>1. /\ \A r \in Saves :
           Outcome[r] = IF r \in durable THEN "durable"
                        ELSE IF r \in OpenRows THEN "open"
                        ELSE IF journal[r] = "unsaved" THEN "none" ELSE "gone"
      /\ \A r \in Saves :
           Outcome'[r] = IF r \in durable THEN "durable"
                         ELSE IF r \in OpenRows THEN "open"
                         ELSE IF journal'[r] = "unsaved" THEN "none" ELSE "gone"
  BY ReadOutcomes, ReadOutcomesAfter DEF OutcomesRead
<1>2. \A r \in Saves : r # s => journal'[r] = journal[r]
  BY DEF TypeOK
<1>3. Outcome' = Outcome
  <2>1. \A r \in Saves : Outcome'[r] = Outcome[r]
    BY <1>1, <1>2
  <2> QED
    BY <2>1 DEF Outcome
<1>4. Outcome[s] = "durable" /\ journal[s] = "staged"
  BY <1>1 DEF Staged
<1>5. Promise!Confirm(s)
  BY <1>3, <1>4 DEF Promise!Confirm, Outcome
<1> QED
  BY <1>5 DEF Promise!Next

\* The acceptances of a transaction, or of a save, are undone.
LEMMA GivenBack ==
  ASSUME TypeOK, TypeOK', NEW S \in SUBSET Saves, S \subseteq Staged,
         ~VerdictLost => S \cap (durable \cup OpenRows) = {},
         NEW broken \in SUBSET S,
         journal' = [s \in Saves |-> IF s \in broken THEN "broken"
                                     ELSE IF s \in S THEN "restored"
                                     ELSE journal[s]],
         UNCHANGED <<durable, VerdictLost>>, OpenRows' = OpenRows
  PROVE  [Promise!Next]_Promise!vars
<1>1. /\ \A r \in Saves :
           Outcome[r] = IF r \in durable THEN "durable"
                        ELSE IF r \in OpenRows THEN "open"
                        ELSE IF journal[r] = "unsaved" THEN "none" ELSE "gone"
      /\ \A r \in Saves :
           Outcome'[r] = IF r \in durable THEN "durable"
                         ELSE IF r \in OpenRows THEN "open"
                         ELSE IF journal'[r] = "unsaved" THEN "none" ELSE "gone"
  BY ReadOutcomes, ReadOutcomesAfter DEF OutcomesRead
<1>2. \A r \in S : journal[r] = "staged" /\ journal'[r] # "unsaved"
  BY DEF Staged
<1>3. \A r \in Saves : r \notin S => journal'[r] = journal[r]
  OBVIOUS
<1>4. Outcome' = Outcome
  <2>1. \A r \in Saves : Outcome'[r] = Outcome[r]
    BY <1>1, <1>2, <1>3
  <2> QED
    BY <2>1 DEF Outcome
<1>5. \A r \in S : journal[r] = "staged" /\ (Outcome[r] = "gone" \/ VerdictLost)
  BY <1>1, <1>2
<1>6. CASE S = {}
  <2>1. journal' = journal
    BY <1>6 DEF TypeOK
  <2> QED
    BY <1>4, <2>1 DEF Promise!vars, Outcome
<1>7. CASE S # {}
  <2>1. Promise!GiveBack(S)
    BY <1>4, <1>5 DEF Promise!GiveBack, Outcome
  <2> QED
    BY <1>7, <2>1 DEF Promise!Next
<1> QED
  BY <1>6, <1>7

\* A save fails before anything of it was accepted.
LEMMA RefusedSave ==
  ASSUME TypeOK, TypeOK', Ledger, NEW s \in Saves, journal[s] = "unsaved",
         NEW end \in {"restored", "broken"}, journal' = [journal EXCEPT ![s] = end],
         UNCHANGED <<durable, VerdictLost>>, OpenRows' = OpenRows
  PROVE  [Promise!Next]_Promise!vars
<1>1. /\ \A r \in Saves :
           Outcome[r] = IF r \in durable THEN "durable"
                        ELSE IF r \in OpenRows THEN "open"
                        ELSE IF journal[r] = "unsaved" THEN "none" ELSE "gone"
      /\ \A r \in Saves :
           Outcome'[r] = IF r \in durable THEN "durable"
                         ELSE IF r \in OpenRows THEN "open"
                         ELSE IF journal'[r] = "unsaved" THEN "none" ELSE "gone"
      /\ s \notin durable /\ s \notin OpenRows
  BY ReadOutcomes, ReadOutcomesAfter DEF OutcomesRead, Ledger, Staged
<1>2. journal'[s] = end /\ \A r \in Saves : r # s => journal'[r] = journal[r]
  BY DEF TypeOK
<1>3. Outcome' = [r \in Saves |-> IF r \in {s} THEN "gone" ELSE Outcome[r]]
  <2>1. \A r \in Saves : Outcome'[r] = IF r \in {s} THEN "gone" ELSE Outcome[r]
    BY <1>1, <1>2
  <2> QED
    BY <2>1 DEF Outcome
<1>4. Outcome[s] = "none"
  BY <1>1
<1>5. Promise!Refuse(s)
  BY <1>3, <1>4 DEF Promise!Refuse, Promise!Become, Outcome
<1> QED
  BY <1>5 DEF Promise!Next

\* A save is accepted in the innermost frame, which may already be doomed.
LEMMA WrittenSave ==
  ASSUME TypeOK, TypeOK', Ledger, ~VerdictLost, NEW s \in Saves, journal[s] = "unsaved",
         journal' = [journal EXCEPT ![s] = "staged"],
         UNCHANGED <<durable, VerdictLost>>,
         OpenRows' \in {OpenRows, OpenRows \cup {s}}
  PROVE  [Promise!Next]_Promise!vars
<1>1. /\ \A r \in Saves :
           Outcome[r] = IF r \in durable THEN "durable"
                        ELSE IF r \in OpenRows THEN "open"
                        ELSE IF journal[r] = "unsaved" THEN "none" ELSE "gone"
      /\ \A r \in Saves :
           Outcome'[r] = IF r \in durable THEN "durable"
                         ELSE IF r \in OpenRows' THEN "open"
                         ELSE IF journal'[r] = "unsaved" THEN "none" ELSE "gone"
      /\ s \notin durable /\ s \notin OpenRows
  BY ReadOutcomes, ReadOutcomesAfter DEF OutcomesRead, Ledger, Staged
<1>2. journal'[s] = "staged" /\ \A r \in Saves : r # s => journal'[r] = journal[r]
  BY DEF TypeOK
<1>3. PICK verdict \in {"open", "gone"} :
        Outcome' = [r \in Saves |-> IF r \in {s} THEN verdict ELSE Outcome[r]]
  <2>1. CASE OpenRows' = OpenRows
    <3>1. \A r \in Saves : Outcome'[r] = IF r \in {s} THEN "gone" ELSE Outcome[r]
      BY <1>1, <1>2, <2>1
    <3> QED
      BY <3>1 DEF Outcome
  <2>2. CASE OpenRows' = OpenRows \cup {s}
    <3>1. \A r \in Saves : Outcome'[r] = IF r \in {s} THEN "open" ELSE Outcome[r]
      BY <1>1, <1>2, <2>2
    <3> QED
      BY <3>1 DEF Outcome
  <2> QED
    BY <2>1, <2>2
<1>4. Outcome[s] = "none"
  BY <1>1
<1>5. Promise!Write(s)
  BY <1>3, <1>4 DEF Promise!Write, Promise!Become, Outcome
<1> QED
  BY <1>5 DEF Promise!Next

\* A step of the chain at work is a step of the promise, or none of its business.
LEMMA StepKeepsPromise ==
  ASSUME NEW c \in Chains, Alone(c), ChainStep(c), TypeOK'
  PROVE  [Promise!Next]_Promise!vars
<1>1. /\ TypeOK /\ Tidy(c) /\ AtWork(c) /\ Ledger
      /\ VerdictLost => OpenRows = {}
  BY Standing
<1>0. ASSUME outcomeUnknown' = outcomeUnknown, pc[c] \notin LostPc, pc'[c] \notin LostPc
      PROVE  VerdictLost' = VerdictLost
  BY <1>0, <1>1, OthersStand, VerdictStands, SameVerdict
<1>2. CASE TransactionBegun(c) \/ SaveBegun(c)
  <2>1. PICK work \in {"app", "saveWork"}, failed \in {"undone", "saveUndone"} :
          Opens(c, work) \/ FailsToOpen(c, failed)
    BY <1>2 DEF TransactionBegun, SaveBegun
  <2>2. ~VerdictLost /\ ~outcomeUnknown /\ UNCHANGED journal /\ pc[c] \notin LostPc
    BY <1>2, VerdictsKnown, Standing DEF TransactionBegun, SaveBegun
  <2>3. durable' = durable /\ ~outcomeUnknown' /\ OpenRows' \subseteq OpenRows
    BY <1>1, <2>1, <2>2, RowsWhenOpening
  <2>4. pc'[c] \in {work, failed}
    BY <1>1, <2>1, Moves DEF Opens, FailsToOpen
  <2>5. outcomeUnknown' = outcomeUnknown /\ pc'[c] \notin LostPc
    BY <1>1, <2>2, <2>3, <2>4 DEF TypeOK, LostPc
  <2> QED
    BY <1>0, <1>1, <2>2, <2>3, <2>5, UndoneRows DEF Undoes
<1>3. CASE WorkEnds(c) \/ SaveCloses(c) \/ SaveThrows(c)
  <2>1. /\ ~VerdictLost /\ UNCHANGED journal
        /\ \/ Closes(c, "committed", "lost", "undone")
           \/ Closes(c, "saved", "saveLost", "saveUndone")
    BY <1>3, VerdictsKnown DEF WorkEnds, SaveCloses, SaveThrows, Closes
  <2>2. /\ "lost" \in LostPc /\ "saveLost" \in LostPc
        /\ {"committed", "undone"} \cap LostPc = {} /\ {"saved", "saveUndone"} \cap LostPc = {}
    BY DEF LostPc
  <2> QED
    BY <2>1, <2>2, ClosedRows
<1>4. CASE SaveAccepted(c)
  <2> DEFINE s == saving[c]
             F == Len(frames)
  <2>1. /\ pc[c] = "saveWork" /\ ~VerdictLost /\ journal[s] = "unsaved" /\ s \in Saves
        /\ journal' = [journal EXCEPT ![s] = "staged"]
        /\ UNCHANGED <<durable, unusableAt, outcomeUnknown>> /\ pc'[c] = "accepted"
        /\ frames' = [frames EXCEPT ![F] = @ \cup {s}]
    BY <1>1, <1>4, Saving, VerdictsKnown, Moves
       DEF SaveAccepted, AtWork, Beliefs, SavePc, guardVars
  <2>0. VerdictLost' = VerdictLost
    BY <1>0, <2>1 DEF LostPc
  <2>2. /\ F \in Nat /\ F > 0 /\ frames \in Seq(SUBSET Saves) /\ F \in 1..F
        /\ Len(frames') = F
        /\ frames'[F] = frames[F] \cup {s}
        /\ \A i \in 1..F : i # F => frames'[i] = frames[i]
    <3>1. F \in Nat /\ F > 0 /\ frames \in Seq(SUBSET Saves)
      BY <1>1, <2>1, Heights DEF TypeOK
    <3> HIDE DEF s
    <3> QED
      BY <2>1, <3>1
  <2>3. \A i : Clean(i)' <=> Clean(i)
    BY <2>1 DEF Clean
  <2> HIDE DEF s, F
  <2>4. OpenRows = {r \in Saves : \E i \in 1..F : Clean(i) /\ r \in frames[i]}
        /\ OpenRows' = {r \in Saves : \E i \in 1..F : Clean(i) /\ r \in frames'[i]}
    BY <2>2, <2>3 DEF OpenRows, F
  <2>5. CASE Clean(F)
    <3>1. OpenRows' = OpenRows \cup {s}
      BY <2>1, <2>2, <2>4, <2>5
    <3> QED
      BY <1>1, <2>0, <2>1, <3>1, WrittenSave
  <2>6. CASE ~Clean(F)
    <3>1. OpenRows' = OpenRows
      BY <2>1, <2>2, <2>4, <2>6
    <3> QED
      BY <1>1, <2>0, <2>1, <3>1, WrittenSave
  <2> QED
    BY <2>5, <2>6
<1>5. CASE SaveFailed(c)
  <2> DEFINE s == saving[c]
  <2>1. /\ pc[c] = "saveFailed" /\ s \in Saves /\ journal[s] \in {"unsaved", "staged"}
        /\ UNCHANGED <<durable, frames, unusableAt, outcomeUnknown>>
        /\ pc'[c] \in {"failing", "failingBroken"}
    BY <1>1, <1>5, Saving, Moves DEF SaveFailed, AtWork, Beliefs, SavePc, storeVars, guardVars
  <2>0. VerdictLost' = VerdictLost
    BY <1>0, <2>1 DEF LostPc
  <2>2. PICK end \in {"restored", "broken"} : journal' = [journal EXCEPT ![s] = end]
    BY <1>5 DEF SaveFailed
  <2>3. OpenRows' = OpenRows
    BY <2>1 DEF OpenRows, Clean
  <2> HIDE DEF s
  <2>4. CASE journal[s] = "unsaved"
    BY <1>1, <2>0, <2>1, <2>2, <2>3, <2>4, RefusedSave
  <2>5. CASE journal[s] = "staged"
    <3>1. {s} \subseteq Staged
      BY <2>1, <2>5 DEF Staged
    <3>2. ~VerdictLost => {s} \cap (durable \cup OpenRows) = {}
      <4>1. Late(c) = {s} \cap Staged
        BY <2>1 DEF Late, Ending, SaveEnding, s
      <4> QED
        BY <1>1, <2>1, <3>1, <4>1 DEF AtWork, Verdicts
    <3>3. PICK broken \in SUBSET {s} :
            journal' = [r \in Saves |-> IF r \in broken THEN "broken"
                                        ELSE IF r \in {s} THEN "restored"
                                        ELSE journal[r]]
      <4>1. journal'[s] = end /\ \A r \in Saves : r # s => journal'[r] = journal[r]
        BY <1>1, <2>1, <2>2 DEF TypeOK
      <4>2. journal' = [r \in Saves |-> IF r = s THEN end ELSE journal[r]]
        BY <1>1, <2>2 DEF TypeOK
      <4>3. CASE end = "broken"
        <5>1. journal' = [r \in Saves |-> IF r \in {s} THEN "broken"
                                          ELSE IF r \in {s} THEN "restored"
                                          ELSE journal[r]]
          BY <4>2, <4>3
        <5>2. {s} \in SUBSET {s}
          OBVIOUS
        <5> QED
          BY <5>1, <5>2, Zenon
      <4>4. CASE end = "restored"
        <5>1. journal' = [r \in Saves |-> IF r \in {} THEN "broken"
                                          ELSE IF r \in {s} THEN "restored"
                                          ELSE journal[r]]
          BY <4>2, <4>4
        <5>2. {} \in SUBSET {s}
          OBVIOUS
        <5> QED
          BY <5>1, <5>2, Zenon
      <4> QED
        BY <4>3, <4>4
    <3>4. {s} \in SUBSET Saves
      BY <2>1
    <3> QED
      BY <1>1, <2>0, <2>1, <2>3, <3>1, <3>2, <3>3, <3>4, GivenBack
  <2> QED
    BY <2>1, <2>4, <2>5
<1>6. CASE TransactionFailed(c)
  <2> DEFINE S == Part(c, Len(txs[c]))
  <2>1. /\ pc[c] = "failed" /\ Len(txs[c]) > 0 /\ Len(txs[c]) \in Nat /\ pc'[c] = "app"
        /\ UNCHANGED <<durable, frames, unusableAt, outcomeUnknown>>
    BY <1>1, <1>6, Heights, Moves DEF TransactionFailed, storeVars, guardVars, Ending
  <2>0. VerdictLost' = VerdictLost
    BY <1>0, <2>1 DEF LostPc
  <2>2. /\ S \subseteq Staged /\ S \subseteq Saves
        /\ ~VerdictLost => S \cap (durable \cup OpenRows) = {}
    <3>1. Len(txs[c]) \in 1..Len(txs[c]) /\ Late(c) = S
      BY <2>1 DEF Late, Ending
    <3> QED
      BY <1>1, <2>1, <3>1, PartsApart DEF AtWork, Beliefs, Verdicts, Staged
  <2>3. PICK broken \in SUBSET S :
          journal' = [r \in Saves |-> IF r \in broken THEN "broken"
                                      ELSE IF r \in S THEN "restored"
                                      ELSE journal[r]]
    <3>1. RestoresAll(Spliced(Last(txs[c]).start))
      BY <1>6 DEF TransactionFailed
    <3>2. RestoresAll(S)
      BY <1>1, <2>1, <3>1, SplicedPart DEF AtWork
    <3> HIDE DEF S
    <3> QED
      BY <3>2, Zenon DEF RestoresAll
  <2>4. OpenRows' = OpenRows
    BY <2>1 DEF OpenRows, Clean
  <2> HIDE DEF S
  <2> QED
    BY <1>1, <2>0, <2>1, <2>2, <2>3, <2>4, GivenBack
<1>7. CASE AfterCommitted(c) /\ ~Deferred
  <2> DEFINE s == saving[c]
  <2>1. /\ pc[c] = "saved" /\ s \in Saves /\ s \in Staged
        /\ journal' = [journal EXCEPT ![s] = "final"]
        /\ UNCHANGED <<durable, frames, unusableAt, outcomeUnknown>> /\ pc'[c] = "notifying"
    BY <1>1, <1>7, Saving, Moves
       DEF AfterCommitted, AtWork, Beliefs, SavePc, Staged, storeVars, guardVars
  <2>0. VerdictLost' = VerdictLost
    BY <1>0, <2>1 DEF LostPc
  <2>2. s \in durable
    <3>1. Len(frames) = 0
      <4>1. Len(txs[c]) = depth /\ Len(txs[c]) \in Nat
        BY <1>1, CallTypes DEF AtWork, StartsInOrder
      <4>2. Len(txs[c]) = 0
        BY <1>7, <4>1 DEF Deferred
      <4> QED
        BY <2>1, <4>2, Heights DEF Ending
    <3>2. Late(c) = {s}
      BY <2>1 DEF Late, Ending, SaveEnding
    <3> QED
      BY <1>1, <2>1, <3>1, <3>2 DEF AtWork, Verdicts
  <2>3. OpenRows' = OpenRows
    BY <2>1 DEF OpenRows, Clean
  <2> HIDE DEF s
  <2> QED
    BY <1>1, <2>0, <2>1, <2>2, <2>3, ConfirmedSave
<1>8. CASE RunCallback(c)
  <2> DEFINE s == Head(flushing[c])
  <2>1. /\ flushing[c] # <<>> /\ UNCHANGED <<durable, frames, unusableAt, outcomeUnknown>>
        /\ pc[c] = "flushing" /\ pc' = pc
    BY <1>8 DEF RunCallback, storeVars, guardVars
  <2>0. VerdictLost' = VerdictLost
    BY <1>0, <2>1 DEF LostPc
  <2>2. PICK end \in {"final", "broken"} : journal' = [journal EXCEPT ![s] = end]
    BY <1>8 DEF RunCallback
  <2>3. s \in Staged /\ s \in durable /\ s \in Saves
    <3>1. flushing[c] \in Seq(Saves) /\ flushing[c] # <<>>
      BY <1>1, <2>1, CallTypes
    <3>2. s = flushing[c][1] /\ 1 \in 1..Len(flushing[c])
      BY <3>1
    <3>3. s \in Flushed(c)
      BY <3>2 DEF Flushed
    <3> QED
      BY <1>1, <3>3 DEF AtWork, Beliefs, Staged
  <2>4. OpenRows' = OpenRows
    BY <2>1 DEF OpenRows, Clean
  <2> HIDE DEF s
  <2> QED
    BY <1>1, <2>0, <2>1, <2>2, <2>3, <2>4, ConfirmedSave
<1>9. CASE \/ BeginTransaction(c) \/ TransactionCommitted(c) \/ CallbacksDone(c)
           \/ (\E s \in Saves : StartSave(c, s)) \/ ExecuteSave(c)
           \/ (AfterCommitted(c) /\ Deferred) \/ SavedNotified(c) \/ FailureNotified(c)
           \/ Dispose(c)
  <2>1. UNCHANGED <<durable, frames, unusableAt, outcomeUnknown, journal>>
    BY <1>9 DEF BeginTransaction, TransactionCommitted, CallbacksDone, StartSave, ExecuteSave,
                AfterCommitted, SavedNotified, FailureNotified, Dispose, storeVars, guardVars
  <2>2. OpenRows' = OpenRows
    BY <2>1 DEF OpenRows, Clean
  <2>3. pc[c] \in {"app", "committed", "flushing", "saving", "saved", "notifying", "failing",
                   "failingBroken"}
    BY <1>9 DEF BeginTransaction, TransactionCommitted, CallbacksDone, StartSave, MayCall,
                ExecuteSave, AfterCommitted, SavedNotified, FailureNotified, Dispose
  <2>4. \/ pc' = pc
        \/ \E label \in {"begin", "rejected", "app", "flushing", "saving", "saveBegin",
                         "saveRefused", "saveFailed"} : Goto(c, label)
    BY <1>9 DEF BeginTransaction, TransactionCommitted, CallbacksDone, StartSave, ExecuteSave,
                AfterCommitted, SavedNotified, FailureNotified, Dispose, chainVars
  <2>5. pc[c] \notin LostPc /\ pc'[c] \notin LostPc
    BY <1>1, <2>3, <2>4, Moves DEF LostPc
  <2> QED
    BY <1>0, <1>1, <2>1, <2>2, <2>5, UndoneRows DEF Undoes
<1>10. CASE TransactionSettles(c) \/ SaveSettles(c)
  <2>1. UNCHANGED <<durable, frames, unusableAt, journal>>
    BY <1>10 DEF TransactionSettles, SaveSettles, storeVars
  <2>2. VerdictLost' = VerdictLost
    BY <1>10, VerdictLearnt, SameVerdict
  <2> QED
    BY <1>1, <2>1, <2>2, UndoneRows DEF Undoes, OpenRows, Clean
<1> QED
  BY <1>2, <1>3, <1>4, <1>5, <1>6, <1>7, <1>8, <1>9, <1>10
     DEF ChainStep, TransactionStep, SaveStep

\* Used by one chain at a time, the unit of work implements the promise of
\* AtomicSaves: whatever nests, fails, is lost or is cleaned up badly, each step of
\* the coordinator, the guard and the saver is a write, a commit of everything that
\* is open, an undoing, a lost verdict, a confirmation of what is durable or a
\* giving back of what is not.
THEOREM PromiseIsKept ==
  ASSUME ~Overlap
  PROVE  Spec => KeepsPromise
<1>1. Init => Promise!Init
  <2> SUFFICES ASSUME Init
               PROVE  Promise!Init
    OBVIOUS
  <2>1. \A s \in Saves : OutcomeOf(s) = "none"
    BY DEF Init, OutcomeOf
  <2>2. VerdictLost = FALSE
    BY DEF Init, VerdictLost
  <2> QED
    BY <2>1, <2>2 DEF Init, Promise!Init
<1>2. KInv /\ KInv' /\ [Next]_vars => [Promise!Next]_Promise!vars
  <2> SUFFICES ASSUME KInv, KInv', [Next]_vars
               PROVE  [Promise!Next]_Promise!vars
    OBVIOUS
  <2>1. TypeOK /\ TypeOK' /\ Ledger
    BY DEF KInv, SInv, GInv, TInv, PInv
  <2>2. CASE UNCHANGED vars
    <3>1. OpenRows' = OpenRows /\ UNCHANGED <<durable, journal, VerdictLost>>
      BY <2>2 DEF vars, storeVars, guardVars, chainVars, OpenRows, Clean, VerdictLost
    <3> QED
      BY <2>1, <3>1, UndoneRows DEF Undoes
  <2>3. CASE Next
    <3>1. PICK c \in Chains : ChainStep(c)
      BY <2>3, NextIsAChainStep
    <3>2. Alone(c)
      BY <3>1, StepsAlone DEF Alone
    <3> QED
      BY <2>1, <3>1, <3>2, StepKeepsPromise
  <2> QED
    BY <2>2, <2>3
<1> QED
  BY <1>1, <1>2, KInvariant, PTL DEF Spec, KeepsPromise, Promise!Spec

\* Every step of the promise keeps each save's rows and belief among the values
\* they can have.
LEMMA PromiseTypes == Promise!Spec => []Promise!TypeOK
<1>1. Promise!Init => Promise!TypeOK
  BY DEF Promise!Init, Promise!TypeOK, Promise!Outcome, Promise!Belief
<1>2. Promise!TypeOK /\ [Promise!Next]_Promise!vars => Promise!TypeOK'
  <2> SUFFICES ASSUME Promise!TypeOK, [Promise!Next]_Promise!vars PROVE Promise!TypeOK'
    OBVIOUS
  <2> USE DEF Promise!TypeOK, Promise!Outcome, Promise!Belief, Promise!Become
  <2>1. CASE \E s \in Saves : Promise!Write(s) \/ Promise!Refuse(s) \/ Promise!Confirm(s)
    BY <2>1 DEF Promise!Write, Promise!Refuse, Promise!Confirm
  <2>2. CASE Promise!CommitAll
    BY <2>2 DEF Promise!CommitAll
  <2>3. CASE Promise!LoseVerdict
    BY <2>3 DEF Promise!LoseVerdict
  <2>4. CASE \E S \in (SUBSET Promise!Open) \ {{}} : Promise!Undo(S)
    BY <2>4 DEF Promise!Undo
  <2>5. CASE \E S \in (SUBSET Saves) \ {{}} : Promise!GiveBack(S)
    BY <2>5 DEF Promise!GiveBack
  <2>6. CASE UNCHANGED Promise!vars
    BY <2>6 DEF Promise!vars
  <2> QED
    BY <2>1, <2>2, <2>3, <2>4, <2>5, <2>6 DEF Promise!Next
<1> QED
  BY <1>1, <1>2, PTL DEF Promise!Spec

\* What the promise implies: a save called final is committed; one given back is
\* not, unless the verdict of its commit was lost.  A verdict, once there, does not
\* change.
LEMMA BeliefIsJustified == Promise!Spec => []Promise!BeliefFollowsOutcome
<1>1. Promise!Init => Promise!BeliefFollowsOutcome
  BY DEF Promise!Init, Promise!BeliefFollowsOutcome
<1>2. Promise!TypeOK /\ Promise!BeliefFollowsOutcome /\ [Promise!Next]_Promise!vars
        => Promise!BeliefFollowsOutcome'
  <2> SUFFICES ASSUME Promise!TypeOK, Promise!BeliefFollowsOutcome,
                      [Promise!Next]_Promise!vars
               PROVE  Promise!BeliefFollowsOutcome'
    OBVIOUS
  <2> USE DEF Promise!TypeOK, Promise!Outcome, Promise!Belief, Promise!BeliefFollowsOutcome,
              Promise!Become, Promise!Open
  <2>1. CASE \E s \in Saves : Promise!Write(s)
    BY <2>1 DEF Promise!Write
  <2>2. CASE \E s \in Saves : Promise!Refuse(s)
    BY <2>2 DEF Promise!Refuse
  <2>3. CASE \E s \in Saves : Promise!Confirm(s)
    BY <2>3 DEF Promise!Confirm
  <2>4. CASE Promise!CommitAll
    BY <2>4 DEF Promise!CommitAll
  <2>5. CASE Promise!LoseVerdict
    BY <2>5 DEF Promise!LoseVerdict
  <2>6. CASE \E S \in (SUBSET Promise!Open) \ {{}} : Promise!Undo(S)
    <3>1. PICK S \in (SUBSET Promise!Open) \ {{}} : Promise!Undo(S)
      BY <2>6
    <3>2. /\ UNCHANGED <<journal, VerdictLost>>
          /\ \A s \in Saves : OutcomeOf(s)' = IF s \in S THEN "gone" ELSE OutcomeOf(s)
      BY <3>1 DEF Promise!Undo
    <3>3. \A s \in S : OutcomeOf(s) = "open"
      BY <3>1
    <3> QED
      BY <3>2, <3>3
  <2>7. CASE \E S \in (SUBSET Saves) \ {{}} : Promise!GiveBack(S)
    <3>1. PICK S \in (SUBSET Saves) \ {{}} : Promise!GiveBack(S)
      BY <2>7
    <3>2. \A s \in S : OutcomeOf(s) = "gone" \/ VerdictLost
      BY <3>1 DEF Promise!GiveBack
    <3>3. \A s \in Saves : OutcomeOf(s)' = OutcomeOf(s)
      BY <3>1 DEF Promise!GiveBack
    <3>4. \A s \in Saves :
            \/ journal'[s] = journal[s]
            \/ journal'[s] = "broken"
            \/ s \in S /\ journal'[s] = "restored"
      BY <3>1 DEF Promise!GiveBack
    <3>5. VerdictLost' = VerdictLost
      BY <3>1 DEF Promise!GiveBack
    <3> QED
      BY <3>2, <3>3, <3>4, <3>5
  <2>8. CASE UNCHANGED Promise!vars
    BY <2>8 DEF Promise!vars
  <2> QED
    BY <2>1, <2>2, <2>3, <2>4, <2>5, <2>6, <2>7, <2>8 DEF Promise!Next
<1> QED
  BY <1>1, <1>2, PromiseTypes, PTL DEF Promise!Spec

\* The context calls no save final that the database does not hold, and gives no
\* entity back whose rows are committed unless the verdict was lost, even while
\* callbacks fail and a connection is going down: the promise carries what follows
\* from it over to the unit of work.
THEOREM BeliefFollowsTheRows ==
  ASSUME ~Overlap
  PROVE  Spec => []Promise!BeliefFollowsOutcome
  BY BeliefIsJustified, PromiseIsKept, PTL DEF KeepsPromise

=============================================================================
