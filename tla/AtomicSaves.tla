---------------------------- MODULE AtomicSaves -----------------------------
(***************************************************************************)
(* What a DbContext promises of its saves, without transactions, scopes or *)
(* callbacks.  The database decides a save, the context follows: a save is *)
(* final only when its rows are committed, its entities are given back     *)
(* only when they are not, and all the saves of one transaction share one  *)
(* verdict.  After a lost verdict nothing more is written.                 *)
(***************************************************************************)
CONSTANT Saves

VARIABLES
  outcome,  \* what became of each save's rows
  belief,   \* what the change tracker says of its entities
  lost      \* a commit was sent and its verdict never came

vars == <<outcome, belief, lost>>

Outcome == {"none", "open", "durable", "gone"}
Belief == {"unsaved", "staged", "final", "restored", "broken"}

TypeOK ==
  /\ outcome \in [Saves -> Outcome]
  /\ belief \in [Saves -> Belief]
  /\ lost \in BOOLEAN

Init ==
  /\ outcome = [s \in Saves |-> "none"]
  /\ belief = [s \in Saves |-> "unsaved"]
  /\ lost = FALSE

Open == {s \in Saves : outcome[s] = "open"}

Become(S, verdict) == [s \in Saves |-> IF s \in S THEN verdict ELSE outcome[s]]

\* The rows are written and the entities accepted, in a transaction that may
\* already be doomed.
Write(s) ==
  /\ ~lost
  /\ outcome[s] = "none"
  /\ \E verdict \in {"open", "gone"} : outcome' = Become({s}, verdict)
  /\ belief' = [belief EXCEPT ![s] = "staged"]
  /\ UNCHANGED lost

Refuse(s) ==
  /\ outcome[s] = "none"
  /\ outcome' = Become({s}, "gone")
  /\ \E end \in {"restored", "broken"} : belief' = [belief EXCEPT ![s] = end]
  /\ UNCHANGED lost

CommitAll ==
  /\ Open # {}
  /\ outcome' = Become(Open, "durable")
  /\ UNCHANGED <<belief, lost>>

Undo(S) ==
  /\ outcome' = Become(S, "gone")
  /\ UNCHANGED <<belief, lost>>

LoseVerdict ==
  /\ \E verdict \in {"durable", "gone"} : outcome' = Become(Open, verdict)
  /\ lost' = TRUE
  /\ UNCHANGED belief

Confirm(s) ==
  /\ belief[s] = "staged"
  /\ outcome[s] = "durable"
  /\ \E end \in {"final", "broken"} : belief' = [belief EXCEPT ![s] = end]
  /\ UNCHANGED <<outcome, lost>>

GiveBack(S) ==
  /\ \A s \in S : belief[s] = "staged" /\ (outcome[s] = "gone" \/ lost)
  /\ \E broken \in SUBSET S :
       belief' = [s \in Saves |-> IF s \in broken THEN "broken"
                                  ELSE IF s \in S THEN "restored"
                                  ELSE belief[s]]
  /\ UNCHANGED <<outcome, lost>>

Next ==
  \/ \E s \in Saves : Write(s) \/ Refuse(s) \/ Confirm(s)
  \/ CommitAll
  \/ LoseVerdict
  \/ \E S \in (SUBSET Open) \ {{}} : Undo(S)
  \/ \E S \in (SUBSET Saves) \ {{}} : GiveBack(S)

Spec == Init /\ [][Next]_vars

-----------------------------------------------------------------------------

\* The context never calls a save final that the database does not hold, nor
\* gives entities back for rows that are committed, unless the verdict was lost.
BeliefFollowsOutcome ==
  \A s \in Saves :
    /\ belief[s] = "final" => outcome[s] = "durable"
    /\ belief[s] = "restored" => outcome[s] = "gone" \/ lost
=============================================================================
