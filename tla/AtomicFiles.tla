---------------------------- MODULE AtomicFiles ----------------------------
(* The file transaction behind every command that generates code: the        *)
(* migration commands write a migration together with its model snapshot, or *)
(* remove one and write the snapshot back; init and pull write several files.*)
(* A command gives a list of changes, each to a path of its own; the         *)
(* transaction looks at the paths, refuses what it must not touch, writes    *)
(* every new content to a temporary file, moves each old file aside to a     *)
(* backup, publishes the new one and in the end deletes the backups. Any     *)
(* call of the file system may fail, the process may die between two calls,  *)
(* and meanwhile another program may create a file where there is none.      *)
(*                                                                           *)
(* Code: packages/core/src/tooling/atomic-file-{writer,transaction}.ts.      *)
(* One command runs at a time. The temporary and backup files carry a fresh  *)
(* id in their names: those a command leaves behind are never touched again, *)
(* and the model forgets them when the next command starts. The contents and *)
(* the mode bits of a file are one value, told apart by who wrote it.        *)
EXTENDS Naturals, FiniteSets

CONSTANTS
  Files,       \* how many paths there are; change i is to path i
  Commands,    \* the commands; also the content each of them writes
  Nothing,     \* no file at this path
  Original,    \* a regular file that was there from the beginning
  Directory,   \* something that is not a regular file
  Newcomer,    \* a file that another program creates
  Half,        \* what a failed write leaves in a temporary file
  MaxFaults,   \* bound: failing calls and crashes
  MaxNewcomers \* bound: files that another program creates

ASSUME FilesAssumption == Files \in Nat \ {0}
ASSUME BoundsAssumption == MaxFaults \in Nat /\ MaxNewcomers \in Nat
ASSUME ContentsAssumption ==
  /\ Cardinality({Nothing, Original, Directory, Newcomer, Half}) = 5
  /\ Commands \cap {Nothing, Original, Directory, Newcomer, Half} = {}

(* A write without `replace`, a write with it, and a removal.                *)
Kinds == {"create", "replace", "remove"}

Jobs == UNION {[1..n -> Kinds] : n \in 1..Files}

VARIABLES
  disk,      \* what each path holds
  temp,      \* what the temporary file of each path holds
  backup,    \* what the backup of each path holds
  command,   \* the command of the latest transaction; Nothing before the first
  used,      \* the commands that have run
  job,       \* the changes of the transaction
  existed,   \* the paths at which a file was seen
  backedUp,  \* the paths whose file has been moved aside
  committed, \* the paths whose change is made
  before,    \* history: what each path held when the transaction looked at it
  pc,        \* the call that is next; idle when no command runs
  at,        \* the path it is about
  errors,    \* has a call of the rollback failed?
  outcome,   \* how the latest transaction ended
  faults,    \* failing calls and crashes so far
  newcomers  \* files created by another program so far

files == <<disk, temp, backup>>
staged == <<existed, backedUp, committed>>
vars == <<files, command, used, job, staged, before, pc, at, errors, outcome,
          faults, newcomers>>

Paths == 1..Files
Contents == Commands \cup {Nothing, Original, Directory, Newcomer, Half}
Outcomes ==
  {"none", "refused", "restored", "unrestored", "done", "crashed"}
Steps == {"look", "preflight", "stage", "backup", "publish",
          "undo", "putback", "drop", "cleanTemp", "cleanBackup"}

TypeOK ==
  /\ disk \in [Paths -> Contents]
  /\ temp \in [Paths -> Contents]
  /\ backup \in [Paths -> Contents]
  /\ before \in [Paths -> Contents]
  /\ command \in Commands \cup {Nothing}
  /\ used \subseteq Commands
  /\ job \in Jobs
  /\ existed \subseteq Paths
  /\ backedUp \subseteq Paths
  /\ committed \subseteq Paths
  /\ pc \in Steps \cup {"idle"}
  /\ at \in DOMAIN job
  /\ errors \in BOOLEAN
  /\ outcome \in Outcomes
  /\ faults \in 0..MaxFaults
  /\ newcomers \in 0..MaxNewcomers

AllNothing == [p \in Paths |-> Nothing]

Init ==
  /\ disk \in [Paths -> {Nothing, Original, Directory}]
  /\ temp = AllNothing
  /\ backup = AllNothing
  /\ before = AllNothing
  /\ command = Nothing
  /\ used = {}
  /\ job = [i \in {1} |-> "create"]
  /\ existed = {} /\ backedUp = {} /\ committed = {}
  /\ pc = "idle" /\ at = 1
  /\ errors = FALSE
  /\ outcome = "none"
  /\ faults = 0 /\ newcomers = 0

-----------------------------------------------------------------------------
Size == Cardinality(DOMAIN job)

Goto(step, path) == pc' = step /\ at' = path

(* A loop over the changes: the step again for the next path, or else the    *)
(* first step of what follows.                                               *)
Onward(step, following) ==
  IF at < Size THEN Goto(step, at + 1) ELSE Goto(following, 1)

(* A call that throws; `faults` counts the ones the model injects.           *)
Fault == faults < MaxFaults /\ faults' = faults + 1
Fails(call) == \/ Fault
               \/ call /\ UNCHANGED faults

(* The catch clause of the transaction: the rollback begins with the last    *)
(* change.                                                                   *)
RollBack == Goto("undo", Size) /\ UNCHANGED outcome

End(result) == Goto("idle", 1) /\ outcome' = result

-----------------------------------------------------------------------------
(* A command starts a transaction under a fresh id.                          *)
Start(c, changes) ==
  /\ pc = "idle"
  /\ c \notin used
  /\ command' = c
  /\ used' = used \cup {c}
  /\ job' = changes
  /\ temp' = AllNothing
  /\ backup' = AllNothing
  /\ before' = AllNothing
  /\ existed' = {} /\ backedUp' = {} /\ committed' = {}
  /\ errors' = FALSE
  /\ outcome' = "none"
  /\ Goto("look", 1)
  /\ UNCHANGED <<disk, faults, newcomers>>

(* Whether a file exists is asked once, when its change is staged.           *)
Look ==
  /\ pc = "look"
  /\ existed' = IF disk[at] = Nothing THEN existed ELSE existed \cup {at}
  /\ before' = [before EXCEPT ![at] = disk[at]]
  /\ Onward("look", "preflight")
  /\ UNCHANGED <<files, command, used, job, backedUp, committed, errors,
                 outcome, faults, newcomers>>

(* The checks that run before anything is written. An error here is outside  *)
(* the try: nothing is rolled back.                                          *)
Preflight ==
  /\ pc = "preflight"
  /\ LET refuses ==
           \/ job[at] = "create" /\ at \in existed
           \/ at \in existed /\ disk[at] \in {Nothing, Directory}
           \/ job[at] = "remove" /\ at \notin existed
     IN  \/ Fails(refuses) /\ End("refused")
         \/ /\ ~refuses
            /\ Onward("preflight", "stage")
            /\ UNCHANGED <<outcome, faults>>
  /\ UNCHANGED <<files, command, used, job, staged, before, errors, newcomers>>

(* Write the temporary file and give it the mode of the file it replaces. A  *)
(* failing write may leave part of the file behind; a failing chmod leaves   *)
(* all of it.                                                                *)
Stage ==
  /\ pc = "stage"
  /\ \/ /\ job[at] # "remove"
        /\ \E left \in {Nothing, Half, command} :
              temp' = [temp EXCEPT ![at] = left]
        /\ Fails(at \in existed /\ disk[at] = Nothing)
        /\ RollBack
     \/ /\ temp' = IF job[at] = "remove" THEN temp
                   ELSE [temp EXCEPT ![at] = command]
        /\ Onward("stage", "backup")
        /\ UNCHANGED <<outcome, faults>>
  /\ UNCHANGED <<disk, backup, command, used, job, staged, before, errors,
                 newcomers>>

(* Move the old file aside.                                                  *)
BackUp ==
  /\ pc = "backup"
  /\ \/ /\ at \in existed
        /\ Fails(disk[at] = Nothing)
        /\ RollBack
        /\ UNCHANGED <<disk, backup, backedUp>>
     \/ /\ at \in existed
        /\ disk[at] # Nothing
        /\ backup' = [backup EXCEPT ![at] = disk[at]]
        /\ disk' = [disk EXCEPT ![at] = Nothing]
        /\ backedUp' = backedUp \cup {at}
        /\ Goto("publish", at)
        /\ UNCHANGED <<outcome, faults>>
     \/ /\ at \notin existed
        /\ Goto("publish", at)
        /\ UNCHANGED <<disk, backup, backedUp, outcome, faults>>
  /\ UNCHANGED <<temp, command, used, job, existed, committed, before, errors,
                 newcomers>>

(* Make the change at the path. A new file is linked, which fails when a     *)
(* file has appeared there; a replacing one is renamed over what is there.   *)
PublishAs(overwrites) ==
  \/ /\ job[at] # "remove"
     /\ Fails(~overwrites /\ disk[at] # Nothing)
     /\ RollBack
     /\ UNCHANGED <<disk, temp, committed>>
  \/ /\ committed' = committed \cup {at}
     /\ IF job[at] = "remove"
        THEN UNCHANGED <<disk, temp>>
        ELSE /\ overwrites \/ disk[at] = Nothing
             /\ disk' = [disk EXCEPT ![at] = temp[at]]
             /\ temp' = IF overwrites THEN [temp EXCEPT ![at] = Nothing]
                        ELSE temp
     /\ Onward("backup", "cleanTemp")
     /\ UNCHANGED <<outcome, faults>>

PublishStep(overwrites) ==
  /\ pc = "publish"
  /\ PublishAs(overwrites)
  /\ UNCHANGED <<backup, command, used, job, existed, backedUp, before, errors,
                 newcomers>>

\* Mutant: every file is renamed into place.
PublishByRename == PublishStep(TRUE)

Publish == PublishStep(at \in existed \/ job[at] # "create")

-----------------------------------------------------------------------------
(* One call of the rollback: it is made only when it applies, and when it    *)
(* fails the error is kept and the rollback goes on.                         *)
Attempt(applies, call, unchanged) ==
  \/ applies /\ Fault /\ errors' = TRUE /\ unchanged
  \/ applies /\ call /\ UNCHANGED <<errors, faults>>
  \/ ~applies /\ unchanged /\ UNCHANGED <<errors, faults>>

(* Delete the file that was published.                                       *)
UndoOnly(paths) ==
  /\ pc = "undo"
  /\ Attempt(at \in paths /\ job[at] # "remove",
             disk' = [disk EXCEPT ![at] = Nothing],
             UNCHANGED disk)
  /\ Goto("putback", at)
  /\ UNCHANGED <<temp, backup, command, used, job, staged, before, outcome,
                 newcomers>>

\* Mutant: the rollback deletes what is at every path of the transaction.
UndoEverything == UndoOnly(Paths)

Undo == UndoOnly(committed)

(* Move the old file back, over whatever is there now.                       *)
PutBackOnly(paths) ==
  /\ pc = "putback"
  /\ Attempt(at \in paths,
             /\ disk' = [disk EXCEPT ![at] = backup[at]]
             /\ backup' = [backup EXCEPT ![at] = Nothing],
             UNCHANGED <<disk, backup>>)
  /\ Goto("drop", at)
  /\ UNCHANGED <<temp, command, used, job, staged, before, outcome, newcomers>>

\* Mutant: the rollback restores only the files whose change was made.
PutBackCommitted == PutBackOnly(backedUp \cap committed)

PutBack == PutBackOnly(backedUp)

(* Delete the temporary file; after the first change the rollback is over.   *)
Drop ==
  /\ pc = "drop"
  /\ Attempt(TRUE, temp' = [temp EXCEPT ![at] = Nothing], UNCHANGED temp)
  /\ IF at > 1
     THEN Goto("undo", at - 1) /\ UNCHANGED outcome
     ELSE End(IF errors' THEN "unrestored" ELSE "restored")
  /\ UNCHANGED <<disk, backup, command, used, job, staged, before, newcomers>>

-----------------------------------------------------------------------------
(* After a commit the temporary file and the backup are deleted; an error    *)
(* leaves them, and leaves out the rest of this path's cleanup.              *)
NextCleanup ==
  IF at < Size THEN Goto("cleanTemp", at + 1) /\ UNCHANGED outcome
  ELSE End("done")

CleanTemp ==
  /\ pc = "cleanTemp"
  /\ \/ Fault /\ NextCleanup /\ UNCHANGED temp
     \/ /\ temp' = [temp EXCEPT ![at] = Nothing]
        /\ Goto("cleanBackup", at)
        /\ UNCHANGED <<outcome, faults>>
  /\ UNCHANGED <<disk, backup, command, used, job, staged, before, errors,
                 newcomers>>

CleanBackup ==
  /\ pc = "cleanBackup"
  /\ NextCleanup
  /\ \/ Fault /\ UNCHANGED backup
     \/ backup' = [backup EXCEPT ![at] = Nothing] /\ UNCHANGED faults
  /\ UNCHANGED <<disk, temp, command, used, job, staged, before, errors,
                 newcomers>>

(* The process dies between two calls; nobody cleans up.                     *)
Crash ==
  /\ pc # "idle"
  /\ Fault
  /\ End("crashed")
  /\ UNCHANGED <<files, command, used, job, staged, before, errors, newcomers>>

(* Another program creates a file.                                           *)
Appear(p) ==
  /\ newcomers < MaxNewcomers
  /\ disk[p] = Nothing
  /\ disk' = [disk EXCEPT ![p] = Newcomer]
  /\ newcomers' = newcomers + 1
  /\ UNCHANGED <<temp, backup, command, used, job, staged, before, pc, at,
                 errors, outcome, faults>>

Next ==
  \/ \E c \in Commands, changes \in Jobs : Start(c, changes)
  \/ Look \/ Preflight \/ Stage \/ BackUp \/ Publish
  \/ Undo \/ PutBack \/ Drop
  \/ CleanTemp \/ CleanBackup
  \/ Crash
  \/ \E p \in Paths : Appear(p)

Spec == Init /\ [][Next]_vars

-----------------------------------------------------------------------------
(* A change was made, or was not, at a path; where there is no file another  *)
(* program may have created one.                                             *)
Now(p, content) ==
  disk[p] = content \/ (content = Nothing /\ disk[p] = Newcomer)

Wanted(p) == IF job[p] = "remove" THEN Nothing ELSE command

(* A transaction that returns has made all of its changes; one that throws   *)
(* without saying that it could not be rolled back has made none, and has    *)
(* left no temporary file and no backup. This is what the commands tell the  *)
(* user when they say that existing files were restored.                     *)
AllOrNothing ==
  /\ outcome = "done" => \A p \in DOMAIN job : Now(p, Wanted(p))
  /\ outcome = "refused" => \A p \in DOMAIN job : Now(p, before[p])
  /\ outcome = "restored" => \A p \in DOMAIN job :
       /\ Now(p, before[p])
       /\ temp[p] = Nothing
       /\ backup[p] = Nothing

(* As long as the changes are not all made, whatever fails and whenever the  *)
(* process dies, in the rollback too, the old content of a path is at the    *)
(* path or in its backup.                                                    *)
Looked == IF pc = "look" THEN 1..(at - 1) ELSE DOMAIN job

AllMade == committed = DOMAIN job

OriginalsSurvive ==
  ~AllMade => \A p \in Looked :
                before[p] # Nothing => before[p] \in {disk[p], backup[p]}

(* A file that another program creates after the transaction looked, at a    *)
(* path where the command did not ask to replace one, is left alone by every *)
(* step, those of the rollback included.                                     *)
NewcomersStay ==
  [][\A p \in DOMAIN job :
       (disk[p] = Newcomer /\ p \notin existed /\ job[p] = "create")
         => disk'[p] = Newcomer]_vars
=============================================================================
