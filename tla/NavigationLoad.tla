---------------------------- MODULE NavigationLoad ----------------------------
(***************************************************************************)
(* Loading navigations: an explicit load() of one navigation, or the       *)
(* include(...) of a tracking query, asks for the related rows statement   *)
(* by statement, materializes them into the tracker and stitches both      *)
(* sides of the relationship, while the application goes on changing the   *)
(* same graph.  A load that fails takes back its graph writes, the tracker *)
(* facts it changed and the registrations it made, and nothing else; what  *)
(* it cannot take back safely poisons the context.                         *)
(*                                                                         *)
(* A note refers to a post (note.post, with a foreign key, and the inverse *)
(* post.notes); posts and tags are joined (post.tags, and tag.posts).      *)
(* Objects are numbered in the order they are created; several may stand   *)
(* for one row, but the tracker holds one entry a key.  No operation here  *)
(* suppresses change detection, so that flag is left out; and the batch    *)
(* that gathers the inverse collections of loaded references publishes     *)
(* what writing them one by one does.                                      *)
(***************************************************************************)
EXTENDS Naturals, FiniteSets, Sequences, SequencesExt

CONSTANTS
    Posts, Notes, Tags,   \* the keys of the rows
    Loads,                \* loads that may be under way together
    Trees,                \* the includes a query may ask for: [type, groups]
    Starts,               \* the rows, what the context holds at first, and a
                          \* setter that throws: [store, held, own, refuser]
    MaxEffort,            \* bound: loads begun, calls of the application, rows moved
    None, Nobody, NoEntry, Unloaded, Idle

NavsOf == [Post |-> {"notes", "tags"}, Note |-> {"post"}, Tag |-> {"posts"}]
TypeOf(key) == IF key \in Posts THEN "Post" ELSE IF key \in Notes THEN "Note" ELSE "Tag"

ASSUME StartsAssumption ==
    \A s \in Starts :
        /\ s.held \in Seq(Posts \cup Notes \cup Tags) /\ s.own \in Seq(Notes)
        /\ s.refuser.left \in Nat
        /\ s.refuser.key # None => s.refuser.nav \in NavsOf[TypeOf(s.refuser.key)]

VARIABLES
    object,    \* the objects: key, title, fk, navigation values, registrations so far
    entry,     \* the tracker's entry of each object, or NoEntry
    queue,     \* the queued links and unlinks
    store,     \* the rows: the foreign key of each note, and the joined pairs
    loads,     \* what each load is doing, or Idle
    refuser,   \* the accessor that refuses, and how many values it still takes
    poisoned,  \* some restoration failed
    mine,      \* history: the values that the application assigned to navigations
    claimed,   \* history: registrations the application made or has worked on
    effort     \* bound: what has been begun

vars == <<object, entry, queue, store, loads, refuser, poisoned, mine, claimed, effort>>

-----------------------------------------------------------------------------
(* The tracker, in a world w: the objects, the entries, the accessor that  *)
(* refuses, the load that acts and whether it has failed.                  *)

Ids == DOMAIN object
IsTracked(w, i) == w.entry[i] # NoEntry
Holders(w, key) == {i \in DOMAIN w.object : w.object[i].key = key /\ IsTracked(w, i)}

Created(key, fk) ==
    [key |-> key, title |-> 0, fk |-> fk, registrations |-> 0,
     nav |-> [n \in NavsOf[TypeOf(key)] |-> IF n = "post" THEN Nobody ELSE <<>>]]

\* track(): the values, and every navigation as it stands, are the baseline.
Entry(o, state) ==
    [serial |-> o.registrations + 1, state |-> state, title |-> o.title, fk |-> o.fk, base |-> o.nav,
     loaded |-> [n \in DOMAIN o.nav |-> Unloaded]]

Registered(w, i, state) ==
    [w EXCEPT !.entry[i] = Entry(w.object[i], state), !.object[i].registrations = @ + 1]

\* What captureOwnedEntryCheckpoint reads: the entry, and the live values.
Fingerprint(w, i) ==
    [entry |-> w.entry[i], title |-> w.object[i].title, fk |-> w.object[i].fk, nav |-> w.object[i].nav]

\* own(): recorded for the object, fingerprinted as registration leaves it.
Owned(w, i) ==
    [w EXCEPT !.load.owned = [x \in DOMAIN @ \cup {i} |-> IF x = i THEN Fingerprint(w, i) ELSE @[x]]]

\* A row becomes the object that the tracker has for its key, or a new one.
Materialized(w, key, owning) ==
    IF Holders(w, key) # {} THEN w
    ELSE LET i == Len(w.object) + 1
             fk == IF key \in Notes THEN store.fk[key] ELSE None
             fresh == Registered([w EXCEPT !.object = Append(@, Created(key, fk)),
                                           !.entry = Append(@, NoEntry)], i, "Unchanged")
         IN  IF owning THEN Owned(fresh, i) ELSE fresh

\* A root: the object with the values of its row, not those it has now.
Root(w, key, parent) ==
    [object |-> CHOOSE i \in Holders(w, key) : TRUE, key |-> key, parent |-> parent,
     fk |-> IF key \in Notes THEN store.fk[key] ELSE None]

-----------------------------------------------------------------------------
(* The journals of a load.  Once a write has failed nothing more is done.  *)

Refuses(w, i, n) == w.refuser.key = w.object[i].key /\ w.refuser.nav = n /\ w.refuser.left = 0

\* The accessor takes the value, and may have had enough then.
Assigned(w, i, n, value) ==
    [w EXCEPT !.object[i].nav[n] = value,
              !.refuser.left = IF w.refuser.key = w.object[i].key /\ w.refuser.nav = n THEN @ - 1 ELSE @]

\* NavigationWriteJournal.write: captured first, then assigned and verified.
Written(w, i, n, value) ==
    LET write == [object |-> i, nav |-> n, previous |-> w.object[i].nav[n], applied |-> value,
                  verified |-> ~Refuses(w, i, n)]
        recorded == [w EXCEPT !.load.journal = Append(@, write)]
    IN  IF w.failed THEN w
        ELSE IF Refuses(w, i, n) THEN [recorded EXCEPT !.failed = TRUE]
        ELSE Assigned(recorded, i, n, value)

\* touch(): the facts of this navigation, captured the first time only.
Touched(w, i, n) ==
    LET e == w.entry[i]
        Here(t) == t.object = i /\ t.nav = n /\ t.serial = e.serial
    IN  IF \E k \in DOMAIN w.load.touched : Here(w.load.touched[k]) THEN w
        ELSE [w EXCEPT !.load.touched = Append(@, [object |-> i, nav |-> n, serial |-> e.serial,
                                                   loaded |-> e.loaded[n], base |-> e.base[n]])]

Rebased(w, i, n) == [w EXCEPT !.entry[i].base[n] = w.object[i].nav[n]]

\* Mutant of MarkedLoaded: under the key that the entity has now.
MarksCurrentKey(w, i, n, key) ==
    IF w.failed \/ ~IsTracked(w, i) THEN w
    ELSE Rebased([Touched(w, i, n) EXCEPT !.entry[i].loaded[n] = w.object[i].fk], i, n)

\* markNavigationLoaded: a reference under the key of its row.
MarkedLoaded(w, i, n, key) ==
    IF w.failed \/ ~IsTracked(w, i) THEN w
    ELSE Rebased([Touched(w, i, n) EXCEPT !.entry[i].loaded[n] = key], i, n)

BaselineCaptured(w, i, n) ==
    IF w.failed \/ ~IsTracked(w, i) THEN w ELSE Rebased(Touched(w, i, n), i, n)

\* isLoaded: a reference counts as loaded for as long as the entity has the key
\* that it was loaded under, or when that was no key.
IsLoaded(w, i, n) ==
    /\ IsTracked(w, i) /\ w.entry[i].loaded[n] # Unloaded
    /\ w.entry[i].loaded[n] \in {None, w.object[i].fk}

\* A tracking include leaves alone what would erase unsaved work.
HasPendingIntent(w, i, n) ==
    /\ w.load.preserving /\ IsTracked(w, i)
    /\ \/ w.entry[i].base[n] # w.object[i].nav[n]
       \/ n = "post" /\ w.entry[i].fk # w.object[i].fk

-----------------------------------------------------------------------------
(* Stitching.                                                              *)

Without(s, i) == SelectSeq(s, LAMBDA x : x # i)
With(s, i) == IF i \in ToSet(s) THEN s ELSE Append(s, i)

LeftCollection(w, i, p) ==
    IF ~IsTracked(w, p) THEN w
    ELSE BaselineCaptured(Written(w, p, "notes", Without(w.object[p].nav["notes"], i)), p, "notes")

JoinedCollection(w, i, p) ==
    IF p = Nobody \/ ~IsTracked(w, p) THEN w
    ELSE BaselineCaptured(Written(w, p, "notes", With(w.object[p].nav["notes"], i)), p, "notes")

\* The posts the note leaves: the one it shows and the one it last agreed on.
PreviousPosts(w, i, p) ==
    LET current == w.object[i].nav["post"]
        base == w.entry[i].base["post"]
    IN  SelectSeq(IF current = base THEN <<current>> ELSE <<current, base>>,
                  LAMBDA q : q \notin {Nobody, p})

\* fixupLoadedReference: both sides of the reference, for a tracked note.
ReferenceFixed(w, i, p) ==
    LET left == FoldLeft(LAMBDA v, q : LeftCollection(v, i, q), w, PreviousPosts(w, i, p))
    IN  JoinedCollection(Written(left, i, "post", p), i, p)

\* What the statements of a task have brought for a root.
PostOf(task, root) ==
    LET found == SelectSeq(task.got, LAMBDA r : r.key = root.fk)
    IN  IF found = <<>> THEN Nobody ELSE Last(found).object

ReferenceIncluded(w, task, root) ==
    IF w.failed \/ HasPendingIntent(w, root.object, "post") THEN w
    ELSE LET p == PostOf(task, root)
             fixed == IF IsTracked(w, root.object) THEN ReferenceFixed(w, root.object, p)
                      ELSE Written(w, root.object, "post", p)
         IN  [MarkedLoaded(fixed, root.object, "post", root.fk) EXCEPT
                 !.next = @ \o SelectSeq(task.got, LAMBDA r : r.object = p)]

StitchedReferences(w, task) == FoldLeft(LAMBDA v, root : ReferenceIncluded(v, task, root), w, task.roots)

\* assignDependentsToPrincipals: a note of an open collection is given its
\* post, then every collection is written whole.
NoteAssigned(w, task, open, r) ==
    IF w.failed \/ r.fk \notin open \/ HasPendingIntent(w, r.object, "post") THEN w
    ELSE LET owner == Last(SelectSeq(task.roots, LAMBDA root : root.key = r.fk)).object
         IN  [MarkedLoaded(Written(w, r.object, "post", owner), r.object, "post", r.fk) EXCEPT
                 !.next = Append(@, r)]

Objects(rows) == FoldLeft(LAMBDA s, r : With(s, r.object), <<>>, rows)

CollectionWritten(w, root, n, items) ==
    IF w.failed \/ HasPendingIntent(w, root.object, n) THEN w
    ELSE MarkedLoaded(Written(w, root.object, n, items), root.object, n, None)

StitchedNotes(w, task) ==
    LET open == {root.key : root \in {x \in ToSet(task.roots) : ~HasPendingIntent(w, x.object, "notes")}}
        assigned == FoldLeft(LAMBDA v, r : NoteAssigned(v, task, open, r), w, task.got)
        NotesOf(v, root) == Objects(SelectSeq(v.next, LAMBDA r : r.fk = root.key))
    IN  FoldLeft(LAMBDA v, root : CollectionWritten(v, root, "notes", NotesOf(assigned, root)),
                 assigned, task.roots)

\* assignManyToManyRelated: the posts' collections, then each tag is merged
\* the posts that it was loaded for.
StitchedTags(w, task) ==
    LET open == SelectSeq(task.roots, LAMBDA root : ~HasPendingIntent(w, root.object, "tags"))
        TagsOf(root) == Objects(SelectSeq(task.got, LAMBDA r : r.parent = root.key))
        written == FoldLeft(LAMBDA v, root : CollectionWritten(v, root, "tags", TagsOf(root)), w, open)
        PostsOf(t) == Objects(SelectSeq(open, LAMBDA root : t \in ToSet(TagsOf(root))))
        related == SelectSeq(Objects(task.got), LAMBDA t : PostsOf(t) # <<>>)
        Merged(v, t) ==
            IF HasPendingIntent(v, t, "posts") THEN v
            ELSE Written(v, t, "posts", FoldLeft(With, v.object[t].nav["posts"], PostsOf(t)))
    IN  [FoldLeft(Merged, written, related) EXCEPT
            !.next = SelectSeq(task.got, LAMBDA r : PostsOf(r.object) # <<>>)]

Stitched(w, task) ==
    CASE task.nav = "post"  -> StitchedReferences(w, task)
      [] task.nav = "notes" -> StitchedNotes(w, task)
      [] task.nav = "tags"  -> StitchedTags(w, task)

-----------------------------------------------------------------------------
(* The course of a load: one task after another, the nested includes of a  *)
(* task before its siblings, one key a statement.                          *)

UniqueRoots(rows) ==
    FoldLeft(LAMBDA s, r : IF \E k \in DOMAIN s : s[k].object = r.object THEN s ELSE Append(s, r), <<>>, rows)

KeysToAsk(nav, roots) ==
    LET keys == [k \in DOMAIN roots |-> IF nav = "post" THEN roots[k].fk ELSE roots[k].key]
    IN  FoldLeft(With, <<>>, SelectSeq(keys, LAMBDA k : k # None))

Tasks(groups, roots) ==
    IF roots = <<>> THEN <<>>
    ELSE [g \in DOMAIN groups |->
            [nav |-> groups[g].nav, children |-> groups[g].children, roots |-> roots,
             left |-> KeysToAsk(groups[g].nav, roots), got |-> <<>>]]

\* The rows that a statement finds for one key.
RowsFor(nav, key) ==
    CASE nav = "post"  -> <<key>>
      [] nav = "notes" -> SetToSeq({n \in Notes : store.fk[n] = key})
      [] nav = "tags"  -> SetToSeq({t \in Tags : <<key, t>> \in store.links})

World(l) == [object |-> object, entry |-> entry, refuser |-> refuser, load |-> loads[l],
             failed |-> FALSE, next |-> <<>>]

\* What is known of one navigation, and of an object besides.
NavigationFacts(o, e, i, n) == <<o[i].nav[n], IF e[i] = NoEntry THEN None ELSE <<e[i].base[n], e[i].loaded[n]>>>>
EntryFacts(o, e, i) ==
    <<o[i].title, o[i].fk, o[i].registrations, IF e[i] = NoEntry THEN None ELSE e[i].state>>

Changed(w) ==
    UNION {{<<i, n>> : n \in {m \in DOMAIN w.object[i].nav : i \notin Ids
                                  \/ NavigationFacts(object, entry, i, m) # NavigationFacts(w.object, w.entry, i, m)}}
           : i \in DOMAIN w.object}
    \cup {<<i, "entry">> : i \in {j \in DOMAIN w.object : j \notin Ids
                                    \/ EntryFacts(object, entry, j) # EntryFacts(w.object, w.entry, j)}}

\* The world becomes w; the other loads under way have seen it change.
Becomes(w, actor) ==
    /\ object' = w.object /\ entry' = w.entry /\ refuser' = w.refuser
    /\ loads' = [l \in Loads |-> IF l = actor THEN w.load
                                 ELSE IF loads[l] = Idle THEN Idle
                                 ELSE [loads[l] EXCEPT !.foreign = @ \cup Changed(w)]]

Begun(w, preserving, tasks) ==
    [w EXCEPT !.load = [preserving |-> preserving, tasks |-> tasks, failing |-> FALSE,
                        journal |-> <<>>, touched |-> <<>>, owned |-> <<>>,
                        before |-> [object |-> w.object, entry |-> w.entry], foreign |-> {}]]

Costs == ~poisoned /\ effort < MaxEffort /\ effort' = effort + 1

IsNextLoad(l) == loads[l] = Idle /\ l = CHOOSE k \in Loads : loads[k] = Idle

\* load() of one navigation: the values of the entry are captured now, the
\* foreign key as it stands and the key as it was.
BeginExplicit(l, i, n) ==
    /\ Costs /\ IsNextLoad(l)
    /\ n \in DOMAIN object[i].nav \ {"posts"} /\ entry[i] # NoEntry
    /\ LET root == [object |-> i, key |-> object[i].key, parent |-> None, fk |-> object[i].fk]
       IN  Becomes(Begun(World(l), FALSE, Tasks(<<[nav |-> n, children |-> <<>>]>>, <<root>>)), l)
    /\ UNCHANGED <<queue, store, poisoned, mine, claimed>>

RowsOf(type) == SetToSeq(CASE type = "Post" -> Posts [] type = "Note" -> Notes)

\* A tracking query with includes has its rows: they are materialized before
\* the include begins, and are not its own.
BeginInclude(l, tree) ==
    /\ Costs /\ IsNextLoad(l)
    /\ LET rows == RowsOf(tree.type)
           w == FoldLeft(LAMBDA v, key : Materialized(v, key, FALSE), World(l), rows)
       IN  Becomes(Begun(w, TRUE, Tasks(tree.groups, [k \in DOMAIN rows |-> Root(w, rows[k], None)])), l)
    /\ UNCHANGED <<queue, store, poisoned, mine, claimed>>

IsUnderWay(l) == ~poisoned /\ loads[l] # Idle /\ ~loads[l].failing

\* The rows of one key arrive and are materialized.
Answer(l) ==
    /\ IsUnderWay(l) /\ Head(loads[l].tasks).left # <<>>
    /\ LET task == Head(loads[l].tasks)
           key == Head(task.left)
           rows == RowsFor(task.nav, key)
           w == FoldLeft(LAMBDA v, row : Materialized(v, row, TRUE), World(l), rows)
           got == [k \in DOMAIN rows |-> Root(w, rows[k], key)]
       IN  Becomes([w EXCEPT !.load.tasks[1].left = Tail(@), !.load.tasks[1].got = @ \o got], l)
    /\ UNCHANGED <<queue, store, poisoned, mine, claimed, effort>>

\* The statement fails.
FailQuery(l) ==
    /\ IsUnderWay(l) /\ Head(loads[l].tasks).left # <<>>
    /\ loads' = [loads EXCEPT ![l].failing = TRUE]
    /\ UNCHANGED <<object, entry, queue, store, refuser, poisoned, mine, claimed, effort>>

\* Every row of the task is there: the graph is written, and what was included
\* goes on to its own includes.
Stitch(l) ==
    /\ IsUnderWay(l) /\ Head(loads[l].tasks).left = <<>>
    /\ LET task == Head(loads[l].tasks)
           w == Stitched(World(l), task)
           tasks == Tasks(task.children, UniqueRoots(w.next)) \o Tail(loads[l].tasks)
       IN  Becomes([w EXCEPT !.load = IF w.failed THEN [@ EXCEPT !.failing = TRUE]
                                      ELSE IF tasks = <<>> THEN Idle
                                      ELSE [@ EXCEPT !.tasks = tasks]], l)
    /\ UNCHANGED <<queue, store, poisoned, mine, claimed, effort>>

-----------------------------------------------------------------------------
(* Taking a failed load back.                                              *)

\* Mutant of Unwound: whatever the navigation shows by now.
UnwoundWhatever(w, write) ==
    IF ~Refuses(w, write.object, write.nav) THEN Assigned(w, write.object, write.nav, write.previous)
    ELSE [w EXCEPT !.failed = @ \/ w.object[write.object].nav[write.nav] # write.previous]

\* A write is undone unless the navigation has moved on since; an accessor
\* that refuses is forgiven when there is nothing to undo.
Unwound(w, write) ==
    LET live == w.object[write.object].nav[write.nav]
    IN  IF write.verified /\ live # write.applied THEN [w EXCEPT !.failed = TRUE]
        ELSE IF ~Refuses(w, write.object, write.nav)
        THEN Assigned(w, write.object, write.nav, write.previous)
        ELSE [w EXCEPT !.failed = @ \/ live # write.previous]

FactsRestored(w, t) ==
    IF ~IsTracked(w, t.object) \/ w.entry[t.object].serial # t.serial THEN w
    ELSE [w EXCEPT !.entry[t.object].loaded[t.nav] = t.loaded, !.entry[t.object].base[t.nav] = t.base]

IsQueued(i) == \E q \in queue : i \in {q.post, q.tag}

\* Mutant of OwnedDetached: the queue is not asked.
OwnedDetachedThoughQueued(w, i) ==
    LET own == w.load.owned[i]
    IN  IF ~IsTracked(w, i) \/ w.entry[i].serial # own.entry.serial THEN w
        ELSE IF Fingerprint(w, i) # own THEN [w EXCEPT !.failed = TRUE]
        ELSE [w EXCEPT !.entry[i] = NoEntry]

\* detachOwnedRegistrations: somebody else's registration is left alone, and
\* one that anybody has worked on is not detached.
OwnedDetached(w, i) ==
    LET own == w.load.owned[i]
    IN  IF ~IsTracked(w, i) \/ w.entry[i].serial # own.entry.serial THEN w
        ELSE IF IsQueued(i) \/ Fingerprint(w, i) # own THEN [w EXCEPT !.failed = TRUE]
        ELSE [w EXCEPT !.entry[i] = NoEntry]

RolledBack(w) ==
    LET unwound == FoldLeft(Unwound, w, Reverse(w.load.journal))
        restored == FoldLeft(FactsRestored, unwound, w.load.touched)
    IN  FoldLeft(OwnedDetached, restored, SetToSeq(DOMAIN w.load.owned))

\* The failure has reached the boundary of the operation.
Rollback(l) ==
    /\ ~poisoned /\ loads[l] # Idle /\ loads[l].failing
    /\ LET w == RolledBack(World(l))
       IN  /\ Becomes([w EXCEPT !.load = Idle], l)
           /\ poisoned' = w.failed
    /\ UNCHANGED <<queue, store, mine, claimed, effort>>

-----------------------------------------------------------------------------
(* The application.                                                        *)

Here == [object |-> object, entry |-> entry, refuser |-> refuser]

\* attach() of an object that is not tracked, if its key is not taken.
Attach(i) ==
    /\ Costs /\ entry[i] = NoEntry /\ Holders(Here, object[i].key) = {}
    /\ Becomes(Registered(Here, i, "Unchanged"), Nobody)
    /\ claimed' = claimed \cup {<<i, object'[i].registrations>>}
    /\ UNCHANGED <<queue, store, poisoned, mine>>

\* detach(): queued work on the object goes with it.
Detach(i) ==
    /\ Costs /\ entry[i] # NoEntry
    /\ Becomes([Here EXCEPT !.entry[i] = NoEntry], Nobody)
    /\ queue' = {q \in queue : i \notin {q.post, q.tag}}
    /\ claimed' = {c \in claimed : c[1] # i}
    /\ UNCHANGED <<store, poisoned, mine>>

\* remove(): tracked first when it is not.
RemoveEntity(i) ==
    /\ Costs
    /\ entry[i] = NoEntry => Holders(Here, object[i].key) = {}
    /\ LET w == IF entry[i] = NoEntry THEN Registered(Here, i, "Deleted") ELSE [Here EXCEPT !.entry[i].state = "Deleted"]
       IN  Becomes(w, Nobody)
    /\ claimed' = claimed \cup {<<i, object'[i].registrations>>}
    /\ UNCHANGED <<queue, store, poisoned, mine>>

\* The application edits a mapped property, or the foreign key.
EditTitle(i) ==
    /\ Costs /\ entry[i] # NoEntry /\ object[i].title = 0
    /\ Becomes([Here EXCEPT !.object[i].title = 1], Nobody)
    /\ claimed' = claimed \cup {<<i, object[i].registrations>>}
    /\ UNCHANGED <<queue, store, poisoned, mine>>

EditForeignKey(i, key) ==
    /\ Costs /\ entry[i] # NoEntry /\ object[i].key \in Notes /\ object[i].fk # key
    /\ Becomes([Here EXCEPT !.object[i].fk = key], Nobody)
    /\ UNCHANGED <<queue, store, poisoned, mine, claimed>>

\* An assignment of the application's own.
Assign(i, n, value) ==
    /\ Costs /\ ~Refuses(Here, i, n) /\ value # object[i].nav[n]
    /\ Becomes(Assigned(Here, i, n, value), Nobody)
    /\ mine' = mine \cup {<<i, n, value>>}
    /\ UNCHANGED <<queue, store, poisoned, claimed>>

AssignPost(i, p) == object[i].key \in Notes /\ Assign(i, "post", p)

AssignNotes(p, i) ==
    LET notes == object[p].nav["notes"]
    IN  /\ object[p].key \in Posts /\ object[i].key \in Notes
        /\ Assign(p, "notes", IF i \in ToSet(notes) THEN Without(notes, i) ELSE Append(notes, i))

\* link() and unlink(): the change is queued, then the collection is written;
\* a collection that refuses cancels the change.
Queued(action, p, t, value) ==
    /\ Costs /\ object[p].key \in Posts /\ object[t].key \in Tags
    /\ entry[p] # NoEntry /\ entry[t] # NoEntry
    /\ ~Refuses(Here, p, "tags")
    /\ queue' = queue \cup {[action |-> action, post |-> p, tag |-> t]}
    /\ Becomes(Assigned(Here, p, "tags", value), Nobody)
    /\ mine' = IF value = object[p].nav["tags"] THEN mine ELSE mine \cup {<<p, "tags", value>>}
    /\ UNCHANGED <<store, poisoned, claimed>>

Link(p, t) == Queued("link", p, t, With(object[p].nav["tags"], t))
Unlink(p, t) == Queued("unlink", p, t, Without(object[p].nav["tags"], t))

\* acceptAllChanges(): the values are the new baseline, deletions leave, and
\* the queue is cleared; the navigations' baselines stay.
AcceptAll ==
    /\ Costs
    /\ LET Accepted(i) ==
               IF entry[i] = NoEntry \/ entry[i].state = "Deleted" THEN NoEntry
               ELSE [entry[i] EXCEPT !.state = "Unchanged", !.title = object[i].title, !.fk = object[i].fk]
           w == [Here EXCEPT !.entry = [i \in Ids |-> Accepted(i)]]
       IN  /\ Becomes(w, Nobody)
           /\ claimed' = {c \in claimed : w.entry[c[1]] # NoEntry}
    /\ queue' = {}
    /\ UNCHANGED <<store, poisoned, mine>>

\* Another client moves a note, or joins a tag to a post or parts them.
RowMoves(note, key) ==
    /\ Costs /\ store.fk[note] # key /\ store' = [store EXCEPT !.fk[note] = key]
    /\ UNCHANGED <<object, entry, queue, loads, refuser, poisoned, mine, claimed>>

-----------------------------------------------------------------------------

Init ==
    /\ \E s \in Starts :
          LET w == FoldLeft(LAMBDA v, key : Materialized(v, key, FALSE),
                            [object |-> [k \in DOMAIN s.own |-> Created(s.own[k], None)],
                             entry |-> [k \in DOMAIN s.own |-> NoEntry]], s.held)
          IN  store = s.store /\ object = w.object /\ entry = w.entry /\ refuser = s.refuser
    /\ queue = {} /\ loads = [l \in Loads |-> Idle]
    /\ poisoned = FALSE /\ mine = {} /\ claimed = {} /\ effort = 0

LoadStep(l) ==
    \/ \E i \in Ids : \E n \in DOMAIN object[i].nav : BeginExplicit(l, i, n)
    \/ \E tree \in Trees : BeginInclude(l, tree)
    \/ Answer(l) \/ FailQuery(l) \/ Stitch(l) \/ Rollback(l)

ApplicationStep ==
    \/ \E i \in Ids :
          \/ Attach(i) \/ Detach(i) \/ RemoveEntity(i) \/ EditTitle(i)
          \/ \E key \in Posts : EditForeignKey(i, key)
          \/ \E p \in {Nobody} \cup {j \in Ids : object[j].key \in Posts} : AssignPost(i, p)
          \/ \E j \in Ids : AssignNotes(i, j) \/ Link(i, j) \/ Unlink(i, j)
    \/ AcceptAll

Next ==
    \/ \E l \in Loads : LoadStep(l)
    \/ ApplicationStep
    \/ \E note \in Notes, key \in Posts : RowMoves(note, key)

Spec == Init /\ [][Next]_vars

-----------------------------------------------------------------------------
(* Properties.                                                             *)

RollsBack(l) == loads[l] # Idle /\ loads[l].failing /\ loads'[l] = Idle

\* What a load wrote to a navigation, each value in its turn.
Published(l, i, n) ==
    LET journal == loads[l].journal
    IN  {journal[k].applied : k \in {j \in DOMAIN journal : journal[j].object = i /\ journal[j].nav = n}}

LeavesNoTrace(l) ==
    LET before == loads[l].before
        Same(i, n) == NavigationFacts(before.object, before.entry, i, n) = NavigationFacts(object', entry', i, n)
        SameEntry(i) == EntryFacts(before.object, before.entry, i) = EntryFacts(object', entry', i)
    IN  /\ \A i \in DOMAIN before.object :
              /\ \A n \in DOMAIN object[i].nav : <<i, n>> \in loads[l].foreign \/ Same(i, n)
              /\ <<i, "entry">> \in loads[l].foreign \/ SameEntry(i)
        /\ \A i \in Ids \ DOMAIN before.object : entry'[i] = NoEntry \/ <<i, "entry">> \in loads[l].foreign

LeavesWork(l) ==
    \A m \in mine : object[m[1]].nav[m[2]] = m[3] =>
        object'[m[1]].nav[m[2]] = m[3] \/ m[3] \in Published(l, m[1], m[2])

\* A failed load takes back exactly what it did.  Where the context stays
\* usable, every value, baseline, loaded flag and registration that only this
\* load has touched is as it was when the load began; and, usable or not, a
\* navigation that shows what the application assigned still shows it, unless
\* that is a value this very load has published.
RollbackIsExact ==
    [][\A l \in Loads : RollsBack(l) => (poisoned' \/ LeavesNoTrace(l)) /\ LeavesWork(l)]_vars

\* Nobody loses an entity it works on to somebody else's failure: what the
\* application attached, removed or edited stays tracked under the very
\* registration it did that to, what a queued link joins stays tracked, and a
\* key never has two entries.
ClaimsStand ==
    /\ DOMAIN entry = Ids /\ poisoned \in BOOLEAN /\ effort \in 0..MaxEffort
    /\ \A key \in Posts \cup Notes \cup Tags : Cardinality(Holders(Here, key)) <= 1
    /\ \A c \in claimed : IsTracked(Here, c[1]) /\ entry[c[1]].serial = c[2]
    /\ \A q \in queue : IsTracked(Here, q.post) /\ IsTracked(Here, q.tag)

\* A reference that counts as loaded is the one its foreign key names: whatever
\* the application did to the key or the row while the load was under way, a
\* loaded reference that shows an entity shows the one of the current key,
\* unless the application assigned it itself.
LoadedReferencesMatchTheirKey ==
    ~poisoned /\ (\A l \in Loads : loads[l] # Idle => ~loads[l].failing) => \A i \in Ids :
        LET post == object[i].nav["post"]
        IN  (/\ object[i].key \in Notes /\ IsLoaded(Here, i, "post")
             /\ post # Nobody /\ <<i, "post", post>> \notin mine)
            => object[post].key = object[i].fk

=============================================================================
