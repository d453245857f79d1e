------------------------------ MODULE ModelDiff ------------------------------
(***************************************************************************)
(* What a migration does to the database: the difference of two model      *)
(* snapshots as a list of operations (diffModelSnapshots), the order they  *)
(* are run in, the folding of foreign keys into created tables and the     *)
(* table rebuilds of a provider that cannot alter constraints, run up and  *)
(* then down again, one statement a step, against a small database.        *)
(*                                                                         *)
(* Names are tuples: <<"ix", table, column>> is a conventional name and    *)
(* <<"named", n>> a configured one, which is all the differ can tell       *)
(* apart.  A column definition (type, nullability, default, collation and  *)
(* generation) is one value; keys, indexes and foreign keys have one       *)
(* column.  Schema names are left out: a table is its name.                *)
(***************************************************************************)
EXTENDS Naturals, FiniteSets, Sequences, SequencesExt

CONSTANTS
    Jobs,        \* records [case, mode]: what is migrated, and how
    NoName,      \* a name that is not configured
    Computed     \* the definition of a generated column

\* A case is two snapshots and rename hints.  A mode is a form, the migration a
\* running program derives, the source a scaffold writes or the script that
\* creates a schema from nothing, and the kind of provider.
Modes == [form : {"runtime", "source", "script"}, provider : {"altering", "rebuilding"}]

NoSnapshot == [entities |-> <<>>, sequences |-> <<>>]

ASSUME JobsAssumption ==
    \A j \in Jobs :
        /\ j.mode \in Modes
        /\ j.mode.form = "script" => j.case.from = NoSnapshot

VARIABLES
    job,         \* one of Jobs
    direction,   \* "up" or "down"
    pending,     \* the statements still to run
    db,          \* the database: tables, indexes and sequences
    found        \* the database as the migration found it

vars == <<job, direction, pending, db, found>>

-----------------------------------------------------------------------------
(* Snapshots.                                                              *)

Map(Op(_), s) == [i \in DOMAIN s |-> Op(s[i])]
Picked(s, Test(_)) == s[CHOOSE i \in DOMAIN s : Test(s[i]) /\ \A j \in 1..(i - 1) : ~Test(s[j])]
Has(s, Test(_)) == \E i \in DOMAIN s : Test(s[i])
Emitted(s, Test(_), Op(_)) == Map(Op, SelectSeq(s, Test))
Chosen(a, b) == IF a # NoName THEN a ELSE b
Swapped(name, old, new) == IF name = old THEN new ELSE name

HasTable(m, t) == Has(m.entities, LAMBDA e : e.tableName = t)
EntityAt(m, t) == Picked(m.entities, LAMBDA e : e.tableName = t)
EntityNamed(m, n) == Picked(m.entities, LAMBDA e : e.entityName = n)

PropertyNamed(e, p) == Picked(e.properties, LAMBDA q : q.propertyName = p)
HasColumn(e, c) == Has(e.properties, LAMBDA q : q.columnName = c)
PropertyAt(e, c) == Picked(e.properties, LAMBDA q : q.columnName = c)
PropertyColumn(e, p) == PropertyNamed(e, p).columnName

ToColumn(q) == [name |-> q.columnName, type |-> q.type]

IndexName(e, ix) ==
    Chosen(ix.databaseName,
           <<IF ix.isUnique THEN "ux" ELSE "ix", e.tableName, PropertyColumn(e, ix.property)>>)

ForeignKey(m, e, r) ==
    LET principal == EntityNamed(m, r.principal)
        column == PropertyColumn(e, r.property)
    IN  [name |-> Chosen(r.constraintName, <<"fk", e.tableName, principal.tableName, column>>),
         column |-> column,
         principalTable |-> principal.tableName,
         principalColumn |-> PropertyColumn(principal,
                                 Chosen(r.principalProperty, principal.keyProperty)),
         onDelete |-> r.onDelete]

-----------------------------------------------------------------------------
(* Operations.                                                             *)

Columns(e) == Map(ToColumn, e.properties)

CreateTable(e) ==
    [kind |-> "createTable", tableName |-> e.tableName, columns |-> Columns(e),
     checks |-> e.checks, foreignKeys |-> <<>>]
DropTable(e) == [CreateTable(e) EXCEPT !.kind = "dropTable"]

ColumnOperation(kind, e, column) == [kind |-> kind, tableName |-> e.tableName, column |-> column]

AlterColumn(e, old, new) ==
    [kind |-> "alterColumn", tableName |-> e.tableName,
     oldName |-> IF old.name = new.name THEN NoName ELSE old.name,
     name |-> new.name, oldType |-> old.type, type |-> new.type]

IndexOperation(kind, e, ix) ==
    [kind |-> kind, tableName |-> e.tableName, name |-> IndexName(e, ix),
     column |-> PropertyColumn(e, ix.property), unique |-> ix.isUnique]

ForeignKeyOperation(kind, m, e, r) ==
    [kind |-> kind, tableName |-> e.tableName, key |-> ForeignKey(m, e, r)]

CheckOperation(kind, e, check) == [kind |-> kind, tableName |-> e.tableName, check |-> check]

JoinSide(table, e, column, configured) ==
    [name |-> Chosen(configured, <<"fk", table, e.tableName, column>>), column |-> column,
     principalTable |-> e.tableName, principalColumn |-> PropertyColumn(e, e.keyProperty),
     onDelete |-> "cascade"]

JoinTable(m, e, j) ==
    LET target == EntityNamed(m, j.target)
    IN  [kind |-> "createJoinTable", tableName |-> j.joinTable,
         columns |-> <<[name |-> j.sourceColumn, type |-> PropertyNamed(e, e.keyProperty).type],
                       [name |-> j.targetColumn, type |-> PropertyNamed(target, target.keyProperty).type]>>,
         checks |-> <<>>,
         foreignKeys |-> <<JoinSide(j.joinTable, e, j.sourceColumn, j.sourceName),
                           JoinSide(j.joinTable, target, j.targetColumn, j.targetName)>>]

\* Both ends of a relationship describe the table: the first one counts.
JoinTables(m) ==
    LET described == FlattenSeq(Map(LAMBDA e : Map(LAMBDA j : JoinTable(m, e, j), e.joins), m.entities))
    IN  FoldLeft(LAMBDA known, t : IF Has(known, LAMBDA k : k.tableName = t.tableName)
                                   THEN known ELSE Append(known, t),
                 <<>>, described)

-----------------------------------------------------------------------------
(* Rename hints: the old snapshot is rewritten to the new names, and only  *)
(* then compared.                                                          *)

RenamedEntity(e, old, new) ==
    [(IF e = old THEN [e EXCEPT !.entityName = new.entityName, !.tableName = new.tableName] ELSE e)
        EXCEPT !.relationships =
                   Map(LAMBDA r : [r EXCEPT !.principal = Swapped(@, old.entityName, new.entityName)], @),
               !.joins =
                   Map(LAMBDA j : [j EXCEPT !.target = Swapped(@, old.entityName, new.entityName)], @)]

RenameTableHint(to, work, hint) ==
    IF ~HasTable(work.snapshot, hint.from) \/ ~HasTable(to, hint.to) THEN work
    ELSE LET old == EntityAt(work.snapshot, hint.from)
             new == EntityAt(to, hint.to)
         IN  [snapshot |-> [work.snapshot EXCEPT !.entities =
                                Map(LAMBDA e : RenamedEntity(e, old, new), @)],
              operations |-> Append(work.operations,
                  [kind |-> "renameTable", tableName |-> hint.from, newTableName |-> hint.to,
                   entityName |-> new.entityName])]

\* renameSnapshotProperty: an index keeps the name the database knows it by.
RenamedProperty(e, owner, old, new) ==
    LET from == old.propertyName
        target == new.propertyName
        owned == IF e # owner THEN e
                 ELSE [e EXCEPT
                         !.keyProperty = Swapped(@, from, target),
                         !.properties = Map(LAMBDA q : IF q = old
                                                       THEN [q EXCEPT !.columnName = new.columnName,
                                                                      !.propertyName = target]
                                                       ELSE q, @),
                         !.indexes = Map(LAMBDA ix : IF ix.property = from
                                                     THEN [ix EXCEPT !.databaseName = IndexName(e, ix),
                                                                     !.property = target]
                                                     ELSE ix, @)]
    IN  [owned EXCEPT !.relationships =
            Map(LAMBDA r : [r EXCEPT
                    !.property = IF e = owner THEN Swapped(@, from, target) ELSE @,
                    !.principalProperty = IF r.principal = owner.entityName
                                          THEN Swapped(@, from, target) ELSE @], @)]

RenameColumnHint(to, work, hint) ==
    LET known == /\ HasTable(work.snapshot, hint.tableName)
                 /\ HasColumn(EntityAt(work.snapshot, hint.tableName), hint.from)
                 /\ HasTable(to, hint.tableName)
                 /\ HasColumn(EntityAt(to, hint.tableName), hint.to)
    IN  IF ~known THEN work
        ELSE LET owner == EntityAt(work.snapshot, hint.tableName)
                 old == PropertyAt(owner, hint.from)
                 new == PropertyAt(EntityAt(to, hint.tableName), hint.to)
             IN  [snapshot |-> [work.snapshot EXCEPT !.entities =
                                    Map(LAMBDA e : RenamedProperty(e, owner, old, new), @)],
                  operations |-> Append(work.operations,
                      AlterColumn(owner, ToColumn(old), [ToColumn(old) EXCEPT !.name = hint.to]))]

ApplyRenameHints(from, to, hints) ==
    LET renamed == FoldLeft(LAMBDA work, h : RenameTableHint(to, work, h),
                            [snapshot |-> from, operations |-> <<>>], hints.tables)
    IN  FoldLeft(LAMBDA work, h : RenameColumnHint(to, work, h), renamed, hints.columns)

-----------------------------------------------------------------------------
(* The detectors, one per facet of an entity present in both snapshots.    *)

DiffColumns(old, new) ==
    FlattenSeq(Map(LAMBDA q :
            IF ~HasColumn(old, q.columnName) THEN <<ColumnOperation("addColumn", new, ToColumn(q))>>
            ELSE LET before == ToColumn(PropertyAt(old, q.columnName))
                 IN  IF before = ToColumn(q) THEN <<>> ELSE <<AlterColumn(new, before, ToColumn(q))>>,
        new.properties))
    \o Emitted(old.properties, LAMBDA q : ~HasColumn(new, q.columnName),
               LAMBDA q : ColumnOperation("dropColumn", old, ToColumn(q)))

IndexKey(e, ix) == <<e.tableName, IndexName(e, ix), ix.isUnique, PropertyColumn(e, ix.property)>>

DiffIndexes(old, new) ==
    Emitted(old.indexes, LAMBDA ix : ~Has(new.indexes, LAMBDA n : IndexKey(new, n) = IndexKey(old, ix)),
            LAMBDA ix : IndexOperation("dropIndex", old, ix))
    \o Emitted(new.indexes, LAMBDA ix : ~Has(old.indexes, LAMBDA o : IndexKey(old, o) = IndexKey(new, ix)),
               LAMBDA ix : IndexOperation("createIndex", new, ix))

DiffForeignKeys(from, to, old, new) ==
    Emitted(old.relationships,
            LAMBDA r : ~Has(new.relationships, LAMBDA n : ForeignKey(to, new, n) = ForeignKey(from, old, r)),
            LAMBDA r : ForeignKeyOperation("dropForeignKey", from, old, r))
    \o Emitted(new.relationships,
               LAMBDA r : ~Has(old.relationships, LAMBDA o : ForeignKey(from, old, o) = ForeignKey(to, new, r)),
               LAMBDA r : ForeignKeyOperation("addForeignKey", to, new, r))

DiffChecks(old, new) ==
    Emitted(old.checks, LAMBDA k : ~Has(new.checks, LAMBDA n : n = k),
            LAMBDA k : CheckOperation("dropCheckConstraint", old, k))
    \o Emitted(new.checks, LAMBDA k : ~Has(old.checks, LAMBDA o : o = k),
               LAMBDA k : CheckOperation("addCheckConstraint", new, k))

DiffSequences(from, to) ==
    LET Known(m, q) == Has(m.sequences, LAMBDA o : o.name = q.name)
        Previous(q) == Picked(from.sequences, LAMBDA o : o.name = q.name)
    IN  Emitted(from.sequences, LAMBDA q : ~Known(to, q),
                LAMBDA q : [kind |-> "dropSequence", sequence |-> q])
        \o Emitted(to.sequences, LAMBDA q : ~Known(from, q),
                   LAMBDA q : [kind |-> "createSequence", sequence |-> q])
        \o Emitted(to.sequences, LAMBDA q : Known(from, q) /\ Previous(q) # q,
                   LAMBDA q : [kind |-> "alterSequence", sequence |-> q, previous |-> Previous(q)])

DiffJoinTables(from, to) ==
    LET old == JoinTables(from)
        new == JoinTables(to)
    IN  Emitted(old, LAMBDA j : ~Has(new, LAMBDA n : n = j), LAMBDA j : [j EXCEPT !.kind = "dropJoinTable"])
        \o SelectSeq(new, LAMBDA j : ~Has(old, LAMBDA o : o = j))

Phase == [dropForeignKey |-> 0, dropCheckConstraint |-> 1, dropJoinTable |-> 2, dropIndex |-> 3,
          renameTable |-> 4, createSequence |-> 5, alterSequence |-> 6, createTable |-> 7,
          addColumn |-> 8, alterColumn |-> 9, dropColumn |-> 10, createIndex |-> 11,
          createJoinTable |-> 12, addCheckConstraint |-> 13, addForeignKey |-> 14,
          rebuildTable |-> 14, dropTable |-> 15, dropSequence |-> 16]

\* Mutant: the operations stay in the order in which they were found.
AsFound(ops) == ops

OrderByPhase(ops) ==
    FlattenSeq([p \in 1..17 |-> SelectSeq(ops, LAMBDA op : Phase[op.kind] = p - 1)])

\* A view, and a mapping that changes between a view and a table, is left to
\* explicit SQL.
BuildDiff(from, to) ==
    LET Compared(e) ==
            IF ~HasTable(from, e.tableName)
            THEN <<CreateTable(e)>>
                 \o Map(LAMBDA ix : IndexOperation("createIndex", e, ix), e.indexes)
                 \o Map(LAMBDA r : ForeignKeyOperation("addForeignKey", to, e, r), e.relationships)
            ELSE LET old == EntityAt(from, e.tableName)
                 IN  IF old.isView THEN <<>>
                     ELSE DiffColumns(old, e) \o DiffIndexes(old, e)
                          \o DiffForeignKeys(from, to, old, e) \o DiffChecks(old, e)
        Removed(e) ==
            IF HasTable(to, e.tableName) THEN <<>>
            ELSE Map(LAMBDA r : ForeignKeyOperation("dropForeignKey", from, e, r), e.relationships)
                 \o Map(LAMBDA ix : IndexOperation("dropIndex", e, ix), e.indexes)
                 \o <<DropTable(e)>>
        Tables(m) == SelectSeq(m.entities, LAMBDA e : ~e.isView)
    IN  OrderByPhase(DiffSequences(from, to)
                     \o FlattenSeq(Map(Compared, Tables(to)))
                     \o FlattenSeq(Map(Removed, Tables(from)))
                     \o DiffJoinTables(from, to))

IsRename(op) == op.kind = "renameTable" \/ (op.kind = "alterColumn" /\ op.oldName # NoName)

\* A join table that is replaced beside a rename is dropped before it, as the
\* old snapshot describes it.
PrepareJoinTableRollback(ops, from) ==
    IF ~Has(ops, IsRename) THEN ops
    ELSE LET Original(op) == [Picked(JoinTables(from), LAMBDA j : j.tableName = op.tableName)
                                 EXCEPT !.kind = "dropJoinTable"]
         IN  Emitted(ops, LAMBDA op : op.kind = "dropJoinTable", Original)
             \o SelectSeq(ops, LAMBDA op : op.kind # "dropJoinTable")

DiffModelSnapshots(from, to, hints) ==
    LET prepared == ApplyRenameHints(from, to, hints)
    IN  PrepareJoinTableRollback(prepared.operations \o BuildDiff(prepared.snapshot, to), from)

-----------------------------------------------------------------------------
(* Table rebuilds, for a provider that cannot alter a table in place.      *)

NormalizeTableRenames(m, ops) ==
    [m EXCEPT !.entities = Map(LAMBDA e :
        LET Renames(op) == op.kind = "renameTable" /\ op.tableName = e.tableName
        IN  IF ~Has(ops, Renames) THEN e
            ELSE LET op == Picked(ops, Renames)
                 IN  [e EXCEPT !.entityName = op.entityName, !.tableName = op.newTableName], @)]

\* Relationships of the old snapshot still name a renamed principal by its
\* old entity: the old name leads to the normalized entity too.
NewName(m, normalized, n) ==
    LET was == {i \in DOMAIN m.entities : m.entities[i].entityName = n}
    IN  IF was = {} THEN n ELSE normalized.entities[CHOOSE i \in was : TRUE].entityName

KnownByOldNames(m, normalized) ==
    [normalized EXCEPT !.entities =
        Map(LAMBDA e : [e EXCEPT
            !.relationships = Map(LAMBDA r : [r EXCEPT !.principal = NewName(m, normalized, @)], @),
            !.joins = Map(LAMBDA j : [j EXCEPT !.target = NewName(m, normalized, @)], @)], @)]

Shape(m, e) ==
    [columns |-> Columns(e),
     checks |-> e.checks,
     foreignKeys |-> Map(LAMBDA r : ForeignKey(m, e, r), e.relationships),
     indexes |-> Map(LAMBDA ix : IndexOperation("createIndex", e, ix), e.indexes)]

NeedsRebuild(ops, t) ==
    \E i \in DOMAIN ops :
        LET op == ops[i]
        IN  \/ /\ op.kind \in {"alterColumn", "dropColumn", "addForeignKey", "dropForeignKey",
                               "addCheckConstraint", "dropCheckConstraint"}
               /\ op.tableName = t
            \/ op.kind = "addColumn" /\ op.tableName = t /\ op.column.type = Computed

\* Mutant: the way back looks for the renames of the way up.
EndsOfWayUp(op, forward) == <<op.oldName, op.name>>

\* The column a rename starts from and the one it ends at.
Ends(op, forward) == IF forward THEN <<op.oldName, op.name>> ELSE <<op.name, op.oldName>>

CopyColumns(old, new, ops, forward) ==
    LET Renames(q, op) == /\ op.kind = "alterColumn" /\ op.oldName # NoName
                          /\ op.tableName = new.tableName /\ Ends(op, forward)[2] = q.columnName
        Source(q) ==
            LET renamed == Has(ops, LAMBDA op : Renames(q, op))
                origin == IF renamed THEN Ends(Picked(ops, LAMBDA op : Renames(q, op)), forward)[1] ELSE NoName
            IN  IF renamed /\ HasColumn(old, origin) THEN <<origin>>
                ELSE IF HasColumn(old, q.columnName) THEN <<q.columnName>>
                ELSE Emitted(old.properties, LAMBDA o : o.propertyName = q.propertyName,
                             LAMBDA o : o.columnName)
    IN  FlattenSeq(Map(LAMBDA q :
            IF Source(q) = <<>> \/ q.type = Computed THEN <<>>
            ELSE <<[source |-> Source(q)[1], target |-> q.columnName]>>, new.properties))

Rebuild(t, previous, current, copy, reverse) ==
    [kind |-> "rebuildTable", tableName |-> t, previous |-> previous, current |-> current,
     copyColumns |-> copy, reverseCopyColumns |-> reverse]

BeforeDrops(ops, rebuilds) ==
    LET Drops(op) == op.kind \in {"dropTable", "dropSequence"}
        kept == IF Has(ops, Drops)
                THEN (CHOOSE i \in DOMAIN ops : Drops(ops[i]) /\ \A j \in 1..(i - 1) : ~Drops(ops[j])) - 1
                ELSE Len(ops)
    IN  SubSeq(ops, 1, kept) \o rebuilds \o SubSeq(ops, kept + 1, Len(ops))

AddRebuilds(ops, from, to) ==
    LET previous == KnownByOldNames(from, NormalizeTableRenames(from, ops))
        Rebuilt(e) ==
            IF ~HasTable(previous, e.tableName) \/ e.isView THEN <<>>
            ELSE LET old == EntityAt(previous, e.tableName)
                     before == Shape(previous, old)
                     after == Shape(to, e)
                 IN  IF old.isView \/ (/\ ~NeedsRebuild(ops, e.tableName)
                                       /\ ToSet(before.foreignKeys) = ToSet(after.foreignKeys))
                     THEN <<>>
                     ELSE <<Rebuild(e.tableName, before, after, CopyColumns(old, e, ops, TRUE),
                                    CopyColumns(e, old, ops, FALSE))>>
    IN  BeforeDrops(ops, FlattenSeq(Map(Rebuilt, to.entities)))

JoinShape(j) ==
    [columns |-> j.columns, checks |-> <<>>, foreignKeys |-> j.foreignKeys, indexes |-> <<>>]

AddJoinRebuilds(ops, from, to) ==
    LET before == JoinTables(KnownByOldNames(from, NormalizeTableRenames(from, ops)))
        Explicitly(t) == Has(ops, LAMBDA op : op.kind \in {"createJoinTable", "dropJoinTable"}
                                              /\ op.tableName = t)
        Stable(j) == Has(before, LAMBDA b : b.tableName = j.tableName /\ b # j) /\ ~Explicitly(j.tableName)
        Old(j) == Picked(before, LAMBDA b : b.tableName = j.tableName)
        Copy(j) == Map(LAMBDA c : [source |-> c.name, target |-> c.name], j.columns)
    IN  BeforeDrops(ops, Emitted(JoinTables(to), Stable,
                                 LAMBDA j : Rebuild(j.tableName, JoinShape(Old(j)), JoinShape(j),
                                                    Copy(j), Copy(j))))

MigrationOperations(c) ==
    AddJoinRebuilds(AddRebuilds(DiffModelSnapshots(c.from, c.to, c.hints), c.from, c.to), c.from, c.to)

-----------------------------------------------------------------------------
(* From operations to the statements of up() and down().                   *)

Opposite == [createTable |-> "dropTable", dropTable |-> "createTable",
             addColumn |-> "dropColumn", dropColumn |-> "addColumn",
             createIndex |-> "dropIndex", dropIndex |-> "createIndex",
             addForeignKey |-> "dropForeignKey", dropForeignKey |-> "addForeignKey",
             addCheckConstraint |-> "dropCheckConstraint", dropCheckConstraint |-> "addCheckConstraint",
             createSequence |-> "dropSequence", dropSequence |-> "createSequence",
             createJoinTable |-> "dropJoinTable", dropJoinTable |-> "createJoinTable"]

\* Mutant: an altered column is only given its old name back.
ReverseName(op) ==
    CASE op.kind = "renameTable" -> [op EXCEPT !.tableName = op.newTableName, !.newTableName = op.tableName]
      [] op.kind = "alterColumn" ->
            [op EXCEPT !.name = Chosen(op.oldName, op.name),
                       !.oldName = IF op.oldName = NoName THEN NoName ELSE op.name]
      [] op.kind = "alterSequence" -> [op EXCEPT !.sequence = op.previous, !.previous = op.sequence]
      [] op.kind = "rebuildTable" ->
            Rebuild(op.tableName, op.current, op.previous, op.reverseCopyColumns, op.copyColumns)
      [] OTHER -> [op EXCEPT !.kind = Opposite[@]]

ReverseOperation(op) ==
    CASE op.kind = "renameTable" ->
            [op EXCEPT !.tableName = op.newTableName, !.newTableName = op.tableName]
      [] op.kind = "alterColumn" ->
            [op EXCEPT !.name = Chosen(op.oldName, op.name),
                       !.oldName = IF op.oldName = NoName THEN NoName ELSE op.name,
                       !.type = op.oldType, !.oldType = op.type]
      [] op.kind = "alterSequence" ->
            [op EXCEPT !.sequence = op.previous, !.previous = op.sequence]
      [] op.kind = "rebuildTable" ->
            Rebuild(op.tableName, op.current, op.previous, op.reverseCopyColumns, op.copyColumns)
      [] OTHER -> [op EXCEPT !.kind = Opposite[@]]

\* The kind an operation has when it is run in this direction.
Running(kind, way) == IF way = "up" THEN kind ELSE Opposite[kind]

OrderTables(tables, keys, dropping) ==
    LET Needs(t, u) == \* t has to wait for u
            \E i \in DOMAIN keys :
                LET dependent == keys[i].tableName
                    principal == keys[i].key.principalTable
                IN  /\ dependent # principal
                    /\ <<t, u>> = IF dropping THEN <<principal, dependent>> ELSE <<dependent, principal>>
        Ready(left, t) == \A i \in DOMAIN left : ~Needs(t.tableName, left[i].tableName)
        First(left) == IF Has(left, LAMBDA t : Ready(left, t))
                       THEN CHOOSE i \in DOMAIN left : Ready(left, left[i])
                                                       /\ \A j \in 1..(i - 1) : ~Ready(left, left[j])
                       ELSE 1
        Pick(work, i) == [left |-> RemoveAt(work.left, First(work.left)),
                          ordered |-> Append(work.ordered, work.left[First(work.left)])]
    IN  FoldLeft(Pick, [left |-> tables, ordered |-> <<>>], [i \in DOMAIN tables |-> i]).ordered

\* The n-th operation of the kind is replaced by the n-th of the ordered ones.
Replaced(ops, kind, ordered) ==
    [i \in DOMAIN ops |->
        IF ops[i].kind # kind THEN ops[i]
        ELSE ordered[Cardinality({j \in 1..i : ops[j].kind = kind})]]

OrderMigrationTables(ops, way) ==
    LET OfKind(kind) == SelectSeq(ops, LAMBDA op : op.kind = Running(kind, way))
        created == OrderTables(OfKind("createTable"), OfKind("addForeignKey"), FALSE)
        dropped == OrderTables(OfKind("dropTable"), OfKind("dropForeignKey"), TRUE)
    IN  Replaced(Replaced(ops, Running("createTable", way), created), Running("dropTable", way), dropped)

TablesOf(ops, kind) == {ops[i].tableName : i \in {j \in DOMAIN ops : ops[j].kind = kind}}

\* planForeignKeyInlining: a key goes with the table that is created or
\* dropped in the same migration.
Inlined(ops, way) ==
    LET Absorbed(op) ==
            \/ /\ op.kind = Running("addForeignKey", way)
               /\ op.tableName \in TablesOf(ops, Running("createTable", way))
            \/ /\ op.kind = Running("dropForeignKey", way)
               /\ op.tableName \in TablesOf(ops, Running("dropTable", way))
        KeysOf(t) == Emitted(ops, LAMBDA op : op.kind = Running("addForeignKey", way) /\ op.tableName = t,
                             LAMBDA op : op.key)
    IN  Map(LAMBDA op : IF op.kind = Running("createTable", way)
                        THEN [op EXCEPT !.foreignKeys = KeysOf(op.tableName)] ELSE op,
            SelectSeq(ops, LAMBDA op : ~Absorbed(op)))

AbsorbedByRebuild(ops, op) ==
    /\ op.kind \in {"addColumn", "alterColumn", "dropColumn", "createIndex", "dropIndex",
                    "addForeignKey", "dropForeignKey", "addCheckConstraint", "dropCheckConstraint"}
    /\ op.tableName \in TablesOf(ops, "rebuildTable")

InDirection(way, ops) == IF way = "up" THEN ops ELSE Map(ReverseOperation, ops)

\* SnapshotDiffMigration: the operations as they stand, without the rebuilds
\* unless the provider needs them.
RuntimeStatements(ops, way, provider) ==
    LET ordered == OrderMigrationTables(ops, way)
    IN  InDirection(way,
            IF provider = "altering" THEN SelectSeq(ordered, LAMBDA op : op.kind # "rebuildTable")
            ELSE SelectSeq(Inlined(ordered, way), LAMBDA op : ~AbsorbedByRebuild(ops, op)))

\* The source a scaffold writes: the operations that a rebuild absorbs stand
\* in the other branch of the rebuild, at its place.
SourceStatements(ops, way, provider) ==
    LET ordered == OrderMigrationTables(ops, way)
        body == SelectSeq(IF provider = "altering" THEN ordered ELSE Inlined(ordered, way),
                          LAMBDA op : ~AbsorbedByRebuild(ops, op))
        Branch(op) ==
            IF op.kind # "rebuildTable" \/ provider = "rebuilding" THEN <<op>>
            ELSE SelectSeq(ordered, LAMBDA g : g.kind # "rebuildTable" /\ AbsorbedByRebuild(<<op>>, g))
    IN  InDirection(way, FlattenSeq(Map(Branch, body)))

\* SchemaSqlBuilder: tables before the tables that refer to them, with their
\* foreign keys in them.
SchemaTables(m) ==
    LET owned == SelectSeq(m.entities, LAMBDA e : ~e.isView)
        KeysOf(e) == Map(LAMBDA r : ForeignKeyOperation("addForeignKey", m, e, r), e.relationships)
        WithKeys(e) == [CreateTable(e) EXCEPT !.foreignKeys = Shape(m, e).foreignKeys]
    IN  OrderTables(Map(WithKeys, owned), FlattenSeq(Map(KeysOf, owned)), FALSE)

SchemaIndexes(m) == FlattenSeq(Map(LAMBDA e : Shape(m, e).indexes, SelectSeq(m.entities, LAMBDA e : ~e.isView)))

SchemaStatements(m) ==
    Map(LAMBDA q : [kind |-> "createSequence", sequence |-> q], m.sequences)
    \o SchemaTables(m) \o JoinTables(m) \o SchemaIndexes(m)

Turned(ops, way) == IF way = "up" THEN ops ELSE Reverse(ops)

Written(ops, way, j) ==
    CASE j.mode.form = "runtime" -> RuntimeStatements(ops, way, j.mode.provider)
      [] j.mode.form = "source" -> SourceStatements(ops, way, j.mode.provider)
      [] j.mode.form = "script" -> SchemaStatements(j.case.to)

Statements(j, way) == Written(Turned(MigrationOperations(j.case), way), way, j)

-----------------------------------------------------------------------------
(* The database.  A column carries where its rows come from: the table and *)
(* column they were in when the migration began, or Empty.                 *)

Empty == <<>>

With(f, k, v) == [x \in DOMAIN f \cup {k} |-> IF x = k THEN v ELSE f[x]]
Without(f, k) == [x \in DOMAIN f \ {k} |-> f[x]]
Renamed(f, old, new) == [x \in (DOMAIN f \ {old}) \cup {new} |-> IF x = new THEN f[old] ELSE f[x]]
ByName(s) == [n \in {s[i].name : i \in DOMAIN s} |-> s[CHOOSE i \in DOMAIN s : s[i].name = n]]

Cell(column, rows) == [type |-> column.type, rows |-> rows]

Table(columns, checks, keys, rows) ==
    [columns |-> [n \in DOMAIN ByName(columns) |-> Cell(ByName(columns)[n], rows[n])],
     checks |-> ByName(checks), keys |-> ByName(keys)]

Index(ix) == [tableName |-> ix.tableName, column |-> ix.column, unique |-> ix.unique]

\* The schema a snapshot stands for, each column with rows of its own.
OwnRows(t, columns) == [c \in DOMAIN ByName(columns) |-> <<t, c>>]

OwnTables(m) ==
    LET owned == SelectSeq(m.entities, LAMBDA e : ~e.isView)
    IN  [t \in {owned[i].tableName : i \in DOMAIN owned} |->
            LET e == EntityAt(m, t)
            IN  Table(Columns(e), e.checks, Shape(m, e).foreignKeys, OwnRows(t, Columns(e)))]

SharedTables(m) ==
    LET joins == JoinTables(m)
    IN  [t \in {joins[i].tableName : i \in DOMAIN joins} |->
            LET j == Picked(joins, LAMBDA k : k.tableName = t)
            IN  Table(j.columns, <<>>, j.foreignKeys, OwnRows(t, j.columns))]

Created(m) ==
    LET own == OwnTables(m)
        shared == SharedTables(m)
        indexes == ByName(SchemaIndexes(m))
    IN  [tables |-> [t \in DOMAIN own \cup DOMAIN shared |->
                        IF t \in DOMAIN own THEN own[t] ELSE shared[t]],
         indexes |-> [n \in DOMAIN indexes |-> Index(indexes[n])],
         sequences |-> ByName(m.sequences)]

WithoutRows(d) ==
    [d EXCEPT !.tables = [t \in DOMAIN d.tables |-> [d.tables[t] EXCEPT !.columns =
        [c \in DOMAIN d.tables[t].columns |-> d.tables[t].columns[c].type]]]]

HasDbColumn(t, c) == t \in DOMAIN db.tables /\ c \in DOMAIN db.tables[t].columns
Indexed(t) == {n \in DOMAIN db.indexes : db.indexes[n].tableName = t}
KeysTo(t) ==
    UNION {{<<u, n>> : n \in {k \in DOMAIN db.tables[u].keys : db.tables[u].keys[k].principalTable = t}} :
              u \in DOMAIN db.tables}
RowsOf(t, c) == db.tables[t].columns[c].rows

References(t, u) == \E k \in DOMAIN db.tables[t].keys : db.tables[t].keys[k].principalTable = u

\* The table is to be dropped too, and none that is to be dropped is free of
\* references: no order has each go before the tables it refers to.
DroppedInACycle(u) ==
    LET left == TablesOf(pending, "dropTable") \cup TablesOf(pending, "dropJoinTable")
    IN  u \in left /\ \A t \in left : \E w \in left \ {t} : References(w, t)

\* A reference that the provider can check: SQLite looks at a key when rows
\* are written, the others when it is declared.
CanReference(key, provider) ==
    provider = "rebuilding" \/ HasDbColumn(key.principalTable, key.principalColumn)

\* What has to hold for the provider to do what the statement says.
Applicable(op, provider) ==
    CASE op.kind \in {"createTable", "createJoinTable"} ->
            /\ op.tableName \notin DOMAIN db.tables
            /\ \A i \in DOMAIN op.foreignKeys :
                  \/ op.foreignKeys[i].principalTable = op.tableName
                  \/ CanReference(op.foreignKeys[i], provider)
      [] op.kind \in {"dropTable", "dropJoinTable"} ->
            /\ op.tableName \in DOMAIN db.tables
            /\ \A k \in KeysTo(op.tableName) :
                  \/ k[1] = op.tableName
                  \/ provider = "rebuilding" /\ DroppedInACycle(k[1])
      [] op.kind = "renameTable" ->
            op.tableName \in DOMAIN db.tables /\ op.newTableName \notin DOMAIN db.tables
      [] op.kind = "addColumn" ->
            op.tableName \in DOMAIN db.tables /\ ~HasDbColumn(op.tableName, op.column.name)
      [] op.kind = "alterColumn" ->
            /\ HasDbColumn(op.tableName, Chosen(op.oldName, op.name))
            /\ op.oldName = NoName \/ ~HasDbColumn(op.tableName, op.name)
      [] op.kind = "dropColumn" ->
            /\ HasDbColumn(op.tableName, op.column.name)
            /\ \A n \in Indexed(op.tableName) : db.indexes[n].column # op.column.name
            /\ \A n \in DOMAIN db.tables[op.tableName].keys :
                  db.tables[op.tableName].keys[n].column # op.column.name
            /\ \A k \in KeysTo(op.tableName) :
                  db.tables[k[1]].keys[k[2]].principalColumn # op.column.name
      [] op.kind = "createIndex" ->
            HasDbColumn(op.tableName, op.column) /\ op.name \notin DOMAIN db.indexes
      [] op.kind = "dropIndex" ->
            op.name \in DOMAIN db.indexes /\ db.indexes[op.name].tableName = op.tableName
      [] op.kind = "addForeignKey" ->
            /\ provider = "altering"
            /\ HasDbColumn(op.tableName, op.key.column)
            /\ op.key.name \notin DOMAIN db.tables[op.tableName].keys
            /\ CanReference(op.key, provider)
      [] op.kind = "dropForeignKey" ->
            /\ provider = "altering" /\ op.tableName \in DOMAIN db.tables
            /\ op.key.name \in DOMAIN db.tables[op.tableName].keys
      [] op.kind = "addCheckConstraint" ->
            /\ provider = "altering" /\ op.tableName \in DOMAIN db.tables
            /\ op.check.name \notin DOMAIN db.tables[op.tableName].checks
      [] op.kind = "dropCheckConstraint" ->
            /\ provider = "altering" /\ op.tableName \in DOMAIN db.tables
            /\ op.check.name \in DOMAIN db.tables[op.tableName].checks
      [] op.kind = "createSequence" -> op.sequence.name \notin DOMAIN db.sequences
      [] op.kind \in {"alterSequence", "dropSequence"} -> op.sequence.name \in DOMAIN db.sequences
      [] op.kind = "rebuildTable" ->
            /\ op.tableName \in DOMAIN db.tables
            /\ op.copyColumns # <<>>
            /\ \A i \in DOMAIN op.copyColumns : HasDbColumn(op.tableName, op.copyColumns[i].source)
            /\ \A i \in DOMAIN op.current.indexes :
                  op.current.indexes[i].name \notin DOMAIN db.indexes \ Indexed(op.tableName)

\* Both systems follow a rename in the keys and indexes that mention it.
TablesRenamed(old, new) ==
    LET Follow(key) == [key EXCEPT !.principalTable = Swapped(@, old, new)]
        followed == [t \in DOMAIN db.tables |-> [db.tables[t] EXCEPT !.keys =
                        [n \in DOMAIN @ |-> Follow(@[n])]]]
    IN  Renamed(followed, old, new)

ColumnsRenamed(t, old, new) ==
    LET Follow(u, key) ==
            [key EXCEPT !.column = IF u = t THEN Swapped(@, old, new) ELSE @,
                        !.principalColumn = IF key.principalTable = t THEN Swapped(@, old, new) ELSE @]
    IN  [u \in DOMAIN db.tables |-> [db.tables[u] EXCEPT
            !.columns = IF u = t THEN Renamed(@, old, new) ELSE @,
            !.keys = [n \in DOMAIN @ |-> Follow(u, @[n])]]]

Rebuilt(op) ==
    LET CopiedTo(c) == SelectSeq(op.copyColumns, LAMBDA k : k.target = c)
        Copies(c) == IF CopiedTo(c) = <<>> THEN Empty ELSE RowsOf(op.tableName, CopiedTo(c)[1].source)
        columns == op.current.columns
    IN  Table(columns, op.current.checks, op.current.foreignKeys,
              [c \in DOMAIN ByName(columns) |-> Copies(c)])

TableCreated(op) ==
    With(db.tables, op.tableName, Table(op.columns, op.checks, op.foreignKeys,
                                         [c \in DOMAIN ByName(op.columns) |-> Empty]))

ColumnAltered(op) ==
    LET t == op.tableName
        old == Chosen(op.oldName, op.name)
        named == ColumnsRenamed(t, old, op.name)
        Follow(ix) == IF ix.tableName = t THEN [ix EXCEPT !.column = Swapped(@, old, op.name)] ELSE ix
    IN  [db EXCEPT !.tables = [named EXCEPT ![t].columns[op.name].type = op.type],
                   !.indexes = [n \in DOMAIN @ |-> Follow(@[n])]]

TableRebuilt(op) ==
    LET kept == [n \in DOMAIN db.indexes \ Indexed(op.tableName) |-> db.indexes[n]]
        names == ByName(op.current.indexes)
    IN  [db EXCEPT !.tables[op.tableName] = Rebuilt(op),
                   !.indexes = [n \in DOMAIN kept \cup DOMAIN names |->
                                   IF n \in DOMAIN names THEN Index(names[n]) ELSE kept[n]]]

\* The database after the statement.
Applied(op) ==
    LET t == op.tableName
    IN  CASE op.kind \in {"createTable", "createJoinTable"} -> [db EXCEPT !.tables = TableCreated(op)]
          [] op.kind \in {"dropTable", "dropJoinTable"} ->
                [db EXCEPT !.tables = Without(@, t),
                           !.indexes = [n \in DOMAIN @ \ Indexed(t) |-> @[n]]]
          [] op.kind = "renameTable" ->
                [db EXCEPT !.tables = TablesRenamed(t, op.newTableName),
                           !.indexes = [n \in DOMAIN @ |-> [@[n] EXCEPT !.tableName =
                                                               Swapped(@, t, op.newTableName)]]]
          [] op.kind = "addColumn" ->
                [db EXCEPT !.tables[t].columns = With(@, op.column.name, Cell(op.column, Empty))]
          [] op.kind = "alterColumn" -> ColumnAltered(op)
          [] op.kind = "dropColumn" -> [db EXCEPT !.tables[t].columns = Without(@, op.column.name)]
          [] op.kind = "createIndex" -> [db EXCEPT !.indexes = With(@, op.name, Index(op))]
          [] op.kind = "dropIndex" -> [db EXCEPT !.indexes = Without(@, op.name)]
          [] op.kind = "addForeignKey" -> [db EXCEPT !.tables[t].keys = With(@, op.key.name, op.key)]
          [] op.kind = "dropForeignKey" -> [db EXCEPT !.tables[t].keys = Without(@, op.key.name)]
          [] op.kind = "addCheckConstraint" ->
                [db EXCEPT !.tables[t].checks = With(@, op.check.name, op.check)]
          [] op.kind = "dropCheckConstraint" -> [db EXCEPT !.tables[t].checks = Without(@, op.check.name)]
          [] op.kind \in {"createSequence", "alterSequence"} ->
                [db EXCEPT !.sequences = With(@, op.sequence.name, op.sequence)]
          [] op.kind = "dropSequence" -> [db EXCEPT !.sequences = Without(@, op.sequence.name)]
          [] op.kind = "rebuildTable" -> TableRebuilt(op)

-----------------------------------------------------------------------------
(* A migration runs up, and is taken back.                                 *)

Init ==
    /\ job \in Jobs
    /\ direction = "up"
    /\ pending = Statements(job, "up")
    /\ db = Created(job.case.from)
    /\ found = db

RunStatement ==
    /\ pending # <<>>
    /\ Applicable(Head(pending), job.mode.provider)
    /\ db' = Applied(Head(pending))
    /\ pending' = Tail(pending)
    /\ UNCHANGED <<job, direction, found>>

TakeBack ==
    /\ pending = <<>> /\ direction = "up" /\ job.mode.form # "script"
    /\ direction' = "down"
    /\ pending' = Statements(job, "down")
    /\ UNCHANGED <<job, db, found>>

Next == RunStatement \/ TakeBack

Spec == Init /\ [][Next]_vars

-----------------------------------------------------------------------------
(* Properties.                                                             *)

\* The statements a provider is never given: an altering one is not asked to
\* rebuild a table, a rebuilding one not to alter a table in place.
NotFor == [altering |-> {"rebuildTable"},
           rebuilding |-> {"alterColumn", "addForeignKey", "dropForeignKey",
                           "addCheckConstraint", "dropCheckConstraint"}]

\* The ranges of the variables.
TypeOK ==
    /\ job.mode \in Modes
    /\ direction \in {"up", "down"}
    /\ \A i \in DOMAIN pending : pending[i].kind \in DOMAIN Phase \ NotFor[job.mode.provider]
    /\ DOMAIN db = {"tables", "indexes", "sequences"}

\* The operations are "ordered so that every operation runs against a database
\* state that can support it" (model-differ.ts): whatever statement is next,
\* the table, column, key or index it needs is there and the name it takes is
\* free, on the way up and on the way down, in a well-typed state.
EveryStatementApplies ==
    /\ TypeOK
    /\ pending # <<>> => Applicable(Head(pending), job.mode.provider)

Ended(way) == direction = way /\ pending = <<>>

\* However the difference is run, granular or by rebuilding tables, up()
\* leaves the schema that the new model would be created with, and down() puts
\* the schema back where up() found it.
SchemaFollowsTheModel ==
    /\ Ended("up") => WithoutRows(db) = WithoutRows(Created(job.case.to))
    /\ Ended("down") => WithoutRows(db) = WithoutRows(found)

OldTable(t) ==
    LET hinted == SelectSeq(job.case.hints.tables, LAMBDA h : h.to = t)
    IN  IF hinted = <<>> THEN t ELSE hinted[1].from
OldColumn(t, c) ==
    LET hinted == SelectSeq(job.case.hints.columns, LAMBDA h : h.tableName = t /\ h.to = c)
    IN  IF hinted = <<>> THEN c ELSE hinted[1].from

\* The columns both models have, under the names the hints relate.
Survivors ==
    LET old == found.tables
        new == Created(job.case.to).tables
        joins == {j.tableName : j \in ToSet(JoinTables(job.case.to))}
        Stored(tables, t, c) ==
            t \in DOMAIN tables /\ c \in DOMAIN tables[t].columns /\ tables[t].columns[c].type # Computed
    IN  {x \in UNION {{<<t, c>> : c \in DOMAIN new[t].columns} : t \in DOMAIN new \ joins} :
            Stored(new, x[1], x[2]) /\ Stored(old, OldTable(x[1]), OldColumn(x[1], x[2]))}

Warned(t, c) ==
    LET now == IF Has(job.case.hints.tables, LAMBDA h : h.from = t)
               THEN Picked(job.case.hints.tables, LAMBDA h : h.from = t).to ELSE t
    IN  \E op \in ToSet(DiffModelSnapshots(job.case.from, job.case.to, job.case.hints)) :
            \/ op.kind \in {"dropTable", "dropJoinTable"} /\ op.tableName = t
            \/ op.kind = "dropColumn" /\ op.tableName = now /\ op.column.name = c
            \/ /\ op.kind = "alterColumn" /\ op.oldType # op.type
               /\ op.tableName = now /\ Chosen(op.oldName, op.name) = c

\* A column that both models have, under its own or a hinted name, keeps its
\* rows through every rename, alteration, rebuild and reversal, and rows that
\* up() leaves nowhere are announced: the scaffold refuses to write the
\* migration unless the loss is allowed (migration-commands.ts:45).
RowsSurviveOrAreAnnounced ==
    /\ \A x \in Survivors :
           LET origin == <<OldTable(x[1]), OldColumn(x[1], x[2])>>
           IN  /\ Ended("up") => RowsOf(x[1], x[2]) = origin
               /\ Ended("down") => RowsOf(origin[1], origin[2]) = origin
    /\ Ended("up") =>
           \A t \in DOMAIN found.tables : \A c \in DOMAIN found.tables[t].columns :
               \/ found.tables[t].columns[c].type = Computed
               \/ \E u \in DOMAIN db.tables : \E d \in DOMAIN db.tables[u].columns : RowsOf(u, d) = <<t, c>>
               \/ Warned(t, c)

=============================================================================
