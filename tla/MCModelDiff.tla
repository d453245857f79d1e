---------------------------- MODULE MCModelDiff ----------------------------
\* Instances of ModelDiff for TLC: pairs of small snapshots.
EXTENDS ModelDiff, TLC

Snapshot(entities, sequences) == [entities |-> entities, sequences |-> sequences]
NoHints == [tables |-> <<>>, columns |-> <<>>]
Case(from, to, hints) == [from |-> from, to |-> to, hints |-> hints]
Pairs(snapshots) == {Case(m, n, NoHints) : m \in snapshots, n \in snapshots}

Prop(p, type) == [propertyName |-> p, columnName |-> p, type |-> type]
Entity(n, properties) ==
    [entityName |-> n, tableName |-> n, isView |-> FALSE, keyProperty |-> "id",
     properties |-> <<Prop("id", "int")>> \o properties,
     indexes |-> <<>>, relationships |-> <<>>, checks |-> <<>>, joins |-> <<>>]
Relationship(p, principal, onDelete, name) ==
    [property |-> p, principal |-> principal, principalProperty |-> NoName,
     constraintName |-> name, onDelete |-> onDelete]

Mode(form, provider) == [form |-> form, provider |-> provider]
AgreeingModes ==
    {Mode("runtime", "altering"), Mode("runtime", "rebuilding"), Mode("source", "rebuilding")}

-----------------------------------------------------------------------------
\* Topologies: which of three tables exist, and which of them refer to which,
\* in cycles too.
Tables == <<"A", "B", "C">>
References3 == {<<"A", "B">>, <<"B", "A">>, <<"C", "A">>, <<"A", "C">>, <<"B", "B">>}

Referring(t, refs) ==
    LET principals == SelectSeq(Tables, LAMBDA u : <<t, u>> \in refs)
    IN  [Entity(t, Map(LAMBDA u : Prop("to" \o u, "int"), principals))
            EXCEPT !.relationships = Map(LAMBDA u : Relationship("to" \o u, u, "cascade", NoName), principals)]

Topologies ==
    {Snapshot(Map(LAMBDA t : Referring(t, refs), SelectSeq(Tables, LAMBDA t : t \in present)), <<>>) :
        <<present, refs>> \in {x \in (SUBSET {"A", "B", "C"}) \X (SUBSET References3) :
            /\ x[2] \subseteq x[1] \X x[1]
            /\ Cardinality(x[2]) <= 3}}

TopologyCases == Pairs(Topologies)

-----------------------------------------------------------------------------
\* Facets: one column, index, check, foreign key and sequence in each variant.
OnX(unique, name) == <<[property |-> "x", isUnique |-> unique, databaseName |-> name]>>
CheckNamed(sql) == <<[name |-> <<"named", 2>>, sql |-> sql]>>

\* A column and its index.
NoX == [properties |-> <<>>, indexes |-> <<>>]
X(type, indexes) == [properties |-> <<Prop("x", type)>>, indexes |-> indexes]
XFacets ==
    {NoX} \cup {X(type, ix) : type \in {"int", "text", Computed},
                            ix \in {<<>>, OnX(FALSE, NoName), OnX(FALSE, <<"named", 1>>), OnX(TRUE, <<"named", 1>>)}}
KeyFacets == {<<>>} \cup {<<Relationship("id", "P", rule, NoName)>> : rule \in {"cascade", "restrict"}}

Faceted(x, checks, keys, sequences) ==
    Snapshot(<<Entity("P", <<>>),
               [Entity("T", x.properties) EXCEPT
                   !.indexes = x.indexes, !.checks = checks, !.relationships = keys]>>,
             sequences)

ColumnsAndChecks ==
    {Faceted(x, checks, <<>>, <<>>) :
        x \in XFacets, checks \in {<<>>, CheckNamed("a"), CheckNamed("b")}}
KeysAndSequences ==
    {Faceted(x, <<>>, keys, sequences) :
        x \in {NoX, X("int", OnX(FALSE, NoName))}, keys \in KeyFacets,
        sequences \in {<<>>, <<[name |-> "s", step |-> 1]>>, <<[name |-> "s", step |-> 2]>>}}

FacetCases == Pairs(ColumnsAndChecks) \cup Pairs(KeysAndSequences)

-----------------------------------------------------------------------------
\* Renames: the principal's table and key, the dependent's column and the join
\* table's column each keep or change their name.  Every name the database
\* would derive is configured, or a rename leaves it behind.
Column(p, c, type) == [propertyName |-> p, columnName |-> c, type |-> type]

Renamable(v) ==
    LET principal == [Entity(v.table, <<>>) EXCEPT
                         !.keyProperty = v.key, !.properties = <<Prop(v.key, "int"), Prop("v", "int")>>]
        dependent == [Entity("T", <<Column(v.property, v.column, v.type)>>) EXCEPT
                         !.indexes = <<[OnX(FALSE, v.indexed)[1] EXCEPT !.property = v.property]>>,
                         !.relationships = IF v.refers
                                           THEN <<Relationship(v.property, v.table, "cascade", v.keyed)>>
                                           ELSE <<>>,
                         !.joins = IF v.joined = "" THEN <<>>
                                   ELSE <<[target |-> v.table, joinTable |-> "J",
                                           sourceColumn |-> v.joined, targetColumn |-> "p",
                                           sourceName |-> <<"named", 5>>, targetName |-> <<"named", 6>>]>>]
    IN  Snapshot(<<principal, dependent>>, <<>>)

Variants(indexed, keyed) ==
    [table : {"P", "Q"}, key : {"id", "key"}, property : {"x"}, column : {"x", "y"},
     type : {"int", "text"}, refers : BOOLEAN, joined : {"", "a", "b"}, indexed : {indexed}, keyed : {keyed}]
    \cup [table : {"Q"}, key : {"key"}, property : {"z"}, column : {"z"},
          type : {"int"}, refers : BOOLEAN, joined : {"", "a", "b"}, indexed : {indexed}, keyed : {keyed}]

Hinted(old, new) ==
    LET Hint(a, b, hint) == IF a = b THEN <<>> ELSE <<hint>>
        Columns2(t, a, b) == Hint(a, b, [tableName |-> t, from |-> a, to |-> b])
    IN  [tables |-> Hint(old.table, new.table, [from |-> old.table, to |-> new.table]),
         columns |-> Columns2(new.table, old.key, new.key) \o Columns2("T", old.column, new.column)]

Renames(indexed, keyed) ==
    {Case(Renamable(v), Renamable(w), Hinted(v, w)) :
        <<v, w>> \in {x \in Variants(indexed, keyed) \X Variants(indexed, keyed) :
                        x[1].table = "P" /\ x[1].key = "id" /\ x[1].column = "x" /\ x[1].type = "int"}}

RenameCases == Renames(<<"named", 3>>, <<"named", 4>>)

-----------------------------------------------------------------------------
\* A view is left alone, whatever becomes of its columns.
Views == {Snapshot(<<Entity("P", <<>>)>>, <<>>)}
         \cup {Snapshot(<<Entity("P", <<>>), [Entity("V", properties) EXCEPT !.isView = TRUE]>>, <<>>) :
                   properties \in {<<>>, <<Prop("x", "int")>>}}

MigrationCases == TopologyCases \cup FacetCases \cup RenameCases \cup Pairs(Views)

\* A script cannot create tables that refer to each other where a foreign key
\* needs its target.
Acyclic(m) ==
    LET Refers(e, f) == Has(e.relationships, LAMBDA r : r.principal = f.entityName /\ e # f)
    IN  \E order \in Permutations(DOMAIN m.entities) :
            \A i, j \in DOMAIN order : Refers(m.entities[order[i]], m.entities[order[j]]) => j < i
Scripts(provider) ==
    {[case |-> Case(NoSnapshot, c.to, NoHints), mode |-> Mode("script", provider)] :
        c \in {x \in MigrationCases : provider = "rebuilding" \/ Acyclic(x.to)}}

AgreeingJobs == [case : MigrationCases, mode : AgreeingModes]
                \cup Scripts("altering") \cup Scripts("rebuilding")

=============================================================================
