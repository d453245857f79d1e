---------------------------- MODULE SelectQueries ----------------------------
(* What a query asks and what it is answered. A queryable is refined call by *)
(* call; a terminal adds the filters every entity carries, compiles the      *)
(* result to a statement or takes the text of an earlier query of the same   *)
(* shape, binds the values to the placeholders and sends it; the includes    *)
(* follow, chunk by chunk, each in a statement of its own.                   *)
(*                                                                           *)
(* Code: packages/core/src, in query/ the queryables, the terminals and the  *)
(* include loader, in sql/ the select builders with their cache, in core/    *)
(* the runners and the query filters; the dialects of the three providers.   *)
(*                                                                           *)
(* One type of entity: key, tenant, soft delete, a nullable column, an       *)
(* optional reference to its own type and a many-to-many relationship with   *)
(* it. Queries are not tracked. A statement is the sequence of its fragments *)
(* and a sequence of values; the database fills the placeholders in the      *)
(* order of the text. Rows it may return in any order come by their keys.    *)
(* What an include adds to the inverse navigations is in NavigationLoad.     *)
(*                                                                           *)
(* Two departures of the code are named, not repaired: BareOffset and        *)
(* GlobalWindow.                                                             *)
EXTENDS Naturals, Sequences, FiniteSets, SequencesExt, TLC

CONSTANTS
  Worlds,       \* to start from: [dialect, cross, tenant, rows, links]
  Tenants,      \* what the tenant provider may return, NULL for none
  Conditions,   \* for where(...)
  Orders,       \* for orderBy(...)
  Counts,       \* for skip(...) and take(...)
  Joins, Existences, Includes, Projections, Assignments,
  MaxParameters,  \* the placeholders a statement may have
  MaxCache,       \* the texts a cache keeps
  MaxSteps        \* bound: refinements, new queries and switches of the tenant

NULL == 0
High == 99   \* above every value

VARIABLES
  dialect,
  cross,     \* tenantScope.allowCrossTenantAccess
  tenant,    \* what the tenant provider returns now
  rows,      \* the table: id -> row
  links,     \* the join table
  query,     \* the queryable being refined
  cache,     \* the compiled texts of this set, the latest used last
  op,        \* the terminal operation
  budget

queryVars == <<dialect, cross, tenant, rows, links, query, cache, op, budget>>

EmptyRow(id) ==
  [id |-> id, deleted |-> NULL, mark |-> NULL, parent |-> NULL, tenant |-> NULL]

EmptyQuery ==
  [predicate |-> <<>>, orderings |-> <<>>, joins |-> <<>>, existence |-> <<>>,
   includes |-> <<>>, projection |-> <<>>, limit |-> <<>>, offset |-> <<>>,
   noFilters |-> FALSE, noScope |-> FALSE]

Nothing == [text |-> <<>>, values |-> <<>>]

(* An operation: its terminal and the query as the program wrote it, the     *)
(* tenant once it is resolved, the contents it started from, the statement   *)
(* on its way, the includes left with the keys left, the texts its include   *)
(* loader compiled, what the includes loaded, and the answer.                *)
Idle ==
  [stage |-> "none", kind |-> "none", query |-> EmptyQuery, set |-> <<>>,
   known |-> <<>>, before |-> <<>>, sent |-> Nothing, left |-> <<>>,
   store |-> <<>>, loaded |-> <<>>, roots |-> <<>>, answer |-> <<>>]

QueryTypeOK ==
  /\ tenant \in Tenants
  /\ op.stage \in {"none", "asking", "including", "fetching", "answered",
                   "ambiguous", "refused", "rejected"}
  /\ Len(cache) <= MaxCache
  /\ Len(op.known) <= 1
  /\ budget \in 0..MaxSteps

QueryInit ==
  /\ \E w \in Worlds :
       /\ dialect = w.dialect /\ cross = w.cross /\ tenant = w.tenant
       /\ rows = w.rows /\ links = w.links
  /\ query = EmptyQuery
  /\ cache = <<>>
  /\ op = Idle
  /\ budget = MaxSteps

-----------------------------------------------------------------------------
(* Predicates: a sequence of clauses, all of which hold; a clause is a       *)
(* disjunction of conditions, or the negation of one.                        *)

Condition(source, column, operator, values) ==
  [source |-> source, values |-> values, column |-> column,
   other |-> <<source, column>>, op |-> operator]

Only(condition) == <<[not |-> FALSE, any |-> <<condition>>]>>

(* The values of a condition that become parameters.                         *)
Given(c) == SelectSeq(c.values, LAMBDA v : v # NULL)

HasNull(c) == \E i \in DOMAIN c.values : c.values[i] = NULL

Values(clauses) ==
  FlattenSeq([i \in DOMAIN clauses |->
    FlattenSeq([k \in DOMAIN clauses[i].any |-> Given(clauses[i].any[k])])])

Sources(clauses) ==
  UNION {{c.source : c \in ToSet(clauses[i].any)} : i \in DOMAIN clauses}

-----------------------------------------------------------------------------
(* The filters every source of a query carries.                              *)

(* The tenant is resolved once per operation, when the first filter needs it. *)
Scoped(q) == ~q.noScope /\ ~cross

ResolvedEachTime(q, known) == IF Scoped(q) THEN <<tenant>> ELSE known

Resolved(q, known) == IF Scoped(q) /\ known = <<>> THEN <<tenant>> ELSE known

Unavailable(q, known) == Scoped(q) /\ Resolved(q, known) = <<NULL>>

Implicit(q, source, known) ==
  (IF q.noFilters THEN <<>> ELSE Only(Condition(source, "deleted", "isNull", <<>>)))
  \o (IF Scoped(q) THEN Only(Condition(source, "tenant", "eq", known)) ELSE <<>>)

Filtered(q, known) ==
  LET inner == SelectSeq(q.joins, LAMBDA j : j.kind = "inner") IN
  [q EXCEPT
     !.predicate = @ \o Implicit(q, "root", known)
                     \o (IF inner = <<>> THEN <<>> ELSE Implicit(q, "j", known)),
     !.joins = [i \in DOMAIN @ |->
        IF @[i].kind = "inner" THEN @[i]
        ELSE [@[i] EXCEPT !.predicate = @ \o Implicit(q, "j", known)]],
     !.existence = [i \in DOMAIN @ |->
        [@[i] EXCEPT !.predicate = @ \o Implicit(q, "rel", known)]]]

-----------------------------------------------------------------------------
(* Statements.                                                               *)

Fragment(part) ==
  [part |-> part, at |-> 0, term |-> 0, not |-> FALSE, source |-> "",
   column |-> "", op |-> "", other |-> <<"", "">>, placed |-> FALSE,
   values |-> <<>>]

Word(part, what) == <<[Fragment(part) EXCEPT !.op = what]>>

Bound(part, values) ==
  <<[Fragment(part) EXCEPT !.op = "bound", !.values = values]>>

(* A comparison with null asks whether the column is null; null in a list is *)
(* asked apart from it; an empty list holds nothing.                         *)
SqlOperator(c) ==
  CASE c.op \in {"eq", "ne"} /\ HasNull(c) ->
         IF c.op = "eq" THEN "isNull" ELSE "isNotNull"
    [] c.op = "in" /\ Given(c) = <<>> ->
         IF HasNull(c) THEN "isNull" ELSE "false"
    [] c.op = "in" /\ HasNull(c) -> "inOrNull"
    [] OTHER -> c.op

Compiled(part, at, clauses) ==
  FlattenSeq([i \in DOMAIN clauses |->
    [k \in DOMAIN clauses[i].any |->
       LET c == clauses[i].any[k] IN
       [Fragment(part) EXCEPT
          !.at = at, !.term = i, !.not = clauses[i].not,
          !.source = c.source, !.column = c.column, !.op = SqlOperator(c),
          !.other = c.other, !.values = Given(c)]]])

ColumnParts(q) ==
  [i \in DOMAIN q.projection |->
     LET c == q.projection[i] IN
     [Fragment("column") EXCEPT
        !.op = IF c.literal = <<>> THEN "field" ELSE "literal",
        !.source = c.source, !.column = c.column, !.values = c.literal]]

JoinParts(q) ==
  FlattenSeq([i \in DOMAIN q.joins |->
    Word("join", q.joins[i].kind) \o Compiled("on", i, q.joins[i].predicate)])

ExistenceParts(q) ==
  FlattenSeq([i \in DOMAIN q.existence |->
    LET e == q.existence[i] IN
    <<[Fragment("has") EXCEPT !.at = i, !.not = e.not, !.op = e.nav]>>
    \o Compiled("related", i, e.predicate)])

Required == {"id", "tenant"}

(* Null placement is written out where the dialect would place nulls low.    *)
OrderParts(orderings, required) ==
  [i \in DOMAIN orderings |->
     LET o == orderings[i] IN
     [Fragment("order") EXCEPT
        !.source = o.source, !.column = o.column,
        !.op = o.direction,
        !.placed = o.column \notin required /\ dialect # "postgres"]]

PagingParts(q) ==
  (CASE q.limit # <<>> -> Bound("limit", q.limit)
     [] q.limit = <<>> /\ q.offset # <<>> /\ dialect # "postgres" ->
          Word("limit", "unlimited")
     [] OTHER -> <<>>)
  \o (IF q.offset = <<>> THEN <<>> ELSE Bound("offset", q.offset))

(* One source or several: the joined builder places nulls for every column.  *)
BodyParts(q) ==
  JoinParts(q) \o Compiled("where", 0, q.predicate) \o ExistenceParts(q)

RowParts(q) ==
  Word("select", "rows") \o ColumnParts(q) \o BodyParts(q)
  \o OrderParts(q.orderings, IF q.joins = <<>> THEN Required ELSE {})
  \o PagingParts(q)

TallyParts(kind, q) == Word("select", kind) \o BodyParts(q) \o PagingParts(q)

Text(parts) ==
  [i \in DOMAIN parts |->
     [parts[i] EXCEPT !.values = [k \in DOMAIN @ |-> NULL]]]

Sent(parts) ==
  [text |-> Text(parts),
   values |-> FlattenSeq([i \in DOMAIN parts |-> parts[i].values])]

TooMany(values) == Len(values) > MaxParameters

-----------------------------------------------------------------------------
(* The cache of compiled texts.                                              *)

ConditionShape(c) ==
  <<c.source, c.column, c.op, c.other, HasNull(c),
    IF c.op = "in" THEN Len(Given(c)) ELSE 1>>

PredicateShape(clauses) ==
  [i \in DOMAIN clauses |->
     <<clauses[i].not,
       [k \in DOMAIN clauses[i].any |-> ConditionShape(clauses[i].any[k])]>>]

CacheKey(q) ==
  [predicate |-> PredicateShape(q.predicate),
   orderings |-> [i \in DOMAIN q.orderings |-> q.orderings[i]],
   existence |-> [i \in DOMAIN q.existence |->
      <<q.existence[i].not, q.existence[i].nav,
        PredicateShape(q.existence[i].predicate)>>],
   includes |-> [i \in DOMAIN q.includes |->
      <<q.includes[i].nav, PredicateShape(q.includes[i].predicate),
        q.includes[i].orderings, Len(q.includes[i].limit),
        Len(q.includes[i].offset)>>],
   projection |-> [i \in DOMAIN q.projection |->
      <<q.projection[i].source, q.projection[i].column,
        Len(q.projection[i].literal)>>],
   hasLimit |-> q.limit # <<>>,
   hasOffset |-> q.offset # <<>>,
   flags |-> <<q.noFilters, q.noScope>>]

CollectedRelatedFirst(q) ==
  FlattenSeq([i \in DOMAIN q.projection |-> q.projection[i].literal])
  \o FlattenSeq([i \in DOMAIN q.existence |-> Values(q.existence[i].predicate)])
  \o Values(q.predicate)
  \o q.limit \o q.offset

(* On a hit the values are collected in the order of the placeholders.       *)
Collected(q) ==
  FlattenSeq([i \in DOMAIN q.projection |-> q.projection[i].literal])
  \o Values(q.predicate)
  \o FlattenSeq([i \in DOMAIN q.existence |-> Values(q.existence[i].predicate)])
  \o q.limit \o q.offset

Latest(store) ==
  IF Len(store) > MaxCache THEN SubSeq(store, Len(store) - MaxCache + 1, Len(store))
  ELSE store

(* Joined selects are compiled every time. A statement with too many values  *)
(* is not kept.                                                              *)
Kept(st, q, store) ==
  st @@ [store |-> IF q.joins # <<>> \/ TooMany(st.values) THEN store
                   ELSE Latest(Append(store, [key |-> CacheKey(q), text |-> st.text]))]

Built(q, store) ==
  LET key == CacheKey(q)
      Hit(e) == q.joins = <<>> /\ e.key = key
      hits == SelectSeq(store, Hit)
      others == SelectSeq(store, LAMBDA e : ~Hit(e)) IN
  IF hits = <<>> THEN Kept(Sent(RowParts(q)), q, store)
  ELSE [text |-> hits[1].text, values |-> Collected(q),
        store |-> Append(others, hits[1])]

-----------------------------------------------------------------------------
(* The database. Its rows are environments: a row for every source.          *)

(* Each placeholder takes the next value.                                    *)
Filled(st) ==
  LET Used(i) == Len(FlattenSeq([k \in 1..(i - 1) |-> st.text[k].values])) IN
  [i \in DOMAIN st.text |->
     [st.text[i] EXCEPT
        !.values = SubSeq(st.values, Used(i) + 1, Used(i) + Len(@))]]

Placeholders(st) ==
  Len(FlattenSeq([k \in DOMAIN st.text |-> st.text[k].values]))

Has(st, part) == \E i \in DOMAIN st.text : st.text[i].part = part

(* Three-valued logic: 2 is true, 1 unknown, 0 false.                        *)
Truth(holds) == IF holds THEN 2 ELSE 0

Evaluated(f, env) ==
  LET v == env[f.source][f.column]
      w == env[f.other[1]][f.other[2]] IN
  CASE f.op = "isNull" -> Truth(v = NULL)
    [] f.op = "isNotNull" -> Truth(v # NULL)
    [] f.op = "false" -> 0
    [] f.op = "inOrNull" -> Truth(v = NULL \/ v \in ToSet(f.values))
    [] f.op = "same" -> IF NULL \in {v, w} THEN 1 ELSE Truth(v = w)
    [] OTHER ->
         IF v = NULL THEN 1
         ELSE Truth(CASE f.op = "eq" -> v = f.values[1]
                         [] f.op = "ne" -> v # f.values[1]
                         [] f.op = "gt" -> v > f.values[1]
                         [] f.op = "in" -> v \in ToSet(f.values))

Highest(S) == CHOOSE x \in S : \A y \in S : y <= x

Accepts(sql, part, at, env) ==
  LET mine == SelectSeq(sql, LAMBDA f : f.part = part /\ f.at = at) IN
  \A term \in {f.term : f \in ToSet(mine)} :
    LET any == {f \in ToSet(mine) : f.term = term}
        best == Highest({Evaluated(f, env) : f \in any}) IN
    best = IF \E f \in any : f.not THEN 0 ELSE 2

(* The rows a navigation leads to.                                           *)
Leads(nav, from, to) ==
  CASE nav = "parent" -> to.id = from.parent
    [] nav = "children" -> to.parent = from.id
    [] nav = "links" -> <<from.id, to.id>> \in links
    [] nav = "linkedBy" -> <<to.id, from.id>> \in links

Env(root, key) ==
  [root |-> root, j |-> EmptyRow(NULL), rel |-> EmptyRow(NULL),
   link |-> EmptyRow(key)]

AllRows == {rows[i] : i \in DOMAIN rows}

(* from: the table, or the join table with the rows behind it.               *)
Scanned(sql) ==
  IF sql[1].op \in {"links", "linkedBy"}
  THEN {Env(pair[2], pair[1].id) :
          pair \in {p \in AllRows \X AllRows : Leads(sql[1].op, p[1], p[2])}}
  ELSE {Env(row, NULL) : row \in AllRows}

Joined(sql, env) ==
  LET joins == SelectSeq(sql, LAMBDA f : f.part = "join")
      pairs == {e \in {[env EXCEPT !.j = row] : row \in AllRows} :
                  Accepts(sql, "on", 1, e)} IN
  CASE joins = <<>> -> {env}
    [] joins # <<>> /\ pairs # {} -> pairs
    [] OTHER -> IF joins[1].op = "left" THEN {env} ELSE {}

Selected(sql) ==
  {env \in UNION {Joined(sql, e) : e \in Scanned(sql)} :
     /\ Accepts(sql, "where", 0, env)
     /\ \A f \in {f \in ToSet(sql) : f.part = "has"} :
          f.not # \E row \in AllRows :
                     /\ Leads(f.op, env.root, row)
                     /\ Accepts(sql, "related", f.at, [env EXCEPT !.rel = row])}

(* Null is low, on PostgreSQL high; what ties comes by its keys.             *)
Rank(f, env) ==
  LET v == env[f.source][f.column] IN
  IF v = NULL /\ (f.placed \/ dialect = "postgres") THEN High ELSE v

ByKeys(x, y) ==
  x.root.id * 100 + x.j.id * 10 + x.link.id
    < y.root.id * 100 + y.j.id * 10 + y.link.id

Ahead(orders, x, y) ==
  LET differ == {i \in DOMAIN orders : Rank(orders[i], x) # Rank(orders[i], y)}
      first == CHOOSE i \in differ : \A k \in differ : i <= k IN
  IF differ = {} THEN ByKeys(x, y)
  ELSE (Rank(orders[first], x) < Rank(orders[first], y))
         = (orders[first].op = "asc")

(* Each in the place that the number of those ahead of it gives it.          *)
Sorted(orders, S) ==
  [i \in 1..Cardinality(S) |->
     CHOOSE x \in S :
       Cardinality({y \in S \ {x} : Ahead(orders, y, x)}) = i - 1]

Paged(s, limit, offset) ==
  LET start == IF offset = <<>> THEN 0 ELSE offset[1]
      end == IF limit = <<>> \/ start + limit[1] > Len(s) THEN Len(s)
             ELSE start + limit[1] IN
  SubSeq(s, start + 1, end)

ValuesOf(sql, part) ==
  LET mine == SelectSeq(sql, LAMBDA f : f.part = part) IN
  IF mine = <<>> THEN <<>> ELSE mine[1].values

(* row_number() over (partition by ... order by ...), by partition.          *)
Windowed(sql, over, sorted) ==
  LET key(e) == e[over.source][over.column]
      keys == SetToSortSeq({key(e) : e \in ToSet(sorted)}, <)
      above == ValuesOf(sql, "above")
      upto == ValuesOf(sql, "upto")
      start == IF above = <<>> THEN 0 ELSE above[1] IN
  FlattenSeq([k \in DOMAIN keys |->
    LET own == SelectSeq(sorted, LAMBDA e : key(e) = keys[k])
        end == IF upto = <<>> \/ upto[1] > Len(own) THEN Len(own) ELSE upto[1] IN
    SubSeq(own, start + 1, end)])

(* The rows of a statement whose placeholders are filled.                    *)
Returned(sql) ==
  LET orders == SelectSeq(sql, LAMBDA f : f.part = "order")
      over == SelectSeq(sql, LAMBDA f : f.part = "over")
      sorted == Sorted(orders, Selected(sql)) IN
  IF over # <<>> THEN Windowed(sql, over[1], sorted)
  ELSE Paged(sorted, ValuesOf(sql, "limit"), ValuesOf(sql, "offset"))

(* What a row of the result holds: its fields, or the key of the entity.     *)
Record(sql, env) ==
  LET columns == SelectSeq(sql, LAMBDA f : f.part = "column") IN
  IF columns = <<>> THEN <<env.root.id>>
  ELSE [i \in DOMAIN columns |->
          IF columns[i].op = "literal" THEN columns[i].values[1]
          ELSE env[columns[i].source][columns[i].column]]

-----------------------------------------------------------------------------
(* The statements of an include. They are fresh queries: the flags of the    *)
(* query that includes do not reach them.                                    *)

In(source, column, keys) == Only(Condition(source, column, "in", keys))

Related(include) ==
  [EmptyQuery EXCEPT !.predicate = include.predicate,
                     !.orderings = include.orderings]

IsPaged(include) == include.limit # <<>> \/ include.offset # <<>>

(* The rank of a row among its parent's is placed as the rows of a query are. *)
IncludeOrder(orderings) ==
  IF orderings = <<>>
  THEN OrderParts(<<[source |-> "root", column |-> "id", direction |-> "asc"]>>,
                  {"id"})
  ELSE OrderParts(orderings, {})

WindowParts(include) ==
  LET offset == IF include.offset = <<>> THEN 0 ELSE include.offset[1] IN
  (IF offset > 0 THEN Bound("above", <<offset>>) ELSE <<>>)
  \o (IF include.limit = <<>> THEN <<>>
      ELSE Bound("upto", <<offset + include.limit[1]>>))

Over(source, column) ==
  <<[Fragment("over") EXCEPT !.source = source, !.column = column]>>

(* Parents by their keys, as any query; the page of the include is a page of *)
(* all of them (GlobalWindow).                                               *)
ParentStatement(include, keys, known, store) ==
  LET q == [Related(include) EXCEPT !.predicate = In("root", "id", keys) \o @,
                                    !.limit = include.limit,
                                    !.offset = include.offset] IN
  Built(Filtered(q, known), store)

(* Children by their reference, as any query; a page is a page per parent.   *)
ChildrenWindow(include, f) ==
  Word("select", "rows") \o Over("root", "parent") \o IncludeOrder(f.orderings)
  \o Compiled("where", 0, f.predicate) \o WindowParts(include)

ChildrenStatement(include, keys, known, store) ==
  LET q == [Related(include) EXCEPT !.predicate = In("root", "parent", keys) \o @]
      f == Filtered(q, known) IN
  IF IsPaged(include) THEN Sent(ChildrenWindow(include, f)) @@ [store |-> store]
  ELSE Built(f, store)

(* Linked rows through the join table. For one root a page is a plain limit  *)
(* and a bare offset (BareOffset).                                           *)
LinkedWindow(include, where, f) ==
  Word("select", include.nav) \o Over("link", "id") \o IncludeOrder(f.orderings)
  \o where \o WindowParts(include)

LinkedBatch(include, where, f) ==
  LET page(part, count) == IF count = <<>> THEN <<>> ELSE Bound(part, count) IN
  Word("select", include.nav) \o where
  \o (IF f.orderings = <<>> THEN <<>> ELSE IncludeOrder(f.orderings))
  \o page("limit", include.limit) \o page("offset", include.offset)

LinkedStatement(include, keys, known, store, many) ==
  LET f == Filtered(Related(include), known)
      where == Compiled("where", 0, In("link", "id", keys) \o f.predicate) IN
  Sent(IF many /\ IsPaged(include) THEN LinkedWindow(include, where, f)
       ELSE LinkedBatch(include, where, f))
  @@ [store |-> store]

IncludeStatement(include, keys, known, store, many) ==
  CASE include.nav = "parent" -> ParentStatement(include, keys, known, store)
    [] include.nav = "children" -> ChildrenStatement(include, keys, known, store)
    [] OTHER -> LinkedStatement(include, keys, known, store, many)

(* The keys a root looks for, and the key a loaded row is handed out by.     *)
KeyOf(nav, row) == IF nav = "parent" THEN row.parent ELSE row.id

LoadedBy(nav, env) ==
  CASE nav = "parent" -> env.root.id
    [] nav = "children" -> env.root.parent
    [] OTHER -> env.link.id

Keys(include, roots) ==
  LET all == [i \in DOMAIN roots |-> KeyOf(include.nav, rows[roots[i]])] IN
  SelectSeq([i \in DOMAIN all |->
               IF \E k \in 1..(i - 1) : all[k] = all[i] THEN NULL ELSE all[i]],
            LAMBDA key : key # NULL)

(* An include that finds no key is not asked for. Its size is how many keys  *)
(* go into a statement, 0 if that is not known yet; a page of parents spans  *)
(* all of their keys.                                                        *)
Pending(includes, roots) ==
  SelectSeq([i \in DOMAIN includes |->
               LET keys == Keys(includes[i], roots)
                   whole == includes[i].nav = "parent" /\ IsPaged(includes[i]) IN
               [include |-> includes[i], keys |-> keys,
                size |-> IF whole THEN Len(keys) ELSE 0]],
            LAMBDA p : p.keys # <<>>)

-----------------------------------------------------------------------------
(* The program refines a queryable.                                          *)

Spend == budget > 0 /\ budget' = budget - 1

Refine(q) ==
  /\ op.stage = "none"
  /\ Spend
  /\ query' = q
  /\ UNCHANGED <<dialect, cross, tenant, rows, links, cache, op>>

IsJoined == query.joins # <<>>
Known == IF IsJoined THEN {"root", "j"} ELSE {"root"}

Where(clause) ==
  /\ Sources(<<clause>>) \subseteq Known
  /\ Refine([query EXCEPT !.predicate = Append(@, clause)])

OrderBy(ordering) ==
  /\ ordering.source \in Known
  /\ Refine([query EXCEPT !.orderings = Append(@, ordering)])

Skip(count) == Refine([query EXCEPT !.offset = <<count>>])

TakeRows(count) == Refine([query EXCEPT !.limit = <<count>>])

IgnoreQueryFilters ==
  ~query.noFilters /\ Refine([query EXCEPT !.noFilters = TRUE])

IgnoreTenantScope ==
  ~query.noScope /\ Refine([query EXCEPT !.noScope = TRUE])

WhereHas(existence) ==
  /\ ~IsJoined /\ query.projection = <<>>
  /\ Refine([query EXCEPT !.existence = Append(@, existence)])

(* An include of the same navigation replaces the one before it.             *)
Upserted(includes, include) ==
  LET same == {i \in DOMAIN includes : includes[i].nav = include.nav} IN
  IF same = {} THEN Append(includes, include)
  ELSE [i \in DOMAIN includes |-> IF i \in same THEN include ELSE includes[i]]

Include(include) ==
  /\ ~IsJoined /\ query.projection = <<>>
  /\ Refine([query EXCEPT !.includes = Upserted(@, include)])

(* One join, of the set with itself.                                         *)
Join(join) ==
  /\ ~IsJoined /\ query.projection = <<>>
  /\ Refine([query EXCEPT !.joins = <<join>>])

Select(projection) ==
  /\ query.projection = <<>>
  /\ \A i \in DOMAIN projection : projection[i].source \in Known
  /\ Refine([query EXCEPT !.projection = projection])

(* Queryables are immutable: the program goes on from the one it asked, or   *)
(* from the set.                                                             *)
NextQuery(kept) ==
  /\ op.stage \in {"answered", "ambiguous", "refused", "rejected"}
  /\ Spend
  /\ query' = IF kept THEN op.query ELSE EmptyQuery
  /\ op' = Idle
  /\ UNCHANGED <<dialect, cross, tenant, rows, links, cache>>

(* The program acts for another tenant, or for none, maybe while a query     *)
(* waits for its includes.                                                   *)
SwitchTenant(t) ==
  /\ t # tenant
  /\ Spend
  /\ tenant' = t
  /\ UNCHANGED <<dialect, cross, rows, links, query, cache, op>>

-----------------------------------------------------------------------------
(* The terminals.                                                            *)

Started(kind, set, known) ==
  [Idle EXCEPT !.kind = kind, !.query = query, !.set = set, !.known = known,
               !.before = <<[rows |-> rows, links |-> links]>>]

Refused(o) == [o EXCEPT !.stage = "refused"]

(* A statement with too many parameters is not sent.                         *)
Asked(o, st, stage) ==
  IF TooMany(st.values) THEN Refused(o)
  ELSE [o EXCEPT !.stage = stage, !.sent = [text |-> st.text, values |-> st.values]]

(* What came back is handed out, unless one was asked for and there are two. *)
Closed(o) ==
  [o EXCEPT !.sent = Nothing,
            !.stage = CASE o.left # <<>> -> "including"
                        [] o.left = <<>> /\ o.kind = "single" /\ Len(o.answer) > 1 ->
                             "ambiguous"
                        [] OTHER -> "answered"]

(* A terminal reads fewer rows than the query takes, never more.             *)
Limited(kind) ==
  LET most == IF kind = "first" THEN 1 ELSE 2 IN
  IF kind = "toArray" \/ (query.limit # <<>> /\ query.limit[1] <= most)
  THEN query.limit
  ELSE <<most>>

(* toArray, first and single, of entities with their includes or of a        *)
(* projection.                                                               *)
ReadRows(kind) ==
  LET asked == [query EXCEPT !.limit = Limited(kind)]
      known == Resolved(asked, <<>>)
      start == Started(kind, <<>>, known) IN
  /\ op.stage = "none"
  /\ IsJoined => query.projection # <<>>
  /\ IF Unavailable(asked, known)
     THEN op' = Refused(start) /\ cache' = cache
     ELSE \E st \in {Built(Filtered(asked, known), cache)} :
            cache' = st.store /\ op' = Asked(start, st, "asking")
  /\ UNCHANGED <<dialect, cross, tenant, rows, links, query, budget>>

(* count and exists, of the page if there is one.                            *)
Tally(kind) ==
  LET known == Resolved(query, <<>>)
      start == Started(kind, <<>>, known) IN
  /\ op.stage = "none"
  /\ op' = IF Unavailable(query, known) THEN Refused(start)
           ELSE Asked(start, Sent(TallyParts(kind, Filtered(query, known))), "asking")
  /\ UNCHANGED <<dialect, cross, tenant, rows, links, query, cache, budget>>

(* executeDelete and executeUpdate change what a filter says, nothing less.  *)
Unsupported(q) ==
  \/ q.predicate = <<>> \/ q.includes # <<>> \/ q.existence # <<>>
  \/ q.orderings # <<>> \/ q.offset # <<>> \/ q.limit # <<>>

MovesRows(set) == ~cross /\ \E i \in DOMAIN set : set[i].column = "tenant"

SetParts(set) ==
  [i \in DOMAIN set |->
     [Fragment("set") EXCEPT !.column = set[i].column,
                             !.values = <<set[i].value>>]]

UpdateParts(set, q) ==
  Word("update", "rows") \o SetParts(set) \o Compiled("where", 0, q.predicate)

DeleteParts(q) == Word("delete", "rows") \o Compiled("where", 0, q.predicate)

ChangeParts(kind, set, q) ==
  IF kind = "update" THEN UpdateParts(set, q) ELSE DeleteParts(q)

ChangeRows(kind, set) ==
  LET known == Resolved(query, <<>>)
      start == Started(kind, set, known) IN
  /\ op.stage = "none"
  /\ ~IsJoined /\ query.projection = <<>>
  /\ op' = IF Unsupported(query) \/ Unavailable(query, known) \/ MovesRows(set)
           THEN Refused(start)
           ELSE Asked(start, Sent(ChangeParts(kind, set, Filtered(query, known))), "asking")
  /\ UNCHANGED <<dialect, cross, tenant, rows, links, query, cache, budget>>

-----------------------------------------------------------------------------
(* The database answers.                                                     *)

(* SQLite and MySQL know an offset only behind a limit.                      *)
Rejected ==
  \/ Placeholders(op.sent) # Len(op.sent.values)
  \/ dialect # "postgres" /\ Has(op.sent, "offset") /\ ~Has(op.sent, "limit")

RejectStatement ==
  /\ op.stage \in {"asking", "fetching"}
  /\ Rejected
  /\ op' = [op EXCEPT !.stage = "rejected", !.sent = Nothing]
  /\ UNCHANGED <<dialect, cross, tenant, rows, links, query, cache, budget>>

Opened(sql, found) ==
  LET roots == IF op.query.projection # <<>> THEN <<>>
               ELSE [i \in DOMAIN found |-> found[i].root.id] IN
  [op EXCEPT !.roots = roots, !.left = Pending(op.query.includes, roots),
             !.answer = [i \in DOMAIN found |-> Record(sql, found[i])]]

Counted(number) ==
  [op EXCEPT !.answer =
     <<<<IF op.kind = "exists" /\ number > 0 THEN 1 ELSE number>>>>]

AnswerRead ==
  /\ op.stage = "asking" /\ op.kind \notin {"delete", "update"}
  /\ ~Rejected
  /\ \E sql \in {Filled(op.sent)} :
       \E found \in {Returned(sql)} :
         op' = Closed(IF op.kind \in {"count", "exists"} THEN Counted(Len(found))
                      ELSE Opened(sql, found))
  /\ UNCHANGED <<dialect, cross, tenant, rows, links, query, cache, budget>>

(* The database clears the references to deleted rows and drops their links. *)
Deleted(ids) ==
  /\ rows' = [i \in DOMAIN rows \ ids |->
       IF rows[i].parent \in ids THEN [rows[i] EXCEPT !.parent = NULL] ELSE rows[i]]
  /\ links' = {p \in links : p[1] \notin ids /\ p[2] \notin ids}

Updated(ids, sets) ==
  /\ rows' = [i \in DOMAIN rows |->
       IF i \in ids THEN [rows[i] EXCEPT ![sets[1].column] = sets[1].values[1]]
       ELSE rows[i]]
  /\ UNCHANGED links

AnswerChange ==
  /\ op.stage = "asking" /\ op.kind \in {"delete", "update"}
  /\ \E sql \in {Filled(op.sent)} :
       \E ids \in {{env.root.id : env \in Selected(sql)}} :
         /\ op' = Closed(Counted(Cardinality(ids)))
         /\ IF op.kind = "delete" THEN Deleted(ids)
            ELSE Updated(ids, SelectSeq(sql, LAMBDA f : f.part = "set"))
  /\ UNCHANGED <<dialect, cross, tenant, query, cache, budget>>

-----------------------------------------------------------------------------
(* The includes, one statement after the other.                              *)

(* As many keys go into a statement as there are placeholders left for,      *)
(* which the statement for the first key tells.                              *)
Room(sample) == (MaxParameters + 1) - Len(sample.values)

AskedFor(now, size, st, known) ==
  Asked([op EXCEPT !.known = known, !.store = st.store,
                   !.left[1].keys = Paged(now.keys, <<>>, <<size>>),
                   !.left[1].size = size],
        st, "fetching")

AskInclude ==
  LET now == op.left[1]
      include == now.include
      known == Resolved(Related(include), op.known)
      statement(keys, store) ==
        IncludeStatement(include, keys, known, store, Len(op.roots) > 1) IN
  /\ op.stage = "including"
  /\ IF Unavailable(Related(include), op.known)
     THEN op' = Refused([op EXCEPT !.known = known])
     ELSE \E plan \in {IF now.size > 0 THEN [size |-> now.size, store |-> op.store]
                      ELSE LET sample == statement(<<now.keys[1]>>, op.store) IN
                           [size |-> Room(sample), store |-> sample.store]} :
            op' = IF plan.size < 1 THEN Refused([op EXCEPT !.known = known])
                  ELSE AskedFor(now, plan.size,
                         statement(Paged(now.keys, <<plan.size>>, <<>>), plan.store),
                         known)
  /\ UNCHANGED <<dialect, cross, tenant, rows, links, query, cache, budget>>

AnswerInclude ==
  LET now == op.left[1] IN
  /\ op.stage = "fetching"
  /\ ~Rejected
  /\ \E found \in {Returned(Filled(op.sent))} :
       op' = Closed([op EXCEPT
         !.left = IF now.keys = <<>> THEN Tail(@) ELSE @,
         !.loaded = @ \o [i \in DOMAIN found |->
            [nav |-> now.include.nav, key |-> LoadedBy(now.include.nav, found[i]),
             id |-> found[i].root.id]]])
  /\ UNCHANGED <<dialect, cross, tenant, rows, links, query, cache, budget>>

QueryNext ==
  \/ \E clause \in Conditions : Where(clause)
  \/ \E ordering \in Orders : OrderBy(ordering)
  \/ \E count \in Counts : Skip(count)
  \/ \E count \in Counts : TakeRows(count)
  \/ IgnoreQueryFilters
  \/ IgnoreTenantScope
  \/ \E existence \in Existences : WhereHas(existence)
  \/ \E include \in Includes : Include(include)
  \/ \E join \in Joins : Join(join)
  \/ \E projection \in Projections : Select(projection)
  \/ \E kept \in BOOLEAN : NextQuery(kept)
  \/ \E t \in Tenants : SwitchTenant(t)
  \/ \E kind \in {"toArray", "first", "single"} : ReadRows(kind)
  \/ \E kind \in {"count", "exists"} : Tally(kind)
  \/ ChangeRows("delete", <<>>)
  \/ \E set \in Assignments : ChangeRows("update", <<set>>)
  \/ RejectStatement
  \/ AnswerRead
  \/ AnswerChange
  \/ AskInclude
  \/ AnswerInclude

QuerySpec == QueryInit /\ [][QueryNext]_queryVars

-----------------------------------------------------------------------------
(* What the operation was asked, read off the query and the rows it started  *)
(* from: neither filters nor statements nor chunks.                          *)

Before == op.before[1].rows

Visible(q, row) ==
  /\ q.noFilters \/ row.deleted = NULL
  /\ Scoped(q) => <<row.tenant>> = op.known

VisibleRows(q) == {row \in {Before[i] : i \in DOMAIN Before} : Visible(q, row)}

Meaning(c, env) ==
  LET v == env[c.source][c.column]
      w == env[c.other[1]][c.other[2]] IN
  CASE c.op = "same" -> IF NULL \in {v, w} THEN 1 ELSE Truth(v = w)
    [] HasNull(c) /\ v = NULL -> Truth(c.op # "ne")
    [] HasNull(c) /\ c.op # "in" -> Truth(c.op = "ne")
    [] c.op = "in" /\ Given(c) = <<>> -> 0
    [] c.op = "isNull" -> Truth(v = NULL)
    [] v = NULL /\ c.op # "isNull" -> 1
    [] OTHER -> Truth(CASE c.op = "ne" -> v # c.values[1]
                        [] c.op = "gt" -> v > c.values[1]
                        [] OTHER -> v \in ToSet(c.values))

Holds(clauses, env) ==
  \A i \in DOMAIN clauses :
    LET best == Highest({Meaning(c, env) : c \in ToSet(clauses[i].any)}) IN
    best = IF clauses[i].not THEN 0 ELSE 2

Partners(q, row) ==
  {env \in {[Env(row, NULL) EXCEPT !.j = other] : other \in VisibleRows(q)} :
     Holds(q.joins[1].predicate, env)}

Meant(q) ==
  LET pairs(row) ==
        CASE q.joins = <<>> -> {Env(row, NULL)}
          [] q.joins # <<>> /\ Partners(q, row) # {} -> Partners(q, row)
          [] OTHER -> IF q.joins[1].kind = "left" THEN {Env(row, NULL)} ELSE {}
      found(e, row) ==
        \E other \in VisibleRows(q) :
          /\ Leads(e.nav, row, other)
          /\ Holds(e.predicate, [Env(row, NULL) EXCEPT !.rel = other]) IN
  {env \in UNION {pairs(row) : row \in VisibleRows(q)} :
     /\ Holds(q.predicate, env)
     /\ \A i \in DOMAIN q.existence :
          q.existence[i].not # found(q.existence[i], env.root)}

(* Null comes after every value, whatever the database.                      *)
InOrder(orderings, S) ==
  Sorted([i \in DOMAIN orderings |->
            [source |-> orderings[i].source, column |-> orderings[i].column,
             op |-> orderings[i].direction, placed |-> TRUE]],
         S)

Expected == Paged(InOrder(op.query.orderings, Meant(op.query)),
                  op.query.limit, op.query.offset)

Shown(env) ==
  IF op.query.projection = <<>> THEN <<env.root.id>>
  ELSE [i \in DOMAIN op.query.projection |->
          LET c == op.query.projection[i] IN
          IF c.literal # <<>> THEN c.literal[1] ELSE env[c.source][c.column]]

ExpectedRelated(include, row) ==
  LET q == EmptyQuery
      related == {env \in {Env(other, NULL) : other \in VisibleRows(q)} :
                    /\ Leads(include.nav, row, env.root)
                    /\ Holds(include.predicate, env)}
      sorted == Paged(InOrder(include.orderings, related), include.limit, include.offset) IN
  [i \in DOMAIN sorted |-> sorted[i].root.id]

Stitched(include, row) ==
  LET own == SelectSeq(op.loaded, LAMBDA l :
        l.nav = include.nav /\ l.key # NULL /\ l.key = KeyOf(include.nav, row)) IN
  [i \in DOMAIN own |-> own[i].id]

(* The code's reference include applies a page to all parents together.      *)
GlobalWindow(include) ==
  include.nav = "parent" /\ IsPaged(include) /\ Len(Keys(include, op.roots)) > 1

(* The batch statement of a many-to-many include sends an offset without a   *)
(* limit, which two of the three databases reject.                           *)
BareOffset(include) ==
  /\ include.nav \in {"links", "linkedBy"} /\ Len(op.roots) = 1
  /\ include.offset # <<>> /\ include.limit = <<>>

-----------------------------------------------------------------------------
(* Properties.                                                               *)

ChangedAs(kind, set, targets) ==
  rows = [i \in (IF kind = "delete" THEN DOMAIN Before \ targets ELSE DOMAIN Before) |->
    CASE kind = "update" /\ i \in targets ->
           [Before[i] EXCEPT ![set[1].column] = set[1].value]
      [] kind = "delete" /\ Before[i].parent \in targets ->
           [Before[i] EXCEPT !.parent = NULL]
      [] OTHER -> Before[i]]

AnswerIsRight(found) ==
  LET asked == [i \in DOMAIN found |-> Shown(found[i])]
      targets == {found[i].root.id : i \in DOMAIN found} IN
  CASE op.kind = "toArray" -> op.answer = asked
    [] op.kind = "first" -> op.answer = Paged(asked, <<1>>, <<>>)
    [] op.kind = "single" -> Len(asked) <= 1 /\ op.answer = asked
    [] op.kind = "count" -> op.answer = <<<<Len(found)>>>>
    [] op.kind = "exists" -> op.answer = <<<<IF found = <<>> THEN 0 ELSE 1>>>>
    [] OTHER ->
         op.answer = <<<<Len(found)>>>> /\ ChangedAs(op.kind, op.set, targets)

IncludesAreRight ==
  \A include \in ToSet(op.query.includes) :
    GlobalWindow(include) \/
      \A id \in ToSet(op.roots) :
        Stitched(include, Before[id]) = ExpectedRelated(include, Before[id])

(* The parameters a query, and a statement of an include, cannot do without. *)
Own(q) ==
  Len(Collected(q)) + Len(FlattenSeq([i \in DOMAIN q.joins |-> Values(q.joins[i].predicate)]))
  + (IF q.limit = <<>> /\ op.kind \in {"first", "single"} THEN 1 ELSE 0)
  + Len(op.set)
  + (IF Scoped(q) THEN 1 + Len(q.joins) + Len(q.existence) ELSE 0)

OwnOfInclude(include) ==
  Own([Related(include) EXCEPT !.limit = include.limit, !.offset = include.offset])
  + (IF GlobalWindow(include) THEN Len(Keys(include, op.roots)) ELSE 1)

RefusalIsDue ==
  \/ op.known = <<NULL>>
  \/ op.kind \in {"delete", "update"} /\ (Unsupported(op.query) \/ MovesRows(op.set))
  \/ Own(op.query) > MaxParameters
  \/ \E include \in ToSet(op.query.includes) : OwnOfInclude(include) > MaxParameters

(* A query is answered with what it asks of the rows its filters let it see: *)
(* whatever was compiled before and served from the cache (select-sql-cache), *)
(* in whatever order the values were collected (select-value-collector), and *)
(* in however many chunks its includes were asked for (include-loader). It   *)
(* is refused for its own values, never for the number of its keys.          *)
AnswersAreTheOnesAsked ==
  /\ QueryTypeOK
  /\ op.stage = "answered" =>
       IncludesAreRight /\ \E found \in {Expected} : AnswerIsRight(found)
  /\ op.stage = "ambiguous" => op.kind = "single" /\ Len(Expected) > 1
  /\ op.stage = "refused" => RefusalIsDue
  /\ op.stage = "rejected" =>
       /\ dialect # "postgres"
       /\ \E include \in ToSet(op.query.includes) : BareOffset(include)

(* The rows of an operation and of all its includes are of one tenant, even  *)
(* if the program acts for another while statements are on their way         *)
(* (tenant-scope-resolver resolves once an operation).                       *)
OneTenantPerOperation ==
  LET loaded == {op.loaded[i].id : i \in DOMAIN op.loaded}
      roots == IF op.query.noScope THEN {} ELSE ToSet(op.roots) IN
  ~cross => Cardinality({Before[id].tenant : id \in loaded \cup roots}) <= 1

=============================================================================
