----------------------------- MODULE MCSavePlan -----------------------------
(* SavePlan and SelectQueries for TLC, side by side: a context that saves,   *)
(* with three entities and the relationships a model can have, or one that   *)
(* asks. The two share no state, and the one that does nothing stays in one  *)
(* of its initial states.                                                    *)
EXTENDS SavePlan, SelectQueries

VARIABLE side

Shape(oneToOne, required, generated, onDelete) ==
  [oneToOne |-> oneToOne, required |-> required, generated |-> generated,
   onDelete |-> onDelete]

ManyToOne ==
  {Shape(FALSE, required, generated, onDelete) :
     required \in BOOLEAN, generated \in BOOLEAN,
     onDelete \in {"cascade", "restrict"}}
  \cup {Shape(FALSE, FALSE, generated, "setNull") : generated \in BOOLEAN}

RequiredSlots == {Shape(TRUE, TRUE, generated, "cascade") : generated \in BOOLEAN}

PlannedShapes == ManyToOne \cup RequiredSlots
-----------------------------------------------------------------------------
Row(id, t, deleted, mark, parent) ==
  [id |-> id, deleted |-> deleted, mark |-> mark, parent |-> parent, tenant |-> t]

(* Three rows of tenant 1 under one parent, one of them unmarked; a row of    *)
(* tenant 2; a deleted one.                                                  *)
Table ==
  <<Row(1, 1, NULL, 1, NULL), Row(2, 1, NULL, 2, 1), Row(3, 1, NULL, NULL, 1),
    Row(4, 2, NULL, 2, 1), Row(5, 1, 1, 1, 2)>>

Linked == {<<1, 2>>, <<1, 3>>, <<2, 3>>, <<1, 4>>, <<1, 5>>}

World(d, c, t) ==
  [tenant |-> t, dialect |-> d, cross |-> c, rows |-> Table, links |-> Linked]

MCWorlds ==
  {World("postgres", FALSE, 1), World("mysql", FALSE, 1), World("sqlite", TRUE, 1)}
MCTenants == {NULL, 1, 2}

Mark(source, operator, values) == Condition(source, "mark", operator, values)
Clause(not, any) == [not |-> not, any |-> any]

MCConditions ==
  {Clause(FALSE, <<Mark("root", "eq", <<1>>)>>),
   Clause(FALSE, <<Mark("root", "eq", <<NULL>>)>>),
   Clause(FALSE, <<Mark("root", "in", <<1, 2>>)>>),
   Clause(FALSE, <<Mark("root", "in", <<2, NULL>>)>>),
   Clause(FALSE, <<Mark("root", "in", <<NULL>>)>>),
   Clause(TRUE, <<Mark("root", "ne", <<2>>)>>),
   Clause(FALSE, <<Mark("root", "ne", <<NULL>>), Mark("j", "gt", <<1>>)>>)}

MCOrders == {[source |-> "root", column |-> "mark", direction |-> "asc"]}
MCCounts == {1}

Children == Condition("j", "parent", "same", <<>>)
MCJoins ==
  {[kind |-> k, predicate |-> Only([Children EXCEPT !.other = <<"root", "id">>])] :
     k \in {"inner", "left"}}

MCExistences ==
  {[not |-> n, predicate |-> Only(Mark("rel", "eq", <<2>>)), nav |-> "children"] :
     n \in BOOLEAN}

Inc(nav, p, o, limit, offset) ==
  [predicate |-> p, nav |-> nav, limit |-> limit, offset |-> offset, orderings |-> o]

ByMark == <<[source |-> "root", column |-> "mark", direction |-> "desc"]>>

MCIncludes ==
  {Inc("parent", <<>>, <<>>, <<>>, <<>>),
   Inc("parent", <<>>, <<>>, <<1>>, <<>>),
   Inc("children", <<>>, ByMark, <<1>>, <<1>>),
   Inc("children", Only(Mark("root", "gt", <<1>>)), <<>>, <<>>, <<>>),
   Inc("links", <<>>, ByMark, <<>>, <<1>>),
   Inc("linkedBy", Only(Mark("root", "eq", <<1>>)), <<>>, <<1>>, <<>>)}

Shows(source, column, literal) ==
  [source |-> source, column |-> column, literal |-> literal]

MCProjections ==
  {<<Shows("root", "mark", <<>>), Shows("root", "id", <<7>>)>>,
   <<Shows("root", "mark", <<>>), Shows("root", "id", <<>>)>>,
   <<Shows("root", "id", <<>>), Shows("j", "id", <<>>)>>}

MCAssignments == {[column |-> "mark", value |-> 1], [column |-> "tenant", value |-> 2]}

-----------------------------------------------------------------------------
NothingSaved ==
  /\ shape = Shape(FALSE, FALSE, FALSE, "restrict")
  /\ state = [e \in Entities |-> "Unchanged"]
  /\ orig = [e \in Entities |-> None] /\ fk = orig
  /\ pending = <<>> /\ plan = <<>> /\ written = 0
  /\ db = orig
  /\ phase = "edited"

NothingAsked ==
  /\ dialect = "postgres" /\ cross = FALSE /\ tenant = 1
  /\ rows = Table /\ links = Linked
  /\ query = EmptyQuery /\ cache = <<>> /\ op = Idle /\ budget = 0

Saves == side = "saves" /\ UNCHANGED <<queryVars, side>>
Queries == side = "queries" /\ UNCHANGED <<vars, side>>

EitherInit ==
  \/ side = "saves" /\ Init /\ NothingAsked
  \/ side = "queries" /\ QueryInit /\ NothingSaved

EitherNext ==
  \/ Saves /\ Reject
  \/ Saves /\ Detect
  \/ Saves /\ Cascade
  \/ Saves /\ Cascaded
  \/ Saves /\ TakeReady
  \/ Saves /\ BreakCycle
  \/ Saves /\ Ordered
  \/ Saves /\ Execute
  \/ Saves /\ Refuse
  \/ Saves /\ Commit
  \/ \E clause \in Conditions : Queries /\ Where(clause)
  \/ \E ordering \in Orders : Queries /\ OrderBy(ordering)
  \/ \E count \in Counts : Queries /\ Skip(count)
  \/ \E count \in Counts : Queries /\ TakeRows(count)
  \/ Queries /\ IgnoreQueryFilters
  \/ Queries /\ IgnoreTenantScope
  \/ \E existence \in Existences : Queries /\ WhereHas(existence)
  \/ \E include \in Includes : Queries /\ Include(include)
  \/ \E join \in Joins : Queries /\ Join(join)
  \/ \E projection \in Projections : Queries /\ Select(projection)
  \/ \E kept \in BOOLEAN : Queries /\ NextQuery(kept)
  \/ \E t \in Tenants : Queries /\ SwitchTenant(t)
  \/ \E kind \in {"toArray", "first", "single"} : Queries /\ ReadRows(kind)
  \/ \E kind \in {"count", "exists"} : Queries /\ Tally(kind)
  \/ Queries /\ ChangeRows("delete", <<>>)
  \/ \E set \in Assignments : Queries /\ ChangeRows("update", <<set>>)
  \/ Queries /\ RejectStatement
  \/ Queries /\ AnswerRead
  \/ Queries /\ AnswerChange
  \/ Queries /\ AskInclude
  \/ Queries /\ AnswerInclude

SavesOrQueries == EitherInit /\ [][EitherNext]_<<vars, queryVars, side>>
=============================================================================
