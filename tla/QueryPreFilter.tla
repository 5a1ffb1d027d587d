---------------------------- MODULE QueryPreFilter ----------------------------
(* The application's pre-filter of a query: a walk over the parsed statement *)
(* that resolves each name to the treatments behind it and refuses what they *)
(* do not allow (entitlements/application/aggregate.ts).  A statement is a   *)
(* tree of records, as DuckDB serialises it; positions, materialisation      *)
(* hints and the other fields that only have to be well-formed are left out, *)
(* and so is the complexity limit of 10000 visits and 100 levels.  Before it, *)
(* what a pool's policy compiles to (compile.ts) and which of it a name in a  *)
(* query means (resolve.ts).  There a name is a sequence of characters; which *)
(* types a treatment accepts, and the declarations a token needs, are the    *)
(* flags usable, countable and suits of an element, and all the refusals of a *)
(* compilation are one: it fails as a whole.                                  *)
EXTENDS Naturals, Sequences, FiniteSets, SequencesExt, TLC

CONSTANTS
  Views,        \* the compiled views of the pool
  Omitted,      \* names of the objects that have no view
  EngineBuild,  \* the engine's build of the parser
  Lower         \* the lower-case form of each upper-case character

Fold(name) == [i \in DOMAIN name |-> IF name[i] \in DOMAIN Lower THEN Lower[name[i]] ELSE name[i]]
Folded(name) == Fold(name) = name
Distinct(Of(_), S) == \A x, y \in S : x # y => Of(x) # Of(y)

(* A policy: its sources, objects and elements are sets of records.          *)
SourcesAgree(policy) ==
  /\ Distinct(LAMBDA s : s.id, policy.sources)
  /\ Distinct(LAMBDA s : Fold(s.alias), policy.sources)
  /\ \A s \in policy.sources : Folded(s.alias)

ActiveObjects(policy) ==
  {o \in policy.objects : o.active /\ \E s \in policy.sources : s.id = o.source}
SourceOf(policy, o) == CHOOSE s \in policy.sources : s.id = o.source
Address(policy, o) == <<SourceOf(policy, o).alias, o.schema, o.name>>
Staged(address) == address[1] \o <<"_", "_">> \o address[2] \o <<"_", "_">> \o address[3]
FoldAddress(address) == [i \in DOMAIN address |-> Fold(address[i])]

(* Mutant: only the exposed names have to differ.                            *)
ObjectsDiffer(policy) ==
  /\ Distinct(LAMBDA o : o.id, ActiveObjects(policy))
  /\ Distinct(LAMBDA o : FoldAddress(Address(policy, o)), ActiveObjects(policy))
  /\ \A o \in ActiveObjects(policy) : Folded(o.schema) /\ Folded(o.name)

(* Objects differ in their exposed and in their staged names.                *)
ObjectsAgree(policy) ==
  /\ Distinct(LAMBDA o : o.id, ActiveObjects(policy))
  /\ Distinct(LAMBDA o : FoldAddress(Address(policy, o)), ActiveObjects(policy))
  /\ Distinct(LAMBDA o : Staged(Address(policy, o)), ActiveObjects(policy))
  /\ \A o \in ActiveObjects(policy) : Folded(o.schema) /\ Folded(o.name)

ElementsOf(policy, o) == {e \in policy.elements : e.active /\ e.object = o.id}
Contributors(E) == {e \in E : e.contributor}
Contributed(E) == \E e \in Contributors(E) : e.countable
ElementsAgree(E) ==
  /\ Distinct(LAMBDA e : e.id, E) /\ Distinct(LAMBDA e : e.ordinal, E)
  /\ \A e \in E : e.ordinal > 0                       \* 0: unknown
  /\ LET named == {e \in E : e.name # <<>>}
     IN Distinct(LAMBDA e : Fold(e.name), named) /\ \A e \in named : Folded(e.name)
  /\ Cardinality(Contributors(E)) <= 1

(* What has no decision, or is withheld, is named in the view and not read.  *)
State(e) == IF e.treatment \in {"undecided", "withheld"} THEN e.treatment ELSE "emitted"
Readable(e, E) ==
  /\ e.name # <<>> /\ e.usable
  /\ e.treatment \in {"tokenized", "masked"} => e.suits
  /\ e.treatment = "aggregate_only" => Contributed(E)

Emitted(E) == {e \in E : State(e) = "emitted"}
Valid(policy) ==
  /\ SourcesAgree(policy) /\ ObjectsAgree(policy)
  /\ \A o \in ActiveObjects(policy) :
       LET E == ElementsOf(policy, o)
       IN ElementsAgree(E) /\ \A e \in Emitted(E) : Readable(e, E)

Reason(E) ==
  LET states == {State(e) : e \in E}
  IN CASE {"withheld", "undecided"} \subseteq states -> "mixed_withheld_undecided"
       [] "withheld" \in states -> "all_withheld"
       [] OTHER -> "all_undecided"

InOrder(E) == SetToSortSeq(E, LAMBDA a, b : a.ordinal < b.ordinal)
View(policy, o) ==
  LET E == ElementsOf(policy, o)
      columns == InOrder(E)
  IN [address |-> Address(policy, o),
      columns |-> [i \in DOMAIN columns |-> [element |-> columns[i].id, name |-> columns[i].name, state |-> State(columns[i])]],
      reads |-> [i \in DOMAIN InOrder(Emitted(E)) |-> InOrder(Emitted(E))[i].id],
      contributor |-> IF \E e \in E : e.treatment = "aggregate_only"
                      THEN {e.id : e \in Contributors(E)} ELSE {}]

Refused == [ok |-> FALSE]
compileViews(policy) ==
  LET seen == {o \in ActiveObjects(policy) : Emitted(ElementsOf(policy, o)) # {}}
  IN IF ~Valid(policy) THEN Refused
     ELSE [ok |-> TRUE, views |-> {View(policy, o) : o \in seen},
           omitted |-> {[address |-> Address(policy, o), reason |-> Reason(ElementsOf(policy, o))]
                          : o \in ActiveObjects(policy) \ seen}]
------------------------------------------------------------------------------
(* Mutant: names are compared as they are written.                           *)
MatchesAsWritten(a, b) == a = b

Matches(a, b) == FoldAddress(a) = FoldAddress(b)

resolveIdentifier(compilation, address) ==
  LET views == {v \in compilation.views : Matches(v.address, address)}
      omitted == {o \in compilation.omitted : Matches(o.address, address)}
  IN CASE \E i \in DOMAIN address : address[i] = <<>> -> "sql_not_permitted"
       [] Cardinality(views) + Cardinality(omitted) > 1 -> "sql_not_permitted"
       [] views # {} -> CHOOSE v \in views : TRUE
       [] omitted # {} -> "object_unavailable"
       [] OTHER -> "not_found"

------------------------------------------------------------------------------
(* What a part of the walk yields: its output, the refusals met in order (the *)
(* first one is the answer), the elements seen, and those aggregated.         *)
Yield(out) == [out |-> out, fails |-> <<>>, seen |-> {}, direct |-> {}]
Refuse(code) == [Yield(<<>>) EXCEPT !.fails = <<code>>]
Unread == Refuse("sql_not_permitted")

Then(r, s) == [out |-> r.out \o s.out, fails |-> r.fails \o s.fails,
               seen |-> r.seen \cup s.seen, direct |-> r.direct \cup s.direct]
All(rs) == [out |-> FlattenSeq([i \in DOMAIN rs |-> rs[i].out]), fails |-> FlattenSeq([i \in DOMAIN rs |-> rs[i].fails]),
            seen |-> UNION {rs[i].seen : i \in DOMAIN rs}, direct |-> UNION {rs[i].direct : i \in DOMAIN rs}]
Giving(r, out) == [r EXCEPT !.out = out]
OfTreatment(refs, T) == SelectSeq(refs, LAMBDA r : r.treatment \in T)
Protected == {"tokenized", "aggregate_only", "custody"}

(* Whether a column with these references may stand in this place.           *)
Check(refs, ctx, operation) ==
  LET refusal(r) ==
        CASE r.treatment = "aggregate_only" /\ ~ctx.direct -> <<"unsupported_on_aggregate_only">>
          [] r.treatment = "tokenized" /\ (operation # "" \/ ctx.clause = "ORDER BY") -> <<"unsupported_on_token">>
          [] OTHER -> <<>>
  IN [out |-> <<>>, fails |-> FlattenSeq([i \in DOMAIN refs |-> refusal(refs[i])]),
      seen |-> {refs[i].element : i \in DOMAIN refs},
      direct |-> {r.element : r \in {r \in ToSet(refs) : r.treatment = "aggregate_only" /\ ctx.direct}}]

(* A name is a column of the relations in scope, or else an output alias.     *)
(* Where it is both, it has to mean the same protected columns either way.    *)
Lookup(e, ctx) ==
  LET named(fields) == SelectSeq(fields, LAMBDA f : f.name = e.name)
      scope == SelectSeq(ctx.relations, LAMBDA r : e.qualifier = "" \/ e.qualifier \in r.qualifiers)
      candidates == FlattenSeq([i \in DOMAIN scope |-> named(scope[i].fields)])
      aliases == IF e.qualifier = "" THEN named(ctx.aliases) ELSE <<>>
      guarded(f) == OfTreatment(f.refs, Protected)
      matches == IF candidates # <<>> THEN candidates ELSE aliases
  IN CASE /\ candidates # <<>> /\ aliases # <<>>
          /\ ~ (Len(aliases) = 1 /\ Len(candidates) = 1 /\ guarded(aliases[1]) = guarded(candidates[1]))
            -> Unread
       [] matches = <<>> -> Refuse("not_found")
       [] Len(matches) > 1 -> Unread
       [] matches[1].omitted = "withheld" -> Refuse("element_withheld")
       [] matches[1].omitted = "undecided" -> Refuse("entitlement_missing")
       [] OTHER -> Yield(matches[1].refs)

Aggregates == {"sum", "avg", "min", "max", "count", "count_star"}
Operations == {"+", "-", "*", "/", "//", "%", "**", "^", "~~", "!~~", "~~*", "!~~*"}

RECURSIVE Expression(_, _)

Operands(es, ctx) == All([i \in DOMAIN es |-> Expression(es[i], [ctx EXCEPT !.direct = FALSE])])

Noted(found, ctx) == Giving(Then(found, Check(found.out, ctx, "")), found.out)
ColumnRef(e, ctx) == Noted(Lookup(e, ctx), ctx)
InCustody(r) == Giving(r, OfTreatment(r.out, {"custody"}))

(* A mutant: MIN and MAX as harmless as SUM.                                  *)
PickedAsAnyOther(name, refs) == Yield(<<>>)

(* MIN and MAX show a contributing value even of a large group.               *)
Picked(name, refs) ==
  IF name \in {"min", "max"} /\ OfTreatment(refs, {"aggregate_only"}) # <<>>
  THEN Refuse("unsupported_on_aggregate_only") ELSE Yield(<<>>)

(* An aggregate may take a protected column directly, in SELECT and HAVING;   *)
(* its result carries custody, and what MIN and MAX pick out of a masked one. *)
Aggregating(e) == e.name \in Aggregates /\ ~e.isOperator
Arguments(e, ctx) ==
  LET direct == Aggregating(e) /\ ctx.clause \in {"SELECT", "HAVING"}
  IN All([i \in DOMAIN e.children |->
            Expression(e.children[i], [ctx EXCEPT !.direct = direct /\ e.children[i].class = "COLUMN_REF"])])
Applied(e, ctx, arguments) ==
  LET ordered == IF e.name \in {"count", "count_star"} THEN Yield(<<>>)
                 ELSE Check(OfTreatment(arguments.out, {"tokenized"}), ctx, e.name)
      kept == IF Aggregating(e)
              THEN OfTreatment(arguments.out, {"custody"} \cup IF e.name \in {"min", "max"} THEN {"masked"} ELSE {})
              ELSE arguments.out
  IN CASE ~Aggregating(e) /\ ~(e.name \in Operations /\ e.isOperator) -> Unread
       [] e.ordered -> Unread
       [] e.filter # <<>> -> Then(Operands(e.filter, [ctx EXCEPT !.clause = "WHERE"]), Unread)
       [] OTHER -> Giving(All(<<arguments, Picked(e.name, arguments.out), ordered>>), kept)
Function(e, ctx) == Applied(e, ctx, Arguments(e, ctx))

(* Equality between tokens holds only inside one domain.                      *)
Incompatible(a, b) ==
  \/ a.treatment = "tokenized" /\ b.treatment = "clear"
  \/ b.treatment = "tokenized" /\ a.treatment = "clear"
  \/ a.treatment = "tokenized" /\ b.treatment = "tokenized" /\ a.domain # b.domain

Compared(e, ctx, left, right) ==
  LET both == Then(left, right)
      joins == e.type = "COMPARE_EQUAL" /\ ~ctx.negated /\ ctx.clause \in {"JOIN", "WHERE"}
      meeting == IF joins /\ \E a \in ToSet(left.out), b \in ToSet(right.out) : Incompatible(a, b)
                 THEN Refuse("unsupported_on_token") ELSE Yield(<<>>)
      ranging == IF e.type \in {"COMPARE_EQUAL", "COMPARE_NOTEQUAL"} THEN Yield(<<>>)
                 ELSE Check(both.out, ctx, e.type)
  IN InCustody(All(<<both, meeting, ranging>>))
Comparison(e, ctx) == Compared(e, ctx, Operands(<<e.left>>, ctx), Operands(<<e.right>>, ctx))

Spanned(three, ctx) == InCustody(Then(three, Check(three.out, ctx, "BETWEEN")))
Between(e, ctx) == Spanned(Operands(<<e.input, e.lower, e.upper>>, ctx), ctx)

Operator(e, ctx) ==
  InCustody(Operands(e.children, [ctx EXCEPT !.negated = IF e.type = "OPERATOR_NOT" THEN ~@ ELSE @]))

Windowed(inner, ctx) ==
  Giving(All(<<inner, Check(inner.out, [ctx EXCEPT !.direct = FALSE], "WINDOW"), Unread>>), <<>>)
Window(e, ctx) == Windowed(Operands(e.children, ctx), ctx)

Expression(e, ctx) ==
  CASE e.class = "COLUMN_REF" -> ColumnRef(e, ctx)
    [] e.class = "CONSTANT" -> Yield(<<>>)
    [] e.class = "FUNCTION" -> Function(e, ctx)
    [] e.class = "COMPARISON" -> Comparison(e, ctx)
    [] e.class = "BETWEEN" -> Between(e, ctx)
    [] e.class \in {"OPERATOR", "CONJUNCTION"} -> Operator(e, ctx)
    [] e.class = "WINDOW" -> Window(e, ctx)
    [] OTHER -> Unread

In(clause, relations, aliases) ==
  [relations |-> relations, clause |-> clause, aliases |-> aliases, direct |-> FALSE, negated |-> FALSE]

(* A mutant: a number in a clause is only a number.                           *)
ClauseExpressionByValue(e, ctx, output) == Expression(e, ctx)

(* GROUP BY 2 and ORDER BY 2 mean the second output column.                   *)
ClauseExpression(e, ctx, output) ==
  IF e.class # "CONSTANT" \/ ~e.integer THEN Expression(e, ctx)
  ELSE IF e.value \in DOMAIN output THEN Check(output[e.value].refs, ctx, "") ELSE Unread
------------------------------------------------------------------------------
(* The fields of a base table are the columns of its view.                    *)
FieldOf(column) ==
  [name |-> column.name, omitted |-> IF column.state = "emitted" THEN "" ELSE column.state,
   element |-> column.element, stars |-> <<>>,
   refs |-> IF column.state # "emitted" THEN <<>>
            ELSE <<[element |-> column.element, treatment |-> column.treatment, domain |-> column.domain]>>]

Undeclared(column) ==
  /\ column.state = "emitted"
  /\ \/ (column.treatment = "aggregate_only" /\ column.threshold < 1)
     \/ (column.treatment = "tokenized" /\ column.domain = "none")
     \/ column.treatment \notin Protected \cup {"clear", "masked"}

Renamed(fields, names) ==
  [i \in DOMAIN fields |-> IF i \in DOMAIN names THEN [fields[i] EXCEPT !.name = names[i]] ELSE fields[i]]
Misnamed(fields, names) == names # <<>> /\ Len(names) # Len(fields)

BaseTable(t, ctes) ==
  LET view == {v \in Views : v.name = t.table}
      alias == IF t.alias # "" THEN t.alias ELSE t.table
      columns == IF view = {} THEN <<>> ELSE SelectSeq((CHOOSE v \in view : TRUE).columns, LAMBDA c : c.name # "")
  IN CASE ~t.qualified /\ t.table \in DOMAIN ctes ->
              Yield(<<[qualifiers |-> {alias}, fields |-> ctes[t.table]]>>)
       [] ~t.qualified -> Unread
       [] view = {} -> Refuse(IF t.table \in Omitted THEN "object_unavailable" ELSE "not_found")
       [] OTHER -> [Yield(<<[qualifiers |-> {alias}, fields |-> [i \in DOMAIN columns |-> FieldOf(columns[i])]]>>) EXCEPT
                      !.fails = IF \E i \in DOMAIN columns : Undeclared(columns[i]) THEN Unread.fails ELSE <<>>]

RECURSIVE RelationOf(_, _), Query(_, _)

Each(clause, es, relations, aliases) == All([i \in DOMAIN es |-> Expression(es[i], In(clause, relations, aliases))])
Joined(t, sides) ==
  IF t.alias # "" THEN Unread ELSE Giving(Then(sides, Each("JOIN", t.condition, sides.out, <<>>)), sides.out)
Derived(t, inner) ==
  LET named == Yield(<<[qualifiers |-> {t.alias} \ {""}, fields |-> Renamed(inner.out, t.columns)]>>)
  IN Then(Giving(inner, <<>>), IF Misnamed(inner.out, t.columns) THEN Then(named, Unread) ELSE named)
Listed(t, cells) ==
  LET ragged == \E i \in DOMAIN t.rows : Len(t.rows[i]) # Len(t.rows[1])
      field(i) == [name |-> "col" \o ToString(i - 1), omitted |-> "", element |-> "none", stars |-> <<>>, refs |-> <<>>]
  IN Then(IF ragged THEN Then(Giving(cells, <<>>), Unread) ELSE Giving(cells, <<>>),
          Yield(<<[qualifiers |-> {t.alias}, fields |-> [i \in DOMAIN t.rows[1] |-> field(i)]]>>))

RelationOf(t, ctes) ==
  CASE t.type = "EMPTY" -> Yield(<<>>)
    [] t.type = "BASE_TABLE" -> BaseTable(t, ctes)
    [] t.type = "JOIN" -> Joined(t, Then(RelationOf(t.left, ctes), RelationOf(t.right, ctes)))
    [] t.type = "SUBQUERY" -> Derived(t, Query(t.query, ctes))
    [] t.type = "EXPRESSION_LIST" -> Listed(t, Each("VALUES", FlattenSeq(t.rows), <<>>, <<>>))
    [] OTHER -> Unread

(* SELECT * gives every decided column, and notes those withheld.             *)
Withheld(r) ==
  LET fields == SelectSeq(r.fields, LAMBDA f : f.omitted = "withheld") IN [i \in DOMAIN fields |-> fields[i].element]
Shown(r, fields, ctx) ==
  All([i \in DOMAIN fields |-> Giving(Check(fields[i].refs, ctx, ""), <<[fields[i] EXCEPT !.stars = Withheld(r) \o @]>>)])
StarFields(e, relations) ==
  LET selected == SelectSeq(relations, LAMBDA r : e.relation = "" \/ e.relation \in r.qualifiers)
      given(r) == SelectSeq(r.fields, LAMBDA f : f.omitted = "")
  IN IF selected = <<>> THEN Unread
     ELSE All([i \in DOMAIN selected |-> Shown(selected[i], given(selected[i]), In("SELECT", relations, <<>>))])

Projected(item, r) ==
  LET name == IF item.alias # "" THEN item.alias ELSE IF item.expr.class = "COLUMN_REF" THEN item.expr.name ELSE ""
  IN Giving(r, <<[name |-> name, omitted |-> "", element |-> "none", stars |-> <<>>, refs |-> r.out]>>)
Projection(item, relations) ==
  IF item.expr.class = "STAR" THEN StarFields(item.expr, relations)
  ELSE Projected(item, Expression(item.expr, In("SELECT", relations, <<>>)))

(* Common table expressions are inspected in order, each seeing those before. *)
Declared(r, cte, inner) ==
  LET wrong == IF Misnamed(inner.out, cte.columns) \/ cte.name \in ToSet(r.out[2]) THEN Unread ELSE Yield(<<>>)
  IN Giving(All(<<r, inner, wrong>>),
            <<(cte.name :> Renamed(inner.out, cte.columns)) @@ r.out[1], Append(r.out[2], cte.name)>>)
Declare(r, cte) == Declared(r, cte, Query(cte.query, r.out[1]))

Plain(q) == /\ Len(q.select) = 1 /\ q.select[1].expr.class = "STAR"
            /\ q.ctes \o q.where \o q.group \o q.having \o q.order \o q.limit = <<>>

Described(q, ctes) ==
  Giving(Then(IF Plain(q) /\ Plain(q.from.query) THEN Yield(<<>>) ELSE Unread,
              IF q.from.query.from.type = "BASE_TABLE" THEN RelationOf(q.from.query.from, ctes) ELSE Unread), <<>>)

Clauses(q, from, output) ==
  LET ordinal(clause, es) ==
        All([i \in DOMAIN es |-> ClauseExpression(es[i], In(clause, from.out, output.out), output.out)])
  IN All(<<Each("WHERE", q.where, from.out, output.out), ordinal("GROUP BY", q.group),
           Each("HAVING", q.having, from.out, output.out), ordinal("ORDER BY", q.order),
           Each("LIMIT", q.limit, <<>>, <<>>)>>)
Finished(q, from, output) ==
  Giving(All(<<Giving(from, <<>>), output, Clauses(q, from, output)>>), output.out)
Listing(q, from) == Finished(q, from, All([i \in DOMAIN q.select |-> Projection(q.select[i], from.out)]))
Selected(q, ctes) == Listing(q, RelationOf(q.from, ctes))

Following(ctes, body) == Giving(Then(ctes, body), body.out)
Within(q, ctes) ==
  CASE q.union # <<>> -> Unread
    [] q.from.type = "SHOW_REF" -> Following(ctes, Described(q, ctes.out[1]))
    [] OTHER -> Following(ctes, Selected(q, ctes.out[1]))
Query(q, inherited) == Within(q, FoldLeft(Declare, Yield(<<inherited, <<>>>>), q.ctes))

(* The answer, and what the evidence keeps of an accepted statement.          *)
Inspected(statement, walk) ==
  [verdict |-> IF statement.build # EngineBuild THEN "sql_not_permitted"
               ELSE IF walk.fails = <<>> THEN "requires_sidecar_inspection" ELSE walk.fails[1],
   returned |-> {r.element : r \in UNION {ToSet(walk.out[i].refs) : i \in DOMAIN walk.out}} \cup walk.direct,
   referenced |-> walk.seen,
   starOmitted |-> UNION {ToSet(walk.out[i].stars) : i \in DOMAIN walk.out}]
Inspect(statement) == Inspected(statement, Query(statement.query, <<>>))
==============================================================================
