--------------------------- MODULE EngineInspection ---------------------------
(* The engine's own inspection of a query and what it makes of the statement *)
(* before it runs (sidecar/sql/application).  It is written apart from the   *)
(* application's pre-filter and trusts nothing of it: the constructs that    *)
(* are known (subset.ts), the treatments behind each column (treatments.ts), *)
(* the count of contributors added to a statement that aggregates protected  *)
(* rows (cardinality.ts), the row limit (row-limit.ts), and the order of it  *)
(* all (execute.ts).  Statements are the trees of QueryPreFilter, with CASE, *)
(* subqueries in expressions, set operations and DISTINCT.  The shapes that  *)
(* zod checks and the limit of 10000 visits and 100 levels are left out.     *)
EXTENDS Naturals, Sequences, SequencesExt, TLC

CONSTANTS
  Tables,       \* the read plan with its decisions, as resolvePolicy gives it
  Threshold,    \* aggregateMinGroupSize
  EngineBuild   \* the build the grammar was inspected for

OfTreatment(refs, T) == SelectSeq(refs, LAMBDA r : r.treatment \in T)
Guarded == {"tokenized", "aggregate_only", "custody"}
Of(name) == {t \in Tables : t.name = name}
------------------------------------------------------------------------------
(* The subset: an explicit list of the constructs, functions and tables.      *)
Functions == {"sum", "avg", "min", "max", "count", "count_star", "abs", "round", "ceil", "ceiling", "floor", "lower",
              "upper", "length", "concat", "substring", "substr", "coalesce", "nullif", "greatest", "least",
              "+", "-", "*", "/", "//", "%", "**", "^", "~~", "!~~", "~~*", "!~~*"}
TableFunctions == {"duckdb_tables", "duckdb_columns", "duckdb_databases", "duckdb_views", "duckdb_functions",
                   "range", "generate_series"}

RECURSIVE NodeAllowed(_, _), TableAllowed(_, _), ExpressionAllowed(_, _)

ExpressionAllowed(e, ctes) ==
  LET each(es) == \A i \in DOMAIN es : ExpressionAllowed(es[i], ctes)
  IN CASE e.class \in {"COLUMN_REF", "CONSTANT", "STAR"} -> TRUE
       [] e.class \in {"FUNCTION", "WINDOW"} -> e.name \in Functions /\ each(e.children) /\ each(e.filter)
       [] e.class = "COMPARISON" -> each(<<e.left, e.right>>)
       [] e.class \in {"OPERATOR", "CONJUNCTION"} -> each(e.children)
       [] e.class = "BETWEEN" -> each(<<e.input, e.lower, e.upper>>)
       [] e.class = "SUBQUERY" -> NodeAllowed(e.query, ctes) /\ each(e.child)
       [] e.class = "CASE" -> each(e.when) /\ each(e.then) /\ each(<<e.otherwise>>)
       [] OTHER -> FALSE

TableAllowed(t, ctes) ==
  CASE t.type = "EMPTY" -> TRUE
    [] t.type = "BASE_TABLE" -> (~t.qualified /\ t.table \in ctes) \/ Of(t.table) # {}
    [] t.type = "JOIN" -> /\ TableAllowed(t.left, ctes) /\ TableAllowed(t.right, ctes)
                          /\ \A i \in DOMAIN t.condition : ExpressionAllowed(t.condition[i], ctes)
    [] t.type \in {"SUBQUERY", "SHOW_REF"} -> NodeAllowed(t.query, ctes)
    [] t.type = "EXPRESSION_LIST" -> \A i \in DOMAIN t.rows : \A j \in DOMAIN t.rows[i] : ExpressionAllowed(t.rows[i][j], ctes)
    [] t.type = "TABLE_FUNCTION" -> t.name \in TableFunctions /\ \A i \in DOMAIN t.children : ExpressionAllowed(t.children[i], ctes)
    [] OTHER -> FALSE

NodeAllowed(q, inherited) ==
  LET before(n) == inherited \cup {q.ctes[i].name : i \in 1..(n - 1)}
      ctes == before(Len(q.ctes) + 1)
      items == [i \in DOMAIN q.select |-> q.select[i].expr]
  IN /\ \A n \in DOMAIN q.ctes : NodeAllowed(q.ctes[n].query, before(n))
     /\ IF q.union # <<>> THEN \A i \in DOMAIN q.union : NodeAllowed(q.union[i], ctes)
        ELSE /\ TableAllowed(q.from, ctes)
             /\ LET all == items \o q.group \o q.where \o q.having \o q.order \o q.limit
                IN \A i \in DOMAIN all : ExpressionAllowed(all[i], ctes)
------------------------------------------------------------------------------
(* What a part of the walk yields: its output, the failures met in order and  *)
(* the protected columns that were aggregated.                                *)
Yield(out) == [out |-> out, fails |-> <<>>, aggregates |-> <<>>, describes |-> <<>>]
Failure(code, how) == <<[code |-> code, how |-> how]>>
Failing(code, how) == [Yield(<<>>) EXCEPT !.fails = Failure(code, how)]
Refuse == Failing("sql_not_permitted", "first")
Then(r, s) == [out |-> r.out \o s.out, fails |-> r.fails \o s.fails,
               aggregates |-> r.aggregates \o s.aggregates, describes |-> r.describes \o s.describes]
All(rs) == [out |-> FlattenSeq([i \in DOMAIN rs |-> rs[i].out]), fails |-> FlattenSeq([i \in DOMAIN rs |-> rs[i].fails]),
            aggregates |-> FlattenSeq([i \in DOMAIN rs |-> rs[i].aggregates]),
            describes |-> FlattenSeq([i \in DOMAIN rs |-> rs[i].describes])]
Giving(r, out) == [r EXCEPT !.out = out]

(* The failure that is answered: most keep the first one; the refusal of a    *)
(* token replaces any but a construct that is not permitted, the refusal of   *)
(* MIN and MAX only one of its own kind.                                      *)
FailureOf(fails) ==
  LET later(kept, f) == CASE kept = "" -> f.code
                          [] f.how = "token" /\ kept # "sql_not_permitted" -> f.code
                          [] OTHER -> kept
  IN FoldLeft(later, "", fails)

Check(refs, ctx, operation) ==
  LET failures(r) ==
        CASE r.treatment = "aggregate_only" /\ ~ctx.direct -> Failure("unsupported_on_aggregate_only", "first")
          [] r.treatment = "tokenized" /\ (operation # "" \/ ctx.clause = "ORDER BY") -> Failure("unsupported_on_token", "token")
          [] OTHER -> <<>>
  IN [Yield(<<>>) EXCEPT !.fails = FlattenSeq([i \in DOMAIN refs |-> failures(refs[i])])]

Lookup(e, ctx) ==
  LET named(fields) == SelectSeq(fields, LAMBDA f : f.name = e.name)
      scope == SelectSeq(ctx.relations, LAMBDA r : e.qualifier = "" \/ e.qualifier \in r.qualifiers)
      candidates == FlattenSeq([i \in DOMAIN scope |-> named(scope[i].fields)])
      aliases == IF e.qualifier = "" THEN named(ctx.aliases) ELSE <<>>
      guarded(f) == OfTreatment(f.refs, Guarded)
      matches == IF candidates # <<>> THEN candidates ELSE aliases
  IN CASE /\ candidates # <<>> /\ aliases # <<>>
          /\ ~(Len(aliases) = 1 /\ Len(candidates) = 1 /\ guarded(aliases[1]) = guarded(candidates[1])) -> Refuse
       [] matches = <<>> /\ Len(ctx.relations) = 1 /\ ctx.relations[1].opaque -> Yield(<<>>)
       [] Len(matches) # 1 -> Refuse
       [] OTHER -> Yield(matches[1].refs)

Aggregates == {"sum", "avg", "min", "max", "count", "count_star"}
Operations == {"+", "-", "*", "/", "//", "%", "**", "^", "~~", "!~~", "~~*", "!~~*"}
Aggregated(refs, ctx) ==
  [Yield(<<>>) EXCEPT !.aggregates = [i \in DOMAIN refs |-> [ref |-> refs[i], root |-> ctx.root]]]
Aggregating(refs, ctx) == Aggregated(OfTreatment(refs, {"aggregate_only"}), ctx)

RECURSIVE Expression(_, _), Query(_, _, _, _)
Each(es, ctx) == All([i \in DOMAIN es |-> Expression(es[i], ctx)])
Indirect(ctx) == [ctx EXCEPT !.direct = FALSE]

Noted(found, ctx) ==
  Giving(All(<<found, Check(found.out, ctx, ""), IF ctx.direct THEN Aggregating(found.out, ctx) ELSE Yield(<<>>)>>), found.out)
ColumnRef(e, ctx) == Noted(Lookup(e, ctx), ctx)
InCustody(r) == Giving(r, OfTreatment(r.out, {"custody"}))

(* The engine's own count: COUNT(DISTINCT CASE WHEN value IS NOT NULL THEN    *)
(* key END) over a protected column and its table's contributor.              *)
Proof(c, found) ==
  IF /\ Len(found.out) = 1 /\ found.out[1].treatment = "aggregate_only"
     /\ found.out[1].contributor = <<[key |-> c.then[1].name, keyOf |-> c.then[1].qualifier,
                                      value |-> c.when[1].children[1].name, valueOf |-> c.when[1].children[1].qualifier]>>
  THEN found.out ELSE <<>>
ProofOf(e, ctx) ==
  LET c == e.children[1]
      exact == /\ c.class = "CASE" /\ Len(c.when) = 1
               /\ c.when[1].type = "OPERATOR_IS_NOT_NULL" /\ Len(c.when[1].children) = 1
               /\ c.when[1].children[1].class = "COLUMN_REF" /\ c.then[1].class = "COLUMN_REF" /\ c.otherwise.type = "VALUE_NULL"
  IN IF ctx.internal /\ e.name = "count" /\ e.distinct /\ Len(e.children) = 1 /\ exact
     THEN Proof(c, Lookup(c.when[1].children[1], ctx)) ELSE <<>>

IsAggregate(e) == e.name \in Aggregates /\ ~e.isOperator
Arguments(e, ctx) ==
  LET direct == IsAggregate(e) /\ ctx.clause \in {"SELECT", "HAVING"}
  IN All([i \in DOMAIN e.children |->
            Expression(e.children[i], [ctx EXCEPT !.direct = direct /\ e.children[i].class = "COLUMN_REF"])])
Applied(e, ctx, arguments) ==
  LET picked == IF e.name \in {"min", "max"} /\ OfTreatment(arguments.out, {"aggregate_only"}) # <<>>
                THEN Failing("unsupported_on_aggregate_only", "picked") ELSE Yield(<<>>)
      operation == e.name \in Operations /\ e.isOperator
      ordered == IF ~operation /\ e.name \in {"count", "count_star"} THEN Yield(<<>>)
                 ELSE Check(OfTreatment(arguments.out, {"tokenized"}), ctx, e.name)
  IN Giving(All(<<arguments, picked, ordered>>),
            IF IsAggregate(e) THEN OfTreatment(arguments.out, {"custody"}) ELSE arguments.out)
Counted(e, ctx, proof) == IF proof # <<>> THEN Aggregating(proof, ctx) ELSE Applied(e, ctx, Arguments(e, ctx))
Function(e, ctx) ==
  CASE e.ordered -> Refuse
    [] e.filter # <<>> -> Giving(Then(Each(e.filter, [Indirect(ctx) EXCEPT !.clause = "WHERE"]), Refuse), <<>>)
    [] OTHER -> Counted(e, ctx, ProofOf(e, ctx))

(* A mutant: tokens of any two domains compared.                              *)
IncompatibleWithClear(a, b) == {a.treatment, b.treatment} = {"tokenized", "clear"}

(* Tokens only meet tokens of their own domain.                               *)
Incompatible(a, b) ==
  \/ a.treatment = "tokenized" /\ (b.treatment = "clear" \/ (b.treatment = "tokenized" /\ a.domain # b.domain))
  \/ b.treatment = "tokenized" /\ a.treatment = "clear"

Compared(e, ctx, left, right) ==
  LET both == Then(left, right)
      joins == e.type = "COMPARE_EQUAL" /\ ~ctx.negated /\ ctx.clause \in {"JOIN", "WHERE"}
      meeting == IF joins /\ \E a \in ToSet(left.out), b \in ToSet(right.out) : Incompatible(a, b)
                 THEN Failing("unsupported_on_token", "first") ELSE Yield(<<>>)
      ranging == IF e.type \in {"COMPARE_EQUAL", "COMPARE_NOTEQUAL"} THEN Yield(<<>>) ELSE Check(both.out, ctx, e.type)
  IN InCustody(All(<<both, meeting, ranging>>))
Comparison(e, ctx) == Compared(e, ctx, Expression(e.left, Indirect(ctx)), Expression(e.right, Indirect(ctx)))

Cases(e, ctx) == Each(e.when \o e.then \o <<e.otherwise>>, Indirect(ctx))
Operands(e, ctx) ==
  Each(e.children, [Indirect(ctx) EXCEPT !.negated = IF e.type = "OPERATOR_NOT" THEN ~@ ELSE @])
Spanned(three, ctx) == InCustody(Then(three, Check(three.out, ctx, "BETWEEN")))
Selecting(child, rows) ==
  Giving(Then(child, rows), OfTreatment(child.out, {"custody"}) \o FlattenSeq([i \in DOMAIN rows.out |-> rows.out[i].refs]))
Windowed(inner, ctx) == Giving(All(<<inner, Check(inner.out, Indirect(ctx), "WINDOW"), Refuse>>), <<>>)

Expression(e, ctx) ==
  CASE e.class = "COLUMN_REF" -> ColumnRef(e, ctx)
    [] e.class = "CONSTANT" -> Yield(<<>>)
    [] e.class = "FUNCTION" -> Function(e, ctx)
    [] e.class = "COMPARISON" -> Comparison(e, ctx)
    [] e.class = "BETWEEN" -> Spanned(Each(<<e.input, e.lower, e.upper>>, Indirect(ctx)), ctx)
    [] e.class \in {"OPERATOR", "CONJUNCTION"} -> InCustody(Operands(e, ctx))
    [] e.class = "CASE" -> Cases(e, ctx)
    [] e.class = "SUBQUERY" -> Selecting(Each(e.child, Indirect(ctx)), Query(e.query, <<>>, FALSE, ctx.internal))
    [] e.class = "WINDOW" -> Windowed(Each(e.children, Indirect(ctx)), ctx)
    [] OTHER -> Refuse

In(clause, relations, aliases, root, internal) ==
  [relations |-> relations, clause |-> clause, aliases |-> aliases, direct |-> FALSE, negated |-> FALSE,
   root |-> root, internal |-> internal]

(* GROUP BY 2 and ORDER BY 2 mean the second output column.                   *)
ClauseExpression(e, ctx, output) ==
  IF e.class # "CONSTANT" \/ ~e.integer THEN Expression(e, ctx)
  ELSE IF e.value \in DOMAIN output THEN Check(output[e.value].refs, ctx, "") ELSE Refuse
------------------------------------------------------------------------------
Plainly(name) == [name |-> name, refs |-> <<>>]
Renamed(fields, names) ==
  [i \in DOMAIN fields |-> IF i \in DOMAIN names THEN [fields[i] EXCEPT !.name = names[i]] ELSE fields[i]]
Misnamed(fields, names) == IF names # <<>> /\ Len(names) # Len(fields) THEN Refuse ELSE Yield(<<>>)
Source(names, fields, opaque) == Yield(<<[qualifiers |-> names, fields |-> fields, opaque |-> opaque]>>)

(* The columns of a table; its contributor only for the engine's own count.   *)
BaseTable(t, ctes, internal) ==
  LET alias == IF t.alias # "" THEN t.alias ELSE t.table
      view == CHOOSE v \in Of(t.table) : TRUE
      counted(c) == IF view.contributor = "" THEN <<>>
                    ELSE <<[key |-> view.contributor, keyOf |-> alias, value |-> c.name, valueOf |-> alias]>>
      field(c) == [name |-> c.name,
                   refs |-> <<[element |-> c.element, treatment |-> c.treatment, domain |-> c.domain,
                               contributor |-> counted(c)]>>]
      private == IF internal /\ view.contributor # "" THEN <<Plainly(view.contributor)>> ELSE <<>>
  IN CASE ~t.qualified /\ t.table \in DOMAIN ctes -> Source({alias}, ctes[t.table], FALSE)
       [] Of(t.table) = {} -> Refuse
       [] OTHER -> Source({alias}, [i \in DOMAIN view.columns |-> field(view.columns[i])] \o private, FALSE)

RECURSIVE RelationOf(_, _, _)

Joined(t, sides, internal) ==
  LET unread == IF \E i \in DOMAIN sides.out : sides.out[i].opaque THEN Refuse ELSE Yield(<<>>)
      on == Each(t.condition, In("JOIN", sides.out, <<>>, FALSE, internal))
  IN IF t.alias # "" THEN Refuse ELSE Giving(All(<<sides, unread, on>>), sides.out)
Derived(t, inner) ==
  All(<<Giving(inner, <<>>), Misnamed(inner.out, t.columns),
        Source({t.alias} \ {""}, Renamed(inner.out, t.columns), FALSE)>>)
Listed(t, cells) ==
  LET ragged == IF \E i \in DOMAIN t.rows : Len(t.rows[i]) # Len(t.rows[1]) THEN Refuse ELSE Yield(<<>>)
  IN All(<<Giving(cells, <<>>), ragged,
           Source({t.alias}, [i \in DOMAIN t.rows[1] |-> Plainly("col" \o ToString(i - 1))], FALSE)>>)

RelationOf(t, ctes, internal) ==
  CASE t.type = "EMPTY" -> Yield(<<>>)
    [] t.type = "TABLE_FUNCTION" -> Source({IF t.alias # "" THEN t.alias ELSE t.name}, <<>>, TRUE)
    [] t.type = "BASE_TABLE" -> BaseTable(t, ctes, internal)
    [] t.type = "JOIN" -> Joined(t, Then(RelationOf(t.left, ctes, internal), RelationOf(t.right, ctes, internal)), internal)
    [] t.type = "SUBQUERY" -> Derived(t, Query(t.query, ctes, FALSE, internal))
    [] t.type = "EXPRESSION_LIST" -> Listed(t, Each(FlattenSeq(t.rows), In("VALUES", <<>>, <<>>, FALSE, internal)))
    [] OTHER -> Refuse

(* A projection, in the query whose aggregates it may hold.                   *)
Projected(item, r) ==
  LET name == IF item.alias # "" THEN item.alias ELSE IF item.expr.class = "COLUMN_REF" THEN item.expr.name ELSE ""
  IN Giving(r, <<[name |-> name, refs |-> r.out]>>)
Starred(fields, ctx) ==
  IF fields = <<>> THEN Refuse
  ELSE LET all == FlattenSeq(fields)
       IN Giving(All([i \in DOMAIN all |-> Check(all[i].refs, ctx, "")]), all)
Projection(item, ctx) ==
  LET selected == SelectSeq(ctx.relations, LAMBDA r : item.expr.relation = "" \/ item.expr.relation \in r.qualifiers)
  IN IF item.expr.class = "STAR" THEN Starred([i \in DOMAIN selected |-> selected[i].fields], ctx)
     ELSE Projected(item, Expression(item.expr, ctx))

Declared(r, cte, inner) ==
  LET twice == IF cte.name \in ToSet(r.out[2]) THEN Refuse ELSE Yield(<<>>)
  IN Giving(All(<<r, inner, twice, Misnamed(inner.out, cte.columns)>>),
            <<(cte.name :> Renamed(inner.out, cte.columns)) @@ r.out[1], Append(r.out[2], cte.name)>>)
Declare(r, cte, internal) == Declared(r, cte, Query(cte.query, r.out[1], FALSE, internal))

Plain(q) == /\ Len(q.select) = 1 /\ q.select[1].expr.class = "STAR" /\ ~q.distinct
            /\ q.ctes \o q.where \o q.group \o q.having \o q.order \o q.limit = <<>>

(* DESCRIBE of a table answers its columns: the contributor is taken out.     *)
Described(q, ctes, internal) ==
  LET table == q.from.query.from
      shown == IF Plain(q) /\ Plain(q.from.query) THEN Yield(<<>>) ELSE Refuse
  IN IF table.type # "BASE_TABLE" THEN Refuse
     ELSE [Giving(Then(shown, RelationOf(table, ctes, internal)), <<>>) EXCEPT
             !.describes = SetToSeq({t.contributor : t \in {t \in Of(table.table) : t.contributor # ""}})]

Clauses(q, from, output, root, internal) ==
  LET ctx(clause) == In(clause, from.out, output.out, root, internal)
      ordinal(clause, es) == All([i \in DOMAIN es |-> ClauseExpression(es[i], ctx(clause), output.out)])
  IN All(<<Each(q.where, ctx("WHERE")), ordinal("GROUP BY", q.group), Each(q.having, ctx("HAVING")),
           ordinal("ORDER BY", q.order), Each(q.limit, In("LIMIT", <<>>, <<>>, root, internal))>>)
Finished(q, from, output, root, internal) ==
  Giving(All(<<Giving(from, <<>>), output, Clauses(q, from, output, root, internal)>>), output.out)
Listing(q, from, root, internal) ==
  LET ctx == In("SELECT", from.out, <<>>, root, internal)
  IN Finished(q, from, All([i \in DOMAIN q.select |-> Projection(q.select[i], ctx)]), root, internal)
Selected(q, ctes, root, internal) == Listing(q, RelationOf(q.from, ctes, internal), root, internal)

(* Both sides of a set operation answer through the same columns.             *)
Paired(left, right) ==
  LET uneven == IF Len(left.out) # Len(right.out) THEN Refuse ELSE Yield(<<>>)
      both(i) == [left.out[i] EXCEPT !.refs = @ \o IF i \in DOMAIN right.out THEN right.out[i].refs ELSE <<>>]
  IN Giving(All(<<left, right, uneven>>), [i \in DOMAIN left.out |-> both(i)])
United(q, inherited, internal) ==
  IF q.ctes # <<>> \/ q.distinct \/ q.order \o q.limit # <<>> THEN Refuse
  ELSE Paired(Query(q.union[1], inherited, FALSE, internal), Query(q.union[2], inherited, FALSE, internal))

Following(ctes, body) == Giving(Then(ctes, body), body.out)
Within(q, ctes, root, internal) ==
  IF q.from.type = "SHOW_REF" THEN Following(ctes, Described(q, ctes.out[1], internal))
  ELSE Following(ctes, Selected(q, ctes.out[1], root, internal))
Query(q, inherited, root, internal) ==
  IF q.union # <<>> THEN United(q, inherited, internal)
  ELSE Within(q, FoldLeft(LAMBDA r, cte : Declare(r, cte, internal), Yield(<<inherited, <<>>>>), q.ctes), root, internal)

(* inspectTreatments.  Nothing to protect: nothing is looked at.  Protected   *)
(* rows may only be aggregated by the outermost query, where their groups can *)
(* be counted, and not under DISTINCT.                                        *)
Unprotected == \A t \in Tables : t.contributor = "" /\ \A i \in DOMAIN t.columns : t.columns[i].treatment \notin Guarded

Inspected(q, walk) ==
  LET nested == \E i \in DOMAIN walk.aggregates : ~walk.aggregates[i].root
  IN [verdict |-> CASE walk.fails # <<>> -> FailureOf(walk.fails)
                    [] nested -> "unsupported_on_aggregate_only"
                    [] walk.aggregates # <<>> /\ q.distinct -> "sql_not_permitted"
                    [] OTHER -> "",
      contributors |-> SetToSeq({walk.aggregates[i].ref.contributor[1] : i \in DOMAIN walk.aggregates}),
      custody |-> {i \in DOMAIN walk.out : OfTreatment(walk.out[i].refs, {"custody"}) # <<>>},
      describes |-> walk.describes]
Inspect(q, internal) ==
  IF Unprotected THEN [verdict |-> "", contributors |-> <<>>, custody |-> {}, describes |-> <<>>]
  ELSE Inspected(q, Query(q, <<>>, TRUE, internal))
------------------------------------------------------------------------------
Column(qualifier, name) == [class |-> "COLUMN_REF", type |-> "COLUMN_REF", qualifier |-> qualifier, name |-> name]
Constant(n) == [class |-> "CONSTANT", type |-> "VALUE_CONSTANT", integer |-> FALSE, value |-> n]

(* COUNT(DISTINCT CASE WHEN value IS NOT NULL THEN key END).                  *)
Counting(c, key) ==
  [class |-> "FUNCTION", type |-> "FUNCTION", name |-> "count", isOperator |-> FALSE, filter |-> <<>>, ordered |-> FALSE,
   distinct |-> TRUE,
   children |-> <<[class |-> "CASE", type |-> "CASE_EXPR",
                   when |-> <<[class |-> "OPERATOR", type |-> "OPERATOR_IS_NOT_NULL", children |-> <<Column(c.valueOf, c.value)>>]>>,
                   then |-> <<key>>, otherwise |-> [class |-> "CONSTANT", type |-> "VALUE_NULL", integer |-> FALSE]]>>]

(* A mutant: the values counted, not those who contributed them.              *)
CountOfValues(c) == Counting(c, Column(c.valueOf, c.value))
CountOf(c) == Counting(c, Column(c.keyOf, c.key))

WithGroupCount(q, contributors) ==
  [q EXCEPT !.select = @ \o [i \in DOMAIN contributors |-> [expr |-> CountOf(contributors[i]), alias |-> "__group_size" \o ToString(i - 1)]]]

(* A mutant: the limit of the request instead of the statement's own.         *)
WithOnlyRowLimit(q, limit) == [q EXCEPT !.limit = <<Constant(limit)>>]

WithRowLimit(q, limit) ==
  [q EXCEPT !.limit = IF @ = <<>> THEN <<Constant(limit)>>
                      ELSE <<[class |-> "FUNCTION", type |-> "FUNCTION", name |-> "least", isOperator |-> FALSE,
                              filter |-> <<>>, ordered |-> FALSE, distinct |-> FALSE,
                              children |-> <<@[1], Constant(limit)>>]>>]

Allowed(q, internal) == NodeAllowed(q, {}) /\ Inspect(q, internal).verdict = ""

(* A mutant: the first group stands for all.                                  *)
FirstIsLargeEnough(rows, n) ==
  rows # <<>> => \A j \in 1..n : rows[1][Len(rows[1]) - n + j].value >= Threshold

(* Every row has reached the threshold in each of its n counts, its last ones.*)
LargeEnough(rows, n) ==
  \A i \in DOMAIN rows : \A j \in 1..n : rows[i][Len(rows[i]) - n + j].value >= Threshold

Answered(kind, rows) == [kind |-> kind, rows |-> rows, truncated |-> FALSE, custody |-> {}]

(* validateStatement: what can be said without running it.                    *)
Validate(statement) ==
  IF statement.build # EngineBuild \/ ~NodeAllowed(statement.query, {}) THEN "sql_not_permitted"
  ELSE Inspect(statement.query, FALSE).verdict

(* What is sent of the rows: nothing where a count is too small, and never    *)
(* the counts themselves.                                                     *)
Sent(rows, counts, rowLimit, custody) ==
  LET shown == [i \in DOMAIN rows |-> SubSeq(rows[i], 1, Len(rows[i]) - counts)]
  IN IF ~LargeEnough(rows, counts) THEN Answered("unsupported_on_aggregate_only", <<>>)
     ELSE [kind |-> "rows",
           rows |-> IF rowLimit = 0 \/ Len(rows) <= rowLimit THEN shown ELSE SubSeq(shown, 1, rowLimit),
           truncated |-> rowLimit # 0 /\ Len(rows) > rowLimit, custody |-> custody]

Bounded(counted, rowLimit) ==
  IF rowLimit = 0 THEN counted ELSE WithRowLimit(counted, rowLimit + 1)

(* Each rewritten statement is inspected anew before it is prepared.          *)
Prepared(verdict, counted, internal, rowLimit) ==
  IF verdict # "" THEN verdict
  ELSE IF \A sent \in {counted, Bounded(counted, rowLimit)} : Allowed(sent, internal) THEN ""
  ELSE "sql_not_permitted"

(* InspectedSessionExecutor.run up to the statement it asks DuckDB, which     *)
(* carries a count of each group's contributors, and from its rows on.        *)
Planned(statement, contributors, rowLimit) ==
  LET counted == WithGroupCount(statement.query, contributors)
  IN [verdict |-> Prepared(Validate(statement), counted, contributors # <<>>, rowLimit),
      query |-> Bounded(counted, rowLimit), counts |-> Len(contributors), limit |-> rowLimit]
Plan(statement, rowLimit) == Planned(statement, Inspect(statement.query, FALSE).contributors, rowLimit)

Result(plan, rows) ==
  IF plan.verdict # "" THEN Answered(plan.verdict, <<>>)
  ELSE Sent(rows, plan.counts, plan.limit, Inspect(plan.query, plan.counts > 0).custody)
==============================================================================
