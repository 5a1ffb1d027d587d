------------------------------- MODULE MCQuery --------------------------------
(* Statements over one table, inspected by the application and by the engine, *)
(* and small databases to tell an answer that discloses something from one    *)
(* that does not; policies to compile, of two objects in up to two sources    *)
(* with up to three elements; and a table whose columns are published, decided*)
(* on and declared, which shares no state with the others; nor does a run of  *)
(* the tests that all share one database; nor the relationship outbox by      *)
(* itself, whose dispatchers lose their sessions.                             *)
EXTENDS RelationshipOutbox, FiniteSets, SequencesExt, TLC

CONSTANTS None, Driver, Invocation

VARIABLES subject, input, answer,
  mapped, releases, publications, commands, settings, element, declared, schemaZone, decision, told,
  holder, fixtures, run, phase, step, late, owner, asked, conn, ops, cleaning, stage, cleaned, stopped
catalogue == <<mapped, releases, publications, commands, settings, element, declared, schemaZone, decision, told>>
database == <<holder, fixtures, run, phase, step, late, owner, asked, conn, ops, cleaning, stage, cleaned, stopped>>
relationships == <<outbox, graph, tx>>
allVars == <<subject, input, answer, catalogue, database, relationships>>

LOCAL Column(name, treatment, threshold, domain) ==
  [name |-> name, element |-> name, treatment |-> treatment, threshold |-> threshold, domain |-> domain,
   state |-> IF treatment \in {"withheld", "undecided"} THEN treatment ELSE "emitted"]
Table == [name |-> "t",
          columns |-> <<Column("c", "clear", 0, "none"), Column("k", "tokenized", 0, "d1"),
                        Column("j", "tokenized", 0, "d2"), Column("a", "aggregate_only", 2, "none"),
                        Column("s", "custody", 0, "none"), Column("w", "withheld", 0, "none"),
                        Column("u", "undecided", 0, "none")>>]

Filter == INSTANCE QueryPreFilter WITH Views <- {Table}, Omitted <- {"gone"}, EngineBuild <- "build",
  Lower <- [A |-> "a"]
LOCAL Planned == SelectSeq(Table.columns, LAMBDA c : c.state = "emitted")
Engine == INSTANCE EngineInspection WITH Tables <- {[name |-> "t", contributor |-> "who", columns |-> Planned]},
                                         Threshold <- 2, EngineBuild <- "build"
------------------------------------------------------------------------------
(* What a statement answers over a small database, to hold the verdicts of    *)
(* the two inspections against: the statements are theirs, a value is a       *)
(* natural number, a truth value is 0 or 1, and Null is a value of its own.   *)
(* SQL leaves open whether a name that is a column and an output alias means  *)
(* the one or the other in a clause: aliasFirst says which, and the verdict   *)
(* has to be right under both.  A statement that aggregates in WHERE or       *)
(* GROUP BY is an error: no answer.                                           *)

LOCAL Truth(b) == IF b THEN 1 ELSE 0
LOCAL Total(s) ==
  LET sum[i \in 0..Len(s)] == IF i = 0 THEN 0 ELSE sum[i - 1] + s[i] IN sum[Len(s)]
LOCAL Least(S) == CHOOSE x \in S : \A y \in S : x <= y
LOCAL Greatest(S) == CHOOSE x \in S : \A y \in S : x >= y

Null == 1000
LOCAL Folded(name, distinct, s) ==
  CASE name = "count" -> IF distinct THEN Cardinality(ToSet(s)) ELSE Len(s)
    [] s = <<>> -> 0
    [] name = "sum" -> Total(s)
    [] name = "avg" -> Total(s) \div Len(s)
    [] name = "min" -> Least(ToSet(s))
    [] name = "max" -> Greatest(ToSet(s))

LOCAL Compared(type, a, b) ==
  CASE type = "COMPARE_EQUAL" -> a = b
    [] type = "COMPARE_NOTEQUAL" -> a # b
    [] type = "COMPARE_LESSTHAN" -> a < b

(* The cells of a row that a name may mean.                                   *)
LOCAL Cells(e, row) ==
  SelectSeq(row, LAMBDA c : c.name = e.name /\ (e.qualifier = "" \/ e.qualifier = c.qualifier))

LOCAL First(rows) == IF rows = <<>> THEN Null ELSE rows[1][1].value

RECURSIVE Value(_, _, _, _), Answer(_, _, _, _)
Value(e, group, items, env) ==
  LET of(x) == Value(x, group, items, env)
      alias == SelectSeq(items, LAMBDA item : item.alias = e.name)
      cells == IF group = <<>> THEN <<>> ELSE Cells(e, group[1])
  IN CASE e.class = "CONSTANT" -> e.value
       [] e.class = "STAR" -> group[1][1].value
       [] e.class = "COLUMN_REF" ->
            IF cells # <<>> /\ ~(env.aliasFirst /\ e.qualifier = "" /\ alias # <<>>) THEN cells[1].value
            ELSE IF alias # <<>> THEN Value(alias[1].expr, group, <<>>, env) ELSE 0
       [] e.class = "SUBQUERY" -> First(Answer(e.query, env.db, <<>>, env.aliasFirst))
       [] e.class = "FUNCTION" /\ e.isOperator -> of(e.children[1]) + of(e.children[2])
       [] e.class = "FUNCTION" ->
            Folded(e.name, e.distinct,
                   SelectSeq([i \in DOMAIN group |-> Value(e.children[1], <<group[i]>>, items, env)], LAMBDA v : v # Null))
       [] e.class = "CASE" ->
            IF of(e.when[1]) # 0 THEN of(e.then[1]) ELSE IF e.otherwise.type = "VALUE_NULL" THEN Null ELSE of(e.otherwise)
       [] e.type = "OPERATOR_IS_NOT_NULL" -> Truth(of(e.children[1]) # Null)
       [] e.class = "COMPARISON" -> Truth(Compared(e.type, of(e.left), of(e.right)))
       [] e.class = "BETWEEN" -> Truth(of(e.lower) <= of(e.input) /\ of(e.input) <= of(e.upper))
       [] e.type = "OPERATOR_NOT" -> 1 - of(e.children[1])
       [] OTHER -> Truth(\A i \in DOMAIN e.children : of(e.children[i]) # 0)

(* An aggregate, or a name that can only be the alias of one.                 *)
RECURSIVE Aggregated(_, _)
Aggregated(e, aliases) ==
  CASE e.class = "FUNCTION" -> ~e.isOperator \/ \E i \in DOMAIN e.children : Aggregated(e.children[i], aliases)
    [] e.class = "COMPARISON" -> Aggregated(e.left, aliases) \/ Aggregated(e.right, aliases)
    [] e.class = "BETWEEN" -> Aggregated(e.input, aliases)
    [] e.class \in {"CONJUNCTION", "OPERATOR"} -> \E i \in DOMAIN e.children : Aggregated(e.children[i], aliases)
    [] e.class = "CASE" -> \E x \in {e.when[1], e.then[1], e.otherwise} : Aggregated(x, aliases)
    [] e.class = "COLUMN_REF" -> e.name \in aliases
    [] OTHER -> FALSE

(* Rows with equal keys together, in the order in which the keys first occur. *)
LOCAL Gather(rows, keys) ==
  LET firsts == SelectSeq([i \in DOMAIN rows |-> i], LAMBDA i : \A j \in 1..(i - 1) : keys[j] # keys[i])
      like(k) == SelectSeq([i \in DOMAIN rows |-> i], LAMBDA i : keys[i] = k)
      group(is) == [n \in DOMAIN is |-> rows[is[n]]]
  IN [n \in DOMAIN firsts |-> group(like(keys[firsts[n]]))]

LOCAL Sorted(groups, keys) ==
  LET n == Len(groups)
      before(i, j) == keys[i] < keys[j] \/ (keys[i] = keys[j] /\ i < j)
      rank(i) == Cardinality({j \in 1..n : j = i \/ before(j, i)})
  IN [r \in 1..n |-> groups[CHOOSE i \in 1..n : rank(i) = r]]

RECURSIVE Rows(_, _, _, _)

(* A row of a relation is a sequence of cells.                                *)
LOCAL Under(name, rows) == [i \in DOMAIN rows |-> [j \in DOMAIN rows[i] |-> [rows[i][j] EXCEPT !.qualifier = name]]]
LOCAL Pairs(left, right) == FlattenSeq([i \in DOMAIN left |-> [j \in DOMAIN right |-> left[i] \o right[j]]])
LOCAL Meeting(t, rows, env) ==
  SelectSeq(rows, LAMBDA row : \A i \in DOMAIN t.condition : Value(t.condition[i], <<row>>, <<>>, env) # 0)
Rows(t, db, ctes, aliasFirst) ==
  CASE t.type = "BASE_TABLE" ->
         Under(IF t.alias = "" THEN t.table ELSE t.alias,
               IF t.qualified THEN db[t.table] ELSE Answer(ctes[t.table], db, ctes, aliasFirst))
    [] t.type = "SUBQUERY" -> Under(t.alias, Answer(t.query, db, ctes, aliasFirst))
    [] t.type = "JOIN" ->
         Meeting(t, Pairs(Rows(t.left, db, ctes, aliasFirst), Rows(t.right, db, ctes, aliasFirst)),
                 [aliasFirst |-> aliasFirst, db |-> db])

(* The clauses of a query, in the order in which they take effect.            *)
LOCAL Meant(q, e) == IF e.class = "CONSTANT" /\ e.value \in DOMAIN q.select THEN q.select[e.value].expr ELSE e
LOCAL Sums(q) == {item \in ToSet(q.select) : Aggregated(item.expr, {})}
LOCAL Early(q, e, row, env) == Value(e, <<row>>, q.select, [env EXCEPT !.aliasFirst = @ /\ Sums(q) = {}])
LOCAL Illegal(q, all) ==
  LET onlyAliases == {item.alias : item \in Sums(q)} \ {all[1][i].name : i \in DOMAIN all[1]}
  IN \E e \in ToSet(q.where) \cup {Meant(q, g) : g \in ToSet(q.group)} : Aggregated(e, onlyAliases)

LOCAL Where(q, all, env) ==
  SelectSeq(all, LAMBDA row : \A i \in DOMAIN q.where : Early(q, q.where[i], row, env) # 0)
LOCAL GroupBy(q, rows, env) ==
  CASE q.group # <<>> -> Gather(rows, [i \in DOMAIN rows |-> Early(q, Meant(q, q.group[1]), rows[i], env)])
    [] Sums(q) # {} \/ q.having # <<>> -> <<rows>>
    [] OTHER -> [i \in DOMAIN rows |-> <<rows[i]>>]
LOCAL Having(q, groups, env) ==
  SelectSeq(groups, LAMBDA g : \A i \in DOMAIN q.having : Value(q.having[i], g, q.select, env) # 0)
LOCAL OrderBy(q, groups, env) ==
  IF q.order = <<>> THEN groups
  ELSE Sorted(groups, [i \in DOMAIN groups |-> Value(Meant(q, q.order[1]), groups[i], q.select, env)])

LOCAL Output(item, g, env) ==
  IF item.expr.class = "STAR" THEN g[1]
  ELSE <<[qualifier |-> "", value |-> Value(item.expr, g, <<>>, env),
          name |-> IF item.alias # "" THEN item.alias ELSE IF item.expr.class = "COLUMN_REF" THEN item.expr.name ELSE ""]>>
LOCAL Selected(q, groups, env) ==
  [g \in DOMAIN groups |-> FlattenSeq([i \in DOMAIN q.select |-> Output(q.select[i], groups[g], env)])]
LOCAL Distinct(q, rows) ==
  LET same(i, j) == Len(rows[i]) = Len(rows[j]) /\ \A c \in DOMAIN rows[i] : rows[i][c].value = rows[j][c].value
      firsts == SelectSeq([i \in DOMAIN rows |-> i], LAMBDA i : ~\E j \in 1..(i - 1) : same(i, j))
  IN IF q.distinct THEN [n \in DOMAIN firsts |-> rows[firsts[n]]] ELSE rows
LOCAL Limit(q, rows) ==
  LET bounds == IF q.limit = <<>> THEN <<>> ELSE IF q.limit[1].class = "CONSTANT" THEN q.limit ELSE q.limit[1].children
  IN SubSeq(rows, 1, Least({Len(rows)} \cup {bounds[i].value : i \in DOMAIN bounds}))

LOCAL Within(q, all, env) ==
  IF all = <<>> \/ Illegal(q, all) THEN <<>>
  ELSE Limit(q, Distinct(q, Selected(q, OrderBy(q, Having(q, GroupBy(q, Where(q, all, env), env), env), env), env)))
LOCAL Declared(q, outer) ==
  [name \in DOMAIN outer \cup {c.name : c \in ToSet(q.ctes)} |->
     IF \E c \in ToSet(q.ctes) : c.name = name THEN (CHOOSE c \in ToSet(q.ctes) : c.name = name).query ELSE outer[name]]
Answer(q, db, outer, aliasFirst) ==
  IF q.union # <<>> THEN Answer(q.union[1], db, outer, aliasFirst) \o Answer(q.union[2], db, outer, aliasFirst)
  ELSE Within(q, Rows(q.from, db, Declared(q, outer), aliasFirst), [aliasFirst |-> aliasFirst, db |-> db])

------------------------------------------------------------------------------
LOCAL Col(n) == [class |-> "COLUMN_REF", type |-> "COLUMN_REF", qualifier |-> "", name |-> n]
LOCAL Of(q, n) == [Col(n) EXCEPT !.qualifier = q]
LOCAL Number(i) == [class |-> "CONSTANT", type |-> "VALUE_CONSTANT", integer |-> TRUE, value |-> i]
LOCAL Fun(f, es) == [class |-> "FUNCTION", type |-> "FUNCTION", name |-> f, isOperator |-> f = "+", children |-> es,
                     filter |-> <<>>, ordered |-> FALSE, distinct |-> FALSE]
LOCAL If(c, a, b) == [class |-> "CASE", type |-> "CASE_EXPR", when |-> <<c>>, then |-> <<a>>, otherwise |-> b]
LOCAL Scalar(q) == [class |-> "SUBQUERY", type |-> "SUBQUERY", query |-> q, child |-> <<>>]
LOCAL Compare(o, l, r) == [class |-> "COMPARISON", type |-> o, left |-> l, right |-> r]
LOCAL Not(e) == [class |-> "OPERATOR", type |-> "OPERATOR_NOT", children |-> <<e>>]
LOCAL Spanning(e) == [class |-> "BETWEEN", type |-> "COMPARE_BETWEEN", input |-> e, lower |-> Number(0), upper |-> Number(21)]
LOCAL Star == [class |-> "STAR", type |-> "STAR", relation |-> ""]
LOCAL Whole(alias) == [type |-> "BASE_TABLE", qualified |-> TRUE, table |-> "t", alias |-> alias]
LOCAL Named(table) == [type |-> "BASE_TABLE", qualified |-> FALSE, table |-> table, alias |-> ""]
LOCAL Sub(q) == [type |-> "SUBQUERY", query |-> q, alias |-> "q", columns |-> <<>>]
LOCAL On(e) == [type |-> "JOIN", left |-> Whole("l"), right |-> Whole("r"), condition |-> <<e>>, alias |-> ""]
LOCAL Item(e, alias) == [expr |-> e, alias |-> alias]
LOCAL Select(items, from) ==
  [select |-> items, from |-> from, ctes |-> <<>>, where |-> <<>>, group |-> <<>>, having |-> <<>>,
   order |-> <<>>, limit |-> <<>>, distinct |-> FALSE, union |-> <<>>]
LOCAL Union(l, r) == [Select(<<>>, [type |-> "EMPTY"]) EXCEPT !.union = <<l, r>>]
LOCAL Statement(q) == [build |-> "build", query |-> q]

(* What may be written with one name, and the clauses it may be written in.   *)
LOCAL Uses(e) ==
  {e, Fun("+", <<e, Number(0)>>), Compare("COMPARE_EQUAL", e, Number(0)), Compare("COMPARE_LESSTHAN", e, Number(22)),
   Not(Compare("COMPARE_LESSTHAN", e, Number(22))), Spanning(e), Fun("sum", <<Fun("+", <<e, Number(0)>>)>>),
   Compare("COMPARE_LESSTHAN", Fun("max", <<e>>), Number(22))}
  \cup {Fun(f, <<e>>) : f \in {"sum", "avg", "min", "count"}}
LOCAL InClause(q, e) ==
  {[q EXCEPT !.where = <<e>>], [q EXCEPT !.group = <<e>>], [q EXCEPT !.having = <<e>>], [q EXCEPT !.order = <<e>>]}

LOCAL Columns == {"c", "k", "a"}
LOCAL Expressions(names) == UNION {Uses(Col(n)) : n \in names}
LOCAL Singles == {Select(<<Item(e, alias)>>, Whole("")) : e \in Expressions(Columns), alias \in {"x", "c"}}
LOCAL Direct == Singles \cup UNION {InClause(q, e) : q \in Singles, e \in Expressions(Columns \cup {"x"})}
                        \cup UNION {InClause(q, Number(1)) : q \in Singles}

LOCAL Nested ==
  LET inner == {Select(<<Item(e, "x"), Item(Col("c"), "")>>, Whole("")) : e \in Expressions(Columns)}
      over == {Select(<<Item(e, "y")>>, Sub(q)) : e \in Uses(Of("q", "x")) \cup {Star}, q \in inner}
      after == {[Select(<<Item(e, "y")>>, Named("v")) EXCEPT !.ctes = <<[name |-> "v", columns |-> <<>>, query |-> q]>>]
                  : e \in {Col("x"), Col("c"), Star}, q \in inner}
      outer == over \cup after
  IN outer \cup UNION {InClause(q, e) : q \in outer, e \in {Col("x"), Number(1), Compare("COMPARE_LESSTHAN", Col("x"), Number(22))}}

LOCAL Joined ==
  {Select(<<Item(e, "x")>>, On(Compare(o, Of("l", n), Of("r", m))))
     : e \in {Of("l", "c"), Of("r", "k"), Fun("sum", <<Of("l", "a")>>)}, n \in {"c", "k", "j", "a"},
       m \in {"c", "k", "j", "a"}, o \in {"COMPARE_EQUAL", "COMPARE_LESSTHAN"}}

(* Sums over groups, under every clause that chooses among the groups.        *)
LOCAL Totals ==
  LET grouped == {[Select(<<Item(Col("c"), ""), Item(Fun(f, <<Col("a")>>), "x")>>, Whole("")) EXCEPT !.group = <<g>>]
                    : f \in {"sum", "count"}, g \in {Col("c"), Number(1)}}
      chosen == {[q EXCEPT !.where = <<Compare(o, Col("c"), Number(2))>>] : q \in grouped, o \in {"COMPARE_LESSTHAN", "COMPARE_EQUAL"}}
      kept == {[q EXCEPT !.having = <<Compare("COMPARE_LESSTHAN", e, Number(n))>>]
                 : q \in grouped, e \in {Col("c"), Fun("sum", <<Col("a")>>)}, n \in {2, 14}}
  IN grouped \cup chosen \cup kept \cup {[q EXCEPT !.order = <<Number(2)>>] : q \in grouped}
     \cup {[q EXCEPT !.distinct = TRUE] : q \in grouped} \cup {[q EXCEPT !.limit = <<Number(1)>>] : q \in grouped}

(* What only the engine reads.                                                *)
LOCAL Further ==
  LET small(n) == Select(<<Item(Col(n), "x")>>, Whole(""))
      chosen == {If(Compare("COMPARE_LESSTHAN", Col(n), Number(22)), Col(m), Number(0)) : n \in Columns, m \in Columns}
      nested == chosen \cup {Scalar(small(n)) : n \in Columns} \cup {Scalar(Select(<<Item(Fun("sum", <<Col("a")>>), "x")>>, Whole("")))}
  IN {Select(<<Item(u, "x")>>, Whole("")) : u \in UNION {Uses(e) : e \in nested}}
     \cup UNION {InClause(small("c"), u) : u \in UNION {Uses(e) : e \in nested}}
     \cup {Union(small(n), small(m)) : n \in Columns, m \in Columns}
     \cup {Select(<<Item(u, "y")>>, Sub(Union(small("c"), small(n)))) : u \in Uses(Col("x")), n \in Columns}

Statements == {Statement(q) : q \in Direct \cup Nested \cup Joined \cup Totals \cup Further}

------------------------------------------------------------------------------
LOCAL Source(id, alias) == [id |-> id, alias |-> alias]
LOCAL Own == Source("s", <<"a">>)
LOCAL Object(id, source, schema, name) == [id |-> id, source |-> source, schema |-> schema, name |-> name, active |-> TRUE]
LOCAL Element(id, object, ordinal, name, treatment) ==
  [id |-> id, object |-> object, name |-> name, ordinal |-> ordinal, active |-> TRUE, usable |-> name # <<>>, suits |-> TRUE,
   contributor |-> treatment = "clear", countable |-> TRUE, treatment |-> treatment]
LOCAL Policy(sources, objects, elements) == [sources |-> sources, objects |-> objects, elements |-> elements]

LOCAL Objects(id) ==
  {Object(id, s, c, n) : s \in {"s", "t"}, c \in {<<"a">>, <<"b">>, <<"b", "_", "_", "a">>},
                         n \in {<<"a">>, <<"b">>, <<"A">>, <<"a", "_", "_", "b">>}}
LOCAL NamedPolicies ==
  {Policy(S, {o, p}, {Element("e", "o", 1, <<"a">>, t), Element("f", "p", 1, <<"a">>, u)})
     : S \in {{Own}} \cup {{Own, Source("t", alias)} : alias \in {<<"a", "_", "_", "a">>, <<"A">>, <<"b">>}},
       o \in Objects("o"), p \in Objects("p"), t \in {"clear", "withheld"}, u \in {"clear", "undecided"}}
LOCAL DecidedPolicies ==
  {Policy({Own}, {Object("o", "s", <<"a">>, <<"a">>)},
          {Element("e", "o", i, n, t), Element("f", "o", 1, <<"b">>, u), Element("g", "o", 3, <<"a">>, v)})
     : i \in 0..2, n \in {<<>>, <<"A">>, <<"c">>}, t \in {"undecided", "withheld", "clear", "aggregate_only"},
       u \in {"undecided", "withheld", "clear", "aggregate_only"}, v \in {"undecided", "withheld", "clear", "aggregate_only"}}

(* Two columns; the same with their names exchanged and one of another type; *)
(* one of them under a new name, the other dropped or hidden.                 *)
LOCAL Shows(ref, type) == [ref |-> ref, type |-> type]
Shown ==
  {"a" :> Shows(1, "int4") @@ "b" :> Shows(2, "timestamp"), "b" :> Shows(1, "timestamp") @@ "a" :> Shows(2, "timestamp"),
   "d" :> Shows(2, "timestamp")}
Catalogue == INSTANCE CataloguePublication WITH
  Base <- [n \in {"a", "b", "d"} |-> "x"], SourceType <- {"int4", "timestamp"}, Snapshot <- Shown,
  Setting <- {[rename |-> "carry", family |-> "revert", adopt |-> TRUE],
              [rename |-> "new", family |-> "carry", adopt |-> FALSE]},
  MaxReleases <- 1, MaxPublications <- 3, MaxCommands <- 2

Tests == INSTANCE TestDatabase WITH Client <- Driver, rows <- fixtures, Phases <- 3, MaxCalls <- 3

InitAll ==
  /\ \/ subject \in {"catalogue", "tests", "outbox"} /\ input = <<>>
     \/ subject = "policy" /\ input \in NamedPolicies \cup DecidedPolicies
     \/ subject = "statement" /\ input \in Statements
  /\ answer = <<>>
  /\ Catalogue!Init
  /\ subject = "catalogue" \/ settings.adopt
  /\ Tests!Init /\ run = CHOOSE i \in Invocation : TRUE
  /\ Init
Inspect ==
  /\ subject = "statement" /\ answer = <<>>
  /\ answer' = [filter |-> Filter!Inspect(input).verdict, engine |-> Engine!Validate(input)]
  /\ UNCHANGED <<subject, input, catalogue, database, relationships>>
Compile ==
  /\ subject = "policy" /\ answer = <<>>
  /\ answer' = Filter!compileViews(input)
  /\ UNCHANGED <<subject, input, catalogue, database, relationships>>
Manage == subject = "catalogue" /\ Catalogue!Next /\ UNCHANGED <<subject, input, answer, database, relationships>>
Test == subject = "tests" /\ Tests!Next /\ UNCHANGED <<subject, input, answer, catalogue, relationships>>
Relate == subject = "outbox" /\ Next /\ UNCHANGED <<subject, input, answer, catalogue, database>>
NextAll == Inspect \/ Compile \/ Manage \/ Test \/ Relate
SpecAll == InitAll /\ [][NextAll]_allVars
------------------------------------------------------------------------------
LOCAL Record(c, k, j, a, who) ==
  LET cell(n, v) == [qualifier |-> "t", name |-> n, value |-> v]
  IN <<cell("c", c), cell("k", k), cell("j", j), cell("a", a), cell("s", 7), cell("who", who)>>
LOCAL Swap(v) == CASE v = 21 -> 22 [] v = 22 -> 21 [] OTHER -> v
LOCAL Swapped(rows) == [i \in DOMAIN rows |-> [j \in DOMAIN rows[i] |-> [rows[i][j] EXCEPT !.value = Swap(@)]]]
LOCAL Values(rows) == [i \in DOMAIN rows |-> [j \in DOMAIN rows[i] |-> rows[i][j].value]]
LOCAL Outcome(rows, aliasFirst) == Answer(input.query, [t |-> rows], <<>>, aliasFirst)
LOCAL Executed(plan, rows) == Engine!Result(plan, Answer(plan.query, [t |-> rows], <<>>, FALSE))
LOCAL Ran(rows, limit) == Executed(Engine!Plan(input, limit), rows)
LOCAL Inspected == subject = "statement" /\ answer # <<>>
LOCAL Accepted == Inspected /\ (answer.filter = "requires_sidecar_inspection" \/ answer.engine = "")

(* Tokens preserve equality only: with two tokens of a column exchanged in   *)
(* the data, a statement that either inspection accepts answers the same rows *)
(* in the same order, with the two exchanged (aggregate.ts:56, 113-114, 130;  *)
(* treatments.ts:53-55, 134-136, 150).                                        *)
TokensKeepEqualityOnly ==
  LET rows == <<Record(1, 21, 31, 5, 91), Record(2, 22, 32, 6, 92), Record(2, 21, 31, 6, 93)>>
  IN Accepted => \A aliasFirst \in BOOLEAN :
       Values(Outcome(Swapped(rows), aliasFirst)) = Values(Swapped(Outcome(rows, aliasFirst)))

(* An aggregate-only column enters an answer only through SUM, AVG or COUNT  *)
(* over a group: where no other column tells the rows apart, a statement that *)
(* either inspection accepts cannot tell 4 and 6 from 5 and 5                 *)
(* (aggregate.ts:50-54, 108-112; treatments.ts:48-51, 128-133).               *)
AggregatesHideRows ==
  Accepted => \A aliasFirst \in BOOLEAN :
    Values(Outcome(<<Record(1, 21, 31, 4, 91), Record(1, 21, 31, 6, 92)>>, aliasFirst))
      = Values(Outcome(<<Record(1, 21, 31, 5, 91), Record(1, 21, 31, 5, 92)>>, aliasFirst))

(* The engine is the authority and the pre-filter only the first to say no:   *)
(* what the one refuses for its treatment, the other does not accept          *)
(* (aggregate.ts:44-60; treatments.ts:46-57).                                 *)
NeitherIsLooser ==
  Inspected /\ answer.filter \in {"unsupported_on_token", "unsupported_on_aggregate_only"} => answer.engine # ""

(* A group with a single contributor leaves no trace in an answer: however   *)
(* many rows a join makes of it, a sum over it alone is not answered, and a   *)
(* grouped sum is answered as if it were not there, or not at all             *)
(* (cardinality.ts:12-30; execute.ts:57-72, 92-97).                           *)
LonelyGroupsStayOut ==
  LET alone == <<Record(1, 21, 31, 4, 91), Record(1, 21, 31, 6, 91)>>
      large == <<Record(1, 21, 31, 4, 91), Record(1, 21, 31, 6, 92)>>
      small == <<Record(2, 21, 31, 4, 93), Record(2, 21, 31, 5, 93)>>
      sums == Engine!Inspect(input.query, FALSE).contributors # <<>>
      byC == input.query.group \in {<<Col("c")>>, <<Number(1)>>} /\ input.query.select[1].expr = Col("c")
  IN Inspected /\ answer.engine = "" /\ sums => \A limit \in {0, 1} :
       /\ Ran(alone, limit).rows = <<>>
       /\ byC /\ Ran(large \o small, limit).kind = "rows"
            => Values(Ran(large \o small, limit).rows) = Values(Ran(large, limit).rows)

(* What validation accepts, execution reads as well: the engine's count and   *)
(* its row limit make nothing of it that it would refuse.  Set operations are *)
(* the exception: the limit is a modifier, which they may not have            *)
(* (execute.ts:63-79; validate.ts:34; treatments.ts:251).                     *)
ValidatedIsReadable ==
  Inspected /\ answer.engine = "" /\ input.query.union = <<>> => \A limit \in {0, 1} :
    Ran(<<Record(1, 21, 31, 4, 91), Record(1, 21, 31, 6, 92)>>, limit).kind # "sql_not_permitted"

(* A limited answer is the beginning of the full one, and says so when it is  *)
(* not all of it (row-limit.ts:3-13; execute.ts:103-105).                     *)
LimitedIsAPrefix ==
  LET rows == <<Record(1, 21, 31, 4, 91), Record(1, 22, 31, 6, 92), Record(2, 21, 31, 5, 93), Record(2, 21, 31, 4, 94)>>
      full == Ran(rows, 0)
      short == Ran(rows, 1)
  IN Inspected /\ answer.engine = "" /\ full.kind = "rows" /\ short.kind = "rows" =>
       /\ Values(short.rows) = Values(SubSeq(full.rows, 1, Len(short.rows)))
       /\ short.truncated = (Len(short.rows) < Len(full.rows))

(* CompiledNamesAreOwn: where a policy compiles, each of its objects is found *)
(* under its address in any case, as its own view or as unavailable, and no  *)
(* two views are staged under one name (compile.ts:92-95, 116-119,           *)
(* resolve.ts:10-13, 28-41).                                                 *)
CompiledNamesAreOwn ==
  subject = "policy" /\ answer # <<>> /\ answer.ok =>
    LET Upper(address) == [i \in DOMAIN address |-> [j \in DOMAIN address[i] |-> IF address[i][j] = "a" THEN "A" ELSE address[i][j]]]
        found(address) == Filter!resolveIdentifier(answer, address)
    IN /\ \A v, w \in answer.views : v # w => Filter!Staged(v.address) # Filter!Staged(w.address)
       /\ \A o \in Filter!ActiveObjects(input) :
            LET address == Filter!Address(input, o)
                E == Filter!ElementsOf(input, o)
            IN \A spelled \in {address, Upper(address)} :
                 IF \E e \in E : e.treatment \notin {"withheld", "undecided"}
                 THEN found(spelled) = Filter!View(input, o)
                 ELSE found(spelled) = "object_unavailable"

(* NothingMoreIsDisclosed: whatever is accepted, its answer tells no more of  *)
(* tokens, of aggregate-only columns and of small groups than it may.         *)
NothingMoreIsDisclosed == TokensKeepEqualityOnly /\ AggregatesHideRows /\ LonelyGroupsStayOut

(* Names stay distinct, and decisions on the column they were made on        *)
(* (CataloguePublication); what a test that was given up began is over before *)
(* another one relies on the database, or none does (TestDatabase).           *)
DecisionsKeepTheirGround ==
  /\ Catalogue!OneNameOneKey /\ Catalogue!DecisionsKeepTheirGround
  /\ Tests!AbandonedIsOver /\ Tests!NoneDeadIsLent
  /\ Tests!NothingFollowsAStop /\ Tests!FixturesAreItsOwn

(* Tokens, names and decisions change only as someone confirmed or is told   *)
(* (CataloguePublication).                                                    *)
NothingChangesUntold == Catalogue!TokensChangeKnowingly /\ Catalogue!NamesAndDecisionsGoTold
==============================================================================
